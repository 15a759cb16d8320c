---------------------------- MODULE BinaryFormat ----------------------------
(* BinaryWriter and BinaryReader of packages/runtime, and the 64 bit varints *)
(* of goog-varint.ts. A writer is a record of its three fields; a reader is  *)
(* its bytes and a position, the number of bytes read so far. A 32 bit       *)
(* number of the 64 bit code is the set of its bits.                         *)
EXTENDS Integers, SequencesExt, FiniteSetsExt

\* Wire types.
VARINT == 0
BIT64 == 1
LENGTH_DELIMITED == 2
BIT32 == 5

-----------------------------------------------------------------------------
(* 32 bit numbers as sets of bits.                                           *)

BitNumbers == 0 .. 31
Shr(x, n) == {b - n : b \in {c \in x : c >= n}}
Shl(x, n) == {b + n : b \in x} \cap BitNumbers
Xor(x, y) == (x \cup y) \ (x \cap y)
BitsOf(byte) == {b \in 0 .. 7 : (byte \div 2 ^ b) % 2 = 1}
ByteOf(bits) == FoldSet(LAMBDA b, sum : sum + 2 ^ b, 0, bits)

\* The bits of x from `first` on that fit in n bits.
Slice(x, first, n) == Shr(x, first) \cap 0 .. n - 1

-----------------------------------------------------------------------------
(* Varints.                                                                  *)

Varint32[n \in Nat] ==
    IF n < 128 THEN <<n>> ELSE <<(n % 128) + 128>> \o Varint32[n \div 128]

\* varint64write in groups of seven bits: four of lo, one of both words, four
\* of hi, and the last bit of hi.
Group(lo, hi, g) ==
    CASE g < 4 -> Slice(lo, 7 * g, 7)
      [] g = 4 -> Slice(lo, 28, 4) \cup Shl(Slice(hi, 0, 3), 4)
      [] g \in 5 .. 8 -> Slice(hi, 3 + 7 * (g - 5), 7)
      [] g = 9 -> Slice(hi, 31, 1)

\* hasNext, hasMoreBits
HasNext(lo, hi, g) ==
    CASE g < 4 -> Shr(lo, 7 * g + 7) # {} \/ hi # {}
      [] g \in 4 .. 8 -> Shr(hi, 3 + 7 * (g - 4)) # {}
      [] g = 9 -> FALSE

Varint64(long) ==
    LET last == CHOOSE g \in 0 .. 9 :
                    /\ ~HasNext(long.lo, long.hi, g)
                    /\ \A f \in 0 .. g - 1 : HasNext(long.lo, long.hi, f)
    IN [i \in 1 .. last + 1 |->
          ByteOf(Group(long.lo, long.hi, i - 1)) + (IF i <= last THEN 128 ELSE 0)]

\* varint64read of the bytes of one varint.
FromVarint64(bytes) ==
    LET bits == [i \in DOMAIN bytes |-> Slice(BitsOf(bytes[i]), 0, 7)]
        Of(is, Shifted(_)) == UNION {Shifted(i) : i \in is \cap DOMAIN bytes}
    IN [lo |-> Of(1 .. 4, LAMBDA i : Shl(bits[i], 7 * (i - 1)))
               \cup Of({5}, LAMBDA i : Shl(Slice(bits[i], 0, 4), 28)),
        hi |-> Of({5}, LAMBDA i : Shr(bits[i], 4))
               \cup Of(6 .. 10, LAMBDA i : Shl(bits[i], 3 + 7 * (i - 6)))]

\* sint64: zigzag, as two words.
ZigZag(long) ==
    LET sign == IF 31 \in long.hi THEN BitNumbers ELSE {} IN
    [lo |-> Xor(Shl(long.lo, 1), sign),
     hi |-> Xor(Shl(long.hi, 1) \cup Shr(long.lo, 31), sign)]
FromZigZag(long) ==
    LET s == IF 0 \in long.lo THEN BitNumbers ELSE {} IN
    [lo |-> Xor(Shr(long.lo, 1) \cup Shl(Slice(long.hi, 0, 1), 31), s),
     hi |-> Xor(Shr(long.hi, 1), s)]

\* Four bytes, little endian (setUint32, getUint32).
Fixed32(x) == [i \in 1 .. 4 |-> ByteOf(Slice(x, 8 * (i - 1), 8))]
FromFixed32(bytes) == UNION {Shl(BitsOf(bytes[i]), 8 * (i - 1)) : i \in 1 .. 4}

-----------------------------------------------------------------------------
(* BinaryWriter.                                                             *)

NewWriter == [chunks |-> <<>>, buf |-> <<>>, stack |-> <<>>]

\* uint32, int64, ...: bytes are pushed to the growing buffer.
Push(w, bytes) == [w EXCEPT !.buf = @ \o bytes]

\* Mutant: the buffer is not flushed first.
RawUnflushed(w, chunk) == [w EXCEPT !.chunks = Append(@, chunk)]

\* raw: the buffer is flushed, if there is anything in it, then the chunk.
Raw(w, chunk) ==
    [w EXCEPT !.chunks = Append(IF w.buf = <<>> THEN @ ELSE Append(@, w.buf), chunk),
              !.buf = <<>>]

Tag(w, no, wireType) == Push(w, Varint32[8 * no + wireType])

\* finish: the bytes it returns. (Nothing writes to a writer after that.)
Finish(w) == FlattenSeq(Append(w.chunks, w.buf))

Fork(w) ==
    [chunks |-> <<>>, buf |-> <<>>,
     stack |-> Append(w.stack, [chunks |-> w.chunks, buf |-> w.buf])]

\* join: the fork's bytes, behind their length, in the writer as it was before.
Join(w) ==
    LET prev == [chunks |-> Last(w.stack).chunks, buf |-> Last(w.stack).buf,
                 stack |-> Front(w.stack)]
    IN Raw(Push(prev, Varint32[Len(Finish(w))]), Finish(w))

-----------------------------------------------------------------------------
(* BinaryReader. A read answers with the position after it and the value. A  *)
(* position behind the end stands for the error that is thrown there.        *)

Failed(d) == Len(d) + 1
Failure(d) == [pos |-> Failed(d), val |-> 0]

\* Mutant: what is there is enough.
Clamped(d, pos) == IF pos > Len(d) THEN Len(d) ELSE pos

\* assertBounds
Bounded(d, pos) == IF pos > Len(d) THEN Failed(d) ELSE pos

\* The bytes of the varint at a position; none if it does not end in time.
VarintAt(d, pos) ==
    LET ends == {e \in pos + 1 .. Len(d) : d[e] < 128 /\ e - pos <= 10} IN
    IF ends = {} THEN <<>> ELSE SubSeq(d, pos + 1, Min(ends))

\* The position and the bytes behind a varint.
ReadVarint(d, pos) ==
    LET bytes == VarintAt(d, pos) IN
    [pos |-> IF bytes = <<>> THEN Failed(d) ELSE pos + Len(bytes), val |-> bytes]

\* uint32; 64 bit varints
ReadUint32(d, pos) ==
    [ReadVarint(d, pos) EXCEPT !.val = FoldRight(LAMBDA b, n : (b % 128) + 128 * n, @, 0)]
ReadUint64(d, pos) == [ReadVarint(d, pos) EXCEPT !.val = FromVarint64(@)]
ReadSint64(d, pos) == [ReadVarint(d, pos) EXCEPT !.val = FromZigZag(FromVarint64(@))]

\* fixed32, fixed64: the DataView throws when it is read behind its end.
ReadFixed32(d, pos) ==
    IF pos + 4 > Len(d) THEN Failure(d)
    ELSE [pos |-> pos + 4, val |-> FromFixed32(SubSeq(d, pos + 1, pos + 4))]
ReadFixed64(d, pos) ==
    IF pos + 8 > Len(d) THEN Failure(d)
    ELSE [pos |-> pos + 8,
          val |-> [lo |-> FromFixed32(SubSeq(d, pos + 1, pos + 4)),
                   hi |-> FromFixed32(SubSeq(d, pos + 5, pos + 8))]]

\* skip: the position after an element. (Groups are not written by this code.)
Skip(d, pos, wireType) ==
    Bounded(d,
      CASE wireType = VARINT -> ReadUint64(d, pos).pos
        [] wireType = BIT64 -> pos + 8
        [] wireType = BIT32 -> pos + 4
        [] wireType = LENGTH_DELIMITED ->
             LET len == ReadUint32(d, pos) IN len.pos + len.val
        [] OTHER -> Failed(d))
=============================================================================
