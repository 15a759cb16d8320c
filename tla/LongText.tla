------------------------------ MODULE LongText ------------------------------
(* The text of a 64 bit number: PbLong and PbULong of pb-long.ts, with       *)
(* int64fromString and int64toString of goog-varint.ts where there is no     *)
(* bigint. A text is whether it has a minus sign, and its digits.            *)
(*                                                                           *)
(* A number of more than 32 bits is the sequence of its digits to base 10 or *)
(* 256, the lowest first: what the code computes in numbers of 53 bits.      *)
EXTENDS BinaryFormat

Zeros(n) == [i \in 1 .. n |-> 0]

\* n * factor + add. What exceeds the digits of n is the carry.
Scaled(n, base, factor, add) ==
    FoldLeft(LAMBDA s, digit :
                 LET product == digit * factor + s.carry
                 IN  [digits |-> Append(s.digits, product % base), carry |-> product \div base],
             [digits |-> <<>>, carry |-> add], n)

Times(n, factor) == Scaled(n, 10, factor, 0).digits
Plus(a, b) == Scaled([i \in DOMAIN a |-> a[i] + b[i]], 10, 1, 0).digits

\* The decimal number of some bytes, in the 20 digits of 2^64.
Decimal(bytes) == FoldRight(LAMBDA byte, n : Scaled(n, 10, 256, byte).digits, bytes, Zeros(20))

Bytes(long) == Fixed32(long.lo) \o Fixed32(long.hi)
OfBytes(bytes) == [lo |-> FromFixed32(SubSeq(bytes, 1, 4)), hi |-> FromFixed32(SubSeq(bytes, 5, 8))]

-----------------------------------------------------------------------------
(* int64toString, int64fromString                                            *)

\* String(number), but the empty string for 0.
Shown(n) == Reverse(SubSeq(n, 1, Max({0} \cup {i \in DOMAIN n : n[i] # 0})))

decimalFrom1e7(n, needLeadingZeros) ==
    IF needLeadingZeros THEN Zeros(7 - Len(Shown(n))) \o Shown(n) ELSE Shown(n)

\* % 1e7, and what is divided by 1e7.
Remainder(n) == SubSeq(n, 1, 7)
Quotient(n) == SubSeq(n, 8, 20) \o Zeros(7)

\* 2^24 is 1,6777216 and 2^48 is 2,8147497,6710656 to base 1e7.
ThreeDigits(low, mid, high) ==
    LET digitA == Plus(Plus(low, Times(mid, 6777216)), Times(high, 6710656))
        digitB == Plus(Plus(mid, Times(high, 8147497)), Quotient(digitA))
        digitC == Plus(Times(high, 2), Quotient(digitB))
    IN  decimalFrom1e7(digitC, FALSE)
        \o decimalFrom1e7(Remainder(digitB), Shown(digitC) # <<>>)
        \o decimalFrom1e7(Remainder(digitA), TRUE)

\* Below 2^53 the number is printed as it is.
int64toString(long) ==
    LET bytes == Bytes(long) IN
    CASE long.lo = {} /\ long.hi = {} -> <<0>>
      [] long.hi \subseteq 0 .. 20 -> Shown(Decimal(bytes))
      [] OTHER -> ThreeDigits(Decimal(SubSeq(bytes, 1, 3)), Decimal(SubSeq(bytes, 4, 6)),
                              Decimal(SubSeq(bytes, 7, 8)))

\* The number of up to six digits at a place in 24 of them.
Digit1e6(digits, k) == FoldLeft(LAMBDA n, d : 10 * n + d, 0, SubSeq(digits, 6 * k - 5, 6 * k))

\* Carry bits from low to high.
add1e6digit(n, digit1e6) ==
    LET low == Scaled(n.low, 256, 1000000, digit1e6)
    IN  [low |-> low.digits, high |-> Scaled(n.high, 256, 1000000, low.carry).digits]

\* The low bits, and the high bits, which may be more than 32.
int64fromString(digits) ==
    LET last24 == IF Len(digits) >= 24 THEN SubSeq(digits, Len(digits) - 23, Len(digits))
                  ELSE Zeros(24 - Len(digits)) \o digits
    IN  FoldLeft(LAMBDA n, k : add1e6digit(n, Digit1e6(last24, k)),
                 [low |-> Zeros(4), high |-> Zeros(6)], <<1, 2, 3, 4>>)

-----------------------------------------------------------------------------
(* PbLong and PbULong                                                        *)

Successor(x) ==
    IF x = BitNumbers THEN {}
    ELSE LET zero == Min(BitNumbers \ x) IN (x \ 0 .. zero) \cup {zero}

\* Invert all the bits and add one.
negate(long) ==
    IF long.lo = {} THEN [lo |-> {}, hi |-> Successor(BitNumbers \ long.hi)]
    ELSE [lo |-> Successor(BitNumbers \ long.lo), hi |-> BitNumbers \ long.hi]

isNegative(long) == 31 \in long.hi

\* What BigInt makes of the two words, or of a text; nine bytes are enough for
\* any number of 64 bits and the ones next to them.
Complement(bytes) == Scaled([i \in DOMAIN bytes |-> 255 - bytes[i]], 256, 1, 1).digits
BigDigits(bytes) == LET shown == Shown(Decimal(bytes)) IN IF shown = <<>> THEN <<0>> ELSE shown
BigBytes(digits) == FoldLeft(LAMBDA n, d : Scaled(n, 256, 10, d).digits, Zeros(9), digits)

\* toString of a PbULong, and of a PbLong.
UnsignedText(long, bigint) ==
    [minus |-> FALSE, digits |-> IF bigint THEN BigDigits(Bytes(long)) ELSE int64toString(long)]

LongText(long, bigint) ==
    IF ~isNegative(long) THEN UnsignedText(long, bigint)
    ELSE [minus |-> TRUE,
          digits |-> IF bigint THEN BigDigits(Complement(Bytes(long)))
                     ELSE int64toString(negate(long))]

Half(bytes) == bytes[4] >= 128
Rest(bytes, n) == \E i \in DOMAIN bytes : i > n /\ bytes[i] # 0

\* from(string): whether it is accepted, and the number. First where there is
\* BigInt ...
UnsignedBigInt(text) ==
    LET n == BigBytes(text.digits)
    IN  [ok |-> ~text.minus /\ ~Rest(n, 8), val |-> OfBytes(n)]

SignedBigInt(text) ==
    LET n == BigBytes(text.digits)
        large == n[9] > 0 \/ n[8] >= 128   \* 2^63 or more
        least == n[9] = 0 /\ n[8] = 128 /\ \A i \in 1 .. 7 : n[i] = 0
    IN  [ok |-> large => text.minus /\ least,
         val |-> OfBytes(IF text.minus THEN Complement(SubSeq(n, 1, 8)) ELSE n)]

\* ... and without. An unsigned number may have any size then.
UnsignedWords(text) ==
    LET n == int64fromString(text.digits)
    IN  [ok |-> ~text.minus, val |-> OfBytes(n.low \o n.high)]

SignedWords(text) ==
    LET n == int64fromString(text.digits)
        large == Half(n.high) \/ Rest(n.high, 4)
        least == n.high = <<0, 0, 0, 128, 0, 0>> /\ n.low = Zeros(4)
        long == OfBytes(n.low \o n.high)
    IN  [ok |-> large => text.minus /\ least, val |-> IF text.minus THEN negate(long) ELSE long]

ULongFrom(text, bigint) == IF bigint THEN UnsignedBigInt(text) ELSE UnsignedWords(text)
LongFrom(text, bigint) == IF bigint THEN SignedBigInt(text) ELSE SignedWords(text)
=============================================================================
