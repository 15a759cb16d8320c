-------------------------- MODULE ReflectionBinary --------------------------
(* ReflectionBinaryWriter and ReflectionBinaryReader on a message type with  *)
(* a field of every kind.                                                    *)
EXTENDS BinaryFormat

\* The fields of the message type.
SCALAR == 1     \* uint32
REPEATED == 2   \* repeated uint32
CHILD == 3      \* a message of the same type
NUMBER == 4     \* oneof { uint32,
NODE == 5       \*         a message of the same type,
MAP == 6        \* map<uint32, uint32>
FIXED32 == 7
UINT64 == 8
SINT64 == 9
FIXED64 == 10
CHILDREN == 11  \* repeated: messages of the same type
CHOICE == 12    \*         an enum }
AllFields == 1 .. 12
Members == {NUMBER, NODE, CHOICE}

\* A new message. A message field is a sequence of at most one message, and so
\* is the enum; one of the oneof is selected, or none (0).
Create ==
    [scalar |-> 0, repeated |-> <<>>, child |-> <<>>,
     oneof |-> 0, number |-> 0, node |-> <<>>, choice |-> <<>>,
     map |-> <<>>, fixed32 |-> {},
     uint64 |-> [lo |-> {}, hi |-> {}], sint64 |-> [lo |-> {}, hi |-> {}],
     fixed64 |-> [lo |-> {}, hi |-> {}], children |-> <<>>,
     unknown |-> <<>>]

-----------------------------------------------------------------------------
(* ReflectionBinaryWriter.                                                   *)

LocalName == <<"scalar", "repeated", "child", "number", "node", "map",
               "fixed32", "uint64", "sint64", "fixed64", "children", "choice">>

\* What is not written: a member of the oneof that is not selected, a default
\* value (unless `emitDefault`, for members of a oneof), no message, no items.
Emits(m, no) ==
    IF no \in Members THEN m.oneof = no
    ELSE m[LocalName[no]] # Create[LocalName[no]]

Scalar(w, no, wireType, bytes) == Push(Tag(w, no, wireType), bytes)
Fixed(w, no, wireType, bytes) == Raw(Tag(w, no, wireType), bytes)

PackedItems(w, items) ==
    Join(Push(Fork(Tag(w, REPEATED, LENGTH_DELIMITED)),
              FlattenSeq([i \in DOMAIN items |-> Varint32[items[i]]])))
UnpackedItems(w, items) ==
    FoldLeft(LAMBDA v, item : Scalar(v, REPEATED, VARINT, Varint32[item]), w, items)

MapEntry(w, key, value) ==
    LET entry == Fork(Tag(w, MAP, LENGTH_DELIMITED)) IN
    Join(Scalar(Scalar(entry, 1, VARINT, Varint32[key]), 2, VARINT, Varint32[value]))
MapEntries(w, map) ==
    FoldLeft(LAMBDA v, key : MapEntry(v, key, map[key]),
             w, SetToSortSeq(DOMAIN map, LAMBDA a, b : a < b))

\* UnknownFieldHandler.onWrite
Unknown(w, fields) ==
    FoldLeft(LAMBDA v, f : Raw(Tag(v, f.no, f.wireType), f.data), w, fields)

RECURSIVE WriteMessage(_, _, _), WriteField(_, _, _, _)

\* message: a fork for each message of a field.
WriteChildren(w, no, children, packed) ==
    FoldLeft(LAMBDA v, c :
               Join(WriteMessage(Fork(Tag(v, no, LENGTH_DELIMITED)), c, packed)),
             w, children)

WriteField(w, no, m, packed) ==
    CASE no = SCALAR -> Scalar(w, no, VARINT, Varint32[m.scalar])
      [] no = REPEATED -> IF packed THEN PackedItems(w, m.repeated)
                                    ELSE UnpackedItems(w, m.repeated)
      [] no = CHILD -> WriteChildren(w, no, m.child, packed)
      [] no = NUMBER -> Scalar(w, no, VARINT, Varint32[m.number])
      [] no = NODE -> WriteChildren(w, no, m.node, packed)
      [] no = MAP -> MapEntries(w, m.map)
      [] no = FIXED32 -> Fixed(w, no, BIT32, Fixed32(m.fixed32))
      [] no = UINT64 -> Scalar(w, no, VARINT, Varint64(m.uint64))
      [] no = SINT64 -> Scalar(w, no, VARINT, Varint64(ZigZag(m.sint64)))
      [] no = FIXED64 -> Fixed(w, no, BIT64, Fixed32(m.fixed64.lo) \o Fixed32(m.fixed64.hi))
      [] no = CHILDREN -> WriteChildren(w, no, m.children, packed)
      [] no = CHOICE -> Scalar(w, no, VARINT, Varint32[Last(m.choice)])

\* write: the fields in the order of their numbers, then the unknown fields.
\* (A relay has nothing to write in a field that it does not know.)
WriteMessage(w, m, packed) ==
    Unknown(FoldLeft(LAMBDA v, no : WriteField(v, no, m, packed), w,
                     SelectSeq([no \in AllFields |-> no], LAMBDA no : Emits(m, no))),
            m.unknown)

-----------------------------------------------------------------------------
(* ReflectionBinaryReader. A read answers with a position and a message. The *)
(* type tells which fields the reader knows, in the message and in those in  *)
(* it.                                                                       *)

ChildType(type) == [type EXCEPT !.fields = type.child]

At(pos, m) == [pos |-> pos, val |-> m]

\* A value that has been read becomes the value of a field, or its last item.
\* (After an error, what the message is is of no account.)
Set(d, read, no, m) ==
    At(read.pos, IF read.pos > Len(d) THEN m ELSE [m EXCEPT ![LocalName[no]] = read.val])
SetOnly(d, read, no, m) ==
    At(read.pos, IF read.pos > Len(d) THEN m ELSE [m EXCEPT ![LocalName[no]] = <<read.val>>])
Add(d, read, no, m) ==
    At(read.pos, IF read.pos > Len(d) THEN m
                 ELSE [m EXCEPT ![LocalName[no]] = Append(@, read.val)])

\* A field of a number that is not known: skip, UnknownFieldHandler.onRead.
OnRead(d, pos, no, wireType, m) ==
    LET next == Skip(d, pos, wireType)
        field == [no |-> no, wireType |-> wireType, data |-> SubSeq(d, pos + 1, next)]
    IN At(next, IF next > Len(d) THEN m ELSE [m EXCEPT !.unknown = Append(@, field)])

RECURSIVE ReadMessage(_, _, _, _), ReadItems(_, _, _), ReadEntry(_, _, _)

Ended(d, read, e) == read.pos >= e \/ read.pos > Len(d)

\* The items of a packed field, up to the position e.
ReadItems(d, read, e) ==
    IF Ended(d, read, e) THEN read
    ELSE ReadItems(d, Add(d, ReadUint32(d, read.pos), REPEATED, read.val), e)
Packed(d, len, m) == ReadItems(d, At(len.pos, m), len.pos + len.val)

\* mapEntry: a key and a value, in any order, with their defaults.
EntryField(d, tag, entry) ==
    LET next == ReadUint32(d, tag.pos) IN
    IF tag.pos > Len(d) \/ tag.val \div 8 \notin {1, 2} THEN At(Failed(d), entry)
    ELSE At(next.pos, [entry EXCEPT ![tag.val \div 8] = next.val])
ReadEntry(d, read, e) ==
    IF Ended(d, read, e) THEN read
    ELSE ReadEntry(d, EntryField(d, ReadUint32(d, read.pos), read.val), e)
Entry(d, len) == ReadEntry(d, At(len.pos, <<0, 0>>), len.pos + len.val)
SetEntry(entry, m) ==
    At(entry.pos, [m EXCEPT !.map = (entry.val[1] :> entry.val[2]) @@ @])

\* internalBinaryRead into the message that is there already, or a new one.
ReadLength(d, len, message, type) ==
    ReadMessage(d, At(len.pos, message), len.pos + len.val, ChildType(type))
ReadChild(d, pos, children, type) ==
    ReadLength(d, ReadUint32(d, pos), IF children = <<>> THEN Create ELSE Last(children), type)
SetChild(read, no, m) == At(read.pos, [m EXCEPT ![LocalName[no]] = <<read.val>>])

\* "if other oneof member selected, set new ADT"
Select(m, no) ==
    IF m.oneof = no THEN m ELSE [m EXCEPT !.oneof = no, !.number = 0, !.node = <<>>, !.choice = <<>>]

\* The field of a tag that has been read.
ReadField(d, pos, no, wireType, m, type) ==
    CASE no \notin type.fields -> OnRead(d, pos, no, wireType, m)
      [] no = SCALAR -> Set(d, ReadUint32(d, pos), no, m)
      [] no = REPEATED /\ wireType = LENGTH_DELIMITED -> Packed(d, ReadUint32(d, pos), m)
      [] no = REPEATED /\ wireType # LENGTH_DELIMITED -> Add(d, ReadUint32(d, pos), no, m)
      [] no = CHILD -> SetChild(ReadChild(d, pos, m.child, type), no, m)
      [] no = CHILDREN -> Add(d, ReadChild(d, pos, <<>>, type), no, m)
      [] no = NUMBER -> Set(d, ReadUint32(d, pos), no, Select(m, no))
      [] no = NODE ->
           SetChild(ReadChild(d, pos, Select(m, no).node, type), no, Select(m, no))
      [] no = CHOICE -> SetOnly(d, ReadUint32(d, pos), no, Select(m, no))
      [] no = MAP -> SetEntry(Entry(d, ReadUint32(d, pos)), m)
      [] no = FIXED32 -> Set(d, ReadFixed32(d, pos), no, m)
      [] no = UINT64 -> Set(d, ReadUint64(d, pos), no, m)
      [] no = SINT64 -> Set(d, ReadSint64(d, pos), no, m)
      [] no = FIXED64 -> Set(d, ReadFixed64(d, pos), no, m)

\* A tag may be illegal.
ReadTagged(d, tag, m, type) ==
    IF tag.pos > Len(d) \/ tag.val < 8 THEN At(Failed(d), m)
    ELSE ReadField(d, tag.pos, tag.val \div 8, tag.val % 8, m, type)

\* read: field after field, up to the position e.
ReadMessage(d, read, e, type) ==
    IF Ended(d, read, e) THEN read
    ELSE ReadMessage(d, ReadTagged(d, ReadUint32(d, read.pos), read.val, type), e, type)
=============================================================================
