---------------------------- MODULE SpeedBinary ----------------------------
(* The methods internalBinaryWrite and internalBinaryRead that the plugin    *)
(* generates for a message type (optimize_for = SPEED, the default), in      *)
(* place of the reflection writer and reader. Each operator stands for the   *)
(* statements that one method of the generator makes for a field.            *)
EXTENDS ReflectionBinary

CONSTANT Declared    \* the fields, in the order of the .proto file

ASSUME DeclaredAssumption ==
    ToSet(Declared) = AllFields /\ Len(Declared) = Cardinality(AllFields)

-----------------------------------------------------------------------------
(* internalBinaryWrite                                                       *)

WireTypeOf(no) ==
    CASE no = FIXED32 -> BIT32
      [] no = FIXED64 -> BIT64
      [] OTHER -> VARINT

\* writer.uint32(value), writer.uint64(value), ...
WriterCall(w, no, value) ==
    CASE no = FIXED32 -> Raw(w, Fixed32(value))
      [] no = FIXED64 -> Raw(w, Fixed32(value.lo) \o Fixed32(value.hi))
      [] no = UINT64 -> Push(w, Varint64(value))
      [] no = SINT64 -> Push(w, Varint64(ZigZag(value)))
      [] OTHER -> Push(w, Varint32[value])

\* writer.tag(no, wireType).uint32(value)
Tagged(w, no, value) == WriterCall(Tag(w, no, WireTypeOf(no)), no, value)

SpeedScalar(w, no, m) == Tagged(w, no, m[LocalName[no]])

SpeedScalarRepeated(w, no, items, packed) ==
    IF ~packed THEN FoldLeft(LAMBDA v, item : Tagged(v, no, item), w, items)
    ELSE Join(FoldLeft(LAMBDA v, item : WriterCall(v, no, item),
                       Fork(Tag(w, no, LENGTH_DELIMITED)), items))

\* A map entry always has a key and a value.
SpeedMap(w, map) ==
    LET Key(v, key) == Push(Tag(v, 1, VARINT), Varint32[key])
        Value(v, value) == Push(Tag(v, 2, VARINT), Varint32[value])
        Pair(v, key) ==
            Join(Value(Key(Fork(Tag(v, MAP, LENGTH_DELIMITED)), key), map[key]))
    IN FoldLeft(Pair, w, SetToSortSeq(DOMAIN map, LAMBDA a, b : a < b))

RECURSIVE SpeedWrite(_, _, _)

\* Type.internalBinaryWrite(message.child, writer.tag(...).fork(), options).join()
SpeedMessage(w, no, child, packed) ==
    Join(SpeedWrite(Fork(Tag(w, no, LENGTH_DELIMITED)), child, packed))

SpeedMessageRepeated(w, no, children, packed) ==
    FoldLeft(LAMBDA v, child : SpeedMessage(v, no, child, packed), w, children)

SpeedStatement(w, no, m, packed) ==
    CASE no = REPEATED -> SpeedScalarRepeated(w, no, m.repeated, packed)
      [] no = CHILDREN -> SpeedMessageRepeated(w, no, m.children, packed)
      [] no \in {CHILD, NODE} -> SpeedMessage(w, no, Last(m[LocalName[no]]), packed)
      [] no = MAP -> SpeedMap(w, m.map)
      [] no = CHOICE -> Tagged(w, no, Last(m.choice))
      [] OTHER -> SpeedScalar(w, no, m)

\* if (message.result.oneofKind === "field")
Selected(m, no) == m.oneof = no

\* if (message.field !== <default value>), if (message.field.length)
NotDefault(m, no) == m[LocalName[no]] # Create[LocalName[no]]

ShouldWrite(m, no) == IF no \in Members THEN Selected(m, no) ELSE NotDefault(m, no)

\* The fields as they were declared, then the unknown fields.
SpeedWrite(w, m, packed) ==
    Unknown(FoldLeft(LAMBDA v, no : SpeedStatement(v, no, m, packed), w,
                     SelectSeq(Declared, LAMBDA no : ShouldWrite(m, no))),
            m.unknown)

-----------------------------------------------------------------------------
(* internalBinaryRead                                                        *)

\* reader.uint32(), reader.uint64(), ...
ReaderCall(d, pos, no) ==
    CASE no = FIXED32 -> ReadFixed32(d, pos)
      [] no = FIXED64 -> ReadFixed64(d, pos)
      [] no = UINT64 -> ReadUint64(d, pos)
      [] no = SINT64 -> ReadSint64(d, pos)
      [] OTHER -> ReadUint32(d, pos)

RECURSIVE SpeedLoop(_, _, _, _), SpeedPush(_, _, _, _), SpeedEntries(_, _, _)

\* message.field = reader.uint32()
SpeedScalarRead(d, pos, no, m) == Set(d, ReaderCall(d, pos, no), no, m)

\* message.result = { oneofKind: "number", number: reader.uint32() }
SpeedScalarOneofRead(d, pos, no, m) ==
    Set(d, ReaderCall(d, pos, no), no, [m EXCEPT !.oneof = no, !.node = <<>>, !.choice = <<>>])
SpeedEnumOneofRead(d, pos, no, m) ==
    SetOnly(d, ReaderCall(d, pos, no), no, [m EXCEPT !.oneof = no, !.number = 0, !.node = <<>>])

\* for (let e = ...; reader.pos < e;) message.field.push(reader.uint32())
SpeedPush(d, read, e, no) ==
    IF Ended(d, read, e) THEN read
    ELSE SpeedPush(d, Add(d, ReaderCall(d, read.pos, no), no, read.val), e, no)

\* if (wireType === WireType.LengthDelimited) ... else ...
SpeedPacked(d, len, no, m) == SpeedPush(d, At(len.pos, m), len.pos + len.val, no)
SpeedScalarRepeatedRead(d, pos, no, wireType, m) ==
    IF wireType = LENGTH_DELIMITED THEN SpeedPacked(d, ReadUint32(d, pos), no, m)
    ELSE Add(d, ReaderCall(d, pos, no), no, m)

\* A type without fields gets a shorter body: return target ?? this.create()
SpeedRead(d, pos, length, message, type) ==
    IF type.fields = {} THEN At(pos, message)
    ELSE SpeedLoop(d, At(pos, message), pos + length, type)

\* Type.internalBinaryRead(reader, reader.uint32(), options, message.child)
SpeedLength(d, length, message, type) ==
    SpeedRead(d, length.pos, length.val, message, ChildType(type))
SpeedChild(d, pos, children, type) ==
    SpeedLength(d, ReadUint32(d, pos), IF children = <<>> THEN Create ELSE Last(children), type)

SpeedMessageRead(d, pos, m, type) == SetChild(SpeedChild(d, pos, m.child, type), CHILD, m)

\* message.children.push(...): always a new message
SpeedMessageRepeatedRead(d, pos, m, type) ==
    Add(d, SpeedChild(d, pos, <<>>, type), CHILDREN, m)

\* message.result.node is undefined if another member is selected.
SpeedMessageOneofRead(d, pos, m, type) ==
    SetChild(SpeedChild(d, pos, m.node, type), NODE, [m EXCEPT !.oneof = NODE, !.number = 0, !.choice = <<>>])

\* binaryReadMap: the last key and the last value count.
SpeedEntryField(d, tag, entry) ==
    LET value == ReadUint32(d, tag.pos) IN
    CASE tag.pos > Len(d) -> At(tag.pos, entry)
      [] tag.pos <= Len(d) /\ tag.val \div 8 = 1 -> At(value.pos, [entry EXCEPT ![1] = value.val])
      [] tag.pos <= Len(d) /\ tag.val \div 8 = 2 -> At(value.pos, [entry EXCEPT ![2] = value.val])
      [] OTHER -> At(Failed(d), entry)
SpeedEntries(d, read, end) ==
    IF Ended(d, read, end) THEN read
    ELSE SpeedEntries(d, SpeedEntryField(d, ReadUint32(d, read.pos), read.val), end)

\* map[key ?? 0] = val ?? 0
SpeedEntry(d, len) == SpeedEntries(d, At(len.pos, <<0, 0>>), len.pos + len.val)
SpeedMapRead(d, pos, m) == SetEntry(SpeedEntry(d, ReadUint32(d, pos)), m)

\* makeCaseClauses, makeDefaultClause
SpeedCase(d, pos, no, wireType, m, type) ==
    IF no \notin type.fields THEN OnRead(d, pos, no, wireType, m)
    ELSE CASE no = REPEATED -> SpeedScalarRepeatedRead(d, pos, no, wireType, m)
           [] no = NUMBER -> SpeedScalarOneofRead(d, pos, no, m)
           [] no = CHOICE -> SpeedEnumOneofRead(d, pos, no, m)
           [] no = CHILDREN -> SpeedMessageRepeatedRead(d, pos, m, type)
           [] no = NODE -> SpeedMessageOneofRead(d, pos, m, type)
           [] no = CHILD -> SpeedMessageRead(d, pos, m, type)
           [] no = MAP -> SpeedMapRead(d, pos, m)
           [] OTHER -> SpeedScalarRead(d, pos, no, m)

\* let [fieldNo, wireType] = reader.tag(); switch (fieldNo) ...
SpeedSwitch(d, tag, m, type) ==
    IF tag.pos > Len(d) \/ tag.val < 8 THEN At(Failed(d), m)
    ELSE SpeedCase(d, tag.pos, tag.val \div 8, tag.val % 8, m, type)

\* while (reader.pos < end)
SpeedLoop(d, read, end, type) ==
    IF Ended(d, read, end) THEN read
    ELSE SpeedLoop(d, SpeedSwitch(d, ReadUint32(d, read.pos), read.val, type), end, type)
=============================================================================
