--------------------------- MODULE ReflectionJson ---------------------------
(* ReflectionJsonWriter and ReflectionJsonReader on the message type of      *)
(* ReflectionBinary, and what may be done to its messages without a format:  *)
(* reflectionMergePartial, reflectionEquals and ReflectionTypeCheck.         *)
(*                                                                           *)
(* A JSON value is [t, v]. The properties of an object are the sequence of   *)
(* its entries <<field, key style, value>>, in the order they were added: a  *)
(* field goes by its name in the .proto file or by its JSON name.            *)
EXTENDS SpeedBinary, LongText

Number(n) == [t |-> "number", v |-> n]
String(s) == [t |-> "string", v |-> s]   \* the text of a long, or a value's name
Object(entries) == [t |-> "object", v |-> entries]
Array(items) == [t |-> "array", v |-> items]
Null == [t |-> "null", v |-> <<>>]

-----------------------------------------------------------------------------
(* ReflectionJsonWriter, with options [defaults, names, integers, bigint]:   *)
(* emitDefaultValues, useProtoFieldName and enumAsInteger; `bigint` is        *)
(* whether the writer's platform has it. An enum is the set of its values,   *)
(* each of which has a name.                                                 *)

\* enum: a value without a name is a number.
EnumJson(n, enum, options) ==
    IF options.integers \/ n \notin enum THEN Number(n) ELSE String(n)

HasJsonUnlessDefault(m, no, options) ==  \* Mutant: no member of a oneof is written as 0.
    (Emits(m, no) /\ (no = NUMBER => m.number # 0)) \/ (no \notin Members /\ options.defaults)

\* Members of a oneof are written when selected, whatever their value.
HasJson(m, no, options) ==
    Emits(m, no) \/ (no \notin Members /\ options.defaults)

RECURSIVE WriteJson(_, _, _)

FieldJson(m, no, enum, options) ==
    LET value == m[LocalName[no]]
        Message(child) == WriteJson(child, enum, options)
    IN  CASE no \in {SCALAR, FIXED32, NUMBER} -> Number(value)
          [] no \in {UINT64, FIXED64} -> String(UnsignedText(value, options.bigint))
          [] no = SINT64 -> String(LongText(value, options.bigint))
          [] no = REPEATED -> Array([i \in DOMAIN value |-> Number(value[i])])
          [] no = CHILDREN -> Array([i \in DOMAIN value |-> Message(value[i])])
          [] no \in {CHILD, NODE} -> IF value = <<>> THEN Null ELSE Message(Last(value))
          [] no = MAP ->
                 Object([i \in 1 .. Cardinality(DOMAIN value) |->
                           LET key == SetToSortSeq(DOMAIN value, LAMBDA a, b : a < b)[i]
                           IN  <<key, Number(value[key])>>])
          [] no = CHOICE -> EnumJson(Last(value), enum, options)

\* write: the fields as they were declared. Unknown fields are not written.
WriteJson(m, enum, options) ==
    LET style == IF options.names THEN "name" ELSE "jsonName"
        written == SelectSeq(Declared, LAMBDA no : HasJson(m, no, options))
    IN  Object([i \in DOMAIN written |->
                  <<written[i], style, FieldJson(m, written[i], enum, options)>>])

-----------------------------------------------------------------------------
(* ReflectionJsonReader. The type of a reader is that of ReflectionBinary    *)
(* with `enum`, the values whose names it knows, `ignore`, its option        *)
(* ignoreUnknownFields, and `bigint`, whether its platform has it. A read is *)
(* a message, whether it was read, and which oneofs were met.                *)

Fail(r) == [r EXCEPT !.ok = FALSE]
Put(r, no, value) == [r EXCEPT !.val[LocalName[no]] = value]

\* scalar: uint32 may be any number, but fixed32 is taken for an int32.
ReadsNumber(no, json) == json.t = "number" /\ (no = FIXED32 => 31 \notin json.v)

NewGroupUnlessSet(r, no) ==  \* Mutant: what was selected before stays there.
    [r EXCEPT !.val.oneof = no, !.oneofs = TRUE]

\* A new ADT takes the place of the group.
NewGroup(r, no) ==
    [r EXCEPT !.val.oneof = no, !.val.number = 0, !.val.node = <<>>, !.val.choice = <<>>,
              !.oneofs = TRUE]

RECURSIVE ReadJson(_, _, _)

\* internalJsonRead of a message, into the one that is there or a new one.
ReadMessageJson(r, no, json, present, type) ==
    LET child == ReadJson(json, IF present = <<>> THEN Create ELSE Last(present),
                          ChildType(type))
    IN  IF child.ok THEN Put(r, no, <<child.val>>) ELSE Fail(r)

ReadItemsJson(r, no, json, type) ==
    LET Item(s, item) ==
            IF no = REPEATED
            THEN IF ReadsNumber(no, item) THEN Put(s, no, Append(s.val.repeated, item.v))
                 ELSE Fail(s)
            ELSE LET child == ReadJson(item, Create, ChildType(type))
                 IN  IF child.ok THEN Put(s, no, Append(s.val.children, child.val)) ELSE Fail(s)
    IN  IF json.t # "array" THEN Fail(r)
        ELSE FoldLeft(LAMBDA s, item : IF s.ok THEN Item(s, item) ELSE s, r, json.v)

\* Entries are added, overwriting existing keys.
ReadMapJson(r, json) ==
    LET PutEntry(s, e) == Put(s, MAP, (e[1] :> e[2].v) @@ s.val.map)
    IN  IF json.t # "object" THEN Fail(r) ELSE FoldLeft(PutEntry, r, json.v)

\* enum: a name that is not known is an error, or ignored: then nothing is
\* put into the group that has just been made.
ReadEnumJson(r, no, json, type) ==
    CASE json.t = "number" -> Put(r, no, <<json.v>>)
      [] json.t = "string" /\ json.v \in type.enum -> Put(r, no, <<json.v>>)
      [] json.t = "string" /\ json.v \notin type.enum -> IF type.ignore THEN r ELSE Fail(r)

ReadValueJson(r, no, json, type) ==
    CASE no \in {SCALAR, FIXED32, NUMBER} ->
             IF ReadsNumber(no, json) THEN Put(r, no, json.v) ELSE Fail(r)
      [] no \in {UINT64, SINT64, FIXED64} ->
             LET long == IF no = SINT64 THEN LongFrom(json.v, type.bigint)
                         ELSE ULongFrom(json.v, type.bigint)
             IN  IF json.t = "string" /\ long.ok THEN Put(r, no, long.val) ELSE Fail(r)
      [] no \in {REPEATED, CHILDREN} -> ReadItemsJson(r, no, json, type)
      [] no = MAP -> ReadMapJson(r, json)
      [] no = CHILD -> ReadMessageJson(r, no, json, r.val.child, type)
      [] no = NODE -> ReadMessageJson(r, no, json, r.val.node, type)
      [] no = CHOICE -> ReadEnumJson(r, no, json, type)

\* null leaves repeated fields, maps, messages and members of a oneof alone.
\* (For a number it is the default; the writer writes none.)
ReadEntryJson(r, entry, type) ==
    LET no == entry[1]
        json == entry[3]
    IN  CASE ~r.ok -> r
          [] r.ok /\ no \notin type.fields -> IF type.ignore THEN r ELSE Fail(r)
          [] r.ok /\ no \in type.fields /\ json.t = "null" -> r
          [] r.ok /\ no \in type.fields \cap Members /\ json.t # "null" ->
                 IF r.oneofs THEN Fail(r)
                 ELSE ReadValueJson(NewGroup(r, no), no, json, type)
          [] OTHER -> ReadValueJson(r, no, json, type)

\* read: into a message that is there.
ReadJson(json, message, type) ==
    LET r == [ok |-> json.t = "object", val |-> message, oneofs |-> FALSE]
    IN  IF r.ok THEN FoldLeft(LAMBDA s, entry : ReadEntryJson(s, entry, type), r, json.v)
        ELSE r

-----------------------------------------------------------------------------
(* reflectionMergePartial. The fields of a message that is complete are all  *)
(* present, but for messages and the members of its oneof.                   *)

RECURSIVE MergePartial(_, _)

Clone(m) == MergePartial(Create, m)

MergeIntoPresent(present, source) ==  \* Mutant: nothing to merge with, nothing merged.
    IF present = <<>> \/ source = <<>> THEN present
    ELSE <<MergePartial(Last(present), Last(source))>>

MergeMessage(present, source) ==
    CASE source = <<>> -> present
      [] source # <<>> /\ present = <<>> -> <<Clone(Last(source))>>
      [] OTHER -> <<MergePartial(Last(present), Last(source))>>

\* The group's kind is always updated, and other members removed.
MergeGroup(target, source) ==
    IF source.oneof = 0 THEN target
    ELSE [target EXCEPT
             !.oneof = source.oneof,
             !.number = source.number,
             !.choice = source.choice,
             !.node = IF source.oneof = NODE THEN MergeMessage(@, source.node) ELSE <<>>]

MergePartial(target, source) ==
    [MergeGroup(target, source) EXCEPT
        !.scalar = source.scalar, !.fixed32 = source.fixed32, !.uint64 = source.uint64,
        !.sint64 = source.sint64, !.fixed64 = source.fixed64,
        !.repeated = source.repeated,
        !.map = source.map @@ @,
        !.child = MergeMessage(@, source.child),
        !.children = [i \in DOMAIN source.children |-> Clone(source.children[i])]]

-----------------------------------------------------------------------------
(* reflectionEquals                                                          *)

\* The values of a map, in the order of its keys: the keys are not looked at.
MapValues(map) ==
    LET keys == SetToSortSeq(DOMAIN map, LAMBDA a, b : a < b)
    IN  [i \in DOMAIN keys |-> map[keys[i]]]

RECURSIVE Equals(_, _)

AllEqual(a, b) == Len(a) = Len(b) /\ \A i \in DOMAIN a : Equals(a[i], b[i])

Equals(a, b) ==
    /\ \A no \in AllFields \ {MAP, CHILD, NODE, CHILDREN} :
           a[LocalName[no]] = b[LocalName[no]]
    /\ MapValues(a.map) = MapValues(b.map)
    /\ \A no \in {CHILD, NODE, CHILDREN} : AllEqual(a[LocalName[no]], b[LocalName[no]])

-----------------------------------------------------------------------------
(* ReflectionTypeCheck.is. What can be wrong about a message that the        *)
(* library made is the groups in it: isOneofGroup wants a kind and exactly   *)
(* one member, of this kind, or neither.                                     *)

IsOneofGroup(m) ==
    /\ m.choice # <<>> <=> m.oneof = CHOICE
    /\ m.node # <<>> <=> m.oneof = NODE
    /\ m.number # 0 => m.oneof = NUMBER

RECURSIVE Is(_)

Is(m) ==
    /\ IsOneofGroup(m)
    /\ \A no \in {CHILD, NODE, CHILDREN} : \A i \in DOMAIN m[LocalName[no]] :
           Is(m[LocalName[no]][i])
=============================================================================
