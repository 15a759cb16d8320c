--------------------------- MODULE ReflectionInfo ---------------------------
(* What packages/runtime and runtime-rpc make of the reflection information  *)
(* that generated code hands to them: normalizeFieldInfo, normalizeMethod-   *)
(* Info, reflectionCreate, ReflectionTypeCheck, isOneofGroup, isEnumObject.  *)
(*                                                                           *)
(* The information is a record with the keys that are set. A JavaScript      *)
(* object is a function from the names of its properties to [kind, value]:   *)
(* the value is what `typeof` and the like say of it, "number", "bigint",    *)
(* "string", "boolean", "Uint8Array", "array", "object" or "undefined", and  *)
(* the kind is the member that the object of a oneof selects, else empty.    *)
EXTENDS DescriptorInfo, FiniteSetsExt

\* The keys of both: those of the first have the last word.
f ++ g == [key \in DOMAIN f \cup DOMAIN g |-> IF key \in DOMAIN f THEN f[key] ELSE g[key]]

\* The key with the value it has, or with another.
WithDefault(info, key, value) == info ++ [k \in {key} |-> value]

WithNames(partial) ==
    LET camel == lowerCamelCase(partial.name)
    IN  WithDefault(WithDefault(WithDefault(partial, "localName", camel), "jsonName", camel),
                    "repeat", "NO")

MessagesAreOptional(partial) ==  \* Mutant: the repeated ones as well.
    WithDefault(WithNames(partial), "opt", partial.kind = "message")

normalizeFieldInfo(partial) ==
    LET info == WithNames(partial)
    IN  WithDefault(info, "opt", /\ info.repeat = "NO" /\ "oneof" \notin DOMAIN info
                                 /\ info.kind = "message")

normalizeMethodInfo(partial) ==
    partial ++ [localName |-> lowerCamelCase(partial.name), serverStreaming |-> FALSE,
                clientStreaming |-> FALSE, options |-> {}, idempotency |-> "undefined"]

-----------------------------------------------------------------------------
(* Values                                                                    *)

LongValueTypes == {"int64", "uint64", "fixed64", "sfixed64", "sint64"}

TypeOfLong == [BIGINT |-> "bigint", NUMBER |-> "number", STRING |-> "string"]

\* The JavaScript type of a scalar, whose default reflectionScalarDefault gives.
TypeOfScalar(T, L) ==
    CASE T \in LongValueTypes -> TypeOfLong[L]
      [] T = "bool" -> "boolean"
      [] T = "string" -> "string"
      [] T = "bytes" -> "Uint8Array"
      [] OTHER -> "number"

LongTypeOf(info) == IF "L" \in DOMAIN info THEN info.L ELSE "STRING"

\* The type of one element.
ElementType(info) ==
    CASE info.kind = "scalar" -> TypeOfScalar(info.T, LongTypeOf(info))
      [] info.kind = "enum" -> "number"
      [] OTHER -> "object"

IsMember(info) == "oneof" \in DOMAIN info
IsRepeated(info) == info.repeat # "NO"

Plain(type) == [kind |-> <<>>, value |-> type]

Nothing == Plain("undefined")  \* { oneofKind: undefined }

PropertyOf(info) == IF IsMember(info) THEN info.oneof ELSE info.localName

\* The property that is set for a field: the last one of a name has its way.
IsCreated(info) == ~info.opt /\ (IsMember(info) \/ IsRepeated(info) \/ info.kind # "message")

Created(info) ==
    CASE IsMember(info) -> Nothing
      [] ~IsMember(info) /\ IsRepeated(info) -> Plain("array")
      [] OTHER -> Plain(ElementType(info))

reflectionCreate(fields) ==
    LET created == {k \in DOMAIN fields : IsCreated(fields[k])}
        Of(name) == {k \in created : PropertyOf(fields[k]) = name}
    IN  [name \in {PropertyOf(fields[k]) : k \in created} |-> Created(fields[Max(Of(name))])]

-----------------------------------------------------------------------------
(* ReflectionTypeCheck.is at depth 1, where the elements of arrays and maps  *)
(* are not looked at. "object" in the place of a message is one of its type: *)
(* arrays in the place of messages and maps, into which the check does look, *)
(* are not among the objects.                                                *)

Required(info) ==
    CASE info.kind \in {"scalar", "enum"} -> ~info.opt \/ IsRepeated(info)
      [] info.kind = "message" -> IsRepeated(info)
      [] OTHER -> TRUE

\* typeof(v) is "undefined" for a property that is not there.
FieldMatches(info, v) ==
    CASE v = "undefined" -> info.kind = "message" \/ (info.kind # "map" /\ info.opt)
      [] v # "undefined" /\ IsRepeated(info) -> v = "array"
      [] v # "undefined" /\ ~IsRepeated(info) -> v = ElementType(info)

GroupMatches(fields, group) ==
    \/ group.kind = <<>>
    \/ /\ group.value # "undefined"
       /\ \E info \in ToSet(fields) :
             info.localName = group.kind /\ FieldMatches(info, group.value)

is(fields, message) ==
    LET infos == ToSet(fields)
        Value(info) == IF info.localName \in DOMAIN message THEN message[info.localName].value
                       ELSE "undefined"
    IN  /\ \A info \in infos : IsMember(info) \/ Required(info) => PropertyOf(info) \in DOMAIN message
        /\ DOMAIN message \subseteq {PropertyOf(info) : info \in infos}
        /\ \A info \in infos :
              IF IsMember(info) THEN GroupMatches(fields, message[info.oneof])
              ELSE FieldMatches(info, Value(info))

-----------------------------------------------------------------------------
(* Enum objects: names to numbers and back; the last name of a number wins.  *)

EnumObject(values) ==
    [numbers |-> [n \in {v.name : v \in ToSet(values)} |->
                     (CHOOSE v \in ToSet(values) : v.name = n).number],
     names |-> [x \in {v.number : v \in ToSet(values)} |->
                     LET k == Max({i \in DOMAIN values : values[i].number = x})
                     IN  values[k].name]]

isEnumObject(e) ==
    /\ 0 \in DOMAIN e.names
    /\ \A x \in DOMAIN e.names : e.numbers[e.names[x]] = x
    /\ \A n \in DOMAIN e.numbers : e.numbers[n] \in DOMAIN e.names
=============================================================================
