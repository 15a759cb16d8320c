----------------------------- MODULE Interpreter -----------------------------
(* Interpreter of packages/plugin: it makes message types, enum information  *)
(* and method information of descriptors, each message type once, and reads  *)
(* their custom options; and the generators that print them.                 *)
(*                                                                           *)
(* Options in a descriptor are unknown fields: a sequence of [ext, zero],    *)
(* the extension, as [in, at], and whether the value is the default of its   *)
(* type. An option that was read is the name of its extension: its value is  *)
(* written as JSON by the type of the extension. To read one whose value is  *)
(* a message needs its message type, and so may have to make it, while       *)
(* another type is being made: `calls` is the stack of these calls.          *)
(*                                                                           *)
(* The options of the plugin are [normalLongType, useProtoFieldName,         *)
(* keepEnumPrefix, forceExcludeAllOptions]; a zero is always synthesized.    *)
EXTENDS ReflectionInfo

VARIABLES
    messageTypes, \* [typeName, fields, options, fieldOptions] by descriptor
    calls         \* calls of getMessageType: [of, next], the innermost first

interpreterVars == <<messageTypes, calls>>

oneofKind == <<"o", "K">>                         \* "oneofKind"
ReservedProperties == {<<"t", "S">>, <<"_", "p">>} \* "toString", "__proto__"
ReservedMethods == {<<"t", "S">>}                  \* "toString", "close", ...
synthesizedZero == <<"$">>                         \* "UNSPECIFIED$"

When(condition, keys) == IF condition THEN keys ELSE <<>>

Escaped(name, reserved) == IF name \in reserved THEN Append(name, "$") ELSE name

-----------------------------------------------------------------------------
(* Fields                                                                    *)

createTypescriptNameForField(options, name) ==
    LET local == IF options.useProtoFieldName THEN name ELSE lowerCamelCase(name)
    IN  Escaped(Escaped(local, ReservedProperties), {oneofKind})

determineNonDefaultLongType(options, type, jstype) ==
    CASE type \notin LongValueTypes \/ jstype = "JS_STRING" -> <<>>
      [] type \in LongValueTypes /\ jstype = "JS_NORMAL" -> [L |-> "BIGINT"]
      [] type \in LongValueTypes /\ jstype = "JS_NUMBER" -> [L |-> "NUMBER"]
      [] OTHER -> When(options.normalLongType # "STRING", [L |-> options.normalLongType])

\* The kind of a field, or of the values of a map.
InfoOfType(options, f, jstype) ==
    CASE isScalarField(f) ->
           [kind |-> "scalar", T |-> f.type] ++ determineNonDefaultLongType(options, f.type, jstype)
      [] isEnumField(f) -> [kind |-> "enum", of |-> f.of]
      [] OTHER -> [kind |-> "message", of |-> f.of]

InfoOfKind(registry, options, f) ==
    IF isMapField(registry, f)
    THEN [kind |-> "map", K |-> getMapKeyType(registry, f),
          V |-> InfoOfType(options, MapValue(registry, f), f.jstype)]
    ELSE InfoOfType(options, f, f.jstype)

OneofName(registry, options, d, f) ==
    createTypescriptNameForField(options, TypeAt(registry, d).oneofDecl[f.oneof])

buildFieldInfo(registry, options, d, f) ==
    LET local == createTypescriptNameForField(options, f.name)
    IN  [no |-> f.no, name |-> f.name]
        ++ When(local # lowerCamelCase(f.name), [localName |-> local])
        ++ When(f.json # <<>>, [jsonName |-> f.json])
        ++ When(isUserDeclaredOneof(f), [oneof |-> OneofName(registry, options, d, f)])
        ++ When(isUserDeclaredRepeated(registry, f),
                [repeat |-> IF shouldBePackedRepeated(registry, d, f) THEN "PACKED" ELSE "UNPACKED"])
        ++ When((isScalarField(f) \/ isEnumField(f)) /\ isUserDeclaredOptional(registry, d, f),
                [opt |-> TRUE])
        ++ InfoOfKind(registry, options, f)

\* Fields that are groups are left out.
Interpreted(fields) == Among(fields, {f \in ToSet(fields) : ~isGroupField(f)})

buildFieldInfos(registry, options, d) ==
    LET fields == Interpreted(TypeAt(registry, d).fields)
    IN  [k \in DOMAIN fields |-> normalizeFieldInfo(buildFieldInfo(registry, options, d, fields[k]))]

-----------------------------------------------------------------------------
(* Options                                                                   *)

\* The options that are fields of the synthetic message they are read into.
Known(registry, extendee, s) ==
    \E e \in extensionsFor(registry, extendee) : s.ext = [in |-> e.in, at |-> e.at]

ExtensionOf(registry, s) ==
    CHOOSE e \in ExtensionsIn(registry, s.ext.in) : e.at = s.ext.at

\* A field of the synthetic message knows its presence unless it is repeated, so
\* that an option is written though it has the default of its type.
Written(registry, s) ==
    ~s.zero \/ ~isUserDeclaredRepeated(registry, ExtensionOf(registry, s).f)

\* A pattern [scope, name, wild]: "scope.name", or "scope.*" anywhere in a name.
Matches(p, n) ==
    IF p.wild THEN \E k \in 1 .. Len(n.scope) + 1 : IsPrefix(p.scope, SubSeq(n.scope, k, Len(n.scope)))
    ELSE p.scope = n.scope /\ p.name = n.name

readOptions(registry, options, d, extendee, set) ==
    LET known == {s \in ToSet(set) : Known(registry, extendee, s) /\ Written(registry, s)}
        names == {getExtensionName(registry, ExtensionOf(registry, s)) : s \in known}
    IN  IF options.forceExcludeAllOptions THEN {}
        ELSE {n \in names : \A p \in fileOf(registry, d).excludeOptions : ~Matches(p, n)}

\* The message types of the values, which are resolved one after the other.
NeededFor(registry, options, extendee, set) ==
    LET Type(s) == ExtensionOf(registry, s).f
        messages == Among(set, {s \in ToSet(set) : Known(registry, extendee, s)
                                                  /\ Type(s).type = "message"})
    IN  IF options.forceExcludeAllOptions THEN <<>>
        ELSE [k \in DOMAIN messages |-> Type(messages[k]).of]

-----------------------------------------------------------------------------
(* getMessageType                                                            *)

InterpreterInit == messageTypes = <<>> /\ calls = <<>>

\* The type is stored before its options are read, which may lead back to it.
StoreType(registry, options, d) ==
    /\ LET infos == buildFieldInfos(registry, options, d)
           type == [fields |-> infos, options |-> {}, fieldOptions |-> [k \in DOMAIN infos |-> {}]]
       IN  messageTypes' = [x \in DOMAIN messageTypes \cup {d} |->
                               IF x = d THEN type ELSE messageTypes[x]]
    /\ calls' = <<[of |-> d, next |-> 0]>> \o calls

\* What the innermost call reads next: the options of the message, then those
\* of its fields. The field is taken by its place among all the fields, the
\* groups included, and the information by its place among the others.
Reading(registry) ==
    LET t == TypeAt(registry, calls[1].of)
    IN  IF calls[1].next = 0 THEN [extendee |-> "MessageOptions", set |-> t.options]
        ELSE [extendee |-> "FieldOptions", set |-> t.fields[calls[1].next].options]

\* The first of the types that is missing is made.
AllMade(types) == ToSet(types) \subseteq DOMAIN messageTypes

StoreFirstOf(registry, options, types) ==
    \E k \in DOMAIN types :
        /\ types[k] \notin DOMAIN messageTypes
        /\ \A l \in 1 .. k - 1 : types[l] \in DOMAIN messageTypes
        /\ StoreType(registry, options, types[k])

TypesForOptions(registry, options) ==
    NeededFor(registry, options, Reading(registry).extendee, Reading(registry).set)

CallForOption(registry, options) ==
    /\ calls # <<>> /\ calls[1].next <= Len(messageTypes[calls[1].of].fields)
    /\ StoreFirstOf(registry, options, TypesForOptions(registry, options))

ReadOptions(registry, options) ==
    LET d == calls[1].of
        k == calls[1].next
        read == readOptions(registry, options, d, Reading(registry).extendee, Reading(registry).set)
    IN  /\ calls # <<>> /\ k <= Len(messageTypes[d].fields)
        /\ AllMade(TypesForOptions(registry, options))
        /\ messageTypes' = IF k = 0 THEN [messageTypes EXCEPT ![d].options = read]
                           ELSE [messageTypes EXCEPT ![d].fieldOptions[k] = read]
        /\ calls' = [calls EXCEPT ![1].next = k + 1]

ReturnType ==
    /\ calls # <<>> /\ calls[1].next > Len(messageTypes[calls[1].of].fields)
    /\ calls' = Tail(calls)
    /\ UNCHANGED messageTypes

-----------------------------------------------------------------------------
(* Enums and methods                                                         *)

buildEnumInfo(options, t) ==
    LET prefix == IF options.keepEnumPrefix THEN <<>> ELSE findEnumSharedPrefix(t)
        Local(v) == [v EXCEPT !.name = SubSeq(@, Len(prefix) + 1, Len(@))]
        zero == When(\A v \in ToSet(t.values) : v.number # 0,
                     <<[name |-> synthesizedZero, number |-> 0]>>)
    IN  [prefix |-> prefix,
         object |-> EnumObject(zero \o [k \in DOMAIN t.values |-> Local(t.values[k])])]

buildMethodInfo(registry, options, d, m) ==
    LET local == Escaped(lowerCamelCase(m.letters), ReservedMethods)
    IN  [name |-> m.letters, I |-> m.I, O |-> m.O,
         options |-> readOptions(registry, options, d, "MethodOptions", m.options)]
        ++ When(local # lowerCamelCase(m.letters), [localName |-> local])
        ++ When(m.idempotency # "IDEMPOTENCY_UNKNOWN", [idempotency |-> m.idempotency])
        ++ When(m.streams \in {"serverStreaming", "duplex"}, [serverStreaming |-> TRUE])
        ++ When(m.streams \in {"clientStreaming", "duplex"}, [clientStreaming |-> TRUE])

-----------------------------------------------------------------------------
(* What is printed, and what the generated program makes of it again         *)

Without(info, keys) == [k \in DOMAIN info \ keys |-> info[k]]

denormalizeFieldInfo(info) ==
    LET camel == lowerCamelCase(info.name)
    IN  Without(info, {k \in {"jsonName", "localName"} : info[k] = camel}
                      \cup {k \in {"repeat"} : info.repeat = "NO"}
                      \cup {k \in {"opt"} : ~info.opt \/ info.kind = "message"})

denormalizeMethodInfo(info) ==
    Without(info, {k \in {"localName"} : info.localName = lowerCamelCase(info.name)}
                  \cup {k \in {"serverStreaming", "clientStreaming"} : ~info[k]}
                  \cup {k \in {"idempotency"} : info.idempotency = "undefined"})

\* The fields of a generated message type.
FieldsOf(type) ==
    [k \in DOMAIN type.fields |->
        normalizeFieldInfo(denormalizeFieldInfo(type.fields[k]))]

MethodsOf(registry, options, d) ==
    LET methods == TypeAt(registry, d).methods
        Info(m) == normalizeMethodInfo(buildMethodInfo(registry, options, d, m))
    IN  [k \in DOMAIN methods |-> normalizeMethodInfo(denormalizeMethodInfo(Info(methods[k])))]

-----------------------------------------------------------------------------
(* Message interfaces                                                        *)

createScalarTypeNode(T, L) ==
    CASE T = "bool" -> "boolean"
      [] T = "string" -> "string"
      [] T = "bytes" -> "Uint8Array"
      [] T \in LongValueTypes -> [STRING |-> "string", NUMBER |-> "number", BIGINT |-> "bigint"][L]
      [] OTHER -> "number"

createFieldPropertySignature(info) ==
    LET type == CASE info.kind = "scalar" -> createScalarTypeNode(info.T, LongTypeOf(info))
                  [] info.kind = "enum" -> "number"
                  [] OTHER -> "object"
    IN  [name |-> info.localName, optional |-> info.opt,
         type |-> IF IsRepeated(info) THEN "array" ELSE type, cases |-> {}]

createOneofADTPropertySignature(fields, oneof) ==
    [name |-> oneof, optional |-> FALSE, type |-> "group",
     cases |-> {createFieldPropertySignature(info) :
                info \in {i \in ToSet(fields) : IsMember(i) /\ i.oneof = oneof}}]

\* One member for each field, and one for all fields of a oneof.
generateMessageInterface(fields) ==
    {createFieldPropertySignature(info) : info \in {i \in ToSet(fields) : ~IsMember(i)}}
    \cup {createOneofADTPropertySignature(fields, info.oneof) :
          info \in {i \in ToSet(fields) : IsMember(i)}}
==============================================================================
