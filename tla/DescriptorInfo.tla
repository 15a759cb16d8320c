--------------------------- MODULE DescriptorInfo ---------------------------
(* DescriptorRegistry of packages/plugin-framework: what the descriptors of  *)
(* protoc say (DescriptorInfo), where they are (DescriptorTree), and what    *)
(* they are called (TypeNameLookup).                                         *)
(*                                                                           *)
(* A registry is the sequence of proto files, [syntax, package, types,       *)
(* extensions, ...]. The types of a file come in the order in which they are *)
(* visited, each with the names of the messages around it and its own as     *)
(* `path`; type j of file i is <<i, j>>, and <<i, 0>> stands for the file.   *)
(* A field is [no, name, label, type, of, json, oneof, proto3Optional,       *)
(* packed, jstype, options]: `type` is a scalar type, "enum", "message" or   *)
(* "group", `of` the type it refers to, `json` is empty and `oneof` is 0     *)
(* when not set, and proto3Optional is never set to FALSE by protoc. Names   *)
(* are sequences of letters where they are converted.                        *)
EXTENDS Naturals, Sequences, SequencesExt, FiniteSets, TLC

\* The elements of a sequence that are in a set, in their order.
Among(s, S) ==
    LET kept[k \in 0 .. Len(s)] ==
            IF k = 0 THEN <<>> ELSE IF s[k] \in S THEN Append(kept[k - 1], s[k]) ELSE kept[k - 1]
    IN  kept[Len(s)]

NoDescriptor == <<0, 0>>

TypeAt(registry, d) == registry[d[1]].types[d[2]]

fileOf(registry, d) == registry[d[1]]

\* composeTypeName: the package, the messages around it and its own name.
TypeName(registry, d) ==
    fileOf(registry, d).package \o (IF d[2] = 0 THEN <<>> ELSE TypeAt(registry, d).path)

-----------------------------------------------------------------------------
(* Names                                                                     *)

UpperCase == [a |-> "A", b |-> "B", k |-> "K", o |-> "O", p |-> "P", s |-> "S", t |-> "T"]
LowerCase == [c \in {UpperCase[x] : x \in DOMAIN UpperCase} |->
                 CHOOSE x \in DOMAIN UpperCase : UpperCase[x] = c]
Digits == {"1", "2"}

toUpper(c) == IF c \in DOMAIN UpperCase THEN UpperCase[c] ELSE c
toLower(c) == IF c \in DOMAIN LowerCase THEN LowerCase[c] ELSE c

\* What is spelt so far, and whether the next letter becomes a capital.
Camel(s, c, first) ==
    CASE c = "_" -> [out |-> s.out, cap |-> TRUE]
      [] c \in Digits -> [out |-> Append(s.out, c), cap |-> TRUE]
      [] c # "_" /\ c \notin Digits /\ s.cap -> [out |-> Append(s.out, toUpper(c)), cap |-> FALSE]
      [] OTHER -> [out |-> Append(s.out, IF first THEN toLower(c) ELSE c), cap |-> FALSE]

\* Letters behind "_" or a digit become capitals, the first letter a small one.
lowerCamelCase(name) ==
    LET spelt[k \in 0 .. Len(name)] ==
            IF k = 0 THEN [out |-> <<>>, cap |-> FALSE] ELSE Camel(spelt[k - 1], name[k], k = 1)
    IN  spelt[Len(name)].out

-----------------------------------------------------------------------------
(* Fields                                                                    *)

isScalarField(f) == f.type \notin {"enum", "message", "group"}
isEnumField(f) == f.type = "enum"
isGroupField(f) == f.type = "group"
isMapField(registry, f) == f.type = "message" /\ TypeAt(registry, f.of).mapEntry
isMessageField(registry, f) == f.type = "message" /\ ~isMapField(registry, f)

EntryField(registry, f, no) ==
    LET entry == TypeAt(registry, f.of).fields
    IN  entry[CHOOSE k \in DOMAIN entry : entry[k].no = no]

getMapKeyType(registry, f) == EntryField(registry, f, 1).type
MapValue(registry, f) == EntryField(registry, f, 2)

isUserDeclaredOneof(f) == f.oneof # 0 /\ ~f.proto3Optional

isUserDeclaredOptional(registry, d, f) ==
    /\ ~isUserDeclaredOneof(f)
    /\ \/ f.proto3Optional
       \/ fileOf(registry, d).syntax # "proto3" /\ f.label = "optional"

isUserDeclaredRepeated(registry, f) == f.label = "repeated" /\ ~isMapField(registry, f)

PackedAsDeclared(registry, d, f) == f.packed = "true"  \* Mutant: proto3 has no default.

shouldBePackedRepeated(registry, d, f) ==
    IF f.packed # "unset" THEN f.packed = "true"
    ELSE fileOf(registry, d).syntax = "proto3" /\ f.type \notin {"bytes", "string"}

\* The entries of maps are messages that nobody wrote.
isSyntheticElement(t) == t.sort = "message" /\ t.mapEntry

-----------------------------------------------------------------------------
(* Extensions: [in, at, f] is extension number `at` of a file or message.    *)

ExtensionsIn(registry, d) ==
    LET fields == IF d[2] = 0 THEN fileOf(registry, d).extensions
                  ELSE TypeAt(registry, d).extensions
    IN  {[in |-> d, at |-> k, f |-> fields[k]] : k \in DOMAIN fields}

FileExtensions(registry) ==  \* Mutant: those in messages are forgotten.
    UNION {ExtensionsIn(registry, <<i, 0>>) : i \in DOMAIN registry}

\* Those of the files and of the messages that stand directly in them.
getAllExtensions(registry) ==
    UNION {ExtensionsIn(registry, <<i, 0>>)
           \cup UNION {ExtensionsIn(registry, <<i, j>>) :
                       j \in {j \in DOMAIN registry[i].types :
                                LET t == registry[i].types[j]
                                IN  t.sort = "message" /\ Len(t.path) = 1}} :
           i \in DOMAIN registry}

extensionsFor(registry, extendee) ==
    {e \in getAllExtensions(registry) : e.f.extendee = extendee}

getExtensionName(registry, e) == [scope |-> TypeName(registry, e.in), name |-> e.f.name]

-----------------------------------------------------------------------------
(* What protoc has seen to: types are those of the request, field numbers    *)
(* are different and so are the names of the values of an enum, presence and *)
(* packing are asked for where they may be, and an option is set where its   *)
(* extension may be used. The value of a repeated option is never empty.     *)

TypesOf(registry) ==
    UNION {{<<i, j>> : j \in DOMAIN registry[i].types} : i \in DOMAIN registry}

\* A message, or whatever the field is of.
RefersToType(registry, f) ==
    /\ f.of \in TypesOf(registry) \cup {NoDescriptor}
    /\ f.type = "message" => f.of \in TypesOf(registry)

\* A sequence of anything.
IsSequence(s) == s \in Seq(ToSet(s))

\* Letters, digits and "_": the generators add "$" for names of their own.
IsIdentifier(name) == IsSequence(name) /\ "$" \notin ToSet(name)

IsSet(registry, extendee, s) ==
    /\ s.ext.in[1] \in DOMAIN registry
    /\ \/ s.ext.in = <<s.ext.in[1], 0>>
       \/ s.ext.in \in TypesOf(registry) /\ TypeAt(registry, s.ext.in).sort = "message"
    /\ \E e \in ExtensionsIn(registry, s.ext.in) :
          /\ s.ext = [in |-> e.in, at |-> e.at] /\ e.f.extendee = extendee
          /\ s.zero => e.f.label # "repeated"

AreSet(registry, extendee, set) ==
    IsSequence(set) /\ \A s \in ToSet(set) : IsSet(registry, extendee, s)

IsValid(registry, t) ==
    /\ IsSequence(t.path) /\ IsSequence(t.fields)
    /\ \A f \in ToSet(t.fields) :
          /\ RefersToType(registry, f)
          /\ isMapField(registry, f) => \E g \in ToSet(TypeAt(registry, f.of).fields) : g.no = 2
          /\ f.proto3Optional => f.label = "optional"
          /\ f.packed = "true" => f.type \notin {"string", "bytes", "message", "group"}
          /\ AreSet(registry, "FieldOptions", f.options)
    /\ \A f, g \in ToSet(t.fields) : f.no = g.no => f = g
    /\ \A f \in ToSet(t.extensions) : RefersToType(registry, f)
    /\ AreSet(registry, "MessageOptions", t.options)
    /\ \A m \in ToSet(t.methods) :
          IsIdentifier(m.letters) /\ AreSet(registry, "MethodOptions", m.options)
    /\ IsSequence(t.letters) /\ IsSequence(t.values)
    /\ \A v \in ToSet(t.values) :
          v = [name |-> v.name, number |-> v.number] /\ IsIdentifier(v.name)
    /\ \A v, w \in ToSet(t.values) : v.name = w.name => v = w

ProtocAccepts(registry) ==
    /\ IsSequence(registry) /\ registry # <<>>
    /\ \A file \in ToSet(registry) :
          /\ file.syntax \in {"proto2", "proto3"}
          /\ IsSequence(file.package) /\ IsSequence(file.types)
          /\ \A f \in ToSet(file.extensions) : RefersToType(registry, f)
          /\ \A t \in ToSet(file.types) : IsValid(registry, t)

-----------------------------------------------------------------------------
(* Enums: the values are [name, number].                                     *)

\* MyEnum -> MY_ENUM_, for a name that begins with a letter.
EnumPrefix(letters) ==
    LET Spell(k) == IF k > 1 /\ letters[k] \in DOMAIN LowerCase THEN <<"_", letters[k]>>
                    ELSE <<toUpper(letters[k])>>
    IN  FlattenSeq([k \in DOMAIN letters |-> Spell(k)]) \o <<"_">>

\* The prefix of all names, or nothing when it is not shared or what is left of
\* a name is not a capital with something behind it.
findEnumSharedPrefix(t) ==
    LET prefix == EnumPrefix(t.letters)
        Rest(v) == SubSeq(v.name, Len(prefix) + 1, Len(v.name))
    IN  IF \A v \in ToSet(t.values) :
             /\ IsPrefix(prefix, v.name)
             /\ Len(Rest(v)) > 1 /\ Rest(v)[1] \in DOMAIN LowerCase
        THEN prefix ELSE <<>>
=============================================================================
