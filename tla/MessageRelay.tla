---------------------------- MODULE MessageRelay ----------------------------
(* All the ways of a message: through the binary format (BinaryRelay),       *)
(* through the JSON format, where the reader may know less than the writer,  *)
(* and, for the well-known types, through the JSON format of their own. What *)
(* has been read may be copied, and changed by mergePartial.                 *)
EXTENDS BinaryRelay, WellKnownTypes

CONSTANTS
    JsonReaders,     \* the types of JSON readers, with the options of the writer
    Values,          \* pairs of values of a well-known type
    Dates            \* milliseconds since 1970

Enum == {0, 1}       \* the values of the enum that have a name

ASSUME JsonAssumption ==
    /\ JsonReaders \subseteq
         [code : {"json"}, fields : SUBSET AllFields, child : SUBSET AllFields,
          enum : SUBSET Enum, ignore : BOOLEAN, bigint : BOOLEAN,
          options : [defaults : BOOLEAN, names : BOOLEAN, integers : BOOLEAN, bigint : BOOLEAN]]
    /\ \A pair \in Values : pair[1].type = pair[2].type
    /\ Dates \subseteq Int

-----------------------------------------------------------------------------
(* The JSON format                                                           *)

JsonInit ==
    /\ msg \in Messages /\ added \in Additions
    /\ relay \in JsonReaders
    /\ sent = <<WriteJson(msg, Enum, relay.options), WriteJson(added, Enum, relay.options)>>
    /\ stage = "json"
    /\ wire = sent
    /\ held = Create

\* internalJsonRead: of the first object, and then of the second one into the
\* same message.
TakeJson(from, then) ==
    /\ stage = from
    /\ LET read == ReadJson(Head(wire), held, relay) IN
         IF read.ok THEN stage' = then /\ held' = read.val
         ELSE stage' = "refused" /\ UNCHANGED held
    /\ wire' = Tail(wire)
    /\ UNCHANGED <<msg, added, sent, relay>>

FromJson == TakeJson("json", "parsed")
IntoPresent == TakeJson("parsed", "joined")

-----------------------------------------------------------------------------
(* What may be done to a message that was read                               *)

Readable == {"relayed", "received", "parsed", "joined", "updated"}

\* clone
Copy ==
    /\ stage \in Readable
    /\ held' = Clone(held)
    /\ stage' = "copied"
    /\ UNCHANGED <<msg, added, sent, relay, wire>>

\* mergePartial, with the second message
Update ==
    /\ stage \in {"received", "parsed"}
    /\ held' = MergePartial(held, added)
    /\ stage' = "updated"
    /\ UNCHANGED <<msg, added, sent, relay, wire>>

-----------------------------------------------------------------------------
(* The well-known types: `relay` is the type registry.                       *)

KnownInit ==
    /\ \E pair \in Values : msg = pair[1] /\ added = pair[2]
    /\ relay \in {{}, Wrappers \cup {"Plain", "Value", "Struct", "Timestamp"}}
    /\ sent = <<KnownJson(msg, relay), KnownJson(added, relay)>>
    /\ stage = IF \E i \in {1, 2} : Throws(sent[i]) THEN "unwritable" ELSE "known"
    /\ wire = sent
    /\ held = NewKnown(msg.type)

TakeKnown(from, then) ==
    /\ stage = from
    /\ LET read == ReadKnown(msg.type, Head(wire), held, relay) IN
         IF Throws(read) THEN stage' = "unreadable" /\ UNCHANGED held
         ELSE stage' = then /\ held' = read
    /\ wire' = Tail(wire)
    /\ UNCHANGED <<msg, added, sent, relay>>

FromKnownJson == TakeKnown("known", "restored")
IntoPresentKnown == TakeKnown("restored", "extended")

\* A Date is made a Timestamp, and a Date again.
DateInit ==
    /\ msg \in Dates
    /\ added = msg /\ sent = <<>> /\ wire = <<>> /\ relay = {}
    /\ stage = "date"
    /\ held = msg

OfDate ==
    /\ stage = "date"
    /\ held' = FromDate(msg)
    /\ stage' = "timestamp"
    /\ UNCHANGED <<msg, added, sent, relay, wire>>

BackToDate ==
    /\ stage = "timestamp"
    /\ held' = ToDate(held)
    /\ stage' = "dated"
    /\ UNCHANGED <<msg, added, sent, relay, wire>>

-----------------------------------------------------------------------------
MessageInit == RelayInit \/ JsonInit \/ KnownInit \/ DateInit
MessageNext ==
    \/ RelayNext
    \/ FromJson \/ IntoPresent \/ Copy \/ Update
    \/ FromKnownJson \/ IntoPresentKnown \/ OfDate \/ BackToDate

MessageSpec == MessageInit /\ [][MessageNext]_relayVars

-----------------------------------------------------------------------------
(* What of a message a JSON reader can take: the fields that it knows. A     *)
(* value of the enum whose name it does not know leaves the oneof with a     *)
(* kind and without a value.                                                 *)
RECURSIVE Knowable(_, _)

Knowable(m, type) ==
    LET Parts(children) == [i \in DOMAIN children |-> Knowable(children[i], ChildType(type))]
        Keeps(no) == no \in type.fields
        selected == IF m.oneof \in type.fields THEN m.oneof ELSE 0
        named == ~type.options.integers /\ m.choice \in {<<n>> : n \in Enum \ type.enum}
    IN  [Create EXCEPT
            !.scalar = IF Keeps(SCALAR) THEN m.scalar ELSE @,
            !.repeated = IF Keeps(REPEATED) THEN m.repeated ELSE @,
            !.child = IF Keeps(CHILD) THEN Parts(m.child) ELSE @,
            !.oneof = selected,
            !.number = IF selected = NUMBER THEN m.number ELSE @,
            !.node = IF selected = NODE THEN Parts(m.node) ELSE @,
            !.choice = IF selected = CHOICE /\ ~named THEN m.choice ELSE @,
            !.map = IF Keeps(MAP) THEN m.map ELSE @,
            !.fixed32 = IF Keeps(FIXED32) THEN m.fixed32 ELSE @,
            !.uint64 = IF Keeps(UINT64) THEN m.uint64 ELSE @,
            !.sint64 = IF Keeps(SINT64) THEN m.sint64 ELSE @,
            !.fixed64 = IF Keeps(FIXED64) THEN m.fixed64 ELSE @,
            !.children = IF Keeps(CHILDREN) THEN Parts(m.children) ELSE @]

\* A message with something that the reader of a type refuses, somewhere: a
\* fixed32 of 2^31 or more, or else what it does not know and may not ignore.
RECURSIVE Refusable(_, _)

Refusable(m, type) ==
    \/ 31 \in m.fixed32 /\ FIXED32 \in type.fields
    \/ ~type.ignore /\ \E no \in AllFields \ type.fields : HasJson(m, no, type.options)
    \/ ~type.ignore /\ Knowable(m, type).choice # m.choice
    \/ \E no \in {CHILD, NODE, CHILDREN} \cap type.fields : \E i \in DOMAIN m[LocalName[no]] :
           Refusable(m[LocalName[no]][i], ChildType(type))

\* What the docs leave open when a second object is read into a message. A
\* writer that emits default values overwrites with them. Of two messages in
\* the oneof, the doc of `read` says that they are merged, and its code takes
\* the second one: either will do.
RECURSIVE Joined(_, _, _, _)

Joined(m, a, b, options) ==
    LET merged == Merged(a, b)
        Newest(name) == IF options.defaults THEN b[name] ELSE merged[name]
        Together(name) ==
            IF a[name] = <<>> \/ b[name] = <<>> THEN m[name] = merged[name]
            ELSE /\ Len(m[name]) = 1
                 /\ Joined(Last(m[name]), Last(a[name]), Last(b[name]), options)
    IN  /\ m = [merged EXCEPT
                  !.scalar = Newest("scalar"), !.fixed32 = Newest("fixed32"),
                  !.uint64 = Newest("uint64"), !.sint64 = Newest("sint64"),
                  !.fixed64 = Newest("fixed64"), !.child = m.child, !.node = m.node]
        /\ Together("child")
        /\ Together("node") \/ (b.oneof = NODE /\ m.node = b.node)

(* A message comes through the JSON format whatever the options of the       *)
(* writer, in the fields that the reader knows. A second one read into the   *)
(* same message is merged with it, as the doc of ReflectionJsonReader.read   *)
(* has it: repeated fields are appended, entries overwritten, messages that  *)
(* are present merged - a message in the oneof merged or replaced. An object *)
(* is refused for a reason only: a field or name that the reader does not    *)
(* know and may not ignore, or a fixed32 of 2^31 or more, which this reader  *)
(* does not take although the writer writes it.                              *)
JsonLosesNothing ==
    /\ stage = "parsed" => held = Knowable(msg, relay)
    /\ stage = "joined" =>
           Joined(held, Knowable(msg, relay), Knowable(added, relay), relay.options)
    /\ stage = "refused" => Refusable(msg, relay) \/ Refusable(added, relay)

(* Whatever was read, copied and changed, the result is a message: each of   *)
(* its oneofs has a kind and the value of this kind, or neither ("the        *)
(* property must not be `undefined`", isOneofGroup) - if no name of the enum *)
(* had to be ignored.                                                        *)
ReadIsMessage ==
    stage \in Readable \cup {"short", "copied"}
    /\ ("enum" \in DOMAIN relay => relay.enum = Enum) => Is(held)

(* A copy is the message without its unknown fields, and compares the same   *)
(* as the original ("Determines whether two message of the same type have    *)
(* the same field values").                                                  *)
RECURSIVE WithoutUnknown(_)

WithoutUnknown(m) ==
    LET Parts(children) == [i \in DOMAIN children |-> WithoutUnknown(children[i])]
    IN  [m EXCEPT !.unknown = <<>>, !.child = Parts(@), !.node = Parts(@), !.children = Parts(@)]

CopyIsEqual ==
    [][stage' = "copied" => held' = WithoutUnknown(held) /\ Equals(held', held)]_relayVars

-----------------------------------------------------------------------------
(* Two different paths of a FieldMask may be the same text: a letter behind  *)
(* a digit becomes a capital letter, as if it had a "_" before it.           *)
Reversible(m) ==
    m.type = "FieldMask" =>
        \A i \in DOMAIN m.paths : \A k \in 2 .. Len(m.paths[i]) :
            m.paths[i][k] = "a" => m.paths[i][k - 1] # "1"

RECURSIVE Writable(_, _)

\* What the format has: no value that is not set, no infinite number, only
\* what the registry has ...
Writable(m, registry) ==
    CASE m.type = "Timestamp" -> InRange(m.seconds) /\ m.nanos >= 0
      [] m.type = "Duration" -> InDuration(m.seconds)
      [] m.type = "FieldMask" -> \A i \in DOMAIN m.paths : ~Invalid(m.paths[i])
      [] m.type = "Value" ->
             CASE m.kind = "none" -> FALSE
               [] m.kind = "number" -> m.of \notin {"NaN", "Infinity"}
               [] m.kind \in {"list", "struct"} -> Writable(m.of, registry)
               [] OTHER -> TRUE
      [] m.type = "ListValue" -> \A i \in DOMAIN m.values : Writable(m.values[i], registry)
      [] m.type = "Struct" -> \A key \in DOMAIN m.fields : Writable(m.fields[key], registry)
      [] m.type = "Any" -> \A i \in DOMAIN m.packed :
                               m.packed[i].type \in registry /\ Writable(m.packed[i], registry)
      [] m.type = "DoubleValue" -> m.value # "float64"   \* ... and no double
      [] OTHER -> TRUE

\* A second value takes the place of the first, but for what is repeated, and
\* for what the text of the second does not say.
Extended(a, b) ==
    CASE a.type = "ListValue" -> [a EXCEPT !.values = @ \o b.values]
      [] a.type = "Struct" -> [a EXCEPT !.fields = b.fields @@ @]
      [] a.type = "Duration" /\ b.nanos = 0 -> [b EXCEPT !.nanos = a.nanos]
      [] a.type = "FieldMask" /\ b.paths = <<>> -> a
      [] OTHER -> b

(* A value of a well-known type survives its JSON format, alone and read     *)
(* into another one, or is refused by its writer; a Date survives being a    *)
(* Timestamp. The exceptions: a path that is not reversible, and a date      *)
(* before 1970 with a fraction of a second.                                  *)
WellKnownKept ==
    /\ stage = "restored" /\ Reversible(msg) => held = msg
    /\ stage = "extended" /\ Reversible(msg) /\ Reversible(added) => held = Extended(msg, added)
    /\ stage = "unwritable" => ~(Writable(msg, relay) /\ Writable(added, relay))
    /\ stage # "unreadable"
    /\ stage = "dated" /\ (msg >= 0 \/ msg % 1000 = 0) => held = msg
=============================================================================
