---------------------------- MODULE BinaryRelay ----------------------------
(* What the binary format is used for: a sender writes two messages one      *)
(* behind the other, a relay that knows only some of the fields reads and    *)
(* writes them again, a receiver reads the result. Each of them runs the     *)
(* reflection code or generated code. The data may also be cut short on its  *)
(* way.                                                                      *)
EXTENDS SpeedBinary

CONSTANTS
    Messages,    \* the messages of the sender: the first ...
    Additions,   \* ... and the second
    Senders,     \* the code of a sender: which one, and does it pack?
    Relays       \* the message types of a relay

Codes == {"reflection", "speed"}

\* A relay knows all members of the oneof or none: the wire does not keep the
\* order of what it knows and what it does not know.
ASSUME RelaysAssumption ==
    /\ Senders \subseteq [code : Codes, packed : BOOLEAN]
    /\ Relays \subseteq [code : Codes, fields : SUBSET AllFields, child : SUBSET AllFields]
    /\ \A relay \in Relays : \A known \in {relay.fields, relay.child} :
           Members \subseteq known \/ Members \cap known = {}

\* The type of a receiver: it knows all fields.
Complete(code) == [code |-> code, fields |-> AllFields, child |-> AllFields]

ToBinary(m, code, packed) ==
    Finish(IF code = "speed" THEN SpeedWrite(NewWriter, m, packed)
           ELSE WriteMessage(NewWriter, m, packed))

\* fromBinary; internalBinaryRead into a message that is there.
ReadInto(m, d, type) ==
    IF type.code = "speed" THEN SpeedRead(d, 0, Len(d), m, type)
    ELSE ReadMessage(d, At(0, m), Len(d), type)
FromBinary(d, type) == ReadInto(Create, d, type)
Fails(d, type) == FromBinary(d, type).pos > Len(d)

-----------------------------------------------------------------------------
(* The way of a message.                                                     *)

VARIABLES
    msg,       \* what the sender writes: two messages,
    added,
    sent,      \* their data
    relay,     \* the type of the relay
    stage,     \* "sent", "cut", "short", "rejected", "relayed", "received", "error"
    wire,      \* the data on its way
    held       \* the message as the reader of the data has it

relayVars == <<msg, added, sent, relay, stage, wire, held>>

RelayInit ==
    /\ msg \in Messages /\ added \in Additions
    /\ relay \in Relays
    /\ \E sender \in Senders :
           sent = ToBinary(msg, sender.code, sender.packed)
                  \o ToBinary(added, sender.code, sender.packed)
    /\ stage = "sent"
    /\ wire = sent
    /\ held = Create

\* The data is cut short.
Cut ==
    /\ stage = "sent"
    /\ \E n \in 0 .. Len(sent) - 1 : wire' = SubSeq(sent, 1, n)
    /\ stage' = "cut"
    /\ UNCHANGED <<msg, added, sent, relay, held>>

\* The data is read, or the reader fails.
Read(type, then, otherwise) ==
    IF Fails(wire, type) THEN stage' = otherwise /\ UNCHANGED held
    ELSE stage' = then /\ held' = FromBinary(wire, type).val

\* The relay reads data that was cut.
ReadCut ==
    /\ stage = "cut"
    /\ Read(relay, "short", "rejected")
    /\ UNCHANGED <<msg, added, sent, relay, wire>>

\* The relay reads the data and writes it again.
Relay ==
    /\ stage = "sent"
    /\ Read(relay, "relayed", "error")
    /\ IF stage' = "error" THEN UNCHANGED wire
       ELSE \E packed \in BOOLEAN : wire' = ToBinary(held', relay.code, packed)
    /\ UNCHANGED <<msg, added, sent, relay>>

\* The receiver, who knows all the fields, reads it.
Receive ==
    /\ stage = "relayed"
    /\ \E code \in Codes : Read(Complete(code), "received", "error")
    /\ UNCHANGED <<msg, added, sent, relay, wire>>

RelayNext == Cut \/ ReadCut \/ Relay \/ Receive

RelaySpec == RelayInit /\ [][RelayNext]_relayVars

-----------------------------------------------------------------------------
(* What the doc of ReflectionBinaryReader.read promises, without a wire:     *)
(* "Repeated fields are appended. Map entries are added, overwriting         *)
(* existing keys. If a message field is already present, it will be merged   *)
(* with the new data."                                                       *)

RECURSIVE Merged(_, _)

MergedChild(a, b) ==
    IF a = <<>> THEN b ELSE IF b = <<>> THEN a ELSE <<Merged(Last(a), Last(b))>>

Newer(a, b, default) == IF b = default THEN a ELSE b

Merged(a, b) ==
    [scalar |-> Newer(a.scalar, b.scalar, 0),
     repeated |-> a.repeated \o b.repeated,
     child |-> MergedChild(a.child, b.child),
     oneof |-> Newer(a.oneof, b.oneof, 0),
     number |-> IF b.oneof = 0 THEN a.number ELSE b.number,
     node |-> IF b.oneof = 0 THEN a.node
              ELSE IF a.oneof = NODE /\ b.oneof = NODE THEN MergedChild(a.node, b.node)
              ELSE b.node,
     choice |-> IF b.oneof = 0 THEN a.choice ELSE b.choice,
     map |-> [k \in DOMAIN a.map \cup DOMAIN b.map |->
                IF k \in DOMAIN b.map THEN b.map[k] ELSE a.map[k]],
     fixed32 |-> Newer(a.fixed32, b.fixed32, {}),
     uint64 |-> Newer(a.uint64, b.uint64, Create.uint64),
     sint64 |-> Newer(a.sint64, b.sint64, Create.sint64),
     fixed64 |-> Newer(a.fixed64, b.fixed64, Create.fixed64),
     children |-> a.children \o b.children,
     unknown |-> a.unknown \o b.unknown]

(* Whatever fields a relay does not know ("unknown fields are serialized     *)
(* into the output again", UnknownFieldHandler) and however repeated fields  *)
(* are written, the receiver gets the two messages, merged - and no reader   *)
(* fails on data that is not cut.                                            *)
RelayLosesNothing ==
    /\ stage = "received" => held = Merged(msg, added)
    /\ stage # "error"

(* Data that was cut short is only accepted if it was cut between two        *)
(* fields: reading the rest of it into what was accepted gives the whole.    *)
CutBetweenFields ==
    stage = "short" =>
        LET rest == SubSeq(sent, Len(wire) + 1, Len(sent)) IN
        ReadInto(held, rest, relay) = At(Len(rest), FromBinary(sent, relay).val)

\* A 64 bit varint is what the encoding guide demands: the groups of seven bits
\* of the number, lowest first, no more of them than it needs.
VarintIsMinimal(long) ==
    LET bits == long.lo \cup {b + 32 : b \in long.hi}
        bytes == Varint64(long)
    IN /\ \A i \in DOMAIN bytes :
             BitsOf(bytes[i] % 128) = {b \in 0 .. 6 : b + 7 * (i - 1) \in bits}
       /\ \A b \in bits : b < 7 * Len(bytes)
       /\ Len(bytes) = 1 \/ \E b \in bits : b >= 7 * (Len(bytes) - 1)
       /\ \A i \in DOMAIN bytes : bytes[i] < 128 <=> i = Len(bytes)
=============================================================================
