--------------------------- MODULE WellKnownTypes ---------------------------
(* The methods that the plugin generates for the types of google/protobuf,   *)
(* which have a JSON format of their own: internalJsonWrite and              *)
(* internalJsonRead, and the conversion of a Timestamp from and to a Date.   *)
(*                                                                           *)
(* A message is [type, ...]. A result is JSON or a message, or Thrown.       *)
EXTENDS ReflectionJson

CONSTANTS
    FirstSecond,    \* 0001-01-01T00:00:00Z, in seconds since 1970,
    LastSecond,     \* and 9999-12-31T23:59:59Z
    Longest         \* the longest Duration: 315576000000 seconds

ASSUME WellKnownAssumption ==
    /\ FirstSecond \in Int /\ FirstSecond < 0
    /\ LastSecond \in Nat /\ Longest \in Nat

Thrown == [t |-> "error", v |-> <<>>]
Throws(result) == "t" \in DOMAIN result /\ result.t = "error"

-----------------------------------------------------------------------------
(* Timestamp and Duration: a number of seconds, and nanoseconds as a         *)
(* fraction of 3, 6 or 9 digits. Their text is taken apart.                  *)

Million == 1000000

DigitsOfMillis(nanos) ==  \* Mutant: three digits whenever the last three are zeros.
    IF nanos = 0 THEN 0 ELSE IF nanos % 1000 = 0 THEN 3 ELSE 9

Digits(nanos) ==
    CASE nanos = 0 -> 0
      [] nanos # 0 /\ nanos % Million = 0 -> 3
      [] nanos % Million # 0 /\ nanos % 1000 = 0 -> 6
      [] OTHER -> 9
Power == [n \in {0, 3, 6, 9} |-> IF n = 9 THEN 1 ELSE IF n = 6 THEN 1000 ELSE Million]

Fraction(nanos) ==
    [digits |-> Digits(nanos), number |-> nanos \div Power[Digits(nanos)]]
Nanos(fraction) == fraction.number * Power[fraction.digits]

InRange(seconds) == FirstSecond <= seconds /\ seconds <= LastSecond

TimestampJson(m) ==
    IF InRange(m.seconds) /\ m.nanos >= 0
    THEN String([seconds |-> m.seconds, fraction |-> Fraction(m.nanos)])
    ELSE Thrown

\* Without a fraction the nanoseconds become 0.
ReadTimestamp(json, target) ==
    IF json.t = "string" /\ InRange(json.v.seconds)
    THEN [target EXCEPT !.seconds = json.v.seconds, !.nanos = Nanos(json.v.fraction)]
    ELSE Thrown

Absolute(n) == IF n < 0 THEN 0 - n ELSE n
InDuration(seconds) == Absolute(seconds) <= Longest

\* The sign is that of the seconds, or of the nanoseconds if there are none.
DurationJson(m) ==
    IF InDuration(m.seconds)
    THEN String([minus |-> m.seconds < 0 \/ (m.seconds = 0 /\ m.nanos < 0),
                 seconds |-> Absolute(m.seconds),
                 fraction |-> Fraction(Absolute(m.nanos))])
    ELSE Thrown

\* Without a fraction the nanoseconds stay what they are.
ReadDuration(json, target) ==
    LET Signed(n) == IF json.v.minus THEN 0 - n ELSE n IN
    IF json.t = "string" /\ InDuration(json.v.seconds)
    THEN [target EXCEPT
             !.seconds = Signed(json.v.seconds),
             !.nanos = IF json.v.fraction.digits = 0 THEN @ ELSE Signed(Nanos(json.v.fraction))]
    ELSE Thrown

\* fromDate: `%` has the sign of the milliseconds.
FromDate(ms) ==
    [type |-> "Timestamp",
     seconds |-> ms \div 1000,
     nanos |-> (IF ms < 0 THEN 0 - ((0 - ms) % 1000) ELSE ms % 1000) * Million]

\* toDate: the nanoseconds are rounded up.
ToDate(m) == m.seconds * 1000 + (0 - ((0 - m.nanos) \div Million))

-----------------------------------------------------------------------------
(* FieldMask. A path is a sequence of characters: "a" for a small letter,    *)
(* "A" for a capital one, "1" for a digit, "." and "_".                      *)

\* lowerCamelCase: what follows a "_" or a digit is a capital letter.
LowerCamelCase(path) ==
    LET Capital(c) == IF c = "a" THEN "A" ELSE c
        Next(r, c) ==
            CASE c = "_" -> [r EXCEPT !.cap = TRUE]
              [] c = "1" -> [out |-> Append(r.out, c), cap |-> TRUE]
              [] c \notin {"_", "1"} ->
                     [out |-> Append(r.out, IF r.cap THEN Capital(c) ELSE c), cap |-> FALSE]
    IN  FoldLeft(Next, [out |-> <<>>, cap |-> FALSE], path).out

\* invalidFieldMaskJsonRegex
Invalid(path) ==
    \E i \in DOMAIN path :
        \/ path[i] = "A"
        \/ path[i] = "_" /\ (i = Len(path) \/ path[i + 1] \in {".", "1", "_"})

FieldMaskJson(m) ==
    IF \E i \in DOMAIN m.paths : Invalid(m.paths[i]) THEN Thrown
    ELSE String([i \in DOMAIN m.paths |-> LowerCamelCase(m.paths[i])])

CamelToSnake(path) ==
    FlattenSeq([i \in DOMAIN path |-> IF path[i] = "A" THEN <<"_", "a">> ELSE <<path[i]>>])

\* An empty text leaves the paths that are there.
ReadFieldMask(json, target) ==
    CASE json.t = "string" /\ json.v = <<>> -> target
      [] json.t = "string" /\ json.v # <<>> /\ (\A i \in DOMAIN json.v : ~Contains(json.v[i], "_")) ->
             [target EXCEPT !.paths = [i \in DOMAIN json.v |-> CamelToSnake(json.v[i])]]
      [] OTHER -> Thrown

-----------------------------------------------------------------------------
(* The wrappers. What distinguishes the numbers of DoubleValue and           *)
(* FloatValue is whether they fit into 32 bits, and the other seven are      *)
(* written and read as what they are.                                        *)

FloatValues == {"zero", "float32", "NaN", "Infinity"}
DoubleValues == FloatValues \cup {"float64"}
Wrappers == {"DoubleValue", "FloatValue", "Int32Value", "UInt32Value", "Int64Value",
             "UInt64Value", "BoolValue", "StringValue", "BytesValue"}

\* DoubleValue is written as a FLOAT, and FloatValue as a DOUBLE.
WrapperJson(m) ==
    CASE m.type = "DoubleValue" /\ m.value \notin FloatValues -> Thrown
      [] m.value \in {"NaN", "Infinity"} -> String(m.value)
      [] m.type \in {"Int64Value", "UInt64Value", "StringValue", "BytesValue"} -> String(m.value)
      [] OTHER -> Number(m.value)

ReadWrapper(json, target) == [target EXCEPT !.value = json.v]

-----------------------------------------------------------------------------
(* Value, ListValue and Struct                                               *)

NewKnown(type) ==
    CASE type \in {"Timestamp", "Duration"} -> [type |-> type, seconds |-> 0, nanos |-> 0]
      [] type = "FieldMask" -> [type |-> type, paths |-> <<>>]
      [] type = "Value" -> [type |-> type, kind |-> "none", of |-> <<>>]
      [] type = "ListValue" -> [type |-> type, values |-> <<>>]
      [] type = "Struct" -> [type |-> type, fields |-> <<>>]
      [] type = "Any" -> [type |-> type, packed |-> <<>>]
      [] type \in Wrappers \cup {"Plain"} -> [type |-> type, value |-> "zero"]

RECURSIVE KnownJson(_, _), ReadKnown(_, _, _, _)

\* A throw while an item is written or read is the end of the whole.
AllOf(items, result) == IF \E i \in DOMAIN items : Throws(items[i]) THEN Thrown ELSE result

ValueJson(m, registry) ==
    CASE m.kind = "none" -> Thrown
      [] m.kind = "null" -> Null
      [] m.kind = "bool" -> [t |-> "boolean", v |-> m.of]
      [] m.kind = "number" -> IF m.of \in {"NaN", "Infinity"} THEN Thrown ELSE Number(m.of)
      [] m.kind = "string" -> String(m.of)
      [] m.kind \in {"list", "struct"} -> KnownJson(m.of, registry)

\* Always a new ADT.
ReadValue(json, target, registry) ==
    LET Kind(kind, of) == [target EXCEPT !.kind = kind, !.of = of]
        list == ReadKnown("ListValue", json, NewKnown("ListValue"), registry)
        struct == ReadKnown("Struct", json, NewKnown("Struct"), registry)
    IN  CASE json.t \in {"number", "string"} -> Kind(json.t, json.v)
          [] json.t = "boolean" -> Kind("bool", json.v)
          [] json.t = "null" -> Kind("null", <<>>)
          [] json.t = "array" -> IF Throws(list) THEN Thrown ELSE Kind("list", list)
          [] json.t = "object" -> IF Throws(struct) THEN Thrown ELSE Kind("struct", struct)

ListValueJson(m, registry) ==
    LET items == [i \in DOMAIN m.values |-> KnownJson(m.values[i], registry)]
    IN  AllOf(items, Array(items))

\* The values are appended.
ReadListValue(json, target, registry) ==
    IF json.t # "array" THEN Thrown
    ELSE LET items == [i \in DOMAIN json.v |->
                          ReadKnown("Value", json.v[i], NewKnown("Value"), registry)]
         IN  AllOf(items, [target EXCEPT !.values = @ \o items])

StructJson(m, registry) ==
    LET items == [key \in DOMAIN m.fields |-> KnownJson(m.fields[key], registry)]
    IN  AllOf(items, [t |-> "object", v |-> items])

\* The values are added, overwriting existing keys.
ReadStruct(json, target, registry) ==
    IF json.t # "object" THEN Thrown
    ELSE LET items == [key \in DOMAIN json.v |->
                          ReadKnown("Value", json.v[key], NewKnown("Value"), registry)]
         IN  AllOf(items, [target EXCEPT !.fields = items @@ @])

-----------------------------------------------------------------------------
(* Any. The binary data in it is that of the message packed; "Plain" is a    *)
(* type of another package, with a field called `value`.                     *)

GoogleProtobuf(type) == type # "Plain"

PlainJson(m) == [t |-> "object", v |-> [k \in {"value"} |-> Number(m.value)]]

AnyJson(m, registry) ==
    LET json == KnownJson(Last(m.packed), registry) IN
    CASE m.packed = <<>> -> [t |-> "object", v |-> <<>>]
      [] m.packed # <<>> /\ Last(m.packed).type \notin registry -> Thrown
      [] m.packed # <<>> /\ Last(m.packed).type \in registry ->
             IF Throws(json) THEN Thrown
             ELSE [t |-> "object",
                   v |-> ("@type" :> String(Last(m.packed).type))
                         @@ (IF GoogleProtobuf(Last(m.packed).type) \/ json.t # "object"
                             THEN "value" :> json ELSE json.v)]

\* An object without a type is a new Any, even if there is a target.
ReadAny(json, target, registry) ==
    LET type == json.v["@type"].v
        own == IF GoogleProtobuf(type) /\ "value" \in DOMAIN json.v THEN json.v["value"]
               ELSE [json EXCEPT !.v = [k \in DOMAIN json.v \ {"@type"} |-> json.v[k]]]
        packed == ReadKnown(type, own, NewKnown(type), registry)
    IN  CASE json.t # "object" -> Thrown
          [] json.t = "object" /\ "@type" \notin DOMAIN json.v -> NewKnown("Any")
          [] json.t = "object" /\ "@type" \in DOMAIN json.v ->
                 IF type \notin registry \/ Throws(packed) THEN Thrown
                 ELSE [target EXCEPT !.packed = <<packed>>]

-----------------------------------------------------------------------------
KnownJson(m, registry) ==
    CASE m.type = "Timestamp" -> TimestampJson(m)
      [] m.type = "Duration" -> DurationJson(m)
      [] m.type = "FieldMask" -> FieldMaskJson(m)
      [] m.type = "Value" -> ValueJson(m, registry)
      [] m.type = "ListValue" -> ListValueJson(m, registry)
      [] m.type = "Struct" -> StructJson(m, registry)
      [] m.type = "Any" -> AnyJson(m, registry)
      [] m.type \in Wrappers -> WrapperJson(m)
      [] m.type = "Plain" -> PlainJson(m)

ReadKnown(type, json, target, registry) ==
    CASE type = "Timestamp" -> ReadTimestamp(json, target)
      [] type = "Duration" -> ReadDuration(json, target)
      [] type = "FieldMask" -> ReadFieldMask(json, target)
      [] type = "Value" -> ReadValue(json, target, registry)
      [] type = "ListValue" -> ReadListValue(json, target, registry)
      [] type = "Struct" -> ReadStruct(json, target, registry)
      [] type = "Any" -> ReadAny(json, target, registry)
      [] type \in Wrappers -> ReadWrapper(json, target)
      [] type = "Plain" ->
             IF json.t = "object" /\ DOMAIN json.v = {"value"} THEN ReadWrapper(json.v["value"], target)
             ELSE Thrown
=============================================================================
