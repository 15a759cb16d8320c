--------------------------- MODULE MCMessageRelay ---------------------------
(* Messages for MessageRelay: every field alone, with values at the limits of *)
(* its encoding, and messages in messages, some with a length of two bytes.  *)
EXTENDS MessageRelay

ofLong(lo, hi) == [lo |-> lo, hi |-> hi]

Leaf == [Create EXCEPT !.scalar = 1]
Full == [Create EXCEPT !.scalar = 127, !.repeated = <<0, 128>>, !.child = <<Leaf>>,
                       !.oneof = NUMBER, !.number = 0, !.map = (3 :> 0 @@ 1 :> 300),
                       !.fixed32 = {0, 9}, !.uint64 = ofLong({6}, {}),
                       !.sint64 = ofLong({}, {31}), !.fixed64 = ofLong({31}, {0}),
                       !.children = <<Create, Leaf>>]
Deep == [Create EXCEPT !.child = <<[Create EXCEPT !.child = <<Leaf>>, !.repeated = <<5>>]>>,
                       !.oneof = NODE, !.node = <<[Leaf EXCEPT !.map = (1 :> 1)]>>]

\* Every 64 bit field at its longest, and a message of such messages: its
\* length takes two bytes.
Long64 ==
    LET ones == ofLong(BitNumbers, BitNumbers) IN
    [Create EXCEPT !.uint64 = ones, !.fixed64 = ones, !.sint64 = ofLong(BitNumbers, 0 .. 30)]
Wide == [Create EXCEPT !.children = <<Long64, Long64, Leaf, Long64, Long64>>]

\* 2^53 - 1 and 2^53, and 10^17: the digits in the middle, to base 1e7, are zeros.
DecimalLongs ==
    {ofLong(BitNumbers, 0 .. 20), ofLong({}, {21}),
     ofLong({17, 19, 23, 24, 26, 27, 28, 30}, {3, 4, 5, 6, 8, 10, 14, 16, 17, 21, 22, 24})}

\* Bits around every border of the groups of a varint.
Longs ==
    {ofLong({b}, {}) : b \in {0, 6, 7, 13, 20, 27, 28, 31}}
    \cup {ofLong({}, {b}) : b \in {0, 2, 3, 9, 10, 30, 31}}
    \cup {ofLong(BitNumbers, {}), ofLong({}, BitNumbers), ofLong(BitNumbers, BitNumbers),
          ofLong({5, 30}, {1, 31})}
    \cup DecimalLongs

ASSUME LongsAreMinimal == \A long \in Longs : VarintIsMinimal(long)

SomeMessages ==
    {Create, Full, Deep}
    \cup {[Create EXCEPT !.uint64 = long, !.sint64 = long] : long \in Longs}
    \cup {Long64, [Create EXCEPT !.child = <<Wide>>],
          [Create EXCEPT !.oneof = NODE, !.node = <<Create>>],
          [Create EXCEPT !.oneof = CHOICE, !.choice = <<0>>],
          [Create EXCEPT !.child = <<[Create EXCEPT !.oneof = CHOICE, !.choice = <<2>>]>>],
          [Create EXCEPT !.children = <<[Create EXCEPT !.fixed32 = {31}]>>]}

SomeAdditions ==
    {Create, Full, Deep,
     [Create EXCEPT !.oneof = NUMBER, !.number = 7, !.map = (1 :> 2 @@ 2 :> 2)],
     [Create EXCEPT !.oneof = CHOICE, !.choice = <<1>>]}

\* The order of the fields in the .proto file is not that of their numbers.
SomeOrder == <<8, 10, 11, 3, 12, 9, 6, 5, 4, 7, 1, 2>>

SomeSenders == {[code |-> "reflection", packed |-> TRUE], [code |-> "speed", packed |-> FALSE]}

type(c, known, knownInside) == [code |-> c, fields |-> known, child |-> knownInside]
SomeRelays ==
    {type("reflection", AllFields, {SCALAR}),
     type("reflection", {}, {}),
     type("reflection", Members \cup {REPEATED, UINT64}, {}),
     type("speed", {MAP, FIXED32, CHILD}, {MAP, FIXED32, CHILD}),
     type("speed", AllFields, AllFields),
     type("speed", Members \cup {SCALAR, CHILDREN}, {REPEATED, SINT64})}

\* A message without fields, in another message and alone.
EmptyTypes == {type("speed", {SCALAR, CHILD}, {}), type("speed", {}, {})}
FewMessages == {Leaf, [Create EXCEPT !.child = <<Leaf>>]}

NoValues == {}

\* JSON: a value of fixed32 that is no int32, values of the enum with and
\* without a name; readers that know less.
\* The platform of the writer has bigint with one option, that of the reader
\* with another.
JsonWay(known, inside, names, ignores, defaults, integers) ==
    [code |-> "json", fields |-> known, child |-> inside, enum |-> names, ignore |-> ignores,
     bigint |-> integers,
     options |-> [defaults |-> defaults, names |-> defaults, integers |-> integers,
                  bigint |-> defaults]]
SomeReaders ==
    {JsonWay(AllFields, AllFields, Enum, FALSE, defaults, integers) :
         defaults \in BOOLEAN, integers \in BOOLEAN}
    \cup {JsonWay(AllFields, AllFields \ {SCALAR, CHOICE}, {0}, ignores, FALSE, FALSE) :
             ignores \in BOOLEAN}
    \cup {JsonWay(AllFields \ {MAP, NODE}, AllFields, Enum, TRUE, TRUE, FALSE),
          JsonWay({REPEATED, CHOICE}, {}, {}, TRUE, FALSE, FALSE)}

\* Values of the well-known types.
Time(t, s, n) == [type |-> t, seconds |-> s, nanos |-> n]
Mask(list) == [type |-> "FieldMask", paths |-> list]
Value(kind, of) == [type |-> "Value", kind |-> kind, of |-> of]
List(values) == [type |-> "ListValue", values |-> values]
Struct(fields) == [type |-> "Struct", fields |-> fields]
Wrapped(t, v) == [type |-> t, value |-> v]
AnyOf(m) == [type |-> "Any", packed |-> <<m>>]

Timestamps == {Time("Timestamp", s, n) : s \in {-11, -10, 0, 10, 11}, n \in {0, 1, 5000, 20000000, 999999999, -1}}
Durations ==
    {Time("Duration", 0, n) : n \in {0, 1, -1, 5000, -20000000}}
    \cup {Time("Duration", s, n) : s \in {1, 10, 11}, n \in {0, 1, 999999999}}
    \cup {Time("Duration", s, n) : s \in {-1, -10, -11}, n \in {0, -1, -999999999}}
Masks ==
    {Mask(<<>>), Mask(<<<<"a">>, <<"a", ".", "a", "_", "a">>>>), Mask(<<<<"_", "a", "1", "_", "a">>>>),
     Mask(<<<<"a", "1", "a">>>>), Mask(<<<<"a", "_", "1">>>>), Mask(<<<<"A">>>>),
     Mask(<<<<"a", "1", ".", "a">>, <<"a", "_">>>>), Mask(<<<<"a", "1", ".", "a">>>>)}
Simple ==
    {Value("null", <<>>), Value("bool", FALSE), Value("number", "zero"), Value("string", "zero"),
     Value("none", <<>>), Value("number", "NaN")}
Compound ==
    {Value("list", List(<<v>>)) : v \in Simple}
    \cup {Value("struct", Struct("k" :> Value("null", <<>>))),
          Value("struct", Struct("value" :> Value("bool", TRUE))),
          Value("struct", Struct(<<>>)), Value("list", List(<<>>))}
Lists == {List(<<>>), List(<<Value("null", <<>>), Value("struct", Struct(<<>>))>>),
          List(<<Value("none", <<>>)>>)}
Structs == {Struct(<<>>), Struct("k" :> Value("number", "float32")),
            Struct("value" :> Value("string", "") @@ "k" :> Value("list", List(<<>>)))}
Wrapped9 ==
    {Wrapped("DoubleValue", v) : v \in DoubleValues} \cup {Wrapped("FloatValue", v) : v \in FloatValues}
    \cup {Wrapped(t, "zero") : t \in Wrappers}
Anys ==
    {[type |-> "Any", packed |-> <<>>], AnyOf(Time("Timestamp", 1, 5000)), AnyOf(Wrapped("Plain", "one")),
     AnyOf(Value("null", <<>>)), AnyOf(Struct("value" :> Value("bool", TRUE))),
     AnyOf(Wrapped("BoolValue", "zero")), AnyOf(Time("Duration", 1, 0)), AnyOf(Wrapped("DoubleValue", "float64"))}
SomeValues ==
    UNION {s \X s : s \in {Timestamps, Durations, Masks, Simple \cup Compound, Lists, Structs, Anys}}
    \cup {<<w, w>> : w \in Wrapped9}

SomeDates == {-2000, -1001, -1000, -999, -1, 0, 1, 999, 1000, 1999, 2000}
Seconds0 == -10
=============================================================================
