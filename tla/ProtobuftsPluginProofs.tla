---------------------- MODULE ProtobuftsPluginProofs ----------------------
(* What the interpreter keeps of message types belongs to them, whatever     *)
(* types lead to each other by their options, and what is printed of them,   *)
(* of enums and of methods means to the runtime what the proto file says.    *)
(* Interfaces, the runtime's check and create() read a field alike.          *)
EXTENDS GeneratedReflection, SequenceLemmas, FiniteSetTheorems

-----------------------------------------------------------------------------
(* Among: its recursion, and what it keeps.                                  *)

Keeps(f, s, S) ==
    f = [k \in 0 .. Len(s) |->
            IF k = 0 THEN <<>> ELSE IF s[k] \in S THEN Append(f[k - 1], s[k]) ELSE f[k - 1]]

LEMMA KeepsExists ==
    ASSUME NEW s, NEW S, Len(s) \in Nat PROVE \E f : Keeps(f, s, S)
<1> DEFINE Step(f, k) == IF k = 0 THEN <<>>
                         ELSE IF s[k] \in S THEN Append(f[k - 1], s[k]) ELSE f[k - 1]
           Upto(f, n) == f = [k \in 0 .. n |-> Step(f, k)]
           T == {n \in Nat : \E f : Upto(f, n)}
<1>1. 0 \in T
  <2> DEFINE f0 == [k \in 0 .. 0 |-> <<>>]
  <2>1. Upto(f0, 0) OBVIOUS
  <2> QED BY <2>1
<1>2. ASSUME NEW n \in Nat, n \in T PROVE n + 1 \in T
  <2>1. PICK f : Upto(f, n) BY <1>2
  <2> DEFINE g == [k \in 0 .. n + 1 |-> IF k <= n THEN f[k] ELSE Step(f, k)]
  <2>2. \A k \in 0 .. n : f[k] = Step(f, k) BY <2>1
  <2>3. ASSUME NEW k \in 0 .. n + 1 PROVE g[k] = Step(g, k)
    <3>1. CASE k = 0
      <4>1. 0 <= n /\ 0 \in 0 .. n BY SMT
      <4> QED BY <2>2, <3>1, <4>1
    <3>2. CASE k # 0
      <4>1. k - 1 \in 0 .. n /\ k - 1 \in 0 .. n + 1 /\ k - 1 <= n BY <3>2
      <4>2. g[k - 1] = f[k - 1] BY <4>1
      <4>3. g[k] = Step(f, k)
        <5>1. CASE k <= n
          <6>1. k \in 0 .. n BY <5>1
          <6> QED BY <2>2, <5>1, <6>1
        <5>2. CASE ~(k <= n) BY <5>2
        <5> QED BY <5>1, <5>2
      <4> QED BY <3>2, <4>2, <4>3
    <3> QED BY <3>1, <3>2
  <2> HIDE DEF Step
  <2>4. g = [k \in 0 .. n + 1 |-> g[k]] OBVIOUS
  <2> HIDE DEF g
  <2>5. Upto(g, n + 1) BY <2>3, <2>4
  <2> HIDE DEF Upto
  <2>6. \E h : Upto(h, n + 1) BY <2>5
  <2> QED BY <2>6
<1> HIDE DEF T
<1>3. Nat \subseteq T BY <1>1, <1>2, SetInduction
<1> QED BY <1>3 DEF T, Keeps

LEMMA AmongIs ==
    ASSUME NEW s, NEW S, Len(s) \in Nat
    PROVE  \E f : Keeps(f, s, S) /\ Among(s, S) = f[Len(s)]
<1> DEFINE kept[k \in 0 .. Len(s)] ==
        IF k = 0 THEN <<>> ELSE IF s[k] \in S THEN Append(kept[k - 1], s[k]) ELSE kept[k - 1]
<1>1. kept = CHOOSE f : Keeps(f, s, S) BY DEF Keeps
<1>2. Among(s, S) = kept[Len(s)] BY DEF Among
<1> HIDE DEF kept
<1>3. Keeps(kept, s, S) BY <1>1, KeepsExists
<1> QED BY <1>2, <1>3

\* The elements are those in the set, and no more than there were.
LEMMA AmongType ==
    ASSUME NEW X, NEW s \in Seq(X), NEW S
    PROVE  Among(s, S) \in Seq(X \cap S) /\ Len(Among(s, S)) <= Len(s)
<1>1. Len(s) \in Nat /\ \A k \in 1 .. Len(s) : s[k] \in X OBVIOUS
<1>2. PICK f : Keeps(f, s, S) /\ Among(s, S) = f[Len(s)] BY <1>1, AmongIs
<1> DEFINE T == {n \in Nat : n <= Len(s) => f[n] \in Seq(X \cap S) /\ Len(f[n]) <= n}
<1>3. \A k \in 0 .. Len(s) :
        f[k] = IF k = 0 THEN <<>> ELSE IF s[k] \in S THEN Append(f[k - 1], s[k]) ELSE f[k - 1]
  BY <1>2 DEF Keeps
<1>0. 0 \in 0 .. Len(s) /\ f[0] = <<>> BY <1>1, <1>3
<1>4. 0 \in T
  <2>1. <<>> \in Seq(X \cap S) /\ Len(<<>>) = 0 OBVIOUS
  <2>2. f[0] \in Seq(X \cap S) /\ Len(f[0]) <= 0 BY <1>0, <2>1
  <2> QED BY <2>2
<1>5. ASSUME NEW n \in Nat, n \in T PROVE n + 1 \in T
  <2> SUFFICES ASSUME n + 1 <= Len(s)
               PROVE  f[n + 1] \in Seq(X \cap S) /\ Len(f[n + 1]) <= n + 1
    OBVIOUS
  <2>1. n + 1 \in 0 .. Len(s) /\ n + 1 # 0 /\ (n + 1) - 1 = n /\ n <= Len(s) /\ n + 1 \in 1 .. Len(s)
    BY <1>1
  <2>2. f[n + 1] = IF s[n + 1] \in S THEN Append(f[n], s[n + 1]) ELSE f[n] BY <1>3, <2>1
  <2>3. f[n] \in Seq(X \cap S) /\ Len(f[n]) <= n BY <1>5, <2>1
  <2>4. s[n + 1] \in X BY <1>1, <2>1
  <2> QED BY <2>2, <2>3, <2>4
<1> HIDE DEF T
<1>6. Nat \subseteq T BY <1>4, <1>5, SetInduction
<1> QED BY <1>1, <1>2, <1>6 DEF T

\* Nothing is left out when everything is in the set.
LEMMA AmongAll ==
    ASSUME NEW X, NEW s \in Seq(X), NEW S, X \subseteq S
    PROVE  Among(s, S) = s
<1>1. Len(s) \in Nat /\ \A k \in 1 .. Len(s) : s[k] \in X OBVIOUS
<1>2. PICK f : Keeps(f, s, S) /\ Among(s, S) = f[Len(s)] BY <1>1, AmongIs
<1> DEFINE T == {n \in Nat : n <= Len(s) => f[n] = SubSeq(s, 1, n)}
<1>3. \A k \in 0 .. Len(s) :
        f[k] = IF k = 0 THEN <<>> ELSE IF s[k] \in S THEN Append(f[k - 1], s[k]) ELSE f[k - 1]
  BY <1>2 DEF Keeps
<1>0. 0 \in 0 .. Len(s) /\ f[0] = <<>> BY <1>1, <1>3
<1>4. 0 \in T
  <2>1. SubSeq(s, 1, 0) = <<>> OBVIOUS
  <2>2. f[0] = SubSeq(s, 1, 0) BY <1>0, <2>1
  <2> QED BY <2>2
<1>5. ASSUME NEW n \in Nat, n \in T PROVE n + 1 \in T
  <2> SUFFICES ASSUME n + 1 <= Len(s) PROVE f[n + 1] = SubSeq(s, 1, n + 1) OBVIOUS
  <2>1. n + 1 \in 0 .. Len(s) /\ n + 1 # 0 /\ (n + 1) - 1 = n /\ n <= Len(s) /\ n + 1 \in 1 .. Len(s)
    BY <1>1
  <2>2. f[n + 1] = Append(f[n], s[n + 1]) BY <1>1, <1>3, <2>1
  <2>3. f[n] = SubSeq(s, 1, n) BY <1>5, <2>1
  <2>4. SubSeq(s, 1, n + 1) = Append(SubSeq(s, 1, n), s[n + 1]) BY <1>1, <2>1
  <2> QED BY <2>2, <2>3, <2>4
<1> HIDE DEF T
<1>6. Nat \subseteq T BY <1>4, <1>5, SetInduction
<1>7. SubSeq(s, 1, Len(s)) = s OBVIOUS
<1> QED BY <1>1, <1>2, <1>6, <1>7 DEF T

LEMMA SequenceFacts ==
    ASSUME NEW s, IsSequence(s)
    PROVE  /\ s \in Seq(ToSet(s)) /\ Len(s) \in Nat /\ DOMAIN s = 1 .. Len(s)
           /\ \A k \in DOMAIN s : s[k] \in ToSet(s)
           /\ \A x \in ToSet(s) : \E k \in DOMAIN s : x = s[k]
BY DEF IsSequence, ToSet

LEMMA SequenceOfItsElements ==
    ASSUME NEW X, NEW s \in Seq(X) PROVE IsSequence(s)
<1>1. /\ Len(s) \in Nat /\ DOMAIN s = 1 .. Len(s)
      /\ s = [i \in 1 .. Len(s) |-> s[i]]
  OBVIOUS
<1>2. \A i \in 1 .. Len(s) : s[i] \in ToSet(s) BY <1>1 DEF ToSet
<1>3. [i \in 1 .. Len(s) |-> s[i]] \in Seq(ToSet(s)) BY <1>1, <1>2
<1> QED BY <1>1, <1>3 DEF IsSequence

-----------------------------------------------------------------------------
(* Merged information.                                                       *)

LEMMA FirstWins ==
    ASSUME NEW f, NEW g, NEW key \in DOMAIN f
    PROVE  key \in DOMAIN (f ++ g) /\ (f ++ g)[key] = f[key]
BY DEF ++

\* Information has a key, with a value.
HasValue(info, key, value) == key \in DOMAIN info /\ info[key] = value

LEMMA HasStays ==
    ASSUME NEW f, NEW g, NEW key, NEW value, HasValue(f, key, value) PROVE HasValue(f ++ g, key, value)
BY FirstWins DEF HasValue

LEMMA NumberKept ==
    ASSUME NEW registry, NEW o, NEW d, NEW f
    PROVE  normalizeFieldInfo(buildFieldInfo(registry, o, d, f)).no = f.no
<1> DEFINE info == buildFieldInfo(registry, o, d, f)
<1>1. HasValue([no |-> f.no, name |-> f.name], "no", f.no) BY DEF HasValue
<1>2. HasValue(info, "no", f.no) BY <1>1, HasStays DEF buildFieldInfo
<1> HIDE DEF info
<1>3. HasValue(normalizeFieldInfo(info), "no", f.no)
  BY <1>2, HasStays DEF normalizeFieldInfo, WithNames, WithDefault
<1>4. HasValue(normalizeFieldInfo(info), "no", f.no) => normalizeFieldInfo(info).no = f.no
  BY DEF HasValue
<1> QED BY <1>3, <1>4 DEF info

-----------------------------------------------------------------------------
(* What protoc has accepted, for the types of a request.                     *)

LEMMA FileFacts ==
    ASSUME NEW registry, ProtocAccepts(registry)
    PROVE  /\ Len(registry) \in Nat \ {0} /\ DOMAIN registry = 1 .. Len(registry)
           /\ \A i \in DOMAIN registry :
                 /\ IsSequence(registry[i].package) /\ IsSequence(registry[i].types)
                 /\ \A f \in ToSet(registry[i].extensions) : RefersToType(registry, f)
                 /\ \A t \in ToSet(registry[i].types) : IsValid(registry, t)
<1>1. IsSequence(registry) /\ registry # <<>> BY DEF ProtocAccepts
<1>2. \A i \in DOMAIN registry : registry[i] \in ToSet(registry) BY <1>1, SequenceFacts
<1>3. Len(registry) \in Nat /\ DOMAIN registry = 1 .. Len(registry) /\ registry \in Seq(ToSet(registry))
  BY <1>1, SequenceFacts
<1>4. Len(registry) # 0 BY <1>1, <1>3, EmptySeq
<1> QED BY <1>2, <1>3, <1>4 DEF ProtocAccepts

LEMMA TypeFacts ==
    ASSUME NEW registry, ProtocAccepts(registry), NEW d \in TypesOf(registry)
    PROVE  /\ d = <<d[1], d[2]>> /\ d[1] \in DOMAIN registry
           /\ d[2] \in DOMAIN registry[d[1]].types /\ d[2] \in Nat \ {0}
           /\ IsValid(registry, TypeAt(registry, d))
<1>0. PICK i \in DOMAIN registry : \E j \in DOMAIN registry[i].types : d = <<i, j>> BY DEF TypesOf
<1>1. PICK j \in DOMAIN registry[i].types : d = <<i, j>> BY <1>0
<1>2. IsSequence(registry[i].types) /\ \A t \in ToSet(registry[i].types) : IsValid(registry, t)
  BY FileFacts
<1>3. d[1] = i /\ d[2] = j BY <1>1
<1>4. DOMAIN registry[i].types = 1 .. Len(registry[i].types) /\ Len(registry[i].types) \in Nat
      /\ registry[i].types[j] \in ToSet(registry[i].types)
  BY <1>2, SequenceFacts
<1>5. j \in Nat \ {0} BY <1>4
<1> QED BY <1>1, <1>2, <1>3, <1>4, <1>5 DEF TypeAt

\* The extension of an option that is set.
LEMMA ExtensionFacts ==
    ASSUME NEW registry, ProtocAccepts(registry), NEW extendee, NEW s, IsSet(registry, extendee, s)
    PROVE  LET e == ExtensionOf(registry, s)
           IN  /\ e \in ExtensionsIn(registry, s.ext.in) /\ s.ext = [in |-> e.in, at |-> e.at]
               /\ e.f.extendee = extendee /\ (s.zero => e.f.label # "repeated")
               /\ RefersToType(registry, e.f)
<1> DEFINE D == s.ext.in
           fields == IF D[2] = 0 THEN fileOf(registry, D).extensions
                     ELSE TypeAt(registry, D).extensions
<1>1. PICK e \in ExtensionsIn(registry, D) :
         /\ s.ext = [in |-> e.in, at |-> e.at] /\ e.f.extendee = extendee
         /\ s.zero => e.f.label # "repeated"
  BY DEF IsSet
<1>2. ExtensionsIn(registry, D) = {[in |-> D, at |-> k, f |-> fields[k]] : k \in DOMAIN fields}
  BY DEF ExtensionsIn
<1>3. \A x \in ExtensionsIn(registry, D) : x.at = e.at => x = e
  <2> HIDE DEF fields
  <2> QED BY <1>2
<1>4. e.at = s.ext.at BY <1>1
<1>5. ExtensionOf(registry, s) = e BY <1>1, <1>3, <1>4 DEF ExtensionOf
<1>6. PICK k \in DOMAIN fields : e.f = fields[k]
  <2> HIDE DEF fields
  <2> QED BY <1>2
<1>7. RefersToType(registry, fields[k])
  <2>1. D[1] \in DOMAIN registry BY DEF IsSet
  <2>2. CASE D[2] = 0
    <3>1. fields = registry[D[1]].extensions BY <2>2 DEF fileOf
    <3>2. fields[k] \in ToSet(registry[D[1]].extensions) BY <3>1 DEF ToSet
    <3> QED BY <2>1, <3>2, FileFacts
  <2>3. CASE D[2] # 0
    <3>1. fields = TypeAt(registry, D).extensions BY <2>3
    <3>2. fields[k] \in ToSet(TypeAt(registry, D).extensions) BY <3>1 DEF ToSet
    <3>3. D \in TypesOf(registry)
      <4>1. D = <<D[1], 0>> => D[2] = 0 OBVIOUS
      <4> QED BY <2>3, <4>1 DEF IsSet
    <3>4. IsValid(registry, TypeAt(registry, D)) BY <3>3, TypeFacts
    <3> QED BY <3>2, <3>4 DEF IsValid
  <2> QED BY <2>2, <2>3
<1> QED BY <1>1, <1>5, <1>6, <1>7

-----------------------------------------------------------------------------
(* Options: what is read is what is set and not excluded.                    *)

\* Of the options that are set, those that can be read stand in files and in
\* messages that are not nested.
LEMMA KnownIsVisible ==
    ASSUME ProtocAccepts(Registry), NEW extendee, NEW s, IsSet(Registry, extendee, s)
    PROVE  Known(Registry, extendee, s) <=> Visible(s.ext)
<1> DEFINE e == ExtensionOf(Registry, s)
           D == s.ext.in
<1>1. /\ e \in ExtensionsIn(Registry, D) /\ s.ext = [in |-> e.in, at |-> e.at]
      /\ e.f.extendee = extendee
  BY ExtensionFacts
<1>2. D[1] \in DOMAIN Registry BY DEF IsSet
<1>3. ASSUME Known(Registry, extendee, s) PROVE Visible(s.ext)
  <2>1. PICK x \in getAllExtensions(Registry) : s.ext = [in |-> x.in, at |-> x.at]
    BY <1>3 DEF Known, extensionsFor
  <2>2. PICK i \in DOMAIN Registry :
           \/ x \in ExtensionsIn(Registry, <<i, 0>>)
           \/ \E j \in DOMAIN Registry[i].types :
                 /\ Len(Registry[i].types[j].path) = 1 /\ x \in ExtensionsIn(Registry, <<i, j>>)
    <3> DEFINE Direct(i) == {j \in DOMAIN Registry[i].types :
                                Registry[i].types[j].sort = "message"
                                /\ Len(Registry[i].types[j].path) = 1}
               Nested(i) == UNION {ExtensionsIn(Registry, <<i, j>>) : j \in Direct(i)}
    <3>1. getAllExtensions(Registry)
            = UNION {ExtensionsIn(Registry, <<i, 0>>) \cup Nested(i) : i \in DOMAIN Registry}
      BY DEF getAllExtensions
    <3> HIDE DEF Nested
    <3>2. PICK i \in DOMAIN Registry : x \in ExtensionsIn(Registry, <<i, 0>>) \/ x \in Nested(i)
      BY <2>1, <3>1
    <3>3. x \in Nested(i) => \E j \in Direct(i) : x \in ExtensionsIn(Registry, <<i, j>>) BY DEF Nested
    <3> QED BY <3>2, <3>3
  <2>3. \A c : x \in ExtensionsIn(Registry, c) => D = c BY <2>1 DEF ExtensionsIn
  <2>4. CASE x \in ExtensionsIn(Registry, <<i, 0>>)
    <3>1. D = <<i, 0>> BY <2>3, <2>4
    <3> QED BY <3>1 DEF Visible
  <2>5. ASSUME NEW j \in DOMAIN Registry[i].types, Len(Registry[i].types[j].path) = 1,
               x \in ExtensionsIn(Registry, <<i, j>>)
        PROVE  Visible(s.ext)
    <3>1. D = <<i, j>> BY <2>3, <2>5
    <3>2. TypeOf(D) = Registry[i].types[j] BY <3>1 DEF TypeOf, Proto, Registry
    <3> QED BY <2>5, <3>2 DEF Visible
  <2> QED BY <2>2, <2>4, <2>5
<1>4. ASSUME Visible(s.ext) PROVE Known(Registry, extendee, s)
  <2>1. e \in getAllExtensions(Registry)
    <3>1. CASE D[2] = 0
      <4>1. D = <<D[1], 0>>
        <5>1. D \in TypesOf(Registry) => D[2] # 0 BY TypeFacts
        <5> QED BY <3>1, <5>1 DEF IsSet
      <4>2. e \in ExtensionsIn(Registry, <<D[1], 0>>) BY <1>1, <4>1
      <4> HIDE DEF e, D
      <4> QED BY <1>2, <4>2 DEF getAllExtensions
    <3>2. CASE D[2] # 0
      <4>1. D \in TypesOf(Registry) /\ TypeAt(Registry, D).sort = "message"
        <5>1. D = <<D[1], 0>> => D[2] = 0 OBVIOUS
        <5> QED BY <3>2, <5>1 DEF IsSet
      <4>2. D = <<D[1], D[2]>> /\ D[2] \in DOMAIN Registry[D[1]].types BY <4>1, TypeFacts
      <4>3. Len(Registry[D[1]].types[D[2]].path) = 1
        BY <1>4, <3>2 DEF Visible, TypeOf, Proto, Registry
      <4>4. Registry[D[1]].types[D[2]].sort = "message" BY <4>1 DEF TypeAt
      <4>5. e \in ExtensionsIn(Registry, <<D[1], D[2]>>) BY <1>1, <4>2
      <4> HIDE DEF e, D
      <4> QED BY <1>2, <4>2, <4>3, <4>4, <4>5 DEF getAllExtensions
    <3> QED BY <3>1, <3>2
  <2> HIDE DEF e
  <2> QED BY <1>1, <2>1 DEF Known, extensionsFor
<1> QED BY <1>3, <1>4

\* A pattern that begins the name of an option is one that excludes it.
LEMMA BeginningMatches ==
    ASSUME NEW p, NEW n, IsSequence(n.scope), Begins(p, n) PROVE Matches(p, n)
<1>1. CASE p.wild
  <2>1. n.scope \in Seq(ToSet(n.scope)) /\ Len(n.scope) \in Nat BY SequenceFacts
  <2>2. SubSeq(n.scope, 1, Len(n.scope)) = n.scope BY <2>1
  <2>3. IsPrefix(p.scope, n.scope) BY <1>1 DEF Begins
  <2>4. 1 \in 1 .. Len(n.scope) + 1 BY <2>1
  <2>5. \E k \in 1 .. Len(n.scope) + 1 : IsPrefix(p.scope, SubSeq(n.scope, k, Len(n.scope)))
    BY <2>2, <2>3, <2>4
  <2> QED BY <1>1, <2>5 DEF Matches
<1>2. CASE ~p.wild BY <1>2 DEF Begins
<1> QED BY <1>1, <1>2

LEMMA NameIsSequence ==
    ASSUME NEW registry, ProtocAccepts(registry), NEW extendee, NEW s, IsSet(registry, extendee, s)
    PROVE  IsSequence(getExtensionName(registry, ExtensionOf(registry, s)).scope)
<1> DEFINE e == ExtensionOf(registry, s)
           package == fileOf(registry, e.in).package
<1>1. e \in ExtensionsIn(registry, s.ext.in) /\ s.ext = [in |-> e.in, at |-> e.at]
  BY ExtensionFacts
<1>2. e.in = s.ext.in BY <1>1
<1>3. getExtensionName(registry, e).scope = TypeName(registry, e.in) BY DEF getExtensionName
<1> HIDE DEF e
<1>4. e.in[1] \in DOMAIN registry BY <1>2 DEF IsSet
<1>5. IsSequence(package) BY <1>4, FileFacts DEF fileOf
<1>6. ASSUME NEW path, IsSequence(path) PROVE IsSequence(package \o path)
  <2>1. package \in Seq(ToSet(package) \cup ToSet(path)) /\ path \in Seq(ToSet(package) \cup ToSet(path))
    BY <1>5, <1>6 DEF IsSequence
  <2> HIDE DEF package
  <2>2. package \o path \in Seq(ToSet(package) \cup ToSet(path)) BY <2>1
  <2> QED BY <2>2, SequenceOfItsElements
<1>7. CASE e.in[2] = 0
  <2>1. IsSequence(<<>>) BY DEF IsSequence, ToSet
  <2> QED BY <1>3, <1>6, <1>7, <2>1 DEF TypeName, e
<1>8. CASE e.in[2] # 0
  <2>1. e.in \in TypesOf(registry)
    <3>1. e.in = <<e.in[1], 0>> => e.in[2] = 0 OBVIOUS
    <3> QED BY <1>2, <1>8, <3>1 DEF IsSet
  <2>2. IsSequence(TypeAt(registry, e.in).path) BY <2>1, TypeFacts DEF IsValid
  <2> QED BY <1>3, <1>6, <1>8, <2>2 DEF TypeName, e
<1> QED BY <1>7, <1>8 DEF e

\* What readOptions returns is what the property wants.
LEMMA ReadAgrees ==
    ASSUME ProtocAccepts(Registry), NEW d, NEW extendee, NEW set, AreSet(Registry, extendee, set)
    PROVE  OptionsAgree(d, readOptions(Registry, options, d, extendee, set), set)
<1> DEFINE NameOf(s) == getExtensionName(Registry, ExtensionOf(Registry, s))
           known == {s \in ToSet(set) : Known(Registry, extendee, s) /\ Written(Registry, s)}
           exclude == fileOf(Registry, d).excludeOptions
           read == readOptions(Registry, options, d, extendee, set)
<1>1. CASE options.forceExcludeAllOptions BY <1>1 DEF OptionsAgree, readOptions
<1>2. CASE ~options.forceExcludeAllOptions
  <2>1. \A s \in ToSet(set) : IsSet(Registry, extendee, s) BY DEF AreSet
  <2>2. \A s \in ToSet(set) : Written(Registry, s)
    BY <2>1, ExtensionFacts DEF Written, isUserDeclaredRepeated
  <2>3. known = {s \in ToSet(set) : Visible(s.ext)} BY <2>1, <2>2, KnownIsVisible
  <2>4. {NameOf(s) : s \in known} = NamesOfOptions(set) BY <2>3 DEF NamesOfOptions
  <2>5. \A n \in NamesOfOptions(set) : IsSequence(n.scope)
    BY <2>1, NameIsSequence DEF NamesOfOptions
  <2>6. read = {n \in NamesOfOptions(set) : \A p \in exclude : ~Matches(p, n)}
    BY <1>2, <2>4 DEF readOptions
  <2>7. exclude = Proto(d[1]).excludeOptions BY DEF fileOf, Proto, Registry
  <2> HIDE DEF read, exclude
  <2>8. MustBeThere(d, set) \subseteq read BY <2>6, <2>7 DEF MustBeThere, Allowed
  <2>9. read \subseteq Allowed(d, set) BY <2>5, <2>6, <2>7, BeginningMatches DEF Allowed
  <2> QED BY <1>2, <2>8, <2>9 DEF OptionsAgree, read
<1> QED BY <1>1, <1>2

-----------------------------------------------------------------------------
(* The types that are made are those of the request.                         *)

LEMMA InterpretedFacts ==
    ASSUME NEW t, IsSequence(t.fields)
    PROVE  /\ Interpreted(t.fields) \in Seq(ToSet(t.fields))
           /\ Len(Interpreted(t.fields)) <= Len(t.fields)
           /\ ~HasGroups(t) => Interpreted(t.fields) = t.fields
<1> DEFINE X == ToSet(t.fields)
           S == {f \in X : ~isGroupField(f)}
<1>1. t.fields \in Seq(X) BY SequenceFacts
<1>2. Interpreted(t.fields) = Among(t.fields, S) BY DEF Interpreted
<1>3. ~HasGroups(t) => X \subseteq S BY DEF HasGroups
<1> HIDE DEF S, X
<1>4. Among(t.fields, S) \in Seq(X \cap S) /\ Len(Among(t.fields, S)) <= Len(t.fields)
  BY <1>1, AmongType
<1>5. Seq(X \cap S) \subseteq Seq(X) OBVIOUS
<1>6. X \subseteq S => Among(t.fields, S) = t.fields BY <1>1, AmongAll
<1> QED BY <1>2, <1>3, <1>4, <1>5, <1>6 DEF X

\* The types of the values of options.
LEMMA OptionTypes ==
    ASSUME NEW registry, ProtocAccepts(registry), NEW o, NEW extendee, NEW set,
           AreSet(registry, extendee, set)
    PROVE  \A k \in DOMAIN NeededFor(registry, o, extendee, set) :
               NeededFor(registry, o, extendee, set)[k] \in TypesOf(registry)
<1> DEFINE Extended(s) == ExtensionOf(registry, s).f
           S == {s \in ToSet(set) : Known(registry, extendee, s) /\ Extended(s).type = "message"}
           messages == Among(set, S)
<1>1. set \in Seq(ToSet(set)) BY SequenceFacts DEF AreSet
<1>2. messages \in Seq(ToSet(set) \cap S) BY <1>1, AmongType
<1>3. NeededFor(registry, o, extendee, set) =
        IF o.forceExcludeAllOptions THEN <<>> ELSE [k \in DOMAIN messages |-> Extended(messages[k]).of]
  BY DEF NeededFor
<1>4. \A s \in S : Extended(s).of \in TypesOf(registry)
  BY ExtensionFacts DEF AreSet, RefersToType
<1> HIDE DEF messages, S
<1>5. \A k \in DOMAIN messages : messages[k] \in S BY <1>2
<1> HIDE DEF Extended
<1> QED BY <1>3, <1>4, <1>5

\* The types of the fields of a message.
LEMMA UsedTypes ==
    ASSUME ProtocAccepts(request.files), NEW t, IsValid(request.files, t)
    PROVE  Uses(t) \in Seq(TypesOf(request.files))
<1> DEFINE R == request.files
           fields == Interpreted(t.fields)
           Of(f) == IF isMapField(R, f) THEN MapValue(R, f).of ELSE f.of
           types == [k \in DOMAIN fields |-> Of(fields[k])]
<1>1. fields \in Seq(ToSet(t.fields)) BY InterpretedFacts DEF IsValid
<1>2. ASSUME NEW f \in ToSet(t.fields) PROVE Of(f) \in TypesOf(R) \cup {NoDescriptor}
  <2>1. RefersToType(R, f) BY DEF IsValid
  <2>2. CASE isMapField(R, f)
    <3> DEFINE entry == TypeAt(R, f.of).fields
    <3>1. f.of \in TypesOf(R) BY <2>1, <2>2 DEF isMapField, RefersToType
    <3>2. IsValid(R, TypeAt(R, f.of)) BY <3>1, TypeFacts
    <3>3. \E g \in ToSet(entry) : g.no = 2 BY <2>2 DEF IsValid
    <3>4. \E k \in DOMAIN entry : entry[k].no = 2 BY <3>3 DEF ToSet
    <3>5. MapValue(R, f) = entry[CHOOSE k \in DOMAIN entry : entry[k].no = 2]
      BY DEF MapValue, EntryField
    <3> HIDE DEF entry
    <3>6. MapValue(R, f) \in ToSet(entry) BY <3>4, <3>5 DEF ToSet
    <3>7. RefersToType(R, MapValue(R, f)) BY <3>2, <3>6 DEF IsValid, entry
    <3> QED BY <2>2, <3>7 DEF RefersToType
  <2>3. CASE ~isMapField(R, f) BY <2>1, <2>3 DEF RefersToType
  <2> QED BY <2>2, <2>3
<1> DEFINE D == TypesOf(R) \cup {NoDescriptor}
<1>3. types \in Seq(D)
  <2> HIDE DEF Of, fields, D
  <2>1. Len(fields) \in Nat /\ DOMAIN fields = 1 .. Len(fields)
        /\ \A k \in DOMAIN fields : fields[k] \in ToSet(t.fields)
    BY <1>1
  <2>2. \A k \in DOMAIN fields : Of(fields[k]) \in D BY <1>2, <2>1 DEF D
  <2> QED BY <2>1, <2>2
<1>4. Uses(t) = Among(types, ToSet(types) \ {NoDescriptor}) BY DEF Uses
<1> HIDE DEF types
<1>5. Uses(t) \in Seq(D \cap (ToSet(types) \ {NoDescriptor})) BY <1>3, <1>4, AmongType
<1>6. D \cap (ToSet(types) \ {NoDescriptor}) \subseteq TypesOf(R) OBVIOUS
<1> HIDE DEF D
<1> QED BY <1>5, <1>6

\* The types that the interfaces of a proto file need.
LEMMA InterfaceTypes ==
    ASSUME ProtocAccepts(request.files), at \in Protos
    PROVE  \A k \in DOMAIN NeededTypes : NeededTypes[k] \in TypesOf(request.files)
<1> DEFINE D == TypesOf(request.files)
           types == Proto(at).types
           Messages(t) == Among(Uses(t), {d \in ToSet(Uses(t)) : TypeOf(d).sort = "message"})
           Needed(d) == IF TypeOf(d).sort # "message" \/ isSyntheticElement(TypeOf(d)) THEN <<>>
                        ELSE <<d>> \o Messages(TypeOf(d))
           all == [j \in DOMAIN types |-> Needed(<<at, j>>)]
<1>1. types = request.files[at].types /\ at \in DOMAIN request.files BY DEF Proto, Protos
<1>2. IsSequence(types) /\ \A t \in ToSet(types) : IsValid(request.files, t)
  BY <1>1, FileFacts
<1>3. ASSUME NEW j \in DOMAIN types PROVE Needed(<<at, j>>) \in Seq(D)
  <2>1. <<at, j>> \in D BY <1>1 DEF TypesOf
  <2>2. TypeOf(<<at, j>>) = types[j] /\ types[j] \in ToSet(types) BY <1>2, SequenceFacts DEF TypeOf
  <2>3. Uses(types[j]) \in Seq(D) BY <1>2, <2>2, UsedTypes
  <2>4. Messages(types[j]) \in Seq(D \cap {d \in ToSet(Uses(types[j])) : TypeOf(d).sort = "message"})
    BY <2>3, AmongType
  <2>5. Messages(types[j]) \in Seq(D)
    <3> DEFINE S == {d \in ToSet(Uses(types[j])) : TypeOf(d).sort = "message"}
    <3> HIDE DEF D, S
    <3>1. \A x \in Seq(D \cap S) : x \in Seq(D) OBVIOUS
    <3> QED BY <2>4, <3>1 DEF S
  <2> HIDE DEF Messages, D
  <2>6. <<<<at, j>>>> \o Messages(types[j]) \in Seq(D) BY <2>1, <2>5
  <2> QED BY <2>2, <2>6
<1>4. all \in Seq(Seq(D))
  <2> HIDE DEF Needed, D, types
  <2>1. Len(types) \in Nat /\ DOMAIN types = 1 .. Len(types) BY <1>2, SequenceFacts
  <2> QED BY <1>3, <2>1
<1>5. NeededTypes = FlattenSeq(all) BY DEF NeededTypes
<1> HIDE DEF all, D
<1>6. NeededTypes \in Seq(D) BY <1>4, <1>5, FlattenType
<1> QED BY <1>6 DEF D

-----------------------------------------------------------------------------
(* The invariant of the interpreter: a type is made once, the calls that are *)
(* making types have read all options before the one that is next, and all   *)
(* other types have been read to the end.                                    *)

Call == [of : DOMAIN messageTypes, next : Nat]

ReadOptionsOf(d) == readOptions(Registry, options, d, "MessageOptions", TypeOf(d).options)
ReadFieldOptions(d, k) ==
    readOptions(Registry, options, d, "FieldOptions", TypeOf(d).fields[k].options)

ReadBefore(d, n) ==
    LET type == messageTypes[d]
    IN  /\ n > 0 => type.options = ReadOptionsOf(d)
        /\ \A k \in DOMAIN type.fields : k < n => type.fieldOptions[k] = ReadFieldOptions(d, k)

ReadToTheEnd(d) == \A n \in Nat : ReadBefore(d, n)

TypeMade(d) ==
    LET type == messageTypes[d]
    IN  /\ d \in TypesOf(Registry)
        /\ type = [fields |-> buildFieldInfos(Registry, options, d), options |-> type.options,
                   fieldOptions |-> type.fieldOptions]
        /\ DOMAIN type.fieldOptions = DOMAIN type.fields

\* A call is making the type, and reads the options with this number next.
Reads(d, n) == \E k \in DOMAIN calls : calls[k].of = d /\ calls[k].next = n

InterpreterInv ==
    /\ request \in Requests /\ at \in Protos
    /\ pc = "parameters" => DOMAIN messageTypes = {} /\ calls = <<>>
    /\ calls \in Seq(Call)
    /\ \A k, l \in DOMAIN calls : calls[k].of = calls[l].of => k = l
    /\ \A d \in DOMAIN messageTypes : TypeMade(d)
    /\ \A d \in DOMAIN messageTypes, n \in Nat : Reads(d, n) => ReadBefore(d, n)
    /\ \A d \in DOMAIN messageTypes : (\A k \in DOMAIN calls : calls[k].of # d) => ReadToTheEnd(d)

LEMMA InitHolds == PluginInit => InterpreterInv
<1> SUFFICES ASSUME PluginInit PROVE InterpreterInv OBVIOUS
<1>1. request \in Requests /\ pc = "parameters" /\ at = 1 /\ messageTypes = <<>> /\ calls = <<>>
  BY DEF PluginInit, InterpreterInit
<1>2. ProtocAccepts(request.files) BY <1>1, RequestsAssumption
<1>3. at \in Protos BY <1>1, <1>2, FileFacts DEF Protos
<1>4. DOMAIN messageTypes = {} /\ DOMAIN calls = {} /\ calls \in Seq(Call) BY <1>1
<1> QED BY <1>1, <1>3, <1>4 DEF InterpreterInv

\* The steps of generate() leave the interpreter alone, and the options are
\* parsed before it is used.
LEMMA GenerateKeeps ==
    ASSUME InterpreterInv, Generate
    PROVE  /\ request' = request /\ messageTypes' = messageTypes /\ calls' = calls
           /\ pc' # "parameters" /\ at' \in Protos
           /\ pc # "parameters" => options' = options
<1>1. at \in Protos /\ request \in Requests BY DEF InterpreterInv
<1>2. ProtocAccepts(request.files) BY <1>1, RequestsAssumption
<1>3. DOMAIN request.files = 1 .. Len(request.files) /\ Len(request.files) \in Nat BY <1>2, FileFacts
<1>4. messageTypes' = messageTypes /\ calls' = calls BY DEF Generate, interpreterVars
<1>5. GoOn => pc' # "parameters" /\ at' \in Protos BY <1>1, <1>3 DEF GoOn, Protos
<1>6. Fail => /\ request' = request /\ pc' # "parameters" /\ at' = at /\ options' = options
  BY DEF Fail
<1>7. CASE ParseOptions BY <1>1, <1>4, <1>6, <1>7 DEF ParseOptions
<1>8. CASE RegisterFiles BY <1>1, <1>4, <1>8 DEF RegisterFiles
<1>9. CASE RegisterSymbols BY <1>1, <1>4, <1>9 DEF RegisterSymbols
<1>10. CASE GenerateInterfaces BY <1>1, <1>4, <1>10 DEF GenerateInterfaces
<1>11. CASE GenerateTypes BY <1>1, <1>4, <1>5, <1>6, <1>11 DEF GenerateTypes
<1>12. CASE GenerateHttp BY <1>1, <1>4, <1>5, <1>6, <1>12 DEF GenerateHttp
<1>13. CASE OnlyInterface BY <1>1, <1>4, <1>5, <1>13 DEF OnlyInterface
<1>14. CASE FilterFiles BY <1>1, <1>4, <1>14 DEF FilterFiles
<1>15. CASE AddHttpClient BY <1>1, <1>4, <1>6, <1>15 DEF AddHttpClient
<1>16. CASE AddNamespaces BY <1>1, <1>4, <1>6, <1>16 DEF AddNamespaces
<1>17. CASE Respond BY <1>1, <1>4, <1>17 DEF Respond
<1> QED
  BY <1>7, <1>8, <1>9, <1>10, <1>11, <1>12, <1>13, <1>14, <1>15, <1>16, <1>17 DEF Generate

LEMMA GenerateHolds == ASSUME InterpreterInv, Generate PROVE InterpreterInv'
<1>1. /\ request' = request /\ messageTypes' = messageTypes /\ calls' = calls
      /\ pc' # "parameters" /\ at' \in Protos
      /\ pc # "parameters" => options' = options
  BY GenerateKeeps
<1>2. CASE pc = "parameters"
  <2>1. DOMAIN messageTypes = {} /\ calls = <<>> BY <1>2 DEF InterpreterInv
  <2>2. DOMAIN messageTypes' = {} /\ DOMAIN calls' = {} /\ calls' \in Seq(Call') BY <1>1, <2>1
  <2>3. at' \in Protos' BY <1>1 DEF Protos
  <2>4. (request \in Requests)' BY <1>1 DEF InterpreterInv
  <2> QED BY <1>1, <2>2, <2>3, <2>4 DEF InterpreterInv
<1>3. CASE pc # "parameters"
  <2>1. options' = options BY <1>1, <1>3
  <2>2. at' \in Protos' BY <1>1 DEF Protos
  <2>3. (\A d \in DOMAIN messageTypes : TypeMade(d)) => (\A d \in DOMAIN messageTypes : TypeMade(d))'
    BY <1>1, <2>1 DEF TypeMade, Registry
  <2>4. ASSUME NEW d, NEW n PROVE ReadBefore(d, n) <=> ReadBefore(d, n)'
    BY <1>1, <2>1 DEF ReadBefore, ReadOptionsOf, ReadFieldOptions, Registry, TypeOf, Proto
  <2>5. \A d : ReadToTheEnd(d) <=> ReadToTheEnd(d)' BY <2>4 DEF ReadToTheEnd
  <2>6. Call' = Call BY <1>1 DEF Call
  <2>7. \A d, n : Reads(d, n) <=> Reads(d, n)' BY <1>1 DEF Reads
  <2> QED BY <1>1, <2>2, <2>3, <2>4, <2>5, <2>6, <2>7 DEF InterpreterInv
<1> QED BY <1>2, <1>3

Unchanged == request' = request /\ options' = options /\ pc' = pc /\ at' = at

LEMMA CallFacts ==
    ASSUME InterpreterInv
    PROVE  /\ calls \in Seq(Call) /\ Len(calls) \in Nat /\ DOMAIN calls = 1 .. Len(calls)
           /\ \A k \in DOMAIN calls : calls[k].of \in DOMAIN messageTypes /\ calls[k].next \in Nat
<1>1. calls \in Seq(Call) BY DEF InterpreterInv
<1>2. \A k \in DOMAIN calls : calls[k] \in Call BY <1>1
<1>3. \A c \in Call : c.of \in DOMAIN messageTypes /\ c.next \in Nat BY DEF Call
<1> QED BY <1>1, <1>2, <1>3

LEMMA StoreHolds ==
    ASSUME InterpreterInv, Unchanged, pc # "parameters",
           NEW d \in TypesOf(Registry), d \notin DOMAIN messageTypes,
           StoreType(Registry, options, d)
    PROVE  InterpreterInv'
<1> DEFINE infos == buildFieldInfos(Registry, options, d)
           type == [fields |-> infos, options |-> {}, fieldOptions |-> [k \in DOMAIN infos |-> {}]]
           call == [of |-> d, next |-> 0]
<1>1. messageTypes' = [x \in DOMAIN messageTypes \cup {d} |->
                          IF x = d THEN type ELSE messageTypes[x]]
      /\ calls' = <<call>> \o calls
  BY DEF StoreType
<1>2. /\ DOMAIN messageTypes' = DOMAIN messageTypes \cup {d} /\ messageTypes'[d] = type
      /\ \A x \in DOMAIN messageTypes : x # d /\ messageTypes'[x] = messageTypes[x]
  BY <1>1
<1>3. calls \in Seq(Call) /\ Len(calls) \in Nat BY DEF InterpreterInv
<1>4. Call \subseteq Call' /\ call \in Call' BY <1>2 DEF Call
<1>5. \A k \in DOMAIN calls : calls[k].of \in DOMAIN messageTypes /\ calls[k].next \in Nat
  BY CallFacts
<1>6. calls \in Seq(Call') BY <1>3, <1>4
<1> HIDE DEF call, type
<1>7. /\ calls' \in Seq(Call') /\ Len(calls') = Len(calls) + 1 /\ calls'[1] = call
      /\ DOMAIN calls' = 1 .. Len(calls) + 1 /\ DOMAIN calls = 1 .. Len(calls)
      /\ \A k \in 2 .. Len(calls) + 1 : calls'[k] = calls[k - 1]
  BY <1>1, <1>3, <1>4, <1>6
<1>8. \A k \in DOMAIN calls' : k = 1 \/ (k \in 2 .. Len(calls) + 1 /\ k - 1 \in DOMAIN calls)
  BY <1>3, <1>7
<1>9. \A k \in DOMAIN calls : k + 1 \in DOMAIN calls' /\ k + 1 \in 2 .. Len(calls) + 1
                               /\ calls'[k + 1] = calls[k]
  BY <1>3, <1>7
<1>10. call.of = d /\ call.next = 0 BY DEF call
<1>11. (request \in Requests)' /\ (at \in Protos)'
  BY DEF InterpreterInv, Unchanged, Protos
<1>12. pc' # "parameters" BY DEF Unchanged
<1>13. (\A k, l \in DOMAIN calls : calls[k].of = calls[l].of => k = l)'
  <2>1. ASSUME NEW k \in DOMAIN calls', NEW l \in DOMAIN calls', calls'[k].of = calls'[l].of
        PROVE  k = l
    <3>1. ASSUME NEW m \in DOMAIN calls', m # 1 PROVE calls'[m].of # d
      <4>1. m - 1 \in DOMAIN calls /\ calls'[m] = calls[m - 1] BY <1>7, <1>8, <3>1
      <4> QED BY <1>2, <1>5, <4>1
    <3>2. CASE k = 1 \/ l = 1 BY <1>7, <1>10, <2>1, <3>1, <3>2
    <3>3. CASE k # 1 /\ l # 1
      <4>1. k - 1 \in DOMAIN calls /\ l - 1 \in DOMAIN calls /\ calls[k - 1].of = calls[l - 1].of
        BY <1>7, <1>8, <2>1, <3>3
      <4>2. k - 1 = l - 1 BY <4>1 DEF InterpreterInv
      <4> QED BY <1>3, <1>7, <4>2
    <3> QED BY <3>2, <3>3
  <2> QED BY <2>1
<1>14. ASSUME NEW x \in DOMAIN messageTypes PROVE TypeMade(x)'
  <2>1. TypeMade(x) BY DEF InterpreterInv
  <2>2. messageTypes'[x] = messageTypes[x] BY <1>2
  <2> QED BY <2>1, <2>2 DEF TypeMade, Registry, Unchanged
<1>15. TypeMade(d)'
  <2>1. Registry' = Registry /\ options' = options BY DEF Registry, Unchanged
  <2>2. messageTypes'[d].fields = infos
        /\ messageTypes'[d] = [fields |-> infos, options |-> messageTypes'[d].options,
                              fieldOptions |-> messageTypes'[d].fieldOptions]
        /\ DOMAIN messageTypes'[d].fieldOptions = DOMAIN infos
    <3> HIDE DEF infos
    <3> QED BY <1>2 DEF type
  <2> QED BY <2>1, <2>2 DEF TypeMade
<1>16. ASSUME NEW x \in DOMAIN messageTypes, NEW n PROVE ReadBefore(x, n)' <=> ReadBefore(x, n)
  <2>1. messageTypes'[x] = messageTypes[x] BY <1>2
  <2> QED BY <2>1 DEF ReadBefore, ReadOptionsOf, ReadFieldOptions, Registry, TypeOf, Proto, Unchanged
<1>17. (\A x \in DOMAIN messageTypes, n \in Nat : Reads(x, n) => ReadBefore(x, n))'
  <2>1. ReadBefore(d, 0)'
    <3>1. DOMAIN infos \subseteq Nat \ {0}
      <4>1. IsValid(Registry, TypeAt(Registry, d))
        BY TypeFacts, RequestsAssumption DEF InterpreterInv, Registry
      <4> DEFINE fields == Interpreted(TypeAt(Registry, d).fields)
      <4>2. fields \in Seq(ToSet(TypeAt(Registry, d).fields)) BY <4>1, InterpretedFacts DEF IsValid
      <4>3. infos = [k \in DOMAIN fields |->
                       normalizeFieldInfo(buildFieldInfo(Registry, options, d, fields[k]))]
        BY DEF buildFieldInfos
      <4> HIDE DEF fields, infos
      <4> QED BY <4>2, <4>3
    <3>2. messageTypes'[d].fields = infos
      <4> HIDE DEF infos
      <4> QED BY <1>2 DEF type
    <3> HIDE DEF infos
    <3>3. ~(0 > 0) /\ \A k \in DOMAIN infos : ~(k < 0) BY <3>1
    <3> QED BY <3>2, <3>3 DEF ReadBefore
  <2>2. ASSUME NEW x \in DOMAIN messageTypes', NEW n \in Nat, Reads(x, n)'
        PROVE  ReadBefore(x, n)'
    <3>1. PICK k \in DOMAIN calls' : calls'[k].of = x /\ calls'[k].next = n BY <2>2 DEF Reads
    <3>2. CASE k = 1
      <4>1. x = d /\ n = 0 BY <1>7, <1>10, <3>1, <3>2
      <4> QED BY <2>1, <4>1
    <3>3. CASE k # 1
      <4>1. k - 1 \in DOMAIN calls /\ calls'[k] = calls[k - 1] BY <1>7, <1>8, <3>3
      <4>2. x \in DOMAIN messageTypes BY <1>5, <3>1, <4>1
      <4>3. Reads(x, n) BY <3>1, <4>1 DEF Reads
      <4>4. ReadBefore(x, n) BY <4>2, <4>3 DEF InterpreterInv
      <4> QED BY <1>16, <4>2, <4>4
    <3> QED BY <3>2, <3>3
  <2> QED BY <2>2
<1>18. (\A x \in DOMAIN messageTypes : (\A k \in DOMAIN calls : calls[k].of # x) => ReadToTheEnd(x))'
  <2>1. ASSUME NEW x \in DOMAIN messageTypes', \A k \in DOMAIN calls' : calls'[k].of # x
        PROVE  ReadToTheEnd(x)'
    <3>1. x # d BY <1>7, <1>8, <1>10, <1>3, <2>1
    <3>2. x \in DOMAIN messageTypes BY <1>2, <3>1
    <3>3. \A k \in DOMAIN calls : calls[k].of # x BY <1>9, <2>1
    <3>4. ReadToTheEnd(x) BY <3>2, <3>3 DEF InterpreterInv
    <3> QED BY <1>16, <3>2, <3>4 DEF ReadToTheEnd
  <2> QED BY <2>1
<1> QED BY <1>2, <1>7, <1>11, <1>12, <1>13, <1>14, <1>15, <1>17, <1>18 DEF InterpreterInv

\* The fields of the type of a call, by their numbers.
LEMMA MadeFacts ==
    ASSUME InterpreterInv, NEW d \in DOMAIN messageTypes
    PROVE  LET fields == messageTypes[d].fields
               declared == Interpreted(TypeOf(d).fields)
           IN  /\ d \in TypesOf(Registry) /\ IsValid(Registry, TypeOf(d))
               /\ TypeAt(Registry, d) = TypeOf(d)
               /\ declared \in Seq(ToSet(TypeOf(d).fields))
               /\ fields = [k \in DOMAIN declared |->
                               normalizeFieldInfo(buildFieldInfo(Registry, options, d, declared[k]))]
               /\ Len(fields) \in Nat /\ DOMAIN fields = 1 .. Len(fields)
               /\ Len(fields) = Len(declared) /\ DOMAIN fields = DOMAIN declared
               /\ Len(fields) <= Len(TypeOf(d).fields)
<1> DEFINE fields == messageTypes[d].fields
           declared == Interpreted(TypeOf(d).fields)
<1>1. TypeMade(d) /\ ProtocAccepts(Registry) BY RequestsAssumption DEF InterpreterInv, Registry
<1>2. d \in TypesOf(Registry) /\ TypeAt(Registry, d) = TypeOf(d)
  BY <1>1 DEF TypeMade, TypeAt, TypeOf, Proto, Registry
<1>3. IsValid(Registry, TypeOf(d)) BY <1>1, <1>2, TypeFacts
<1>4. declared \in Seq(ToSet(TypeOf(d).fields)) /\ Len(declared) <= Len(TypeOf(d).fields)
  BY <1>3, InterpretedFacts DEF IsValid
<1>5. fields = buildFieldInfos(Registry, options, d) BY <1>1 DEF TypeMade
<1>6. fields = [k \in DOMAIN declared |->
                  normalizeFieldInfo(buildFieldInfo(Registry, options, d, declared[k]))]
  BY <1>2, <1>5 DEF buildFieldInfos
<1>7. Len(declared) \in Nat /\ DOMAIN declared = 1 .. Len(declared) BY <1>4
<1>8. DOMAIN fields = 1 .. Len(declared) /\ Len(fields) = Len(declared)
  <2> HIDE DEF declared
  <2> QED BY <1>6, <1>7
<1> QED BY <1>2, <1>3, <1>4, <1>6, <1>7, <1>8

LEMMA ReadHolds ==
    ASSUME InterpreterInv, Unchanged, ReadOptions(Registry, options)
    PROVE  InterpreterInv'
<1>0. calls # <<>> BY DEF ReadOptions
<1>1. /\ calls \in Seq(Call) /\ Len(calls) \in Nat /\ DOMAIN calls = 1 .. Len(calls)
      /\ \A k \in DOMAIN calls : calls[k].of \in DOMAIN messageTypes /\ calls[k].next \in Nat
  BY CallFacts
<1>2. 1 \in DOMAIN calls
  <2>1. Len(calls) # 0 BY <1>0, <1>1, EmptySeq
  <2> QED BY <1>1, <2>1
<1>3. PICK d, n : d = calls[1].of /\ n = calls[1].next OBVIOUS
<1>4. d \in DOMAIN messageTypes /\ n \in Nat BY <1>1, <1>2, <1>3
<1> DEFINE r == Reading(Registry)
<1>5. PICK read : read = readOptions(Registry, options, d, r.extendee, r.set) OBVIOUS
<1>6. /\ n <= Len(messageTypes[d].fields)
      /\ messageTypes' = IF n = 0 THEN [messageTypes EXCEPT ![d].options = read]
                         ELSE [messageTypes EXCEPT ![d].fieldOptions[n] = read]
      /\ calls' = [calls EXCEPT ![1].next = n + 1]
  BY <1>3, <1>5 DEF ReadOptions
<1>7. /\ n = 0 => read = ReadOptionsOf(d)
      /\ n # 0 => read = ReadFieldOptions(d, n)
  BY <1>3, <1>5 DEF Reading, ReadOptionsOf, ReadFieldOptions, TypeAt, TypeOf, Proto, Registry
<1>8. TypeMade(d) BY <1>4 DEF InterpreterInv
<1> DEFINE type == messageTypes[d]
<1>9. type = [fields |-> type.fields, options |-> type.options, fieldOptions |-> type.fieldOptions]
      /\ DOMAIN type.fieldOptions = DOMAIN type.fields
      /\ type.fields = buildFieldInfos(Registry, options, d)
  BY <1>8 DEF TypeMade
<1>10. DOMAIN type.fields = 1 .. Len(type.fields) /\ Len(type.fields) \in Nat BY <1>4, MadeFacts
<1>11. /\ DOMAIN messageTypes' = DOMAIN messageTypes
       /\ \A x \in DOMAIN messageTypes : x # d => messageTypes'[x] = messageTypes[x]
       /\ messageTypes'[d] =
            IF n = 0 THEN [fields |-> type.fields, options |-> read, fieldOptions |-> type.fieldOptions]
            ELSE [fields |-> type.fields, options |-> type.options,
                  fieldOptions |-> [type.fieldOptions EXCEPT ![n] = read]]
  <2>1. CASE n = 0 BY <1>4, <1>6, <1>9, <2>1
  <2>2. CASE n # 0
    <3> DEFINE made == [fields |-> type.fields, options |-> type.options,
                        fieldOptions |-> [type.fieldOptions EXCEPT ![n] = read]]
    <3>1. messageTypes' = [messageTypes EXCEPT ![d] = [type EXCEPT !.fieldOptions =
                              [type.fieldOptions EXCEPT ![n] = read]]]
      BY <1>6, <2>2
    <3>2. [type EXCEPT !.fieldOptions = [type.fieldOptions EXCEPT ![n] = read]] = made
      <4> HIDE DEF type
      <4> QED BY <1>9
    <3>3. messageTypes' = [messageTypes EXCEPT ![d] = made] BY <3>1, <3>2
    <3>4. messageTypes'[d] = made
      <4> HIDE DEF made
      <4> QED BY <1>4, <3>3
    <3>5. /\ DOMAIN messageTypes' = DOMAIN messageTypes
          /\ \A x \in DOMAIN messageTypes : x # d => messageTypes'[x] = messageTypes[x]
      <4> HIDE DEF made
      <4> QED BY <3>3
    <3> QED BY <2>2, <3>4, <3>5
  <2> QED BY <2>1, <2>2
<1>12. calls[1] = [of |-> d, next |-> n]
  <2>1. calls[1] \in Call BY <1>1, <1>2
  <2> QED BY <1>3, <2>1 DEF Call
<1>13. /\ DOMAIN calls' = DOMAIN calls /\ calls'[1] = [of |-> d, next |-> n + 1]
       /\ \A k \in DOMAIN calls : k # 1 => calls'[k] = calls[k]
       /\ Len(calls') = Len(calls)
  BY <1>1, <1>2, <1>6, <1>12
<1>14. calls' \in Seq(Call')
  <2>1. Call' = Call BY <1>11 DEF Call
  <2>2. \A k \in DOMAIN calls : calls'[k] \in Call
    <3>1. [of |-> d, next |-> n + 1] \in Call BY <1>4 DEF Call
    <3> QED BY <1>1, <1>13, <3>1
  <2>3. calls' = [k \in 1 .. Len(calls) |-> calls'[k]] BY <1>1, <1>6
  <2> HIDE DEF Call
  <2>4. calls' \in Seq(Call) BY <1>1, <2>2, <2>3
  <2> QED BY <2>1, <2>4
<1>15. \A k \in DOMAIN calls : calls'[k].of = calls[k].of BY <1>3, <1>13
<1>16. (\A k, l \in DOMAIN calls : calls[k].of = calls[l].of => k = l)'
  <2>1. \A k, l \in DOMAIN calls : calls[k].of = calls[l].of => k = l BY DEF InterpreterInv
  <2> QED BY <1>13, <1>15, <2>1
<1>17. ASSUME NEW x \in DOMAIN messageTypes PROVE TypeMade(x)'
  <2>1. TypeMade(x) BY DEF InterpreterInv
  <2>2. CASE x # d
    <3>1. messageTypes'[x] = messageTypes[x] BY <1>11, <2>2
    <3> QED BY <2>1, <3>1 DEF TypeMade, Registry, Unchanged
  <2>3. CASE x = d
    <3>1. Registry' = Registry /\ options' = options BY DEF Registry, Unchanged
    <3>2. /\ messageTypes'[d].fields = type.fields
          /\ messageTypes'[d] = [fields |-> type.fields, options |-> messageTypes'[d].options,
                                fieldOptions |-> messageTypes'[d].fieldOptions]
          /\ DOMAIN messageTypes'[d].fieldOptions = DOMAIN type.fields
      <4> HIDE DEF type
      <4> QED BY <1>9, <1>11
    <3>3. d \in TypesOf(Registry) BY <1>8 DEF TypeMade
    <3> HIDE DEF type
    <3> QED BY <1>9, <2>3, <3>1, <3>2, <3>3 DEF TypeMade
  <2> QED BY <2>2, <2>3
<1>18. ASSUME NEW x \in DOMAIN messageTypes, x # d, NEW m PROVE ReadBefore(x, m)' <=> ReadBefore(x, m)
  <2>1. messageTypes'[x] = messageTypes[x] BY <1>11, <1>18
  <2> QED BY <2>1 DEF ReadBefore, ReadOptionsOf, ReadFieldOptions, Registry, TypeOf, Proto, Unchanged
<1>19. ReadBefore(d, n + 1)'
  <2>1. Reads(d, n) BY <1>2, <1>3 DEF Reads
  <2>2. ReadBefore(d, n) BY <1>4, <2>1 DEF InterpreterInv
  <2>3. ReadOptionsOf(d)' = ReadOptionsOf(d) /\ \A k : ReadFieldOptions(d, k)' = ReadFieldOptions(d, k)
    BY DEF ReadOptionsOf, ReadFieldOptions, Registry, TypeOf, Proto, Unchanged
  <2>4. messageTypes'[d].options = ReadOptionsOf(d)
    <3>1. CASE n = 0 BY <1>7, <1>11, <3>1
    <3>2. CASE n # 0
      <4>1. type.options = ReadOptionsOf(d) BY <1>4, <2>2, <3>2 DEF ReadBefore
      <4> QED BY <1>11, <3>2, <4>1
    <3> QED BY <3>1, <3>2
  <2>5. messageTypes'[d].fields = type.fields BY <1>11
  <2>6. ASSUME NEW k \in DOMAIN type.fields, k < n + 1
        PROVE  messageTypes'[d].fieldOptions[k] = ReadFieldOptions(d, k)
    <3>1. CASE n = 0 BY <1>10, <2>6, <3>1
    <3>2. CASE n # 0 /\ k = n
      <4>1. messageTypes'[d].fieldOptions[n] = read BY <1>9, <1>11, <2>6, <3>2
      <4> QED BY <1>7, <3>2, <4>1
    <3>3. CASE n # 0 /\ k # n
      <4>1. k < n BY <1>4, <1>10, <2>6, <3>3
      <4>2. messageTypes'[d].fieldOptions[k] = type.fieldOptions[k] BY <1>9, <1>11, <3>3
      <4>3. type.fieldOptions[k] = ReadFieldOptions(d, k) BY <2>2, <4>1 DEF ReadBefore
      <4> QED BY <4>2, <4>3
    <3> QED BY <3>1, <3>2, <3>3
  <2> HIDE DEF type
  <2> QED BY <2>3, <2>4, <2>5, <2>6 DEF ReadBefore
<1>20. ASSUME NEW x \in DOMAIN messageTypes, NEW m \in Nat, Reads(x, m)' PROVE ReadBefore(x, m)'
  <2>1. PICK k \in DOMAIN calls : calls'[k].of = x /\ calls'[k].next = m BY <1>13, <1>20 DEF Reads
  <2>2. CASE k = 1 BY <1>13, <1>19, <2>1, <2>2
  <2>3. CASE k # 1
    <3>1. calls'[k] = calls[k] BY <1>13, <2>3
    <3>2. Reads(x, m) BY <2>1, <3>1 DEF Reads
    <3>3. ReadBefore(x, m) BY <3>2 DEF InterpreterInv
    <3>4. x # d
      <4>1. \A l \in DOMAIN calls : calls[l].of = calls[1].of => l = 1 BY <1>2 DEF InterpreterInv
      <4> QED BY <1>3, <2>1, <2>3, <3>1, <4>1
    <3> QED BY <1>18, <3>3, <3>4
  <2> QED BY <2>2, <2>3
<1>21. ASSUME NEW x \in DOMAIN messageTypes, \A k \in DOMAIN calls' : calls'[k].of # x
       PROVE  ReadToTheEnd(x)'
  <2>1. \A k \in DOMAIN calls : calls[k].of # x BY <1>13, <1>15, <1>21
  <2>2. x # d BY <1>2, <1>3, <2>1
  <2>3. ReadToTheEnd(x) BY <2>1 DEF InterpreterInv
  <2> QED BY <1>18, <2>2, <2>3 DEF ReadToTheEnd
<1>22. (request \in Requests)' /\ (at \in Protos)' BY DEF InterpreterInv, Unchanged, Protos
<1>23. pc' # "parameters" BY <1>0 DEF InterpreterInv, Unchanged
<1> QED BY <1>11, <1>14, <1>16, <1>17, <1>20, <1>21, <1>22, <1>23 DEF InterpreterInv

\* A call that returns has read the options of all fields.
LEMMA ReturnHolds ==
    ASSUME InterpreterInv, Unchanged, ReturnType
    PROVE  InterpreterInv'
<1>1. /\ calls # <<>> /\ calls[1].next > Len(messageTypes[calls[1].of].fields)
      /\ calls' = Tail(calls) /\ messageTypes' = messageTypes
  BY DEF ReturnType
<1>2. /\ calls \in Seq(Call) /\ Len(calls) \in Nat /\ DOMAIN calls = 1 .. Len(calls)
      /\ \A k \in DOMAIN calls : calls[k].of \in DOMAIN messageTypes /\ calls[k].next \in Nat
  BY CallFacts
<1>3. Len(calls) # 0 BY <1>1, <1>2, EmptySeq
<1>4. 1 \in DOMAIN calls BY <1>2, <1>3
<1>5. PICK d, n : d = calls[1].of /\ n = calls[1].next OBVIOUS
<1>6. d \in DOMAIN messageTypes /\ n \in Nat /\ Reads(d, n) BY <1>2, <1>4, <1>5 DEF Reads
<1>7. /\ calls' \in Seq(Call) /\ Len(calls') = Len(calls) - 1 /\ DOMAIN calls' = 1 .. Len(calls) - 1
      /\ \A k \in 1 .. Len(calls) - 1 : calls'[k] = calls[k + 1]
  <2> HIDE DEF Call
  <2> QED BY <1>1, <1>2, <1>3
<1>8. \A k \in DOMAIN calls' : k + 1 \in DOMAIN calls /\ calls'[k] = calls[k + 1] /\ k \in Nat
  BY <1>2, <1>3, <1>7
<1>9. Call' = Call BY <1>1 DEF Call
<1>10. Registry' = Registry /\ options' = options BY DEF Registry, Unchanged
<1>11. \A x \in DOMAIN messageTypes : TypeMade(x)' BY <1>1, <1>10 DEF InterpreterInv, TypeMade
<1>12. ASSUME NEW x, NEW m PROVE ReadBefore(x, m)' <=> ReadBefore(x, m)
  BY <1>1, <1>10 DEF ReadBefore, ReadOptionsOf, ReadFieldOptions, TypeOf, Proto, Unchanged
<1>13. (\A k, l \in DOMAIN calls : calls[k].of = calls[l].of => k = l)'
  <2>1. ASSUME NEW k \in DOMAIN calls', NEW l \in DOMAIN calls', calls'[k].of = calls'[l].of
        PROVE  k = l
    <3>1. k + 1 = l + 1 BY <1>8, <2>1 DEF InterpreterInv
    <3> QED BY <1>8, <3>1
  <2> QED BY <2>1
<1>14. ASSUME NEW x \in DOMAIN messageTypes, NEW m \in Nat, Reads(x, m)' PROVE ReadBefore(x, m)'
  <2>1. PICK k \in DOMAIN calls' : calls'[k].of = x /\ calls'[k].next = m BY <1>14 DEF Reads
  <2>2. Reads(x, m) BY <1>8, <2>1 DEF Reads
  <2>3. ReadBefore(x, m) BY <2>2 DEF InterpreterInv
  <2> QED BY <1>12, <2>3
<1>15. ReadToTheEnd(d)
  <2>1. ReadBefore(d, n) BY <1>6 DEF InterpreterInv
  <2>2. /\ DOMAIN messageTypes[d].fields = 1 .. Len(messageTypes[d].fields)
        /\ Len(messageTypes[d].fields) \in Nat
    BY <1>6, MadeFacts
  <2>3. n > Len(messageTypes[d].fields) BY <1>1, <1>5
  <2>4. n > 0 /\ \A k \in DOMAIN messageTypes[d].fields : k < n BY <1>6, <2>2, <2>3
  <2> QED BY <2>1, <2>4 DEF ReadToTheEnd, ReadBefore
<1>16. ASSUME NEW x \in DOMAIN messageTypes, \A k \in DOMAIN calls' : calls'[k].of # x
       PROVE  ReadToTheEnd(x)'
  <2>1. CASE x = d BY <1>12, <1>15, <2>1 DEF ReadToTheEnd
  <2>2. CASE x # d
    <3>1. ASSUME NEW k \in DOMAIN calls PROVE calls[k].of # x
      <4>1. CASE k = 1 BY <1>5, <2>2, <4>1
      <4>2. CASE k # 1
        <5>1. k - 1 \in DOMAIN calls' /\ calls'[k - 1] = calls[k] BY <1>2, <1>7, <4>2
        <5> QED BY <1>16, <5>1
      <4> QED BY <4>1, <4>2
    <3>2. ReadToTheEnd(x) BY <3>1 DEF InterpreterInv
    <3> QED BY <1>12, <3>2 DEF ReadToTheEnd
  <2> QED BY <2>1, <2>2
<1>17. (request \in Requests)' /\ (at \in Protos)' BY DEF InterpreterInv, Unchanged, Protos
<1>18. pc' # "parameters" BY <1>1 DEF InterpreterInv, Unchanged
<1> QED BY <1>1, <1>7, <1>9, <1>11, <1>13, <1>14, <1>16, <1>17, <1>18 DEF InterpreterInv

\* An option whose type has to be made is one of a type of the request.
LEMMA CallHolds ==
    ASSUME InterpreterInv, Unchanged, CallForOption(Registry, options)
    PROVE  InterpreterInv'
<1>1. calls # <<>> /\ calls[1].next <= Len(messageTypes[calls[1].of].fields)
      /\ StoreFirstOf(Registry, options, TypesForOptions(Registry, options))
  BY DEF CallForOption
<1>2. /\ calls \in Seq(Call) /\ Len(calls) \in Nat /\ DOMAIN calls = 1 .. Len(calls)
      /\ \A k \in DOMAIN calls : calls[k].of \in DOMAIN messageTypes /\ calls[k].next \in Nat
  BY CallFacts
<1>3. Len(calls) # 0 BY <1>1, <1>2, EmptySeq
<1>4. PICK d, n : d = calls[1].of /\ n = calls[1].next OBVIOUS
<1>5. d \in DOMAIN messageTypes /\ n \in Nat BY <1>2, <1>3, <1>4
<1>6. ProtocAccepts(Registry) BY RequestsAssumption DEF InterpreterInv, Registry
<1>7. /\ d \in TypesOf(Registry) /\ IsValid(Registry, TypeOf(d)) /\ TypeAt(Registry, d) = TypeOf(d)
      /\ Len(messageTypes[d].fields) \in Nat
      /\ Len(messageTypes[d].fields) <= Len(TypeOf(d).fields)
  BY <1>5, MadeFacts
<1> DEFINE r == Reading(Registry)
<1>8. AreSet(Registry, r.extendee, r.set)
  <2>1. CASE n = 0
    <3>1. r.extendee = "MessageOptions" /\ r.set = TypeOf(d).options
      BY <1>4, <1>7, <2>1 DEF Reading
    <3> QED BY <1>7, <3>1 DEF IsValid
  <2>2. CASE n # 0
    <3>1. r.extendee = "FieldOptions" /\ r.set = TypeOf(d).fields[n].options
      BY <1>4, <1>7, <2>2 DEF Reading
    <3>2. IsSequence(TypeOf(d).fields) BY <1>7 DEF IsValid
    <3>3. Len(TypeOf(d).fields) \in Nat /\ DOMAIN TypeOf(d).fields = 1 .. Len(TypeOf(d).fields)
          /\ \A k \in DOMAIN TypeOf(d).fields : TypeOf(d).fields[k] \in ToSet(TypeOf(d).fields)
      BY <3>2, SequenceFacts
    <3>4. n <= Len(messageTypes[d].fields) BY <1>1, <1>4
    <3>5. n \in DOMAIN TypeOf(d).fields BY <1>5, <1>7, <2>2, <3>3, <3>4
    <3> QED BY <1>7, <3>1, <3>3, <3>5 DEF IsValid
  <2> QED BY <2>1, <2>2
<1> DEFINE types == TypesForOptions(Registry, options)
<1>9. types = NeededFor(Registry, options, r.extendee, r.set) BY DEF TypesForOptions
<1>10. \A k \in DOMAIN types : types[k] \in TypesOf(Registry) BY <1>6, <1>8, <1>9, OptionTypes
<1> HIDE DEF types
<1>11. PICK k \in DOMAIN types :
          types[k] \notin DOMAIN messageTypes /\ StoreType(Registry, options, types[k])
  BY <1>1 DEF StoreFirstOf, types
<1>12. pc # "parameters" BY <1>1 DEF InterpreterInv
<1> QED BY <1>10, <1>11, <1>12, StoreHolds

LEMMA NextHolds == ASSUME InterpreterInv, [PluginNext]_pluginVars PROVE InterpreterInv'
<1>1. CASE Generate BY <1>1, GenerateHolds
<1>2. CASE GetMessageType
  <2>1. /\ pc = "interfaces" /\ StoreFirstOf(request.files, options, NeededTypes)
        /\ UNCHANGED generateVars
    BY <1>2 DEF GetMessageType
  <2>2. Unchanged BY <2>1 DEF generateVars, Unchanged
  <2>3. ProtocAccepts(request.files) BY RequestsAssumption DEF InterpreterInv
  <2>4. \A k \in DOMAIN NeededTypes : NeededTypes[k] \in TypesOf(request.files)
    BY <2>3, InterfaceTypes DEF InterpreterInv
  <2>5. PICK k \in DOMAIN NeededTypes :
           NeededTypes[k] \notin DOMAIN messageTypes /\ StoreType(request.files, options, NeededTypes[k])
    BY <2>1 DEF StoreFirstOf
  <2> QED BY <2>1, <2>2, <2>4, <2>5, StoreHolds DEF Registry
<1>3. CASE Interpret
  <2>1. Unchanged BY <1>3 DEF Interpret, generateVars, Unchanged
  <2> QED BY <1>3, <2>1, CallHolds, ReadHolds, ReturnHolds DEF Interpret, Registry
<1>4. CASE UNCHANGED pluginVars
  <2>1. request' = request /\ options' = options /\ pc' = pc /\ at' = at
        /\ messageTypes' = messageTypes /\ calls' = calls
    BY <1>4 DEF pluginVars, generateVars, interpreterVars
  <2> USE <2>1
  <2>2. Registry' = Registry /\ Protos' = Protos /\ Call' = Call BY DEF Registry, Protos, Call
  <2>3. ASSUME NEW d, NEW n PROVE ReadBefore(d, n)' <=> ReadBefore(d, n)
    BY <2>2 DEF ReadBefore, ReadOptionsOf, ReadFieldOptions, TypeOf, Proto
  <2>4. \A d : ReadToTheEnd(d)' <=> ReadToTheEnd(d) BY <2>3 DEF ReadToTheEnd
  <2>5. \A d : TypeMade(d)' <=> TypeMade(d) BY <2>2 DEF TypeMade
  <2>6. \A d, n : Reads(d, n)' <=> Reads(d, n) BY DEF Reads
  <2> QED BY <2>2, <2>3, <2>4, <2>5, <2>6 DEF InterpreterInv
<1> QED BY <1>1, <1>2, <1>3, <1>4 DEF PluginNext

-----------------------------------------------------------------------------
(* What the invariant says of the options.                                   *)

\* The options of a method outlive the literal that it is printed as.
LEMMA MethodOptionsKept ==
    ASSUME NEW registry, NEW o, NEW d, NEW k \in DOMAIN TypeAt(registry, d).methods
    PROVE  MethodsOf(registry, o, d)[k].options =
               readOptions(registry, o, d, "MethodOptions", TypeAt(registry, d).methods[k].options)
<1> DEFINE m == TypeAt(registry, d).methods[k]
           read == readOptions(registry, o, d, "MethodOptions", m.options)
           made == buildMethodInfo(registry, o, d, m)
           info == normalizeMethodInfo(made)
           printed == denormalizeMethodInfo(info)
<1>1. MethodsOf(registry, o, d)[k] = normalizeMethodInfo(printed) BY DEF MethodsOf
<1>2. HasValue([name |-> m.letters, I |-> m.I, O |-> m.O, options |-> read], "options", read)
  <2> HIDE DEF read, m
  <2> QED BY DEF HasValue
<1> HIDE DEF read
<1>3. HasValue(made, "options", read) BY <1>2, HasStays DEF buildMethodInfo, read
<1> HIDE DEF made
<1>4. HasValue(info, "options", read) BY <1>3, HasStays DEF normalizeMethodInfo
<1> HIDE DEF info
<1>5. HasValue(printed, "options", read)
  <2> DEFINE keys == {x \in {"localName"} : info.localName = lowerCamelCase(info.name)}
                     \cup {x \in {"serverStreaming", "clientStreaming"} : ~info[x]}
                     \cup {x \in {"idempotency"} : info.idempotency = "undefined"}
  <2>1. "options" \notin keys OBVIOUS
  <2>2. printed = Without(info, keys) BY DEF denormalizeMethodInfo
  <2> HIDE DEF keys
  <2> QED BY <1>4, <2>1, <2>2 DEF Without, HasValue
<1> HIDE DEF printed
<1>6. HasValue(normalizeMethodInfo(printed), "options", read) BY <1>5, HasStays DEF normalizeMethodInfo
<1>7. normalizeMethodInfo(printed).options = read BY <1>6 DEF HasValue
<1> QED BY <1>1, <1>7 DEF read

LEMMA InvMeansOptions == InterpreterInv => OptionsAreTheirs
<1> SUFFICES ASSUME InterpreterInv PROVE OptionsAreTheirs OBVIOUS
<1>0. ProtocAccepts(Registry) BY RequestsAssumption DEF InterpreterInv, Registry
<1>1. \A k, l \in DOMAIN calls : calls[k].of = calls[l].of => k = l BY DEF InterpreterInv
<1>2. ASSUME NEW d \in MessagesMade, \A k \in DOMAIN calls : calls[k].of # d
      PROVE  LET type == messageTypes[d]
             IN  /\ OptionsAgree(d, type.options, TypeOf(d).options)
                 /\ HasGroups(TypeOf(d)) \/
                    \A k \in DOMAIN type.fields :
                       OptionsAgree(d, type.fieldOptions[k], FieldNumber(d, type.fields[k].no).options)
  <2> DEFINE type == messageTypes[d]
             fields == TypeOf(d).fields
             declared == Interpreted(fields)
  <2>1. d \in DOMAIN messageTypes BY DEF MessagesMade
  <2>2. ReadToTheEnd(d) BY <1>2, <2>1 DEF InterpreterInv
  <2>3. IsValid(Registry, TypeOf(d)) BY <2>1, MadeFacts
  <2>4. type.fields = [k \in DOMAIN declared |->
                         normalizeFieldInfo(buildFieldInfo(Registry, options, d, declared[k]))]
        /\ Len(type.fields) \in Nat /\ DOMAIN type.fields = 1 .. Len(type.fields)
        /\ DOMAIN type.fields = DOMAIN declared
    BY <2>1, MadeFacts
  <2>5. OptionsAgree(d, type.options, TypeOf(d).options)
    <3>1. ReadBefore(d, 1) BY <2>2 DEF ReadToTheEnd
    <3>2. type.options = ReadOptionsOf(d) BY <3>1 DEF ReadBefore
    <3>3. AreSet(Registry, "MessageOptions", TypeOf(d).options) BY <2>3 DEF IsValid
    <3> QED BY <1>0, <3>2, <3>3, ReadAgrees DEF ReadOptionsOf
  <2>6. ASSUME ~HasGroups(TypeOf(d)), NEW k \in DOMAIN type.fields
        PROVE  OptionsAgree(d, type.fieldOptions[k], FieldNumber(d, type.fields[k].no).options)
    <3>1. declared = fields /\ IsSequence(fields) BY <2>3, <2>6, InterpretedFacts DEF IsValid
    <3>2. k \in DOMAIN fields /\ fields[k] \in ToSet(fields) BY <2>4, <2>6, <3>1, SequenceFacts
    <3>3. type.fields[k] = normalizeFieldInfo(buildFieldInfo(Registry, options, d, fields[k]))
      <4> HIDE DEF type
      <4> QED BY <2>4, <2>6, <3>1
    <3>4. type.fields[k].no = fields[k].no BY <3>3, NumberKept
    <3>5. FieldNumber(d, type.fields[k].no) = fields[k]
      <4>1. \A f, g \in ToSet(fields) : f.no = g.no => f = g BY <2>3 DEF IsValid
      <4>2. FieldNumber(d, fields[k].no) = CHOOSE f \in ToSet(fields) : f.no = fields[k].no
        BY DEF FieldNumber
      <4> HIDE DEF fields
      <4> QED BY <3>2, <3>4, <4>1, <4>2
    <3>6. ReadBefore(d, k + 1) BY <2>2, <2>4, <2>6 DEF ReadToTheEnd
    <3>7. type.fieldOptions[k] = ReadFieldOptions(d, k)
      <4>1. k < k + 1 BY <2>4, <2>6
      <4> QED BY <2>6, <3>6, <4>1 DEF ReadBefore
    <3>8. AreSet(Registry, "FieldOptions", fields[k].options) BY <2>3, <3>2 DEF IsValid
    <3>9. OptionsAgree(d, ReadFieldOptions(d, k), fields[k].options)
      BY <1>0, <3>8, ReadAgrees DEF ReadFieldOptions
    <3> QED BY <3>5, <3>7, <3>9
  <2> QED BY <2>5, <2>6
<1>3. ASSUME NEW i \in Protos, NEW d \in ToSet(Descriptors(i)),
             NEW k \in DOMAIN MethodsOf(Registry, options, d)
      PROVE  OptionsAgree(d, MethodsOf(Registry, options, d)[k].options, TypeOf(d).methods[k].options)
  <2>1. d \in TypesOf(Registry)
    <3>1. PICK j \in DOMAIN Registry[i].types : d = <<i, j>>
      BY DEF Descriptors, ToSet, Registry, Proto
    <3> QED BY <3>1 DEF TypesOf, Protos, Registry
  <2>2. TypeAt(Registry, d) = TypeOf(d) BY DEF TypeAt, TypeOf, Proto, Registry
  <2>3. k \in DOMAIN TypeOf(d).methods BY <2>2 DEF MethodsOf
  <2>4. IsValid(Registry, TypeOf(d)) BY <1>0, <2>1, <2>2, TypeFacts
  <2>5. TypeOf(d).methods[k] \in ToSet(TypeOf(d).methods) BY <2>3 DEF ToSet
  <2>6. AreSet(Registry, "MethodOptions", TypeOf(d).methods[k].options) BY <2>4, <2>5 DEF IsValid
  <2> QED BY <1>0, <2>2, <2>3, <2>6, ReadAgrees, MethodOptionsKept
<1> QED BY <1>1, <1>2, <1>3 DEF OptionsAreTheirs

-----------------------------------------------------------------------------
(* Fields: what is built, completed, printed and completed again.            *)

Merges(made, f, g) ==
    /\ DOMAIN made = DOMAIN f \cup DOMAIN g
    /\ \A key \in DOMAIN f : made[key] = f[key]
    /\ \A key \in DOMAIN g : key \notin DOMAIN f => made[key] = g[key]
    /\ made = [key \in DOMAIN f \cup DOMAIN g |-> made[key]]

LEMMA MergeFacts == ASSUME NEW f, NEW g PROVE Merges(f ++ g, f, g)
BY DEF ++, Merges

\* The same but for a key that may be new.
Completes(made, info, key, value) ==
    /\ DOMAIN made = DOMAIN info \cup {key}
    /\ \A k \in DOMAIN info : made[k] = info[k]
    /\ key \notin DOMAIN info => made[key] = value
    /\ made = [k \in DOMAIN info \cup {key} |-> made[k]]

LEMMA DefaultCompletes ==
    ASSUME NEW info, NEW key, NEW value
    PROVE  Completes(WithDefault(info, key, value), info, key, value)
BY DEF WithDefault, ++, Completes

NormalKeys == {"localName", "jsonName", "repeat", "opt"}

Value(info, key, default) == IF key \in DOMAIN info THEN info[key] ELSE default

\* A normalized field has four keys more.
Normalized(info, partial) ==
    LET camel == lowerCamelCase(partial.name)
    IN  /\ DOMAIN info = DOMAIN partial \cup NormalKeys
        /\ info = [key \in DOMAIN info |-> info[key]]
        /\ \A key \in DOMAIN partial : info[key] = partial[key]
        /\ info.name = partial.name /\ info.kind = partial.kind
        /\ info.localName = Value(partial, "localName", camel)
        /\ info.jsonName = Value(partial, "jsonName", camel)
        /\ info.repeat = Value(partial, "repeat", "NO")
        /\ "opt" \notin DOMAIN partial =>
              info.opt = (info.repeat = "NO" /\ "oneof" \notin DOMAIN partial /\ partial.kind = "message")

LEMMA FieldNormalized ==
    ASSUME NEW partial, {"no", "name", "kind"} \subseteq DOMAIN partial
    PROVE  Normalized(normalizeFieldInfo(partial), partial)
<1> DEFINE camel == lowerCamelCase(partial.name)
           a == WithDefault(partial, "localName", camel)
           b == WithDefault(a, "jsonName", camel)
           c == WithDefault(b, "repeat", "NO")
           opt == c.repeat = "NO" /\ "oneof" \notin DOMAIN c /\ c.kind = "message"
           info == WithDefault(c, "opt", opt)
<1>1. normalizeFieldInfo(partial) = info BY DEF normalizeFieldInfo, WithNames
<1>2. Completes(a, partial, "localName", camel) BY DefaultCompletes
<1>3. Completes(b, a, "jsonName", camel) BY DefaultCompletes
<1>4. Completes(c, b, "repeat", "NO") BY DefaultCompletes
<1>5. Completes(info, c, "opt", opt) BY DefaultCompletes
<1> HIDE DEF info, camel, a, b, c
<1> USE DEF Completes
<1>6. DOMAIN info = DOMAIN partial \cup NormalKeys BY <1>2, <1>3, <1>4, <1>5 DEF NormalKeys
<1>7. info = [key \in DOMAIN info |-> info[key]] BY <1>5
<1>8. \A key \in DOMAIN partial : info[key] = partial[key] BY <1>2, <1>3, <1>4, <1>5, ZenonT(30)
<1>9. info.name = partial.name /\ info.kind = partial.kind BY <1>8
<1>10. info.localName = Value(partial, "localName", camel) BY <1>2, <1>3, <1>4, <1>5 DEF Value
<1>11. info.jsonName = Value(partial, "jsonName", camel) BY <1>2, <1>3, <1>4, <1>5, SMTT(30) DEF Value
<1>12. info.repeat = Value(partial, "repeat", "NO")
  <2>1. "repeat" \in DOMAIN b <=> "repeat" \in DOMAIN partial BY <1>2, <1>3
  <2>2. info["repeat"] = c["repeat"] BY <1>4, <1>5
  <2>3. "repeat" \in DOMAIN partial => c["repeat"] = partial["repeat"] BY <1>2, <1>3, <1>4
  <2>4. "repeat" \notin DOMAIN partial => c["repeat"] = "NO" BY <1>4, <2>1
  <2> QED BY <2>2, <2>3, <2>4 DEF Value
<1>13. ASSUME "opt" \notin DOMAIN partial
       PROVE  info.opt = (info.repeat = "NO" /\ "oneof" \notin DOMAIN partial /\ partial.kind = "message")
  <2>1. "opt" \notin DOMAIN c BY <1>2, <1>3, <1>4, <1>13
  <2>2. "oneof" \notin DOMAIN c <=> "oneof" \notin DOMAIN partial BY <1>2, <1>3, <1>4
  <2>3. c.kind = partial.kind BY <1>2, <1>3, <1>4
  <2>4. c.repeat = info.repeat BY <1>4, <1>5
  <2> QED BY <1>5, <2>1, <2>2, <2>3, <2>4
<1> QED BY <1>1, <1>6, <1>7, <1>8, <1>9, <1>10, <1>11, <1>12, <1>13 DEF camel, Normalized

\* What is omitted when a normalized field is printed is what the runtime puts
\* in again.
LEMMA PrintedFieldIsMade ==
    ASSUME NEW partial, {"no", "name", "kind"} \subseteq DOMAIN partial,
           "opt" \in DOMAIN partial => partial.opt = TRUE /\ partial.kind # "message"
    PROVE  LET info == normalizeFieldInfo(partial)
           IN  normalizeFieldInfo(denormalizeFieldInfo(info)) = info
<1> DEFINE info == normalizeFieldInfo(partial)
           printed == denormalizeFieldInfo(info)
           again == normalizeFieldInfo(printed)
           camel == lowerCamelCase(partial.name)
           keys == {k \in {"jsonName", "localName"} : info[k] = camel}
                   \cup {k \in {"repeat"} : info.repeat = "NO"}
                   \cup {k \in {"opt"} : ~info.opt \/ info.kind = "message"}
<1>0. Normalized(info, partial) BY FieldNormalized
<1>1. /\ DOMAIN info = DOMAIN partial \cup NormalKeys
      /\ info = [key \in DOMAIN info |-> info[key]]
      /\ \A key \in DOMAIN partial : info[key] = partial[key]
      /\ info.name = partial.name /\ info.kind = partial.kind
      /\ "opt" \notin DOMAIN partial =>
            info.opt = (info.repeat = "NO" /\ "oneof" \notin DOMAIN partial /\ partial.kind = "message")
  <2> HIDE DEF info
  <2> QED BY <1>0 DEF Normalized
<1>2. printed = Without(info, keys) BY <1>1 DEF denormalizeFieldInfo
<1>3. keys \subseteq NormalKeys BY DEF NormalKeys
<1>4. /\ "jsonName" \in keys <=> info["jsonName"] = camel
      /\ "localName" \in keys <=> info["localName"] = camel
      /\ "repeat" \in keys <=> info["repeat"] = "NO"
      /\ "opt" \in keys <=> ~info.opt \/ info.kind = "message"
  <2> HIDE DEF info, camel
  <2> QED OBVIOUS
<1> HIDE DEF keys, info, printed, camel
<1>5. DOMAIN printed = DOMAIN info \ keys /\ \A k \in DOMAIN printed : printed[k] = info[k]
  BY <1>2 DEF Without
<1>6. {"no", "name", "kind"} \subseteq DOMAIN printed
  BY <1>1, <1>3, <1>5 DEF NormalKeys
<1>7. printed.name = partial.name /\ printed.kind = partial.kind BY <1>1, <1>5, <1>6
<1>8. /\ DOMAIN again = DOMAIN printed \cup NormalKeys
      /\ again = [key \in DOMAIN again |-> again[key]]
      /\ \A key \in DOMAIN printed : again[key] = printed[key]
      /\ again.localName = Value(printed, "localName", camel)
      /\ again.jsonName = Value(printed, "jsonName", camel)
      /\ again.repeat = Value(printed, "repeat", "NO")
      /\ "opt" \notin DOMAIN printed =>
            again.opt = (again.repeat = "NO" /\ "oneof" \notin DOMAIN printed /\ printed.kind = "message")
  <2>1. lowerCamelCase(printed.name) = camel BY <1>7 DEF camel
  <2>2. Normalized(again, printed) BY <1>6, FieldNormalized
  <2> HIDE DEF again
  <2> QED BY <2>1, <2>2 DEF Normalized
<1> HIDE DEF again
<1>9. DOMAIN again = DOMAIN info BY <1>1, <1>3, <1>5, <1>8
<1>10. again["localName"] = info["localName"] /\ again["jsonName"] = info["jsonName"]
       /\ again["repeat"] = info["repeat"]
  BY <1>1, <1>3, <1>4, <1>5, <1>8 DEF Value, NormalKeys
<1>11. again["opt"] = info["opt"]
  <2>0. "opt" \in DOMAIN info BY <1>1 DEF NormalKeys
  <2>1. CASE "opt" \notin keys BY <1>5, <1>8, <2>0, <2>1
  <2>2. CASE "opt" \in keys
    <3>1. "opt" \notin DOMAIN printed BY <1>5, <2>2
    <3>2. "oneof" \in DOMAIN printed <=> "oneof" \in DOMAIN partial
      BY <1>1, <1>3, <1>5 DEF NormalKeys
    <3>3. again.opt = (info.repeat = "NO" /\ "oneof" \notin DOMAIN partial /\ partial.kind = "message")
      BY <1>7, <1>8, <1>10, <3>1, <3>2
    <3>4. CASE "opt" \in DOMAIN partial
      <4>1. info["opt"] = partial["opt"] BY <1>1, <3>4
      <4> QED BY <1>1, <1>4, <2>2, <3>4, <4>1
    <3>5. CASE "opt" \notin DOMAIN partial BY <1>1, <3>3, <3>5
    <3> QED BY <3>4, <3>5
  <2> QED BY <2>1, <2>2
<1>12. \A key \in DOMAIN info : again[key] = info[key]
  <2>1. ASSUME NEW key \in DOMAIN info, key \notin NormalKeys PROVE again[key] = info[key]
    BY <1>3, <1>5, <1>8, <2>1
  <2> QED BY <1>10, <1>11, <2>1 DEF NormalKeys
<1>13. again = info BY <1>1, <1>8, <1>9, <1>12
<1> QED BY <1>13 DEF again, printed, info

\* The same for a key that is set on a condition.
Sets(made, info, key, condition, value) ==
    /\ DOMAIN made = DOMAIN info \cup (IF condition THEN {key} ELSE {})
    /\ \A k \in DOMAIN info : made[k] = info[k]
    /\ condition => made[key] = value

LEMMA WhenSets ==
    ASSUME NEW info, NEW key, key \notin DOMAIN info, NEW condition, NEW value, NEW keys,
           DOMAIN keys = {key}, keys[key] = value
    PROVE  Sets(info ++ When(condition, keys), info, key, condition, value)
<1>1. DOMAIN When(condition, keys) = IF condition THEN {key} ELSE {} BY DEF When
<1>2. condition => When(condition, keys)[key] = value BY DEF When
<1> DEFINE added == When(condition, keys)
<1> HIDE DEF added
<1>3. Merges(info ++ added, info, added) BY MergeFacts
<1> QED BY <1>1, <1>2, <1>3 DEF Sets, Merges, added

LEMMA FieldBuilt ==
    ASSUME NEW registry, NEW o, NEW d, NEW f,
           DOMAIN InfoOfKind(registry, o, f) \subseteq {"kind", "T", "L", "of", "K", "V"},
           "kind" \in DOMAIN InfoOfKind(registry, o, f)
    PROVE  LET info == buildFieldInfo(registry, o, d, f)
               type == InfoOfKind(registry, o, f)
               local == createTypescriptNameForField(o, f.name)
               repeated == isUserDeclaredRepeated(registry, f)
               opt == (isScalarField(f) \/ isEnumField(f)) /\ isUserDeclaredOptional(registry, d, f)
           IN  /\ {"no", "name", "kind"} \subseteq DOMAIN info /\ info.no = f.no /\ info.name = f.name
               /\ \A key \in DOMAIN type : key \in DOMAIN info /\ info[key] = type[key]
               /\ \A key \in {"kind", "T", "L", "of", "K", "V"} : key \in DOMAIN info <=> key \in DOMAIN type
               /\ "localName" \in DOMAIN info <=> local # lowerCamelCase(f.name)
               /\ "localName" \in DOMAIN info => info.localName = local
               /\ "jsonName" \in DOMAIN info <=> f.json # <<>>
               /\ "jsonName" \in DOMAIN info => info.jsonName = f.json
               /\ "oneof" \in DOMAIN info <=> isUserDeclaredOneof(f)
               /\ "oneof" \in DOMAIN info => info.oneof = OneofName(registry, o, d, f)
               /\ "repeat" \in DOMAIN info <=> repeated
               /\ repeated => info.repeat = IF shouldBePackedRepeated(registry, d, f)
                                            THEN "PACKED" ELSE "UNPACKED"
               /\ "opt" \in DOMAIN info <=> opt
               /\ opt => info.opt = TRUE
<1> DEFINE type == InfoOfKind(registry, o, f)
           local == createTypescriptNameForField(o, f.name)
           oneof == OneofName(registry, o, d, f)
           repeat == IF shouldBePackedRepeated(registry, d, f) THEN "PACKED" ELSE "UNPACKED"
           c1 == local # lowerCamelCase(f.name)
           c2 == f.json # <<>>
           c3 == isUserDeclaredOneof(f)
           c4 == isUserDeclaredRepeated(registry, f)
           c5 == (isScalarField(f) \/ isEnumField(f)) /\ isUserDeclaredOptional(registry, d, f)
           r0 == [no |-> f.no, name |-> f.name]
           r1 == r0 ++ When(c1, [localName |-> local])
           r2 == r1 ++ When(c2, [jsonName |-> f.json])
           r3 == r2 ++ When(c3, [oneof |-> oneof])
           r4 == r3 ++ When(c4, [repeat |-> repeat])
           r5 == r4 ++ When(c5, [opt |-> TRUE])
           info == r5 ++ type
<1>1. buildFieldInfo(registry, o, d, f) = info BY DEF buildFieldInfo
<1> HIDE DEF c1, c2, c3, c4, c5, type, local, oneof, repeat
<1>2. DOMAIN r0 = {"no", "name"} /\ r0.no = f.no /\ r0.name = f.name OBVIOUS
<1> HIDE DEF r0
<1>3. Sets(r1, r0, "localName", c1, local) BY <1>2, WhenSets
<1> HIDE DEF r1
<1>4. Sets(r2, r1, "jsonName", c2, f.json)
  <2>1. "jsonName" \notin DOMAIN r1 BY <1>2, <1>3 DEF Sets
  <2> QED BY <2>1, WhenSets
<1> HIDE DEF r2
<1>5. Sets(r3, r2, "oneof", c3, oneof)
  <2>1. "oneof" \notin DOMAIN r2 BY <1>2, <1>3, <1>4 DEF Sets
  <2> QED BY <2>1, WhenSets
<1> HIDE DEF r3
<1>6. Sets(r4, r3, "repeat", c4, repeat)
  <2>1. "repeat" \notin DOMAIN r3 BY <1>2, <1>3, <1>4, <1>5 DEF Sets
  <2> QED BY <2>1, WhenSets
<1> HIDE DEF r4
<1>7. Sets(r5, r4, "opt", c5, TRUE)
  <2>1. "opt" \notin DOMAIN r4 BY <1>2, <1>3, <1>4, <1>5, <1>6 DEF Sets
  <2> QED BY <2>1, WhenSets
<1> HIDE DEF r5
<1>8. Merges(info, r5, type) BY MergeFacts
<1> HIDE DEF info
<1> USE DEF Merges
<1>9. DOMAIN r5 \subseteq {"no", "name", "localName", "jsonName", "oneof", "repeat", "opt"}
  BY <1>2, <1>3, <1>4, <1>5, <1>6, <1>7 DEF Sets
<1>10. \A key \in DOMAIN type : key \notin DOMAIN r5 BY <1>9 DEF type
<1>11. \A key \in DOMAIN type : key \in DOMAIN info /\ info[key] = type[key] BY <1>8, <1>10
<1>12. \A key \in {"kind", "T", "L", "of", "K", "V"} : key \in DOMAIN info <=> key \in DOMAIN type
  BY <1>8, <1>9
<1>13. "kind" \in DOMAIN info BY <1>11 DEF type
<1>14. {"no", "name"} \subseteq DOMAIN info /\ info.no = f.no /\ info.name = f.name
  BY <1>2, <1>3, <1>4, <1>5, <1>6, <1>7, <1>8 DEF Sets
<1>15. \A key \in {"localName", "jsonName", "oneof", "repeat", "opt"} :
          (key \in DOMAIN info <=> key \in DOMAIN r5) /\ (key \in DOMAIN r5 => info[key] = r5[key])
  BY <1>8 DEF type
<1>16. ("localName" \in DOMAIN r5 <=> c1) /\ (c1 => r5["localName"] = local)
  BY <1>2, <1>3, <1>4, <1>5, <1>6, <1>7 DEF Sets
<1>17. ("jsonName" \in DOMAIN r5 <=> c2) /\ (c2 => r5["jsonName"] = f.json)
  BY <1>2, <1>3, <1>4, <1>5, <1>6, <1>7 DEF Sets
<1>18. ("oneof" \in DOMAIN r5 <=> c3) /\ (c3 => r5["oneof"] = oneof)
  BY <1>2, <1>3, <1>4, <1>5, <1>6, <1>7 DEF Sets
<1>19. ("repeat" \in DOMAIN r5 <=> c4) /\ (c4 => r5["repeat"] = repeat)
  BY <1>2, <1>3, <1>4, <1>5, <1>6, <1>7 DEF Sets
<1>20. ("opt" \in DOMAIN r5 <=> c5) /\ (c5 => r5["opt"] = TRUE)
  BY <1>2, <1>3, <1>4, <1>5, <1>6, <1>7 DEF Sets
<1>21. {"no", "name", "kind"} \subseteq DOMAIN info /\ info.no = f.no /\ info.name = f.name
  BY <1>13, <1>14
<1>22. ("localName" \in DOMAIN info <=> c1) /\ (c1 => info.localName = local) BY <1>15, <1>16
<1>23. ("jsonName" \in DOMAIN info <=> c2) /\ (c2 => info.jsonName = f.json) BY <1>15, <1>17
<1>24. ("oneof" \in DOMAIN info <=> c3) /\ (c3 => info.oneof = oneof) BY <1>15, <1>18
<1>25. ("repeat" \in DOMAIN info <=> c4) /\ (c4 => info.repeat = repeat) BY <1>15, <1>19
<1>26. ("opt" \in DOMAIN info <=> c5) /\ (c5 => info.opt = TRUE) BY <1>15, <1>20
<1> QED
  BY <1>1, <1>11, <1>12, <1>21, <1>22, <1>23, <1>24, <1>25, <1>26
  DEF c1, c2, c3, c4, c5, type, local, oneof, repeat

\* The keys of the type of a field.
LEMMA TypeBuilt ==
    ASSUME NEW o, NEW f, NEW jstype
    PROVE  LET type == InfoOfType(o, f, jstype)
           IN  /\ DOMAIN type \subseteq {"kind", "T", "L", "of"} /\ "kind" \in DOMAIN type
               /\ isScalarField(f) =>
                     /\ type.kind = "scalar" /\ "T" \in DOMAIN type /\ type.T = f.type
                     /\ LET L == determineNonDefaultLongType(o, f.type, jstype)
                        IN  /\ "L" \in DOMAIN type <=> "L" \in DOMAIN L
                            /\ "L" \in DOMAIN L => type.L = L.L
               /\ isEnumField(f) => type = [kind |-> "enum", of |-> f.of]
               /\ ~isScalarField(f) /\ ~isEnumField(f) => type = [kind |-> "message", of |-> f.of]
<1> DEFINE type == InfoOfType(o, f, jstype)
           L == determineNonDefaultLongType(o, f.type, jstype)
           base == [kind |-> "scalar", T |-> f.type]
<1>1. isEnumField(f) => ~isScalarField(f) BY DEF isEnumField, isScalarField
<1>2. CASE isScalarField(f)
  <2>1. type = base ++ L BY <1>1, <1>2 DEF InfoOfType
  <2>2. DOMAIN L \subseteq {"L"} BY DEF determineNonDefaultLongType, When
  <2>3. DOMAIN base = {"kind", "T"} /\ base["kind"] = "scalar" /\ base["T"] = f.type OBVIOUS
  <2> HIDE DEF L, base
  <2>4. Merges(type, base, L) BY <2>1, MergeFacts
  <2> HIDE DEF type
  <2> USE DEF Merges
  <2>5. DOMAIN type \subseteq {"kind", "T", "L", "of"} /\ "kind" \in DOMAIN type BY <2>2, <2>3, <2>4
  <2>6. type.kind = "scalar" /\ "T" \in DOMAIN type /\ type.T = f.type BY <2>3, <2>4
  <2>7. ("L" \in DOMAIN type <=> "L" \in DOMAIN L) /\ ("L" \in DOMAIN L => type.L = L.L)
    BY <2>3, <2>4
  <2> QED BY <1>1, <1>2, <2>5, <2>6, <2>7 DEF type, L
<1>3. CASE isEnumField(f)
  <2>1. type = [kind |-> "enum", of |-> f.of] BY <1>1, <1>3 DEF InfoOfType
  <2> QED BY <1>1, <1>3, <2>1
<1>4. CASE ~isScalarField(f) /\ ~isEnumField(f)
  <2>1. type = [kind |-> "message", of |-> f.of] BY <1>4 DEF InfoOfType
  <2> QED BY <1>4, <2>1
<1> QED BY <1>2, <1>3, <1>4

LEMMA OneLonger ==
    ASSUME NEW X, NEW s \in Seq(X), NEW e \in X
    PROVE  Len(Append(s, e)) = Len(s) + 1
OBVIOUS

LEMMA LocalNameAgrees == ASSUME NEW name PROVE createTypescriptNameForField(options, name) = LocalOf(name)
<1> DEFINE plain == IF options.useProtoFieldName THEN name ELSE lowerCamelCase(name)
<1>1. createTypescriptNameForField(options, name)
        = Escaped(Escaped(plain, ReservedProperties), {oneofKind})
  BY DEF createTypescriptNameForField
<1>2. LocalOf(name) = IF plain \in ReservedProperties \cup {oneofKind} THEN Append(plain, "$") ELSE plain
  BY DEF LocalOf
<1> HIDE DEF plain
<1>3. CASE plain \in ReservedProperties
  <2>1. Len(Append(plain, "$")) = 3
    <3> DEFINE X == {"t", "S", "_", "p", "$"}
    <3>1. <<"t", "S">> \in Seq(X) /\ Len(<<"t", "S">>) = 2 OBVIOUS
    <3>2. <<"_", "p">> \in Seq(X) /\ Len(<<"_", "p">>) = 2 OBVIOUS
    <3>0. "$" \in X OBVIOUS
    <3> HIDE DEF X
    <3>3. plain \in Seq(X) /\ Len(plain) = 2 BY <1>3, <3>1, <3>2 DEF ReservedProperties
    <3>4. Len(Append(plain, "$")) = Len(plain) + 1 BY <3>0, <3>3, OneLonger
    <3> QED BY <3>3, <3>4
  <2>2. Len(oneofKind) = 2 BY DEF oneofKind
  <2>3. Append(plain, "$") # oneofKind BY <2>1, <2>2
  <2> QED BY <1>1, <1>2, <1>3, <2>3 DEF Escaped
<1>4. CASE plain \notin ReservedProperties BY <1>1, <1>2, <1>4 DEF Escaped
<1> QED BY <1>3, <1>4

\* The type of a field, or of the values of a map.
LEMMA TypeIsTheirs ==
    ASSUME NEW f, NEW jstype
    PROVE  TypeAgrees(InfoOfType(options, f, jstype), f, jstype)
<1> DEFINE type == InfoOfType(options, f, jstype)
           L == determineNonDefaultLongType(options, f.type, jstype)
<1>1. isEnumField(f) => ~isScalarField(f) BY DEF isEnumField, isScalarField
<1>2. CASE isScalarField(f)
  <2>1. /\ type.kind = "scalar" /\ type.T = f.type
        /\ "L" \in DOMAIN type <=> "L" \in DOMAIN L
        /\ "L" \in DOMAIN L => type.L = L.L
    BY <1>2, TypeBuilt
  <2>2. ASSUME f.type \in LongValueTypes PROVE LongTypeOf(type) = LongTypeWanted(jstype)
    <3>1. CASE jstype = "JS_STRING"
      <4>1. L = <<>> BY <3>1 DEF determineNonDefaultLongType
      <4>2. "L" \notin DOMAIN L BY <4>1
      <4> QED BY <2>1, <3>1, <4>2 DEF LongTypeOf, LongTypeWanted
    <3>2. CASE jstype = "JS_NORMAL"
      <4>1. L = [L |-> "BIGINT"] BY <2>2, <3>2 DEF determineNonDefaultLongType
      <4>2. "L" \in DOMAIN L /\ L.L = "BIGINT" BY <4>1
      <4> QED BY <2>1, <3>2, <4>2 DEF LongTypeOf, LongTypeWanted
    <3>3. CASE jstype = "JS_NUMBER"
      <4>1. L = [L |-> "NUMBER"] BY <2>2, <3>3 DEF determineNonDefaultLongType
      <4>2. "L" \in DOMAIN L /\ L.L = "NUMBER" BY <4>1
      <4> QED BY <2>1, <3>3, <4>2 DEF LongTypeOf, LongTypeWanted
    <3>4. CASE jstype \notin {"JS_STRING", "JS_NORMAL", "JS_NUMBER"}
      <4>1. L = When(options.normalLongType # "STRING", [L |-> options.normalLongType])
        BY <2>2, <3>4 DEF determineNonDefaultLongType
      <4>2. "L" \in DOMAIN L <=> options.normalLongType # "STRING" BY <4>1 DEF When
      <4>3. options.normalLongType # "STRING" => L.L = options.normalLongType BY <4>1 DEF When
      <4>4. LongTypeWanted(jstype) = options.normalLongType BY <3>4 DEF LongTypeWanted
      <4> HIDE DEF L, type
      <4> QED BY <2>1, <4>2, <4>3, <4>4 DEF LongTypeOf
    <3> QED BY <3>1, <3>2, <3>3, <3>4
  <2> HIDE DEF type
  <2> QED BY <1>1, <1>2, <2>1, <2>2 DEF TypeAgrees, type
<1>3. CASE isEnumField(f)
  <2>1. type = [kind |-> "enum", of |-> f.of] BY <1>3, TypeBuilt
  <2>2. type.kind = "enum" /\ type.of = f.of BY <2>1
  <2> QED BY <1>1, <1>3, <2>2 DEF TypeAgrees
<1>4. CASE ~isScalarField(f) /\ ~isEnumField(f)
  <2>1. type = [kind |-> "message", of |-> f.of] BY <1>4, TypeBuilt
  <2>2. type.kind = "message" /\ type.of = f.of BY <2>1
  <2> QED BY <1>4, <2>2 DEF TypeAgrees
<1> QED BY <1>2, <1>3, <1>4

\* Before it is normalized, a field has the keys that it needs.
LEMMA KindBuilt ==
    ASSUME NEW registry, NEW o, NEW f
    PROVE  LET type == InfoOfKind(registry, o, f)
           IN  /\ DOMAIN type \subseteq {"kind", "T", "L", "of", "K", "V"} /\ "kind" \in DOMAIN type
               /\ isMapField(registry, f) =>
                     type = [kind |-> "map", K |-> getMapKeyType(registry, f),
                             V |-> InfoOfType(o, MapValue(registry, f), f.jstype)]
               /\ ~isMapField(registry, f) => type = InfoOfType(o, f, f.jstype)
               /\ isScalarField(f) \/ isEnumField(f) => type.kind # "message"
               /\ ~isScalarField(f) /\ ~isEnumField(f) /\ ~isMapField(registry, f) => type.kind = "message"
<1> DEFINE type == InfoOfKind(registry, o, f)
<1>1. CASE isMapField(registry, f)
  <2>1. type = [kind |-> "map", K |-> getMapKeyType(registry, f),
                V |-> InfoOfType(o, MapValue(registry, f), f.jstype)]
    BY <1>1 DEF InfoOfKind
  <2>2. DOMAIN type = {"kind", "K", "V"} /\ type.kind = "map" BY <2>1
  <2> QED BY <1>1, <2>1, <2>2
<1>2. CASE ~isMapField(registry, f)
  <2>1. type = InfoOfType(o, f, f.jstype) BY <1>2 DEF InfoOfKind
  <2>2. DOMAIN type \subseteq {"kind", "T", "L", "of"} /\ "kind" \in DOMAIN type BY <2>1, TypeBuilt
  <2>3. isScalarField(f) => type.kind = "scalar" BY <2>1, TypeBuilt
  <2>4. isEnumField(f) => type.kind = "enum"
    <3>1. isEnumField(f) => type = [kind |-> "enum", of |-> f.of] BY <2>1, TypeBuilt
    <3>2. [kind |-> "enum", of |-> f.of].kind = "enum" OBVIOUS
    <3> QED BY <3>1, <3>2
  <2>5. ~isScalarField(f) /\ ~isEnumField(f) => type.kind = "message"
    <3>1. ~isScalarField(f) /\ ~isEnumField(f) => type = [kind |-> "message", of |-> f.of]
      BY <2>1, TypeBuilt
    <3>2. [kind |-> "message", of |-> f.of].kind = "message" OBVIOUS
    <3> QED BY <3>1, <3>2
  <2> HIDE DEF type
  <2> QED BY <1>2, <2>1, <2>2, <2>3, <2>4, <2>5 DEF type
<1> QED BY <1>1, <1>2

\* The information of a field, when it is complete.
InfoFor(d, f) == normalizeFieldInfo(buildFieldInfo(Registry, options, d, f))

IsInfoFor(info, d, f) ==
    LET type == InfoOfKind(Registry, options, f)
        repeated == isUserDeclaredRepeated(Registry, f)
        opt == (isScalarField(f) \/ isEnumField(f)) /\ isUserDeclaredOptional(Registry, d, f)
    IN  /\ normalizeFieldInfo(denormalizeFieldInfo(info)) = info
        /\ info.localName = LocalOf(f.name)
        /\ info.jsonName = IF f.json = <<>> THEN lowerCamelCase(f.name) ELSE f.json
        /\ "oneof" \in DOMAIN info <=> isUserDeclaredOneof(f)
        /\ isUserDeclaredOneof(f) => info.oneof = LocalOf(TypeOf(d).oneofDecl[f.oneof])
        /\ info.repeat = IF ~repeated THEN "NO"
                         ELSE IF shouldBePackedRepeated(Registry, d, f) THEN "PACKED" ELSE "UNPACKED"
        /\ opt => info.opt = TRUE
        /\ ~opt => info.opt = (~repeated /\ ~isUserDeclaredOneof(f) /\ type.kind = "message")
        /\ \A key \in DOMAIN type : info[key] = type[key]
        /\ \A key \in {"kind", "T", "L", "of", "K", "V"} : key \in DOMAIN info <=> key \in DOMAIN type

LEMMA InfoFacts == ASSUME NEW d, NEW f PROVE IsInfoFor(InfoFor(d, f), d, f)
<1> DEFINE partial == buildFieldInfo(Registry, options, d, f)
           info == normalizeFieldInfo(partial)
           type == InfoOfKind(Registry, options, f)
           camel == lowerCamelCase(f.name)
           local == createTypescriptNameForField(options, f.name)
           repeated == isUserDeclaredRepeated(Registry, f)
           repeat == IF shouldBePackedRepeated(Registry, d, f) THEN "PACKED" ELSE "UNPACKED"
           opt == (isScalarField(f) \/ isEnumField(f)) /\ isUserDeclaredOptional(Registry, d, f)
<1>0. /\ DOMAIN type \subseteq {"kind", "T", "L", "of", "K", "V"} /\ "kind" \in DOMAIN type
      /\ isScalarField(f) \/ isEnumField(f) => type.kind # "message"
  BY KindBuilt
<1>1. /\ {"no", "name", "kind"} \subseteq DOMAIN partial /\ partial.no = f.no /\ partial.name = f.name
      /\ \A key \in DOMAIN type : key \in DOMAIN partial /\ partial[key] = type[key]
      /\ \A key \in {"kind", "T", "L", "of", "K", "V"} : key \in DOMAIN partial <=> key \in DOMAIN type
      /\ "localName" \in DOMAIN partial <=> local # camel
      /\ "localName" \in DOMAIN partial => partial.localName = local
      /\ "jsonName" \in DOMAIN partial <=> f.json # <<>>
      /\ "jsonName" \in DOMAIN partial => partial.jsonName = f.json
      /\ "oneof" \in DOMAIN partial <=> isUserDeclaredOneof(f)
      /\ "oneof" \in DOMAIN partial => partial.oneof = OneofName(Registry, options, d, f)
      /\ "repeat" \in DOMAIN partial <=> repeated
      /\ repeated => partial.repeat = repeat
      /\ "opt" \in DOMAIN partial <=> opt
      /\ opt => partial.opt = TRUE
  BY <1>0, FieldBuilt
<1> HIDE DEF partial, type, local, repeat, opt, repeated
<1>2. partial.kind = type.kind BY <1>0, <1>1
<1>3. /\ DOMAIN info = DOMAIN partial \cup NormalKeys
      /\ \A key \in DOMAIN partial : info[key] = partial[key]
      /\ info.localName = Value(partial, "localName", camel)
      /\ info.jsonName = Value(partial, "jsonName", camel)
      /\ info.repeat = Value(partial, "repeat", "NO")
      /\ "opt" \notin DOMAIN partial =>
            info.opt = (info.repeat = "NO" /\ "oneof" \notin DOMAIN partial /\ partial.kind = "message")
  <2>1. Normalized(info, partial) BY <1>1, FieldNormalized
  <2>2. camel = lowerCamelCase(partial.name) BY <1>1
  <2> HIDE DEF info, camel
  <2> QED BY <2>1, <2>2 DEF Normalized
<1>4. normalizeFieldInfo(denormalizeFieldInfo(info)) = info
  <2>1. opt => partial.kind # "message" BY <1>0, <1>2 DEF opt
  <2>2. "opt" \in DOMAIN partial => partial.opt = TRUE /\ partial.kind # "message" BY <1>1, <2>1
  <2> QED BY <1>1, <2>2, PrintedFieldIsMade
<1> HIDE DEF info, camel
<1>5. info.localName = LocalOf(f.name)
  <2>1. info.localName = local BY <1>1, <1>3 DEF Value
  <2> QED BY <2>1, LocalNameAgrees DEF local
<1>6. info.jsonName = IF f.json = <<>> THEN camel ELSE f.json BY <1>1, <1>3 DEF Value
<1>7. "oneof" \in DOMAIN info <=> isUserDeclaredOneof(f) BY <1>1, <1>3 DEF NormalKeys
<1>8. isUserDeclaredOneof(f) => info.oneof = LocalOf(TypeOf(d).oneofDecl[f.oneof])
  <2>1. isUserDeclaredOneof(f) => info.oneof = OneofName(Registry, options, d, f) BY <1>1, <1>3
  <2>2. TypeAt(Registry, d) = TypeOf(d) BY DEF TypeAt, TypeOf, Proto, Registry
  <2>3. OneofName(Registry, options, d, f)
          = createTypescriptNameForField(options, TypeOf(d).oneofDecl[f.oneof])
    BY <2>2 DEF OneofName
  <2> QED BY <2>1, <2>3, LocalNameAgrees
<1>9. info.repeat = IF ~repeated THEN "NO" ELSE repeat BY <1>1, <1>3 DEF Value
<1>10. opt => info.opt = TRUE BY <1>1, <1>3
<1>11. ~opt => info.opt = (~repeated /\ ~isUserDeclaredOneof(f) /\ type.kind = "message")
  <2>1. info.repeat = "NO" <=> ~repeated BY <1>9 DEF repeat
  <2> QED BY <1>1, <1>2, <1>3, <2>1
<1>12. \A key \in DOMAIN type : info[key] = type[key] BY <1>1, <1>3
<1>13. \A key \in {"kind", "T", "L", "of", "K", "V"} : key \in DOMAIN info <=> key \in DOMAIN type
  BY <1>1, <1>3 DEF NormalKeys
<1> QED
  BY <1>4, <1>5, <1>6, <1>7, <1>8, <1>9, <1>10, <1>11, <1>12, <1>13
  DEF IsInfoFor, InfoFor, info, partial, type, camel, repeated, repeat, opt

\* What the reflection information says of a field is what the proto file says.
LEMMA FieldAgrees ==
    ASSUME ProtocAccepts(Registry), NEW d \in TypesOf(Registry),
           NEW f \in ToSet(TypeOf(d).fields), ~isGroupField(f)
    PROVE  Agrees(d, InfoFor(d, f), f)
<1> DEFINE info == InfoFor(d, f)
           type == InfoOfKind(Registry, options, f)
           map == isMapField(Registry, f)
           member == isUserDeclaredOneof(f)
           repeated == isUserDeclaredRepeated(Registry, f)
           packed == shouldBePackedRepeated(Registry, d, f)
           opt == (isScalarField(f) \/ isEnumField(f)) /\ isUserDeclaredOptional(Registry, d, f)
<1>1. /\ info.localName = LocalOf(f.name)
      /\ info.jsonName = IF f.json = <<>> THEN lowerCamelCase(f.name) ELSE f.json
      /\ "oneof" \in DOMAIN info <=> member
      /\ member => info.oneof = LocalOf(TypeOf(d).oneofDecl[f.oneof])
      /\ info.repeat = IF ~repeated THEN "NO" ELSE IF packed THEN "PACKED" ELSE "UNPACKED"
      /\ opt => info.opt = TRUE
      /\ ~opt => info.opt = (~repeated /\ ~member /\ type.kind = "message")
      /\ \A key \in DOMAIN type : info[key] = type[key]
      /\ \A key \in {"kind", "T", "L", "of", "K", "V"} : key \in DOMAIN info <=> key \in DOMAIN type
  <2>1. IsInfoFor(info, d, f) BY InfoFacts
  <2> HIDE DEF info
  <2> QED BY <2>1 DEF IsInfoFor
<1> HIDE DEF info
<1>2. /\ DOMAIN type \subseteq {"kind", "T", "L", "of", "K", "V"} /\ "kind" \in DOMAIN type
      /\ map => type = [kind |-> "map", K |-> getMapKeyType(Registry, f),
                        V |-> InfoOfType(options, MapValue(Registry, f), f.jstype)]
      /\ ~map => type = InfoOfType(options, f, f.jstype)
      /\ isScalarField(f) \/ isEnumField(f) => type.kind # "message"
      /\ ~isScalarField(f) /\ ~isEnumField(f) /\ ~map => type.kind = "message"
  BY KindBuilt
<1>3. d[1] \in DOMAIN Registry /\ IsValid(Registry, TypeOf(d)) /\ fileOf(Registry, d) = Proto(d[1])
  BY TypeFacts DEF TypeAt, TypeOf, Proto, Registry, fileOf
<1>4. Proto(d[1]).syntax \in {"proto2", "proto3"}
  <2>1. Proto(d[1]) \in ToSet(Registry) BY <1>3 DEF ToSet, Proto, Registry
  <2> QED BY <2>1 DEF ProtocAccepts
<1>5. /\ f.proto3Optional => f.label = "optional"
      /\ f.packed = "true" => f.type \notin {"string", "bytes", "message", "group"}
  BY <1>3 DEF IsValid
<1> HIDE DEF type
<1>6. IsRepeated(info) <=> f.label = "repeated" /\ ~map
  BY <1>1 DEF IsRepeated, isUserDeclaredRepeated
<1>7. IsRepeated(info) /\ Packable(f) => (info.repeat = "PACKED" <=> IsPacked(d, f))
  <2>1. Packable(f) => (packed <=> IsPacked(d, f))
    BY <1>3 DEF Packable, IsPacked, shouldBePackedRepeated
  <2>2. IsRepeated(info) => (info.repeat = "PACKED" <=> packed)
    <3> HIDE DEF packed
    <3> QED BY <1>1 DEF IsRepeated
  <2> QED BY <2>1, <2>2
<1>8. f.type \in {"string", "bytes"} => info.repeat # "PACKED"
  <2>1. f.type \in {"string", "bytes"} => ~packed BY <1>3, <1>5 DEF shouldBePackedRepeated
  <2> HIDE DEF packed
  <2> QED BY <1>1, <2>1
<1>9. PresenceIn(info) = Presence(d, f)
  <2>1. CASE member BY <1>1, <2>1 DEF PresenceIn, Presence, IsMember
  <2>2. CASE ~member /\ (f.label = "repeated" \/ map)
    <3>1. ~opt
      <4>1. map => ~isScalarField(f) /\ ~isEnumField(f)
        BY DEF isMapField, isScalarField, isEnumField
      <4>2. f.label = "repeated" => ~isUserDeclaredOptional(Registry, d, f)
        BY <1>5 DEF isUserDeclaredOptional
      <4> QED BY <2>2, <4>1, <4>2
    <3>2. ~info.opt
      <4>1. map => type.kind # "message"
        <5>1. [kind |-> "map", K |-> getMapKeyType(Registry, f),
               V |-> InfoOfType(options, MapValue(Registry, f), f.jstype)].kind = "map"
          OBVIOUS
        <5> QED BY <1>2, <5>1
      <4>2. ~map => repeated BY <2>2 DEF isUserDeclaredRepeated
      <4> HIDE DEF opt, map, member, repeated
      <4> QED BY <1>1, <3>1, <4>1, <4>2
    <3>3. Presence(d, f) = "implicit" BY <2>2 DEF Presence, isMessageField
    <3>4. ~IsMember(info) BY <1>1, <2>2 DEF IsMember
    <3> QED BY <3>2, <3>3, <3>4 DEF PresenceIn
  <2>3. CASE ~member /\ ~(f.label = "repeated" \/ map) /\ isMessageField(Registry, f)
    <3>1. ~isScalarField(f) /\ ~isEnumField(f)
      BY <2>3 DEF isMessageField, isScalarField, isEnumField
    <3>2. ~opt /\ type.kind = "message" /\ ~repeated
      BY <1>2, <2>3, <3>1 DEF isUserDeclaredRepeated
    <3>3. info.opt
      <4> HIDE DEF opt, map, member, repeated
      <4> QED BY <1>1, <2>3, <3>2
    <3>4. Presence(d, f) = "explicit" BY <2>3 DEF Presence
    <3>5. ~IsMember(info) BY <1>1, <2>3 DEF IsMember
    <3> QED BY <3>3, <3>4, <3>5 DEF PresenceIn
  <2>4. CASE ~member /\ ~(f.label = "repeated" \/ map) /\ ~isMessageField(Registry, f)
    <3>1. isScalarField(f) \/ isEnumField(f)
      BY <2>4 DEF isMessageField, isScalarField, isEnumField, isGroupField
    <3>2. type.kind # "message" BY <1>2, <3>1
    <3>3. Presence(d, f) = IF f.proto3Optional \/ (Proto(d[1]).syntax = "proto2" /\ f.label = "optional")
                           THEN "explicit" ELSE "implicit"
      BY <2>4 DEF Presence
    <3>4. opt <=> f.proto3Optional \/ (Proto(d[1]).syntax = "proto2" /\ f.label = "optional")
      BY <1>3, <1>4, <2>4, <3>1 DEF isUserDeclaredOptional
    <3>5. info.opt <=> opt
      <4> HIDE DEF opt, map, member, repeated
      <4> QED BY <1>1, <3>2
    <3>6. ~IsMember(info) BY <1>1, <2>4 DEF IsMember
    <3> HIDE DEF opt
    <3> QED BY <3>3, <3>4, <3>5, <3>6 DEF PresenceIn
  <2> QED BY <2>1, <2>2, <2>3, <2>4
<1>10. IsMember(info) => info.oneof = LocalOf(TypeOf(d).oneofDecl[f.oneof])
  BY <1>1 DEF IsMember
<1>11. CASE map
  <2>1. "kind" \in DOMAIN type /\ "V" \in DOMAIN type /\ type["kind"] = "map"
        /\ type["V"] = InfoOfType(options, MapValue(Registry, f), f.jstype)
    BY <1>2, <1>11
  <2>2. info.kind = "map" /\ info.V = InfoOfType(options, MapValue(Registry, f), f.jstype)
    BY <1>1, <2>1
  <2>3. TypeAgrees(info.V, MapValue(Registry, f), f.jstype) BY <2>2, TypeIsTheirs
  <2>4. IF isMapField(Registry, f)
        THEN info.kind = "map" /\ TypeAgrees(info.V, MapValue(Registry, f), f.jstype)
        ELSE TypeAgrees(info, f, f.jstype)
    BY <1>11, <2>2, <2>3
  <2> QED BY <1>1, <1>6, <1>7, <1>8, <1>9, <1>10, <2>4 DEF Agrees, info
<1>12. CASE ~map
  <2>1. TypeAgrees(type, f, f.jstype) BY <1>2, <1>12, TypeIsTheirs
  <2>2. type.kind = info.kind BY <1>1, <1>2
  <2>3. isScalarField(f) => type.T = info.T
    <3>1. isScalarField(f) => "T" \in DOMAIN type BY <1>2, <1>12, TypeBuilt
    <3> QED BY <1>1, <3>1
  <2>4. LongTypeOf(type) = LongTypeOf(info)
    <3>1. "L" \in DOMAIN info <=> "L" \in DOMAIN type BY <1>1
    <3>2. "L" \in DOMAIN type => info["L"] = type["L"] BY <1>1
    <3> QED BY <3>1, <3>2 DEF LongTypeOf
  <2>5. ~isScalarField(f) => type.of = info.of
    <3>1. ~isScalarField(f) => "of" \in DOMAIN type
      <4>1. isEnumField(f) => type = [kind |-> "enum", of |-> f.of] BY <1>2, <1>12, TypeBuilt
      <4>2. ~isScalarField(f) /\ ~isEnumField(f) => type = [kind |-> "message", of |-> f.of]
        BY <1>2, <1>12, TypeBuilt
      <4>3. "of" \in DOMAIN [kind |-> "enum", of |-> f.of]
            /\ "of" \in DOMAIN [kind |-> "message", of |-> f.of]
        OBVIOUS
      <4> QED BY <4>1, <4>2, <4>3
    <3> QED BY <1>1, <3>1
  <2>6. isEnumField(f) => ~isScalarField(f) BY DEF isEnumField, isScalarField
  <2>7. TypeAgrees(info, f, f.jstype) BY <2>1, <2>2, <2>3, <2>4, <2>5, <2>6 DEF TypeAgrees
  <2>8. IF isMapField(Registry, f)
        THEN info.kind = "map" /\ TypeAgrees(info.V, MapValue(Registry, f), f.jstype)
        ELSE TypeAgrees(info, f, f.jstype)
    BY <1>12, <2>7
  <2> QED BY <1>1, <1>6, <1>7, <1>8, <1>9, <1>10, <2>8 DEF Agrees, info
<1> QED BY <1>11, <1>12

-----------------------------------------------------------------------------
(* lowerCamelCase: its recursion, and that it makes no "$".                  *)

Spells(f, name) ==
    f = [k \in 0 .. Len(name) |->
            IF k = 0 THEN [out |-> <<>>, cap |-> FALSE] ELSE Camel(f[k - 1], name[k], k = 1)]

LEMMA SpellsExists == ASSUME NEW name, Len(name) \in Nat PROVE \E f : Spells(f, name)
<1> DEFINE Step(f, k) == IF k = 0 THEN [out |-> <<>>, cap |-> FALSE]
                         ELSE Camel(f[k - 1], name[k], k = 1)
           Upto(f, n) == f = [k \in 0 .. n |-> Step(f, k)]
           T == {n \in Nat : \E f : Upto(f, n)}
<1>1. 0 \in T
  <2> DEFINE f0 == [k \in 0 .. 0 |-> [out |-> <<>>, cap |-> FALSE]]
  <2>1. Upto(f0, 0) OBVIOUS
  <2> QED BY <2>1
<1>2. ASSUME NEW n \in Nat, n \in T PROVE n + 1 \in T
  <2>1. PICK f : Upto(f, n) BY <1>2
  <2> DEFINE g == [k \in 0 .. n + 1 |-> IF k <= n THEN f[k] ELSE Step(f, k)]
  <2>2. \A k \in 0 .. n : f[k] = Step(f, k) BY <2>1
  <2>3. ASSUME NEW k \in 0 .. n + 1 PROVE g[k] = Step(g, k)
    <3>1. CASE k = 0
      <4>1. 0 <= n /\ 0 \in 0 .. n BY SMT
      <4> QED BY <2>2, <3>1, <4>1
    <3>2. CASE k # 0
      <4>1. k - 1 \in 0 .. n /\ k - 1 \in 0 .. n + 1 /\ k - 1 <= n BY <3>2
      <4>2. g[k - 1] = f[k - 1] BY <4>1
      <4>3. g[k] = Step(f, k)
        <5>1. CASE k <= n
          <6>1. k \in 0 .. n BY <5>1
          <6> QED BY <2>2, <5>1, <6>1
        <5>2. CASE ~(k <= n) BY <5>2
        <5> QED BY <5>1, <5>2
      <4> QED BY <3>2, <4>2, <4>3
    <3> QED BY <3>1, <3>2
  <2> HIDE DEF Step
  <2>4. g = [k \in 0 .. n + 1 |-> g[k]] OBVIOUS
  <2> HIDE DEF g
  <2>5. Upto(g, n + 1) BY <2>3, <2>4
  <2> HIDE DEF Upto
  <2>6. \E h : Upto(h, n + 1) BY <2>5
  <2> QED BY <2>6
<1> HIDE DEF T
<1>3. Nat \subseteq T BY <1>1, <1>2, SetInduction
<1> QED BY <1>3 DEF T, Spells

LEMMA CamelCaseIs ==
    ASSUME NEW name, Len(name) \in Nat
    PROVE  \E f : Spells(f, name) /\ lowerCamelCase(name) = f[Len(name)].out
<1> DEFINE spelt[k \in 0 .. Len(name)] ==
        IF k = 0 THEN [out |-> <<>>, cap |-> FALSE] ELSE Camel(spelt[k - 1], name[k], k = 1)
<1>1. spelt = CHOOSE f : Spells(f, name) BY DEF Spells
<1>2. lowerCamelCase(name) = spelt[Len(name)].out BY DEF lowerCamelCase
<1> HIDE DEF spelt
<1>3. Spells(spelt, name) BY <1>1, SpellsExists
<1> QED BY <1>2, <1>3

\* The letters of identifiers, and those that they are changed to.
NoDollar(X) == X \cup DOMAIN UpperCase \cup {UpperCase[x] : x \in DOMAIN UpperCase}

LEMMA LettersChange ==
    ASSUME NEW X, "$" \notin X
    PROVE  /\ "$" \notin NoDollar(X)
           /\ \A c \in X : c \in NoDollar(X) /\ toUpper(c) \in NoDollar(X) /\ toLower(c) \in NoDollar(X)
<1>1. "$" \notin NoDollar(X) BY DEF NoDollar, UpperCase
<1>2. ASSUME NEW c \in X PROVE c \in NoDollar(X) /\ toUpper(c) \in NoDollar(X)
  BY DEF NoDollar, toUpper
<1>3. ASSUME NEW c \in X PROVE toLower(c) \in NoDollar(X)
  <2>1. CASE c \in DOMAIN LowerCase
    <3>1. c \in {UpperCase[x] : x \in DOMAIN UpperCase} BY <2>1 DEF LowerCase
    <3>2. LowerCase[c] = CHOOSE x \in DOMAIN UpperCase : UpperCase[x] = c BY <3>1 DEF LowerCase
    <3>3. \E x \in DOMAIN UpperCase : UpperCase[x] = c BY <3>1
    <3>4. LowerCase[c] \in DOMAIN UpperCase BY <3>2, <3>3
    <3> QED BY <2>1, <3>4 DEF toLower, NoDollar
  <2>2. CASE c \notin DOMAIN LowerCase BY <2>2 DEF toLower, NoDollar
  <2> QED BY <2>1, <2>2
<1> QED BY <1>1, <1>2, <1>3

\* The same for what is spelt so far.
IsSpelt(s, X) == s.out \in Seq(NoDollar(X)) /\ s.cap \in BOOLEAN

LEMMA CamelType ==
    ASSUME NEW X, "$" \notin X, NEW s, IsSpelt(s, X), NEW c \in X, NEW first \in BOOLEAN
    PROVE  IsSpelt(Camel(s, c, first), X)
<1> DEFINE Y == NoDollar(X)
<1>1. c \in Y /\ toUpper(c) \in Y /\ toLower(c) \in Y BY LettersChange
<1>2. s.out \in Seq(Y) /\ s.cap \in BOOLEAN BY DEF IsSpelt
<1> HIDE DEF Y
<1>3. /\ Append(s.out, c) \in Seq(Y) /\ Append(s.out, toUpper(c)) \in Seq(Y)
      /\ Append(s.out, toLower(c)) \in Seq(Y)
  BY <1>1, <1>2
<1>4. Camel(s, c, first).out \in {s.out, Append(s.out, c), Append(s.out, toUpper(c)), Append(s.out, toLower(c))}
      /\ Camel(s, c, first).cap \in BOOLEAN
  <2>1. CASE c = "_" BY <2>1 DEF Camel, Digits
  <2>2. CASE c \in Digits BY <2>2 DEF Camel, Digits
  <2>3. CASE c # "_" /\ c \notin Digits /\ s.cap BY <2>3 DEF Camel
  <2>4. CASE c # "_" /\ c \notin Digits /\ ~s.cap
    <3>1. Camel(s, c, first) = [out |-> Append(s.out, IF first THEN toLower(c) ELSE c), cap |-> FALSE]
      BY <2>4 DEF Camel
    <3> QED BY <3>1
  <2> QED BY <2>1, <2>2, <2>3, <2>4
<1> QED BY <1>2, <1>3, <1>4 DEF IsSpelt, Y

LEMMA CamelCaseType ==
    ASSUME NEW name, IsIdentifier(name)
    PROVE  lowerCamelCase(name) \in Seq(NoDollar(ToSet(name)))
<1> DEFINE X == ToSet(name)
<1>1. "$" \notin X /\ Len(name) \in Nat /\ \A k \in 1 .. Len(name) : name[k] \in X
  BY SequenceFacts DEF IsIdentifier
<1> HIDE DEF X
<1>2. PICK f : Spells(f, name) /\ lowerCamelCase(name) = f[Len(name)].out BY <1>1, CamelCaseIs
<1>3. \A k \in 0 .. Len(name) :
         f[k] = IF k = 0 THEN [out |-> <<>>, cap |-> FALSE] ELSE Camel(f[k - 1], name[k], k = 1)
  BY <1>2 DEF Spells
<1> DEFINE T == {k \in Nat : k \in 0 .. Len(name) => IsSpelt(f[k], X)}
<1>4. 0 \in T
  <2>1. f[0] = [out |-> <<>>, cap |-> FALSE] BY <1>1, <1>3
  <2>2. <<>> \in Seq(NoDollar(X)) OBVIOUS
  <2>3. f[0].out = <<>> /\ f[0].cap = FALSE BY <2>1
  <2>4. IsSpelt(f[0], X) BY <2>2, <2>3 DEF IsSpelt
  <2> QED BY <2>4
<1>5. ASSUME NEW k \in Nat, k \in T PROVE k + 1 \in T
  <2> SUFFICES ASSUME k + 1 \in 0 .. Len(name) PROVE IsSpelt(f[k + 1], X) OBVIOUS
  <2>1. k \in 0 .. Len(name) /\ k + 1 \in 1 .. Len(name) /\ k + 1 # 0 /\ (k + 1) - 1 = k
    BY <1>1
  <2>2. IsSpelt(f[k], X) BY <1>5, <2>1
  <2>3. f[k + 1] = Camel(f[k], name[k + 1], k + 1 = 1) BY <1>3, <2>1
  <2>4. (k + 1 = 1) \in BOOLEAN OBVIOUS
  <2>5. name[k + 1] \in X BY <1>1, <2>1
  <2> QED BY <1>1, <2>2, <2>3, <2>4, <2>5, CamelType
<1> HIDE DEF T
<1>6. Nat \subseteq T BY <1>4, <1>5, SetInduction
<1>7. IsSpelt(f[Len(name)], X)
  <2>1. Len(name) \in T /\ Len(name) \in 0 .. Len(name) BY <1>1, <1>6
  <2> QED BY <2>1 DEF T
<1> QED BY <1>2, <1>7 DEF IsSpelt, X

\* A name to which "$" was added is no other name.
LEMMA EscapedOnce ==
    ASSUME NEW X, NEW Y, "$" \notin X, "$" \notin Y, NEW a \in Seq(X), NEW b \in Seq(Y), NEW reserved,
           Escaped(a, reserved) = Escaped(b, reserved)
    PROVE  a = b
<1> DEFINE Z == X \cup Y \cup {"$"}
<1>1. a \in Seq(Z) /\ b \in Seq(Z) /\ "$" \in Z OBVIOUS
<1>2. ASSUME NEW s \in Seq(Z), NEW e \in Z
      PROVE  Len(Append(s, e)) = Len(s) + 1 /\ Append(s, e)[Len(s) + 1] = e /\ Len(s) \in Nat
  BY AppendProperties
<1>3. a \in Seq(X) /\ b \in Seq(Y) /\ Len(a) \in Nat /\ Len(b) \in Nat
      /\ \A k \in 1 .. Len(a) : a[k] # "$"
  OBVIOUS
<1>4. \A k \in 1 .. Len(b) : b[k] # "$" OBVIOUS
<1> HIDE DEF Z
<1>5. CASE a \in reserved /\ b \in reserved
  <2>1. Append(a, "$") = Append(b, "$") BY <1>5 DEF Escaped
  <2> QED BY <1>1, <2>1, AppendInjective
<1>6. CASE a \in reserved /\ b \notin reserved
  <2>1. Append(a, "$") = b BY <1>6 DEF Escaped
  <2>2. Len(b) = Len(a) + 1 /\ b[Len(a) + 1] = "$" BY <1>1, <1>2, <2>1
  <2> QED BY <1>3, <1>4, <2>2
<1>7. CASE a \notin reserved /\ b \in reserved
  <2>1. Append(b, "$") = a BY <1>7 DEF Escaped
  <2>2. Len(a) = Len(b) + 1 /\ a[Len(b) + 1] = "$" BY <1>1, <1>2, <2>1
  <2> QED BY <1>3, <2>2
<1>8. CASE a \notin reserved /\ b \notin reserved BY <1>8 DEF Escaped
<1> QED BY <1>5, <1>6, <1>7, <1>8

-----------------------------------------------------------------------------
(* Methods.                                                                  *)

MethodDefaults(name) ==
    [localName |-> lowerCamelCase(name), serverStreaming |-> FALSE, clientStreaming |-> FALSE,
     options |-> {}, idempotency |-> "undefined"]

LocalMethod(m) == Escaped(lowerCamelCase(m.letters), ReservedMethods)

\* The information says of a method what the proto file says.
MethodMeans(info, m) ==
    /\ info.name = m.letters /\ info.I = m.I /\ info.O = m.O
    /\ info.serverStreaming = (m.streams \in {"serverStreaming", "duplex"})
    /\ info.clientStreaming = (m.streams \in {"clientStreaming", "duplex"})
    /\ info.localName = LocalMethod(m)
    /\ info.idempotency = IF m.idempotency = "IDEMPOTENCY_UNKNOWN" THEN "undefined" ELSE m.idempotency

MethodKeys == {"name", "I", "O", "localName", "serverStreaming", "clientStreaming", "idempotency"}

LEMMA MethodBuilt ==
    ASSUME NEW registry, NEW o, NEW d, NEW m
    PROVE  LET info == normalizeMethodInfo(buildMethodInfo(registry, o, d, m))
           IN  MethodMeans(info, m) /\ MethodKeys \subseteq DOMAIN info
<1> DEFINE read == readOptions(registry, o, d, "MethodOptions", m.options)
           camel == lowerCamelCase(m.letters)
           local == LocalMethod(m)
           c1 == local # camel
           c2 == m.idempotency # "IDEMPOTENCY_UNKNOWN"
           c3 == m.streams \in {"serverStreaming", "duplex"}
           c4 == m.streams \in {"clientStreaming", "duplex"}
           r0 == [name |-> m.letters, I |-> m.I, O |-> m.O, options |-> read]
           r1 == r0 ++ When(c1, [localName |-> local])
           r2 == r1 ++ When(c2, [idempotency |-> m.idempotency])
           r3 == r2 ++ When(c3, [serverStreaming |-> TRUE])
           r4 == r3 ++ When(c4, [clientStreaming |-> TRUE])
           info == r4 ++ MethodDefaults(r4.name)
<1>1. normalizeMethodInfo(buildMethodInfo(registry, o, d, m)) = info
  BY DEF normalizeMethodInfo, buildMethodInfo, LocalMethod, MethodDefaults
<1>0. c3 \in BOOLEAN /\ c4 \in BOOLEAN OBVIOUS
<1> HIDE DEF c1, c2, c3, c4, read, camel, local
<1>2. DOMAIN r0 = {"name", "I", "O", "options"} /\ r0["name"] = m.letters /\ r0["I"] = m.I /\ r0["O"] = m.O
  OBVIOUS
<1> HIDE DEF r0
<1>3. Sets(r1, r0, "localName", c1, local) BY <1>2, WhenSets
<1> HIDE DEF r1
<1>4. Sets(r2, r1, "idempotency", c2, m.idempotency)
  <2>1. "idempotency" \notin DOMAIN r1 BY <1>2, <1>3 DEF Sets
  <2> QED BY <2>1, WhenSets
<1> HIDE DEF r2
<1>5. Sets(r3, r2, "serverStreaming", c3, TRUE)
  <2>1. "serverStreaming" \notin DOMAIN r2 BY <1>2, <1>3, <1>4 DEF Sets
  <2> QED BY <2>1, WhenSets
<1> HIDE DEF r3
<1>6. Sets(r4, r3, "clientStreaming", c4, TRUE)
  <2>1. "clientStreaming" \notin DOMAIN r3 BY <1>2, <1>3, <1>4, <1>5 DEF Sets
  <2> QED BY <2>1, WhenSets
<1> HIDE DEF r4
<1>7. /\ {"name", "I", "O"} \subseteq DOMAIN r4
      /\ r4["name"] = m.letters /\ r4["I"] = m.I /\ r4["O"] = m.O
  BY <1>2, <1>3, <1>4, <1>5, <1>6 DEF Sets
<1>8. ("localName" \in DOMAIN r4 <=> c1) /\ (c1 => r4["localName"] = local)
  BY <1>2, <1>3, <1>4, <1>5, <1>6 DEF Sets
<1>9. ("idempotency" \in DOMAIN r4 <=> c2) /\ (c2 => r4["idempotency"] = m.idempotency)
  BY <1>2, <1>3, <1>4, <1>5, <1>6 DEF Sets
<1>10. ("serverStreaming" \in DOMAIN r4 <=> c3) /\ (c3 => r4["serverStreaming"] = TRUE)
  BY <1>2, <1>3, <1>4, <1>5, <1>6 DEF Sets
<1>11. ("clientStreaming" \in DOMAIN r4 <=> c4) /\ (c4 => r4["clientStreaming"] = TRUE)
  BY <1>2, <1>3, <1>4, <1>5, <1>6 DEF Sets
<1> DEFINE D == MethodDefaults(r4.name)
<1>12. /\ DOMAIN D = {"localName", "serverStreaming", "clientStreaming", "options", "idempotency"}
       /\ D["localName"] = lowerCamelCase(r4.name) /\ D["serverStreaming"] = FALSE
       /\ D["clientStreaming"] = FALSE /\ D["idempotency"] = "undefined"
  BY DEF MethodDefaults
<1>13. D["localName"] = camel BY <1>7, <1>12 DEF camel
<1> HIDE DEF D
<1>14. Merges(info, r4, D) BY MergeFacts DEF D
<1> HIDE DEF info
<1> USE DEF Merges
<1>15. MethodKeys \subseteq DOMAIN info BY <1>7, <1>12, <1>14 DEF MethodKeys
<1>16. info.name = m.letters /\ info.I = m.I /\ info.O = m.O BY <1>7, <1>14
<1>17. info.localName = local
  <2>1. CASE c1 BY <1>8, <1>14, <2>1
  <2>2. CASE ~c1
    <3>1. local = camel BY <2>2 DEF c1
    <3> QED BY <1>8, <1>12, <1>13, <1>14, <2>2, <3>1
  <2> QED BY <2>1, <2>2
<1>18. info.serverStreaming = c3
  <2>1. CASE c3 BY <1>10, <1>14, <2>1
  <2>2. CASE ~c3
    <3>1. info["serverStreaming"] = FALSE BY <1>10, <1>12, <1>14, <2>2
    <3> QED BY <1>0, <2>2, <3>1
  <2> QED BY <2>1, <2>2
<1>19. info.clientStreaming = c4
  <2>1. CASE c4 BY <1>11, <1>14, <2>1
  <2>2. CASE ~c4
    <3>1. info["clientStreaming"] = FALSE BY <1>11, <1>12, <1>14, <2>2
    <3> QED BY <1>0, <2>2, <3>1
  <2> QED BY <2>1, <2>2
<1>20. info.idempotency = IF c2 THEN m.idempotency ELSE "undefined" BY <1>9, <1>12, <1>14
<1>21. info.idempotency = IF m.idempotency = "IDEMPOTENCY_UNKNOWN" THEN "undefined" ELSE m.idempotency
  BY <1>20 DEF c2
<1> QED BY <1>1, <1>15, <1>16, <1>17, <1>18, <1>19, <1>21 DEF MethodMeans, local, c3, c4

\* What is omitted when the method is printed is what the runtime puts in again.
LEMMA PrintedMethodIsMade ==
    ASSUME NEW info, NEW m, MethodMeans(info, m), MethodKeys \subseteq DOMAIN info
    PROVE  MethodMeans(normalizeMethodInfo(denormalizeMethodInfo(info)), m)
<1> DEFINE printed == denormalizeMethodInfo(info)
           again == normalizeMethodInfo(printed)
           camel == lowerCamelCase(m.letters)
           keys == {x \in {"localName"} : info.localName = lowerCamelCase(info.name)}
                   \cup {x \in {"serverStreaming", "clientStreaming"} : ~info[x]}
                   \cup {x \in {"idempotency"} : info.idempotency = "undefined"}
<1>1. /\ info["name"] = m.letters /\ info["I"] = m.I /\ info["O"] = m.O
      /\ info["serverStreaming"] = (m.streams \in {"serverStreaming", "duplex"})
      /\ info["clientStreaming"] = (m.streams \in {"clientStreaming", "duplex"})
      /\ info["localName"] = LocalMethod(m)
      /\ info["idempotency"] = IF m.idempotency = "IDEMPOTENCY_UNKNOWN" THEN "undefined"
                               ELSE m.idempotency
  BY DEF MethodMeans
<1>2. printed = Without(info, keys) BY DEF denormalizeMethodInfo
<1>3. /\ "localName" \in keys <=> info["localName"] = camel
      /\ "serverStreaming" \in keys <=> ~info["serverStreaming"]
      /\ "clientStreaming" \in keys <=> ~info["clientStreaming"]
      /\ "idempotency" \in keys <=> info["idempotency"] = "undefined"
      /\ "name" \notin keys /\ "I" \notin keys /\ "O" \notin keys
  BY <1>1
<1> HIDE DEF keys
<1>4. DOMAIN printed = DOMAIN info \ keys /\ \A k \in DOMAIN info : k \notin keys => printed[k] = info[k]
  BY <1>2 DEF Without
<1> HIDE DEF printed
<1>5. again = printed ++ MethodDefaults(printed.name) BY DEF normalizeMethodInfo, MethodDefaults
<1> DEFINE D == MethodDefaults(printed.name)
<1>6. printed["name"] = m.letters BY <1>1, <1>3, <1>4 DEF MethodKeys
<1>7. /\ DOMAIN D = {"localName", "serverStreaming", "clientStreaming", "options", "idempotency"}
      /\ D["localName"] = lowerCamelCase(printed.name) /\ D["serverStreaming"] = FALSE
      /\ D["clientStreaming"] = FALSE /\ D["idempotency"] = "undefined"
  BY DEF MethodDefaults
<1>8. D["localName"] = camel BY <1>6, <1>7
<1> HIDE DEF D, camel
<1>9. Merges(again, printed, D) BY <1>5, MergeFacts DEF D
<1> HIDE DEF again
<1> USE DEF Merges
<1>10. \A k \in MethodKeys : k \notin keys => again[k] = info[k] BY <1>4, <1>9
<1>11. \A k \in MethodKeys : k \in keys => k \notin DOMAIN printed BY <1>4
<1>12. again["name"] = m.letters /\ again["I"] = m.I /\ again["O"] = m.O
  BY <1>1, <1>3, <1>10 DEF MethodKeys
<1>13. again["localName"] = info["localName"]
  BY <1>3, <1>7, <1>8, <1>9, <1>10, <1>11 DEF MethodKeys
<1>14. again["serverStreaming"] = info["serverStreaming"]
  <2>1. info["serverStreaming"] \in BOOLEAN BY <1>1
  <2>2. CASE "serverStreaming" \in keys
    <3>1. again["serverStreaming"] = FALSE BY <1>7, <1>9, <1>11, <2>2 DEF MethodKeys
    <3>2. info["serverStreaming"] = FALSE BY <1>3, <2>1, <2>2
    <3> QED BY <3>1, <3>2
  <2>3. CASE "serverStreaming" \notin keys BY <1>10, <2>3 DEF MethodKeys
  <2> QED BY <2>2, <2>3
<1>15. again["clientStreaming"] = info["clientStreaming"]
  <2>1. info["clientStreaming"] \in BOOLEAN BY <1>1
  <2>2. CASE "clientStreaming" \in keys
    <3>1. again["clientStreaming"] = FALSE BY <1>7, <1>9, <1>11, <2>2 DEF MethodKeys
    <3>2. info["clientStreaming"] = FALSE BY <1>3, <2>1, <2>2
    <3> QED BY <3>1, <3>2
  <2>3. CASE "clientStreaming" \notin keys BY <1>10, <2>3 DEF MethodKeys
  <2> QED BY <2>2, <2>3
<1>16. again["idempotency"] = info["idempotency"]
  BY <1>3, <1>7, <1>9, <1>10, <1>11 DEF MethodKeys
<1>17. again["serverStreaming"] = (m.streams \in {"serverStreaming", "duplex"})
  BY <1>1, <1>14
<1>18. again["clientStreaming"] = (m.streams \in {"clientStreaming", "duplex"})
  BY <1>1, <1>15
<1>19. again["localName"] = LocalMethod(m) BY <1>1, <1>13
<1>20. again["idempotency"] = IF m.idempotency = "IDEMPOTENCY_UNKNOWN" THEN "undefined"
                              ELSE m.idempotency
  BY <1>1, <1>16
<1>21. MethodMeans(again, m) BY <1>12, <1>17, <1>18, <1>19, <1>20 DEF MethodMeans
<1> QED BY <1>21 DEF again, printed

LEMMA MethodsMean ==
    ASSUME ProtocAccepts(Registry), NEW d \in TypesOf(Registry) PROVE MethodsAgree(d)
<1> DEFINE methods == MethodsOf(Registry, options, d)
<1>1. TypeAt(Registry, d) = TypeOf(d) /\ IsValid(Registry, TypeOf(d))
  BY TypeFacts DEF TypeAt, TypeOf, Proto, Registry
<1>2. DOMAIN methods = DOMAIN TypeOf(d).methods BY <1>1 DEF MethodsOf
<1>3. ASSUME NEW k \in DOMAIN methods
      PROVE  MethodMeans(methods[k], TypeOf(d).methods[k]) /\ IsIdentifier(TypeOf(d).methods[k].letters)
  <2> DEFINE m == TypeOf(d).methods[k]
             info == normalizeMethodInfo(buildMethodInfo(Registry, options, d, m))
  <2>1. k \in DOMAIN TypeOf(d).methods BY <1>2, <1>3
  <2>2. methods[k] = normalizeMethodInfo(denormalizeMethodInfo(info)) BY <1>1, <2>1 DEF MethodsOf
  <2>3. MethodMeans(info, m) /\ MethodKeys \subseteq DOMAIN info BY MethodBuilt
  <2>4. m \in ToSet(TypeOf(d).methods) BY <2>1 DEF ToSet
  <2> HIDE DEF info, m
  <2>5. MethodMeans(normalizeMethodInfo(denormalizeMethodInfo(info)), m) BY <2>3, PrintedMethodIsMade
  <2>6. IsIdentifier(m.letters) BY <1>1, <2>4 DEF IsValid
  <2> QED BY <2>2, <2>5, <2>6 DEF m
<1>4. ASSUME NEW m, IsIdentifier(m.letters) PROVE LocalMethod(m) \notin ReservedMethods
  <2> DEFINE camel == lowerCamelCase(m.letters)
  <2>1. CASE camel \in ReservedMethods
    <3> DEFINE X == {"t", "S", "$"}
    <3>1. <<"t", "S">> \in Seq(X) /\ Len(<<"t", "S">>) = 2 /\ "$" \in X OBVIOUS
    <3> HIDE DEF X
    <3>2. camel = <<"t", "S">> BY <2>1 DEF ReservedMethods
    <3>3. Len(Append(<<"t", "S">>, "$")) = Len(<<"t", "S">>) + 1 BY <3>1, OneLonger
    <3>4. LocalMethod(m) = Append(<<"t", "S">>, "$") BY <2>1, <3>2 DEF LocalMethod, Escaped
    <3>5. Len(LocalMethod(m)) = 3 BY <3>1, <3>3, <3>4
    <3> QED BY <3>1, <3>5 DEF ReservedMethods
  <2>2. CASE camel \notin ReservedMethods BY <2>2 DEF LocalMethod, Escaped
  <2> QED BY <2>1, <2>2
<1>5. ASSUME NEW k \in DOMAIN methods, NEW l \in DOMAIN methods, methods[k].localName = methods[l].localName
      PROVE  lowerCamelCase(methods[k].name) = lowerCamelCase(methods[l].name)
  <2> DEFINE m == TypeOf(d).methods[k]
             n == TypeOf(d).methods[l]
             X == ToSet(m.letters)
             Y == ToSet(n.letters)
  <2>1. MethodMeans(methods[k], m) /\ MethodMeans(methods[l], n)
        /\ IsIdentifier(m.letters) /\ IsIdentifier(n.letters)
    BY <1>3
  <2> HIDE DEF methods, m, n
  <2>2. LocalMethod(m) = LocalMethod(n) /\ methods[k].name = m.letters /\ methods[l].name = n.letters
    BY <1>5, <2>1 DEF MethodMeans
  <2>3. lowerCamelCase(m.letters) \in Seq(NoDollar(X)) /\ lowerCamelCase(n.letters) \in Seq(NoDollar(Y))
    BY <2>1, CamelCaseType
  <2>4. "$" \notin NoDollar(X) /\ "$" \notin NoDollar(Y)
    <3>1. "$" \notin X /\ "$" \notin Y BY <2>1 DEF IsIdentifier
    <3> QED BY <3>1, LettersChange
  <2> HIDE DEF X, Y
  <2>5. lowerCamelCase(m.letters) = lowerCamelCase(n.letters)
    BY <2>2, <2>3, <2>4, EscapedOnce DEF LocalMethod
  <2> QED BY <2>2, <2>5
<1>6. ASSUME NEW k \in DOMAIN methods
      PROVE  LET info == methods[k]
                 m == TypeOf(d).methods[k]
             IN  /\ info.name = m.letters /\ info.I = m.I /\ info.O = m.O
                 /\ info.serverStreaming <=> m.streams \in {"serverStreaming", "duplex"}
                 /\ info.clientStreaming <=> m.streams \in {"clientStreaming", "duplex"}
                 /\ info.localName \notin ReservedMethods
                 /\ info.idempotency = IF m.idempotency = "IDEMPOTENCY_UNKNOWN" THEN "undefined"
                                       ELSE m.idempotency
  <2> DEFINE m == TypeOf(d).methods[k]
  <2>1. MethodMeans(methods[k], m) /\ LocalMethod(m) \notin ReservedMethods BY <1>3, <1>4
  <2> HIDE DEF methods
  <2> QED BY <2>1 DEF MethodMeans
<1> QED BY <1>5, <1>6 DEF MethodsAgree

-----------------------------------------------------------------------------
(* Enums: the object that has the names and the numbers.                     *)

LEMMA MaxIsIn ==
    ASSUME NEW n \in Nat, NEW S \in SUBSET (1 .. n), S # {}
    PROVE  Max(S) \in S
<1> DEFINE HasMax(U) == \E x \in U : \A y \in U : x >= y
           P == {m \in Nat : \A U \in SUBSET (1 .. m) : U # {} => HasMax(U)}
<1>1. 0 \in P
  <2>1. 1 .. 0 = {} OBVIOUS
  <2>2. \A U \in SUBSET (1 .. 0) : U = {} BY <2>1
  <2> HIDE DEF HasMax
  <2> QED BY <2>2
<1>2. ASSUME NEW m \in Nat, m \in P PROVE m + 1 \in P
  <2> SUFFICES ASSUME NEW U \in SUBSET (1 .. m + 1), U # {} PROVE HasMax(U) OBVIOUS
  <2>1. CASE m + 1 \in U
    <3>1. \A y \in U : m + 1 >= y OBVIOUS
    <3> QED BY <2>1, <3>1
  <2>2. CASE m + 1 \notin U
    <3>1. U \in SUBSET (1 .. m) BY <2>2
    <3> QED BY <1>2, <3>1
  <2> QED BY <2>1, <2>2
<1> HIDE DEF P
<1>3. Nat \subseteq P BY <1>1, <1>2, SetInduction
<1>4. HasMax(S) BY <1>3 DEF P
<1> QED BY <1>4 DEF Max

\* An enum object made of the values A.
ObjectOf(e, A) ==
    /\ DOMAIN e.numbers = {a.name : a \in A} /\ DOMAIN e.names = {a.number : a \in A}
    /\ \A a \in A : e.numbers[a.name] = a.number
    /\ \A x \in DOMAIN e.names : \E a \in A : a.number = x /\ e.names[x] = a.name

LEMMA ObjectMade ==
    ASSUME NEW s, IsSequence(s), \A a, b \in ToSet(s) : a.name = b.name => a = b
    PROVE  ObjectOf(EnumObject(s), ToSet(s))
<1> DEFINE A == ToSet(s)
           e == EnumObject(s)
           Places(x) == {i \in DOMAIN s : s[i].number = x}
<1>1. /\ Len(s) \in Nat /\ DOMAIN s = 1 .. Len(s) /\ \A k \in DOMAIN s : s[k] \in A
      /\ \A a \in A : \E k \in DOMAIN s : a = s[k]
  BY SequenceFacts
<1>2. e.numbers = [n \in {v.name : v \in A} |-> (CHOOSE v \in A : v.name = n).number]
  BY DEF EnumObject
<1>3. e.names = [x \in {v.number : v \in A} |-> s[Max(Places(x))].name]
  BY DEF EnumObject
<1> HIDE DEF A, e
<1>4. ASSUME NEW a \in A PROVE e.numbers[a.name] = a.number
  <2>1. (CHOOSE v \in A : v.name = a.name) = a BY DEF A
  <2> QED BY <1>2, <2>1
<1>5. ASSUME NEW x \in {v.number : v \in A}
      PROVE  \E a \in A : a.number = x /\ e.names[x] = a.name
  <2>1. PICK v \in A : v.number = x BY <1>5
  <2>2. PICK k \in DOMAIN s : v = s[k] BY <1>1
  <2>3. k \in Places(x) BY <2>1, <2>2
  <2>4. Places(x) \in SUBSET (1 .. Len(s)) BY <1>1
  <2>5. Max(Places(x)) \in Places(x) BY <1>1, <2>3, <2>4, MaxIsIn
  <2>6. s[Max(Places(x))] \in A /\ s[Max(Places(x))].number = x BY <1>1, <2>5
  <2>7. e.names[x] = s[Max(Places(x))].name BY <1>3
  <2> HIDE DEF Places
  <2> QED BY <2>6, <2>7
<1>6. DOMAIN e.numbers = {a.name : a \in A} /\ DOMAIN e.names = {a.number : a \in A}
  BY <1>2, <1>3
<1> QED BY <1>4, <1>5, <1>6 DEF ObjectOf, A, e

-----------------------------------------------------------------------------
(* The prefix of the names.                                                  *)

PrefixOf(t) == IF options.keepEnumPrefix THEN <<>> ELSE findEnumSharedPrefix(t)

\* What is left of a name.
RestOf(p, name) == SubSeq(name, Len(p) + 1, Len(name))

LEMMA ShortSequences ==
    ASSUME NEW X, NEW a \in X, NEW b \in X PROVE <<a>> \in Seq(X) /\ <<a, b>> \in Seq(X)
OBVIOUS

LEMMA Joined == ASSUME NEW X, NEW s \in Seq(X), NEW t \in Seq(X) PROVE s \o t \in Seq(X)
OBVIOUS

LEMMA EnumPrefixIsSequence ==
    ASSUME NEW letters, IsSequence(letters) PROVE \E X : EnumPrefix(letters) \in Seq(X)
<1> DEFINE X == ToSet(letters) \cup {toUpper(c) : c \in ToSet(letters)} \cup {"_"}
           Spell(k) == IF k > 1 /\ letters[k] \in DOMAIN LowerCase THEN <<"_", letters[k]>>
                       ELSE <<toUpper(letters[k])>>
           spelt == [k \in DOMAIN letters |-> Spell(k)]
<1>1. Len(letters) \in Nat /\ DOMAIN letters = 1 .. Len(letters) BY SequenceFacts
<1>2. \A k \in DOMAIN letters : letters[k] \in X /\ toUpper(letters[k]) \in X BY DEF ToSet
<1>3. "_" \in X OBVIOUS
<1> HIDE DEF X
<1>4. ASSUME NEW k \in DOMAIN letters PROVE Spell(k) \in Seq(X)
  <2> DEFINE a == letters[k]
             b == toUpper(letters[k])
             c == "_"
  <2>1. a \in X /\ b \in X /\ c \in X BY <1>2, <1>3
  <2>2. Spell(k) = <<c, a>> \/ Spell(k) = <<b>> OBVIOUS
  <2> HIDE DEF Spell, a, b, c
  <2> QED BY <2>1, <2>2, ShortSequences
<1> HIDE DEF Spell
<1>5. spelt \in Seq(Seq(X)) BY <1>1, <1>4
<1>6. EnumPrefix(letters) = FlattenSeq(spelt) \o <<"_">> BY DEF EnumPrefix, Spell
<1> HIDE DEF spelt
<1>7. FlattenSeq(spelt) \in Seq(X) BY <1>5, FlattenType
<1>8. <<"_">> \in Seq(X) BY <1>3, ShortSequences
<1>9. FlattenSeq(spelt) \o <<"_">> \in Seq(X) BY <1>7, <1>8, Joined
<1> QED BY <1>6, <1>9

\* A prefix and the rest are the name again.
IsPrefixOf(p, name) == p \o RestOf(p, name) = name /\ RestOf(p, name) \in Seq(ToSet(name))

LEMMA PrefixAndRest ==
    ASSUME NEW X, NEW p \in Seq(X), NEW name, IsSequence(name), IsPrefix(p, name)
    PROVE  IsPrefixOf(p, name)
<1> DEFINE Y == ToSet(name)
           rest == RestOf(p, name)
<1>1. name \in Seq(Y) /\ Len(name) \in Nat BY SequenceFacts
<1> HIDE DEF Y
<1>2. Len(p) \in Nat /\ Len(p) <= Len(name) /\ SubSeq(p, 1, Len(p)) = SubSeq(name, 1, Len(p))
  BY DEF IsPrefix
<1>3. SubSeq(p, 1, Len(p)) = p OBVIOUS
<1>4. /\ rest \in Seq(Y) /\ Len(rest) = Len(name) - Len(p)
      /\ \A i \in 1 .. Len(name) - Len(p) : rest[i] = name[Len(p) + i]
  BY <1>1, <1>2 DEF RestOf
<1>5. p \in Seq(Y) /\ \A i \in 1 .. Len(p) : p[i] = name[i]
  <2>1. p = SubSeq(name, 1, Len(p)) BY <1>2, <1>3
  <2>2. SubSeq(name, 1, Len(p)) \in Seq(Y) /\ \A i \in 1 .. Len(p) : SubSeq(name, 1, Len(p))[i] = name[i]
    BY <1>1, <1>2
  <2> QED BY <2>1, <2>2
<1> HIDE DEF rest
<1>6. Joins(Y, p, rest) BY <1>4, <1>5, ConcatJoins
<1>7. p \o rest \in Seq(Y) /\ Len(p \o rest) = Len(name)
  BY <1>1, <1>2, <1>4, <1>6 DEF Joins
<1>8. ASSUME NEW i \in 1 .. Len(name) PROVE (p \o rest)[i] = name[i]
  <2>1. i \in 1 .. Len(p) + Len(rest) BY <1>1, <1>2, <1>4
  <2>2. (p \o rest)[i] = IF i <= Len(p) THEN p[i] ELSE rest[i - Len(p)] BY <1>6, <2>1 DEF Joins
  <2>3. CASE i <= Len(p)
    <3>1. i \in 1 .. Len(p) BY <1>2, <2>3
    <3> QED BY <1>5, <2>2, <2>3, <3>1
  <2>4. CASE ~(i <= Len(p))
    <3>1. i - Len(p) \in 1 .. Len(name) - Len(p) /\ Len(p) + (i - Len(p)) = i BY <1>1, <1>2, <2>4
    <3> QED BY <1>4, <2>2, <2>4, <3>1
  <2> QED BY <2>3, <2>4
<1>9. p \o rest = name BY <1>1, <1>7, <1>8, SeqEqual
<1> QED BY <1>4, <1>9 DEF IsPrefixOf, rest, Y

LEMMA PrefixIsShared ==
    ASSUME NEW registry, NEW t, IsValid(registry, t)
    PROVE  \A v \in ToSet(t.values) : IsPrefixOf(PrefixOf(t), v.name)
<1> SUFFICES ASSUME NEW v \in ToSet(t.values) PROVE IsPrefixOf(PrefixOf(t), v.name) OBVIOUS
<1>1. IsSequence(v.name) /\ IsSequence(t.letters) BY DEF IsValid, IsIdentifier
<1>2. CASE PrefixOf(t) = <<>>
  <2>1. <<>> \in Seq(ToSet(v.name)) OBVIOUS
  <2>2. IsPrefix(<<>>, v.name)
    <3>1. v.name \in Seq(ToSet(v.name)) /\ Len(v.name) \in Nat BY <1>1, SequenceFacts
    <3>2. SubSeq(v.name, 1, 0) = <<>> /\ SubSeq(<<>>, 1, 0) = <<>> BY <3>1
    <3> QED BY <3>1, <3>2 DEF IsPrefix
  <2> QED BY <1>1, <1>2, <2>1, <2>2, PrefixAndRest
<1>3. CASE PrefixOf(t) # <<>>
  <2>1. PrefixOf(t) = EnumPrefix(t.letters) /\ IsPrefix(PrefixOf(t), v.name)
    BY <1>3 DEF PrefixOf, findEnumSharedPrefix
  <2>2. PICK X : PrefixOf(t) \in Seq(X) BY <1>1, <2>1, EnumPrefixIsSequence
  <2> QED BY <1>1, <2>1, <2>2, PrefixAndRest
<1> QED BY <1>2, <1>3

-----------------------------------------------------------------------------
(* The values of an enum, under their local names.                           *)

LocalValue(p, v) == [name |-> RestOf(p, v.name), number |-> v.number]
ZeroValue == [name |-> synthesizedZero, number |-> 0]
LacksZero(t) == \A v \in ToSet(t.values) : v.number # 0

LocalValues(t) ==
    {LocalValue(PrefixOf(t), v) : v \in ToSet(t.values)}
    \cup (IF LacksZero(t) THEN {ZeroValue} ELSE {})

\* What both sequences have.
LEMMA JoinedElements ==
    ASSUME NEW X, NEW s \in Seq(X), NEW t \in Seq(X)
    PROVE  IsSequence(s \o t) /\ ToSet(s \o t) = ToSet(s) \cup ToSet(t)
<1>1. Joins(X, s, t) BY ConcatJoins
<1>2. Len(s) \in Nat /\ Len(t) \in Nat /\ DOMAIN s = 1 .. Len(s) /\ DOMAIN t = 1 .. Len(t) OBVIOUS
<1> DEFINE st == s \o t
<1>3. /\ st \in Seq(X) /\ Len(st) = Len(s) + Len(t) /\ DOMAIN st = 1 .. Len(st)
      /\ \A i \in 1 .. Len(s) + Len(t) : st[i] = IF i <= Len(s) THEN s[i] ELSE t[i - Len(s)]
  <2>1. \A u \in Seq(X) : DOMAIN u = 1 .. Len(u) OBVIOUS
  <2> QED BY <1>1, <2>1 DEF Joins
<1> HIDE DEF st
<1>4. IsSequence(st) BY <1>3, SequenceOfItsElements
<1>5. ASSUME NEW i \in DOMAIN st PROVE st[i] \in ToSet(s) \cup ToSet(t)
  <2>1. CASE i <= Len(s)
    <3>1. i \in DOMAIN s /\ st[i] = s[i] BY <1>2, <1>3, <2>1
    <3> QED BY <3>1 DEF ToSet
  <2>2. CASE ~(i <= Len(s))
    <3>1. i - Len(s) \in DOMAIN t /\ st[i] = t[i - Len(s)] BY <1>2, <1>3, <2>2
    <3> QED BY <3>1 DEF ToSet
  <2> QED BY <2>1, <2>2
<1>6. ASSUME NEW i \in DOMAIN s PROVE s[i] \in ToSet(st)
  <2>1. i \in DOMAIN st /\ st[i] = s[i] BY <1>2, <1>3
  <2> QED BY <2>1 DEF ToSet
<1>7. ASSUME NEW i \in DOMAIN t PROVE t[i] \in ToSet(st)
  <2>1. i + Len(s) \in DOMAIN st /\ ~(i + Len(s) <= Len(s)) /\ (i + Len(s)) - Len(s) = i BY <1>2, <1>3
  <2>2. st[i + Len(s)] = t[i] BY <1>2, <1>3, <2>1
  <2> QED BY <2>1, <2>2 DEF ToSet
<1>8. ToSet(st) \subseteq ToSet(s) \cup ToSet(t) BY <1>5 DEF ToSet
<1>9. ToSet(s) \subseteq ToSet(st) BY <1>6 DEF ToSet
<1>10. ToSet(t) \subseteq ToSet(st) BY <1>7 DEF ToSet
<1> QED BY <1>4, <1>8, <1>9, <1>10 DEF st

LEMMA OneElement == ASSUME NEW x PROVE ToSet(<<x>>) = {x} /\ ToSet(<<>>) = {}
BY DEF ToSet

LEMMA Renamed ==
    ASSUME NEW v, NEW n, NEW x, v = [name |-> n, number |-> x], NEW m
    PROVE  [v EXCEPT !.name = m] = [name |-> m, number |-> x]
OBVIOUS

LEMMA EnumBuilt ==
    ASSUME NEW registry, NEW t, IsValid(registry, t)
    PROVE  \E s : /\ IsSequence(s) /\ ToSet(s) = LocalValues(t)
                  /\ buildEnumInfo(options, t) = [prefix |-> PrefixOf(t), object |-> EnumObject(s)]
<1> DEFINE p == PrefixOf(t)
           V == ToSet(t.values)
           Local(v) == [v EXCEPT !.name = SubSeq(@, Len(p) + 1, Len(@))]
           zero == When(LacksZero(t), <<ZeroValue>>)
           local == [k \in DOMAIN t.values |-> Local(t.values[k])]
           X == LocalValues(t)
<1>1. buildEnumInfo(options, t) = [prefix |-> p, object |-> EnumObject(zero \o local)]
  BY DEF buildEnumInfo, PrefixOf, LacksZero, ZeroValue
<1>2. /\ Len(t.values) \in Nat /\ DOMAIN t.values = 1 .. Len(t.values)
      /\ \A k \in DOMAIN t.values : t.values[k] \in V
      /\ \A v \in V : \E k \in DOMAIN t.values : v = t.values[k]
  <2>1. IsSequence(t.values) BY DEF IsValid
  <2> QED BY <2>1, SequenceFacts
<1>3. ASSUME NEW v \in V PROVE Local(v) = LocalValue(p, v)
  <2>1. v = [name |-> v.name, number |-> v.number] BY DEF IsValid
  <2> HIDE DEF p
  <2> DEFINE rest == SubSeq(v.name, Len(p) + 1, Len(v.name))
  <2>2. Local(v) = [v EXCEPT !.name = rest] /\ rest = RestOf(p, v.name) BY DEF RestOf
  <2> HIDE DEF rest, Local
  <2>3. [v EXCEPT !.name = rest] = [name |-> rest, number |-> v.number] BY <2>1, Renamed
  <2> QED BY <2>2, <2>3 DEF LocalValue
<1> HIDE DEF Local
<1>4. \A k \in DOMAIN t.values : local[k] = LocalValue(p, t.values[k]) BY <1>2, <1>3
<1>5. DOMAIN local = 1 .. Len(t.values) BY <1>2
<1>6. \A v \in V : LocalValue(p, v) \in X BY DEF LocalValues
<1>7. local \in Seq(X)
  <2>1. \A k \in 1 .. Len(t.values) : local[k] \in X BY <1>2, <1>4, <1>6
  <2>2. local = [k \in 1 .. Len(t.values) |-> local[k]] BY <1>2
  <2> HIDE DEF local, X
  <2> QED BY <1>2, <2>1, <2>2
<1>8. ToSet(local) = {LocalValue(p, v) : v \in V}
  <2>1. ASSUME NEW x \in ToSet(local) PROVE x \in {LocalValue(p, v) : v \in V}
    <3>1. PICK k \in DOMAIN t.values : x = local[k] BY <1>2, <1>5 DEF ToSet
    <3> HIDE DEF local, V
    <3> QED BY <1>2, <1>4, <3>1
  <2>2. ASSUME NEW v \in V PROVE LocalValue(p, v) \in ToSet(local)
    <3>1. PICK k \in DOMAIN t.values : v = t.values[k] BY <1>2
    <3>2. k \in DOMAIN local /\ local[k] = LocalValue(p, v) BY <1>2, <1>4, <1>5, <3>1
    <3> HIDE DEF local
    <3> QED BY <3>2 DEF ToSet
  <2> HIDE DEF local, V
  <2> QED BY <2>1, <2>2
<1> HIDE DEF local
<1>9. zero \in Seq(X) /\ ToSet(zero) = IF LacksZero(t) THEN {ZeroValue} ELSE {}
  <2>1. CASE LacksZero(t)
    <3>1. zero = <<ZeroValue>> /\ ZeroValue \in X BY <2>1 DEF When, LocalValues
    <3> HIDE DEF zero, X
    <3>2. <<ZeroValue>> \in Seq(X) BY <3>1, ShortSequences
    <3> QED BY <2>1, <3>1, <3>2, OneElement
  <2>2. CASE ~LacksZero(t)
    <3>1. zero = <<>> BY <2>2 DEF When
    <3> HIDE DEF X
    <3>2. <<>> \in Seq(X) OBVIOUS
    <3> QED BY <2>2, <3>1, <3>2, OneElement
  <2> QED BY <2>1, <2>2
<1> HIDE DEF zero, X
<1>10. IsSequence(zero \o local) /\ ToSet(zero \o local) = ToSet(zero) \cup ToSet(local)
  BY <1>7, <1>9, JoinedElements
<1>11. ToSet(zero \o local) = LocalValues(t) BY <1>8, <1>9, <1>10 DEF LocalValues
<1> QED BY <1>1, <1>10, <1>11

\* Local names are different, and none is that of the zero that is added.
LEMMA LocalNames ==
    ASSUME NEW registry, NEW t, IsValid(registry, t)
    PROVE  /\ \A v, w \in ToSet(t.values) :
                 RestOf(PrefixOf(t), v.name) = RestOf(PrefixOf(t), w.name) => v = w
           /\ \A v \in ToSet(t.values) : RestOf(PrefixOf(t), v.name) # synthesizedZero
<1> DEFINE p == PrefixOf(t)
           V == ToSet(t.values)
<1>1. \A v \in V : p \o RestOf(p, v.name) = v.name /\ RestOf(p, v.name) \in Seq(ToSet(v.name))
  BY PrefixIsShared DEF IsPrefixOf
<1>2. ASSUME NEW v \in V, NEW w \in V, RestOf(p, v.name) = RestOf(p, w.name) PROVE v = w
  <2>1. v.name = w.name BY <1>1, <1>2
  <2> QED BY <2>1 DEF IsValid
<1>3. ASSUME NEW v \in V PROVE RestOf(p, v.name) # synthesizedZero
  <2> DEFINE X == ToSet(v.name)
  <2>1. "$" \notin X BY DEF IsValid, IsIdentifier
  <2>2. RestOf(p, v.name) \in Seq(X) BY <1>1
  <2> HIDE DEF X
  <2>3. \A e, s : s \in Seq(X) /\ s = <<e>> => e \in X
    <3> SUFFICES ASSUME NEW e, NEW s \in Seq(X), s = <<e>> PROVE e \in X OBVIOUS
    <3>1. Len(s) = 1 /\ s[1] = e OBVIOUS
    <3> QED BY <3>1
  <2> QED BY <2>1, <2>2, <2>3 DEF synthesizedZero
<1> QED BY <1>2, <1>3

LEMMA SequenceIsFinite ==
    ASSUME NEW s, IsSequence(s) PROVE IsFiniteSet({v.name : v \in ToSet(s)})
<1> DEFINE names == {v.name : v \in ToSet(s)}
           f == [k \in 1 .. Len(s) |-> s[k].name]
<1>1. /\ Len(s) \in Nat /\ DOMAIN s = 1 .. Len(s) /\ \A k \in DOMAIN s : s[k] \in ToSet(s)
      /\ \A v \in ToSet(s) : \E k \in DOMAIN s : v = s[k]
  BY SequenceFacts
<1>2. f \in [1 .. Len(s) -> names] BY <1>1
<1>3. \A n \in names : \E k \in 1 .. Len(s) : f[k] = n BY <1>1
<1> HIDE DEF f
<1>4. f \in Surjection(1 .. Len(s), names) BY <1>2, <1>3 DEF Surjection
<1>5. IsFiniteSet(1 .. Len(s)) BY <1>1, FS_Interval
<1> HIDE DEF names
<1> QED BY <1>4, <1>5, FS_Surjection DEF names

LEMMA NamesCounted ==
    ASSUME NEW registry, NEW t, IsValid(registry, t)
    PROVE  Cardinality({a.name : a \in LocalValues(t)})
             = Cardinality({v.name : v \in ToSet(t.values)}) + (IF LacksZero(t) THEN 1 ELSE 0)
<1> DEFINE p == PrefixOf(t)
           names == {v.name : v \in ToSet(t.values)}
           rests == {RestOf(p, n) : n \in names}
           f == [n \in names |-> RestOf(p, n)]
<1>1. \A v \in ToSet(t.values) : p \o RestOf(p, v.name) = v.name BY PrefixIsShared DEF IsPrefixOf
<1>2. \A m, n \in names : RestOf(p, m) = RestOf(p, n) => m = n BY <1>1
<1>3. synthesizedZero \notin rests BY LocalNames
<1>4. IsFiniteSet(names)
  <2>1. IsSequence(t.values) BY DEF IsValid
  <2> QED BY <2>1, SequenceIsFinite
<1>5. {a.name : a \in LocalValues(t)} = rests \cup (IF LacksZero(t) THEN {synthesizedZero} ELSE {})
  <2> DEFINE all == {a.name : a \in LocalValues(t)}
             added == IF LacksZero(t) THEN {ZeroValue} ELSE {}
             zero == IF LacksZero(t) THEN {synthesizedZero} ELSE {}
  <2>1. \A v \in ToSet(t.values) : LocalValue(p, v).name = RestOf(p, v.name) BY DEF LocalValue
  <2>2. ZeroValue.name = synthesizedZero BY DEF ZeroValue
  <2>3. all = {LocalValue(p, v).name : v \in ToSet(t.values)} \cup {a.name : a \in added}
    BY DEF LocalValues
  <2>4. {LocalValue(p, v).name : v \in ToSet(t.values)} = rests
    <3> HIDE DEF p
    <3> QED BY <2>1
  <2>5. {a.name : a \in added} = zero BY <2>2
  <2> HIDE DEF all, added, zero, rests
  <2>6. all = rests \cup zero BY <2>3, <2>4, <2>5
  <2> QED BY <2>6 DEF all, zero
<1> HIDE DEF names
<1>6. f \in [names -> rests] OBVIOUS
<1>7. \A m, n \in names : f[m] = f[n] => m = n BY <1>2
<1>8. \A r \in rests : \E n \in names : f[n] = r OBVIOUS
<1> HIDE DEF f, rests
<1>9. f \in Bijection(names, rests)
  <2>1. DOMAIN f = names BY <1>6
  <2> QED BY <1>6, <1>7, <1>8, <2>1 DEF Bijection, Injection, Surjection, IsInjective
<1>10. ExistsBijection(names, rests) BY <1>9 DEF ExistsBijection
<1>11. IsFiniteSet(rests) /\ Cardinality(rests) = Cardinality(names) BY <1>4, <1>10, FS_Bijection
<1>12. Cardinality(rests \cup {synthesizedZero}) = Cardinality(rests) + 1 BY <1>3, <1>11, FS_AddElement
<1>13. Cardinality(names) \in Nat BY <1>4, FS_CardinalityType
<1>14. CASE LacksZero(t)
  <2>1. {a.name : a \in LocalValues(t)} = rests \cup {synthesizedZero} BY <1>5, <1>14
  <2> QED BY <1>11, <1>12, <1>14, <2>1 DEF names
<1>15. CASE ~LacksZero(t)
  <2>1. {a.name : a \in LocalValues(t)} = rests BY <1>5, <1>15
  <2>2. Cardinality(names) + 0 = Cardinality(names) BY <1>13
  <2> QED BY <1>11, <1>15, <2>1, <2>2 DEF names
<1> QED BY <1>14, <1>15

\* The numbers of an enum object go to names and back.
LEMMA EnumMeans ==
    ASSUME NEW registry, NEW t, IsValid(registry, t) PROVE EnumAgrees(t)
<1> DEFINE V == ToSet(t.values)
           p == PrefixOf(t)
           A == LocalValues(t)
           names == {v.name : v \in V}
<1>1. PICK s : /\ IsSequence(s) /\ ToSet(s) = A
               /\ buildEnumInfo(options, t) = [prefix |-> p, object |-> EnumObject(s)]
  BY EnumBuilt
<1> DEFINE object == EnumObject(s)
           Number(name) == object.numbers[SubSeq(name, Len(p) + 1, Len(name))]
           JsonName(x) == p \o object.names[x]
<1>2. \A v \in V : p \o RestOf(p, v.name) = v.name BY PrefixIsShared DEF IsPrefixOf
<1>3. \A v \in V : LocalValue(p, v) \in A BY DEF LocalValues
<1>4. LacksZero(t) => ZeroValue \in A BY DEF LocalValues
<1>5. \A a \in A : (\E v \in V : a = LocalValue(p, v)) \/ (LacksZero(t) /\ a = ZeroValue)
  BY DEF LocalValues
<1>6. ASSUME NEW a \in A, NEW b \in A, a.name = b.name PROVE a = b
  <2>1. \A v \in V : LocalValue(p, v).name = RestOf(p, v.name) BY DEF LocalValue
  <2>2. ZeroValue.name = synthesizedZero BY DEF ZeroValue
  <2> QED BY <1>5, <1>6, <2>1, <2>2, LocalNames
<1> HIDE DEF A
<1>7. ObjectOf(object, A) BY <1>1, <1>6, ObjectMade
<1> HIDE DEF object
<1>8. ASSUME NEW v \in V PROVE Number(v.name) = v.number
  <2>1. LocalValue(p, v).name = SubSeq(v.name, Len(p) + 1, Len(v.name))
        /\ LocalValue(p, v).number = v.number
    BY DEF LocalValue, RestOf
  <2> QED BY <1>3, <1>7, <2>1 DEF ObjectOf
<1>9. ASSUME NEW v \in V
      PROVE  JsonName(v.number) \in names /\ Number(JsonName(v.number)) = v.number
  <2>1. LocalValue(p, v) \in A /\ LocalValue(p, v).number = v.number BY <1>3 DEF LocalValue
  <2>2. v.number \in DOMAIN object.names BY <1>7, <2>1 DEF ObjectOf
  <2>3. PICK a \in A : a.number = v.number /\ object.names[v.number] = a.name
    BY <1>7, <2>2 DEF ObjectOf
  <2>4. ~(LacksZero(t) /\ a = ZeroValue)
    <3>1. LacksZero(t) => v.number # 0 BY DEF LacksZero
    <3>2. ZeroValue.number = 0 BY DEF ZeroValue
    <3> QED BY <2>3, <3>1, <3>2
  <2>5. PICK w \in V : a = LocalValue(p, w) BY <1>5, <2>4
  <2>6. a.name = RestOf(p, w.name) /\ a.number = w.number BY <2>5 DEF LocalValue
  <2>7. JsonName(v.number) = w.name BY <1>2, <2>3, <2>6
  <2> HIDE DEF Number, JsonName
  <2> QED BY <1>8, <2>3, <2>6, <2>7
<1>10. isEnumObject(object)
  <2>1. 0 \in DOMAIN object.names
    <3>1. \E a \in A : a.number = 0
      <4>1. CASE LacksZero(t)
        <5>1. ZeroValue.number = 0 BY DEF ZeroValue
        <5> QED BY <1>4, <4>1, <5>1
      <4>2. CASE ~LacksZero(t)
        <5>1. PICK v \in V : v.number = 0 BY <4>2 DEF LacksZero
        <5>2. LocalValue(p, v).number = 0 BY <5>1 DEF LocalValue
        <5> QED BY <1>3, <5>2
      <4> QED BY <4>1, <4>2
    <3> QED BY <1>7, <3>1 DEF ObjectOf
  <2>2. \A x \in DOMAIN object.names : object.numbers[object.names[x]] = x BY <1>7 DEF ObjectOf
  <2>3. \A n \in DOMAIN object.numbers : object.numbers[n] \in DOMAIN object.names
    BY <1>7 DEF ObjectOf
  <2> QED BY <2>1, <2>2, <2>3 DEF isEnumObject
<1>11. Cardinality(DOMAIN object.numbers)
         = Cardinality(names) + (IF \E v \in V : v.number = 0 THEN 0 ELSE 1)
  <2>1. DOMAIN object.numbers = {a.name : a \in A} BY <1>7 DEF ObjectOf
  <2>2. LacksZero(t) <=> ~\E v \in V : v.number = 0 BY DEF LacksZero
  <2>3. Cardinality({a.name : a \in A}) = Cardinality(names) + (IF LacksZero(t) THEN 1 ELSE 0)
    BY NamesCounted DEF A
  <2> QED BY <2>1, <2>2, <2>3
<1>12. buildEnumInfo(options, t).prefix = p /\ buildEnumInfo(options, t).object = object
  BY <1>1 DEF object
<1> QED BY <1>8, <1>9, <1>10, <1>11, <1>12 DEF EnumAgrees

-----------------------------------------------------------------------------
(* What the invariant says of the reflection information.                    *)

LEMMA NoGroupIsInterpreted ==
    ASSUME NEW t, IsSequence(t.fields), NEW k \in DOMAIN Interpreted(t.fields)
    PROVE  Interpreted(t.fields)[k] \in ToSet(t.fields) /\ ~isGroupField(Interpreted(t.fields)[k])
<1> DEFINE X == ToSet(t.fields)
           S == {f \in X : ~isGroupField(f)}
           declared == Interpreted(t.fields)
<1>1. t.fields \in Seq(X) BY SequenceFacts
<1>2. declared = Among(t.fields, S) BY DEF Interpreted
<1> HIDE DEF S, X
<1>3. Among(t.fields, S) \in Seq(X \cap S) BY <1>1, AmongType
<1> HIDE DEF declared
<1>4. declared[k] \in X \cap S BY <1>2, <1>3 DEF declared
<1> QED BY <1>4 DEF S, X, declared

\* The fields that the generated code hands to the runtime.
LEMMA FieldsAre ==
    ASSUME InterpreterInv, NEW d \in DOMAIN messageTypes
    PROVE  LET fields == FieldsOf(messageTypes[d])
               declared == Interpreted(TypeOf(d).fields)
           IN  /\ Len(fields) = Len(declared) /\ Len(fields) \in Nat
               /\ DOMAIN fields = DOMAIN declared /\ DOMAIN fields = 1 .. Len(fields)
               /\ \A k \in DOMAIN fields : k \in DOMAIN declared /\ fields[k] = InfoFor(d, declared[k])
<1> DEFINE made == messageTypes[d].fields
           fields == FieldsOf(messageTypes[d])
           declared == Interpreted(TypeOf(d).fields)
<1>1. /\ made = [k \in DOMAIN declared |->
                   normalizeFieldInfo(buildFieldInfo(Registry, options, d, declared[k]))]
      /\ Len(made) \in Nat /\ DOMAIN made = 1 .. Len(made)
      /\ Len(made) = Len(declared) /\ DOMAIN made = DOMAIN declared
  BY MadeFacts
<1>2. fields = [k \in DOMAIN made |-> normalizeFieldInfo(denormalizeFieldInfo(made[k]))]
  BY DEF FieldsOf
<1> HIDE DEF fields, made, declared
<1>3. DOMAIN fields = 1 .. Len(declared) /\ DOMAIN fields = DOMAIN declared BY <1>1, <1>2
<1>4. Len(fields) = Len(declared) BY <1>1, <1>2, <1>3
<1>5. ASSUME NEW k \in DOMAIN fields
      PROVE  k \in DOMAIN declared /\ fields[k] = InfoFor(d, declared[k])
  <2> DEFINE f == declared[k]
             info == InfoFor(d, f)
  <2>1. k \in DOMAIN made /\ k \in DOMAIN declared BY <1>1, <1>3
  <2>2. made[k] = info BY <1>1, <2>1 DEF InfoFor
  <2>3. fields[k] = normalizeFieldInfo(denormalizeFieldInfo(made[k])) BY <1>2, <2>1
  <2>4. IsInfoFor(info, d, f) BY InfoFacts
  <2> HIDE DEF info, f
  <2>5. normalizeFieldInfo(denormalizeFieldInfo(info)) = info BY <2>4 DEF IsInfoFor
  <2> QED BY <2>1, <2>2, <2>3, <2>5 DEF info, f
<1> QED BY <1>1, <1>3, <1>4, <1>5 DEF fields, declared

LEMMA FieldsMean ==
    ASSUME InterpreterInv, NEW d \in MessagesMade
    PROVE  LET fields == FieldsOf(messageTypes[d])
               declared == Interpreted(TypeOf(d).fields)
           IN  /\ Len(fields) = Len(declared)
               /\ \A k \in DOMAIN fields :
                     /\ fields[k].no = declared[k].no
                     /\ Agrees(d, fields[k], declared[k])
<1> DEFINE fields == FieldsOf(messageTypes[d])
           declared == Interpreted(TypeOf(d).fields)
<1>1. ProtocAccepts(Registry) BY RequestsAssumption DEF InterpreterInv, Registry
<1>2. d \in DOMAIN messageTypes BY DEF MessagesMade
<1>3. d \in TypesOf(Registry) /\ IsValid(Registry, TypeOf(d)) BY <1>2, MadeFacts
<1>4. /\ Len(fields) = Len(declared)
      /\ \A k \in DOMAIN fields : k \in DOMAIN declared /\ fields[k] = InfoFor(d, declared[k])
  BY <1>2, FieldsAre
<1>5. ASSUME NEW k \in DOMAIN fields
      PROVE  fields[k].no = declared[k].no /\ Agrees(d, fields[k], declared[k])
  <2> DEFINE f == declared[k]
  <2>1. k \in DOMAIN declared /\ fields[k] = InfoFor(d, f) BY <1>4
  <2>2. f \in ToSet(TypeOf(d).fields) /\ ~isGroupField(f)
    BY <1>3, <2>1, NoGroupIsInterpreted DEF IsValid
  <2> HIDE DEF f
  <2>3. InfoFor(d, f).no = f.no BY NumberKept DEF InfoFor
  <2>4. Agrees(d, InfoFor(d, f), f) BY <1>1, <1>3, <2>2, FieldAgrees
  <2> QED BY <2>1, <2>3, <2>4 DEF f
<1> QED BY <1>4, <1>5

LEMMA InvMeansReflection == InterpreterInv => ReflectionMeansDescriptor
<1> SUFFICES ASSUME InterpreterInv PROVE ReflectionMeansDescriptor OBVIOUS
<1>0. ProtocAccepts(Registry) BY RequestsAssumption DEF InterpreterInv, Registry
<1>1. ASSUME NEW i \in Protos, NEW d \in ToSet(Descriptors(i))
      PROVE  CASE TypeOf(d).sort = "enum" -> EnumAgrees(TypeOf(d))
               [] TypeOf(d).sort = "service" -> MethodsAgree(d)
               [] OTHER -> TRUE
  <2>1. d \in TypesOf(Registry)
    <3>1. PICK j \in DOMAIN Registry[i].types : d = <<i, j>>
      BY DEF Descriptors, ToSet, Registry, Proto
    <3> QED BY <3>1 DEF TypesOf, Protos, Registry
  <2>2. TypeAt(Registry, d) = TypeOf(d) BY DEF TypeAt, TypeOf, Proto, Registry
  <2>3. IsValid(Registry, TypeOf(d)) BY <1>0, <2>1, <2>2, TypeFacts
  <2>4. EnumAgrees(TypeOf(d)) BY <2>3, EnumMeans
  <2>5. MethodsAgree(d) BY <1>0, <2>1, MethodsMean
  <2> QED BY <2>4, <2>5
<1> QED BY <1>1, FieldsMean DEF ReflectionMeansDescriptor

-----------------------------------------------------------------------------
(* Interfaces: one way to read a field in the interface, the check and       *)
(* create().                                                                 *)

LongTypes == {"STRING", "NUMBER", "BIGINT"}

\* What the information of a field may be.
Shape(info) ==
    /\ info.opt \in BOOLEAN /\ LongTypeOf(info) \in LongTypes
    /\ info.kind \in {"scalar", "enum", "message", "map"}
    /\ IsMember(info) => ~info.opt
    /\ IsRepeated(info) => ~info.opt /\ info.kind # "map"
    /\ info.kind = "map" => ~info.opt
    /\ info.kind = "message" /\ ~IsMember(info) /\ ~IsRepeated(info) => info.opt

\* Of the interface, the type check and create(), each reads the type of a field
\* in the same way.
TypeIn(info) == IF IsRepeated(info) THEN "array" ELSE ElementType(info)

LEMMA SignatureIs ==
    ASSUME NEW info, Shape(info)
    PROVE  /\ createFieldPropertySignature(info)
                = [name |-> info.localName, optional |-> info.opt, type |-> TypeIn(info), cases |-> {}]
           /\ TypeIn(info) \notin {"undefined", "group"}
<1>1. createScalarTypeNode(info.T, LongTypeOf(info)) = TypeOfScalar(info.T, LongTypeOf(info))
  BY DEF createScalarTypeNode, TypeOfScalar, TypeOfLong, LongValueTypes
<1>2. TypeOfScalar(info.T, LongTypeOf(info)) \notin {"undefined", "group"}
  BY DEF Shape, LongTypes, TypeOfScalar, TypeOfLong
<1>3. createFieldPropertySignature(info)
        = [name |-> info.localName, optional |-> info.opt, type |-> TypeIn(info), cases |-> {}]
  BY <1>1 DEF createFieldPropertySignature, TypeIn, ElementType
<1>4. ElementType(info) \notin {"undefined", "group"} BY <1>2 DEF ElementType
<1> QED BY <1>3, <1>4 DEF TypeIn

\* A property that is left out, or has a value.
FieldTakes(info, o) ==
    IF info.localName \in DOMAIN o THEN o[info.localName] = Plain(TypeIn(info)) ELSE info.opt

LEMMA FieldIsChecked ==
    ASSUME NEW info, NEW o, Shape(info), ~IsMember(info),
           info.localName \in DOMAIN o =>
               /\ o[info.localName] = Plain(o[info.localName].value)
               /\ o[info.localName].value # "undefined"
    PROVE  LET v == IF info.localName \in DOMAIN o THEN o[info.localName].value ELSE "undefined"
           IN  FieldTakes(info, o) <=>
                   (Required(info) => info.localName \in DOMAIN o) /\ FieldMatches(info, v)
<1>1. Required(info) <=> ~info.opt BY DEF Shape, Required
<1>2. CASE info.localName \in DOMAIN o
  <2> DEFINE v == o[info.localName].value
  <2>1. FieldMatches(info, v) <=> v = TypeIn(info) BY <1>2 DEF FieldMatches, TypeIn
  <2>2. \A a, b : Plain(a) = Plain(b) <=> a = b
    <3>1. \A a : Plain(a).value = a BY DEF Plain
    <3> QED BY <3>1
  <2>3. o[info.localName] = Plain(TypeIn(info)) <=> v = TypeIn(info) BY <1>2, <2>2
  <2> QED BY <1>2, <2>1, <2>3 DEF FieldTakes
<1>3. CASE info.localName \notin DOMAIN o
  <2>1. info.opt => FieldMatches(info, "undefined") BY DEF FieldMatches, Shape
  <2> QED BY <1>1, <1>3, <2>1 DEF FieldTakes, Shape
<1> QED BY <1>2, <1>3

\* The names of properties, and those in a oneof, tell the fields apart.
NamesDiffer(infos) ==
    /\ \A f, g \in infos : f.localName = g.localName => f = g
    /\ \A f, g \in infos : IsMember(f) /\ ~IsMember(g) => f.oneof # g.localName

AreFields(infos) == NamesDiffer(infos) /\ \A info \in infos : Shape(info)

OneofOf(fields, info) == createOneofADTPropertySignature(fields, info.oneof)

LEMMA MembersAre ==
    ASSUME NEW fields
    PROVE  LET infos == ToSet(fields)
               members == Members(fields)
           IN  /\ \A info \in infos : ~IsMember(info) => createFieldPropertySignature(info) \in members
               /\ \A info \in infos : IsMember(info) => OneofOf(fields, info) \in members
               /\ \A m \in members : \E info \in infos :
                     \/ ~IsMember(info) /\ m = createFieldPropertySignature(info)
                     \/ IsMember(info) /\ m = OneofOf(fields, info)
BY DEF Members, generateMessageInterface, OneofOf

LEMMA OneofIs ==
    ASSUME NEW fields, NEW info
    PROVE  /\ OneofOf(fields, info).name = info.oneof /\ OneofOf(fields, info).type = "group"
           /\ OneofOf(fields, info).optional = FALSE
           /\ OneofOf(fields, info).cases = {createFieldPropertySignature(g) :
                  g \in {i \in ToSet(fields) : IsMember(i) /\ i.oneof = info.oneof}}
BY DEF OneofOf, createOneofADTPropertySignature

LEMMA MembersDiffer ==
    ASSUME NEW fields, AreFields(ToSet(fields)),
           NEW m \in Members(fields), NEW n \in Members(fields), m.name = n.name
    PROVE  m = n
<1> DEFINE infos == ToSet(fields)
<1>1. PICK f \in infos : \/ ~IsMember(f) /\ m = createFieldPropertySignature(f)
                         \/ IsMember(f) /\ m = OneofOf(fields, f)
  BY MembersAre
<1>2. PICK g \in infos : \/ ~IsMember(g) /\ n = createFieldPropertySignature(g)
                         \/ IsMember(g) /\ n = OneofOf(fields, g)
  BY MembersAre
<1>3. createFieldPropertySignature(f).name = f.localName
      /\ createFieldPropertySignature(g).name = g.localName
  BY SignatureIs DEF AreFields
<1>4. OneofOf(fields, f).name = f.oneof /\ OneofOf(fields, g).name = g.oneof BY OneofIs
<1>5. NamesDiffer(infos) BY DEF AreFields
<1> HIDE DEF infos
<1>6. CASE ~IsMember(f) /\ ~IsMember(g) BY <1>1, <1>2, <1>3, <1>5, <1>6 DEF NamesDiffer
<1>7. CASE ~(IsMember(f) <=> IsMember(g)) BY <1>1, <1>2, <1>3, <1>4, <1>5, <1>7 DEF NamesDiffer
<1>8. CASE IsMember(f) /\ IsMember(g)
  <2>1. f.oneof = g.oneof BY <1>1, <1>2, <1>4, <1>8
  <2> QED BY <1>1, <1>2, <1>8, <2>1 DEF OneofOf
<1> QED BY <1>6, <1>7, <1>8

\* What a group has to be.
OneofTakes(infos, info, v) ==
    \/ v.kind = <<>>
    \/ \E g \in infos : /\ IsMember(g) /\ g.oneof = info.oneof
                        /\ v.kind = g.localName /\ v.value = TypeIn(g)

LEMMA OneofIsChecked ==
    ASSUME NEW fields, AreFields(ToSet(fields)), NEW info \in ToSet(fields), IsMember(info), NEW v,
           \/ v.kind = <<>>
           \/ \E g \in ToSet(fields) : IsMember(g) /\ g.oneof = info.oneof /\ v.kind = g.localName
    PROVE  /\ MemberTakes(OneofOf(fields, info), v) <=> OneofTakes(ToSet(fields), info, v)
           /\ GroupMatches(fields, v) <=> OneofTakes(ToSet(fields), info, v)
<1> DEFINE infos == ToSet(fields)
           mine == {i \in infos : IsMember(i) /\ i.oneof = info.oneof}
<1>1. \A g \in infos : /\ createFieldPropertySignature(g).name = g.localName
                       /\ createFieldPropertySignature(g).type = TypeIn(g)
                       /\ TypeIn(g) # "undefined"
  BY SignatureIs DEF AreFields
<1>2. MemberTakes(OneofOf(fields, info), v) <=>
        v.kind = <<>> \/ \E g \in mine : /\ v.kind = createFieldPropertySignature(g).name
                                         /\ v.value = createFieldPropertySignature(g).type
  <2> DEFINE m == OneofOf(fields, info)
  <2>1. m.type = "group" /\ m.cases = {createFieldPropertySignature(g) : g \in mine} BY OneofIs
  <2> HIDE DEF m, mine
  <2>2. MemberTakes(m, v) <=>
          v.kind = <<>> \/ \E c \in m.cases : v.kind = c.name /\ v.value = c.type
    BY <2>1 DEF MemberTakes
  <2> QED BY <2>1, <2>2 DEF m
<1>3. \A f, g \in infos : f.localName = g.localName => f = g BY DEF AreFields, NamesDiffer
<1>4. GroupMatches(fields, v) <=>
        v.kind = <<>> \/ (/\ v.value # "undefined"
                          /\ \E g \in infos : g.localName = v.kind /\ FieldMatches(g, v.value))
  BY DEF GroupMatches
<1>5. v.kind = <<>> \/ \E g \in mine : v.kind = g.localName OBVIOUS
<1> HIDE DEF infos
<1>6. MemberTakes(OneofOf(fields, info), v) <=> OneofTakes(infos, info, v)
  BY <1>1, <1>2 DEF OneofTakes
<1>7. CASE v.kind = <<>> BY <1>4, <1>6, <1>7 DEF OneofTakes, infos
<1>8. CASE v.kind # <<>>
  <2>1. PICK g \in mine : v.kind = g.localName BY <1>5, <1>8
  <2>2. v.value # "undefined" => (FieldMatches(g, v.value) <=> v.value = TypeIn(g))
    BY DEF FieldMatches, TypeIn
  <2>3. GroupMatches(fields, v) <=> v.value # "undefined" /\ FieldMatches(g, v.value)
    BY <1>3, <1>4, <1>8, <2>1
  <2>4. OneofTakes(infos, info, v) <=> v.value = TypeIn(g) BY <1>3, <1>8, <2>1 DEF OneofTakes
  <2> QED BY <1>1, <1>6, <2>1, <2>2, <2>3, <2>4 DEF infos
<1> QED BY <1>7, <1>8

\* An object whose values are those that JavaScript has, and whose oneofs select
\* no field of another one.
IsObject(fields, o) ==
    \A info \in ToSet(fields) :
        /\ ~IsMember(info) /\ info.localName \in DOMAIN o =>
              /\ o[info.localName] = Plain(o[info.localName].value)
              /\ o[info.localName].value # "undefined"
        /\ IsMember(info) /\ info.oneof \in DOMAIN o =>
              \/ o[info.oneof].kind = <<>>
              \/ \E g \in ToSet(fields) : /\ IsMember(g) /\ g.oneof = info.oneof
                                          /\ o[info.oneof].kind = g.localName

HasInterface(fields, o) ==
    /\ DOMAIN o \subseteq {PropertyOf(info) : info \in ToSet(fields)}
    /\ \A info \in ToSet(fields) :
          IF IsMember(info) THEN /\ info.oneof \in DOMAIN o
                                 /\ OneofTakes(ToSet(fields), info, o[info.oneof])
          ELSE FieldTakes(info, o)

LEMMA ConformsIs ==
    ASSUME NEW fields, AreFields(ToSet(fields)), NEW o, IsObject(fields, o)
    PROVE  Conforms(Members(fields), o) <=> HasInterface(fields, o)
<1> DEFINE infos == ToSet(fields)
           members == Members(fields)
           Takes(m) == IF m.name \in DOMAIN o THEN MemberTakes(m, o[m.name]) ELSE m.optional
<1>1. ASSUME NEW info \in infos, ~IsMember(info)
      PROVE  LET m == createFieldPropertySignature(info)
             IN  m.name = PropertyOf(info) /\ (Takes(m) <=> FieldTakes(info, o))
  <2> DEFINE m == createFieldPropertySignature(info)
  <2>1. m.name = info.localName /\ m.optional = info.opt /\ m.type = TypeIn(info) /\ m.type # "group"
    BY SignatureIs DEF AreFields
  <2> HIDE DEF m
  <2>2. Takes(m) <=> FieldTakes(info, o) BY <2>1 DEF FieldTakes, MemberTakes
  <2> QED BY <1>1, <2>1, <2>2 DEF m, PropertyOf
<1>2. ASSUME NEW info \in infos, IsMember(info)
      PROVE  LET m == OneofOf(fields, info)
             IN  /\ m.name = PropertyOf(info)
                 /\ Takes(m) <=> info.oneof \in DOMAIN o /\ OneofTakes(infos, info, o[info.oneof])
  <2> DEFINE m == OneofOf(fields, info)
  <2>1. m.name = info.oneof /\ m.optional = FALSE BY OneofIs
  <2>2. info.oneof \in DOMAIN o =>
          (MemberTakes(m, o[info.oneof]) <=> OneofTakes(infos, info, o[info.oneof]))
    <3> SUFFICES ASSUME info.oneof \in DOMAIN o
                 PROVE  MemberTakes(m, o[info.oneof]) <=> OneofTakes(infos, info, o[info.oneof])
      OBVIOUS
    <3> QED BY <1>2, OneofIsChecked DEF IsObject
  <2> HIDE DEF m, infos
  <2> QED BY <1>2, <2>1, <2>2 DEF m, PropertyOf
<1>3. Conforms(members, o) <=> /\ DOMAIN o \subseteq {m.name : m \in members}
                               /\ \A m \in members : Takes(m)
  BY DEF Conforms
<1>4. /\ \A info \in infos : ~IsMember(info) => createFieldPropertySignature(info) \in members
      /\ \A info \in infos : IsMember(info) => OneofOf(fields, info) \in members
      /\ \A m \in members : \E info \in infos :
            \/ ~IsMember(info) /\ m = createFieldPropertySignature(info)
            \/ IsMember(info) /\ m = OneofOf(fields, info)
  BY MembersAre
<1> HIDE DEF infos, members, Takes
<1>5. {m.name : m \in members} = {PropertyOf(info) : info \in infos}
  <2>1. ASSUME NEW m \in members PROVE \E info \in infos : m.name = PropertyOf(info) BY <1>1, <1>2, <1>4
  <2>2. ASSUME NEW info \in infos PROVE \E m \in members : m.name = PropertyOf(info)
    BY <1>1, <1>2, <1>4
  <2> QED BY <2>1, <2>2
<1>6. (\A m \in members : Takes(m)) <=>
        \A info \in infos :
            IF IsMember(info) THEN info.oneof \in DOMAIN o /\ OneofTakes(infos, info, o[info.oneof])
            ELSE FieldTakes(info, o)
  BY <1>1, <1>2, <1>4
<1> QED BY <1>3, <1>5, <1>6 DEF HasInterface, infos, members

LEMMA IsChecks ==
    ASSUME NEW fields, AreFields(ToSet(fields)), NEW o, IsObject(fields, o)
    PROVE  is(fields, o) <=> HasInterface(fields, o)
<1> DEFINE infos == ToSet(fields)
           V(info) == IF info.localName \in DOMAIN o THEN o[info.localName].value ELSE "undefined"
           Checked(info) ==
               /\ IsMember(info) \/ Required(info) => PropertyOf(info) \in DOMAIN o
               /\ IF IsMember(info) THEN GroupMatches(fields, o[info.oneof])
                  ELSE FieldMatches(info, V(info))
<1>1. is(fields, o) <=> /\ DOMAIN o \subseteq {PropertyOf(info) : info \in infos}
                        /\ \A info \in infos : Checked(info)
  BY DEF is
<1>2. ASSUME NEW info \in infos, ~IsMember(info) PROVE Checked(info) <=> FieldTakes(info, o)
  <2>1. FieldTakes(info, o) <=>
          (Required(info) => info.localName \in DOMAIN o) /\ FieldMatches(info, V(info))
    BY <1>2, FieldIsChecked DEF AreFields, IsObject
  <2> HIDE DEF V
  <2> QED BY <1>2, <2>1 DEF PropertyOf
<1>3. ASSUME NEW info \in infos, IsMember(info)
      PROVE  Checked(info) <=> info.oneof \in DOMAIN o /\ OneofTakes(infos, info, o[info.oneof])
  <2>1. info.oneof \in DOMAIN o =>
          (GroupMatches(fields, o[info.oneof]) <=> OneofTakes(infos, info, o[info.oneof]))
    <3> SUFFICES ASSUME info.oneof \in DOMAIN o
                 PROVE  GroupMatches(fields, o[info.oneof]) <=> OneofTakes(infos, info, o[info.oneof])
      OBVIOUS
    <3> QED BY <1>3, OneofIsChecked DEF IsObject
  <2> HIDE DEF V, infos
  <2> QED BY <1>3, <2>1 DEF PropertyOf
<1> HIDE DEF Checked
<1> QED BY <1>1, <1>2, <1>3 DEF HasInterface

LEMMA CreatedIs ==
    ASSUME NEW fields, Len(fields) \in Nat, DOMAIN fields = 1 .. Len(fields)
    PROVE  LET message == reflectionCreate(fields)
           IN  /\ \A info \in ToSet(fields) : IsCreated(info) => PropertyOf(info) \in DOMAIN message
               /\ \A n \in DOMAIN message : \E info \in ToSet(fields) :
                     IsCreated(info) /\ PropertyOf(info) = n /\ message[n] = Created(info)
<1> DEFINE created == {k \in DOMAIN fields : IsCreated(fields[k])}
           Of(name) == {k \in created : PropertyOf(fields[k]) = name}
           message == reflectionCreate(fields)
<1>1. message = [name \in {PropertyOf(fields[k]) : k \in created} |-> Created(fields[Max(Of(name))])]
  BY DEF reflectionCreate
<1>2. ASSUME NEW info \in ToSet(fields), IsCreated(info) PROVE PropertyOf(info) \in DOMAIN message
  <2>1. PICK k \in DOMAIN fields : info = fields[k] BY DEF ToSet
  <2>2. k \in created BY <1>2, <2>1
  <2> HIDE DEF created, message, Of
  <2> QED BY <1>1, <2>1, <2>2
<1>3. ASSUME NEW n \in DOMAIN message
      PROVE  \E info \in ToSet(fields) :
                 IsCreated(info) /\ PropertyOf(info) = n /\ message[n] = Created(info)
  <2>1. PICK k \in created : PropertyOf(fields[k]) = n
    <3> HIDE DEF created, message, Of
    <3> QED BY <1>1
  <2>2. Of(n) \in SUBSET (1 .. Len(fields)) /\ Of(n) # {} BY <2>1
  <2> DEFINE last == Max(Of(n))
  <2>3. last \in Of(n)
    <3> HIDE DEF Of
    <3> QED BY <2>2, MaxIsIn
  <2> HIDE DEF last
  <2>4. fields[last] \in ToSet(fields) /\ IsCreated(fields[last]) /\ PropertyOf(fields[last]) = n
    BY <2>3 DEF ToSet
  <2>5. message[n] = Created(fields[last])
    <3> HIDE DEF created, message, Of
    <3> QED BY <1>1 DEF last
  <2> QED BY <2>4, <2>5
<1> QED BY <1>2, <1>3

LEMMA PropertyIsTheirs ==
    ASSUME NEW infos, NamesDiffer(infos), NEW f \in infos, NEW g \in infos, PropertyOf(f) = PropertyOf(g)
    PROVE  (IsMember(f) <=> IsMember(g)) /\ (~IsMember(f) => f = g)
BY DEF NamesDiffer, PropertyOf

LEMMA CreatedFits ==
    ASSUME NEW fields, Len(fields) \in Nat, DOMAIN fields = 1 .. Len(fields), AreFields(ToSet(fields))
    PROVE  IsObject(fields, reflectionCreate(fields)) /\ HasInterface(fields, reflectionCreate(fields))
<1> DEFINE infos == ToSet(fields)
           message == reflectionCreate(fields)
<1>0. \A a : Plain(a).value = a /\ Plain(a).kind = <<>> BY DEF Plain
<1>1. /\ \A info \in infos : IsCreated(info) => PropertyOf(info) \in DOMAIN message
      /\ \A n \in DOMAIN message : \E info \in infos :
            IsCreated(info) /\ PropertyOf(info) = n /\ message[n] = Created(info)
  BY CreatedIs
<1> HIDE DEF message
<1>2. ASSUME NEW info \in infos, ~IsMember(info), info.localName \in DOMAIN message
      PROVE  message[info.localName] = Plain(TypeIn(info))
  <2>1. PropertyOf(info) = info.localName BY <1>2 DEF PropertyOf
  <2>2. PICK g \in infos : PropertyOf(g) = info.localName /\ message[info.localName] = Created(g)
    BY <1>1, <1>2
  <2>3. g = info BY <1>2, <2>1, <2>2, PropertyIsTheirs DEF AreFields
  <2>4. Created(info) = Plain(TypeIn(info)) BY <1>2 DEF Created, TypeIn
  <2> QED BY <2>2, <2>3, <2>4
<1>3. ASSUME NEW info \in infos, IsMember(info)
      PROVE  info.oneof \in DOMAIN message /\ message[info.oneof].kind = <<>>
  <2>1. IsCreated(info) BY <1>3 DEF IsCreated, AreFields, Shape
  <2>2. PropertyOf(info) = info.oneof BY <1>3 DEF PropertyOf
  <2>3. info.oneof \in DOMAIN message BY <1>1, <2>1, <2>2
  <2>4. PICK g \in infos : PropertyOf(g) = info.oneof /\ message[info.oneof] = Created(g)
    BY <1>1, <2>3
  <2>5. IsMember(g) BY <1>3, <2>2, <2>4, PropertyIsTheirs DEF AreFields
  <2> QED BY <1>0, <2>3, <2>4, <2>5 DEF Created, Nothing
<1>4. ASSUME NEW info \in infos, ~IsMember(info), info.localName \notin DOMAIN message
      PROVE  info.opt
  <2>1. ~IsCreated(info) BY <1>1, <1>4 DEF PropertyOf
  <2> QED BY <1>4, <2>1 DEF IsCreated, AreFields, Shape
<1>5. \A info \in infos : TypeIn(info) # "undefined" BY SignatureIs DEF AreFields
<1>6. IsObject(fields, message) BY <1>0, <1>2, <1>3, <1>5 DEF IsObject
<1>7. DOMAIN message \subseteq {PropertyOf(info) : info \in infos} BY <1>1
<1> HIDE DEF infos
<1>8. HasInterface(fields, message)
  <2>1. ASSUME NEW info \in infos, IsMember(info) PROVE OneofTakes(infos, info, message[info.oneof])
    BY <1>3, <2>1 DEF OneofTakes
  <2>2. ASSUME NEW info \in infos, ~IsMember(info) PROVE FieldTakes(info, message)
    BY <1>2, <1>4, <2>2 DEF FieldTakes
  <2> QED BY <1>3, <1>7, <2>1, <2>2 DEF HasInterface, infos
<1> QED BY <1>6, <1>8 DEF message

LEMMA ObjectsAre ==
    ASSUME NEW fields, Len(fields) \in Nat, DOMAIN fields = 1 .. Len(fields), AreFields(ToSet(fields)),
           NEW o \in Objects(fields)
    PROVE  IsObject(fields, o)
<1> DEFINE infos == ToSet(fields)
           members == Members(fields)
           Member(n) == CHOOSE m \in members : m.name = n
           message == reflectionCreate(fields)
           Extra == [n \in {<<"$">>} |-> Plain("number")]
<1>0. \A a : Plain(a).value = a /\ Plain(a).kind = <<>> BY DEF Plain
<1>1. CASE \A n \in DOMAIN o : o[n] \in ValuesFor(fields, Member(n))
  <2>1. ASSUME NEW info \in infos, ~IsMember(info), info.localName \in DOMAIN o
        PROVE  /\ o[info.localName] = Plain(o[info.localName].value)
               /\ o[info.localName].value # "undefined"
    <3> DEFINE m == createFieldPropertySignature(info)
    <3>1. m \in members /\ m.name = info.localName /\ m.type # "group"
      BY <2>1, SignatureIs, MembersAre DEF AreFields
    <3> HIDE DEF m
    <3>2. Member(info.localName) = m BY <3>1, MembersDiffer
    <3>3. o[info.localName] \in ValuesFor(fields, m) BY <1>1, <2>1, <3>2
    <3>4. \E v \in JsTypes : o[info.localName] = Plain(v) BY <3>1, <3>3 DEF ValuesFor
    <3> QED BY <1>0, <3>4 DEF JsTypes
  <2>2. ASSUME NEW info \in infos, IsMember(info), info.oneof \in DOMAIN o
        PROVE  \/ o[info.oneof].kind = <<>>
               \/ \E g \in infos : IsMember(g) /\ g.oneof = info.oneof /\ o[info.oneof].kind = g.localName
    <3> DEFINE m == OneofOf(fields, info)
    <3>1. m \in members BY <2>2, MembersAre
    <3>2. /\ m.name = info.oneof /\ m.type = "group"
          /\ m.cases = {createFieldPropertySignature(g) : g \in {i \in infos : IsMember(i) /\ i.oneof = info.oneof}}
      BY OneofIs
    <3> HIDE DEF m
    <3>3. Member(info.oneof) = m BY <3>1, <3>2, MembersDiffer
    <3>4. o[info.oneof] \in ValuesFor(fields, m) BY <1>1, <2>2, <3>3
    <3>5. o[info.oneof] = Nothing \/ \E c \in m.cases : o[info.oneof].kind = c.name
      <4> DEFINE x == o[info.oneof]
      <4>1. x \in ValuesFor(fields, m) BY <3>4
      <4> HIDE DEF x, infos
      <4>2. ValuesFor(fields, m) = {Nothing} \cup
              {[kind |-> c.name, value |-> v] : c \in m.cases, v \in JsTypes \cup {"undefined"}}
        BY <3>2 DEF ValuesFor
      <4>3. x = Nothing \/ \E c \in m.cases, v \in JsTypes \cup {"undefined"} :
                               x = [kind |-> c.name, value |-> v]
        BY <4>1, <4>2
      <4>4. ASSUME NEW c \in m.cases, NEW v \in JsTypes \cup {"undefined"},
                   x = [kind |-> c.name, value |-> v]
            PROVE  x.kind = c.name
        BY <4>4
      <4>5. x = Nothing \/ \E c \in m.cases : x.kind = c.name BY <4>3, <4>4
      <4> QED BY <4>5 DEF x
    <3>6. \A g \in infos : createFieldPropertySignature(g).name = g.localName
      BY SignatureIs DEF AreFields
    <3> QED BY <1>0, <3>2, <3>5, <3>6 DEF Nothing
  <2> QED BY <2>1, <2>2 DEF IsObject
<1>2. CASE o = message ++ Extra
  <2>1. IsObject(fields, message) BY CreatedFits
  <2>2. DOMAIN Extra = {<<"$">>} /\ Extra[<<"$">>] = Plain("number") OBVIOUS
  <2> HIDE DEF message, Extra, Member, members
  <2>3. Merges(o, message, Extra) BY <1>2, MergeFacts
  <2>4. \A n \in DOMAIN o : \/ n \in DOMAIN message /\ o[n] = message[n]
                            \/ o[n] = Plain("number")
    BY <2>2, <2>3 DEF Merges
  <2> QED BY <1>0, <2>1, <2>4 DEF IsObject
<1>3. \/ \A n \in DOMAIN o : o[n] \in ValuesFor(fields, Member(n))
      \/ o = message ++ Extra
  <2> DEFINE Tried == UNION {{x \in [names -> UNION {ValuesFor(fields, m) : m \in members}] :
                   \A n \in names : x[n] \in ValuesFor(fields, Member(n))} :
               names \in SUBSET {m.name : m \in members}}
  <2>1. o \in Tried \cup {message ++ Extra} BY DEF Objects
  <2> HIDE DEF members, message, Extra, Member
  <2>2. o \in Tried => \A n \in DOMAIN o : o[n] \in ValuesFor(fields, Member(n)) OBVIOUS
  <2> HIDE DEF Tried
  <2> QED BY <2>1, <2>2
<1> QED BY <1>1, <1>2, <1>3

LEMMA FieldsAreChecked ==
    ASSUME NEW fields, Len(fields) \in Nat, DOMAIN fields = 1 .. Len(fields), AreFields(ToSet(fields))
    PROVE  LET members == Members(fields)
           IN  /\ \A m, n \in members : m.name = n.name => m = n
               /\ \A o \in Objects(fields) : Conforms(members, o) <=> is(fields, o)
               /\ Conforms(members, reflectionCreate(fields))
<1>1. \A m, n \in Members(fields) : m.name = n.name => m = n BY MembersDiffer
<1>2. ASSUME NEW o \in Objects(fields) PROVE Conforms(Members(fields), o) <=> is(fields, o)
  <2>1. IsObject(fields, o) BY ObjectsAre
  <2> QED BY <2>1, ConformsIs, IsChecks
<1>3. Conforms(Members(fields), reflectionCreate(fields)) BY CreatedFits, ConformsIs
<1> QED BY <1>1, <1>2, <1>3

-----------------------------------------------------------------------------
(* The fields that the interpreter makes are of that shape.                  *)

LEMMA KindIs ==
    ASSUME NEW f
    PROVE  LET type == InfoOfKind(Registry, options, f)
           IN  /\ type.kind \in {"scalar", "enum", "message", "map"}
               /\ type.kind = "map" <=> isMapField(Registry, f)
<1> DEFINE type == InfoOfKind(Registry, options, f)
<1>1. CASE isMapField(Registry, f)
  <2>1. type = [kind |-> "map", K |-> getMapKeyType(Registry, f),
                V |-> InfoOfType(options, MapValue(Registry, f), f.jstype)]
    BY <1>1, KindBuilt
  <2>2. type.kind = "map" BY <2>1
  <2> QED BY <1>1, <2>2
<1>2. CASE ~isMapField(Registry, f)
  <2>1. type = InfoOfType(options, f, f.jstype) BY <1>2, KindBuilt
  <2>2. isScalarField(f) => type.kind = "scalar" BY <2>1, TypeBuilt
  <2>3. isEnumField(f) => type = [kind |-> "enum", of |-> f.of] BY <2>1, TypeBuilt
  <2>4. ~isScalarField(f) /\ ~isEnumField(f) => type = [kind |-> "message", of |-> f.of]
    BY <2>1, TypeBuilt
  <2>5. [kind |-> "enum", of |-> f.of].kind = "enum" /\ [kind |-> "message", of |-> f.of].kind = "message"
    OBVIOUS
  <2> HIDE DEF type
  <2> QED BY <1>2, <2>2, <2>3, <2>4, <2>5 DEF type
<1> QED BY <1>1, <1>2

LEMMA LongTypeIs ==
    ASSUME options.normalLongType \in LongTypes, NEW f
    PROVE  LET type == InfoOfKind(Registry, options, f)
           IN  "L" \in DOMAIN type => type.L \in LongTypes
<1> DEFINE type == InfoOfKind(Registry, options, f)
           L == determineNonDefaultLongType(options, f.type, f.jstype)
<1>1. CASE isMapField(Registry, f)
  <2>1. type = [kind |-> "map", K |-> getMapKeyType(Registry, f),
                V |-> InfoOfType(options, MapValue(Registry, f), f.jstype)]
    BY <1>1, KindBuilt
  <2>2. "L" \notin DOMAIN type BY <2>1
  <2> QED BY <2>2
<1>2. CASE ~isMapField(Registry, f) /\ isScalarField(f)
  <2>1. type = InfoOfType(options, f, f.jstype) BY <1>2, KindBuilt
  <2>2. ("L" \in DOMAIN type <=> "L" \in DOMAIN L) /\ ("L" \in DOMAIN L => type.L = L.L)
    BY <1>2, <2>1, TypeBuilt
  <2>3. "L" \in DOMAIN L => L.L \in LongTypes
    BY DEF determineNonDefaultLongType, When, LongTypes
  <2> QED BY <2>2, <2>3
<1>3. CASE ~isMapField(Registry, f) /\ ~isScalarField(f)
  <2>1. type = InfoOfType(options, f, f.jstype) BY <1>3, KindBuilt
  <2>2. type = [kind |-> "enum", of |-> f.of] \/ type = [kind |-> "message", of |-> f.of]
    BY <1>3, <2>1, TypeBuilt
  <2>3. "L" \notin DOMAIN type BY <2>2
  <2> QED BY <2>3
<1> QED BY <1>1, <1>2, <1>3

LEMMA ShapeIs ==
    ASSUME ProtocAccepts(Registry), options.normalLongType \in LongTypes,
           NEW d \in TypesOf(Registry), NEW f \in ToSet(TypeOf(d).fields)
    PROVE  Shape(InfoFor(d, f))
<1> DEFINE info == InfoFor(d, f)
           type == InfoOfKind(Registry, options, f)
           member == isUserDeclaredOneof(f)
           repeated == isUserDeclaredRepeated(Registry, f)
           opt == (isScalarField(f) \/ isEnumField(f)) /\ isUserDeclaredOptional(Registry, d, f)
           packed == shouldBePackedRepeated(Registry, d, f)
<1>1. /\ "oneof" \in DOMAIN info <=> member
      /\ info.repeat = IF ~repeated THEN "NO" ELSE IF packed THEN "PACKED" ELSE "UNPACKED"
      /\ opt => info.opt = TRUE
      /\ ~opt => info.opt = (~repeated /\ ~member /\ type.kind = "message")
      /\ \A key \in DOMAIN type : info[key] = type[key]
      /\ \A key \in {"kind", "T", "L", "of", "K", "V"} : key \in DOMAIN info <=> key \in DOMAIN type
  <2>1. IsInfoFor(info, d, f) BY InfoFacts
  <2> HIDE DEF info
  <2> QED BY <2>1 DEF IsInfoFor
<1>2. /\ type.kind \in {"scalar", "enum", "message", "map"} /\ "kind" \in DOMAIN type
      /\ type.kind = "map" <=> isMapField(Registry, f)
      /\ isScalarField(f) \/ isEnumField(f) => type.kind # "message"
  BY KindIs, KindBuilt
<1>3. "L" \in DOMAIN type => type["L"] \in LongTypes BY LongTypeIs
<1>4. f.proto3Optional => f.label = "optional"
  <2>1. IsValid(Registry, TypeOf(d))
    BY TypeFacts DEF TypeAt, TypeOf, Proto, Registry, fileOf
  <2> QED BY <2>1 DEF IsValid
<1> HIDE DEF info, type
<1>5. info.kind = type.kind BY <1>1, <1>2
<1>6. LongTypeOf(info) \in LongTypes
  <2>1. "L" \in DOMAIN info => info["L"] \in LongTypes BY <1>1, <1>3
  <2> QED BY <2>1 DEF LongTypeOf, LongTypes
<1>7. opt => ~member /\ f.label = "optional" /\ ~isMapField(Registry, f)
  BY <1>4 DEF isUserDeclaredOptional, isMapField, isScalarField, isEnumField
<1>8. repeated => f.label = "repeated" /\ ~isMapField(Registry, f) BY DEF isUserDeclaredRepeated
<1>9. opt => type.kind # "message" BY <1>2
<1> HIDE DEF opt, member, repeated, packed
<1>10. IsRepeated(info) <=> repeated BY <1>1 DEF IsRepeated
<1>11. IsMember(info) <=> member BY <1>1 DEF IsMember
<1>12. info.opt \in BOOLEAN BY <1>1
<1> QED BY <1>1, <1>2, <1>5, <1>6, <1>7, <1>8, <1>9, <1>10, <1>11, <1>12 DEF Shape, info

-----------------------------------------------------------------------------
(* The type of longs is one of three, whatever parameters are given.         *)

OptionsInv == options.normalLongType \in LongTypes

LEMMA OptionsMade == ASSUME NEW given PROVE makeInternalOptions(given).normalLongType \in LongTypes
<1> DEFINE settings == <<<<"long_type_string", "STRING">>, <<"long_type_number", "NUMBER">>>>
<1>1. SettingsOf("normalLongType") = settings BY DEF SettingsOf, StyleSettings
<1>2. DefaultOptions.normalLongType = "BIGINT" /\ "normalLongType" \in DOMAIN DefaultOptions
  BY DEF DefaultOptions
<1>3. "normalLongType" \notin DOMAIN Flags(given) BY DEF Flags
<1>4. makeInternalOptions(given).normalLongType = Setting(given, settings, "BIGINT")
  <2>1. makeInternalOptions(given)["normalLongType"] =
          Setting(given, SettingsOf("normalLongType"), DefaultOptions["normalLongType"])
    BY <1>2, <1>3 DEF makeInternalOptions
  <2> QED BY <1>1, <1>2, <2>1
<1>5. Setting(given, settings, "BIGINT") \in LongTypes
  <2> DEFINE set == {k \in DOMAIN settings : settings[k][1] \in given}
             last == CHOOSE k \in set : \A l \in set : l <= k
  <2>1. DOMAIN settings = {1, 2} /\ settings[1][2] = "STRING" /\ settings[2][2] = "NUMBER" OBVIOUS
  <2>2. set = {} \/ \E k \in set : \A l \in set : l <= k
    <3>1. set \subseteq {1, 2} BY <2>1
    <3> HIDE DEF set, settings
    <3>2. CASE 2 \in set BY <3>1, <3>2
    <3>3. CASE 2 \notin set BY <3>1, <3>3
    <3> QED BY <3>2, <3>3
  <2>3. set # {} => last \in {1, 2}
    <3> HIDE DEF settings
    <3> QED BY <2>1, <2>2
  <2>4. Setting(given, settings, "BIGINT") = IF set = {} THEN "BIGINT" ELSE settings[last][2]
    BY DEF Setting
  <2> HIDE DEF set, last, settings
  <2> QED BY <2>1, <2>3, <2>4 DEF LongTypes
<1> QED BY <1>4, <1>5

LEMMA OptionsHold ==
    ASSUME InterpreterInv, OptionsInv, [PluginNext]_pluginVars PROVE OptionsInv'
<1>1. CASE Generate /\ pc = "parameters"
  <2>1. ParseOptions BY <1>1 DEF Generate, ParseOptions, RegisterFiles, RegisterSymbols, GenerateInterfaces, GenerateTypes, GenerateHttp, OnlyInterface, FilterFiles, AddHttpClient, AddNamespaces, Respond
  <2>2. options' = options \/ options' = makeInternalOptions(request.parameters)
    BY <2>1 DEF ParseOptions, Fail
  <2> QED BY <2>2, OptionsMade DEF OptionsInv
<1>2. CASE Generate /\ pc # "parameters"
  <2>1. options' = options BY <1>2, GenerateKeeps
  <2> QED BY <2>1 DEF OptionsInv
<1>3. CASE ~Generate
  <2>1. UNCHANGED generateVars BY <1>3 DEF PluginNext, GetMessageType, Interpret, pluginVars
  <2>2. options' = options BY <2>1 DEF generateVars
  <2> QED BY <2>2 DEF OptionsInv
<1> QED BY <1>1, <1>2, <1>3

LEMMA InvMeansInterface == InterpreterInv /\ OptionsInv => (PropertiesDiffer => InterfaceIsChecked)
<1> SUFFICES ASSUME InterpreterInv, OptionsInv, PropertiesDiffer, NEW d \in MessagesMade
             PROVE  LET fields == FieldsOf(messageTypes[d])
                        members == Members(fields)
                    IN  /\ \A m, n \in members : m.name = n.name => m = n
                        /\ \A o \in Objects(fields) : Conforms(members, o) <=> is(fields, o)
                        /\ Conforms(members, reflectionCreate(fields))
  BY DEF InterfaceIsChecked
<1> DEFINE fields == FieldsOf(messageTypes[d])
           t == TypeOf(d)
           declared == Interpreted(t.fields)
<1>0. ProtocAccepts(Registry) BY RequestsAssumption DEF InterpreterInv, Registry
<1>1. d \in DOMAIN messageTypes BY DEF MessagesMade
<1>2. d \in TypesOf(Registry) /\ IsValid(Registry, t) BY <1>1, MadeFacts
<1>3. /\ Len(fields) \in Nat /\ DOMAIN fields = 1 .. Len(fields)
      /\ \A k \in DOMAIN fields : k \in DOMAIN declared /\ fields[k] = InfoFor(d, declared[k])
  BY <1>1, FieldsAre
<1>4. \A k \in DOMAIN declared : declared[k] \in ToSet(t.fields)
  BY <1>2, NoGroupIsInterpreted DEF IsValid
<1> HIDE DEF fields, declared
<1>5. ASSUME NEW info \in ToSet(fields) PROVE \E f \in ToSet(t.fields) : info = InfoFor(d, f)
  BY <1>3, <1>4 DEF ToSet
<1>6. ASSUME NEW f \in ToSet(t.fields)
      PROVE  LET info == InfoFor(d, f)
             IN  /\ info.localName = LocalOf(f.name)
                 /\ IsMember(info) <=> isUserDeclaredOneof(f)
                 /\ IsMember(info) => info.oneof = LocalOf(t.oneofDecl[f.oneof])
  <2> DEFINE info == InfoFor(d, f)
  <2>1. IsInfoFor(info, d, f) BY InfoFacts
  <2> HIDE DEF info
  <2> QED BY <2>1 DEF IsInfoFor, IsMember, info
<1>7. \A info \in ToSet(fields) : Shape(info) BY <1>0, <1>2, <1>5, ShapeIs DEF OptionsInv
<1>8. NamesDiffer(ToSet(fields))
  <2> SUFFICES ASSUME NEW a \in ToSet(fields), NEW b \in ToSet(fields)
               PROVE  /\ a.localName = b.localName => a = b
                      /\ IsMember(a) /\ ~IsMember(b) => a.oneof # b.localName
    BY DEF NamesDiffer
  <2>1. PICK f \in ToSet(t.fields) : a = InfoFor(d, f) BY <1>5
  <2>2. PICK g \in ToSet(t.fields) : b = InfoFor(d, g) BY <1>5
  <2>3. /\ LocalOf(f.name) = LocalOf(g.name) => f = g
        /\ isUserDeclaredOneof(f) /\ ~isUserDeclaredOneof(g) =>
              LocalOf(t.oneofDecl[f.oneof]) # LocalOf(g.name)
    BY DEF PropertiesDiffer
  <2> HIDE DEF t
  <2> QED BY <1>6, <2>1, <2>2, <2>3
<1>9. AreFields(ToSet(fields)) BY <1>7, <1>8 DEF AreFields
<1> QED BY <1>3, <1>9, FieldsAreChecked DEF fields

LEMMA OptionsInit == PluginInit => OptionsInv
<1> SUFFICES ASSUME PluginInit PROVE OptionsInv OBVIOUS
<1>1. options = DefaultOptions BY DEF PluginInit
<1>2. DefaultOptions.normalLongType = "BIGINT" BY DEF DefaultOptions
<1> QED BY <1>1, <1>2 DEF OptionsInv, LongTypes

-----------------------------------------------------------------------------
\* The custom options of messages, fields and methods are the ones that the
\* proto files set and do not exclude, each on the thing it is set on, however
\* the making of one type leads to another and back.
\* (interpreter.ts: getMessageType, readOptions)
THEOREM PluginOptionsAreTheirs == PluginSpec => []OptionsAreTheirs
BY InitHolds, NextHolds, InvMeansOptions, PTL DEF PluginSpec

\* The reflection information of the generated code, as the runtime completes
\* it, says of every field, enum value and method what the proto file says,
\* whatever is omitted when it is printed. (interpreter.ts,
\* field-info-generator.ts, reflection-info.ts of both runtimes)
THEOREM PluginReflectionMeansDescriptor == PluginSpec => []ReflectionMeansDescriptor
BY InitHolds, NextHolds, InvMeansReflection, PTL DEF PluginSpec

\* As long as no two properties of a message have one name, an object has the
\* interface that is generated for a message exactly if the runtime's check says
\* so, and the object that create() makes has it. (message-interface-
\* generator.ts, reflection-type-check.ts, reflection-create.ts)
THEOREM PluginInterfaceIsChecked == PluginSpec => [](PropertiesDiffer => InterfaceIsChecked)
<1>1. InterpreterInv /\ OptionsInv /\ [PluginNext]_pluginVars => (InterpreterInv /\ OptionsInv)'
  BY NextHolds, OptionsHold
<1>2. InterpreterInv /\ OptionsInv => (PropertiesDiffer => InterfaceIsChecked) BY InvMeansInterface
<1> QED BY InitHolds, OptionsInit, <1>1, <1>2, PTL DEF PluginSpec
=============================================================================
