--------------------------- MODULE SequenceLemmas ---------------------------
(* Facts about natural numbers and sequences that several proofs use:        *)
(* induction, and what FlattenSeq makes of the sequences it is given.        *)
EXTENDS Integers, SequencesExt, SequenceTheorems, WellFoundedInduction, TLAPS

(* Induction, as the least element of a set of natural numbers.              *)

LEMMA SetInduction ==
    ASSUME NEW S, 0 \in S, \A n \in Nat : n \in S => n + 1 \in S
    PROVE  Nat \subseteq S
<1> DEFINE R == OpToRel(<, Nat)
           T == Nat \ S
<1> SUFFICES ASSUME T # {} PROVE FALSE OBVIOUS
<1>1. IsWellFoundedOn(R, Nat) BY NatLessThanWellFounded
<1>2. \A m, n \in Nat : m < n => <<m, n>> \in R BY DEF OpToRel
<1>3. T \subseteq Nat OBVIOUS
<1> HIDE DEF R, T
<1>4. PICK m \in T : \A n \in T : <<n, m>> \notin R BY <1>1, <1>3, WFMin
<1>5. m \in Nat /\ m \notin S BY DEF T
<1>6. m # 0 BY <1>5
<1>7. m - 1 \in Nat /\ m - 1 < m /\ (m - 1) + 1 = m BY <1>5, <1>6
<1>8. m - 1 \in T BY <1>5, <1>7 DEF T
<1> QED BY <1>2, <1>4, <1>5, <1>7, <1>8

-----------------------------------------------------------------------------
(* FlattenSeq: its recursion, and that it goes with concatenation.           *)

\* The function that FlattenSeq is defined by.
Flattens(f, s) == f = [i \in 1 .. Len(s) |-> IF i = 1 THEN s[i] ELSE f[i - 1] \o s[i]]

LEMMA FlattensExists ==
    ASSUME NEW s, Len(s) \in Nat PROVE \E f : Flattens(f, s)
<1> DEFINE Upto(f, n) == f = [i \in 1 .. n |-> IF i = 1 THEN s[i] ELSE f[i - 1] \o s[i]]
           S == {n \in Nat : \E f : Upto(f, n)}
<1>1. 0 \in S
  <2> DEFINE nothing == [i \in 1 .. 0 |-> <<>>]
  <2>1. Upto(nothing, 0) OBVIOUS
  <2> QED BY <2>1
<1>2. ASSUME NEW n \in Nat, n \in S PROVE n + 1 \in S
  <2>1. PICK f : Upto(f, n) BY <1>2
  <2> DEFINE g == [i \in 1 .. n + 1 |-> IF i <= n THEN f[i]
                                        ELSE IF i = 1 THEN s[i] ELSE f[i - 1] \o s[i]]
  <2>2. \A i \in 1 .. n : f[i] = IF i = 1 THEN s[i] ELSE f[i - 1] \o s[i] BY <2>1
  <2>3. ASSUME NEW i \in 1 .. n + 1 PROVE g[i] = IF i = 1 THEN s[i] ELSE g[i - 1] \o s[i]
    <3>1. CASE i = 1 BY <2>2, <3>1
    <3>2. CASE i # 1
      <4>1. i - 1 \in 1 .. n BY <3>2
      <4>2. g[i - 1] = f[i - 1] BY <4>1
      <4>3. CASE i <= n
        <5>1. i \in 1 .. n BY <4>3
        <5> QED BY <2>2, <3>2, <4>2, <4>3, <5>1
      <4>4. CASE ~(i <= n) BY <3>2, <4>2, <4>4
      <4> QED BY <4>3, <4>4
    <3> QED BY <3>1, <3>2
  <2>4. Upto(g, n + 1) BY <2>3
  <2> HIDE DEF g, Upto
  <2>5. \E h : Upto(h, n + 1) BY <2>4
  <2> QED BY <2>5
<1> HIDE DEF S
<1>3. Nat \subseteq S BY <1>1, <1>2, SetInduction
<1> QED BY <1>3 DEF S, Flattens

LEMMA FlattenSeqIs ==
    ASSUME NEW s, Len(s) \in Nat \ {0}
    PROVE  \E f : Flattens(f, s) /\ FlattenSeq(s) = f[Len(s)]
<1> DEFINE flatten[i \in 1 .. Len(s)] == IF i = 1 THEN s[i] ELSE flatten[i - 1] \o s[i]
<1>1. flatten = CHOOSE f : Flattens(f, s) BY DEF Flattens
<1>2. FlattenSeq(s) = flatten[Len(s)] BY DEF FlattenSeq
<1> HIDE DEF flatten
<1>3. Flattens(flatten, s) BY <1>1, FlattensExists
<1> QED BY <1>2, <1>3

\* What is known of a concatenation, as one fact.
Joins(X, a, b) ==
    /\ a \o b \in Seq(X) /\ Len(a \o b) = Len(a) + Len(b)
    /\ \A i \in 1 .. Len(a) + Len(b) : (a \o b)[i] = IF i <= Len(a) THEN a[i] ELSE b[i - Len(a)]

LEMMA ConcatJoins == ASSUME NEW X, NEW a \in Seq(X), NEW b \in Seq(X) PROVE Joins(X, a, b)
BY ConcatProperties DEF Joins

LEMMA FlattenEmpty == FlattenSeq(<<>>) = <<>>
BY DEF FlattenSeq

\* What FlattenSeq computes, from the front.
LEMMA FlattensType ==
    ASSUME NEW X, NEW s \in Seq(Seq(X)), NEW f, Flattens(f, s)
    PROVE  \A i \in 1 .. Len(s) : f[i] \in Seq(X)
<1> DEFINE S == {n \in Nat : n \in 1 .. Len(s) => f[n] \in Seq(X)}
<1>1. \A i \in 1 .. Len(s) : f[i] = IF i = 1 THEN s[i] ELSE f[i - 1] \o s[i]
  BY DEF Flattens
<1>2. Len(s) \in Nat /\ \A i \in 1 .. Len(s) : s[i] \in Seq(X) OBVIOUS
<1>3. ASSUME NEW n \in Nat, n \in S PROVE n + 1 \in S
  <2> SUFFICES ASSUME n + 1 \in 1 .. Len(s) PROVE f[n + 1] \in Seq(X) OBVIOUS
  <2>1. CASE n = 0 BY <1>1, <1>2, <2>1
  <2>2. CASE n # 0
    <3>1. n \in 1 .. Len(s) /\ (n + 1) - 1 = n /\ n + 1 # 1 BY <1>2, <2>2
    <3>2. f[n] \in Seq(X) BY <1>3, <3>1
    <3>3. f[n + 1] = f[n] \o s[n + 1] BY <1>1, <3>1
    <3> QED BY <1>2, <3>2, <3>3
  <2> QED BY <2>1, <2>2
<1>4. 0 \in S OBVIOUS
<1> HIDE DEF S
<1>5. Nat \subseteq S BY <1>3, <1>4, SetInduction
<1> QED BY <1>2, <1>5 DEF S

LEMMA FlattenType ==
    ASSUME NEW X, NEW s \in Seq(Seq(X)) PROVE FlattenSeq(s) \in Seq(X)
<1>1. CASE Len(s) = 0
  <2>1. s = <<>> BY <1>1, EmptySeq
  <2>2. FlattenSeq(s) = <<>> BY <2>1, FlattenEmpty
  <2> QED BY <2>2, EmptySeq
<1>2. CASE Len(s) # 0
  <2>1. Len(s) \in Nat \ {0} /\ Len(s) \in 1 .. Len(s) BY <1>2
  <2>2. PICK f : Flattens(f, s) /\ FlattenSeq(s) = f[Len(s)] BY <2>1, FlattenSeqIs
  <2> QED BY <2>1, <2>2, FlattensType
<1> QED BY <1>1, <1>2

LEMMA FlattenAppend ==
    ASSUME NEW X, NEW s \in Seq(Seq(X)), NEW x \in Seq(X)
    PROVE  FlattenSeq(Append(s, x)) = FlattenSeq(s) \o x
<1> DEFINE t == Append(s, x)
<1>1. /\ t \in Seq(Seq(X)) /\ Len(t) = Len(s) + 1 /\ t[Len(s) + 1] = x
      /\ \A i \in 1 .. Len(s) : t[i] = s[i]
      /\ Len(s) \in Nat
  BY AppendProperties
<1> HIDE DEF t
<1>2. PICK g : Flattens(g, t) /\ FlattenSeq(t) = g[Len(s) + 1]
  <2>1. Len(t) \in Nat \ {0} BY <1>1
  <2> QED BY <1>1, <2>1, FlattenSeqIs
<1>3. \A i \in 1 .. Len(s) + 1 : g[i] = IF i = 1 THEN t[i] ELSE g[i - 1] \o t[i]
  BY <1>1, <1>2 DEF Flattens
<1>4. CASE Len(s) = 0
  <2>1. s = <<>> BY <1>4, EmptySeq
  <2>2. FlattenSeq(s) = <<>> BY <2>1, FlattenEmpty
  <2>3. g[1] = x BY <1>1, <1>3, <1>4
  <2>4. <<>> \o x = x BY ConcatEmptySeq
  <2> QED BY <1>2, <1>4, <2>2, <2>3, <2>4 DEF t
<1>5. CASE Len(s) # 0
  <2>1. Len(s) \in Nat \ {0} /\ Len(s) \in 1 .. Len(s) BY <1>1, <1>5
  <2>2. PICK f : Flattens(f, s) /\ FlattenSeq(s) = f[Len(s)] BY <2>1, FlattenSeqIs
  <2>3. \A i \in 1 .. Len(s) : f[i] = IF i = 1 THEN s[i] ELSE f[i - 1] \o s[i]
    BY <2>2 DEF Flattens
  <2> DEFINE S == {n \in Nat : n \in 1 .. Len(s) => g[n] = f[n]}
  <2>4. ASSUME NEW n \in Nat, n \in S PROVE n + 1 \in S
    <3> SUFFICES ASSUME n + 1 \in 1 .. Len(s) PROVE g[n + 1] = f[n + 1] OBVIOUS
    <3>1. n + 1 \in 1 .. Len(s) + 1 /\ t[n + 1] = s[n + 1] BY <1>1
    <3>2. CASE n = 0 BY <1>3, <2>3, <3>1, <3>2
    <3>3. CASE n # 0
      <4>1. n \in 1 .. Len(s) /\ (n + 1) - 1 = n /\ n + 1 # 1 BY <1>1, <3>3
      <4>2. g[n] = f[n] BY <2>4, <4>1
      <4>3. g[n + 1] = g[n] \o t[n + 1] BY <1>3, <3>1, <4>1
      <4>4. f[n + 1] = f[n] \o s[n + 1] BY <2>3, <4>1
      <4> QED BY <3>1, <4>2, <4>3, <4>4
    <3> QED BY <3>2, <3>3
  <2>5. 0 \in S OBVIOUS
  <2> HIDE DEF S
  <2>6. Nat \subseteq S BY <2>4, <2>5, SetInduction
  <2>7. g[Len(s)] = f[Len(s)] BY <2>1, <2>6 DEF S
  <2>8. g[Len(s) + 1] = g[Len(s)] \o x
    <3>1. Len(s) + 1 \in 1 .. Len(s) + 1 /\ (Len(s) + 1) - 1 = Len(s) /\ Len(s) + 1 # 1
      BY <2>1
    <3> QED BY <1>1, <1>3, <3>1
  <2> QED BY <1>2, <2>2, <2>7, <2>8 DEF t
<1> QED BY <1>4, <1>5

LEMMA FlattenOne == ASSUME NEW X, NEW x \in Seq(X) PROVE FlattenSeq(<<x>>) = x
<1>1. <<>> \in Seq(Seq(X)) /\ Append(<<>>, x) = <<x>> OBVIOUS
<1>2. FlattenSeq(<<x>>) = FlattenSeq(<<>>) \o x BY <1>1, FlattenAppend
<1> QED BY <1>2, FlattenEmpty, ConcatEmptySeq

\* Where an induction on sequences goes: to the sequence without its last.
LEMMA SplitLast ==
    ASSUME NEW X, NEW s \in Seq(X), NEW n \in Nat, Len(s) = n + 1
    PROVE  \E r \in Seq(X), x \in X : s = Append(r, x) /\ Len(r) = n
<1> DEFINE r == SubSeq(s, 1, n)
<1>1. r \in Seq(X) /\ Len(r) = n /\ \A i \in 1 .. n : r[i] = s[i] OBVIOUS
<1>2. s[n + 1] \in X OBVIOUS
<1> HIDE DEF r
<1>3. /\ Append(r, s[n + 1]) \in Seq(X) /\ Len(Append(r, s[n + 1])) = n + 1
      /\ Append(r, s[n + 1])[n + 1] = s[n + 1]
      /\ \A i \in 1 .. n : Append(r, s[n + 1])[i] = s[i]
  BY <1>1, <1>2, AppendProperties
<1>4. \A i \in 1 .. n + 1 : s[i] = Append(r, s[n + 1])[i] BY <1>3
<1>5. s = Append(r, s[n + 1]) BY <1>3, <1>4, SeqEqual
<1> QED BY <1>1, <1>2, <1>5

LEMMA ConcatAppend ==
    ASSUME NEW X, NEW s \in Seq(X), NEW t \in Seq(X), NEW x \in X
    PROVE  s \o Append(t, x) = Append(s \o t, x)
OBVIOUS

Associates(a, b, c) == (a \o b) \o c = a \o (b \o c)

LEMMA ConcatAssociates ==
    ASSUME NEW X, NEW a \in Seq(X), NEW b \in Seq(X), NEW c \in Seq(X)
    PROVE  Associates(a, b, c)
BY ConcatAssociative, SMT DEF Associates

LEMMA FlattenConcat ==
    ASSUME NEW X, NEW s \in Seq(Seq(X)), NEW t \in Seq(Seq(X))
    PROVE  FlattenSeq(s \o t) = FlattenSeq(s) \o FlattenSeq(t)
<1> DEFINE S == {n \in Nat : \A u \in Seq(Seq(X)) : Len(u) = n =>
                   FlattenSeq(s \o u) = FlattenSeq(s) \o FlattenSeq(u)}
<1>1. FlattenSeq(s) \in Seq(X) BY FlattenType
<1>2. 0 \in S
  <2> SUFFICES ASSUME NEW u \in Seq(Seq(X)), Len(u) = 0
               PROVE  FlattenSeq(s \o u) = FlattenSeq(s) \o FlattenSeq(u)
    OBVIOUS
  <2>1. u = <<>> BY EmptySeq
  <2>2. s \o u = s /\ FlattenSeq(u) = <<>> BY <2>1, FlattenEmpty, ConcatEmptySeq
  <2> QED BY <1>1, <2>2, ConcatEmptySeq
<1>3. ASSUME NEW n \in Nat, n \in S PROVE n + 1 \in S
  <2> SUFFICES ASSUME NEW u \in Seq(Seq(X)), Len(u) = n + 1
               PROVE  FlattenSeq(s \o u) = FlattenSeq(s) \o FlattenSeq(u)
    OBVIOUS
  <2> HIDE DEF S
  <2>1. PICK r \in Seq(Seq(X)), x \in Seq(X) : u = Append(r, x) /\ Len(r) = n
    BY SplitLast
  <2>2. FlattenSeq(s \o r) = FlattenSeq(s) \o FlattenSeq(r) BY <1>3, <2>1 DEF S
  <2>3. s \o u = Append(s \o r, x) BY <2>1, ConcatAppend
  <2>4. s \o r \in Seq(Seq(X)) OBVIOUS
  <2>5. FlattenSeq(s \o u) = FlattenSeq(s \o r) \o x BY <2>3, <2>4, FlattenAppend
  <2>6. FlattenSeq(u) = FlattenSeq(r) \o x BY <2>1, FlattenAppend
  <2>7. FlattenSeq(r) \in Seq(X) BY FlattenType
  <2>8. Associates(FlattenSeq(s), FlattenSeq(r), x)
    BY <1>1, <2>1, <2>7, ConcatAssociates, Zenon
  <2>9. (FlattenSeq(s) \o FlattenSeq(r)) \o x = FlattenSeq(s) \o (FlattenSeq(r) \o x)
    BY <2>8 DEF Associates
  <2> QED BY <2>2, <2>5, <2>6, <2>9
<1> HIDE DEF S
<1>4. Nat \subseteq S BY <1>2, <1>3, SetInduction
<1>5. Len(t) \in Nat OBVIOUS
<1> QED BY <1>4, <1>5 DEF S

=============================================================================
