------------------------ MODULE UnaryTransportsProofs ------------------------
(* However a response body is cut into chunks, as bytes or as base64 text,   *)
(* the frames that come out are those the server sent; and the promises of a *)
(* unary call, whichever of the two fetch transports made it: each chain,    *)
(* with its own order of checks, errors and rejections, implements the one   *)
(* contract of UnaryCall.                                                    *)
EXTENDS UnaryTransports, SequenceLemmas

-----------------------------------------------------------------------------
(* base64: what is decoded of two parts of a text, the first of whole groups,*)
(* is what is decoded of both together, and decoding undoes encoding.        *)

Char == [group : Seq(Byte), at : 1 .. 4]

\* The groups that a text is decoded from.
Decodes(s) == [g \in 1 .. Len(s) \div 4 |-> s[4 * g].group]

LEMMA DecodesType ==
    ASSUME NEW s \in Seq(Char)
    PROVE  /\ Decodes(s) \in Seq(Seq(Byte)) /\ Len(Decodes(s)) = Len(s) \div 4
           /\ \A g \in 1 .. Len(s) \div 4 : Decodes(s)[g] = s[4 * g].group
           /\ Base64Decode(s) = FlattenSeq(Decodes(s)) /\ Base64Decode(s) \in Seq(Byte)
<1>1. Len(s) \in Nat /\ Len(s) \div 4 \in Nat OBVIOUS
<1>2. ASSUME NEW g \in 1 .. Len(s) \div 4 PROVE s[4 * g].group \in Seq(Byte)
  <2>1. 4 * g \in 1 .. Len(s) BY <1>1
  <2>2. s[4 * g] \in Char BY <2>1, ElementOfSeq
  <2> QED BY <2>2 DEF Char
<1>3. Decodes(s) \in [1 .. Len(s) \div 4 -> Seq(Byte)] BY <1>2 DEF Decodes
<1>4. Decodes(s) \in Seq(Seq(Byte)) /\ Len(Decodes(s)) = Len(s) \div 4 BY <1>1, <1>3
<1>5. Base64Decode(s) = FlattenSeq(Decodes(s)) BY DEF Base64Decode, Decodes
<1>6. Base64Decode(s) \in Seq(Byte) BY <1>4, <1>5, FlattenType
<1> QED BY <1>4, <1>5, <1>6 DEF Decodes

LEMMA DecodeConcat ==
    ASSUME NEW s \in Seq(Char), NEW t \in Seq(Char), Len(s) % 4 = 0
    PROVE  Base64Decode(s \o t) = Base64Decode(s) \o Base64Decode(t)
<1> DEFINE u == s \o t
           m == Len(s) \div 4
           n == Len(t) \div 4
<1>1. /\ u \in Seq(Char) /\ Len(u) = Len(s) + Len(t)
      /\ \A i \in 1 .. Len(s) + Len(t) : u[i] = IF i <= Len(s) THEN s[i] ELSE t[i - Len(s)]
  BY ConcatProperties
<1>2. Len(s) \in Nat /\ Len(t) \in Nat /\ m \in Nat /\ n \in Nat /\ Len(s) = 4 * m
  OBVIOUS
<1> HIDE DEF u
<1>3. Len(u) \div 4 = m + n
  <2>1. \A a, b \in Nat : (4 * a + b) \div 4 = a + b \div 4 OBVIOUS
  <2>2. Len(u) = 4 * m + Len(t) BY <1>1, <1>2
  <2> QED BY <1>2, <2>1, <2>2
<1>4. /\ Decodes(s) \in Seq(Seq(Byte)) /\ Len(Decodes(s)) = m
      /\ Decodes(t) \in Seq(Seq(Byte)) /\ Len(Decodes(t)) = n
      /\ Decodes(u) \in Seq(Seq(Byte)) /\ Len(Decodes(u)) = m + n
  BY <1>1, <1>3, DecodesType
<1>5. /\ \A g \in 1 .. m : Decodes(s)[g] = s[4 * g].group
      /\ \A g \in 1 .. n : Decodes(t)[g] = t[4 * g].group
      /\ \A g \in 1 .. m + n : Decodes(u)[g] = u[4 * g].group
  BY <1>1, <1>3, DecodesType
<1> HIDE DEF m, n
<1>6. /\ Decodes(s) \o Decodes(t) \in Seq(Seq(Byte)) /\ Len(Decodes(s) \o Decodes(t)) = m + n
      /\ \A g \in 1 .. m + n : (Decodes(s) \o Decodes(t))[g] =
           IF g <= m THEN Decodes(s)[g] ELSE Decodes(t)[g - m]
  <2> DEFINE a == Decodes(s)
             b == Decodes(t)
  <2>1. a \in Seq(Seq(Byte)) /\ Len(a) = m /\ b \in Seq(Seq(Byte)) /\ Len(b) = n BY <1>4
  <2> HIDE DEF a, b
  <2>2. /\ a \o b \in Seq(Seq(Byte)) /\ Len(a \o b) = m + n
        /\ \A g \in 1 .. m + n : (a \o b)[g] = IF g <= m THEN a[g] ELSE b[g - m]
    <3>1. Joins(Seq(Byte), a, b) BY <2>1, ConcatJoins
    <3> QED BY <2>1, <3>1 DEF Joins
  <2> QED BY <2>2 DEF a, b
<1>7. ASSUME NEW g \in 1 .. m + n PROVE Decodes(u)[g] = (Decodes(s) \o Decodes(t))[g]
  <2>1. Len(t) >= 4 * n BY <1>2 DEF n
  <2>2. 4 * g \in 1 .. Len(s) + Len(t) BY <1>2, <2>1
  <2>3. CASE g <= m
    <3>1. u[4 * g] = s[4 * g] BY <1>1, <1>2, <2>2, <2>3
    <3>2. g \in 1 .. m BY <1>2, <2>3
    <3> QED BY <1>5, <1>6, <2>3, <3>1, <3>2
  <2>4. CASE ~(g <= m)
    <3>1. ~(4 * g <= Len(s)) /\ 4 * g - Len(s) = 4 * (g - m) BY <1>2, <2>4
    <3>2. u[4 * g] = t[4 * (g - m)] BY <1>1, <2>2, <3>1
    <3>3. g - m \in 1 .. n BY <1>2, <2>4
    <3> QED BY <1>5, <1>6, <2>4, <3>2, <3>3
  <2> QED BY <2>3, <2>4
<1>8. Decodes(u) = Decodes(s) \o Decodes(t) BY <1>4, <1>6, <1>7, SeqEqual
<1>9. FlattenSeq(Decodes(u)) = FlattenSeq(Decodes(s)) \o FlattenSeq(Decodes(t))
  BY <1>4, <1>8, FlattenConcat
<1> QED BY <1>1, <1>9, DecodesType DEF u

\* Sequences of four, one after the other: the last of each is at its place.
LEMMA FlattenFours ==
    ASSUME NEW X, NEW s \in Seq(Seq(X)), \A g \in 1 .. Len(s) : Len(s[g]) = 4
    PROVE  /\ Len(FlattenSeq(s)) = 4 * Len(s)
           /\ \A g \in 1 .. Len(s) : FlattenSeq(s)[4 * g] = s[g][4]
<1> DEFINE Fours(u) == \A g \in 1 .. Len(u) : Len(u[g]) = 4
           Joined(u) == /\ Len(FlattenSeq(u)) = 4 * Len(u)
                        /\ \A g \in 1 .. Len(u) : FlattenSeq(u)[4 * g] = u[g][4]
           S == {n \in Nat : \A u \in Seq(Seq(X)) : Len(u) = n /\ Fours(u) => Joined(u)}
<1>1. 0 \in S
  <2> SUFFICES ASSUME NEW u \in Seq(Seq(X)), Len(u) = 0 PROVE Joined(u) OBVIOUS
  <2>1. u = <<>> BY EmptySeq
  <2>2. FlattenSeq(u) = <<>> BY <2>1, FlattenEmpty
  <2> QED BY <2>2
<1>2. ASSUME NEW n \in Nat, n \in S PROVE n + 1 \in S
  <2> SUFFICES ASSUME NEW u \in Seq(Seq(X)), Len(u) = n + 1, Fours(u) PROVE Joined(u)
    OBVIOUS
  <2>1. PICK r \in Seq(Seq(X)), x \in Seq(X) : u = Append(r, x) /\ Len(r) = n
    BY SplitLast
  <2>2. u[n + 1] = x /\ \A g \in 1 .. n : u[g] = r[g] BY <2>1, AppendProperties
  <2>3. Len(x) = 4 /\ Fours(r)
    <3>1. n + 1 \in 1 .. n + 1 /\ \A g \in 1 .. n : g \in 1 .. n + 1 OBVIOUS
    <3> QED BY <2>1, <2>2, <3>1
  <2>4. Joined(r) BY <1>2, <2>1, <2>3
  <2>5. FlattenSeq(u) = FlattenSeq(r) \o x BY <2>1, FlattenAppend
  <2>6. FlattenSeq(r) \in Seq(X) /\ Len(FlattenSeq(r)) = 4 * n BY <2>1, <2>4, FlattenType
  <2>7. /\ Len(FlattenSeq(u)) = 4 * n + 4
        /\ \A i \in 1 .. 4 * n + 4 : FlattenSeq(u)[i] =
             IF i <= 4 * n THEN FlattenSeq(r)[i] ELSE x[i - 4 * n]
    <3> DEFINE a == FlattenSeq(r)
    <3>1. a \in Seq(X) /\ Len(a) = 4 * n BY <2>6
    <3> HIDE DEF a, S, Fours, Joined
    <3>0. /\ Len(a \o x) = Len(a) + Len(x)
          /\ \A i \in 1 .. Len(a) + Len(x) : (a \o x)[i] = IF i <= Len(a) THEN a[i] ELSE x[i - Len(a)]
      <4>1. Joins(X, a, x) BY <2>1, <3>1, ConcatJoins
      <4> QED BY <4>1 DEF Joins
    <3>2. /\ Len(a \o x) = 4 * n + 4
          /\ \A i \in 1 .. 4 * n + 4 : (a \o x)[i] = IF i <= 4 * n THEN a[i] ELSE x[i - 4 * n]
      BY <2>3, <3>0, <3>1
    <3> QED BY <2>5, <3>2 DEF a
  <2>8. ASSUME NEW g \in 1 .. n + 1 PROVE FlattenSeq(u)[4 * g] = u[g][4]
    <3>1. 4 * g \in 1 .. 4 * n + 4 OBVIOUS
    <3>2. CASE g = n + 1
      <4>1. ~(4 * g <= 4 * n) /\ 4 * g - 4 * n = 4 BY <3>2
      <4> QED BY <2>2, <2>7, <3>1, <3>2, <4>1
    <3>3. CASE g # n + 1
      <4>1. g \in 1 .. n /\ 4 * g <= 4 * n BY <3>3
      <4>2. FlattenSeq(u)[4 * g] = FlattenSeq(r)[4 * g] BY <2>7, <3>1, <4>1
      <4>3. FlattenSeq(r)[4 * g] = r[g][4] BY <2>1, <2>4, <4>1
      <4> QED BY <2>2, <4>1, <4>2, <4>3
    <3> QED BY <3>2, <3>3
  <2> QED BY <2>7, <2>8
<1> HIDE DEF S
<1>3. Nat \subseteq S BY <1>1, <1>2, SetInduction
<1>4. Len(s) \in Nat /\ Fours(s) OBVIOUS
<1> QED BY <1>3, <1>4 DEF S

-----------------------------------------------------------------------------
(* Sequences that are made by a function, and parts of sequences.            *)

LEMMA FunSeq ==
    ASSUME NEW X, NEW n \in Nat, NEW f \in [1 .. n -> X]
    PROVE  f \in Seq(X) /\ Len(f) = n
OBVIOUS

LEMMA PartType ==
    ASSUME NEW X, NEW s \in Seq(X), NEW m \in Nat, NEW n \in 0 .. Len(s)
    PROVE  /\ SubSeq(s, m + 1, n) \in Seq(X)
           /\ Len(SubSeq(s, m + 1, n)) = IF m <= n THEN n - m ELSE 0
<1>1. \A i \in m + 1 .. n : i \in 1 .. Len(s) OBVIOUS
<1>2. \A i \in m + 1 .. n : s[i] \in X BY <1>1, ElementOfSeq
<1> QED BY <1>2, SubSeqProperties

LEMMA FrontAppend ==
    ASSUME NEW X, NEW s \in Seq(X), NEW n \in Nat, n + 1 <= Len(s)
    PROVE  SubSeq(s, 1, n + 1) = Append(SubSeq(s, 1, n), s[n + 1])
<1>1. Len(s) \in Nat /\ n + 1 \in 1 .. Len(s) /\ 1 \in 1 .. Len(s) /\ n + 1 \in 1 .. Len(s)
      /\ (n + 1) - 1 = n /\ n \in 0 .. Len(s) /\ 0 \in Nat /\ 0 + 1 = 1
  OBVIOUS
<1>2. SubSeq(s, 1, n + 1) = SubSeq(s, 1, n) \o <<s[n + 1]>> BY <1>1, SubSeqRecursiveSecond
<1>3. s[n + 1] \in X BY <1>1, ElementOfSeq
<1>4. SubSeq(s, 1, n) \in Seq(X) BY <1>1, PartType
<1> QED BY <1>2, <1>3, <1>4, AppendIsConcat

LEMMA FlattenFront ==
    ASSUME NEW X, NEW p \in Seq(Seq(X)), NEW n \in Nat, n + 1 <= Len(p)
    PROVE  /\ FlattenSeq(SubSeq(p, 1, n + 1)) = FlattenSeq(SubSeq(p, 1, n)) \o p[n + 1]
           /\ FlattenSeq(SubSeq(p, 1, n)) \in Seq(X) /\ p[n + 1] \in Seq(X)
<1>1. Len(p) \in Nat BY LenProperties
<1>2. n \in 0 .. Len(p) /\ n + 1 \in 1 .. Len(p) /\ 0 \in Nat /\ 0 + 1 = 1 BY <1>1
<1>3. SubSeq(p, 1, n) \in Seq(Seq(X)) BY <1>2, PartType
<1>4. p[n + 1] \in Seq(X) BY <1>2, ElementOfSeq
<1>5. SubSeq(p, 1, n + 1) = Append(SubSeq(p, 1, n), p[n + 1]) BY FrontAppend
<1> QED BY <1>3, <1>4, <1>5, FlattenAppend, FlattenType

\* A sequence that is cut into pieces, put together again.
LEMMA PiecesFlatten ==
    ASSUME NEW X, NEW s \in Seq(X), NEW p \in Seq(Seq(X)), NEW cut,
           cut[0] = 0, cut[Len(p)] = Len(s),
           \A i \in 0 .. Len(p) : cut[i] \in 0 .. Len(s),
           \A i \in 1 .. Len(p) : /\ cut[i - 1] <= cut[i]
                                  /\ p[i] = SubSeq(s, cut[i - 1] + 1, cut[i])
    PROVE  FlattenSeq(p) = s
<1> DEFINE S == {n \in Nat : n <= Len(p) =>
                   FlattenSeq(SubSeq(p, 1, n)) = SubSeq(s, 1, cut[n])}
<1>1. Len(s) \in Nat /\ Len(p) \in Nat BY LenProperties
<1>2. 0 \in S
  <2>1. SubSeq(p, 1, 0) = <<>> /\ SubSeq(s, 1, cut[0]) = <<>> BY SubSeqEmpty
  <2> QED BY <2>1, FlattenEmpty
<1>3. ASSUME NEW n \in Nat, n \in S PROVE n + 1 \in S
  <2> SUFFICES ASSUME n + 1 <= Len(p)
               PROVE  FlattenSeq(SubSeq(p, 1, n + 1)) = SubSeq(s, 1, cut[n + 1])
    OBVIOUS
  <2>1. FlattenSeq(SubSeq(p, 1, n)) = SubSeq(s, 1, cut[n]) BY <1>1, <1>3
  <2> HIDE DEF S
  <2>2. n \in 0 .. Len(p) /\ n + 1 \in 1 .. Len(p) /\ n + 1 \in 0 .. Len(p)
        /\ (n + 1) - 1 = n /\ 0 \in Nat /\ 0 + 1 = 1
    BY <1>1
  <2>3. p[n + 1] \in Seq(X) /\ p[n + 1] = SubSeq(s, cut[n] + 1, cut[n + 1])
    BY <2>2, ElementOfSeq
  <2>4. cut[n] \in 0 .. Len(s) /\ cut[n + 1] \in cut[n] .. Len(s)
    <3>1. cut[n] <= cut[n + 1] BY <2>2
    <3> QED BY <1>1, <2>2, <3>1
  <2>5. FlattenSeq(SubSeq(p, 1, n + 1)) = FlattenSeq(SubSeq(p, 1, n)) \o p[n + 1]
    BY FlattenFront
  <2>6. SubSeq(s, 1, cut[n]) \o SubSeq(s, cut[n] + 1, cut[n + 1]) = SubSeq(s, 1, cut[n + 1])
    <3>1. 1 \in 1 .. Len(s) + 1 /\ cut[n] \in 1 - 1 .. Len(s) BY <1>1, <2>4
    <3> QED BY <2>4, <3>1, ConcatAdjacentSubSeq
  <2> QED BY <2>1, <2>3, <2>5, <2>6
<1> HIDE DEF S
<1>4. Nat \subseteq S BY <1>2, <1>3, SetInduction
<1>5. FlattenSeq(SubSeq(p, 1, Len(p))) = SubSeq(s, 1, Len(s)) BY <1>1, <1>4 DEF S
<1> QED BY <1>5, SubSeqFull

LEMMA GroupsFlatten ==
    ASSUME NEW s \in Seq(Byte)
    PROVE  /\ Groups(s) \in Seq(Seq(Byte)) /\ Len(Groups(s)) = (Len(s) + 2) \div 3
           /\ FlattenSeq(Groups(s)) = s
<1> DEFINE k == (Len(s) + 2) \div 3
           upTo(i) == IF 3 * i > Len(s) THEN Len(s) ELSE 3 * i
           cut == [i \in 0 .. k |-> upTo(i)]
<1>1. Len(s) \in Nat BY LenProperties
<1>2. k \in Nat /\ 3 * k >= Len(s) /\ \A g \in 1 .. k : 3 * g - 2 <= Len(s)
  BY <1>1
<1>3. \A i \in 0 .. k : cut[i] = upTo(i) /\ upTo(i) \in 0 .. Len(s)
  BY <1>1
<1>4. ASSUME NEW g \in 1 .. k
      PROVE  g \in 0 .. k /\ g - 1 \in 0 .. k /\ upTo(g - 1) = 3 * (g - 1) /\ upTo(g - 1) <= upTo(g)
             /\ 3 * g - 2 = upTo(g - 1) + 1
  BY <1>1, <1>2
<1>5. cut[0] = 0 /\ cut[k] = Len(s) BY <1>1, <1>2
<1>6. Groups(s) = [g \in 1 .. k |-> SubSeq(s, 3 * g - 2, upTo(g))] BY DEF Groups
<1> HIDE DEF cut, k, upTo
<1>7. ASSUME NEW g \in 1 .. k
      PROVE  SubSeq(s, 3 * g - 2, upTo(g)) \in Seq(Byte)
             /\ SubSeq(s, 3 * g - 2, upTo(g)) = SubSeq(s, cut[g - 1] + 1, cut[g])
  <2>1. cut[g] = upTo(g) /\ cut[g - 1] = upTo(g - 1) BY <1>3, <1>4
  <2>2. upTo(g) \in 0 .. Len(s) /\ upTo(g - 1) \in Nat BY <1>1, <1>3, <1>4
  <2>3. SubSeq(s, upTo(g - 1) + 1, upTo(g)) \in Seq(Byte) BY <2>2, PartType
  <2> QED BY <1>4, <2>1, <2>3
<1>8. Groups(s) \in [1 .. k -> Seq(Byte)] BY <1>6, <1>7
<1>9. Groups(s) \in Seq(Seq(Byte)) /\ Len(Groups(s)) = k BY <1>2, <1>8, FunSeq
<1>10. \A i \in 0 .. k : cut[i] \in 0 .. Len(s) BY <1>3
<1>11. \A g \in 1 .. k : /\ cut[g - 1] <= cut[g]
                         /\ Groups(s)[g] = SubSeq(s, cut[g - 1] + 1, cut[g])
  BY <1>3, <1>4, <1>6, <1>7
<1>12. FlattenSeq(Groups(s)) = s BY <1>5, <1>9, <1>10, <1>11, PiecesFlatten
<1> QED BY <1>9, <1>12 DEF k

\* Four characters of one group.
Four(group) == [at \in 1 .. 4 |-> [group |-> group, at |-> at]]

LEMMA FourType ==
    ASSUME NEW group \in Seq(Byte)
    PROVE  Four(group) \in Seq(Char) /\ Len(Four(group)) = 4 /\ Four(group)[4].group = group
<1>1. \A at \in 1 .. 4 : [group |-> group, at |-> at] \in Char BY DEF Char
<1>2. Four(group) \in [1 .. 4 -> Char] BY <1>1 DEF Four
<1>3. 4 \in Nat /\ 4 \in 1 .. 4 OBVIOUS
<1>4. Four(group)[4].group = group BY <1>3 DEF Four
<1> DEFINE n == 4
<1>5. n \in Nat /\ Four(group) \in [1 .. n -> Char] BY <1>2
<1> HIDE DEF n
<1>6. Four(group) \in Seq(Char) /\ Len(Four(group)) = n BY <1>5, FunSeq
<1> QED BY <1>4, <1>6 DEF n

LEMMA DecodeUndoesEncode ==
    ASSUME NEW s \in Seq(Byte)
    PROVE  /\ Base64(s) \in Seq(Char) /\ Len(Base64(s)) % 4 = 0
           /\ Base64Decode(Base64(s)) = s
<1> DEFINE p == Groups(s)
           k == Len(p)
           fours == [g \in 1 .. k |-> Four(p[g])]
           text == FlattenSeq(fours)
<1>1. p \in Seq(Seq(Byte)) /\ k \in Nat /\ DOMAIN p = 1 .. k /\ FlattenSeq(p) = s
  BY GroupsFlatten, LenProperties
<1>2. Base64(s) = text BY <1>1 DEF Base64, Four
<1> HIDE DEF p
<1>3. \A g \in 1 .. k : p[g] \in Seq(Byte) BY <1>1, ElementOfSeq
<1>4. fours \in [1 .. k -> Seq(Char)] BY <1>3, FourType
<1>5. \A g \in 1 .. k : fours[g] = Four(p[g]) OBVIOUS
<1> HIDE DEF fours
<1>6. fours \in Seq(Seq(Char)) /\ Len(fours) = k BY <1>1, <1>4, FunSeq
<1>7. \A g \in 1 .. k : Len(fours[g]) = 4 /\ fours[g][4].group = p[g] BY <1>3, <1>5, FourType
<1> HIDE DEF k
<1>8. text \in Seq(Char) BY <1>6, FlattenType
<1>9. Len(text) = 4 * k /\ \A g \in 1 .. k : text[4 * g] = fours[g][4]
  BY <1>6, <1>7, FlattenFours
<1> HIDE DEF text
<1>10. Len(text) % 4 = 0 /\ Len(text) \div 4 = k BY <1>1, <1>9
<1>11. /\ Decodes(text) \in Seq(Seq(Byte)) /\ Len(Decodes(text)) = k
       /\ \A g \in 1 .. k : Decodes(text)[g] = text[4 * g].group
       /\ Base64Decode(text) = FlattenSeq(Decodes(text))
  BY <1>8, <1>10, DecodesType
<1>12. \A g \in 1 .. k : Decodes(text)[g] = p[g] BY <1>7, <1>9, <1>11
<1>13. Len(p) = k BY DEF k
<1>14. Decodes(text) = p BY <1>1, <1>11, <1>12, <1>13, SeqEqual
<1> QED BY <1>1, <1>2, <1>8, <1>10, <1>11, <1>14

-----------------------------------------------------------------------------
(* Frames as bytes. The reader puts the length of a frame together as a      *)
(* signed integer of 32 bits: it is right below 2^31 bytes.                  *)

TwoTo31 == 2147483648

\* The bytes of a length.
B1(n) == (n \div 16777216) % 256
B2(n) == (n \div 65536) % 256
B3(n) == (n \div 256) % 256
B4(n) == n % 256

LEMMA LengthBytes ==
    ASSUME NEW n \in Nat
    PROVE  /\ Length4(n) = <<B1(n), B2(n), B3(n), B4(n)>>
           /\ Length4(n) \in Seq(Byte) /\ Len(Length4(n)) = 4
<1>1. B1(n) \in Byte /\ B2(n) \in Byte /\ B3(n) \in Byte /\ B4(n) \in Byte
  BY SMT DEF Byte, B1, B2, B3, B4
<1>2. Length4(n) = <<B1(n), B2(n), B3(n), B4(n)>> BY SMT DEF Length4, B1, B2, B3, B4
<1> DEFINE a == B1(n)
           b == B2(n)
           c == B3(n)
           d == B4(n)
<1>3. a \in Byte /\ b \in Byte /\ c \in Byte /\ d \in Byte BY <1>1
<1> HIDE DEF a, b, c, d
<1>4. <<a, b, c, d>> \in Seq(Byte) /\ Len(<<a, b, c, d>>) = 4 BY <1>3
<1> QED BY <1>2, <1>4 DEF a, b, c, d

LEMMA LengthRead ==
    ASSUME NEW n \in Nat, n < TwoTo31, NEW s,
           \A i \in 1 .. 4 : s[i + 1] = Length4(n)[i]
    PROVE  MsgLen(s) = n
<1> DEFINE x == n \div 256
           y == n \div 65536
           z == n \div 16777216
<1>1. s[2] = B1(n) /\ s[3] = B2(n) /\ s[4] = B3(n) /\ s[5] = B4(n)
  <2>1. s[1 + 1] = Length4(n)[1] /\ s[2 + 1] = Length4(n)[2]
        /\ s[3 + 1] = Length4(n)[3] /\ s[4 + 1] = Length4(n)[4]
    OBVIOUS
  <2> QED BY <2>1, LengthBytes, SMT
<1>2. s[2] = z % 256 /\ s[3] = y % 256 /\ s[4] = x % 256 /\ s[5] = n % 256
  BY <1>1, SMT DEF B1, B2, B3, B4
<1>3. x \in Nat /\ n = 256 * x + (n % 256) BY SMT
<1>4. y \in Nat /\ x = 256 * y + (x % 256) BY SMT
<1>5. z \in Nat /\ y = 256 * z + (y % 256) BY SMT
<1>6. z < 128 BY SMT DEF TwoTo31
<1>7. z % 256 = z BY <1>5, <1>6, SMT
<1> HIDE DEF x, y, z
<1>8. MsgLen(s) = z * 16777216 + (y % 256) * 65536 + (x % 256) * 256 + (n % 256)
  BY <1>2, <1>6, <1>7, SMT DEF MsgLen
<1> QED BY <1>3, <1>4, <1>5, <1>7, <1>8, SMT

LEMMA FrameBytes ==
    ASSUME NEW f \in Frames
    PROVE  /\ Encode(f) \in Seq(Byte) /\ Len(Encode(f)) = 5 + Len(f.data)
           /\ Encode(f)[1] = f.type
           /\ \A i \in 1 .. 4 : Encode(f)[i + 1] = Length4(Len(f.data))[i]
           /\ \A i \in 1 .. Len(f.data) : Encode(f)[i + 5] = f.data[i]
<1> DEFINE l == Length4(Len(f.data))
           d == f.data
           t == <<f.type>>
           h == t \o l
<1>1. f.type \in Byte /\ d \in Seq(Byte) BY DEF Frames, DATA, TRAILER, Byte
<1>2. Len(d) \in Nat BY <1>1, LenProperties
<1>3. l \in Seq(Byte) /\ Len(l) = 4 BY <1>2, LengthBytes
<1>4. t \in Seq(Byte) /\ Len(t) = 1 /\ t[1] = f.type BY <1>1
<1> HIDE DEF l, d, t
<1>5. /\ h \in Seq(Byte) /\ Len(h) = Len(t) + Len(l)
      /\ \A i \in 1 .. Len(t) + Len(l) : h[i] = IF i <= Len(t) THEN t[i] ELSE l[i - Len(t)]
  <2>1. Joins(Byte, t, l) BY <1>3, <1>4, ConcatJoins
  <2> QED BY <2>1 DEF Joins
<1>6. Len(h) = 5 /\ h[1] = f.type /\ \A i \in 1 .. 4 : h[i + 1] = l[i]
  <2>1. \A i \in 1 .. 4 : i + 1 \in 1 .. 5 /\ ~(i + 1 <= 1) /\ (i + 1) - 1 = i OBVIOUS
  <2> QED BY <1>3, <1>4, <1>5, <2>1
<1>7. Encode(f) = h \o d BY DEF Encode, l, d, t
<1> HIDE DEF h
<1>8. /\ h \o d \in Seq(Byte) /\ Len(h \o d) = Len(h) + Len(d)
      /\ \A i \in 1 .. Len(h) + Len(d) : (h \o d)[i] = IF i <= Len(h) THEN h[i] ELSE d[i - Len(h)]
  <2>1. Joins(Byte, h, d) BY <1>1, <1>5, ConcatJoins
  <2> QED BY <2>1 DEF Joins
<1>9. /\ Len(h \o d) = 5 + Len(d) /\ (h \o d)[1] = f.type
      /\ \A i \in 1 .. 4 : (h \o d)[i + 1] = l[i]
  <2>1. \A i \in 1 .. 4 : i + 1 \in 1 .. 5 + Len(d) /\ i + 1 <= 5 BY <1>2
  <2>2. 1 \in 1 .. 5 + Len(d) BY <1>2
  <2> QED BY <1>6, <1>8, <2>1, <2>2
<1>10. \A i \in 1 .. Len(d) : (h \o d)[i + 5] = d[i]
  <2>1. \A i \in 1 .. Len(d) : i + 5 \in 1 .. 5 + Len(d) /\ ~(i + 5 <= 5) /\ (i + 5) - 5 = i
    BY <1>2
  <2> QED BY <1>6, <1>8, <2>1
<1> QED BY <1>7, <1>8, <1>9, <1>10 DEF d, l

\* The bytes of frames, one after the other.
Encoded(b) == [i \in 1 .. Len(b) |-> Encode(b[i])]

LEMMA EncodedType ==
    ASSUME NEW b \in Seq(Frames)
    PROVE  /\ Encoded(b) \in Seq(Seq(Byte)) /\ Len(Encoded(b)) = Len(b)
           /\ \A i \in 1 .. Len(b) : Encoded(b)[i] = Encode(b[i])
           /\ Bytes(b) = FlattenSeq(Encoded(b)) /\ Bytes(b) \in Seq(Byte)
<1>1. Len(b) \in Nat /\ DOMAIN b = 1 .. Len(b) BY LenProperties
<1>2. \A i \in 1 .. Len(b) : Encode(b[i]) \in Seq(Byte) BY ElementOfSeq, FrameBytes
<1>3. Encoded(b) \in [1 .. Len(b) -> Seq(Byte)] BY <1>2 DEF Encoded
<1>4. Encoded(b) \in Seq(Seq(Byte)) /\ Len(Encoded(b)) = Len(b) BY <1>1, <1>3, FunSeq
<1>5. Bytes(b) = FlattenSeq(Encoded(b)) BY <1>1 DEF Bytes, Encoded
<1> QED BY <1>4, <1>5, FlattenType DEF Encoded

LEMMA BytesConcat ==
    ASSUME NEW a \in Seq(Frames), NEW b \in Seq(Frames)
    PROVE  Bytes(a \o b) = Bytes(a) \o Bytes(b)
<1> DEFINE c == a \o b
           x == Encoded(a)
           y == Encoded(b)
           z == Encoded(c)
<1>1. /\ c \in Seq(Frames) /\ Len(c) = Len(a) + Len(b)
      /\ \A i \in 1 .. Len(a) + Len(b) : c[i] = IF i <= Len(a) THEN a[i] ELSE b[i - Len(a)]
  BY ConcatProperties
<1>2. Len(a) \in Nat /\ Len(b) \in Nat BY LenProperties
<1> HIDE DEF c
<1>3. /\ x \in Seq(Seq(Byte)) /\ Len(x) = Len(a) /\ \A i \in 1 .. Len(a) : x[i] = Encode(a[i])
      /\ Bytes(a) = FlattenSeq(x)
  BY EncodedType
<1>4. /\ y \in Seq(Seq(Byte)) /\ Len(y) = Len(b) /\ \A i \in 1 .. Len(b) : y[i] = Encode(b[i])
      /\ Bytes(b) = FlattenSeq(y)
  BY EncodedType
<1>5. /\ z \in Seq(Seq(Byte)) /\ Len(z) = Len(c) /\ \A i \in 1 .. Len(c) : z[i] = Encode(c[i])
      /\ Bytes(c) = FlattenSeq(z)
  BY <1>1, EncodedType
<1> HIDE DEF x, y, z
<1>6. /\ x \o y \in Seq(Seq(Byte)) /\ Len(x \o y) = Len(x) + Len(y)
      /\ \A i \in 1 .. Len(x) + Len(y) : (x \o y)[i] = IF i <= Len(x) THEN x[i] ELSE y[i - Len(x)]
  <2>1. Joins(Seq(Byte), x, y) BY <1>3, <1>4, ConcatJoins
  <2> QED BY <2>1 DEF Joins
<1>7. ASSUME NEW i \in 1 .. Len(a) + Len(b) PROVE z[i] = (x \o y)[i]
  <2>1. z[i] = Encode(c[i]) BY <1>1, <1>5
  <2>2. CASE i <= Len(a)
    <3>1. i \in 1 .. Len(a) BY <1>2, <2>2
    <3>2. c[i] = a[i] /\ (x \o y)[i] = x[i] BY <1>1, <1>3, <1>4, <1>6, <2>2
    <3> QED BY <1>3, <2>1, <3>1, <3>2
  <2>3. CASE ~(i <= Len(a))
    <3>1. i - Len(a) \in 1 .. Len(b) BY <1>2, <2>3
    <3>2. c[i] = b[i - Len(a)] /\ (x \o y)[i] = y[i - Len(a)] BY <1>1, <1>3, <1>4, <1>6, <2>3
    <3> QED BY <1>4, <2>1, <3>1, <3>2
  <2> QED BY <2>2, <2>3
<1>8. z = x \o y BY <1>1, <1>3, <1>4, <1>5, <1>6, <1>7, SeqEqual
<1>9. FlattenSeq(z) = FlattenSeq(x) \o FlattenSeq(y) BY <1>3, <1>4, <1>8, FlattenConcat
<1> QED BY <1>3, <1>4, <1>5, <1>9 DEF c

LEMMA BytesOne == ASSUME NEW f \in Frames PROVE Bytes(<<f>>) = Encode(f)
<1> DEFINE b == <<f>>
           x == Encoded(b)
           y == Encode(f)
<1>1. b \in Seq(Frames) /\ Len(b) = 1 /\ b[1] = f /\ 1 \in 1 .. 1 OBVIOUS
<1>2. y \in Seq(Byte) BY FrameBytes
<1> HIDE DEF b, y
<1>3. /\ x \in Seq(Seq(Byte)) /\ Len(x) = Len(b)
      /\ \A i \in 1 .. Len(b) : x[i] = Encode(b[i])
      /\ Bytes(b) = FlattenSeq(x)
  BY <1>1, EncodedType
<1> HIDE DEF x
<1>4. Len(x) = 1 /\ x[1] = y BY <1>1, <1>3 DEF y
<1>5. <<y>> \in Seq(Seq(Byte)) /\ Len(<<y>>) = 1 /\ <<y>>[1] = y BY <1>2
<1>6. x = <<y>> BY <1>3, <1>4, <1>5, SeqEqual
<1>7. FlattenSeq(<<y>>) = y BY <1>2, FlattenOne
<1> QED BY <1>3, <1>6, <1>7 DEF b, y

LEMMA BytesEmpty == Bytes(<<>>) = <<>>
<1>1. <<>> \in Seq(Frames) /\ Len(<<>>) = 0 OBVIOUS
<1>2. Encoded(<<>>) \in Seq(Seq(Byte)) /\ Len(Encoded(<<>>)) = 0 /\ Bytes(<<>>) = FlattenSeq(Encoded(<<>>))
  BY <1>1, EncodedType
<1>3. Encoded(<<>>) = <<>> BY <1>2, EmptySeq
<1> QED BY <1>2, <1>3, FlattenEmpty

-----------------------------------------------------------------------------
(* The wire stands for the bytes of the body, in each encoding.              *)

LEMMA FourPlusFour ==
    ASSUME NEW x \in Nat, NEW y \in Nat, x % 4 = 0, y % 4 = 0 PROVE (x + y) % 4 = 0
<1>1. x = 4 * (x \div 4) /\ y = 4 * (y \div 4) /\ x \div 4 \in Nat /\ y \div 4 \in Nat
  OBVIOUS
<1>2. \A n \in Nat : (4 * n) % 4 = 0 OBVIOUS
<1>3. x + y = 4 * (x \div 4 + y \div 4) /\ x \div 4 + y \div 4 \in Nat BY <1>1
<1> QED BY <1>2, <1>3

\* Texts of whole groups, one after the other.
LEMMA DecodeFlatten ==
    ASSUME NEW p \in Seq(Seq(Char)), NEW q \in Seq(Seq(Byte)), Len(q) = Len(p),
           \A i \in 1 .. Len(p) : Len(p[i]) % 4 = 0 /\ Base64Decode(p[i]) = q[i]
    PROVE  Len(FlattenSeq(p)) % 4 = 0 /\ Base64Decode(FlattenSeq(p)) = FlattenSeq(q)
<1> DEFINE P(n) == FlattenSeq(SubSeq(p, 1, n))
           Q(n) == FlattenSeq(SubSeq(q, 1, n))
           S == {n \in Nat : n <= Len(p) => Len(P(n)) % 4 = 0 /\ Base64Decode(P(n)) = Q(n)}
<1>1. Len(p) \in Nat BY LenProperties
<1>2. 0 \in S
  <2>1. SubSeq(p, 1, 0) = <<>> /\ SubSeq(q, 1, 0) = <<>> BY SubSeqEmpty
  <2>2. P(0) = <<>> /\ Q(0) = <<>> BY <2>1, FlattenEmpty
  <2>3. <<>> \in Seq(Char) /\ Len(<<>>) = 0 /\ 0 \div 4 = 0 /\ 0 % 4 = 0 OBVIOUS
  <2>4. Decodes(<<>>) \in Seq(Seq(Byte)) /\ Len(Decodes(<<>>)) = 0
        /\ Base64Decode(<<>>) = FlattenSeq(Decodes(<<>>))
    BY <2>3, DecodesType
  <2>5. Decodes(<<>>) = <<>> BY <2>4, EmptySeq
  <2> QED BY <2>2, <2>3, <2>4, <2>5, FlattenEmpty
<1>3. ASSUME NEW n \in Nat, n \in S PROVE n + 1 \in S
  <2> SUFFICES ASSUME n + 1 <= Len(p)
               PROVE  Len(P(n + 1)) % 4 = 0 /\ Base64Decode(P(n + 1)) = Q(n + 1)
    OBVIOUS
  <2>1. Len(P(n)) % 4 = 0 /\ Base64Decode(P(n)) = Q(n) BY <1>1, <1>3
  <2> HIDE DEF S
  <2>2. P(n + 1) = P(n) \o p[n + 1] /\ P(n) \in Seq(Char) /\ p[n + 1] \in Seq(Char)
    BY FlattenFront
  <2>3. Q(n + 1) = Q(n) \o q[n + 1] BY FlattenFront
  <2> HIDE DEF P, Q
  <2>4. n + 1 \in 1 .. Len(p) BY <1>1
  <2>5. Len(p[n + 1]) % 4 = 0 /\ Base64Decode(p[n + 1]) = q[n + 1] BY <2>4
  <2>6. Base64Decode(P(n + 1)) = Q(n + 1) BY <2>1, <2>2, <2>3, <2>5, DecodeConcat
  <2>7. Len(P(n + 1)) = Len(P(n)) + Len(p[n + 1]) /\ Len(P(n)) \in Nat /\ Len(p[n + 1]) \in Nat
    <3>1. Joins(Char, P(n), p[n + 1]) BY <2>2, ConcatJoins
    <3> QED BY <2>2, <3>1, LenProperties DEF Joins
  <2> QED BY <2>1, <2>5, <2>6, <2>7, FourPlusFour
<1> HIDE DEF S
<1>4. Nat \subseteq S BY <1>2, <1>3, SetInduction
<1>5. Len(P(Len(p))) % 4 = 0 /\ Base64Decode(P(Len(p))) = Q(Len(p)) BY <1>1, <1>4 DEF S
<1>6. SubSeq(p, 1, Len(p)) = p /\ SubSeq(q, 1, Len(q)) = q BY SubSeqFull
<1> QED BY <1>5, <1>6

LEMMA PaddedText ==
    ASSUME NEW b \in Seq(Frames), NEW text,
           text = FlattenSeq([i \in DOMAIN b |-> Base64(Encode(b[i]))])
    PROVE  text \in Seq(Char) /\ Len(text) % 4 = 0 /\ Base64Decode(text) = Bytes(b)
<1> DEFINE p == [i \in 1 .. Len(b) |-> Base64(Encode(b[i]))]
           q == Encoded(b)
<1>1. Len(b) \in Nat /\ DOMAIN b = 1 .. Len(b) BY LenProperties
<1>2. /\ q \in Seq(Seq(Byte)) /\ Len(q) = Len(b) /\ Bytes(b) = FlattenSeq(q)
      /\ \A i \in 1 .. Len(b) : q[i] = Encode(b[i])
  BY EncodedType
<1>3. \A i \in 1 .. Len(b) : Encode(b[i]) \in Seq(Byte) BY ElementOfSeq, FrameBytes
<1>4. \A i \in 1 .. Len(b) : /\ Base64(Encode(b[i])) \in Seq(Char)
                             /\ Len(Base64(Encode(b[i]))) % 4 = 0
                             /\ Base64Decode(Base64(Encode(b[i]))) = Encode(b[i])
  BY <1>3, DecodeUndoesEncode
<1>5. p \in [1 .. Len(b) -> Seq(Char)] BY <1>4
<1>6. text = FlattenSeq(p) /\ \A i \in 1 .. Len(b) : p[i] = Base64(Encode(b[i])) BY <1>1
<1> HIDE DEF p, q
<1>7. p \in Seq(Seq(Char)) /\ Len(p) = Len(b) BY <1>1, <1>5, FunSeq
<1>8. \A i \in 1 .. Len(p) : Len(p[i]) % 4 = 0 /\ Base64Decode(p[i]) = q[i]
  BY <1>2, <1>4, <1>6, <1>7
<1>9. Len(FlattenSeq(p)) % 4 = 0 /\ Base64Decode(FlattenSeq(p)) = FlattenSeq(q)
  BY <1>2, <1>7, <1>8, DecodeFlatten
<1>10. FlattenSeq(p) \in Seq(Char) BY <1>7, FlattenType
<1> QED BY <1>2, <1>6, <1>9, <1>10

\* What a wire is made of, how much of it is decoded at a time, and to what.
Letters(enc) == IF enc = "binary" THEN Byte ELSE Char
Unit(enc) == IF enc = "binary" THEN 1 ELSE 4
Decoded(enc, s) == IF enc = "binary" THEN s ELSE Base64Decode(s)

LEMMA DecodedType ==
    ASSUME NEW enc, NEW s \in Seq(Letters(enc)) PROVE Decoded(enc, s) \in Seq(Byte)
<1>1. CASE enc = "binary" BY <1>1 DEF Letters, Decoded
<1>2. CASE enc # "binary"
  <2>1. s \in Seq(Char) /\ Decoded(enc, s) = Base64Decode(s) BY <1>2 DEF Letters, Decoded
  <2> QED BY <2>1, DecodesType
<1> QED BY <1>1, <1>2

LEMMA DecodedConcat ==
    ASSUME NEW enc, NEW s \in Seq(Letters(enc)), NEW t \in Seq(Letters(enc)),
           Len(s) % Unit(enc) = 0
    PROVE  Decoded(enc, s \o t) = Decoded(enc, s) \o Decoded(enc, t)
<1>1. CASE enc = "binary" BY <1>1 DEF Decoded
<1>2. CASE enc # "binary"
  <2>1. s \in Seq(Char) /\ t \in Seq(Char) /\ Len(s) % 4 = 0 BY <1>2 DEF Letters, Unit
  <2>2. Base64Decode(s \o t) = Base64Decode(s) \o Base64Decode(t) BY <2>1, DecodeConcat
  <2> QED BY <1>2, <2>2 DEF Decoded
<1> QED BY <1>1, <1>2

LEMMA WireIsBytes ==
    ASSUME NEW b \in Seq(Frames), NEW enc \in Encodings
    PROVE  /\ Wire(b, enc) \in Seq(Letters(enc)) /\ Len(Wire(b, enc)) % Unit(enc) = 0
           /\ Decoded(enc, Wire(b, enc)) = Bytes(b)
<1>1. Bytes(b) \in Seq(Byte) /\ Len(Bytes(b)) \in Nat BY EncodedType, LenProperties
<1>2. CASE enc = "binary"
  <2>1. Wire(b, enc) = Bytes(b) BY <1>2 DEF Wire
  <2>2. Len(Bytes(b)) % 1 = 0 BY <1>1
  <2> QED BY <1>1, <1>2, <2>1, <2>2 DEF Letters, Unit, Decoded
<1>3. CASE enc # "binary"
  <2> SUFFICES Wire(b, enc) \in Seq(Char) /\ Len(Wire(b, enc)) % 4 = 0
               /\ Base64Decode(Wire(b, enc)) = Bytes(b)
    BY <1>3 DEF Letters, Unit, Decoded
  <2>1. CASE enc = "text"
    <3>1. Wire(b, enc) = Base64(Bytes(b)) BY <2>1 DEF Wire
    <3> QED BY <1>1, <3>1, DecodeUndoesEncode
  <2>2. CASE enc # "text"
    <3>1. Wire(b, enc) = FlattenSeq([i \in DOMAIN b |-> Base64(Encode(b[i]))])
      BY <1>3, <2>2 DEF Wire
    <3> QED BY <3>1, PaddedText
  <2> QED BY <2>1, <2>2
<1> QED BY <1>2, <1>3

-----------------------------------------------------------------------------
(* The queues: parts of the wire, and of the bytes.                          *)

LEMMA PartOfPart ==
    ASSUME NEW X, NEW s \in Seq(X), NEW i \in Nat, NEW j \in i .. Len(s),
           NEW u \in Nat, NEW v \in u .. j - i
    PROVE  SubSeq(SubSeq(s, i + 1, j), u + 1, v) = SubSeq(s, i + u + 1, i + v)
<1> DEFINE a == SubSeq(s, i + 1, j)
           b == SubSeq(a, u + 1, v)
           c == SubSeq(s, i + u + 1, i + v)
<1>1. Len(s) \in Nat BY LenProperties
<1>2. j \in 0 .. Len(s) /\ i + u \in Nat /\ i + v \in 0 .. Len(s) /\ j - i \in Nat BY <1>1
<1>3. \A x \in i + 1 .. j : s[x] \in X
  <2>1. \A x \in i + 1 .. j : x \in 1 .. Len(s) BY <1>1
  <2> QED BY <2>1, ElementOfSeq
<1>4. a \in Seq(X) /\ Len(a) = j - i /\ \A x \in 1 .. j - i : a[x] = s[i + x]
  <2>1. /\ a \in Seq(X) /\ Len(a) = IF i + 1 <= j THEN j - (i + 1) + 1 ELSE 0
        /\ \A x \in 1 .. j - (i + 1) + 1 : a[x] = s[i + 1 + x - 1]
    BY <1>2, <1>3, SubSeqProperties
  <2>2. \A x \in 1 .. j - i : x \in 1 .. j - (i + 1) + 1 /\ i + 1 + x - 1 = i + x BY <1>2
  <2>3. Len(a) = j - i BY <1>2, <2>1
  <2> QED BY <2>1, <2>2, <2>3
<1> HIDE DEF a
<1>5. \A x \in u + 1 .. v : a[x] \in X
  <2>1. \A x \in u + 1 .. v : x \in 1 .. Len(a) BY <1>2, <1>4
  <2> QED BY <1>4, <2>1, ElementOfSeq
<1>6. b \in Seq(X) /\ Len(b) = v - u /\ \A x \in 1 .. v - u : b[x] = a[u + x]
  <2>1. /\ b \in Seq(X) /\ Len(b) = IF u + 1 <= v THEN v - (u + 1) + 1 ELSE 0
        /\ \A x \in 1 .. v - (u + 1) + 1 : b[x] = a[u + 1 + x - 1]
    BY <1>2, <1>5, SubSeqProperties
  <2>2. \A x \in 1 .. v - u : x \in 1 .. v - (u + 1) + 1 /\ u + 1 + x - 1 = u + x BY <1>2
  <2>3. Len(b) = v - u BY <1>2, <2>1
  <2> QED BY <2>1, <2>2, <2>3
<1>7. \A x \in i + u + 1 .. i + v : s[x] \in X
  <2>1. \A x \in i + u + 1 .. i + v : x \in 1 .. Len(s) BY <1>1, <1>2
  <2> QED BY <2>1, ElementOfSeq
<1>8. c \in Seq(X) /\ Len(c) = v - u /\ \A x \in 1 .. v - u : c[x] = s[i + u + x]
  <2>1. /\ c \in Seq(X) /\ Len(c) = IF i + u + 1 <= i + v THEN (i + v) - (i + u + 1) + 1 ELSE 0
        /\ \A x \in 1 .. (i + v) - (i + u + 1) + 1 : c[x] = s[i + u + 1 + x - 1]
    BY <1>2, <1>7, SubSeqProperties
  <2>2. \A x \in 1 .. v - u : /\ x \in 1 .. (i + v) - (i + u + 1) + 1
                              /\ i + u + 1 + x - 1 = i + u + x
    BY <1>2
  <2>3. Len(c) = v - u BY <1>2, <2>1
  <2> QED BY <2>1, <2>2, <2>3
<1> HIDE DEF b, c
<1>9. ASSUME NEW x \in 1 .. v - u PROVE b[x] = c[x]
  <2>1. u + x \in 1 .. j - i /\ i + (u + x) = i + u + x BY <1>2
  <2>2. b[x] = a[u + x] BY <1>6
  <2>3. a[u + x] = s[i + (u + x)] BY <1>4, <2>1
  <2>4. c[x] = s[i + u + x] BY <1>8
  <2> QED BY <2>1, <2>2, <2>3, <2>4
<1>10. b = c BY <1>6, <1>8, <1>9, SeqEqual
<1> QED BY <1>10 DEF a, b, c

\* Two parts of a sequence that meet.
LEMMA PartsMeet ==
    ASSUME NEW X, NEW s \in Seq(X), NEW i \in Nat, NEW j \in i .. Len(s), NEW k \in j .. Len(s)
    PROVE  SubSeq(s, i + 1, j) \o SubSeq(s, j + 1, k) = SubSeq(s, i + 1, k)
<1>1. Len(s) \in Nat BY LenProperties
<1>2. i + 1 \in 1 .. Len(s) + 1 /\ j \in (i + 1) - 1 .. Len(s) BY <1>1
<1> QED BY <1>2, ConcatAdjacentSubSeq

SafeTo(n, unit) == n - (n % unit)

LEMMA SafeToIs ==
    ASSUME NEW n \in Nat, NEW enc
    PROVE  /\ SafeTo(n, Unit(enc)) \in 0 .. n /\ SafeTo(n, Unit(enc)) % Unit(enc) = 0
           /\ n % Unit(enc) = 0 => SafeTo(n, Unit(enc)) = n
<1>1. CASE enc = "binary"
  <2>1. Unit(enc) = 1 BY <1>1 DEF Unit
  <2>2. n % 1 = 0 OBVIOUS
  <2> QED BY <2>1, <2>2 DEF SafeTo
<1>2. CASE enc # "binary"
  <2>1. Unit(enc) = 4 BY <1>2 DEF Unit
  <2>2. n % 4 \in 0 .. 3 /\ n - (n % 4) \in 0 .. n /\ (n - (n % 4)) % 4 = 0 OBVIOUS
  <2> QED BY <2>1, <2>2 DEF SafeTo
<1> QED BY <1>1, <1>2

LEMMA Remainder4 ==
    ASSUME NEW n \in Nat
    PROVE  n % 4 \in 0 .. n /\ n - (n % 4) = 4 * (n \div 4) /\ n \div 4 \in Nat
OBVIOUS

LEMMA RemainderOfSum == \A m, n \in Nat : (4 * m + n) % 4 = n % 4
OBVIOUS

\* A queue of text that begins behind whole groups.
LEMMA TextCut ==
    ASSUME NEW s \in Seq(Char), NEW m \in Nat, NEW b \in 4 * m .. Len(s), NEW queue,
           queue = SubSeq(s, 4 * m + 1, b)
    PROVE  /\ 4 * m <= SafeTo(b, 4)
           /\ SubSeq(queue, 1, SafeLen(queue)) = SubSeq(s, 4 * m + 1, SafeTo(b, 4))
           /\ SubSeq(queue, SafeLen(queue) + 1, Len(queue)) = SubSeq(s, SafeTo(b, 4) + 1, b)
<1> DEFINE i == 4 * m
           r == b - i
           v == r - (r % 4)
<1>1. Len(s) \in Nat BY LenProperties
<1>2. i \in Nat /\ b \in i .. Len(s) /\ b \in 0 .. Len(s) /\ r \in Nat /\ b = 4 * m + r
  BY <1>1
<1>3. Len(SubSeq(s, i + 1, b)) = r
  <2>1. Len(SubSeq(s, i + 1, b)) = IF i <= b THEN b - i ELSE 0 BY <1>2, PartType
  <2> QED BY <1>2, <2>1
<1> HIDE DEF i
<1>4. r % 4 \in 0 .. r /\ b % 4 = r % 4
  <2> HIDE DEF r
  <2>1. (4 * m + r) % 4 = r % 4 BY <1>2, RemainderOfSum
  <2> QED BY <1>2, <2>1, Remainder4
<1>5. v \in 0 .. r /\ SafeTo(b, 4) = i + v /\ i <= i + v
  BY <1>1, <1>2, <1>4 DEF SafeTo
<1> HIDE DEF v
<1>6. SubSeq(SubSeq(s, i + 1, b), 0 + 1, v) = SubSeq(s, i + 0 + 1, i + v)
  <2>1. 0 \in Nat /\ v \in 0 .. b - i BY <1>5
  <2> QED BY <1>2, <2>1, PartOfPart
<1>7. SubSeq(SubSeq(s, i + 1, b), v + 1, r) = SubSeq(s, i + v + 1, i + r)
  <2>1. v \in Nat /\ r \in v .. b - i BY <1>2, <1>5
  <2> QED BY <1>2, <2>1, PartOfPart
<1>8. 0 + 1 = 1 /\ i + 0 + 1 = i + 1 /\ i + r = b BY <1>1, <1>2
<1>9. SafeLen(SubSeq(s, i + 1, b)) = v BY <1>3 DEF SafeLen, v
<1> QED BY <1>3, <1>5, <1>6, <1>7, <1>8, <1>9 DEF i

\* What ReceiveText makes of the queue and a chunk.
Received(s, a, b, queue) ==
    /\ SafeTo(a, 4) <= SafeTo(b, 4)
    /\ SubSeq(queue, 1, SafeLen(queue)) = SubSeq(s, SafeTo(a, 4) + 1, SafeTo(b, 4))
    /\ SubSeq(queue, SafeLen(queue) + 1, Len(queue)) = SubSeq(s, SafeTo(b, 4) + 1, b)

LEMMA TextReceived ==
    ASSUME NEW s \in Seq(Char), NEW a \in Nat, NEW b \in a .. Len(s), NEW queue,
           queue = SubSeq(s, SafeTo(a, 4) + 1, a) \o SubSeq(s, a + 1, b)
    PROVE  Received(s, a, b, queue)
<1>1. Len(s) \in Nat /\ b \in Nat BY LenProperties
<1>2. PICK m \in Nat : SafeTo(a, 4) = 4 * m /\ 4 * m <= a
  <2>1. a % 4 \in 0 .. a /\ a - (a % 4) = 4 * (a \div 4) /\ a \div 4 \in Nat BY Remainder4
  <2> QED BY <2>1 DEF SafeTo
<1>3. 4 * m \in Nat /\ a \in 4 * m .. Len(s) /\ b \in 4 * m .. Len(s) BY <1>1, <1>2
<1>4. SubSeq(s, 4 * m + 1, a) \o SubSeq(s, a + 1, b) = SubSeq(s, 4 * m + 1, b)
  BY <1>3, PartsMeet
<1>5. queue = SubSeq(s, 4 * m + 1, b) BY <1>2, <1>4
<1>6. /\ 4 * m <= SafeTo(b, 4)
      /\ SubSeq(queue, 1, SafeLen(queue)) = SubSeq(s, 4 * m + 1, SafeTo(b, 4))
      /\ SubSeq(queue, SafeLen(queue) + 1, Len(queue)) = SubSeq(s, SafeTo(b, 4) + 1, b)
  BY <1>3, <1>5, TextCut, Zenon
<1> QED BY <1>2, <1>6 DEF Received

-----------------------------------------------------------------------------
(* The queue of bytes begins with the frame that is read next.               *)

LEMMA FrontBytes ==
    ASSUME NEW b \in Seq(Frames), NEW k \in Nat, k + 1 <= Len(b)
    PROVE  /\ Bytes(SubSeq(b, 1, k + 1)) = Bytes(SubSeq(b, 1, k)) \o Encode(b[k + 1])
           /\ SubSeq(b, 1, k + 1) = Append(SubSeq(b, 1, k), b[k + 1])
<1>1. Len(b) \in Nat BY LenProperties
<1>2. k \in 0 .. Len(b) /\ k + 1 \in 1 .. Len(b) /\ 0 \in Nat /\ 0 + 1 = 1 BY <1>1
<1>3. SubSeq(b, 1, k) \in Seq(Frames) /\ b[k + 1] \in Frames
  BY <1>2, PartType, ElementOfSeq
<1> DEFINE a == SubSeq(b, 1, k)
           f == b[k + 1]
<1>4. SubSeq(b, 1, k + 1) = Append(a, f) BY FrontAppend
<1>5. a \in Seq(Frames) /\ f \in Frames BY <1>3
<1> HIDE DEF a, f
<1>6. Append(a, f) = a \o <<f>> BY <1>5, AppendIsConcat
<1>7. <<f>> \in Seq(Frames) BY <1>5
<1>8. Bytes(a \o <<f>>) = Bytes(a) \o Bytes(<<f>>) BY <1>5, <1>7, BytesConcat
<1>9. Bytes(<<f>>) = Encode(f) BY <1>5, BytesOne
<1> QED BY <1>4, <1>6, <1>8, <1>9 DEF a, f

LEMMA PartBytes ==
    ASSUME NEW b \in Seq(Frames), NEW i \in Nat, NEW j \in i .. Len(b), NEW k \in j .. Len(b)
    PROVE  /\ Bytes(SubSeq(b, i + 1, k)) = Bytes(SubSeq(b, i + 1, j)) \o Bytes(SubSeq(b, j + 1, k))
           /\ SubSeq(b, i + 1, j) \in Seq(Frames) /\ SubSeq(b, j + 1, k) \in Seq(Frames)
           /\ Len(Bytes(SubSeq(b, i + 1, j))) <= Len(Bytes(SubSeq(b, i + 1, k)))
<1>1. Len(b) \in Nat BY LenProperties
<1>2. j \in 0 .. Len(b) /\ k \in 0 .. Len(b) /\ j \in Nat BY <1>1
<1> DEFINE x == SubSeq(b, i + 1, j)
           y == SubSeq(b, j + 1, k)
           z == SubSeq(b, i + 1, k)
<1>3. x \in Seq(Frames) /\ y \in Seq(Frames) BY <1>2, PartType
<1>4. x \o y = z BY PartsMeet
<1> HIDE DEF x, y, z
<1>5. Bytes(z) = Bytes(x) \o Bytes(y) BY <1>3, <1>4, BytesConcat
<1>6. Bytes(x) \in Seq(Byte) /\ Bytes(y) \in Seq(Byte) BY <1>3, EncodedType
<1>7. Joins(Byte, Bytes(x), Bytes(y)) /\ Len(Bytes(x)) \in Nat /\ Len(Bytes(y)) \in Nat
  BY <1>6, ConcatJoins, LenProperties
<1>8. Len(Bytes(x)) <= Len(Bytes(z)) BY <1>5, <1>7 DEF Joins
<1> QED BY <1>3, <1>5, <1>8 DEF x, y, z

\* The bytes of the frames behind the first k.
Behind(b, k) == Bytes(SubSeq(b, k + 1, Len(b)))

LEMMA NextBehind ==
    ASSUME NEW b \in Seq(Frames), NEW k \in 0 .. Len(b)
    PROVE  /\ Behind(b, k) \in Seq(Byte)
           /\ k = Len(b) => Behind(b, k) = <<>>
           /\ k < Len(b) => /\ Behind(b, k) = Encode(b[k + 1]) \o Behind(b, k + 1)
                            /\ b[k + 1] \in Frames
<1>1. Len(b) \in Nat /\ Len(b) \in 0 .. Len(b) /\ k \in Nat BY LenProperties
<1>2. Behind(b, k) \in Seq(Byte) BY <1>1, PartType, EncodedType DEF Behind
<1>3. ASSUME k = Len(b) PROVE Behind(b, k) = <<>>
  <2>1. SubSeq(b, k + 1, Len(b)) = <<>> BY <1>1, <1>3, SubSeqEmpty
  <2> QED BY <2>1, BytesEmpty DEF Behind
<1>4. ASSUME k < Len(b) PROVE Behind(b, k) = Encode(b[k + 1]) \o Behind(b, k + 1)
                              /\ b[k + 1] \in Frames
  <2>1. k + 1 \in k .. Len(b) /\ Len(b) \in k + 1 .. Len(b) /\ k + 1 \in 1 .. Len(b) BY <1>1, <1>4
  <2>2. Bytes(SubSeq(b, k + 1, Len(b))) =
          Bytes(SubSeq(b, k + 1, k + 1)) \o Bytes(SubSeq(b, k + 1 + 1, Len(b)))
    BY <1>1, <2>1, PartBytes
  <2>3. b[k + 1] \in Frames BY <2>1, ElementOfSeq
  <2>4. SubSeq(b, k + 1, k + 1) = <<b[k + 1]>>
    <3>1. k + 1 \in k + 1 .. Len(b) /\ (k + 1) - 1 = k /\ k + 1 \in Int /\ k \in Int /\ k < k + 1
      BY <1>1, <2>1
    <3>2. SubSeq(b, k + 1, k + 1) = SubSeq(b, k + 1, k) \o <<b[k + 1]>>
      BY <2>1, <3>1, SubSeqRecursiveSecond
    <3>3. SubSeq(b, k + 1, k) = <<>> BY <3>1, SubSeqEmpty
    <3>4. <<b[k + 1]>> \in Seq(Frames) BY <2>3
    <3> QED BY <3>2, <3>3, <3>4, ConcatEmptySeq
  <2>5. Bytes(<<b[k + 1]>>) = Encode(b[k + 1]) BY <2>3, BytesOne
  <2> QED BY <2>2, <2>3, <2>4, <2>5 DEF Behind
<1> QED BY <1>2, <1>3, <1>4

LEMMA QueueIsBehind ==
    ASSUME NEW b \in Seq(Frames), NEW k \in 0 .. Len(b), NEW q \in Seq(Byte), NEW later \in Seq(Byte),
           Bytes(b) = (Bytes(SubSeq(b, 1, k)) \o q) \o later
    PROVE  Behind(b, k) = q \o later
<1>1. Len(b) \in Nat /\ 0 \in Nat /\ k \in 0 .. Len(b) /\ Len(b) \in k .. Len(b) /\ 0 + 1 = 1
  BY LenProperties
<1>2. /\ Bytes(SubSeq(b, 1, Len(b))) = Bytes(SubSeq(b, 1, k)) \o Behind(b, k)
      /\ SubSeq(b, 1, k) \in Seq(Frames)
  BY <1>1, PartBytes DEF Behind
<1>3. SubSeq(b, 1, Len(b)) = b BY SubSeqFull
<1> DEFINE x == Bytes(SubSeq(b, 1, k))
           y == Behind(b, k)
           z == q \o later
<1>4. x \in Seq(Byte) /\ y \in Seq(Byte) /\ z \in Seq(Byte)
  BY <1>2, EncodedType, NextBehind, ConcatProperties
<1>5. Associates(x, q, later) BY <1>4, ConcatAssociates
<1>6. x \o y = x \o z BY <1>2, <1>3, <1>5 DEF Associates
<1> HIDE DEF x, y, z
<1>7. y = z BY <1>4, <1>6, ConcatSimplifications
<1> QED BY <1>7 DEF y, z

\* Does a queue begin as frame f does?
BeginsAs(q, f) == \A i \in 1 .. Len(q) : i <= Len(Encode(f)) => q[i] = Encode(f)[i]

LEMMA FrameInFront ==
    ASSUME NEW b \in Seq(Frames), NEW k \in 0 .. Len(b), NEW q \in Seq(Byte), NEW later \in Seq(Byte),
           Behind(b, k) = q \o later
    PROVE  /\ q # <<>> => k < Len(b)
           /\ k < Len(b) => /\ BeginsAs(q, b[k + 1])
                            /\ Len(Encode(b[k + 1])) <= Len(q) + Len(later)
                            /\ k + 1 = Len(b) => Len(q) <= Len(Encode(b[k + 1]))
           /\ k = Len(b) => q = <<>>
<1>1. Len(b) \in Nat /\ Len(q) \in Nat /\ Len(later) \in Nat BY LenProperties
<1>2. ASSUME k = Len(b) PROVE q = <<>>
  <2>1. q \o later = <<>> BY <1>2, NextBehind
  <2> QED BY <2>1, ConcatEqualIffEmpty
<1>3. ASSUME k < Len(b)
      PROVE  /\ BeginsAs(q, b[k + 1]) /\ Len(Encode(b[k + 1])) <= Len(q) + Len(later)
             /\ k + 1 = Len(b) => Len(q) <= Len(Encode(b[k + 1]))
  <2> DEFINE e == Encode(b[k + 1])
             m == Behind(b, k + 1)
  <2>1. q \o later = e \o m /\ b[k + 1] \in Frames BY <1>3, NextBehind
  <2>2. e \in Seq(Byte) /\ m \in Seq(Byte)
    <3>1. k + 1 \in 0 .. Len(b) BY <1>1, <1>3
    <3> QED BY <2>1, <3>1, FrameBytes, NextBehind
  <2> HIDE DEF e, m
  <2>3. Joins(Byte, q, later) /\ Joins(Byte, e, m) /\ Len(e) \in Nat /\ Len(m) \in Nat
    BY <2>2, ConcatJoins, LenProperties
  <2>4. Len(q) + Len(later) = Len(e) + Len(m) BY <2>1, <2>3 DEF Joins
  <2>5. ASSUME NEW i \in 1 .. Len(q), i <= Len(e) PROVE q[i] = e[i]
    <3>1. i \in 1 .. Len(q) + Len(later) /\ i <= Len(q) BY <1>1
    <3>2. i \in 1 .. Len(e) + Len(m) BY <2>4, <3>1
    <3>3. (q \o later)[i] = q[i] BY <2>3, <3>1 DEF Joins
    <3>4. (e \o m)[i] = e[i] BY <2>3, <2>5, <3>2 DEF Joins
    <3> QED BY <2>1, <3>3, <3>4
  <2>6. ASSUME k + 1 = Len(b) PROVE Len(q) <= Len(e)
    <3>1. k + 1 \in 0 .. Len(b) BY <1>1, <2>6
    <3>2. m = <<>> BY <2>6, <3>1, NextBehind DEF m
    <3> QED BY <1>1, <2>3, <2>4, <3>2
  <2> QED BY <1>1, <2>3, <2>4, <2>5, <2>6 DEF BeginsAs, e
<1> QED BY <1>1, <1>2, <1>3

\* What the reader makes of a queue that begins as a frame does.
LEMMA FrameRead ==
    ASSUME NEW f \in Frames, Len(f.data) < TwoTo31, NEW q \in Seq(Byte), BeginsAs(q, f)
    PROVE  /\ q # <<>> => q[1] = f.type
           /\ Len(q) >= 5 => MsgLen(q) = Len(f.data)
           /\ HasFrame(q) <=> f.type = DATA /\ Len(q) >= Len(Encode(f))
           /\ Len(q) >= Len(Encode(f)) =>
                /\ SubSeq(q, 6, 5 + Len(f.data)) = f.data
                /\ q = Encode(f) \o SubSeq(q, 6 + Len(f.data), Len(q))
           /\ Len(q) >= 5 /\ Len(q) <= Len(Encode(f)) => IsPrefix(SubSeq(q, 6, Len(q)), f.data)
<1> DEFINE d == f.data
           n == Len(f.data)
           e == Encode(f)
<1>1. d \in Seq(Byte) /\ n \in Nat /\ n = Len(d) /\ f.type \in {DATA, TRAILER}
  BY LenProperties DEF Frames
<1>2. /\ e \in Seq(Byte) /\ Len(e) = 5 + n /\ e[1] = f.type
      /\ \A i \in 1 .. 4 : e[i + 1] = Length4(n)[i]
      /\ \A i \in 1 .. n : e[i + 5] = d[i]
  BY FrameBytes
<1>3. Len(q) \in Nat BY LenProperties
<1>4. \A i \in 1 .. Len(q) : i <= Len(e) => q[i] = e[i] BY DEF BeginsAs
<1> HIDE DEF d, n, e
<1>5. q # <<>> => q[1] = f.type
  <2>1. q # <<>> => 1 \in 1 .. Len(q) BY <1>3, EmptySeq
  <2> QED BY <1>1, <1>2, <1>4, <2>1
<1>6. ASSUME Len(q) >= 5 PROVE MsgLen(q) = n
  <2>1. \A i \in 1 .. 4 : i + 1 \in 1 .. Len(q) /\ i + 1 <= Len(e) BY <1>1, <1>2, <1>3, <1>6
  <2>2. \A i \in 1 .. 4 : q[i + 1] = Length4(n)[i] BY <1>2, <1>4, <2>1
  <2>3. n < TwoTo31 BY DEF n
  <2> QED BY <1>1, <2>2, <2>3, LengthRead
<1>7. HasFrame(q) <=> f.type = DATA /\ Len(q) >= Len(e)
  <2>1. CASE Len(q) >= 5
    <3>1. q[1] = f.type BY <1>5, <2>1, EmptySeq
    <3>2. Len(q) - 5 >= n <=> Len(q) >= 5 + n BY <1>1, <1>3
    <3> QED BY <1>2, <1>6, <2>1, <3>1, <3>2 DEF HasFrame
  <2>2. CASE ~(Len(q) >= 5)
    <3>1. ~(Len(q) >= 5 + n) BY <1>1, <1>3, <2>2
    <3> QED BY <1>2, <2>2, <3>1 DEF HasFrame
  <2> QED BY <2>1, <2>2
\* The rest of the queue behind its first five bytes.
<1>8. ASSUME NEW j \in 5 .. Len(q), j <= 5 + n
      PROVE  /\ SubSeq(q, 6, j) \in Seq(Byte) /\ Len(SubSeq(q, 6, j)) = j - 5
             /\ \A i \in 1 .. j - 5 : SubSeq(q, 6, j)[i] = d[i]
  <2>1. j \in 0 .. Len(q) /\ 5 \in Nat /\ 5 + 1 = 6 /\ 6 \in Int /\ j \in Int BY <1>3
  <2>2. SubSeq(q, 6, j) \in Seq(Byte) /\ Len(SubSeq(q, 6, j)) = IF 5 <= j THEN j - 5 ELSE 0
    BY <2>1, PartType
  <2>3. Len(SubSeq(q, 6, j)) = j - 5 BY <2>2
  <2>4. \A i \in 6 .. j : q[i] \in Byte
    <3>1. \A i \in 6 .. j : i \in 1 .. Len(q) BY <1>3
    <3> QED BY <3>1, ElementOfSeq
  <2>5. \A i \in 1 .. j - 6 + 1 : SubSeq(q, 6, j)[i] = q[6 + i - 1] BY <2>1, <2>4, SubSeqProperties
  <2>6. ASSUME NEW i \in 1 .. j - 5 PROVE SubSeq(q, 6, j)[i] = d[i]
    <3>1. /\ i \in 1 .. j - 6 + 1 /\ 6 + i - 1 = i + 5 /\ i + 5 \in 1 .. Len(q)
          /\ i + 5 <= 5 + n /\ i \in 1 .. n
      BY <1>1, <1>3, <1>8
    <3>2. SubSeq(q, 6, j)[i] = q[i + 5] BY <2>5, <3>1
    <3>3. q[i + 5] = e[i + 5] BY <1>2, <1>4, <3>1
    <3> QED BY <1>2, <3>1, <3>2, <3>3
  <2> QED BY <2>2, <2>3, <2>6
<1>9. ASSUME Len(q) >= Len(e)
      PROVE  SubSeq(q, 6, 5 + n) = d /\ q = e \o SubSeq(q, 6 + n, Len(q))
  <2>1. 5 + n \in 5 .. Len(q) /\ 5 + n <= 5 + n /\ (5 + n) - 5 = n BY <1>1, <1>2, <1>3, <1>9
  <2>2. /\ SubSeq(q, 6, 5 + n) \in Seq(Byte) /\ Len(SubSeq(q, 6, 5 + n)) = n
        /\ \A i \in 1 .. n : SubSeq(q, 6, 5 + n)[i] = d[i]
    BY <1>8, <2>1
  <2>3. SubSeq(q, 6, 5 + n) = d BY <1>1, <2>2, SeqEqual
  <2> DEFINE h == SubSeq(q, 1, 5 + n)
  <2>4. /\ 0 \in Nat /\ 0 + 1 = 1 /\ 5 + n \in 0 .. Len(q) /\ 5 + n \in Nat /\ (5 + n) + 1 = 6 + n
        /\ Len(q) \in 5 + n .. Len(q) /\ Len(q) \in 0 .. Len(q) /\ 1 \in Int /\ 5 + n \in Int
    BY <1>1, <1>3, <2>1
  <2>5. h \in Seq(Byte) /\ Len(h) = IF 0 <= 5 + n THEN (5 + n) - 0 ELSE 0 BY <2>4, PartType
  <2>6. Len(h) = 5 + n BY <1>1, <2>5
  <2>7. \A i \in 1 .. 5 + n : q[i] \in Byte
    <3>1. \A i \in 1 .. 5 + n : i \in 1 .. Len(q) BY <1>1, <1>3, <2>1
    <3> QED BY <3>1, ElementOfSeq
  <2>8. \A i \in 1 .. (5 + n) - 1 + 1 : h[i] = q[1 + i - 1] BY <2>4, <2>7, SubSeqProperties
  <2> HIDE DEF h
  <2>9. ASSUME NEW i \in 1 .. 5 + n PROVE h[i] = e[i]
    <3>1. i \in 1 .. (5 + n) - 1 + 1 /\ 1 + i - 1 = i /\ i \in 1 .. Len(q) /\ i <= Len(e)
      BY <1>1, <1>2, <1>3, <2>1
    <3>2. h[i] = q[i] BY <2>8, <3>1
    <3> QED BY <1>4, <3>1, <3>2
  <2>10. h = e BY <1>2, <2>5, <2>6, <2>9, SeqEqual
  <2>11. h \o SubSeq(q, (5 + n) + 1, Len(q)) = SubSeq(q, 1, Len(q)) BY <2>4, PartsMeet DEF h
  <2>12. SubSeq(q, 1, Len(q)) = q BY SubSeqFull
  <2> QED BY <2>3, <2>4, <2>10, <2>11, <2>12
<1>10. ASSUME Len(q) >= 5, Len(q) <= Len(e) PROVE IsPrefix(SubSeq(q, 6, Len(q)), d)
  <2> DEFINE j == Len(q)
             r == SubSeq(q, 6, j)
  <2>1. j \in 5 .. Len(q) /\ j <= 5 + n /\ j - 5 \in 0 .. Len(d) /\ j \in Nat
    BY <1>1, <1>2, <1>3, <1>10
  <2>2. r \in Seq(Byte) /\ Len(r) = j - 5 /\ \A i \in 1 .. j - 5 : r[i] = d[i] BY <1>8, <2>1
  <2> HIDE DEF j, r
  <2> DEFINE c == SubSeq(d, 1, j - 5)
  <2>3. 0 \in Nat /\ 0 + 1 = 1 /\ 1 \in Int /\ j - 5 \in Int BY <2>1
  <2>4. c \in Seq(Byte) /\ Len(c) = IF 0 <= j - 5 THEN (j - 5) - 0 ELSE 0
    BY <1>1, <2>1, <2>3, PartType
  <2>5. Len(c) = j - 5 BY <2>1, <2>4
  <2>6. \A i \in 1 .. j - 5 : d[i] \in Byte
    <3>1. \A i \in 1 .. j - 5 : i \in 1 .. Len(d) BY <1>1, <2>1
    <3> QED BY <1>1, <3>1, ElementOfSeq
  <2>7. \A i \in 1 .. (j - 5) - 1 + 1 : c[i] = d[1 + i - 1] BY <2>3, <2>6, SubSeqProperties
  <2> HIDE DEF c
  <2>8. \A i \in 1 .. j - 5 : c[i] = r[i]
    <3>1. \A i \in 1 .. j - 5 : i \in 1 .. (j - 5) - 1 + 1 /\ 1 + i - 1 = i BY <2>1
    <3> QED BY <2>2, <2>7, <3>1
  <2>9. c = r BY <2>2, <2>4, <2>5, <2>8, SeqEqual
  <2>10. SubSeq(r, 1, Len(r)) = r BY <2>2, SubSeqFull
  <2> QED BY <2>1, <2>2, <2>9, <2>10 DEF IsPrefix, c, r, j
<1> QED BY <1>5, <1>6, <1>7, <1>9, <1>10 DEF d, n, e

-----------------------------------------------------------------------------
(* The invariant. While the body is read, its bytes that could be decoded    *)
(* are the frames given out, and then the queue of bytes; the queue of       *)
(* characters is what follows on the wire.                                   *)

\* Lengths that the reader of a header can put together.
SmallFrames == \A b \in Bodies : \A i \in DOMAIN b : Len(b[i].data) < TwoTo31

Safe == SafeTo(arrived, Unit(encoding))
Got == Decoded(encoding, SubSeq(wire, 1, Safe))
Rest == Decoded(encoding, SubSeq(wire, Safe + 1, Len(wire)))

Given == Len(frames)

Reading ==
    /\ Given \in 0 .. Len(body) /\ frames = SubSeq(body, 1, Given)
    /\ base64queue = SubSeq(wire, Safe + 1, arrived)
    /\ Got = Bytes(frames) \o byteQueue

BodyInv ==
    /\ body \in Bodies /\ encoding \in Encodings
    /\ arrived \in 0 .. Len(wire) /\ byteQueue \in Seq(Byte)
    /\ result = "pending" => Reading
    /\ result # "pending" => FramesAsSent /\ CompleteOrError

LEMMA DecodedNothing == \A enc : Decoded(enc, <<>>) = <<>>
<1>1. <<>> \in Seq(Char) /\ Len(<<>>) = 0 /\ 0 \div 4 = 0 OBVIOUS
<1>2. Decodes(<<>>) \in Seq(Seq(Byte)) /\ Len(Decodes(<<>>)) = 0
      /\ Base64Decode(<<>>) = FlattenSeq(Decodes(<<>>))
  BY <1>1, DecodesType
<1>3. Decodes(<<>>) = <<>> BY <1>2, EmptySeq
<1>4. Base64Decode(<<>>) = <<>> BY <1>2, <1>3, FlattenEmpty
<1> QED BY <1>4 DEF Decoded

LEMMA WireFacts ==
    ASSUME body \in Bodies, encoding \in Encodings, arrived \in 0 .. Len(wire)
    PROVE  /\ body \in Seq(Frames) /\ wire \in Seq(Letters(encoding))
           /\ Len(wire) % Unit(encoding) = 0 /\ Decoded(encoding, wire) = Bytes(body)
           /\ Len(body) \in Nat /\ Len(wire) \in Nat
           /\ Safe \in 0 .. arrived /\ Safe % Unit(encoding) = 0
           /\ arrived = Len(wire) => Safe = arrived
<1>1. body \in Seq(Frames) BY BodiesAssumption
<1>2. wire \in Seq(Letters(encoding)) /\ Len(wire) % Unit(encoding) = 0
      /\ Decoded(encoding, wire) = Bytes(body)
  BY <1>1, WireIsBytes DEF wire
<1>3. Len(body) \in Nat /\ Len(wire) \in Nat BY <1>1, <1>2, LenProperties
<1>4. arrived \in Nat BY <1>3
<1>5. /\ Safe \in 0 .. arrived /\ Safe % Unit(encoding) = 0
      /\ arrived % Unit(encoding) = 0 => Safe = arrived
  BY <1>4, SafeToIs DEF Safe
<1> QED BY <1>1, <1>2, <1>3, <1>5

LEMMA ReadFacts ==
    ASSUME body \in Bodies, encoding \in Encodings, arrived \in 0 .. Len(wire)
    PROVE  /\ Got \in Seq(Byte) /\ Rest \in Seq(Byte) /\ Bytes(body) = Got \o Rest
           /\ Decodable = Len(Got)
           /\ arrived = Len(wire) => Rest = <<>>
<1> DEFINE x == SubSeq(wire, 1, Safe)
           y == SubSeq(wire, Safe + 1, Len(wire))
<1>1. /\ wire \in Seq(Letters(encoding)) /\ Decoded(encoding, wire) = Bytes(body)
      /\ Len(wire) \in Nat /\ Safe \in 0 .. arrived /\ Safe % Unit(encoding) = 0
      /\ arrived = Len(wire) => Safe = arrived
  BY WireFacts
<1>2. /\ 0 \in Nat /\ 0 + 1 = 1 /\ Safe \in Nat /\ Safe \in 0 .. Len(wire)
      /\ Len(wire) \in Safe .. Len(wire) /\ Len(wire) \in 0 .. Len(wire)
      /\ arrived \in 0 .. Len(wire)
  BY <1>1
<1>3. x \in Seq(Letters(encoding)) /\ y \in Seq(Letters(encoding)) BY <1>1, <1>2, PartType
<1>4. Len(x) = Safe
  <2>1. Len(x) = IF 0 <= Safe THEN Safe - 0 ELSE 0 BY <1>1, <1>2, PartType
  <2> QED BY <1>2, <2>1
<1>5. x \o y = wire
  <2>1. SubSeq(wire, 0 + 1, Safe) \o SubSeq(wire, Safe + 1, Len(wire)) =
          SubSeq(wire, 0 + 1, Len(wire))
    BY <1>1, <1>2, PartsMeet
  <2>2. SubSeq(wire, 1, Len(wire)) = wire BY <1>1, SubSeqFull
  <2> QED BY <1>2, <2>1, <2>2
<1>6. Got = Decoded(encoding, x) /\ Rest = Decoded(encoding, y) BY DEF Got, Rest
<1>7. ASSUME arrived = Len(wire) PROVE Rest = <<>>
  <2>1. y = <<>> BY <1>1, <1>2, <1>7, SubSeqEmpty
  <2> QED BY <1>6, <2>1, DecodedNothing
<1>8. Decodable = Len(Got)
  <2>1. CASE encoding = "binary"
    <3>1. Safe = arrived
      <4>1. Unit(encoding) = 1 /\ arrived % 1 = 0 /\ arrived - 0 = arrived BY <1>2, <2>1 DEF Unit
      <4> QED BY <4>1 DEF Safe, SafeTo
    <3> QED BY <1>4, <1>6, <2>1, <3>1 DEF Decodable, Decoded
  <2>2. CASE encoding # "binary"
    <3>1. Safe = arrived - (arrived % 4) BY <2>2 DEF Safe, SafeTo, Unit
    <3> QED BY <1>6, <2>2, <3>1 DEF Decodable, Decoded
  <2> QED BY <2>1, <2>2
<1> HIDE DEF x, y
<1>9. Bytes(body) = Got \o Rest BY <1>1, <1>3, <1>4, <1>5, <1>6, DecodedConcat
<1> QED BY <1>3, <1>6, <1>7, <1>8, <1>9, DecodedType

\* What stands at the front of the queue of bytes.
LEMMA QueueFacts ==
    ASSUME SmallFrames, BodyInv, result = "pending"
    PROVE  /\ Given = Len(body) => byteQueue = <<>>
           /\ Given < Len(body) =>
                /\ body[Given + 1] \in Frames /\ Len(body[Given + 1].data) < TwoTo31
                /\ BeginsAs(byteQueue, body[Given + 1])
                /\ Len(Encode(body[Given + 1])) <= Len(byteQueue) + Len(Rest)
                /\ Given + 1 = Len(body) => Len(byteQueue) <= Len(Encode(body[Given + 1]))
<1>1. /\ body \in Bodies /\ encoding \in Encodings /\ arrived \in 0 .. Len(wire)
      /\ byteQueue \in Seq(Byte) /\ Reading
  BY DEF BodyInv
<1>2. body \in Seq(Frames) /\ Len(body) \in Nat /\ DOMAIN body = 1 .. Len(body)
  BY <1>1, WireFacts, LenProperties
<1>3. Given \in 0 .. Len(body) /\ frames = SubSeq(body, 1, Given) BY <1>1 DEF Reading
<1>4. Bytes(body) = (Bytes(SubSeq(body, 1, Given)) \o byteQueue) \o Rest /\ Rest \in Seq(Byte)
  BY <1>1, <1>3, ReadFacts DEF Reading
<1>5. Behind(body, Given) = byteQueue \o Rest BY <1>1, <1>2, <1>3, <1>4, QueueIsBehind
<1>6. ASSUME Given < Len(body)
      PROVE  body[Given + 1] \in Frames /\ Len(body[Given + 1].data) < TwoTo31
  <2>1. Given + 1 \in 1 .. Len(body) BY <1>2, <1>3, <1>6
  <2> QED BY <1>1, <1>2, <2>1, ElementOfSeq DEF SmallFrames
<1> QED BY <1>1, <1>2, <1>3, <1>4, <1>5, <1>6, FrameInFront

LEMMA BodyInvInit == ASSUME BodyInit PROVE BodyInv
<1>1. /\ body \in Bodies /\ encoding \in Encodings /\ arrived = 0 /\ base64queue = <<>>
      /\ byteQueue = <<>> /\ frames = <<>> /\ result = "pending"
  BY DEF BodyInit
<1>2. body \in Seq(Frames) /\ wire \in Seq(Letters(encoding))
  BY <1>1, BodiesAssumption, WireIsBytes DEF wire
<1>3. arrived \in 0 .. Len(wire) /\ Len(body) \in Nat BY <1>1, <1>2, LenProperties
<1>4. Safe = 0
  <2>1. Safe \in 0 .. arrived BY <1>1, <1>3, WireFacts
  <2> QED BY <1>1, <2>1
<1>5. SubSeq(wire, 1, 0) = <<>> /\ SubSeq(body, 1, 0) = <<>> BY SubSeqEmpty
<1>6. Got = <<>> BY <1>4, <1>5, DecodedNothing DEF Got
<1>7. Bytes(frames) \o byteQueue = <<>>
  <2>1. <<>> \in Seq(Byte) OBVIOUS
  <2> QED BY <1>1, <2>1, BytesEmpty, ConcatEmptySeq
<1>8. Given = 0 /\ 0 \in 0 .. Len(body) BY <1>1, <1>3 DEF Given
<1>9. base64queue = SubSeq(wire, Safe + 1, arrived) BY <1>1, <1>4, <1>5
<1>10. Reading BY <1>1, <1>5, <1>6, <1>7, <1>8, <1>9 DEF Reading
<1>11. byteQueue \in Seq(Byte) BY <1>1
<1> QED BY <1>1, <1>3, <1>10, <1>11 DEF BodyInv

-----------------------------------------------------------------------------
(* The steps.                                                                *)

LEMMA NextChunkReads ==
    ASSUME BodyInv, NextChunk PROVE BodyInv'
<1>1. /\ body \in Bodies /\ encoding \in Encodings /\ arrived \in 0 .. Len(wire)
      /\ byteQueue \in Seq(Byte) /\ Reading /\ result = "pending"
      /\ UNCHANGED <<body, encoding, frames, result>>
  BY DEF BodyInv, NextChunk
<1>2. /\ wire \in Seq(Letters(encoding)) /\ Len(wire) \in Nat
      /\ Safe \in 0 .. arrived /\ Safe % Unit(encoding) = 0
  BY <1>1, WireFacts
<1>3. PICK n \in 1 .. Len(wire) - arrived :
        /\ arrived' = arrived + n
        /\ IF encoding = "binary" THEN ReceiveBinary(SubSeq(wire, arrived + 1, arrived + n))
           ELSE ReceiveText(SubSeq(wire, arrived + 1, arrived + n))
  BY DEF NextChunk
<1> DEFINE b == arrived + n
           to == SafeTo(b, Unit(encoding))
           chunk == SubSeq(wire, arrived + 1, b)
           piece == SubSeq(wire, Safe + 1, to)
<1>4. wire' = wire /\ Safe' = to /\ arrived' = b BY <1>1, <1>3 DEF wire, Safe
<1>5. b \in arrived .. Len(wire) /\ b \in Nat /\ arrived \in Nat BY <1>1, <1>2, <1>3
<1>6. to \in 0 .. b BY <1>5, SafeToIs
<1> HIDE DEF b, to
\* What is decoded, and what remains of the characters.
<1>7. /\ Safe <= to /\ byteQueue' = byteQueue \o Decoded(encoding, piece)
      /\ base64queue' = SubSeq(wire, to + 1, b)
  <2>1. CASE encoding = "binary"
    <3>1. Safe = arrived /\ to = b
      <4>1. Unit(encoding) = 1 /\ arrived % 1 = 0 /\ b % 1 = 0 /\ arrived - 0 = arrived /\ b - 0 = b
        BY <1>5, <2>1 DEF Unit
      <4> QED BY <4>1 DEF Safe, SafeTo, to
    <3>2. byteQueue' = byteQueue \o chunk /\ base64queue' = base64queue
      BY <1>3, <2>1 DEF ReceiveBinary, b
    <3>3. base64queue = <<>> /\ SubSeq(wire, to + 1, b) = <<>>
      <4>1. base64queue = SubSeq(wire, arrived + 1, arrived) BY <1>1, <3>1 DEF Reading
      <4>2. arrived < arrived + 1 /\ b < b + 1 /\ arrived \in Int /\ b \in Int BY <1>5
      <4> QED BY <3>1, <4>1, <4>2, SubSeqEmpty
    <3>4. Decoded(encoding, piece) = chunk BY <2>1, <3>1 DEF Decoded
    <3>5. Safe <= to BY <1>5, <3>1
    <3>6. byteQueue' = byteQueue \o Decoded(encoding, piece) BY <3>2, <3>4
    <3>7. base64queue' = SubSeq(wire, to + 1, b) BY <3>2, <3>3
    <3> QED BY <3>5, <3>6, <3>7
  <2>2. CASE encoding # "binary"
    <3>1. Unit(encoding) = 4 /\ wire \in Seq(Char) BY <1>2, <2>2 DEF Unit, Letters
    <3>2. Safe = SafeTo(arrived, 4) /\ to = SafeTo(b, 4) BY <3>1 DEF Safe, to
    <3> DEFINE queue == base64queue \o chunk
    <3>3. queue = SubSeq(wire, SafeTo(arrived, 4) + 1, arrived) \o SubSeq(wire, arrived + 1, b)
      BY <1>1, <3>2 DEF Reading
    <3>4. /\ byteQueue' = byteQueue \o Base64Decode(SubSeq(queue, 1, SafeLen(queue)))
          /\ base64queue' = SubSeq(queue, SafeLen(queue) + 1, Len(queue))
      BY <1>3, <2>2 DEF ReceiveText, b
    <3> HIDE DEF queue
    <3>5. Received(wire, arrived, b, queue) BY <1>5, <3>1, <3>3, TextReceived
    <3>6. Decoded(encoding, piece) = Base64Decode(piece) BY <2>2 DEF Decoded
    <3> QED BY <3>2, <3>4, <3>5, <3>6 DEF Received
  <2> QED BY <2>1, <2>2
<1>8. /\ 0 \in Nat /\ 0 + 1 = 1 /\ Safe \in Nat /\ Safe \in 0 .. Len(wire) /\ to \in Safe .. Len(wire)
      /\ to \in 0 .. Len(wire)
  BY <1>1, <1>2, <1>5, <1>6, <1>7
<1> DEFINE x == SubSeq(wire, 1, Safe)
<1>9. x \in Seq(Letters(encoding)) /\ piece \in Seq(Letters(encoding)) BY <1>2, <1>8, PartType
<1>10. Len(x) = Safe
  <2>1. Len(x) = IF 0 <= Safe THEN Safe - 0 ELSE 0 BY <1>2, <1>8, PartType
  <2> QED BY <1>8, <2>1
<1>11. x \o piece = SubSeq(wire, 1, to)
  <2>1. SubSeq(wire, 0 + 1, Safe) \o SubSeq(wire, Safe + 1, to) = SubSeq(wire, 0 + 1, to)
    BY <1>2, <1>8, PartsMeet
  <2> QED BY <1>8, <2>1
<1>12. Got = Decoded(encoding, x) /\ Got' = Decoded(encoding, SubSeq(wire, 1, to))
  BY <1>1, <1>4 DEF Got
<1> HIDE DEF x, piece
<1>13. Got' = Got \o Decoded(encoding, piece)
  BY <1>2, <1>9, <1>10, <1>11, <1>12, DecodedConcat
<1>14. Decoded(encoding, piece) \in Seq(Byte) BY <1>9, DecodedType
<1>15. frames \in Seq(Frames)
  <2>1. body \in Seq(Frames) /\ Given \in 0 .. Len(body) /\ frames = SubSeq(body, 0 + 1, Given)
    BY <1>1, <1>8, WireFacts DEF Reading
  <2> QED BY <1>8, <2>1, PartType
<1>16. Got' = Bytes(frames) \o (byteQueue \o Decoded(encoding, piece))
  <2>1. Bytes(frames) \in Seq(Byte) BY <1>15, EncodedType
  <2>2. Associates(Bytes(frames), byteQueue, Decoded(encoding, piece))
    BY <1>1, <1>14, <2>1, ConcatAssociates
  <2> QED BY <1>1, <1>13, <2>2 DEF Associates, Reading
<1>17. byteQueue' \in Seq(Byte) BY <1>1, <1>7, <1>14, ConcatProperties
<1>18. Reading'
  <2>1. Given' \in 0 .. Len(body') /\ frames' = SubSeq(body', 1, Given')
    BY <1>1 DEF Reading, Given
  <2>2. base64queue' = SubSeq(wire', Safe' + 1, arrived') BY <1>4, <1>7
  <2>3. Got' = Bytes(frames') \o byteQueue' BY <1>1, <1>7, <1>16
  <2> QED BY <2>1, <2>2, <2>3 DEF Reading
<1>19. arrived' \in 0 .. Len(wire') BY <1>4, <1>5
<1> QED BY <1>1, <1>17, <1>18, <1>19 DEF BodyInv

\* The frames that were given out, one by one.
LEMMA GivenFacts ==
    ASSUME body \in Bodies, Reading
    PROVE  /\ body \in Seq(Frames) /\ Len(body) \in Nat /\ DOMAIN body = 1 .. Len(body)
           /\ Given \in 0 .. Len(body) /\ frames = SubSeq(body, 1, Given)
           /\ frames \in Seq(Frames) /\ Len(frames) = Given /\ DOMAIN frames = 1 .. Given
           /\ \A i \in 1 .. Given : frames[i] = body[i]
           /\ Given = Len(body) => frames = body
<1>1. body \in Seq(Frames) /\ Len(body) \in Nat /\ DOMAIN body = 1 .. Len(body)
  BY BodiesAssumption, LenProperties
<1>2. Given \in 0 .. Len(body) /\ frames = SubSeq(body, 1, Given) BY DEF Reading
<1>3. 0 \in Nat /\ 0 + 1 = 1 /\ 1 \in Int /\ Given \in Int BY <1>1, <1>2
<1>4. frames \in Seq(Frames) BY <1>1, <1>2, <1>3, PartType
<1>5. Len(frames) = Given /\ DOMAIN frames = 1 .. Given BY <1>4, LenProperties DEF Given
<1>6. \A i \in 1 .. Given : body[i] \in Frames
  <2>1. \A i \in 1 .. Given : i \in 1 .. Len(body) BY <1>1, <1>2
  <2> QED BY <1>1, <2>1, ElementOfSeq
<1>7. \A i \in 1 .. Given - 1 + 1 : SubSeq(body, 1, Given)[i] = body[1 + i - 1]
  BY <1>3, <1>6, SubSeqProperties
<1>8. \A i \in 1 .. Given : i \in 1 .. Given - 1 + 1 /\ 1 + i - 1 = i BY <1>1, <1>2
<1>9. \A i \in 1 .. Given : frames[i] = body[i] BY <1>2, <1>7, <1>8
<1>10. Given = Len(body) => frames = body BY <1>1, <1>2, SubSeqFull
<1> QED BY <1>1, <1>2, <1>4, <1>5, <1>9, <1>10

LEMMA UpTo == \A n \in Nat : \A k \in 0 .. n : k \in Nat /\ k <= n /\ (k < n \/ k = n)
OBVIOUS

LEMMA EmitFrameReads ==
    ASSUME SmallFrames, BodyInv, EmitFrame PROVE BodyInv'
<1>1. /\ body \in Bodies /\ encoding \in Encodings /\ arrived \in 0 .. Len(wire)
      /\ byteQueue \in Seq(Byte) /\ Reading /\ result = "pending" /\ HasFrame(byteQueue)
      /\ UNCHANGED <<body, encoding, arrived, base64queue, result>>
  BY DEF BodyInv, EmitFrame
<1> DEFINE q == byteQueue
           f == body[Given + 1]
           n == Len(f.data)
           q2 == SubSeq(q, 6 + n, Len(q))
<1>2. /\ Len(body) \in Nat /\ Given \in 0 .. Len(body) /\ frames = SubSeq(body, 1, Given)
      /\ frames \in Seq(Frames) /\ body \in Seq(Frames)
  BY <1>1, GivenFacts
<1>3. Len(q) \in Nat /\ Len(q) >= 5 BY <1>1, LenProperties DEF HasFrame
<1>4. Given < Len(body)
  <2>1. q # <<>> BY <1>1, <1>3, EmptySeq
  <2> QED BY <1>1, <1>2, <2>1, QueueFacts
<1>5. f \in Frames /\ n < TwoTo31 /\ BeginsAs(q, f) BY <1>1, <1>4, QueueFacts
<1> HIDE DEF f, q
<1>6. f.type = DATA /\ Len(q) >= Len(Encode(f)) /\ MsgLen(q) = n
      /\ SubSeq(q, 6, 5 + n) = f.data /\ q = Encode(f) \o q2
  <2>1. q \in Seq(Byte) /\ HasFrame(q) BY <1>1 DEF q
  <2>2. f.type = DATA /\ Len(q) >= Len(Encode(f)) BY <1>5, <2>1, FrameRead
  <2> QED BY <1>3, <1>5, <2>1, <2>2, FrameRead
<1>7. n \in Nat /\ f = [type |-> DATA, data |-> f.data]
  <2>1. f.data \in Seq(Byte) /\ f = [type |-> f.type, data |-> f.data] BY <1>5 DEF Frames
  <2> QED BY <1>6, <2>1, LenProperties
<1>8. frames' = Append(frames, f) /\ byteQueue' = q2
  <2>1. /\ frames' = Append(frames, [type |-> DATA, data |-> SubSeq(q, 6, 5 + MsgLen(q))])
        /\ byteQueue' = SubSeq(q, 6 + MsgLen(q), Len(q))
    BY DEF EmitFrame, q
  <2> QED BY <1>6, <1>7, <2>1
<1>9. q2 \in Seq(Byte)
  <2>1. 5 + n \in Nat /\ (5 + n) + 1 = 6 + n /\ Len(q) \in 0 .. Len(q) /\ q \in Seq(Byte)
    BY <1>1, <1>3, <1>7 DEF q
  <2>2. SubSeq(q, (5 + n) + 1, Len(q)) \in Seq(Byte) BY <2>1, PartType
  <2> QED BY <2>1, <2>2
<1> HIDE DEF q2, n
<1>10. /\ Bytes(SubSeq(body, 1, Given + 1)) = Bytes(frames) \o Encode(f)
       /\ frames' = SubSeq(body, 1, Given + 1)
  <2>1. Given \in Nat /\ Given + 1 <= Len(body) BY <1>2, <1>4
  <2> QED BY <1>2, <1>8, <2>1, FrontBytes DEF f
<1>11. Given' = Given + 1 /\ Given' \in 0 .. Len(body)
  <2>1. Len(frames') = Len(frames) + 1 BY <1>2, <1>5, <1>8, AppendProperties
  <2> QED BY <1>2, <1>4, <2>1 DEF Given
<1>12. Got' = Bytes(frames') \o byteQueue'
  <2>1. Got = Bytes(frames) \o (Encode(f) \o q2) BY <1>1, <1>6 DEF Reading, q
  <2>2. Bytes(frames) \in Seq(Byte) /\ Encode(f) \in Seq(Byte)
    BY <1>2, <1>5, EncodedType, FrameBytes
  <2>3. Associates(Bytes(frames), Encode(f), q2) BY <1>9, <2>2, ConcatAssociates
  <2>4. Got' = Got BY <1>1 DEF Got, Safe, wire
  <2>5. Bytes(frames') = Bytes(frames) \o Encode(f) BY <1>10
  <2> QED BY <1>8, <2>1, <2>3, <2>4, <2>5 DEF Associates
<1>13. Reading'
  <2>1. frames' = SubSeq(body', 1, Given') /\ Given' \in 0 .. Len(body')
    BY <1>1, <1>10, <1>11
  <2>2. base64queue' = SubSeq(wire', Safe' + 1, arrived')
    BY <1>1 DEF Reading, wire, Safe
  <2> QED BY <1>12, <2>1, <2>2 DEF Reading
<1>14. byteQueue' \in Seq(Byte) BY <1>8, <1>9
<1>15. arrived' \in 0 .. Len(wire') BY <1>1 DEF wire
<1> QED BY <1>1, <1>13, <1>14, <1>15 DEF BodyInv

\* The end of the stream: each of its three outcomes.
LEMMA EndTells ==
    ASSUME SmallFrames, BodyInv, EndOfStream PROVE FramesAsSent' /\ CompleteOrError'
<1>1. /\ body \in Bodies /\ encoding \in Encodings /\ arrived \in 0 .. Len(wire)
      /\ byteQueue \in Seq(Byte) /\ Reading /\ result = "pending" /\ ~HasFrame(byteQueue) /\ AtEnd
      /\ UNCHANGED <<body, encoding, arrived, base64queue, byteQueue>>
  BY DEF BodyInv, EndOfStream
<1> DEFINE q == byteQueue
           f == body[Given + 1]
           e == Encode(f)
<1>2. Len(body) \in Nat /\ Given \in 0 .. Len(body) /\ DOMAIN body = 1 .. Len(body)
  BY <1>1, GivenFacts
<1>n. /\ Given \in Nat /\ Given <= Len(body)
      /\ Given < Len(body) \/ Given = Len(body)
  BY <1>2, UpTo
<1>t. frames \in Seq(Frames) /\ body \in Seq(Frames) /\ frames = SubSeq(body, 1, Given)
  BY <1>1, GivenFacts
<1>g. /\ Len(frames) = Given /\ DOMAIN frames = 1 .. Given
      /\ \A i \in 1 .. Given : frames[i] = body[i]
      /\ Given = Len(body) => frames = body
  BY <1>1, GivenFacts
<1>3. Len(q) \in Nat /\ (q = <<>> <=> Len(q) = 0) BY <1>1, LenProperties, EmptySeq
<1>4. /\ Rest \in Seq(Byte) /\ Len(Rest) \in Nat /\ Decodable = Len(Got)
      /\ arrived = Len(wire) => Len(Rest) = 0
  BY <1>1, ReadFacts, LenProperties, EmptySeq
<1>5. /\ Given = Len(body) => q = <<>>
      /\ Given < Len(body) => /\ f \in Frames /\ Len(f.data) < TwoTo31 /\ BeginsAs(q, f)
                              /\ Len(e) <= Len(q) + Len(Rest)
                              /\ Given + 1 = Len(body) => Len(q) <= Len(e)
  BY <1>1, QueueFacts
<1>6. Given < Len(body) =>
        /\ Len(e) = 5 + Len(f.data) /\ Len(f.data) \in Nat /\ f.type \in {DATA, TRAILER}
        /\ f = [type |-> f.type, data |-> f.data] /\ f.data \in Seq(Byte)
  <2>1. Given < Len(body) => f.data \in Seq(Byte) /\ f.type \in {DATA, TRAILER}
                             /\ f = [type |-> f.type, data |-> f.data]
    BY <1>5 DEF Frames
  <2> QED BY <1>5, <2>1, FrameBytes, LenProperties
<1>7. /\ body' = body /\ Len(wire') = Len(wire) /\ arrived' = arrived /\ Decodable' = Decodable
  BY <1>1 DEF wire, Decodable
<1>h. \A i \in DOMAIN frames : i <= Len(body) /\ frames[i] = body[i]
  <2>1. \A i \in 1 .. Given : i <= Len(body) BY <1>2
  <2> QED BY <1>g, <2>1
<1> HIDE DEF q, f, e
<1>8. CASE q = <<>> /\ result' = "resolved" /\ UNCHANGED frames
  <2>1. ASSUME arrived = Len(wire) PROVE frames = body
    <3>1. ~(Given < Len(body)) BY <1>3, <1>4, <1>5, <1>6, <1>8, <2>1
    <3>2. Given = Len(body) BY <1>n, <3>1
    <3> QED BY <1>g, <3>2
  <2>2. ASSUME NEW i \in DOMAIN body, Given < i
        PROVE  Len(Bytes(SubSeq(body, 1, i - 1))) >= Decodable
    <3>1. /\ Given \in 0 .. Len(body) /\ i - 1 \in Given .. Len(body) /\ 0 \in Nat
          /\ Given \in Nat /\ 0 + 1 = 1
      BY <1>2, <2>2
    <3>2. Len(Bytes(SubSeq(body, 0 + 1, Given))) <= Len(Bytes(SubSeq(body, 0 + 1, i - 1)))
      BY <1>t, <3>1, PartBytes
    <3>3. Got = Bytes(frames)
      <4>1. Bytes(frames) \in Seq(Byte) BY <1>t, EncodedType
      <4>2. Got = Bytes(frames) \o <<>> BY <1>1, <1>8 DEF Reading, q
      <4> QED BY <4>1, <4>2, ConcatEmptySeq
    <3>4. Len(Bytes(SubSeq(body, 1, i - 1))) \in Nat /\ Len(Got) \in Nat
      <4>1. SubSeq(body, 1, i - 1) \in Seq(Frames)
        <5>1. i - 1 \in 0 .. Len(body) BY <1>2
        <5> QED BY <1>t, <3>1, <5>1, PartType
      <4> QED BY <1>t, <3>3, <4>1, EncodedType, LenProperties
    <3> QED BY <1>t, <1>4, <3>1, <3>2, <3>3, <3>4
  <2>3. FramesAsSent' BY <1>h, <1>7, <1>8 DEF FramesAsSent, Whole
  <2>4. Len(frames') = Given BY <1>g, <1>8
  <2>5. CompleteOrError' BY <1>7, <1>8, <2>1, <2>2, <2>4 DEF CompleteOrError
  <2> QED BY <2>3, <2>5
<1>9. CASE /\ q # <<>> /\ (q[1] # TRAILER \/ Len(q) < 5)
           /\ result' = "premature EOF" /\ UNCHANGED frames
  <2>1. arrived # Len(wire)
    <3> SUFFICES ASSUME arrived = Len(wire) PROVE FALSE OBVIOUS
    <3>1. Given < Len(body) BY <1>n, <1>5, <1>9
    <3>2. Len(q) >= Len(e) /\ Len(q) >= 5 BY <1>3, <1>4, <1>5, <1>6, <3>1
    <3>3. q[1] = f.type BY <1>1, <1>5, <1>9, <3>1, FrameRead DEF q
    <3>4. ~(Len(q) < 5) BY <1>3, <3>2
    <3>5. f.type # TRAILER BY <1>9, <3>3, <3>4
    <3>6. f.type = DATA BY <1>6, <3>1, <3>5
    <3>7. HasFrame(q) BY <1>1, <1>5, <3>1, <3>2, <3>6, FrameRead DEF q, e
    <3> QED BY <1>1, <3>7 DEF q
  <2>2. FramesAsSent' BY <1>h, <1>7, <1>9 DEF FramesAsSent, Whole
  <2>3. CompleteOrError' BY <1>7, <1>9, <2>1 DEF CompleteOrError
  <2> QED BY <2>2, <2>3
<1>10. CASE /\ q # <<>> /\ q[1] = TRAILER /\ Len(q) >= 5
            /\ frames' = Append(frames, [type |-> TRAILER, data |-> SubSeq(q, 6, Len(q))])
            /\ result' = "resolved"
  <2> DEFINE d == SubSeq(q, 6, Len(q))
             t == [type |-> TRAILER, data |-> d]
  <2>1. Given < Len(body) BY <1>n, <1>5, <1>10
  <2>2. f.type = TRAILER
    <3>1. q[1] = f.type BY <1>1, <1>5, <1>10, <2>1, FrameRead DEF q
    <3> QED BY <1>10, <3>1
  <2>3. Given + 1 = Len(body)
    <3>1. Given + 1 \in DOMAIN body BY <1>2, <2>1
    <3> QED BY <1>1, <2>2, <3>1, BodiesAssumption DEF f
  <2>4. Len(q) <= Len(e) BY <1>5, <2>1, <2>3
  <2>5. IsPrefix(d, f.data) BY <1>1, <1>5, <1>10, <2>1, <2>4, FrameRead DEF q, e
  <2>6. t \in Frames
    <3>1. d \in Seq(Byte)
      <4>1. 5 \in Nat /\ 5 + 1 = 6 /\ Len(q) \in 0 .. Len(q) /\ q \in Seq(Byte)
        BY <1>1, <1>3 DEF q
      <4> QED BY <4>1, PartType
    <3> QED BY <3>1 DEF Frames
  <2>7. ASSUME arrived = Len(wire) PROVE t = f
    <3>1. Len(q) = 5 + Len(f.data) /\ Len(q) >= Len(e)
      BY <1>3, <1>4, <1>5, <1>6, <2>1, <2>4, <2>7
    <3>2. SubSeq(q, 6, 5 + Len(f.data)) = f.data
      BY <1>1, <1>5, <2>1, <3>1, FrameRead DEF q, e
    <3>3. d = f.data BY <3>1, <3>2
    <3> QED BY <1>6, <2>1, <2>2, <3>3
  <2> HIDE DEF t
  <2>8. /\ Len(frames') = Given + 1 /\ DOMAIN frames' = 1 .. Given + 1
        /\ frames'[Given + 1] = t /\ \A i \in 1 .. Given : frames'[i] = frames[i]
    <3>1. frames' = Append(frames, t) BY <1>10 DEF t
    <3>2. Append(frames, t) \in Seq(Frames) /\ Len(Append(frames, t)) = Len(frames) + 1
          /\ Append(frames, t)[Len(frames) + 1] = t
          /\ \A i \in 1 .. Len(frames) : Append(frames, t)[i] = frames[i]
      BY <1>t, <2>6, AppendProperties
    <3>3. DOMAIN Append(frames, t) = 1 .. Len(Append(frames, t)) BY <3>2, LenProperties
    <3> QED BY <1>g, <3>1, <3>2, <3>3
  <2>9. FramesAsSent'
    <3> SUFFICES ASSUME NEW i \in 1 .. Given + 1
                 PROVE  \/ i <= Len(body) /\ frames'[i] = body[i]
                        \/ /\ i = Len(frames') /\ i <= Len(body)
                           /\ frames'[i].type = TRAILER /\ body[i].type = TRAILER
                           /\ IsPrefix(frames'[i].data, body[i].data)
      BY <1>7, <2>8 DEF FramesAsSent, Whole
    <3>1. CASE i \in 1 .. Given BY <1>g, <1>h, <2>8, <3>1
    <3>2. CASE i \notin 1 .. Given
      <4>1. i = Given + 1 BY <1>2, <3>2
      <4>2. frames'[i] = t /\ t.type = TRAILER /\ t.data = d /\ body[i] = f
        BY <2>8, <4>1 DEF t, f
      <4>3. i = Len(frames') /\ i <= Len(body) BY <1>n, <2>3, <2>8, <4>1
      <4> QED BY <2>2, <2>5, <4>2, <4>3
    <3> QED BY <3>1, <3>2
  <2>10. ASSUME arrived = Len(wire) PROVE frames' = body
    <3>1. SubSeq(body, 1, Given + 1) = Append(SubSeq(body, 1, Given), f)
      <4>1. Given \in Nat /\ Given + 1 <= Len(body) BY <1>2, <2>3
      <4> QED BY <1>t, <4>1, FrontAppend DEF f
    <3>2. SubSeq(body, 1, Given + 1) = body BY <1>t, <2>3, SubSeqFull
    <3>3. frames' = Append(frames, f) BY <1>10, <2>7, <2>10 DEF t
    <3> QED BY <1>t, <3>1, <3>2, <3>3
  <2>11. \A i \in DOMAIN body : ~(Len(frames') < i) BY <1>2, <2>3, <2>8
  <2>12. CompleteOrError' BY <1>7, <1>10, <2>10, <2>11 DEF CompleteOrError
  <2> QED BY <2>9, <2>12
<1> QED BY <1>1, <1>8, <1>9, <1>10 DEF AtEnd, q

LEMMA BodyInvNext == ASSUME SmallFrames, BodyInv, [BodyNext]_bodyVars PROVE BodyInv'
<1>1. CASE NextChunk BY <1>1, NextChunkReads
<1>2. CASE EmitFrame BY <1>2, EmitFrameReads
<1>3. CASE EndOfStream
  <2>1. FramesAsSent' /\ CompleteOrError' BY <1>3, EndTells
  <2>2. /\ UNCHANGED <<body, encoding, arrived, byteQueue, wire>> /\ result' # "pending"
    BY <1>3 DEF EndOfStream, AtEnd, wire
  <2> QED BY <2>1, <2>2 DEF BodyInv
<1>4. CASE UNCHANGED bodyVars
  <2>1. UNCHANGED <<body, encoding, arrived, base64queue, byteQueue, frames, result, wire>>
    BY <1>4 DEF bodyVars, wire
  <2>2. UNCHANGED <<Safe, Got, Given, Decodable>> BY <2>1 DEF Safe, Got, Given, Decodable
  <2>3. Reading => Reading' BY <2>1, <2>2 DEF Reading
  <2>4. FramesAsSent => FramesAsSent' BY <2>1 DEF FramesAsSent, Whole
  <2>5. CompleteOrError => CompleteOrError' BY <2>1, <2>2 DEF CompleteOrError
  <2> QED BY <2>1, <2>3, <2>4, <2>5 DEF BodyInv
<1> QED BY <1>1, <1>2, <1>3, <1>4 DEF BodyNext

\* No frame that is there is held back: if the frames that were given out were

\* fewer, then the next one would be at the front of the queue, and whole.
LEMMA HeldBack ==
    ASSUME SmallFrames, BodyInv, result = "pending", ~HasFrame(byteQueue),
           NEW i \in DOMAIN body, body[i].type = DATA,
           Len(Bytes(SubSeq(body, 1, i))) <= Decodable
    PROVE  i <= Given
<1>1. /\ body \in Bodies /\ encoding \in Encodings /\ arrived \in 0 .. Len(wire)
      /\ byteQueue \in Seq(Byte) /\ Reading
  BY DEF BodyInv
<1>2. body \in Seq(Frames) /\ Given \in 0 .. Len(body) /\ frames = SubSeq(body, 1, Given)
      /\ frames \in Seq(Frames)
  BY <1>1, GivenFacts
<1>3. i \in 1 .. Len(body) /\ Len(body) \in Nat /\ Given \in Nat BY <1>1, GivenFacts, UpTo
<1> SUFFICES ASSUME Given < i PROVE FALSE BY <1>3
<1> DEFINE f == body[Given + 1]
           q == byteQueue
           x == Bytes(frames)
           z == Bytes(SubSeq(body, 1, Given + 1))
<1>4. f \in Frames /\ Len(f.data) < TwoTo31 /\ BeginsAs(q, f)
  <2>1. Given < Len(body) BY <1>3
  <2> QED BY <2>1, QueueFacts
<1>5. z = x \o Encode(f)
  <2>1. Given + 1 <= Len(body) BY <1>3
  <2> QED BY <1>2, <1>3, <2>1, FrontBytes
<1>6. Len(z) <= Len(Bytes(SubSeq(body, 1, i)))
  <2>1. 0 \in Nat /\ 0 + 1 = 1 /\ Given + 1 \in 0 .. Len(body) /\ i \in Given + 1 .. Len(body)
    BY <1>3
  <2>2. Len(Bytes(SubSeq(body, 0 + 1, Given + 1))) <= Len(Bytes(SubSeq(body, 0 + 1, i)))
    BY <1>2, <2>1, PartBytes
  <2> QED BY <2>1, <2>2
<1>7. f.type = DATA
  <2>1. CASE i = Given + 1 BY <2>1
  <2>2. CASE i # Given + 1
    <3>1. Given + 1 \in DOMAIN body /\ Given + 1 # Len(body)
      <4>1. Given + 1 \in 1 .. Len(body) /\ Given + 1 # Len(body) BY <1>3, <2>2
      <4> QED BY <1>2, <4>1, LenProperties
    <3>2. f.type # TRAILER BY <1>1, <3>1, BodiesAssumption
    <3> QED BY <1>4, <3>2 DEF Frames
  <2> QED BY <2>1, <2>2
<1>8. x \in Seq(Byte) /\ Encode(f) \in Seq(Byte) /\ q \in Seq(Byte)
  BY <1>1, <1>2, <1>4, EncodedType, FrameBytes
<1>9. Got = x \o q /\ Decodable = Len(Got) BY <1>1, ReadFacts DEF Reading
<1>10. Len(Bytes(SubSeq(body, 1, i))) \in Nat
  <2>1. 0 \in Nat /\ 0 + 1 = 1 /\ i \in 0 .. Len(body) BY <1>3
  <2>2. SubSeq(body, 0 + 1, i) \in Seq(Frames) BY <1>2, <2>1, PartType
  <2> QED BY <2>1, <2>2, EncodedType, LenProperties
<1> HIDE DEF f, q, x, z
<1>11. Len(x) + Len(Encode(f)) <= Len(x) + Len(q)
  <2>1. Joins(Byte, x, Encode(f)) /\ Joins(Byte, x, q) BY <1>8, ConcatJoins
  <2>2. Len(z) = Len(x) + Len(Encode(f)) BY <1>5, <2>1 DEF Joins
  <2>3. Decodable = Len(x) + Len(q) BY <1>9, <2>1 DEF Joins
  <2>4. Len(z) \in Nat /\ Decodable \in Nat
    <3>1. Len(x) \in Nat /\ Len(q) \in Nat /\ Len(Encode(f)) \in Nat BY <1>8, LenProperties
    <3> QED BY <2>2, <2>3, <3>1
  <2> QED BY <1>6, <1>10, <2>2, <2>3, <2>4
<1>12. Len(q) >= Len(Encode(f)) BY <1>8, <1>11, LenProperties
<1>13. HasFrame(q) BY <1>4, <1>7, <1>8, <1>12, FrameRead
<1> QED BY <1>13 DEF q

LEMMA BodyInvMeans == ASSUME SmallFrames, BodyInv PROVE BodyAsSent
<1>1. CASE result = "pending"
  <2>1. body \in Bodies /\ Reading BY <1>1 DEF BodyInv
  <2>2. /\ Len(frames) = Given /\ DOMAIN frames = 1 .. Given
        /\ \A i \in 1 .. Given : frames[i] = body[i]
    BY <2>1, GivenFacts
  <2>3. \A i \in 1 .. Given : i <= Len(body)
    <3>1. Given \in 0 .. Len(body) /\ Len(body) \in Nat BY <2>1, GivenFacts
    <3>2. Given \in Nat /\ Given <= Len(body) BY <3>1, UpTo
    <3> QED BY <3>1, <3>2
  <2>4. FramesAsSent BY <2>2, <2>3 DEF FramesAsSent, Whole
  <2>5. NothingHeldBack BY <2>2, HeldBack DEF NothingHeldBack
  <2>6. CompleteOrError BY <1>1 DEF CompleteOrError
  <2> QED BY <2>4, <2>5, <2>6 DEF BodyAsSent
<1>2. CASE result # "pending"
  <2>1. NothingHeldBack BY <1>2 DEF NothingHeldBack
  <2> QED BY <1>2, <2>1 DEF BodyInv, BodyAsSent
<1> QED BY <1>1, <1>2

\* Any frames of less than 2^31 bytes, in any of the encodings, cut into any
\* chunks, and cut off anywhere.
THEOREM BodyComesAsSent == ASSUME SmallFrames PROVE BodySpec => []BodyAsSent
<1>1. BodyInit => BodyInv BY BodyInvInit
<1>2. BodyInv /\ [BodyNext]_bodyVars => BodyInv' BY BodyInvNext
<1>3. BodyInv => BodyAsSent BY BodyInvMeans
<1> QED BY <1>1, <1>2, <1>3, PTL DEF BodySpec

-----------------------------------------------------------------------------
(* The chains of the two transports and their contract.                      *)

\* Where the chain of the transport that was called is.
Stage == IF transport = "twirp" THEN twirpAt ELSE pc

NotCalled == {"idle", "refused", "fetch"}
HeaderKnown == {"readError", "readJson", "readBinary", "message", "body", "finish"}

\* What is settled at each place of the chains. Between the header and the end
\* only the header is; in the catch handler status and trailers never are.
SettledAt ==
    /\ Stage \in NotCalled => \A d \in Deferreds : def[d] = "pending"
    /\ Stage \in HeaderKnown => /\ def["header"] = "resolved"
                                /\ \A d \in Deferreds \ {"header"} : def[d] = "pending"
    /\ Stage = "catch" => def["status"] = "pending"

\* What Settle says of the promises after a step holds of them at any time.
Agreeing ==
    /\ def \in [Deferreds -> {"pending", "resolved", "rejected"}]
    /\ def["trailer"] = def["status"]
    /\ def["message"] = "resolved" => def["header"] = "resolved"
    /\ def["status"] # "pending" => \A d \in Deferreds : def[d] # "pending"
    /\ def["status"] = "resolved" => \A d \in Deferreds : def[d] = "resolved"

DeferredsInv == SettledAt /\ Agreeing

LEMMA DeferredNames ==
    /\ Contract!Parts = Deferreds
    /\ Deferreds = {"header", "message", "status", "trailer"}
BY DEF Contract!Parts, Deferreds

LEMMA DeferredsInvInit == TransportsInit => DeferredsInv
BY DEF TransportsInit, UnaryInit, DeferredsInit, DeferredsInv, SettledAt, Agreeing,
       Stage, Deferreds, NotCalled, HeaderKnown, TwirpInit

\* The chain goes on, or to its catch handler, without touching a promise.
GoesOn ==
    /\ def' = def
    /\ Stage \in NotCalled => Stage' \in NotCalled \cup {"catch"}
    /\ Stage \in HeaderKnown => Stage' \in HeaderKnown \cup {"catch"}
    /\ Stage = "catch" => Stage' = "catch"
    /\ Stage \notin NotCalled \cup HeaderKnown \cup {"catch"} => Stage' = Stage

\* The three ways in which a step of a chain can touch the promises: not at
\* all, by resolving some of those that are pending, or by rejecting the rest.
Progress ==
    \/ GoesOn
    \/ /\ Stage = "fetch" /\ Resolve({"header"})
       /\ Stage' \in HeaderKnown \cup {"catch"}
    \/ /\ Stage \in HeaderKnown
       /\ \/ Resolve({"message", "status", "trailer"}) /\ Stage' = "settled"
          \/ Resolve({"message"}) /\ Stage' = "catch"
    \/ Stage = "catch" /\ RejectPending(Deferreds) /\ Stage' = "settled"

LEMMA ProgressSettles ==
    ASSUME DeferredsInv, Progress
    PROVE  DeferredsInv' /\ [Contract!Settle]_def
<1> USE DEF NotCalled, HeaderKnown
<1>1. def \in [Deferreds -> {"pending", "resolved", "rejected"}] /\ SettledAt /\ Agreeing
  BY DEF DeferredsInv, Agreeing
<1>2. ASSUME NEW ds \in SUBSET Deferreds, Resolve(ds)
      PROVE  /\ def' \in [Deferreds -> {"pending", "resolved", "rejected"}]
             /\ \A d \in Deferreds : def'[d] = IF d \in ds THEN "resolved" ELSE def[d]
  BY <1>1, <1>2 DEF Resolve
<1>3. CASE GoesOn
  <2>1. Agreeing' BY <1>1, <1>3 DEF Agreeing, GoesOn
  <2>2. SettledAt' BY <1>1, <1>3 DEF SettledAt, Deferreds, GoesOn
  <2> QED BY <1>3, <2>1, <2>2 DEF DeferredsInv, GoesOn
<1>4. CASE Stage = "fetch" /\ Resolve({"header"}) /\ Stage' \in HeaderKnown \cup {"catch"}
  <2>1. def["header"] = "pending" /\ def["message"] = "pending"
        /\ def["status"] = "pending" /\ def["trailer"] = "pending"
    BY <1>1, <1>4 DEF SettledAt, Deferreds
  <2>2. def'["header"] = "resolved" /\ def'["message"] = "pending"
        /\ def'["status"] = "pending" /\ def'["trailer"] = "pending"
        /\ def' \in [Deferreds -> {"pending", "resolved", "rejected"}]
    BY <1>2, <1>4, <2>1 DEF Deferreds
  <2>3. Agreeing' BY <2>2 DEF Agreeing, Deferreds
  <2>4. SettledAt' BY <1>4, <2>2 DEF SettledAt, Deferreds
  <2>5. Contract!Settle BY <2>1, <2>2, DeferredNames DEF Contract!Settle
  <2> QED BY <2>3, <2>4, <2>5 DEF DeferredsInv
<1>5. CASE Stage \in HeaderKnown /\ Resolve({"message", "status", "trailer"}) /\ Stage' = "settled"
  <2>1. def["header"] = "resolved" /\ def["message"] = "pending"
        /\ def["status"] = "pending" /\ def["trailer"] = "pending"
    BY <1>1, <1>5 DEF SettledAt, Deferreds
  <2>2. def'["header"] = "resolved" /\ def'["message"] = "resolved"
        /\ def'["status"] = "resolved" /\ def'["trailer"] = "resolved"
        /\ def' \in [Deferreds -> {"pending", "resolved", "rejected"}]
    BY <1>2, <1>5, <2>1 DEF Deferreds
  <2>3. Agreeing' BY <2>2 DEF Agreeing, Deferreds
  <2>4. SettledAt' BY <1>5 DEF SettledAt
  <2>5. Contract!Settle BY <2>1, <2>2, DeferredNames DEF Contract!Settle
  <2> QED BY <2>3, <2>4, <2>5 DEF DeferredsInv
<1>6. CASE Stage \in HeaderKnown /\ Resolve({"message"}) /\ Stage' = "catch"
  <2>1. def["header"] = "resolved" /\ def["message"] = "pending"
        /\ def["status"] = "pending" /\ def["trailer"] = "pending"
    BY <1>1, <1>6 DEF SettledAt, Deferreds
  <2>2. def'["header"] = "resolved" /\ def'["message"] = "resolved"
        /\ def'["status"] = "pending" /\ def'["trailer"] = "pending"
        /\ def' \in [Deferreds -> {"pending", "resolved", "rejected"}]
    BY <1>2, <1>6, <2>1 DEF Deferreds
  <2>3. Agreeing' BY <2>2 DEF Agreeing, Deferreds
  <2>4. SettledAt' BY <1>6, <2>2 DEF SettledAt
  <2>5. Contract!Settle BY <2>1, <2>2, DeferredNames DEF Contract!Settle
  <2> QED BY <2>3, <2>4, <2>5 DEF DeferredsInv
<1>7. CASE Stage = "catch" /\ RejectPending(Deferreds) /\ Stage' = "settled"
  <2>1. def["status"] = "pending" /\ def["trailer"] = "pending"
        /\ (def["message"] = "resolved" => def["header"] = "resolved")
    BY <1>1, <1>7 DEF SettledAt, Agreeing
  <2>2. \A d \in Deferreds : def'[d] = IF def[d] = "pending" THEN "rejected" ELSE def[d]
    BY <1>7 DEF RejectPending
  <2>3. def' \in [Deferreds -> {"pending", "resolved", "rejected"}]
    BY <1>1, <1>7 DEF RejectPending
  <2>4. /\ def'["status"] = "rejected" /\ def'["trailer"] = "rejected"
        /\ def'["message"] = "resolved" => def'["header"] = "resolved"
        /\ \A d \in Deferreds : def'[d] # "pending"
    BY <2>1, <2>2 DEF Deferreds
  <2>5. Agreeing' BY <2>3, <2>4 DEF Agreeing
  <2>6. SettledAt' BY <1>7 DEF SettledAt
  <2>7. Contract!Settle
    BY <2>2, <2>3, <2>4, DeferredNames DEF Contract!Settle
  <2> QED BY <2>5, <2>6, <2>7 DEF DeferredsInv
<1> QED BY <1>3, <1>4, <1>5, <1>6, <1>7 DEF Progress

\* A step of the chain of the grpc-web transport.
LEMMA UnaryProgress ==
    ASSUME DeferredsInv, transport = "grpc-web", transport' = transport, UnaryNext
    PROVE  Progress
<1> USE DEF NotCalled, HeaderKnown
<1>1. Stage = pc /\ Stage' = pc' BY DEF Stage
<1>2. CASE Start BY <1>1, <1>2 DEF Start, Progress, GoesOn
<1>3. CASE OnResponse BY <1>1, <1>3 DEF OnResponse, Progress, GoesOn, Throw
<1>4. CASE OnFetchError BY <1>1, <1>4 DEF OnFetchError, Progress, GoesOn, Throw
<1>5. CASE OnChunk BY <1>1, <1>5 DEF OnChunk, Progress, GoesOn, chainVars
<1>6. CASE OnDataFrame BY <1>1, <1>6 DEF OnDataFrame, TakeMessage, Progress, GoesOn, Throw
<1>7. CASE OnBodyEnd BY <1>1, <1>7 DEF OnBodyEnd, Progress, GoesOn, Throw
<1>8. CASE OnBodyError BY <1>1, <1>8 DEF OnBodyError, Progress, GoesOn, Throw
<1>9. CASE Finish
  <2>1. CASE Resolve({"message", "status", "trailer"}) /\ pc' = "settled"
    BY <1>1, <1>9, <2>1 DEF Finish, Progress, GoesOn
  <2>2. CASE Resolve(IF MessageResolves THEN {"message"} ELSE {}) /\ Throw(Verdict)
    <3>1. CASE MessageResolves BY <1>1, <1>9, <2>2, <3>1 DEF Finish, Progress, GoesOn, Throw
    <3>2. CASE ~MessageResolves
      <4>1. Resolve({}) BY <2>2, <3>2
      <4>2. def' = def BY <4>1 DEF Resolve, DeferredsInv, Agreeing
      <4> QED BY <1>1, <1>9, <2>2, <4>2 DEF Finish, Progress, GoesOn, Throw
    <3> QED BY <3>1, <3>2
  <2> QED BY <1>9, <2>1, <2>2 DEF Finish
<1>10. CASE Catch BY <1>1, <1>10 DEF Catch, RejectedLast, Progress, GoesOn
<1> QED BY <1>2, <1>3, <1>4, <1>5, <1>6, <1>7, <1>8, <1>9, <1>10 DEF UnaryNext, Chain

\* A step of the chain of the twirp transport.
LEMMA TwirpProgress ==
    ASSUME transport = "twirp", transport' = transport, TwirpChain
    PROVE  Progress
<1> USE DEF NotCalled, HeaderKnown
<1>1. Stage = twirpAt /\ Stage' = twirpAt' BY DEF Stage
<1>2. CASE TwirpStart BY <1>1, <1>2 DEF TwirpStart, Progress, GoesOn
<1>3. CASE FetchRejects BY <1>1, <1>3 DEF FetchRejects, TwirpThrow, Progress, GoesOn
<1>4. CASE FetchResolves BY <1>1, <1>4 DEF FetchResolves, BodyReader, TwirpThrow, Progress, GoesOn
<1>5. CASE ReadError BY <1>1, <1>5 DEF ReadError, TwirpThrow, Progress, GoesOn
<1>6. CASE ReadMessage BY <1>1, <1>6 DEF ReadMessage, TwirpThrow, Progress, GoesOn
<1>7. CASE ResolveAll BY <1>1, <1>7 DEF ResolveAll, Progress, GoesOn
<1>8. CASE TwirpCatch BY <1>1, <1>8 DEF TwirpCatch, Progress, GoesOn
<1> QED BY <1>2, <1>3, <1>4, <1>5, <1>6, <1>7, <1>8 DEF TwirpChain

LEMMA DeferredsStep ==
    DeferredsInv /\ [TransportsNext]_transportsVars => DeferredsInv' /\ [Contract!Settle]_def
<1> SUFFICES ASSUME DeferredsInv, [TransportsNext]_transportsVars
             PROVE  DeferredsInv' /\ [Contract!Settle]_def
  OBVIOUS
<1>1. CASE transport = "grpc-web" /\ UnaryNext /\ UNCHANGED <<twirpVars, transport>>
  BY <1>1, UnaryProgress, ProgressSettles
<1>2. CASE transport = "twirp" /\ TwirpChain /\ UNCHANGED transport
  BY <1>2, TwirpProgress, ProgressSettles
<1>3. CASE UNCHANGED transportsVars
  <2>1. UNCHANGED <<def, pc, twirpAt, transport>>
    BY <1>3 DEF transportsVars, unaryVars, chainVars, twirpVars
  <2> QED BY <2>1 DEF DeferredsInv, SettledAt, Agreeing, Stage
<1> QED BY <1>1, <1>2, <1>3 DEF TransportsNext, Over

(* Both transports keep the contract of UnaryCall, whatever the server sends,*)
(* wherever fetch or the body fails: no promise settles twice, the message   *)
(* does not come before the headers, status and trailers come last and       *)
(* together, and OK means that the await of the call resolves.               *)
THEOREM CallsKeepTheContract == TransportsSpec => KeepsContract
<1>1. TransportsInit => Contract!ContractInit
  BY DeferredNames
  DEF TransportsInit, UnaryInit, DeferredsInit, Contract!ContractInit
<1> QED BY <1>1, DeferredsInvInit, DeferredsStep, PTL
        DEF TransportsSpec, KeepsContract, Contract!ContractSpec

-----------------------------------------------------------------------------
(* What the outcome of a twirp call says of the answer. What is known at     *)
(* each place of the chain is carried to the end: an error passes the        *)
(* handlers behind it, so that `catch` still holds the first one.            *)

\* The outcome, but for the message: what `error` says when the chain is past
\* the answer.
ErrorSays ==
    /\ error = "server" <=> ~response.ok /\ response.body = "twirp error"
    /\ error = "dataloss" <=> response.ok /\ response.body = "broken"

Answered == def["header"] = "resolved" /\ response.type = "basic"

TwirpInv ==
    /\ response \in Responses
    /\ transport \in {"grpc-web", "twirp"}
    /\ transport = "grpc-web" => twirpAt = "idle"
    /\ twirpAt \notin {"catch", "settled"} => error = "none"
    /\ twirpAt = "readError" => ~response.ok
    /\ twirpAt \in {"readJson", "readBinary"} => response.ok
    /\ twirpAt = "message" => response.ok /\ response.body = "message"
    /\ twirpAt = "catch" /\ Answered =>
           ErrorSays /\ ~(response.ok /\ response.body = "message")
    /\ TwirpOutcome

LEMMA TwirpInvInit == TransportsInit => TwirpInv
BY DEF TransportsInit, TwirpInit, TwirpInv, TwirpOutcome

LEMMA TwirpInvStep ==
    DeferredsInv /\ TwirpInv /\ [TransportsNext]_transportsVars => TwirpInv'
<1> SUFFICES ASSUME DeferredsInv, TwirpInv, [TransportsNext]_transportsVars PROVE TwirpInv'
  OBVIOUS
<1>1. CASE transport = "grpc-web" /\ UnaryNext /\ UNCHANGED <<twirpVars, transport>>
  BY <1>1 DEF TwirpInv, TwirpOutcome, twirpVars
<1>2. CASE UNCHANGED transportsVars
  <2>1. UNCHANGED <<def, twirpVars, transport>>
    BY <1>2 DEF transportsVars, unaryVars, chainVars
  <2> QED BY <2>1 DEF TwirpInv, TwirpOutcome, Answered, ErrorSays, twirpVars
<1>3. CASE transport = "twirp" /\ TwirpChain /\ UNCHANGED transport
  <2> USE <1>3
  <2>1. Stage = twirpAt BY DEF Stage
  <2>2. response' = response
    BY DEF TwirpChain, TwirpStart, FetchRejects, FetchResolves, ReadError, ReadMessage,
           ResolveAll, TwirpCatch
  <2>3. response.body \in {"twirp error", "message", "other", "broken"} /\ response.ok \in BOOLEAN
    BY DEF TwirpInv, Responses
  <2>4. CASE TwirpStart
    BY <2>2, <2>4 DEF TwirpStart, TwirpInv, TwirpOutcome
  <2>5. CASE FetchRejects
    <3>1. def'["header"] = "pending"
      BY <2>1, <2>5 DEF FetchRejects, DeferredsInv, SettledAt, NotCalled, Deferreds
    <3> QED BY <2>2, <2>5, <3>1 DEF FetchRejects, TwirpThrow, TwirpInv, TwirpOutcome, Answered
  <2>6. CASE FetchResolves
    <3>1. CASE response.headers = "repeated"
      <4>1. def'["header"] = "pending"
        BY <2>1, <2>6, <3>1 DEF FetchResolves, DeferredsInv, SettledAt, NotCalled, Deferreds
      <4>2. twirpAt' = "catch" BY <2>6, <3>1 DEF FetchResolves, TwirpThrow
      <4> QED BY <2>2, <4>1, <4>2 DEF TwirpInv, TwirpOutcome, Answered
    <3>2. CASE response.headers = "plain" /\ response.type = "opaque" /\ TwirpThrow("unknown")
      BY <2>2, <3>2 DEF TwirpThrow, TwirpInv, TwirpOutcome, Answered
    <3>3. CASE twirpAt' = BodyReader /\ UNCHANGED error
      BY <2>2, <2>6, <3>3 DEF FetchResolves, BodyReader, TwirpInv, TwirpOutcome
    <3> QED BY <2>6, <3>1, <3>2, <3>3 DEF FetchResolves
  <2>7. CASE ReadError
    BY <2>2, <2>3, <2>7
    DEF ReadError, TwirpThrow, ErrorOf, TwirpInv, TwirpOutcome, ErrorSays
  <2>8. CASE ReadMessage
    BY <2>2, <2>3, <2>8
    DEF ReadMessage, TwirpThrow, TwirpInv, TwirpOutcome, ErrorSays
  <2>9. CASE ResolveAll
    <3>1. def'["status"] = "resolved" BY <2>9 DEF ResolveAll, Resolve, Deferreds
    <3>2. response.ok /\ response.body = "message" /\ error' = "none" /\ twirpAt' = "settled"
      BY <2>9 DEF ResolveAll, TwirpInv
    <3> QED BY <2>2, <3>1, <3>2 DEF TwirpInv, TwirpOutcome
  <2>10. CASE TwirpCatch
    <3>1. twirpAt = "catch" /\ twirpAt' = "settled" /\ error' = error
      BY <2>10 DEF TwirpCatch
    <3>2. def["status"] = "pending" BY <2>1, <3>1 DEF DeferredsInv, SettledAt
    <3>3. def'["status"] = "rejected"
          /\ (def'["header"] = "resolved" => def["header"] = "resolved")
      BY <2>10, <3>2 DEF TwirpCatch, RejectPending, Deferreds
    <3>4. def'["header"] = "resolved" /\ response.type = "basic" =>
            ErrorSays /\ ~(response.ok /\ response.body = "message")
      BY <3>1, <3>3 DEF TwirpInv, Answered
    <3>5. TwirpOutcome' BY <2>2, <3>1, <3>3, <3>4 DEF TwirpOutcome, ErrorSays
    <3> QED BY <2>2, <3>1, <3>5 DEF TwirpInv
  <2> QED BY <2>4, <2>5, <2>6, <2>7, <2>8, <2>9, <2>10 DEF TwirpChain
<1> QED BY <1>1, <1>2, <1>3 DEF TransportsNext, Over

(* Whatever a twirp server answers, when fetch resolved: OK is reported      *)
(* exactly for an ok response whose body is a message, and the error that    *)
(* reaches the caller is the first, not one of a later handler.              *)
THEOREM TwirpTellsTheAnswer == TransportsSpec => []TwirpOutcome
<1>1. TwirpInv => TwirpOutcome BY DEF TwirpInv
<1>2. TransportsSpec => []DeferredsInv
  BY DeferredsInvInit, DeferredsStep, PTL DEF TransportsSpec
<1> QED BY <1>1, <1>2, TwirpInvInit, TwirpInvStep, PTL DEF TransportsSpec

-----------------------------------------------------------------------------
(* The message of a grpc-web call. The chain stands behind onFrame: what it  *)
(* has read is counted here, what the frames are is the body's.              *)

\* The frames that a message and a trailer leave.
OneMessage == frames = <<frames[1]>> /\ frames[1].type = DATA
MessageAndTrailer ==
    /\ frames = <<frames[1], frames[2]>>
    /\ frames[1].type = DATA /\ frames[2].type = TRAILER

FramesRead == IF maybeMessage THEN OneMessage ELSE frames = <<>>

UnaryInv ==
    /\ transport = "twirp" => pc = "idle"
    /\ pc \in PCs
    /\ pc \in {"idle", "refused", "fetch"} => maybeMessage = FALSE /\ frames = <<>>
    /\ pc \notin {"finish", "settled", "catch"} => maybeTrailer = FALSE /\ result = "pending"
    /\ pc = "body" => FramesRead
    /\ pc = "finish" => \/ maybeTrailer = FALSE
                        \/ ~maybeMessage
                        \/ MessageAndTrailer
    /\ pc \in {"catch", "settled"} /\ def["message"] = "resolved" => MessageAndTrailer
    /\ pc = "catch" /\ def["message"] = "resolved" => thrown = maybeStatus
    /\ pc = "settled" /\ def["message"] = "resolved" /\ def["status"] = "rejected" =>
           thrown = maybeStatus
    /\ body \in Bodies

LEMMA AppendTwo == ASSUME NEW a, NEW b PROVE Append(<<a>>, b) = <<a, b>>
<1>1. <<a>> \in Seq({a, b}) /\ <<a, b>> \in Seq({a, b}) /\ Len(<<a>>) = 1 OBVIOUS
<1>2. /\ Append(<<a>>, b) \in Seq({a, b}) /\ Len(Append(<<a>>, b)) = 2
      /\ Append(<<a>>, b)[1] = a /\ Append(<<a>>, b)[2] = b
  BY <1>1, AppendProperties
<1>3. Len(<<a, b>>) = 2 /\ <<a, b>>[1] = a /\ <<a, b>>[2] = b OBVIOUS
<1>4. \A i \in 1 .. 2 : Append(<<a>>, b)[i] = <<a, b>>[i]
  <2>1. \A i \in 1 .. 2 : i = 1 \/ i = 2 OBVIOUS
  <2> QED BY <1>2, <1>3, <2>1
<1>5. \A i \in 1 .. Len(Append(<<a>>, b)) : Append(<<a>>, b)[i] = <<a, b>>[i]
  BY <1>2, <1>4
<1>6. Len(Append(<<a>>, b)) = Len(<<a, b>>) BY <1>2, <1>3
<1> QED BY <1>1, <1>2, <1>5, <1>6, SeqEqual, Zenon

LEMMA UnaryInvInit == TransportsInit => UnaryInv
BY DEF TransportsInit, UnaryInit, DeferredsInit, BodyInit, UnaryInv, PCs, Deferreds

LEMMA UnaryInvStep ==
    DeferredsInv /\ UnaryInv /\ [TransportsNext]_transportsVars => UnaryInv'
<1> SUFFICES ASSUME DeferredsInv, UnaryInv, [TransportsNext]_transportsVars PROVE UnaryInv'
  OBVIOUS
<1>1. CASE transport = "twirp" /\ TwirpChain /\ UNCHANGED transport
           /\ UNCHANGED <<bodyVars, pc, maybeMessage, maybeStatus, maybeTrailer, thrown, sent>>
  BY <1>1 DEF UnaryInv, bodyVars, FramesRead, OneMessage
<1>2. CASE UNCHANGED transportsVars
  <2>1. UNCHANGED <<def, bodyVars, pc, maybeMessage, maybeStatus, maybeTrailer, thrown, transport>>
    BY <1>2 DEF transportsVars, unaryVars, chainVars
  <2> QED BY <2>1 DEF UnaryInv, bodyVars, FramesRead, OneMessage, MessageAndTrailer
<1>3. CASE transport = "grpc-web" /\ UnaryNext /\ UNCHANGED <<twirpVars, transport>>
  <2> USE <1>3
  <2>1. Stage = pc /\ Stage' = pc' BY DEF Stage
  <2>2. body' = body /\ transport' # "twirp"
    BY DEF UnaryNext, Chain, Start, OnResponse, OnFetchError, OnChunk, OnDataFrame, OnBodyEnd,
           OnBodyError, Finish, Catch, bodyVars, NextChunk, EmitFrame, EndOfStream
  <2>3. pc \in NotCalled \cup HeaderKnown => def["message"] # "resolved"
    BY <2>1 DEF DeferredsInv, SettledAt, NotCalled, HeaderKnown, Deferreds
  <2> USE DEF PCs, NotCalled, HeaderKnown
  <2>4. CASE Start
    BY <2>2, <2>3, <2>4 DEF Start, UnaryInv, bodyVars
  <2>5. CASE OnFetchError
    BY <2>2, <2>3, <2>5 DEF OnFetchError, Throw, UnaryInv, bodyVars
  <2>6. CASE OnResponse
    <3>1. def'["message"] = def["message"] BY <2>6 DEF OnResponse, Resolve, Deferreds
    <3>2. pc = "fetch" /\ pc' \in {"body", "catch"}
          /\ UNCHANGED <<frames, result, maybeMessage, maybeTrailer>>
      BY <2>6 DEF OnResponse, Throw, bodyVars
    <3> QED BY <2>2, <2>3, <3>1, <3>2 DEF UnaryInv, FramesRead
  <2>7. CASE OnChunk
    BY <2>2, <2>3, <2>7 DEF OnChunk, NextChunk, chainVars, UnaryInv, FramesRead, OneMessage
  <2>8. CASE OnDataFrame
    <3>1. pc = "body" /\ UNCHANGED <<def, result, maybeTrailer>>
          /\ (pc' = "catch" \/ pc' = pc)
      BY <2>8 DEF OnDataFrame, EmitFrame, TakeMessage, Throw
    <3>2. CASE pc' = "catch" BY <2>2, <2>3, <3>1, <3>2 DEF UnaryInv
    <3>3. CASE pc' = "body"
      <4>1. ~maybeMessage /\ maybeMessage' = TRUE
        BY <2>8, <3>1, <3>3 DEF OnDataFrame, TakeMessage, Throw
      <4>2. frames = <<>> BY <3>1, <4>1 DEF UnaryInv, FramesRead
      <4>3. PICK f : frames' = Append(<<>>, f) /\ f.type = DATA
        BY <2>8, <4>2 DEF OnDataFrame, EmitFrame
      <4>4. frames' = <<f>> BY <4>3
      <4>5. FramesRead' BY <4>1, <4>3, <4>4 DEF FramesRead, OneMessage
      <4> QED BY <2>2, <2>3, <3>1, <3>3, <4>5 DEF UnaryInv
    <3> QED BY <3>1, <3>2, <3>3
  <2>9. CASE OnBodyEnd
    <3>1. pc = "body" /\ UNCHANGED <<def, maybeMessage>> /\ pc' \in {"catch", "finish"}
      BY <2>9 DEF OnBodyEnd, Throw
    <3>2. CASE pc' = "catch" BY <2>2, <2>3, <3>1, <3>2 DEF UnaryInv
    <3>3. CASE pc' = "finish" /\ frames' = frames
      <4>1. maybeTrailer' = FALSE
        BY <2>9, <3>1, <3>3 DEF OnBodyEnd, Throw, UnaryInv
      <4> QED BY <2>2, <2>3, <3>1, <3>3, <4>1 DEF UnaryInv
    <3>4. CASE pc' = "finish" /\ frames' # frames
      <4> DEFINE f == [type |-> TRAILER, data |-> SubSeq(byteQueue, 6, Len(byteQueue))]
      <4>1. frames' = Append(frames, f) /\ f.type = TRAILER
        BY <2>9, <3>4 DEF OnBodyEnd, EndOfStream, AtEnd
      <4> HIDE DEF f
      <4>2. ASSUME maybeMessage PROVE MessageAndTrailer'
        <5>1. frames = <<frames[1]>> /\ frames[1].type = DATA
          BY <3>1, <4>2 DEF UnaryInv, FramesRead, OneMessage
        <5>2. frames' = Append(<<frames[1]>>, f) BY <4>1, <5>1
        <5>3. frames' = <<frames[1], f>> BY <5>2, AppendTwo
        <5> QED BY <4>1, <5>1, <5>3 DEF MessageAndTrailer
      <4> QED BY <2>2, <2>3, <3>1, <3>4, <4>2 DEF UnaryInv
    <3> QED BY <3>1, <3>2, <3>3, <3>4
  <2>10. CASE OnBodyError
    BY <2>2, <2>3, <2>10 DEF OnBodyError, Throw, UnaryInv
  <2>11. CASE Finish
    <3>1. pc = "finish" /\ UNCHANGED <<frames, maybeMessage, maybeStatus, maybeTrailer>>
          /\ pc' \in {"settled", "catch"}
      BY <2>11 DEF Finish, Throw, bodyVars
    <3>2. CASE Verdict = "none" /\ Resolve({"message", "status", "trailer"}) /\ pc' = "settled"
      <4>1. maybeMessage /\ maybeTrailer BY <3>2 DEF Verdict
      <4>2. def'["status"] = "resolved" BY <3>2 DEF Resolve, Deferreds
      <4>3. MessageAndTrailer BY <3>1, <4>1 DEF UnaryInv
      <4> QED BY <2>2, <3>1, <3>2, <4>2, <4>3 DEF UnaryInv, MessageAndTrailer
    <3>3. CASE /\ Verdict # "none" /\ Throw(Verdict)
               /\ Resolve(IF MessageResolves THEN {"message"} ELSE {})
      <4>1. ASSUME MessageResolves PROVE MessageAndTrailer /\ Verdict = maybeStatus
        <5>1. maybeMessage /\ maybeTrailer /\ maybeStatus # "none"
          BY <4>1 DEF MessageResolves
        <5>2. MessageAndTrailer BY <3>1, <5>1 DEF UnaryInv
        <5>3. Verdict = maybeStatus BY <3>3, <5>1 DEF Verdict
        <5> QED BY <5>2, <5>3
      <4>2. ~MessageResolves => def'["message"] = def["message"]
        BY <3>3 DEF Resolve, Deferreds
      <4>3. pc' = "catch" /\ thrown' = Verdict BY <3>3 DEF Throw
      <4> QED BY <2>2, <2>3, <3>1, <4>1, <4>2, <4>3 DEF UnaryInv, MessageAndTrailer
    <3> QED BY <2>11, <3>2, <3>3 DEF Finish
  <2>12. CASE Catch
    <3>1. pc = "catch" /\ pc' = "settled" /\ UNCHANGED <<frames, thrown, maybeStatus>>
          /\ (def'["message"] = "resolved" => def["message"] = "resolved")
      BY <2>12 DEF Catch, RejectPending, RejectedLast, Deferreds, bodyVars
    <3> QED BY <2>2, <3>1 DEF UnaryInv, MessageAndTrailer
  <2> QED
    BY <2>4, <2>5, <2>6, <2>7, <2>8, <2>9, <2>10, <2>11, <2>12 DEF UnaryNext, Chain
<1> QED BY <1>1, <1>2, <1>3 DEF TransportsNext, Over

-----------------------------------------------------------------------------
(* The body behind the chain. A call reads it as GrpcWebBody says, or not at *)
(* all: the chain only adds when it is read, and stops in the middle of it   *)
(* when a frame throws.                                                      *)

LEMMA TransportsBodyStep == TransportsNext => [BodyNext]_bodyVars
<1> SUFFICES ASSUME TransportsNext PROVE [BodyNext]_bodyVars OBVIOUS
<1>1. CASE transport = "twirp" /\ TwirpChain
           /\ UNCHANGED <<bodyVars, pc, maybeMessage, maybeStatus, maybeTrailer, thrown, sent>>
  BY <1>1
<1>2. CASE Over
  <2>1. UNCHANGED transportsVars BY <1>2 DEF Over
  <2>2. UNCHANGED unaryVars BY <2>1 DEF transportsVars
  <2> QED BY <2>2 DEF unaryVars
<1>3. CASE UnaryNext
  <2>1. CASE Start \/ OnResponse \/ OnFetchError \/ OnBodyError \/ Finish \/ Catch
    BY <2>1 DEF Start, OnResponse, OnFetchError, OnBodyError, Finish, Catch
  <2>2. CASE OnChunk BY <2>2 DEF OnChunk, BodyNext
  <2>3. CASE OnDataFrame BY <2>3 DEF OnDataFrame, BodyNext
  <2>4. CASE OnBodyEnd BY <2>4 DEF OnBodyEnd, BodyNext
  <2> QED BY <1>3, <2>1, <2>2, <2>3, <2>4 DEF UnaryNext, Chain
<1> QED BY <1>1, <1>2, <1>3 DEF TransportsNext

LEMMA TransportsBodyInv ==
    ASSUME SmallFrames
    PROVE  TransportsSpec => []BodyInv
<1>1. TransportsInit => BodyInv
  <2>1. TransportsInit => BodyInit BY DEF TransportsInit, UnaryInit
  <2> QED BY <2>1, BodyInvInit
<1>2. BodyInv /\ [TransportsNext]_transportsVars => BodyInv'
  <2>1. UNCHANGED transportsVars => UNCHANGED bodyVars
    BY DEF transportsVars, unaryVars
  <2>2. [TransportsNext]_transportsVars => [BodyNext]_bodyVars
    BY <2>1, TransportsBodyStep
  <2> QED BY <2>2, BodyInvNext
<1> QED BY <1>1, <1>2, PTL DEF TransportsSpec

(* A unary call takes its body apart into the frames that the server sent,   *)
(* whatever else happens to the call: a chain that throws at a frame leaves  *)
(* the rest of the body unread.                                              *)
LEMMA CallReadsBodyAsSent ==
    ASSUME SmallFrames
    PROVE  TransportsSpec => []BodyAsSent
<1>1. BodyInv => BodyAsSent BY BodyInvMeans
<1> QED BY <1>1, TransportsBodyInv, PTL

(* Message and OK stand for one whole message of the server and a trailer    *)
(* behind it: the frames are those of the body (BodyAsSent), and the chain   *)
(* behind them takes nothing else for an answer.                             *)
THEOREM MessageIsWhatWasSent ==
    ASSUME SmallFrames
    PROVE  TransportsSpec => []MessageIsTheServers
<1>1. ASSUME UnaryInv, DeferredsInv, FramesAsSent PROVE MessageIsTheServers
  <2>1. ASSUME pc # "idle", def["message"] = "resolved"
        PROVE  /\ Len(body) = 2 /\ body[1].type = DATA /\ frames[1] = body[1]
               /\ Len(frames) = 2 /\ frames[2].type = TRAILER
    <3>1. transport # "twirp" /\ Stage = pc BY <1>1, <2>1 DEF UnaryInv, Stage
    <3>2. pc \in {"catch", "settled"}
      BY <1>1, <2>1, <3>1
      DEF UnaryInv, PCs, DeferredsInv, SettledAt, NotCalled, HeaderKnown, Deferreds
    <3>3. MessageAndTrailer BY <1>1, <2>1, <3>2 DEF UnaryInv
    <3>4. DOMAIN frames = 1 .. 2 /\ Len(frames) = 2 BY <3>3 DEF MessageAndTrailer
    <3>5. 1 <= Len(body) /\ frames[1] = body[1]
      BY <1>1, <3>4 DEF FramesAsSent, Whole
    <3>6. 2 <= Len(body) /\ body[2].type = TRAILER
      BY <1>1, <3>3, <3>4 DEF FramesAsSent, Whole, MessageAndTrailer
    <3>7. body \in Seq(Frames) /\ \A i \in DOMAIN body : body[i].type = TRAILER => i = Len(body)
      BY <1>1, BodiesAssumption DEF UnaryInv
    <3>8. 2 \in DOMAIN body BY <3>6, <3>7
    <3>9. Len(body) = 2 BY <3>6, <3>7, <3>8
    <3> QED BY <3>3, <3>4, <3>5, <3>9 DEF MessageAndTrailer
  <2>2. def["status"] = "resolved" => def["message"] = "resolved"
    BY <1>1 DEF DeferredsInv, Agreeing, Deferreds
  <2>3. ASSUME def["message"] = "resolved", pc = "settled", def["status"] = "rejected"
        PROVE  thrown = maybeStatus
    BY <1>1, <2>3 DEF UnaryInv
  <2>4. OkMeansOneMessage
    <3> SUFFICES ASSUME pc # "idle", def["status"] = "resolved"
                 PROVE  /\ Len(body) = 2 /\ body[1].type = DATA
                        /\ Len(frames) = 2 /\ frames[1] = body[1] /\ frames[2].type = TRAILER
      BY DEF OkMeansOneMessage
    <3> QED BY <2>1, <2>2
  <2>5. MessageWasSent BY <2>1, <2>3 DEF MessageWasSent
  <2> QED BY <2>4, <2>5 DEF MessageIsTheServers
<1>2. TransportsSpec => []DeferredsInv
  BY DeferredsInvInit, DeferredsStep, PTL DEF TransportsSpec
<1>3. TransportsSpec => []UnaryInv
  BY <1>2, UnaryInvInit, UnaryInvStep, PTL DEF TransportsSpec
<1>4. BodyAsSent => FramesAsSent BY DEF BodyAsSent
<1> QED BY <1>1, <1>2, <1>3, <1>4, CallReadsBodyAsSent, PTL
=============================================================================
