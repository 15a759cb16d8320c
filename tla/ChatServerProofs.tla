-------------------------- MODULE ChatServerProofs --------------------------
(* Proofs about ServerCallContext for any number of calls and callbacks, and *)
(* for callbacks that register, remove and throw while they are called; then *)
(* about the chat, for any number of users and of calls of other services.   *)
EXTENDS ChatServer, SequenceTheorems, FiniteSetTheorems, TLAPS

-----------------------------------------------------------------------------
(* RemoveAt.                                                                 *)

LEMMA RemoveAtElements ==
    ASSUME NEW S, NEW s \in Seq(S), NEW i \in 1 .. Len(s)
    PROVE  /\ RemoveAt(s, i) \in Seq(S)
           /\ Len(RemoveAt(s, i)) = Len(s) - 1
           /\ \A j \in 1 .. Len(s) - 1 :
                RemoveAt(s, i)[j] = IF j < i THEN s[j] ELSE s[j + 1]
<1> DEFINE a == SubSeq(s, 1, i - 1)
           b == SubSeq(s, i + 1, Len(s))
<1>1. Len(s) \in Nat /\ i \in Nat OBVIOUS
<1>2. a \in Seq(S) /\ Len(a) = i - 1 /\ (\A j \in 1 .. i - 1 : a[j] = s[j])
  BY <1>1
<1>3. b \in Seq(S) /\ Len(b) = Len(s) - i
      /\ (\A j \in 1 .. Len(s) - i : b[j] = s[i + j])
  BY <1>1
<1>4. RemoveAt(s, i) = a \o b BY DEF RemoveAt
<1> HIDE DEF a, b
<1>5. /\ a \o b \in Seq(S) /\ Len(a \o b) = Len(s) - 1
      /\ \A j \in 1 .. Len(s) - 1 :
           (a \o b)[j] = IF j <= i - 1 THEN a[j] ELSE b[j - (i - 1)]
  <2>1. /\ a \o b \in Seq(S) /\ Len(a \o b) = Len(a) + Len(b)
        /\ \A j \in 1 .. Len(a) + Len(b) :
             (a \o b)[j] = IF j <= Len(a) THEN a[j] ELSE b[j - Len(a)]
    BY <1>2, <1>3, ConcatProperties
  <2>2. Len(a) = i - 1 /\ Len(a) + Len(b) = Len(s) - 1 BY <1>1, <1>2, <1>3
  <2> QED BY <2>1, <2>2
<1>6. ASSUME NEW j \in 1 .. Len(s) - 1
      PROVE  (a \o b)[j] = IF j < i THEN s[j] ELSE s[j + 1]
  <2>1. CASE j < i
    BY <1>1, <1>2, <1>5, <2>1
  <2>2. CASE ~(j < i)
    <3>1. (a \o b)[j] = b[j - (i - 1)] BY <1>1, <1>5, <2>2
    <3>2. j - (i - 1) \in 1 .. Len(s) - i /\ i + (j - (i - 1)) = j + 1
      BY <1>1, <2>2
    <3> QED BY <1>3, <2>2, <3>1, <3>2
  <2> QED BY <2>1, <2>2
<1> QED BY <1>4, <1>5, <1>6

-----------------------------------------------------------------------------
(* Type correctness.                                                         *)

LEMMA ContextInitType == ContextInit => ContextTypeOK
<1> SUFFICES ASSUME ContextInit PROVE ContextTypeOK OBVIOUS
<1>1. listeners \in [Calls -> Seq(Callbacks)] BY DEF ContextInit
<1> QED BY <1>1 DEF ContextInit, ContextTypeOK, NotFiring, Firings, Quiet

LEMMA OnCancelType ==
    ASSUME ContextTypeOK, NEW c \in Calls, NEW l \in Callbacks, OnCancel(c, l)
    PROVE  ContextTypeOK'
<1>1. listeners[c] \in Seq(Callbacks) BY DEF ContextTypeOK
<1>2. Append(listeners[c], l) \in Seq(Callbacks) BY <1>1
<1>3. listeners' \in [Calls -> Seq(Callbacks)]
  BY <1>2 DEF ContextTypeOK, OnCancel
<1>4. member' \in [Calls -> [Callbacks -> {"new", "on", "late", "removed"}]]
  BY DEF ContextTypeOK, OnCancel
<1> QED BY <1>3, <1>4 DEF ContextTypeOK, OnCancel, Quiet

LEMMA RemoveOnCancelType ==
    ASSUME ContextTypeOK, NEW c \in Calls, NEW l \in Callbacks, RemoveOnCancel(c, l)
    PROVE  ContextTypeOK'
<1>1. listeners[c] \in Seq(Callbacks) BY DEF ContextTypeOK
<1>2. PICK i \in DOMAIN listeners[c] :
        /\ listeners' = [listeners EXCEPT ![c] = RemoveAt(listeners[c], i)]
        /\ disturbed' \subseteq disturbed \cup {c}
  BY DEF RemoveOnCancel
<1>3. RemoveAt(listeners[c], i) \in Seq(Callbacks)
  BY <1>1, RemoveAtElements
<1>4. listeners' \in [Calls -> Seq(Callbacks)]
  BY <1>2, <1>3 DEF ContextTypeOK
<1>5. member' \in [Calls -> [Callbacks -> {"new", "on", "late", "removed"}]]
  BY DEF ContextTypeOK, RemoveOnCancel
<1>6. disturbed' \subseteq Calls BY <1>2 DEF ContextTypeOK
<1> QED BY <1>4, <1>5, <1>6 DEF ContextTypeOK, RemoveOnCancel, Quiet

LEMMA NextListenerType ==
    ASSUME ContextTypeOK, ~Quiet, MoreListeners
    PROVE  /\ firing.call \in Calls
           /\ firing.pos + 1 \in 1 .. Len(listeners[firing.call])
           /\ NextListener \in Callbacks
<1>1. firing.call \in Calls /\ firing.pos \in Nat
  BY DEF ContextTypeOK, Firings, Quiet
<1>2. listeners[firing.call] \in Seq(Callbacks) BY <1>1 DEF ContextTypeOK
<1>3. firing.pos + 1 \in 1 .. Len(listeners[firing.call])
  BY <1>1, <1>2 DEF MoreListeners
<1> QED BY <1>1, <1>2, <1>3, ElementOfSeq DEF NextListener

LEMMA CallNextListenerType ==
    ASSUME ContextTypeOK, CallNextListener PROVE ContextTypeOK'
<1>1. ~Quiet /\ firing.call \in Calls /\ NextListener \in Callbacks
  BY NextListenerType DEF CallNextListener
<1> DEFINE n == NextListener
<1>2. firing' = [firing EXCEPT !.pos = @ + 1, !.run = n]
      /\ fired' = [fired EXCEPT ![firing.call][n] = @ + 1]
  BY DEF CallNextListener
<1> HIDE DEF n
<1>3. firing' \in Firings /\ firing'.call = firing.call
  <2>1. firing \in Firings /\ n \in Callbacks BY <1>1 DEF ContextTypeOK, n
  <2>2. firing.pos + 1 \in Nat /\ n \in Callbacks \cup {None}
    BY <2>1 DEF Firings
  <2>3. firing' = [call |-> firing.call, pos |-> firing.pos + 1, run |-> n]
    BY <1>2, <2>1 DEF Firings
  <2> QED BY <1>1, <2>2, <2>3 DEF Firings
<1>4. fired' \in [Calls -> [Callbacks -> Nat]]
  BY <1>1, <1>2 DEF ContextTypeOK, n
<1> QED BY <1>1, <1>3, <1>4 DEF ContextTypeOK, CallNextListener, Quiet

LEMMA ContextNextType ==
    ASSUME ContextTypeOK, [ContextNext]_contextVars PROVE ContextTypeOK'
<1>1. ASSUME NEW c \in Calls, NotifyCancelled(c) PROVE ContextTypeOK'
  BY <1>1, ContextAssumption
     DEF ContextTypeOK, NotifyCancelled, Firings, Quiet
<1>2. CASE CallNextListener BY <1>2, CallNextListenerType
<1>3. CASE CallbackReturns
  <2>1. firing.call # None
    BY <1>3 DEF ContextTypeOK, CallbackReturns, NotFiring, Quiet
  <2> QED BY <1>3, <2>1 DEF ContextTypeOK, CallbackReturns, Firings, Quiet
<1>4. CASE CallbackThrows
  <2>1. firing.call \in Calls
    BY <1>4 DEF ContextTypeOK, CallbackThrows, Firings, NotFiring, Quiet
  <2> QED BY <1>4, <2>1 DEF ContextTypeOK, CallbackThrows, Firings, NotFiring, Quiet
<1>5. CASE AllNotified
  BY <1>5 DEF ContextTypeOK, AllNotified, Firings, NotFiring, Quiet
<1>6. ASSUME NEW c \in Calls, NEW l \in Callbacks,
             OnCancel(c, l) \/ RemoveOnCancel(c, l)
      PROVE  ContextTypeOK'
  BY <1>6, OnCancelType, RemoveOnCancelType
<1>7. CASE UNCHANGED contextVars BY <1>7 DEF ContextTypeOK, contextVars, Quiet
<1> QED BY <1>1, <1>2, <1>3, <1>4, <1>5, <1>6, <1>7 DEF ContextNext

(* Every reachable state of the contexts has the types that ContextTypeOK    *)
(* names: in particular the list only holds registered callbacks.            *)
THEOREM ContextTypeCorrect == ContextSpec => []ContextTypeOK
<1> QED BY ContextInitType, ContextNextType, PTL DEF ContextSpec

-----------------------------------------------------------------------------
(* CalledOnce is not inductive: it does not say why the next round of        *)
(* notifyCancelled calls a callback that was not called yet. What does: the  *)
(* list holds a callback once, and nothing behind the place of the for..of   *)
(* was called - a removal moves callbacks forward, never back.               *)

\* Nothing is called before the call is cancelled.
QuietBefore == \A c \in Calls, l \in Callbacks : fired[c][l] > 0 => cancelled[c]

FiringIsCancelled == ~Quiet => cancelled[firing.call]

AtMostOnce == \A c \in Calls, l \in Callbacks : fired[c][l] <= 1

NewNotCalled ==
    \A c \in Calls, l \in Callbacks : member[c][l] = "new" => fired[c][l] = 0

\* Only registered callbacks are in a list `s`, each of them once.
ListOf(s, m) ==
    /\ \A i \in 1 .. Len(s) : m[s[i]] \in {"on", "late"}
    /\ \A i, j \in 1 .. Len(s) : s[i] = s[j] => i = j
Registered == \A c \in Calls : ListOf(listeners[c], member[c])

\* No callback of `s` behind `pos` has been called.
NotCalled(s, pos, f) == \A i \in 1 .. Len(s) : i > pos => f[s[i]] = 0
AheadNotCalled ==
    ~Quiet => NotCalled(listeners[firing.call], firing.pos, fired[firing.call])

ContextInv ==
    /\ ContextTypeOK /\ QuietBefore /\ FiringIsCancelled /\ AtMostOnce
    /\ NewNotCalled /\ Registered /\ AheadNotCalled

LEMMA AppendList ==
    ASSUME NEW s \in Seq(Callbacks), NEW l \in Callbacks,
           NEW m \in [Callbacks -> {"new", "on", "late", "removed"}],
           NEW status \in {"on", "late"}, NEW f \in [Callbacks -> Nat], NEW pos \in Nat,
           ListOf(s, m), m[l] = "new", f[l] = 0
    PROVE  /\ ListOf(Append(s, l), [m EXCEPT ![l] = status])
           /\ NotCalled(s, pos, f) => NotCalled(Append(s, l), pos, f)
<1> DEFINE t == Append(s, l)
           n == [m EXCEPT ![l] = status]
<1>1. /\ Len(s) \in Nat /\ Len(t) = Len(s) + 1 /\ t[Len(s) + 1] = l
      /\ \A i \in 1 .. Len(s) : t[i] = s[i] /\ s[i] \in Callbacks
  BY AppendProperties
<1>2. \A i \in 1 .. Len(s) : s[i] # l BY DEF ListOf
<1>3. n[l] = status /\ \A k \in Callbacks : k # l => n[k] = m[k] OBVIOUS
<1> HIDE DEF t, n
<1>4. ASSUME NEW i \in 1 .. Len(t) PROVE n[t[i]] \in {"on", "late"}
  BY <1>1, <1>2, <1>3 DEF ListOf
<1>5. ASSUME NEW i \in 1 .. Len(t), NEW j \in 1 .. Len(t), t[i] = t[j] PROVE i = j
  BY <1>1, <1>2, <1>5 DEF ListOf
<1>6. ListOf(t, n) BY <1>4, <1>5 DEF ListOf
<1>7. ASSUME NotCalled(s, pos, f), NEW i \in 1 .. Len(t), i > pos PROVE f[t[i]] = 0
  BY <1>1, <1>7 DEF NotCalled
<1> QED BY <1>6, <1>7 DEF NotCalled, t, n

LEMMA RemoveFromList ==
    ASSUME NEW s \in Seq(Callbacks), NEW i \in 1 .. Len(s),
           NEW m \in [Callbacks -> {"new", "on", "late", "removed"}],
           NEW f \in [Callbacks -> Nat], NEW pos \in Nat, ListOf(s, m)
    PROVE  /\ ListOf(RemoveAt(s, i), [m EXCEPT ![s[i]] = "removed"])
           /\ NotCalled(s, pos, f) => NotCalled(RemoveAt(s, i), pos, f)
<1>0. /\ Len(RemoveAt(s, i)) = Len(s) - 1
      /\ \A j \in 1 .. Len(s) - 1 :
           RemoveAt(s, i)[j] = IF j < i THEN s[j] ELSE s[j + 1]
  BY RemoveAtElements
<1> DEFINE t == RemoveAt(s, i)
           n == [m EXCEPT ![s[i]] = "removed"]
<1>1. /\ Len(s) \in Nat /\ Len(t) = Len(s) - 1
      /\ \A j \in 1 .. Len(t) : t[j] = IF j < i THEN s[j] ELSE s[j + 1]
  BY <1>0
<1>2. \A j \in 1 .. Len(s) : s[j] \in Callbacks OBVIOUS
<1>3. \A k \in Callbacks : k # s[i] => n[k] = m[k] OBVIOUS
<1> HIDE DEF t, n
<1>4. ASSUME NEW j \in 1 .. Len(t)
      PROVE  \E k \in 1 .. Len(s) : k >= j /\ k # i /\ t[j] = s[k]
                                     /\ k = IF j < i THEN j ELSE j + 1
  BY <1>1
<1>5. ASSUME NEW j \in 1 .. Len(t) PROVE n[t[j]] \in {"on", "late"}
  <2>1. PICK k \in 1 .. Len(s) : k # i /\ t[j] = s[k] BY <1>4
  <2>2. s[k] # s[i] /\ s[k] \in Callbacks BY <1>2, <2>1 DEF ListOf
  <2> QED BY <1>3, <2>1, <2>2 DEF ListOf
<1>6. ASSUME NEW j \in 1 .. Len(t), NEW h \in 1 .. Len(t), t[j] = t[h] PROVE j = h
  <2>1. PICK k \in 1 .. Len(s) : t[j] = s[k] /\ k = IF j < i THEN j ELSE j + 1
    BY <1>4
  <2>2. PICK g \in 1 .. Len(s) : t[h] = s[g] /\ g = IF h < i THEN h ELSE h + 1
    BY <1>4
  <2>3. k = g BY <1>6, <2>1, <2>2 DEF ListOf
  <2> QED BY <1>1, <2>1, <2>2, <2>3, SMTT(30)
<1>7. ASSUME NotCalled(s, pos, f), NEW j \in 1 .. Len(t), j > pos PROVE f[t[j]] = 0
  <2>1. PICK k \in 1 .. Len(s) : k >= j /\ t[j] = s[k] BY <1>4
  <2> QED BY <1>1, <1>7, <2>1 DEF NotCalled
<1> QED BY <1>5, <1>6, <1>7 DEF ListOf, NotCalled, t, n

LEMMA OnCancelInv ==
    ASSUME ContextInv, NEW c \in Calls, NEW l \in Callbacks, OnCancel(c, l)
    PROVE  ContextInv'
<1>1. ContextTypeOK' BY OnCancelType DEF ContextInv
<1>2. /\ member[c][l] = "new" /\ fired[c][l] = 0
      /\ ListOf(listeners[c], member[c])
  BY DEF ContextInv, NewNotCalled, Registered, OnCancel
<1>3. listeners[c] \in Seq(Callbacks) /\ fired[c] \in [Callbacks -> Nat]
      /\ member[c] \in [Callbacks -> {"new", "on", "late", "removed"}]
  BY DEF ContextInv, ContextTypeOK
<1>4. PICK status \in {"on", "late"} : member' = [member EXCEPT ![c] = [@ EXCEPT ![l] = status]]
  BY DEF ContextInv, ContextTypeOK, OnCancel
<1>5. /\ listeners'[c] = Append(listeners[c], l)
      /\ member'[c] = [member[c] EXCEPT ![l] = status]
      /\ \A d \in Calls \ {c} : listeners'[d] = listeners[d] /\ member'[d] = member[d]
  BY <1>4 DEF ContextInv, ContextTypeOK, OnCancel
<1>6. /\ ListOf(listeners'[c], member'[c])
      /\ \A pos \in Nat : NotCalled(listeners[c], pos, fired[c])
                             => NotCalled(listeners'[c], pos, fired[c])
  <2> DEFINE s == listeners[c]
             m == member[c]
             f == fired[c]
  <2>1. /\ s \in Seq(Callbacks) /\ f \in [Callbacks -> Nat]
        /\ m \in [Callbacks -> {"new", "on", "late", "removed"}]
        /\ ListOf(s, m) /\ m[l] = "new" /\ f[l] = 0
    BY <1>2, <1>3
  <2> HIDE DEF s, m, f
  <2>2. \A pos \in Nat : NotCalled(s, pos, f) => NotCalled(Append(s, l), pos, f)
    BY <2>1, AppendList
  <2>3. ListOf(Append(s, l), [m EXCEPT ![l] = status])
    <3>1. 0 \in Nat OBVIOUS
    <3> QED BY <2>1, <3>1, AppendList
  <2>4. listeners'[c] = Append(s, l) /\ member'[c] = [m EXCEPT ![l] = status]
    BY <1>5 DEF s, m
  <2> QED BY <2>2, <2>3, <2>4 DEF s, f
<1>7. Registered'
  <2>1. ASSUME NEW d \in Calls PROVE ListOf(listeners'[d], member'[d])
    <3>1. CASE d = c BY <1>6, <3>1
    <3>2. CASE d # c BY <1>5, <3>2 DEF ContextInv, Registered
    <3> QED BY <3>1, <3>2
  <2> QED BY <2>1 DEF Registered
<1>8. AheadNotCalled'
  <2>1. SUFFICES ASSUME ~Quiet
                 PROVE  NotCalled(listeners'[firing.call], firing.pos, fired[firing.call])
    BY DEF AheadNotCalled, OnCancel, Quiet
  <2>2. firing.call \in Calls /\ firing.pos \in Nat
    BY <2>1 DEF ContextInv, ContextTypeOK, Firings, Quiet
  <2>3. NotCalled(listeners[firing.call], firing.pos, fired[firing.call])
    BY <2>1 DEF ContextInv, AheadNotCalled
  <2>4. CASE firing.call = c BY <1>6, <2>2, <2>3, <2>4
  <2>5. CASE firing.call # c BY <1>5, <2>2, <2>3, <2>5
  <2> QED BY <2>4, <2>5
<1>9. NewNotCalled'
  <2>1. ASSUME NEW d \in Calls, NEW k \in Callbacks, member'[d][k] = "new"
        PROVE  member[d][k] = "new"
    <3>1. CASE d = c BY <1>3, <1>5, <2>1, <3>1
    <3>2. CASE d # c BY <1>5, <2>1, <3>2
    <3> QED BY <3>1, <3>2
  <2> QED BY <2>1 DEF ContextInv, NewNotCalled, OnCancel
<1>10. QuietBefore' /\ FiringIsCancelled' /\ AtMostOnce'
  BY DEF ContextInv, QuietBefore, FiringIsCancelled, AtMostOnce, OnCancel, Quiet
<1> QED BY <1>1, <1>7, <1>8, <1>9, <1>10 DEF ContextInv

LEMMA RemoveOnCancelInv ==
    ASSUME ContextInv, NEW c \in Calls, NEW l \in Callbacks, RemoveOnCancel(c, l)
    PROVE  ContextInv'
<1>1. ContextTypeOK' BY RemoveOnCancelType DEF ContextInv
<1>2. listeners[c] \in Seq(Callbacks) /\ fired[c] \in [Callbacks -> Nat]
      /\ member[c] \in [Callbacks -> {"new", "on", "late", "removed"}]
      /\ ListOf(listeners[c], member[c])
  BY DEF ContextInv, ContextTypeOK, Registered
<1>3. PICK i \in 1 .. Len(listeners[c]) :
        /\ listeners[c][i] = l
        /\ listeners' = [listeners EXCEPT ![c] = RemoveAt(listeners[c], i)]
  <2>1. DOMAIN listeners[c] = 1 .. Len(listeners[c]) BY <1>2
  <2>2. \E i \in DOMAIN listeners[c] :
          /\ listeners[c][i] = l
          /\ listeners' = [listeners EXCEPT ![c] = RemoveAt(listeners[c], i)]
    BY DEF RemoveOnCancel
  <2> QED BY <2>1, <2>2
<1>4. /\ listeners'[c] = RemoveAt(listeners[c], i)
      /\ member'[c] = [member[c] EXCEPT ![listeners[c][i]] = "removed"]
      /\ \A d \in Calls \ {c} : listeners'[d] = listeners[d] /\ member'[d] = member[d]
  BY <1>3 DEF ContextInv, ContextTypeOK, RemoveOnCancel
<1>5. /\ ListOf(listeners'[c], member'[c])
      /\ \A pos \in Nat : NotCalled(listeners[c], pos, fired[c])
                             => NotCalled(listeners'[c], pos, fired[c])
  <2> DEFINE s == listeners[c]
             m == member[c]
             f == fired[c]
  <2>1. /\ s \in Seq(Callbacks) /\ f \in [Callbacks -> Nat] /\ i \in 1 .. Len(s)
        /\ m \in [Callbacks -> {"new", "on", "late", "removed"}]
        /\ ListOf(s, m)
    BY <1>2
  <2> HIDE DEF s, m, f
  <2>2. \A pos \in Nat :
          /\ ListOf(RemoveAt(s, i), [m EXCEPT ![s[i]] = "removed"])
          /\ NotCalled(s, pos, f) => NotCalled(RemoveAt(s, i), pos, f)
    BY <2>1, RemoveFromList
  <2> QED BY <1>4, <2>2 DEF s, m, f
<1>6. Registered'
  <2>1. ASSUME NEW d \in Calls PROVE ListOf(listeners'[d], member'[d])
    <3>1. CASE d = c BY <1>5, <3>1
    <3>2. CASE d # c BY <1>4, <3>2 DEF ContextInv, Registered
    <3> QED BY <3>1, <3>2
  <2> QED BY <2>1 DEF Registered
<1>7. AheadNotCalled'
  <2>1. SUFFICES ASSUME ~Quiet
                 PROVE  NotCalled(listeners'[firing.call], firing.pos, fired[firing.call])
    BY DEF AheadNotCalled, RemoveOnCancel, Quiet
  <2>2. firing.call \in Calls /\ firing.pos \in Nat
    BY <2>1 DEF ContextInv, ContextTypeOK, Firings, Quiet
  <2>3. NotCalled(listeners[firing.call], firing.pos, fired[firing.call])
    BY <2>1 DEF ContextInv, AheadNotCalled
  <2>4. CASE firing.call = c BY <1>5, <2>2, <2>3, <2>4
  <2>5. CASE firing.call # c BY <1>4, <2>2, <2>3, <2>5
  <2> QED BY <2>4, <2>5
<1>8. NewNotCalled'
  <2>1. ASSUME NEW d \in Calls, NEW k \in Callbacks, member'[d][k] = "new"
        PROVE  member[d][k] = "new"
    <3>1. CASE d = c BY <1>2, <1>3, <1>4, <2>1, <3>1
    <3>2. CASE d # c BY <1>4, <2>1, <3>2
    <3> QED BY <3>1, <3>2
  <2> QED BY <2>1 DEF ContextInv, NewNotCalled, RemoveOnCancel
<1>9. QuietBefore' /\ FiringIsCancelled' /\ AtMostOnce'
  BY DEF ContextInv, QuietBefore, FiringIsCancelled, AtMostOnce, RemoveOnCancel, Quiet
<1> QED BY <1>1, <1>6, <1>7, <1>8, <1>9 DEF ContextInv

LEMMA NotifyCancelledInv ==
    ASSUME ContextInv, ContextTypeOK', NEW c \in Calls, NotifyCancelled(c)
    PROVE  ContextInv'
<1>1. Quiet /\ ~cancelled[c] /\ UNCHANGED <<listeners, fired, member>>
      /\ cancelled' = [cancelled EXCEPT ![c] = TRUE]
      /\ firing' = [call |-> c, pos |-> 0, run |-> None]
  BY DEF NotifyCancelled, FirstTime
<1>2. \A l \in Callbacks : fired[c][l] = 0
  BY <1>1 DEF ContextInv, ContextTypeOK, QuietBefore
<1>3. \A d \in Calls : cancelled[d] => cancelled'[d]
  BY <1>1 DEF ContextInv, ContextTypeOK
<1>4. cancelled'[c] BY <1>1 DEF ContextInv, ContextTypeOK
<1>5. QuietBefore' BY <1>1, <1>3 DEF ContextInv, QuietBefore
<1>6. FiringIsCancelled' BY <1>1, <1>4 DEF FiringIsCancelled
<1>7. AheadNotCalled'
  <2>1. \A i \in 1 .. Len(listeners[c]) : listeners[c][i] \in Callbacks
    BY DEF ContextInv, ContextTypeOK
  <2> QED BY <1>1, <1>2, <2>1 DEF AheadNotCalled, NotCalled
<1> QED BY <1>1, <1>5, <1>6, <1>7 DEF ContextInv, AtMostOnce, NewNotCalled, Registered

LEMMA CallNextListenerInv ==
    ASSUME ContextInv, CallNextListener PROVE ContextInv'
<1>1. ContextTypeOK' BY CallNextListenerType DEF ContextInv
<1> DEFINE c == firing.call
           n == NextListener
           s == listeners[c]
<1>2. /\ ~Quiet /\ c \in Calls /\ n \in Callbacks /\ n = s[firing.pos + 1]
      /\ firing.pos + 1 \in 1 .. Len(s) /\ firing.pos \in Nat
  BY NextListenerType DEF ContextInv, CallNextListener, NextListener,
                          ContextTypeOK, Firings
<1>3. cancelled[c] /\ ListOf(s, member[c]) /\ NotCalled(s, firing.pos, fired[c])
  BY <1>2 DEF ContextInv, FiringIsCancelled, Registered, AheadNotCalled
<1>4. fired[c][n] = 0 BY <1>2, <1>3 DEF NotCalled
<1>5. member[c][n] # "new" BY <1>2, <1>3 DEF ListOf
<1>6. fired' = [fired EXCEPT ![c] = [@ EXCEPT ![n] = 1]]
  BY <1>2, <1>4 DEF ContextInv, ContextTypeOK, CallNextListener
<1>7. firing'.call = c /\ firing'.pos = firing.pos + 1
      /\ UNCHANGED <<cancelled, listeners, member>>
  BY DEF ContextInv, ContextTypeOK, Firings, CallNextListener
<1> HIDE DEF n
<1>8. ASSUME NEW d \in Calls, NEW l \in Callbacks
      PROVE  \/ d = c /\ l = n /\ fired'[d][l] = 1
             \/ ~(d = c /\ l = n) /\ fired'[d][l] = fired[d][l]
  BY <1>2, <1>6 DEF ContextInv, ContextTypeOK
<1>9. QuietBefore' BY <1>3, <1>7, <1>8 DEF ContextInv, QuietBefore
<1>10. AtMostOnce' BY <1>8 DEF ContextInv, AtMostOnce
<1>11. NewNotCalled' BY <1>5, <1>7, <1>8 DEF ContextInv, NewNotCalled
<1>12. FiringIsCancelled' BY <1>3, <1>7 DEF FiringIsCancelled
<1>13. Registered' BY <1>7 DEF ContextInv, Registered
<1>14. AheadNotCalled'
  <2>1. ASSUME NEW i \in 1 .. Len(s), i > firing.pos + 1 PROVE fired'[c][s[i]] = 0
    <3>1. s[i] \in Callbacks BY <1>2 DEF ContextInv, ContextTypeOK
    <3>2. s[i] # n BY <1>2, <1>3, <2>1 DEF ListOf
    <3>3. fired[c][s[i]] = 0 BY <1>2, <1>3, <2>1 DEF NotCalled
    <3> QED BY <1>2, <1>8, <3>1, <3>2, <3>3
  <2> QED BY <1>7, <2>1 DEF AheadNotCalled, NotCalled
<1> QED BY <1>1, <1>9, <1>10, <1>11, <1>12, <1>13, <1>14 DEF ContextInv

\* The steps that leave the lists and what was called alone.
LEMMA FiringOnlyInv ==
    ASSUME ContextInv, ContextTypeOK', UNCHANGED <<cancelled, listeners, fired, member>>,
           \/ firing' = NotFiring
           \/ firing'.call = firing.call /\ firing'.pos = firing.pos
    PROVE  ContextInv'
<1>1. QuietBefore' /\ AtMostOnce' /\ NewNotCalled' /\ Registered'
  BY DEF ContextInv, QuietBefore, AtMostOnce, NewNotCalled, Registered
<1>2. FiringIsCancelled' /\ AheadNotCalled'
  BY DEF ContextInv, FiringIsCancelled, AheadNotCalled, Quiet, NotFiring
<1> QED BY <1>1, <1>2 DEF ContextInv

LEMMA ContextNextInv ==
    ASSUME ContextInv, [ContextNext]_contextVars PROVE ContextInv'
<1>1. ContextTypeOK /\ ContextTypeOK' BY ContextNextType DEF ContextInv
<1>2. ASSUME NEW c \in Calls, NotifyCancelled(c) PROVE ContextInv'
  BY <1>1, <1>2, NotifyCancelledInv
<1>3. CASE CallNextListener BY <1>3, CallNextListenerInv
<1>4. CASE CallbackReturns
  <2>1. firing'.call = firing.call /\ firing'.pos = firing.pos
    BY <1>1, <1>4 DEF ContextTypeOK, Firings, CallbackReturns
  <2> QED BY <1>1, <1>4, <2>1, FiringOnlyInv DEF CallbackReturns
<1>5. CASE CallbackThrows BY <1>1, <1>5, FiringOnlyInv DEF CallbackThrows
<1>6. CASE AllNotified BY <1>1, <1>6, FiringOnlyInv DEF AllNotified
<1>7. ASSUME NEW c \in Calls, NEW l \in Callbacks,
             OnCancel(c, l) \/ RemoveOnCancel(c, l)
      PROVE  ContextInv'
  BY <1>7, OnCancelInv, RemoveOnCancelInv
<1>8. CASE UNCHANGED contextVars
  BY <1>1, <1>8, FiringOnlyInv DEF contextVars
<1> QED BY <1>2, <1>3, <1>4, <1>5, <1>6, <1>7, <1>8 DEF ContextNext

LEMMA ContextInitInv == ContextInit => ContextInv
<1> SUFFICES ASSUME ContextInit PROVE ContextInv OBVIOUS
<1>1. ContextTypeOK BY ContextInitType
<1>2. Registered BY DEF ContextInit, Registered, ListOf
<1> QED BY <1>1, <1>2 DEF ContextInit, ContextInv, QuietBefore, FiringIsCancelled,
                          AtMostOnce, NewNotCalled, AheadNotCalled, Quiet, NotFiring

(* notifyCancelled calls no callback twice, and none before the call was     *)
(* cancelled, however many callbacks there are and whatever they register    *)
(* and remove while it walks over the live list.                             *)
THEOREM CallbacksCalledOnce == ContextSpec => []CalledOnce
<1>1. ContextInv => CalledOnce
  BY DEF ContextInv, ContextTypeOK, AtMostOnce, QuietBefore, CalledOnce
<1> QED BY <1>1, ContextInitInv, ContextNextInv, PTL DEF ContextSpec

-----------------------------------------------------------------------------
(* That the walk leaves nobody out: as long as no callback shifts the list   *)
(* under it (disturbed), what lies behind the place of the for..of has been  *)
(* called, and a callback that is registered is in the list.                 *)

Listed ==
    \A c \in Calls, l \in Callbacks :
        member[c][l] = "on" => \E i \in 1 .. Len(listeners[c]) : listeners[c][i] = l

\* Every callback of `s` up to `pos` has been called.
AllCalled(s, pos, f) == pos <= Len(s) /\ \A i \in 1 .. pos : f[s[i]] > 0
BehindCalled ==
    ~Quiet /\ firing.call \notin disturbed =>
        AllCalled(listeners[firing.call], firing.pos, fired[firing.call])

CompleteInv == ContextInv /\ Listed /\ BehindCalled /\ AllCallbacksInvoked

LEMMA FiringCall ==
    ASSUME ContextTypeOK, ~Quiet
    PROVE  firing.call \in Calls /\ firing.pos \in Nat
BY DEF ContextTypeOK, Firings, Quiet

LEMMA CompleteInvInit == ContextInit => CompleteInv
<1> SUFFICES ASSUME ContextInit PROVE CompleteInv OBVIOUS
<1>1. ContextInv BY ContextInitInv
<1>2. Listed /\ AllCallbacksInvoked BY DEF ContextInit, Listed, AllCallbacksInvoked
<1>3. BehindCalled BY DEF ContextInit, BehindCalled, Quiet, NotFiring
<1> QED BY <1>1, <1>2, <1>3 DEF CompleteInv

LEMMA OnCancelComplete ==
    ASSUME CompleteInv, NEW c \in Calls, NEW l \in Callbacks, OnCancel(c, l)
    PROVE  CompleteInv'
<1> DEFINE s == listeners[c]
<1>1. ContextInv' BY OnCancelInv DEF CompleteInv
<1>2. s \in Seq(Callbacks) BY DEF CompleteInv, ContextInv, ContextTypeOK
<1>3. /\ listeners'[c] = Append(s, l)
      /\ \A d \in Calls : d # c => listeners'[d] = listeners[d]
      /\ UNCHANGED <<cancelled, firing, fired, disturbed>>
  BY DEF OnCancel, CompleteInv, ContextInv, ContextTypeOK
<1>4. ASSUME NEW d \in Calls, NEW k \in Callbacks, member'[d][k] = "on"
      PROVE  member[d][k] = "on" \/ (d = c /\ k = l /\ ~cancelled[c])
  BY <1>4 DEF OnCancel, CompleteInv, ContextInv, ContextTypeOK
<1>5. Len(Append(s, l)) = Len(s) + 1 /\ Append(s, l)[Len(s) + 1] = l
      /\ (\A i \in 1 .. Len(s) : Append(s, l)[i] = s[i]) /\ Len(s) \in Nat
  BY <1>2, AppendProperties
<1>6. Listed'
  <2> SUFFICES ASSUME NEW d \in Calls, NEW k \in Callbacks, member'[d][k] = "on"
               PROVE  \E i \in 1 .. Len(listeners'[d]) : listeners'[d][i] = k
    BY DEF Listed
  <2>1. CASE d = c /\ k = l
    <3>1. Len(s) + 1 \in 1 .. Len(listeners'[c]) BY <1>3, <1>5
    <3> QED BY <1>3, <1>5, <2>1, <3>1
  <2>2. CASE ~(d = c /\ k = l)
    <3>1. PICK i \in 1 .. Len(listeners[d]) : listeners[d][i] = k
      BY <1>4, <2>2 DEF CompleteInv, Listed
    <3>2. CASE d = c
      <4>1. i \in 1 .. Len(listeners'[c]) /\ listeners'[c][i] = k
        BY <1>3, <1>5, <3>1, <3>2
      <4> QED BY <3>2, <4>1
    <3>3. CASE d # c BY <1>3, <3>1, <3>3
    <3> QED BY <3>2, <3>3
  <2> QED BY <2>1, <2>2
<1>7. BehindCalled'
  <2> SUFFICES ASSUME ~Quiet, firing.call \notin disturbed
               PROVE  AllCalled(listeners'[firing.call], firing.pos, fired[firing.call])
    BY <1>3 DEF BehindCalled, Quiet
  <2>1. firing.call \in Calls /\ firing.pos \in Nat
    BY FiringCall DEF CompleteInv, ContextInv
  <2>2. AllCalled(listeners[firing.call], firing.pos, fired[firing.call])
    BY DEF CompleteInv, BehindCalled
  <2>3. CASE firing.call # c BY <1>3, <2>1, <2>2, <2>3
  <2>4. CASE firing.call = c
    BY <1>3, <1>5, <2>1, <2>2, <2>4, SMTT(30) DEF AllCalled
  <2> QED BY <2>3, <2>4
<1>8. AllCallbacksInvoked'
  BY <1>3, <1>4 DEF CompleteInv, AllCallbacksInvoked
<1> QED BY <1>1, <1>6, <1>7, <1>8 DEF CompleteInv

\* A removal behind the place of the for..of disturbs the call; one ahead of
\* it leaves what was called where it is.
LEMMA RemoveOnCancelComplete ==
    ASSUME CompleteInv, NEW c \in Calls, NEW l \in Callbacks, RemoveOnCancel(c, l)
    PROVE  CompleteInv'
<1> DEFINE s == listeners[c]
<1>1. ContextInv' BY RemoveOnCancelInv DEF CompleteInv
<1>2. s \in Seq(Callbacks) /\ DOMAIN s = 1 .. Len(s) /\ Len(s) \in Nat
  BY DEF CompleteInv, ContextInv, ContextTypeOK
<1>3. PICK i \in 1 .. Len(s) :
        /\ s[i] = l
        /\ listeners' = [listeners EXCEPT ![c] = RemoveAt(s, i)]
        /\ disturbed' = IF firing.call = c /\ i <= firing.pos
                        THEN disturbed \cup {c} ELSE disturbed
  BY <1>2 DEF RemoveOnCancel
<1>4. /\ listeners'[c] = RemoveAt(s, i)
      /\ \A d \in Calls : d # c => listeners'[d] = listeners[d]
      /\ UNCHANGED <<cancelled, firing, fired>> /\ disturbed \subseteq disturbed'
  BY <1>3 DEF RemoveOnCancel, CompleteInv, ContextInv, ContextTypeOK
<1>5. ASSUME NEW d \in Calls, NEW k \in Callbacks, member'[d][k] = "on"
      PROVE  member[d][k] = "on" /\ ~(d = c /\ k = l)
  BY <1>5 DEF RemoveOnCancel, CompleteInv, ContextInv, ContextTypeOK
<1>6. /\ Len(RemoveAt(s, i)) = Len(s) - 1
      /\ \A j \in 1 .. Len(s) - 1 :
           RemoveAt(s, i)[j] = IF j < i THEN s[j] ELSE s[j + 1]
  BY <1>2, <1>3, RemoveAtElements
<1>7. Listed'
  <2> SUFFICES ASSUME NEW d \in Calls, NEW k \in Callbacks, member'[d][k] = "on"
               PROVE  \E j \in 1 .. Len(listeners'[d]) : listeners'[d][j] = k
    BY DEF Listed
  <2>1. PICK j \in 1 .. Len(listeners[d]) : listeners[d][j] = k
    BY <1>5 DEF CompleteInv, Listed
  <2>2. CASE d = c
    <3>1. j # i BY <1>3, <1>5, <2>1, <2>2
    <3> DEFINE h == IF j < i THEN j ELSE j - 1
    <3>2. h \in 1 .. Len(s) - 1 /\ (IF h < i THEN s[h] ELSE s[h + 1]) = s[j]
      BY <1>2, <2>1, <2>2, <3>1
    <3> HIDE DEF h
    <3>3. h \in 1 .. Len(RemoveAt(s, i)) /\ RemoveAt(s, i)[h] = s[j] BY <1>6, <3>2
    <3> QED BY <1>4, <2>1, <2>2, <3>3
  <2>3. CASE d # c BY <1>4, <2>1, <2>3
  <2> QED BY <2>2, <2>3
<1>8. BehindCalled'
  <2> SUFFICES ASSUME ~Quiet, firing.call \notin disturbed'
               PROVE  AllCalled(listeners'[firing.call], firing.pos, fired[firing.call])
    BY <1>4 DEF BehindCalled, Quiet
  <2>1. firing.call \in Calls /\ firing.pos \in Nat
    BY FiringCall DEF CompleteInv, ContextInv
  <2>2. AllCalled(listeners[firing.call], firing.pos, fired[firing.call])
    BY <1>4 DEF CompleteInv, BehindCalled
  <2>3. CASE firing.call # c BY <1>4, <2>1, <2>2, <2>3
  <2>4. CASE firing.call = c
    <3>1. firing.pos < i BY <1>2, <1>3, <2>1, <2>4
    <3>2. firing.pos <= Len(s) - 1 /\ \A j \in 1 .. firing.pos : RemoveAt(s, i)[j] = s[j]
      BY <1>2, <1>6, <2>1, <3>1
    <3> QED BY <1>4, <1>6, <2>1, <2>2, <2>4, <3>2 DEF AllCalled
  <2> QED BY <2>3, <2>4
<1>9. AllCallbacksInvoked'
  BY <1>4, <1>5 DEF CompleteInv, AllCallbacksInvoked
<1> QED BY <1>1, <1>7, <1>8, <1>9 DEF CompleteInv

LEMMA NotifyCancelledComplete ==
    ASSUME CompleteInv, NEW c \in Calls, NotifyCancelled(c), ContextInv'
    PROVE  CompleteInv'
<1>1. Quiet /\ firing' = [call |-> c, pos |-> 0, run |-> None]
      /\ UNCHANGED <<listeners, fired, member, disturbed>>
      /\ \A d \in Calls : d # c => cancelled'[d] = cancelled[d]
  BY DEF NotifyCancelled, CompleteInv, ContextInv, ContextTypeOK
<1>2. Listed' BY <1>1 DEF CompleteInv, Listed
<1>3. BehindCalled'
  <2>1. Len(listeners[c]) \in Nat BY DEF CompleteInv, ContextInv, ContextTypeOK
  <2> QED BY <1>1, <2>1 DEF BehindCalled, AllCalled
<1>4. AllCallbacksInvoked'
  <2>1. \A d \in Calls : firing.call # d BY <1>1, ContextAssumption DEF Quiet
  <2> QED BY <1>1, <2>1 DEF CompleteInv, AllCallbacksInvoked
<1> QED BY <1>2, <1>3, <1>4 DEF CompleteInv

LEMMA CallNextListenerComplete ==
    ASSUME CompleteInv, CallNextListener, ContextInv' PROVE CompleteInv'
<1> DEFINE c == firing.call
           n == NextListener
<1>1. /\ ~Quiet /\ c \in Calls /\ n \in Callbacks /\ n = listeners[c][firing.pos + 1]
      /\ firing.pos + 1 \in 1 .. Len(listeners[c]) /\ firing.pos \in Nat
  BY NextListenerType, FiringCall DEF CompleteInv, ContextInv, CallNextListener, NextListener
<1>2. /\ firing'.call = c /\ firing'.pos = firing.pos + 1
      /\ UNCHANGED <<cancelled, listeners, member, disturbed>>
      /\ fired' = [fired EXCEPT ![c][n] = @ + 1]
  BY DEF CompleteInv, ContextInv, ContextTypeOK, Firings, CallNextListener
<1> HIDE DEF n
<1>3. ASSUME NEW d \in Calls, NEW l \in Callbacks
      PROVE  /\ fired'[d][l] \in Nat /\ fired'[d][l] >= fired[d][l]
             /\ d = c /\ l = n => fired'[d][l] > 0
  <2>1. fired \in [Calls -> [Callbacks -> Nat]] BY DEF CompleteInv, ContextInv, ContextTypeOK
  <2>2. fired' = [fired EXCEPT ![c] = [fired[c] EXCEPT ![n] = fired[c][n] + 1]]
    BY <1>2
  <2>3. CASE d = c BY <1>1, <2>1, <2>2, <2>3
  <2>4. CASE d # c BY <1>1, <2>1, <2>2, <2>4
  <2> QED BY <2>3, <2>4
<1>4. Listed' BY <1>2 DEF CompleteInv, Listed
<1>5. BehindCalled'
  <2> SUFFICES ASSUME c \notin disturbed
               PROVE  AllCalled(listeners[c], firing.pos + 1, fired'[c])
    BY <1>2 DEF BehindCalled
  <2>1. AllCalled(listeners[c], firing.pos, fired[c])
    BY <1>1 DEF CompleteInv, BehindCalled
  <2>2. \A i \in 1 .. Len(listeners[c]) : listeners[c][i] \in Callbacks
    BY <1>1 DEF CompleteInv, ContextInv, ContextTypeOK
  <2>3. ASSUME NEW i \in 1 .. firing.pos + 1 PROVE fired'[c][listeners[c][i]] > 0
    <3>1. CASE i = firing.pos + 1 BY <1>1, <1>3, <3>1
    <3>2. CASE i # firing.pos + 1
      <4>1. i \in 1 .. firing.pos /\ i \in 1 .. Len(listeners[c]) BY <1>1, <3>2
      <4>2. listeners[c][i] \in Callbacks /\ fired[c][listeners[c][i]] > 0
        BY <2>1, <2>2, <4>1 DEF AllCalled
      <4>3. fired[c][listeners[c][i]] \in Nat
        BY <1>1, <4>2 DEF CompleteInv, ContextInv, ContextTypeOK
      <4> QED BY <1>1, <1>3, <4>2, <4>3
    <3> QED BY <3>1, <3>2
  <2> QED BY <1>1, <2>3 DEF AllCalled
<1>6. AllCallbacksInvoked'
  <2> SUFFICES ASSUME NEW d \in Calls \ disturbed, cancelled[d], c # d,
                      NEW l \in Callbacks, member[d][l] = "on"
               PROVE  fired'[d][l] = 1
    BY <1>2 DEF AllCallbacksInvoked
  <2>1. fired[d][l] = 1 BY DEF CompleteInv, AllCallbacksInvoked
  <2>2. fired'[d][l] <= 1 BY DEF ContextInv, AtMostOnce
  <2>3. fired'[d][l] \in Nat /\ fired'[d][l] >= 1 BY <1>3, <2>1
  <2> QED BY <2>2, <2>3
<1> QED BY <1>4, <1>5, <1>6 DEF CompleteInv

\* The walk is at the end of the list: all that is registered was called.
LEMMA AllNotifiedComplete ==
    ASSUME CompleteInv, AllNotified, ContextInv' PROVE CompleteInv'
<1> DEFINE c == firing.call
<1>1. ~Quiet /\ c \in Calls /\ firing.pos \in Nat
  BY FiringCall DEF AllNotified, CompleteInv, ContextInv
<1>2. firing' = NotFiring /\ UNCHANGED <<cancelled, listeners, fired, member, disturbed>>
  BY DEF AllNotified
<1>3. Listed' BY <1>2 DEF CompleteInv, Listed
<1>4. BehindCalled' BY <1>2 DEF BehindCalled, Quiet, NotFiring
<1>5. AllCallbacksInvoked'
  <2> SUFFICES ASSUME NEW d \in Calls \ disturbed, cancelled[d],
                      NEW l \in Callbacks, member[d][l] = "on"
               PROVE  fired[d][l] = 1
    BY <1>2 DEF AllCallbacksInvoked
  <2>1. CASE d # c BY <2>1 DEF CompleteInv, AllCallbacksInvoked
  <2>2. CASE d = c
    <3>1. PICK i \in 1 .. Len(listeners[c]) : listeners[c][i] = l
      BY <2>2 DEF CompleteInv, Listed
    <3>2. AllCalled(listeners[c], firing.pos, fired[c])
      BY <1>1, <2>2 DEF CompleteInv, BehindCalled
    <3>3. Len(listeners[c]) \in Nat /\ ~(firing.pos < Len(listeners[c]))
      BY <1>1 DEF AllNotified, MoreListeners, CompleteInv, ContextInv, ContextTypeOK
    <3>4. i \in 1 .. firing.pos BY <1>1, <3>1, <3>3
    <3>5. fired[c][l] > 0 BY <3>1, <3>2, <3>4 DEF AllCalled
    <3>6. fired[c][l] \in Nat /\ fired[c][l] <= 1
      BY <1>1 DEF CompleteInv, ContextInv, ContextTypeOK, AtMostOnce
    <3> QED BY <2>2, <3>5, <3>6
  <2> QED BY <2>1, <2>2
<1> QED BY <1>3, <1>4, <1>5 DEF CompleteInv

LEMMA ContextNextComplete ==
    ASSUME CompleteInv, [ContextNext]_contextVars PROVE CompleteInv'
<1>1. ContextInv /\ ContextInv' BY ContextNextInv DEF CompleteInv
<1>2. ASSUME NEW c \in Calls, NotifyCancelled(c) PROVE CompleteInv'
  BY <1>1, <1>2, NotifyCancelledComplete
<1>3. CASE CallNextListener BY <1>1, <1>3, CallNextListenerComplete
<1>4. CASE CallbackReturns
  <2>1. firing'.call = firing.call /\ firing'.pos = firing.pos
    BY <1>1, <1>4 DEF ContextInv, ContextTypeOK, Firings, CallbackReturns
  <2> QED
    BY <1>1, <1>4, <2>1
       DEF CallbackReturns, CompleteInv, Listed, BehindCalled, AllCallbacksInvoked, Quiet
<1>5. CASE CallbackThrows
  <2>1. firing' = NotFiring /\ disturbed' = disturbed \cup {firing.call}
        /\ UNCHANGED <<cancelled, listeners, fired, member>>
    BY <1>5 DEF CallbackThrows
  <2> QED
    BY <1>1, <2>1
       DEF CompleteInv, Listed, BehindCalled, AllCallbacksInvoked, Quiet, NotFiring
<1>6. CASE AllNotified BY <1>1, <1>6, AllNotifiedComplete
<1>7. ASSUME NEW c \in Calls, NEW l \in Callbacks,
             OnCancel(c, l) \/ RemoveOnCancel(c, l)
      PROVE  CompleteInv'
  BY <1>7, OnCancelComplete, RemoveOnCancelComplete
<1>8. CASE UNCHANGED contextVars
  BY <1>1, <1>8
     DEF contextVars, CompleteInv, Listed, BehindCalled, AllCallbacksInvoked, Quiet
<1> QED BY <1>2, <1>3, <1>4, <1>5, <1>6, <1>7, <1>8 DEF ContextNext

(* notifyCancelled "invokes all callbacks registered with onCancel()": none  *)
(* that was registered before the call was cancelled is left out, for any    *)
(* number of them, unless a callback removed itself or an earlier one or     *)
(* threw.                                                                    *)
THEOREM AllCallbacksAreInvoked == ContextSpec => []AllCallbacksInvoked
<1>1. CompleteInv => AllCallbacksInvoked BY DEF CompleteInv
<1> QED BY <1>1, CompleteInvInit, ContextNextComplete, PTL DEF ContextSpec


-----------------------------------------------------------------------------
(* The chat uses the contexts as their interface allows, so that what is     *)
(* proved of them holds in the chat.                                         *)

LEMMA ChatStepsContexts == ASSUME [ChatNext]_chatVars PROVE [ContextNext]_contextVars
<1>1. CASE UNCHANGED chatVars BY <1>1 DEF chatVars
<1>2. CASE CallCallback BY <1>2 DEF CallCallback, ContextNext
<1>3. CASE ContinueNotify BY <1>3 DEF ContinueNotify, ContextNext
<1>4. CASE Tick BY <1>4 DEF Tick
<1>5. ASSUME NEW c \in Others, OtherCall(c) PROVE [ContextNext]_contextVars
  <2>1. c \in Calls BY ChatAssumption
  <2> QED BY <1>5, <2>1 DEF OtherCall, ContextNext
<1>6. ASSUME NEW c \in Joins, Join(c) \/ AwaitClose(c) PROVE [ContextNext]_contextVars
  <2>1. c \in Calls /\ "removeUser" \in Callbacks /\ "resolve" \in Callbacks
    BY ChatAssumption DEF Joins
  <2>2. MayCall(c, "add") BY <1>6 DEF Join, AwaitClose, MayCall
  <2>3. OnCancel(c, "removeUser") \/ OnCancel(c, "resolve")
    BY <1>6 DEF Join, AwaitClose
  <2> QED BY <2>1, <2>2, <2>3 DEF ContextNext
<1>7. ASSUME NEW c \in Joins, Leave(c) \/ JoinEnds(c) \/ Post(c) PROVE UNCHANGED contextVars
  BY <1>7 DEF Leave, JoinEnds, Post
<1>8. ASSUME NEW c \in Joins, ClientCloses(c) PROVE [ContextNext]_contextVars
  <2>1. c \in Calls BY DEF Joins
  <2> QED BY <1>8, <2>1 DEF ClientCloses, ContextNext
<1>9. ASSUME NEW c \in Joins, NEW d \in Joins, SendDone(c, d) PROVE UNCHANGED contextVars
  BY <1>9 DEF SendDone
<1> QED
  BY <1>1, <1>2, <1>3, <1>4, <1>5, <1>6, <1>7, <1>8, <1>9 DEF ChatNext

(* The contexts of the chat keep what a context promises: no callback is     *)
(* called twice, and none is left out.                                       *)
THEOREM ChatKeepsContexts == ChatSpec => [](CalledOnce /\ AllCallbacksInvoked)
<1>1. ChatInit => ContextInit BY DEF ChatInit
<1>2. ChatSpec => ContextSpec
  BY <1>1, ChatStepsContexts, PTL DEF ChatSpec, ContextSpec
<1> QED BY <1>2, CallbacksCalledOnce, AllCallbacksAreInvoked, PTL

-----------------------------------------------------------------------------
(* The users. A user is on the list from the join until the callback of      *)
(* addUser is called, which is before the call's end is noticed by anyone    *)
(* else. That the callback takes the right user off the list rests on the    *)
(* tokens being different.                                                   *)

Places == {"idle", "joining", "open", "leaving", "done"}
Events == [kind : {"joined", "left", "message"}, of : Joins]

ChatTypeOK ==
    /\ now \in Nat \ {0}
    /\ users \in Seq([token : Nat, call : Joins])
    /\ at \in [Calls -> Places]
    /\ sending \in [Calls -> SUBSET Joins]
    /\ token \in [Calls -> Nat] /\ posts \in [Calls -> Nat]
    /\ got \in [Calls -> Seq(Events)]

\* The callback that removes a user is registered as long as he is there.
Membership ==
    /\ \A c \in Calls : (at[c] = "idle" <=> token[c] = 0) /\ token[c] <= now
    /\ \A c \in Others : at[c] = "idle"
    /\ \A c \in Joins :
         /\ at[c] = "idle" => ~cancelled[c]
         /\ at[c] # "idle" => member[c]["removeUser"] = "on"
         /\ at[c] \in {"leaving", "done"} => cancelled[c]
         /\ c \notin disturbed

TokensDiffer ==
    \A c, d \in Calls : token[c] = token[d] /\ token[c] # 0 => c = d

\* Has the user of a call joined, and not been removed?
Present(c) == at[c] # "idle" /\ fired[c]["removeUser"] = 0

UserList ==
    /\ \A i \in 1 .. Len(users) :
         Present(users[i].call) /\ users[i].token = token[users[i].call]
    /\ \A i, j \in 1 .. Len(users) : users[i].call = users[j].call => i = j
    /\ \A c \in Joins : Present(c) => \E i \in 1 .. Len(users) : users[i].call = c

\* What was heard: nothing before joining, and "left" of those who leave only.
Heard ==
    /\ \A c \in Calls : got[c] = <<>> <=> at[c] = "idle"
    /\ \A c \in Calls : \A i \in 1 .. Len(got[c]) :
         got[c][i].kind = "left" => at[got[c][i].of] \in {"leaving", "done"}

ChatInv ==
    /\ CompleteInv /\ ChatTypeOK /\ Membership /\ TokensDiffer /\ UserList
    /\ Heard /\ OwnJoinFirst /\ LeavingIsLast

LEMMA JoinsAreCalls == Joins \subseteq Calls /\ "removeUser" \in Callbacks
                       /\ "resolve" \in Callbacks
BY ChatAssumption DEF Joins

LEMMA StreamsOfUsers ==
    ASSUME ChatTypeOK
    PROVE  /\ DOMAIN users = 1 .. Len(users) /\ Len(users) \in Nat
           /\ \A i \in 1 .. Len(users) : users[i].call \in Joins /\ users[i].token \in Nat
           /\ \A d : d \in Streams(users) <=> \E i \in 1 .. Len(users) : users[i].call = d
<1> DEFINE Users == [token : Nat, call : Joins]
<1>1. ASSUME NEW u \in Users PROVE u.call \in Joins /\ u.token \in Nat OBVIOUS
<1> HIDE DEF Users
<1>2. users \in Seq(Users) BY DEF ChatTypeOK, Users
<1>3. DOMAIN users = 1 .. Len(users) /\ Len(users) \in Nat BY <1>2
<1>4. \A i \in 1 .. Len(users) : users[i] \in Users BY <1>2, ElementOfSeq
<1> QED BY <1>1, <1>3, <1>4 DEF Streams

\* While no callback is under way, a user is present as long as his call is
\* not cancelled: here it is needed that no callback is left out.
LEMMA PresentIsOpen ==
    ASSUME CompleteInv, Membership, Quiet, NEW c \in Joins, at[c] # "idle"
    PROVE  Present(c) <=> ~cancelled[c]
<1>1. c \in Calls /\ "removeUser" \in Callbacks BY JoinsAreCalls
<1>2. fired[c]["removeUser"] \in Nat
  BY <1>1 DEF CompleteInv, ContextInv, ContextTypeOK
<1>3. CASE cancelled[c]
  <2>1. firing.call # c BY <1>1, ContextAssumption DEF Quiet
  <2>2. member[c]["removeUser"] = "on" /\ c \notin disturbed BY DEF Membership
  <2>3. fired[c]["removeUser"] = 1
    BY <1>1, <1>3, <2>1, <2>2 DEF CompleteInv, AllCallbacksInvoked
  <2> QED BY <1>3, <2>3 DEF Present
<1>4. CASE ~cancelled[c]
  BY <1>1, <1>2, <1>4 DEF CompleteInv, ContextInv, QuietBefore, Present
<1> QED BY <1>3, <1>4

LEMMA StreamsAreOpen ==
    ASSUME ChatInv, Quiet
    PROVE  Streams(users) = {c \in Joins : at[c] # "idle" /\ ~cancelled[c]}
<1>1. ASSUME NEW c \in Streams(users) PROVE c \in Joins /\ at[c] # "idle" /\ ~cancelled[c]
  <2>1. PICK i \in 1 .. Len(users) : users[i].call = c
    BY StreamsOfUsers DEF ChatInv
  <2>2. c \in Joins /\ Present(c) BY <2>1, StreamsOfUsers DEF ChatInv, UserList
  <2> QED BY <2>2, PresentIsOpen DEF ChatInv, Present
<1>2. ASSUME NEW c \in Joins, at[c] # "idle", ~cancelled[c] PROVE c \in Streams(users)
  <2>1. Present(c) BY <1>2, PresentIsOpen DEF ChatInv
  <2> QED BY <2>1, StreamsOfUsers DEF ChatInv, UserList
<1> QED BY <1>1, <1>2

\* An event is written to some streams: what holds of all that was heard.
LEMMA EventHeard ==
    ASSUME ChatInv, NEW S, NEW e \in Events,
           got' = [d \in Calls |-> IF d \in S THEN Append(got[d], e) ELSE got[d]],
           \A c \in Calls : at[c] \in {"leaving", "done"} => at'[c] \in {"leaving", "done"},
           \A c \in Calls : at'[c] = "idle" <=> at[c] = "idle" /\ c \notin S,
           \A c \in Calls \cap S : at[c] = "idle" => e = [kind |-> "joined", of |-> c],
           at[e.of] \notin {"leaving", "done"},
           e.kind = "left" => at'[e.of] \in {"leaving", "done"}
    PROVE  /\ got' \in [Calls -> Seq(Events)]
           /\ Heard' /\ OwnJoinFirst' /\ LeavingIsLast'
<1>1. ASSUME NEW c \in Calls
      PROVE  /\ got[c] \in Seq(Events) /\ Len(got[c]) \in Nat
             /\ DOMAIN got[c] = 1 .. Len(got[c])
             /\ \A i \in 1 .. Len(got[c]) : got[c][i] \in Events
  <2>1. got[c] \in Seq(Events) BY DEF ChatInv, ChatTypeOK
  <2> QED BY <2>1
<1>2. ASSUME NEW c \in Calls, c \in S
      PROVE  /\ got'[c] \in Seq(Events) /\ Len(got'[c]) = Len(got[c]) + 1
             /\ DOMAIN got'[c] = 1 .. Len(got[c]) + 1
             /\ got'[c][Len(got[c]) + 1] = e
             /\ \A i \in 1 .. Len(got[c]) : got'[c][i] = got[c][i]
             /\ got'[c] # <<>>
  <2>1. got'[c] = Append(got[c], e) BY <1>2
  <2>2. Append(got[c], e) \in Seq(Events) /\ Len(Append(got[c], e)) = Len(got[c]) + 1
        /\ Append(got[c], e)[Len(got[c]) + 1] = e
        /\ \A i \in 1 .. Len(got[c]) : Append(got[c], e)[i] = got[c][i]
    BY <1>1, AppendProperties
  <2>3. DOMAIN Append(got[c], e) = 1 .. Len(got[c]) + 1 BY <1>1, <2>2
  <2>4. Append(got[c], e) # <<>> BY <1>1, <2>2
  <2> QED BY <2>1, <2>2, <2>3, <2>4
<1>3. ASSUME NEW c \in Calls, c \notin S PROVE got'[c] = got[c] BY <1>3
<1>4. got' \in [Calls -> Seq(Events)] BY <1>1, <1>2, <1>3
<1>5. Heard'
  <2>1. ASSUME NEW c \in Calls PROVE got'[c] = <<>> <=> at'[c] = "idle"
    BY <1>2, <1>3 DEF ChatInv, Heard
  <2>2. ASSUME NEW c \in Calls, NEW i \in 1 .. Len(got'[c]), got'[c][i].kind = "left"
        PROVE  at'[got'[c][i].of] \in {"leaving", "done"}
    <3>1. CASE got'[c][i] = e BY <2>2, <3>1
    <3>2. CASE got'[c][i] # e
      <4>1. i \in 1 .. Len(got[c]) /\ got'[c][i] = got[c][i]
        BY <1>1, <1>2, <1>3, <3>2
      <4>2. got[c][i] \in Events BY <1>1, <4>1
      <4>3. got[c][i].of \in Calls BY <4>2, JoinsAreCalls DEF Events
      <4>4. at[got[c][i].of] \in {"leaving", "done"}
        BY <2>2, <4>1 DEF ChatInv, Heard
      <4> QED BY <4>1, <4>3, <4>4
    <3> QED BY <3>1, <3>2
  <2> QED BY <2>1, <2>2 DEF Heard
<1>6. OwnJoinFirst'
  <2> SUFFICES ASSUME NEW c \in Calls, got'[c] # <<>>
               PROVE  got'[c][1] = [kind |-> "joined", of |-> c]
    BY DEF OwnJoinFirst
  <2>1. CASE got[c] = <<>>
    <3>1. c \in S /\ at[c] = "idle" BY <1>3, <2>1 DEF ChatInv, Heard
    <3>2. Len(got[c]) = 0 BY <2>1
    <3> QED BY <1>2, <3>1, <3>2
  <2>2. CASE got[c] # <<>>
    <3>1. 1 \in 1 .. Len(got[c]) BY <1>1, <2>2
    <3>2. got'[c][1] = got[c][1] BY <1>2, <1>3, <3>1
    <3> QED BY <2>2, <3>2 DEF ChatInv, OwnJoinFirst
  <2> QED BY <2>1, <2>2
<1>7. LeavingIsLast'
  <2> SUFFICES ASSUME NEW c \in Calls, NEW i \in DOMAIN got'[c], NEW j \in DOMAIN got'[c],
                      got'[c][i].kind = "left", i < j
               PROVE  got'[c][j].of # got'[c][i].of
    BY DEF LeavingIsLast
  <2>1. i \in 1 .. Len(got[c]) /\ got'[c][i] = got[c][i] /\ i \in DOMAIN got[c]
    BY <1>1, <1>2, <1>3
  <2>2. CASE j \in 1 .. Len(got[c])
    <3>1. got'[c][j] = got[c][j] /\ j \in DOMAIN got[c] BY <1>1, <1>2, <1>3, <2>2
    <3> QED BY <2>1, <3>1 DEF ChatInv, LeavingIsLast
  <2>3. CASE j \notin 1 .. Len(got[c])
    <3>1. got'[c][j] = e BY <1>1, <1>2, <1>3, <2>3
    <3>2. at[got[c][i].of] \in {"leaving", "done"} BY <2>1 DEF ChatInv, Heard
    <3> QED BY <2>1, <3>1, <3>2
  <2> QED BY <2>2, <2>3
<1> QED BY <1>4, <1>5, <1>6, <1>7

\* The users with the token of a call: here it is needed that the tokens differ.
LEMMA HolderOfToken ==
    ASSUME ChatInv, NEW c \in Joins, Present(c) \/ Holders(token[c]) # {}
    PROVE  \E i \in 1 .. Len(users) :
             /\ users[i].call = c
             /\ Holders(token[c]) = {i} /\ First(Holders(token[c])) = i
<1>1. ASSUME NEW i \in 1 .. Len(users)
      PROVE  /\ users[i].call \in Calls /\ token[users[i].call] = users[i].token
             /\ token[users[i].call] # 0
  <2>1. users[i].call \in Calls BY StreamsOfUsers, JoinsAreCalls DEF ChatInv
  <2>2. Present(users[i].call) /\ users[i].token = token[users[i].call]
    BY DEF ChatInv, UserList
  <2> QED BY <2>1, <2>2 DEF ChatInv, Membership, Present
<1>2. c \in Calls BY JoinsAreCalls
<1>3. DOMAIN users = 1 .. Len(users) BY StreamsOfUsers DEF ChatInv
<1>4. ASSUME NEW i \in Holders(token[c])
      PROVE  i \in 1 .. Len(users) /\ users[i].call = c
  <2>1. i \in 1 .. Len(users) /\ users[i].token = token[c] BY <1>3 DEF Holders
  <2> QED BY <1>1, <1>2, <2>1 DEF ChatInv, TokensDiffer
<1>5. PICK i \in 1 .. Len(users) : users[i].call = c
  BY <1>4 DEF ChatInv, UserList
<1>6. i \in Holders(token[c]) BY <1>1, <1>3, <1>5 DEF Holders
<1>7. \A j \in Holders(token[c]) : j = i BY <1>4, <1>5 DEF ChatInv, UserList
<1>8. Holders(token[c]) = {i} BY <1>6, <1>7
<1>9. First({i}) = i
  <2>1. \E k \in {i} : \A j \in {i} : k <= j BY <1>5
  <2> QED BY <2>1 DEF First
<1> QED BY <1>5, <1>8, <1>9

-----------------------------------------------------------------------------
(* Every step keeps the invariant.                                           *)

LEMMA ChatInitInv == ChatInit => ChatInv
<1> SUFFICES ASSUME ChatInit PROVE ChatInv OBVIOUS
<1>1. CompleteInv BY CompleteInvInit DEF ChatInit
<1>2. ChatTypeOK
  <2>1. users \in Seq([token : Nat, call : Joins]) BY DEF ChatInit
  <2>2. got \in [Calls -> Seq(Events)] BY DEF ChatInit
  <2> QED BY <2>1, <2>2 DEF ChatInit, ChatTypeOK, Places
<1>3. Membership /\ TokensDiffer
  BY JoinsAreCalls, ChatAssumption
     DEF ChatInit, ContextInit, Membership, TokensDiffer
<1>4. UserList BY JoinsAreCalls DEF ChatInit, UserList, Present
<1>5. Heard /\ OwnJoinFirst /\ LeavingIsLast
  BY DEF ChatInit, Heard, OwnJoinFirst, LeavingIsLast
<1> QED BY <1>1, <1>2, <1>3, <1>4, <1>5 DEF ChatInv

\* A step of the contexts that removes nobody.
LEMMA ContextStepKeeps ==
    ASSUME ChatInv, CompleteInv', UNCHANGED joinVars,
           \A c \in Joins :
             /\ at[c] = "idle" => ~cancelled'[c]
             /\ cancelled[c] => cancelled'[c]
             /\ member'[c] = member[c] /\ c \notin disturbed'
             /\ fired'[c]["removeUser"] = fired[c]["removeUser"]
    PROVE  ChatInv'
<1>1. ChatTypeOK' BY DEF ChatInv, ChatTypeOK, joinVars
<1>2. Membership' /\ TokensDiffer'
  BY JoinsAreCalls DEF ChatInv, Membership, TokensDiffer, joinVars
<1>3. \A c \in Joins : Present(c)' <=> Present(c) BY DEF Present, joinVars
<1>4. UserList' BY <1>3, StreamsOfUsers DEF ChatInv, UserList, joinVars
<1>5. Heard' /\ OwnJoinFirst' /\ LeavingIsLast'
  BY DEF ChatInv, Heard, OwnJoinFirst, LeavingIsLast, joinVars
<1> QED BY <1>1, <1>2, <1>4, <1>5 DEF ChatInv

LEMMA ContinueNotifyKeeps ==
    ASSUME ChatInv, CompleteInv', ContinueNotify PROVE ChatInv'
<1>1. UNCHANGED joinVars /\ UNCHANGED <<cancelled, fired, member, disturbed>>
  BY DEF ContinueNotify, CallbackReturns, AllNotified
<1> QED BY <1>1, ContextStepKeeps DEF ChatInv, Membership

LEMMA ClientClosesKeeps ==
    ASSUME ChatInv, CompleteInv', NEW c \in Joins, ClientCloses(c) PROVE ChatInv'
<1>1. /\ UNCHANGED joinVars /\ UNCHANGED <<fired, member, disturbed>>
      /\ at[c] # "idle" /\ cancelled' = [cancelled EXCEPT ![c] = TRUE]
  BY DEF ClientCloses, NotifyCancelled
<1>2. ASSUME NEW d \in Joins
      PROVE  (at[d] = "idle" => ~cancelled'[d]) /\ (cancelled[d] => cancelled'[d])
  <2>1. d \in Calls /\ cancelled \in [Calls -> BOOLEAN]
    BY JoinsAreCalls DEF ChatInv, CompleteInv, ContextInv, ContextTypeOK
  <2>2. CASE d = c BY <1>1, <2>1, <2>2
  <2>3. CASE d # c BY <1>1, <2>1, <2>3 DEF ChatInv, Membership
  <2> QED BY <2>2, <2>3
<1> QED BY <1>1, <1>2, ContextStepKeeps DEF ChatInv, Membership

\* The calls of other services leave the contexts of the joins alone.
LEMMA OtherCallKeeps ==
    ASSUME ChatInv, CompleteInv', NEW c \in Others, OtherCall(c) PROVE ChatInv'
<1>1. c \in Calls /\ (\A d \in Joins : d # c /\ d \in Calls) BY ChatAssumption DEF Joins
<1>2. UNCHANGED joinVars BY DEF OtherCall
<1>3. cancelled \in [Calls -> BOOLEAN]
      /\ member \in [Calls -> [Callbacks -> {"new", "on", "late", "removed"}]]
  BY DEF ChatInv, CompleteInv, ContextInv, ContextTypeOK
<1>4. ASSUME NEW d \in Joins
      PROVE  /\ cancelled'[d] = cancelled[d] /\ member'[d] = member[d]
             /\ fired'[d] = fired[d] /\ d \notin disturbed'
  <2>1. d # c /\ d \in Calls /\ d \notin disturbed BY <1>1 DEF ChatInv, Membership
  <2>2. CASE NotifyCancelled(c) BY <1>3, <2>1, <2>2 DEF NotifyCancelled
  <2>3. CASE firing.call = c /\ CallbackThrows BY <2>1, <2>3 DEF CallbackThrows
  <2>4. ASSUME NEW l \in Callbacks, OnCancel(c, l)
        PROVE  /\ cancelled'[d] = cancelled[d] /\ member'[d] = member[d]
               /\ fired'[d] = fired[d] /\ d \notin disturbed'
    BY <1>3, <2>1, <2>4 DEF OnCancel
  <2>5. ASSUME NEW l \in Callbacks, RemoveOnCancel(c, l)
        PROVE  /\ cancelled'[d] = cancelled[d] /\ member'[d] = member[d]
               /\ fired'[d] = fired[d] /\ d \notin disturbed'
    BY <1>3, <2>1, <2>5 DEF RemoveOnCancel
  <2> QED BY <2>2, <2>3, <2>4, <2>5 DEF OtherCall
<1> QED BY <1>2, <1>4, ContextStepKeeps DEF ChatInv, Membership

\* The walk of notifyCancelled calls a callback: it is its first call.
LEMMA CallbackFires ==
    ASSUME ChatInv, CallNextListener
    PROVE  /\ firing.call \in Calls /\ NextListener \in Callbacks
           /\ cancelled[firing.call] /\ fired[firing.call][NextListener] = 0
           /\ fired'[firing.call][NextListener] = 1
           /\ \A c \in Calls, l \in Callbacks :
                c # firing.call \/ l # NextListener => fired'[c][l] = fired[c][l]
           /\ UNCHANGED <<cancelled, listeners, member, disturbed>>
<1> DEFINE c == firing.call
           n == NextListener
<1>1. /\ ~Quiet /\ c \in Calls /\ n \in Callbacks /\ n = listeners[c][firing.pos + 1]
      /\ firing.pos + 1 \in 1 .. Len(listeners[c]) /\ firing.pos \in Nat
  BY NextListenerType, FiringCall
     DEF ChatInv, CompleteInv, ContextInv, CallNextListener, NextListener
<1>2. cancelled[c] BY <1>1 DEF ChatInv, CompleteInv, ContextInv, FiringIsCancelled
<1>3. fired[c][n] = 0
  <2>1. NotCalled(listeners[c], firing.pos, fired[c])
    BY <1>1 DEF ChatInv, CompleteInv, ContextInv, AheadNotCalled
  <2>2. firing.pos + 1 > firing.pos BY <1>1
  <2> QED BY <1>1, <2>1, <2>2 DEF NotCalled
<1>4. /\ fired' = [fired EXCEPT ![c] = [fired[c] EXCEPT ![n] = fired[c][n] + 1]]
      /\ UNCHANGED <<cancelled, listeners, member, disturbed>>
  BY DEF CallNextListener
<1>5. fired \in [Calls -> [Callbacks -> Nat]]
  BY DEF ChatInv, CompleteInv, ContextInv, ContextTypeOK
<1> HIDE DEF n, c
<1>6. fired'[c] = [fired[c] EXCEPT ![n] = fired[c][n] + 1]
      /\ \A d \in Calls : d # c => fired'[d] = fired[d]
  BY <1>1, <1>4, <1>5
<1>7. fired[c] \in [Callbacks -> Nat] BY <1>1, <1>5
<1>8. fired'[c][n] = 1 /\ \A l \in Callbacks : l # n => fired'[c][l] = fired[c][l]
  BY <1>1, <1>3, <1>6, <1>7
<1> QED BY <1>1, <1>2, <1>3, <1>4, <1>6, <1>8 DEF c, n

\* The callback of addUser takes the user of the call off the list, and nobody
\* else.
LEMMA RemoveUserKeeps ==
    ASSUME ChatInv, CompleteInv', CallCallback,
           firing.call \in Joins, NextListener = "removeUser"
    PROVE  ChatInv'
<1> DEFINE c == firing.call
           n == Len(users)
<1>1. /\ c \in Calls /\ cancelled[c] /\ fired[c]["removeUser"] = 0
      /\ fired'[c]["removeUser"] = 1
      /\ \A d \in Calls : d # c => fired'[d]["removeUser"] = fired[d]["removeUser"]
      /\ UNCHANGED <<cancelled, listeners, member, disturbed>>
  BY CallbackFires, JoinsAreCalls DEF CallCallback
<1>2. Present(c) BY <1>1 DEF Present, ChatInv, Membership
<1>3. PICK k \in 1 .. n : users[k].call = c /\ Holders(token[c]) = {k}
                         /\ First(Holders(token[c])) = k
  BY <1>2, HolderOfToken
<1>4. users' = RemoveAt(users, k) /\ UNCHANGED <<now, at, sending, token, posts, got>>
  BY <1>3 DEF CallCallback, WithoutUser
<1>5. /\ users' \in Seq([token : Nat, call : Joins]) /\ Len(users') = n - 1 /\ n \in Nat
      /\ \A j \in 1 .. n - 1 : users'[j] = IF j < k THEN users[j] ELSE users[j + 1]
  <2> DEFINE Users == [token : Nat, call : Joins]
  <2>1. users \in Seq(Users) BY DEF ChatInv, ChatTypeOK
  <2> HIDE DEF Users
  <2>2. Len(users) \in Nat BY <2>1
  <2>3. /\ RemoveAt(users, k) \in Seq(Users) /\ Len(RemoveAt(users, k)) = n - 1
        /\ \A j \in 1 .. n - 1 :
             RemoveAt(users, k)[j] = IF j < k THEN users[j] ELSE users[j + 1]
    BY <2>1, RemoveAtElements
  <2> QED BY <1>4, <2>2, <2>3 DEF Users
<1> DEFINE Old(j) == IF j < k THEN j ELSE j + 1
<1>6. ASSUME NEW j \in 1 .. n - 1
      PROVE  Old(j) \in 1 .. n /\ Old(j) # k /\ users'[j] = users[Old(j)]
  BY <1>5
<1>7. ASSUME NEW i \in 1 .. n - 1, NEW j \in 1 .. n - 1, Old(i) = Old(j) PROVE i = j
  BY <1>5, <1>7
<1>8. ASSUME NEW j \in 1 .. n, j # k PROVE \E i \in 1 .. n - 1 : Old(i) = j
  <2>1. CASE j < k BY <1>5, <2>1
  <2>2. CASE j > k
    <3>1. j - 1 \in 1 .. n - 1 /\ Old(j - 1) = j BY <1>5, <2>2
    <3> QED BY <3>1
  <2> QED BY <1>5, <1>8, <2>1, <2>2
<1> HIDE DEF Old
<1> DEFINE StillPresent(d) == at'[d] # "idle" /\ fired'[d]["removeUser"] = 0
<1>9. \A d \in Joins : StillPresent(d) <=> Present(d) /\ d # c
  BY <1>1, <1>4, JoinsAreCalls DEF Present
<1>10. UserList'
  <2> HIDE DEF StillPresent
  <2>1. ASSUME NEW j \in 1 .. n - 1
        PROVE  StillPresent(users'[j].call) /\ users'[j].token = token[users'[j].call]
    <3>1. /\ users[Old(j)].call \in Joins /\ Present(users[Old(j)].call)
          /\ users[Old(j)].token = token[users[Old(j)].call]
      BY <1>6, StreamsOfUsers DEF ChatInv, UserList
    <3>2. users[Old(j)].call # c BY <1>3, <1>6 DEF ChatInv, UserList
    <3> QED BY <1>6, <1>9, <3>1, <3>2
  <2>2. ASSUME NEW i \in 1 .. n - 1, NEW j \in 1 .. n - 1, users'[i].call = users'[j].call
        PROVE  i = j
    BY <1>6, <1>7, <2>2 DEF ChatInv, UserList
  <2>3. ASSUME NEW d \in Joins, StillPresent(d) PROVE \E i \in 1 .. n - 1 : users'[i].call = d
    <3>1. PICK j \in 1 .. n : users[j].call = d BY <1>9, <2>3 DEF ChatInv, UserList
    <3>2. j # k BY <1>3, <1>9, <2>3, <3>1
    <3>3. PICK i \in 1 .. n - 1 : Old(i) = j BY <1>8, <3>2
    <3> QED BY <1>6, <3>1, <3>3
  <2> QED BY <1>4, <1>5, <2>1, <2>2, <2>3 DEF UserList, Present, StillPresent
<1>11. ChatTypeOK' BY <1>4, <1>5 DEF ChatInv, ChatTypeOK
<1>12. Membership' /\ TokensDiffer'
  BY <1>1, <1>4 DEF ChatInv, Membership, TokensDiffer
<1>13. Heard' /\ OwnJoinFirst' /\ LeavingIsLast'
  BY <1>4 DEF ChatInv, Heard, OwnJoinFirst, LeavingIsLast
<1> QED BY <1>10, <1>11, <1>12, <1>13 DEF ChatInv

LEMMA CallCallbackKeeps ==
    ASSUME ChatInv, CompleteInv', CallCallback PROVE ChatInv'
<1>1. CASE firing.call \in Joins /\ NextListener = "removeUser"
  BY <1>1, RemoveUserKeeps
<1>2. CASE ~(firing.call \in Joins /\ NextListener = "removeUser")
  <2>1. UNCHANGED joinVars BY <1>2 DEF CallCallback, joinVars
  <2>2. UNCHANGED <<cancelled, member, disturbed>>
        /\ \A c \in Joins : fired'[c]["removeUser"] = fired[c]["removeUser"]
    BY <1>2, CallbackFires, JoinsAreCalls DEF CallCallback
  <2> QED BY <2>1, <2>2, ContextStepKeeps DEF ChatInv, Membership
<1> QED BY <1>1, <1>2

\* A step that leaves the users where they are, and has written its events.
LEMMA SameUsersKeep ==
    ASSUME ChatInv, CompleteInv',
           UNCHANGED <<users, token, cancelled, fired, disturbed>>,
           \A c \in Joins : member'[c]["removeUser"] = member[c]["removeUser"],
           at' \in [Calls -> Places],
           \A c \in Calls : at'[c] = "idle" <=> at[c] = "idle",
           \A c \in Joins : at'[c] \in {"leaving", "done"} =>
                              at[c] \in {"leaving", "done"} \/ cancelled[c],
           now' \in Nat, now' >= now, sending' \in [Calls -> SUBSET Joins],
           posts' \in [Calls -> Nat], got' \in [Calls -> Seq(Events)],
           Heard', OwnJoinFirst', LeavingIsLast'
    PROVE  ChatInv'
<1>1. ChatTypeOK' BY DEF ChatInv, ChatTypeOK
<1>2. Membership'
  <2>1. ASSUME NEW c \in Calls
        PROVE  (at'[c] = "idle" <=> token[c] = 0) /\ token[c] <= now'
    <3>1. token[c] \in Nat /\ now \in Nat BY DEF ChatInv, ChatTypeOK
    <3> QED BY <3>1 DEF ChatInv, Membership
  <2>2. \A c \in Others : at'[c] = "idle" BY ChatAssumption DEF ChatInv, Membership
  <2>3. ASSUME NEW c \in Joins
        PROVE  /\ at'[c] = "idle" => ~cancelled[c]
               /\ at'[c] # "idle" => member'[c]["removeUser"] = "on"
               /\ at'[c] \in {"leaving", "done"} => cancelled[c]
               /\ c \notin disturbed
    BY JoinsAreCalls DEF ChatInv, Membership
  <2> QED BY <2>1, <2>2, <2>3 DEF Membership
<1>3. TokensDiffer' BY DEF ChatInv, TokensDiffer
<1>4. \A c \in Joins : Present(c)' <=> Present(c) BY JoinsAreCalls DEF Present
<1>5. UserList' BY <1>4, StreamsOfUsers DEF ChatInv, UserList
<1> QED BY <1>1, <1>2, <1>3, <1>5 DEF ChatInv

\* Nothing is written.
LEMMA SameHeardKeeps ==
    ASSUME ChatInv, UNCHANGED got,
           \A c \in Calls : at'[c] = "idle" <=> at[c] = "idle",
           \A c \in Calls : at[c] \in {"leaving", "done"} => at'[c] \in {"leaving", "done"}
    PROVE  /\ got' \in [Calls -> Seq(Events)]
           /\ Heard' /\ OwnJoinFirst' /\ LeavingIsLast'
<1>1. ASSUME NEW c \in Calls, NEW i \in 1 .. Len(got[c])
      PROVE  got[c][i].of \in Calls
  <2>1. got[c] \in Seq(Events) BY DEF ChatInv, ChatTypeOK
  <2>2. got[c][i] \in Events BY <2>1, ElementOfSeq
  <2> QED BY <2>2, JoinsAreCalls DEF Events
<1>2. Heard' BY <1>1 DEF ChatInv, Heard
<1> QED BY <1>2 DEF ChatInv, ChatTypeOK, OwnJoinFirst, LeavingIsLast

LEMMA TickKeeps == ASSUME ChatInv, CompleteInv', Tick PROVE ChatInv'
<1>1. now \in Nat /\ now' = now + 1 BY DEF ChatInv, ChatTypeOK, Tick
<1>2. UNCHANGED <<users, at, sending, token, posts, got>> /\ UNCHANGED contextVars BY DEF Tick
<1>3. got' \in [Calls -> Seq(Events)] /\ Heard' /\ OwnJoinFirst' /\ LeavingIsLast'
  BY <1>2, SameHeardKeeps
<1>4. now' \in Nat /\ now' >= now BY <1>1
<1> QED BY <1>2, <1>3, <1>4, SameUsersKeep DEF ChatInv, ChatTypeOK, contextVars

LEMMA SendDoneKeeps ==
    ASSUME ChatInv, CompleteInv', NEW c \in Joins, NEW d \in Joins, SendDone(c, d)
    PROVE  ChatInv'
<1>1. UNCHANGED <<now, users, at, token, posts, got>> /\ UNCHANGED contextVars
      /\ sending' = [sending EXCEPT ![c] = @ \ {d}]
  BY DEF SendDone
<1>2. got' \in [Calls -> Seq(Events)] /\ Heard' /\ OwnJoinFirst' /\ LeavingIsLast'
  BY <1>1, SameHeardKeeps
<1>3. sending' \in [Calls -> SUBSET Joins]
  <2>1. sending \in [Calls -> SUBSET Joins] /\ c \in Calls
    BY JoinsAreCalls DEF ChatInv, ChatTypeOK
  <2>2. sending[c] \ {d} \in SUBSET Joins BY <2>1
  <2> QED BY <1>1, <2>1, <2>2
<1>4. now' \in Nat /\ now' >= now BY <1>1 DEF ChatInv, ChatTypeOK
<1> QED BY <1>1, <1>2, <1>3, <1>4, SameUsersKeep DEF ChatInv, ChatTypeOK, contextVars

\* Where a call is after a step of join().
LEMMA JoinGoesOn ==
    ASSUME ChatInv, NEW c \in Joins, NEW p \in Places, p # "idle", at[c] # "idle",
           at[c] \in {"leaving", "done"} => p \in {"leaving", "done"},
           at' = [at EXCEPT ![c] = p]
    PROVE  /\ at' \in [Calls -> Places] /\ at'[c] = p
           /\ \A d \in Calls : at'[d] = "idle" <=> at[d] = "idle"
           /\ \A d \in Calls : at[d] \in {"leaving", "done"} => at'[d] \in {"leaving", "done"}
           /\ \A d \in Joins : d # c => at'[d] = at[d]
<1>1. at \in [Calls -> Places] /\ c \in Calls BY JoinsAreCalls DEF ChatInv, ChatTypeOK
<1>2. at' \in [Calls -> Places] /\ at'[c] = p BY <1>1
<1>3. \A d \in Calls : d # c => at'[d] = at[d] BY <1>1
<1> QED BY <1>2, <1>3, JoinsAreCalls

LEMMA AwaitCloseKeeps ==
    ASSUME ChatInv, CompleteInv', NEW c \in Joins, AwaitClose(c) PROVE ChatInv'
<1>1. /\ at[c] = "joining" /\ at' = [at EXCEPT ![c] = "open"]
      /\ UNCHANGED <<now, users, sending, token, posts, got>>
      /\ OnCancel(c, "resolve")
  BY DEF AwaitClose
<1>2. UNCHANGED <<cancelled, fired, disturbed>>
      /\ \A d \in Joins : member'[d]["removeUser"] = member[d]["removeUser"]
  <2>1. member \in [Calls -> [Callbacks -> {"new", "on", "late", "removed"}]] /\ c \in Calls
    BY JoinsAreCalls DEF ChatInv, CompleteInv, ContextInv, ContextTypeOK
  <2>2. PICK st : member' = [member EXCEPT ![c] = [member[c] EXCEPT !["resolve"] = st]]
    BY <1>1 DEF OnCancel
  <2>3. \A d \in Calls : d # c => member'[d] = member[d] BY <2>1, <2>2
  <2>4. member'[c] = [member[c] EXCEPT !["resolve"] = st] BY <2>1, <2>2
  <2>5. member'[c]["removeUser"] = member[c]["removeUser"] BY <2>1, <2>4, JoinsAreCalls
  <2> QED BY <1>1, <2>3, <2>5, JoinsAreCalls DEF OnCancel
<1>3. "open" \in Places BY DEF Places
<1>4. /\ at' \in [Calls -> Places] /\ at'[c] = "open"
      /\ \A d \in Calls : at'[d] = "idle" <=> at[d] = "idle"
      /\ \A d \in Calls : at[d] \in {"leaving", "done"} => at'[d] \in {"leaving", "done"}
      /\ \A d \in Joins : d # c => at'[d] = at[d]
  BY <1>1, <1>3, JoinGoesOn
<1>5. got' \in [Calls -> Seq(Events)] /\ Heard' /\ OwnJoinFirst' /\ LeavingIsLast'
  BY <1>1, <1>4, SameHeardKeeps
<1>6. now' \in Nat /\ now' >= now BY <1>1 DEF ChatInv, ChatTypeOK
<1>7. \A d \in Joins : at'[d] \in {"leaving", "done"} =>
                         at[d] \in {"leaving", "done"} \/ cancelled[d]
  BY <1>4
<1> QED BY <1>1, <1>2, <1>4, <1>5, <1>6, <1>7, SameUsersKeep DEF ChatInv, ChatTypeOK

LEMMA JoinEndsKeeps ==
    ASSUME ChatInv, CompleteInv', NEW c \in Joins, JoinEnds(c) PROVE ChatInv'
<1>1. /\ at[c] = "leaving" /\ at' = [at EXCEPT ![c] = "done"]
      /\ UNCHANGED <<now, users, sending, token, posts, got>> /\ UNCHANGED contextVars
  BY DEF JoinEnds
<1>2. "done" \in Places BY DEF Places
<1>3. /\ at' \in [Calls -> Places]
      /\ \A d \in Calls : at'[d] = "idle" <=> at[d] = "idle"
      /\ \A d \in Calls : at[d] \in {"leaving", "done"} => at'[d] \in {"leaving", "done"}
      /\ \A d \in Joins : d # c => at'[d] = at[d]
  BY <1>1, <1>2, JoinGoesOn
<1>4. got' \in [Calls -> Seq(Events)] /\ Heard' /\ OwnJoinFirst' /\ LeavingIsLast'
  BY <1>1, <1>3, SameHeardKeeps
<1>5. now' \in Nat /\ now' >= now BY <1>1 DEF ChatInv, ChatTypeOK
<1>6. \A d \in Joins : at'[d] \in {"leaving", "done"} =>
                         at[d] \in {"leaving", "done"} \/ cancelled[d]
  BY <1>1, <1>3
<1> QED
  BY <1>1, <1>3, <1>4, <1>5, <1>6, SameUsersKeep DEF ChatInv, ChatTypeOK, contextVars

\* "left" is written by a call that the client has closed.
LEMMA LeaveKeeps ==
    ASSUME ChatInv, CompleteInv', NEW c \in Joins, Leave(c) PROVE ChatInv'
<1> DEFINE e == [kind |-> "left", of |-> c]
<1>1. /\ Quiet /\ at[c] = "open" /\ fired[c]["resolve"] > 0
      /\ at' = [at EXCEPT ![c] = "leaving"]
      /\ UNCHANGED <<now, users, token, posts>> /\ UNCHANGED contextVars
      /\ sending' = [sending EXCEPT ![c] = Streams(users)]
      /\ got' = [d \in Calls |-> IF d \in Streams(users) THEN Append(got[d], e) ELSE got[d]]
  BY DEF Leave, Broadcast
<1>2. cancelled[c]
  BY <1>1, JoinsAreCalls DEF ChatInv, CompleteInv, ContextInv, QuietBefore
<1>3. "leaving" \in Places BY DEF Places
<1>4. /\ at' \in [Calls -> Places] /\ at'[c] = "leaving"
      /\ \A d \in Calls : at'[d] = "idle" <=> at[d] = "idle"
      /\ \A d \in Calls : at[d] \in {"leaving", "done"} => at'[d] \in {"leaving", "done"}
      /\ \A d \in Joins : d # c => at'[d] = at[d]
  BY <1>1, <1>3, JoinGoesOn
<1>5. \A d \in Streams(users) : d \in Joins /\ at[d] # "idle"
  BY <1>1, StreamsAreOpen
<1>6. e \in Events /\ e.of = c BY DEF Events
<1>7. got' \in [Calls -> Seq(Events)] /\ Heard' /\ OwnJoinFirst' /\ LeavingIsLast'
  <2>1. \A d \in Calls : at'[d] = "idle" <=> at[d] = "idle" /\ d \notin Streams(users)
    BY <1>4, <1>5
  <2>2. \A d \in Calls \cap Streams(users) : at[d] = "idle" => e = [kind |-> "joined", of |-> d]
    BY <1>5
  <2>3. at[e.of] \notin {"leaving", "done"} /\ at'[e.of] \in {"leaving", "done"}
    BY <1>1, <1>4, <1>6
  <2> HIDE DEF e
  <2> QED BY <1>1, <1>4, <1>6, <2>1, <2>2, <2>3, EventHeard, ZenonT(30)
<1>8. sending' \in [Calls -> SUBSET Joins]
  <2>1. Streams(users) \in SUBSET Joins BY <1>5
  <2> QED BY <1>1, <2>1 DEF ChatInv, ChatTypeOK
<1>9. now' \in Nat /\ now' >= now BY <1>1 DEF ChatInv, ChatTypeOK
<1>10. \A d \in Joins : at'[d] \in {"leaving", "done"} =>
                          at[d] \in {"leaving", "done"} \/ cancelled[d]
  BY <1>2, <1>4
<1> QED
  BY <1>1, <1>4, <1>7, <1>8, <1>9, <1>10, SameUsersKeep DEF ChatInv, ChatTypeOK, contextVars

\* A message is sent in the name of a user whose call is open.
LEMMA PostKeeps ==
    ASSUME ChatInv, CompleteInv', NEW c \in Joins, Post(c) PROVE ChatInv'
<1> DEFINE e == [kind |-> "message", of |-> c]
<1>1. /\ Quiet /\ at[c] # "idle" /\ Holders(token[c]) # {}
      /\ UNCHANGED <<now, users, at, sending, token>> /\ UNCHANGED contextVars
      /\ posts' = [posts EXCEPT ![c] = @ + 1]
  BY DEF Post
<1>2. users[First(Holders(token[c]))].call = c BY <1>1, HolderOfToken
<1>3. got' = [d \in Calls |-> IF d \in Streams(users) THEN Append(got[d], e) ELSE got[d]]
  BY <1>2 DEF Post
<1>4. at[c] \notin {"leaving", "done"}
  <2>1. PICK i \in 1 .. Len(users) : users[i].call = c BY <1>1, HolderOfToken
  <2>2. Present(c) BY <2>1 DEF ChatInv, UserList
  <2>3. ~cancelled[c] BY <1>1, <2>2, PresentIsOpen DEF ChatInv
  <2> QED BY <2>3 DEF ChatInv, Membership
<1>5. \A d \in Streams(users) : d \in Joins /\ at[d] # "idle"
  BY <1>1, StreamsAreOpen
<1>6. e \in Events /\ e.of = c /\ e.kind # "left" BY DEF Events
<1>7. got' \in [Calls -> Seq(Events)] /\ Heard' /\ OwnJoinFirst' /\ LeavingIsLast'
  <2>1. \A d \in Calls : at'[d] = "idle" <=> at[d] = "idle" /\ d \notin Streams(users)
    BY <1>1, <1>5
  <2>2. \A d \in Calls \cap Streams(users) : at[d] = "idle" => e = [kind |-> "joined", of |-> d]
    BY <1>5
  <2> HIDE DEF e
  <2> QED BY <1>1, <1>3, <1>4, <1>6, <2>1, <2>2, EventHeard
<1>8. posts' \in [Calls -> Nat]
  <2>1. posts \in [Calls -> Nat] /\ c \in Calls BY JoinsAreCalls DEF ChatInv, ChatTypeOK
  <2>2. posts[c] + 1 \in Nat BY <2>1
  <2> QED BY <1>1, <2>1, <2>2
<1>9. now' \in Nat /\ now' >= now BY <1>1 DEF ChatInv, ChatTypeOK
<1> QED BY <1>1, <1>7, <1>8, <1>9, SameUsersKeep DEF ChatInv, ChatTypeOK, contextVars

\* The streams of the list when a user has been added.
LEMMA JoinedStreams ==
    ASSUME ChatInv, NEW c \in Joins, users' = Append(users, [token |-> now, call |-> c])
    PROVE  /\ users' \in Seq([token : Nat, call : Joins]) /\ Len(users') = Len(users) + 1
           /\ users'[Len(users) + 1] = [token |-> now, call |-> c]
           /\ \A i \in 1 .. Len(users) : users'[i] = users[i]
           /\ Streams(users') = Streams(users) \cup {c}
<1> DEFINE Users == [token : Nat, call : Joins]
           u == [token |-> now, call |-> c]
           n == Len(users)
<1>1. users \in Seq(Users) /\ u \in Users /\ u.call = c BY DEF ChatInv, ChatTypeOK
<1>2. users' = Append(users, u) OBVIOUS
<1> HIDE DEF Users, u
<1>3. n \in Nat BY <1>1
<1>4. /\ Append(users, u) \in Seq(Users) /\ Len(Append(users, u)) = n + 1
      /\ Append(users, u)[n + 1] = u
      /\ \A i \in 1 .. n : Append(users, u)[i] = users[i]
  BY <1>1, AppendProperties
<1>5. DOMAIN Append(users, u) = 1 .. n + 1 BY <1>3, <1>4
<1>6. Streams(users') = Streams(users) \cup {c}
  <2>1. Streams(users') = {users'[i].call : i \in 1 .. n + 1} BY <1>2, <1>5 DEF Streams
  <2>2. Streams(users) = {users[i].call : i \in 1 .. n} BY StreamsOfUsers DEF ChatInv, Streams
  <2>3. n + 1 \in 1 .. n + 1 /\ (\A i \in 1 .. n + 1 : i = n + 1 \/ i \in 1 .. n)
        /\ (\A i \in 1 .. n : i \in 1 .. n + 1)
    BY <1>3
  <2> QED BY <1>1, <1>2, <1>4, <2>1, <2>2, <2>3
<1> QED BY <1>2, <1>4, <1>6 DEF Users, u

\* A user joins with a token that no other call has.
LEMMA JoinKeeps ==
    ASSUME ~SameTime, ChatInv, CompleteInv', NEW c \in Joins, Join(c) PROVE ChatInv'
<1> DEFINE e == [kind |-> "joined", of |-> c]
           u == [token |-> now, call |-> c]
           n == Len(users)
           StillPresent(d) == at'[d] # "idle" /\ fired'[d]["removeUser"] = 0
<1>1. /\ Quiet /\ at[c] = "idle" /\ OnCancel(c, "removeUser")
      /\ \A d \in Calls : token[d] # now
      /\ token' = [token EXCEPT ![c] = now] /\ users' = Append(users, u)
      /\ at' = [at EXCEPT ![c] = "joining"] /\ UNCHANGED <<now, posts>>
      /\ sending' = [sending EXCEPT ![c] = Streams(users')]
      /\ got' = [d \in Calls |-> IF d \in Streams(users') THEN Append(got[d], e) ELSE got[d]]
  BY DEF Join, Broadcast
<1>2. /\ c \in Calls /\ at \in [Calls -> Places] /\ token \in [Calls -> Nat]
      /\ now \in Nat \ {0} /\ n \in Nat /\ sending \in [Calls -> SUBSET Joins]
  BY JoinsAreCalls, StreamsOfUsers DEF ChatInv, ChatTypeOK
<1>3. /\ UNCHANGED <<cancelled, fired, disturbed>> /\ ~cancelled[c]
      /\ fired[c]["removeUser"] = 0
      /\ member'[c]["removeUser"] = "on" /\ \A d \in Calls : d # c => member'[d] = member[d]
  <2>1. ~cancelled[c] BY <1>1 DEF ChatInv, Membership
  <2>2. member \in [Calls -> [Callbacks -> {"new", "on", "late", "removed"}]]
    BY DEF ChatInv, CompleteInv, ContextInv, ContextTypeOK
  <2>3. member' = [member EXCEPT ![c] = [member[c] EXCEPT !["removeUser"] = "on"]]
    BY <1>1, <2>1 DEF OnCancel
  <2>4. member'[c] = [member[c] EXCEPT !["removeUser"] = "on"] BY <1>2, <2>2, <2>3
  <2>5. member'[c]["removeUser"] = "on" BY <1>2, <2>2, <2>4, JoinsAreCalls
  <2>6. \A d \in Calls : d # c => member'[d] = member[d] BY <2>2, <2>3
  <2>7. fired[c]["removeUser"] = 0
    BY <1>1, <1>2, JoinsAreCalls DEF OnCancel, ChatInv, CompleteInv, ContextInv, NewNotCalled
  <2> QED BY <1>1, <2>1, <2>5, <2>6, <2>7 DEF OnCancel
<1>4. /\ at' \in [Calls -> Places] /\ at'[c] = "joining"
      /\ \A d \in Calls : d # c => at'[d] = at[d]
  BY <1>1, <1>2 DEF Places
<1>5. /\ token' \in [Calls -> Nat] /\ token'[c] = now
      /\ \A d \in Calls : d # c => token'[d] = token[d]
  BY <1>1, <1>2
<1>6. /\ users' \in Seq([token : Nat, call : Joins]) /\ Len(users') = n + 1
      /\ users'[n + 1] = u /\ \A i \in 1 .. n : users'[i] = users[i]
      /\ Streams(users') = Streams(users) \cup {c}
  BY <1>1, JoinedStreams
<1>7. u.call = c /\ u.token = now /\ e \in Events /\ e.of = c /\ e.kind # "left"
  BY DEF Events
<1> HIDE DEF u
<1>8. ASSUME NEW i \in 1 .. n
      PROVE  /\ users[i].call \in Joins /\ Present(users[i].call) /\ users[i].call # c
             /\ users[i].token = token[users[i].call]
  BY <1>1, StreamsOfUsers DEF ChatInv, UserList, Present
<1>10. \A d \in Streams(users) : d \in Joins /\ at[d] # "idle" BY <1>1, StreamsAreOpen
<1>11. got' \in [Calls -> Seq(Events)] /\ Heard' /\ OwnJoinFirst' /\ LeavingIsLast'
  <2>1. \A d \in Calls : at'[d] = "idle" <=> at[d] = "idle" /\ d \notin Streams(users')
    BY <1>4, <1>6, <1>10
  <2>2. \A d \in Calls \cap Streams(users') :
          at[d] = "idle" => e = [kind |-> "joined", of |-> d]
    BY <1>6, <1>10
  <2>3. at[e.of] \notin {"leaving", "done"} BY <1>1, <1>7
  <2>4. \A d \in Calls : at[d] \in {"leaving", "done"} => at'[d] \in {"leaving", "done"}
    BY <1>1, <1>4
  <2> DEFINE S == Streams(users')
  <2>5. got' = [d \in Calls |-> IF d \in S THEN Append(got[d], e) ELSE got[d]]
    BY <1>1
  <2> HIDE DEF e, S
  <2> QED BY <1>7, <2>1, <2>2, <2>3, <2>4, <2>5, EventHeard DEF S
<1>12. ChatTypeOK'
  <2>1. Streams(users') \in SUBSET Joins BY <1>6, <1>10
  <2>2. sending' \in [Calls -> SUBSET Joins] BY <1>1, <1>2, <2>1
  <2> QED BY <1>1, <1>2, <1>4, <1>5, <1>6, <1>11, <2>2 DEF ChatInv, ChatTypeOK
<1>13. Membership'
  <2>1. ASSUME NEW d \in Calls
        PROVE  (at'[d] = "idle" <=> token'[d] = 0) /\ token'[d] <= now'
    BY <1>1, <1>2, <1>4, <1>5 DEF ChatInv, Membership
  <2>2. \A d \in Others : at'[d] = "idle"
    BY <1>4, ChatAssumption DEF Joins, ChatInv, Membership
  <2>3. ASSUME NEW d \in Joins
        PROVE  /\ at'[d] = "idle" => ~cancelled[d]
               /\ at'[d] # "idle" => member'[d]["removeUser"] = "on"
               /\ at'[d] \in {"leaving", "done"} => cancelled[d]
               /\ d \notin disturbed
    BY <1>3, <1>4, JoinsAreCalls DEF ChatInv, Membership
  <2> QED BY <1>3, <2>1, <2>2, <2>3 DEF Membership
<1>14. TokensDiffer' BY <1>1, <1>2, <1>5 DEF ChatInv, TokensDiffer
<1>15. \A d \in Joins : StillPresent(d) <=> Present(d) \/ d = c
  BY <1>3, <1>4, JoinsAreCalls DEF Present
<1>16. UserList'
  <2> HIDE DEF StillPresent
  <2>1. ASSUME NEW i \in 1 .. n + 1
        PROVE  StillPresent(users'[i].call) /\ users'[i].token = token'[users'[i].call]
    <3>1. CASE i = n + 1 BY <1>5, <1>6, <1>7, <1>15, <3>1
    <3>2. CASE i # n + 1
      <4>1. i \in 1 .. n /\ users'[i] = users[i] BY <1>2, <1>6, <3>2
      <4> QED BY <1>5, <1>8, <1>15, <4>1, JoinsAreCalls
    <3> QED BY <3>1, <3>2
  <2>2. ASSUME NEW i \in 1 .. n + 1, NEW j \in 1 .. n + 1, users'[i].call = users'[j].call
        PROVE  i = j
    <3>1. \A k \in 1 .. n + 1 : k = n + 1 \/ (k \in 1 .. n /\ users'[k] = users[k])
      BY <1>2, <1>6
    <3>2. CASE i = n + 1 BY <1>6, <1>7, <1>8, <2>2, <3>1, <3>2
    <3>3. CASE j = n + 1 BY <1>6, <1>7, <1>8, <2>2, <3>1, <3>3
    <3>4. CASE i # n + 1 /\ j # n + 1
      BY <2>2, <3>1, <3>4 DEF ChatInv, UserList
    <3> QED BY <3>2, <3>3, <3>4
  <2>3. ASSUME NEW d \in Joins, StillPresent(d) PROVE \E i \in 1 .. n + 1 : users'[i].call = d
    <3>1. CASE d = c
      <4>1. n + 1 \in 1 .. n + 1 BY <1>2
      <4> QED BY <1>6, <1>7, <3>1, <4>1
    <3>2. CASE d # c
      <4>1. PICK i \in 1 .. n : users[i].call = d BY <1>15, <2>3, <3>2 DEF ChatInv, UserList
      <4>2. i \in 1 .. n + 1 /\ users'[i].call = d BY <1>2, <1>6, <4>1
      <4> QED BY <4>2
    <3> QED BY <3>1, <3>2
  <2> QED BY <1>6, <2>1, <2>2, <2>3 DEF UserList, Present, StillPresent
<1> QED BY <1>11, <1>12, <1>13, <1>14, <1>16 DEF ChatInv

LEMMA ChatNextKeeps ==
    ASSUME ~SameTime, ChatInv, [ChatNext]_chatVars PROVE ChatInv'
<1>1. CompleteInv' BY ChatStepsContexts, ContextNextComplete DEF ChatInv
<1>2. CASE UNCHANGED chatVars
  <2>1. UNCHANGED joinVars /\ UNCHANGED <<cancelled, fired, member, disturbed>>
    BY <1>2 DEF chatVars, contextVars
  <2> QED BY <1>1, <2>1, ContextStepKeeps DEF ChatInv, Membership
<1>3. CASE CallCallback BY <1>1, <1>3, CallCallbackKeeps
<1>4. CASE ContinueNotify BY <1>1, <1>4, ContinueNotifyKeeps
<1>5. CASE Tick BY <1>1, <1>5, TickKeeps
<1>6. ASSUME NEW c \in Others, OtherCall(c) PROVE ChatInv' BY <1>1, <1>6, OtherCallKeeps
<1>7. ASSUME NEW c \in Joins, Join(c) PROVE ChatInv' BY <1>1, <1>7, JoinKeeps
<1>8. ASSUME NEW c \in Joins, AwaitClose(c) PROVE ChatInv' BY <1>1, <1>8, AwaitCloseKeeps
<1>9. ASSUME NEW c \in Joins, Leave(c) PROVE ChatInv' BY <1>1, <1>9, LeaveKeeps
<1>10. ASSUME NEW c \in Joins, JoinEnds(c) PROVE ChatInv' BY <1>1, <1>10, JoinEndsKeeps
<1>11. ASSUME NEW c \in Joins, Post(c) PROVE ChatInv' BY <1>1, <1>11, PostKeeps
<1>12. ASSUME NEW c \in Joins, ClientCloses(c) PROVE ChatInv'
  BY <1>1, <1>12, ClientClosesKeeps
<1>13. ASSUME NEW c \in Joins, NEW d \in Joins, SendDone(c, d) PROVE ChatInv'
  BY <1>1, <1>13, SendDoneKeeps
<1> QED
  BY <1>2, <1>3, <1>4, <1>5, <1>6, <1>7, <1>8, <1>9, <1>10, <1>11, <1>12, <1>13 DEF ChatNext

-----------------------------------------------------------------------------
(* The theorems, for users who join in different milliseconds.               *)

LEMMA ChatInvariant == ASSUME ~SameTime PROVE ChatSpec => []ChatInv
<1>1. ChatInv /\ [ChatNext]_chatVars => ChatInv' BY ChatNextKeeps
<1> QED BY <1>1, ChatInitInv, PTL DEF ChatSpec

\* Every user is on the list once, so that it is as long as they are many.
LEMMA UsersOnce ==
    ASSUME ChatInv PROVE Len(users) = Cardinality(Streams(users))
<1> DEFINE n == Len(users)
           f == [i \in 1 .. n |-> users[i].call]
<1>1. n \in Nat /\ DOMAIN users = 1 .. n BY StreamsOfUsers DEF ChatInv
<1>2. \A i, j \in 1 .. n : users[i].call = users[j].call => i = j BY DEF ChatInv, UserList
<1>3. f \in Bijection(1 .. n, Streams(users))
  <2>1. f \in [1 .. n -> Streams(users)] BY <1>1 DEF Streams
  <2>2. \A i, j \in 1 .. n : f[i] = f[j] => i = j BY <1>2
  <2>3. \A d \in Streams(users) : \E i \in 1 .. n : f[i] = d BY <1>1 DEF Streams
  <2>4. DOMAIN f = 1 .. n OBVIOUS
  <2> HIDE DEF f, n
  <2>5. IsInjective(f) BY <2>2, <2>4 DEF IsInjective
  <2> QED BY <2>1, <2>3, <2>5 DEF Bijection, Injection, Surjection
<1>4. ExistsBijection(1 .. n, Streams(users)) BY <1>3 DEF ExistsBijection
<1> QED BY <1>1, <1>4, FS_CountingElements

(* "as soon as the user closes the call, we remove him from the chat": for   *)
(* any number of users, the list holds those whose call is open, each once,  *)
(* whenever no notifyCancelled is under way.                                 *)
THEOREM UsersAreThoseOfOpenCalls == ASSUME ~SameTime PROVE ChatSpec => []UsersAreOpen
<1>1. ChatInv => UsersAreOpen BY StreamsAreOpen, UsersOnce DEF UsersAreOpen
<1> QED BY <1>1, ChatInvariant, PTL

(* A user hears of his own joining first, and of nobody who has left before, *)
(* although the broadcasts of any number of calls are under way at a time.   *)
THEOREM EventsAreInOrder == ASSUME ~SameTime PROVE ChatSpec => []EventsInOrder
<1>1. ChatInv => EventsInOrder BY DEF ChatInv, EventsInOrder
<1> QED BY <1>1, ChatInvariant, PTL

(* Nothing is written to the stream of a call that its client has closed.    *)
THEOREM NothingIsWrittenAfterClose ==
    ASSUME ~SameTime PROVE ChatSpec => NothingAfterClose
<1>1. ASSUME ChatInv, [ChatNext]_chatVars
      PROVE  [\A c \in Joins : got'[c] # got[c] => ~cancelled[c]]_chatVars
  <2> SUFFICES ASSUME ChatNext, NEW c \in Joins, got'[c] # got[c] PROVE ~cancelled[c]
    BY <1>1
  <2>1. c \in Calls BY JoinsAreCalls
  <2>2. ASSUME NEW d \in Joins, Join(d) PROVE ~cancelled[c]
    <3>1. Quiet /\ at[d] = "idle" /\ c \in Streams(users')
          /\ users' = Append(users, [token |-> now, call |-> d])
      BY <2>1, <2>2 DEF Join, Broadcast
    <3>2. CASE c = d BY <1>1, <3>1, <3>2 DEF ChatInv, Membership
    <3>3. CASE c # d
      <4>1. c \in Streams(users) BY <1>1, <3>1, <3>3, JoinedStreams
      <4> QED BY <1>1, <3>1, <4>1, StreamsAreOpen
    <3> QED BY <3>2, <3>3
  <2>3. ASSUME NEW d \in Joins, Leave(d) \/ Post(d) PROVE ~cancelled[c]
    <3>1. Quiet /\ c \in Streams(users) BY <2>1, <2>3 DEF Leave, Broadcast, Post
    <3> QED BY <1>1, <3>1, StreamsAreOpen
  <2>4. \E d \in Joins : Join(d) \/ Leave(d) \/ Post(d)
    BY DEF ChatNext, CallCallback, ContinueNotify, Tick, OtherCall, AwaitClose, JoinEnds,
           ClientCloses, SendDone, joinVars
  <2> QED BY <2>2, <2>3, <2>4
<1>2. ChatInv /\ [ChatNext]_chatVars
      => [\A c \in Joins : got'[c] # got[c] => ~cancelled[c]]_chatVars
  BY <1>1
<1> QED BY <1>2, ChatInvariant, PTL DEF ChatSpec, NothingAfterClose
=============================================================================
