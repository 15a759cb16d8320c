----------------------- MODULE RpcOutputStreamProofs -----------------------
EXTENDS RpcOutputStream, TLAPS, SequenceTheorems, FiniteSetTheorems

LEMMA InitType == Init => TypeOK
<1> SUFFICES ASSUME Init PROVE TypeOK OBVIOUS
<1>1. lis \in [Kinds -> Seq(Listeners)] /\ heard \in [Listeners -> Seq(Positions)]
  BY DEF Init
<1>2. stack \in Seq(Frame) /\ q \in Seq(Positions) /\ log \in Seq(Emissions)
      /\ taken \in Seq([by : Loops, n : Positions])
  BY DEF Init
<1>3. member \in [Listeners -> {"new", "on", "removed"}] /\ since \in [Listeners -> Nat]
  BY DEF Init
<1>4. acquired \in 0 .. Len(log) /\ late \subseteq Loops
  BY DEF Init
<1>5. closed \in {"open", "done", "error"} /\ cut \in BOOLEAN /\ disturbed \in BOOLEAN /\ itOn \in BOOLEAN /\ p \in Loops \cup {None}
      /\ loop \in [Loops -> {"idle", "body", "await", "ended", "broke", "failed"}]
  BY DEF Init
<1> QED BY <1>1, <1>2, <1>3, <1>4, <1>5 DEF TypeOK

\* What a step leaves alone keeps its type as long as the log is the same.
LEMMA FramePositions == ASSUME log' = log PROVE Positions' = Positions /\ Frame' = Frame
  BY DEF Positions, Frame

LEMMA AddLisType == ASSUME TypeOK, NEW l \in Listeners, AddLis(l) PROVE TypeOK'
<1> USE StreamAssumption
<1>1. KindOf[l] \in Kinds /\ lis[KindOf[l]] \in Seq(Listeners)
  BY DEF TypeOK
<1>2. lis' \in [Kinds -> Seq(Listeners)]
  BY <1>1 DEF TypeOK, AddLis
<1>3. member' \in [Listeners -> {"new", "on", "removed"}] /\ since' \in [Listeners -> Nat]
  BY DEF TypeOK, AddLis
<1>4. Positions' = Positions /\ Frame' = Frame BY FramePositions DEF AddLis
<1> QED BY <1>2, <1>3, <1>4 DEF TypeOK, AddLis, itVars

LEMMA RemoveAtType == ASSUME NEW S, NEW s \in Seq(S), NEW i \in 1 .. Len(s)
                      PROVE  RemoveAt(s, i) \in Seq(S)
<1>1. SubSeq(s, 1, i - 1) \in Seq(S) /\ SubSeq(s, i + 1, Len(s)) \in Seq(S)
  OBVIOUS
<1> QED BY <1>1 DEF RemoveAt

LEMMA RemoveLisType == ASSUME TypeOK, NEW l \in Listeners, RemoveLis(l) PROVE TypeOK'
<1> USE StreamAssumption
<1>1. KindOf[l] \in Kinds /\ lis[KindOf[l]] \in Seq(Listeners)
  BY DEF TypeOK
<1>2. lis' \in [Kinds -> Seq(Listeners)]
  <2>1. ASSUME NEW i \in DOMAIN lis[KindOf[l]],
               lis' = [lis EXCEPT ![KindOf[l]] = RemoveAt(lis[KindOf[l]], i)]
        PROVE  lis' \in [Kinds -> Seq(Listeners)]
    <3>1. RemoveAt(lis[KindOf[l]], i) \in Seq(Listeners)
      BY <1>1, <2>1, RemoveAtType
    <3> QED BY <1>1, <2>1, <3>1 DEF TypeOK
  <2> QED BY <2>1 DEF TypeOK, RemoveLis
<1>3. member' \in [Listeners -> {"new", "on", "removed"}]
  BY DEF TypeOK, RemoveLis
<1>4. Positions' = Positions /\ Frame' = Frame BY FramePositions DEF RemoveLis
<1>5. disturbed' \in BOOLEAN BY DEF TypeOK, RemoveLis
<1> QED BY <1>2, <1>3, <1>4, <1>5 DEF TypeOK, RemoveLis, itVars

LEMMA TopType == ASSUME TypeOK, stack # <<>> PROVE Top \in Frame
<1>1. stack \in Seq(Frame) BY DEF TypeOK
<1>2. Len(stack) \in 1 .. Len(stack) BY <1>1
<1> QED BY <1>1, <1>2, ElementOfSeq DEF Top, Last

LEMMA FrontType == ASSUME TypeOK, stack # <<>> PROVE Front(stack) \in Seq(Frame)
<1>1. stack \in Seq(Frame) BY DEF TypeOK
<1> QED BY <1>1 DEF Front

LEMMA FrameUpdate == ASSUME TypeOK, stack # <<>>, NEW f \in Frame, SetTop(f)
                     PROVE  stack' \in Seq(Frame)
<1>1. stack \in Seq(Frame) BY DEF TypeOK
<1>2. Len(stack) \in 1 .. Len(stack) BY <1>1
<1> QED BY <1>1, <1>2, ExceptSeq DEF SetTop

LEMMA CallListenerType == ASSUME TypeOK, CallListener PROVE TypeOK'
<1>1. stack # <<>> /\ Top \in Frame
  BY TopType DEF CallListener
<1> DEFINE l == lis[Top.list][Top.pos + 1]
<1>2. l \in Listeners
  <2>1. lis[Top.list] \in Seq(Listeners) /\ Top.pos \in Nat
    BY <1>1 DEF TypeOK, Frame
  <2>2. Top.pos + 1 \in 1 .. Len(lis[Top.list])
    BY <2>1 DEF CallListener, MoreToCall
  <2> QED BY <2>1, <2>2, ElementOfSeq
<1>3. SetTop([Top EXCEPT !.pos = @ + 1, !.run = l])
      /\ heard' = [heard EXCEPT ![l] = Append(@, Top.n)]
  BY DEF CallListener
<1> HIDE DEF l
<1>4. stack' \in Seq(Frame)
  <2>1. [Top EXCEPT !.pos = @ + 1, !.run = l] \in Frame
    <3>1. Top.pos + 1 \in Nat /\ l \in Listeners \cup {None}
      BY <1>1, <1>2 DEF Frame
    <3>2. \A f \in Frame : \A x \in Nat, y \in Listeners \cup {None} :
            [f EXCEPT !.pos = x, !.run = y] \in Frame
      BY DEF Frame
    <3> QED BY <1>1, <3>1, <3>2
  <2> QED BY <1>1, <1>3, <2>1, FrameUpdate
<1>5. heard' \in [Listeners -> Seq(Positions)]
  <2>1. Top.n \in Positions BY <1>1 DEF Frame
  <2>2. heard \in [Listeners -> Seq(Positions)] BY DEF TypeOK
  <2>3. Append(heard[l], Top.n) \in Seq(Positions)
    BY <1>2, <2>1, <2>2, AppendProperties
  <2> QED BY <1>2, <1>3, <2>2, <2>3
<1>6. Positions' = Positions /\ Frame' = Frame BY FramePositions DEF CallListener
<1>7. UNCHANGED <<closed, log, lis, cut, disturbed, member, since, itOn, p, q, loop, taken, acquired, late>>
  BY DEF CallListener, itVars, lisVars
<1> QED BY <1>4, <1>5, <1>6, <1>7 DEF TypeOK

LEMMA StackOnlyType ==
    ASSUME TypeOK, stack' \in Seq(Frame),
           UNCHANGED <<closed, log, heard>>, UNCHANGED lisVars, UNCHANGED itVars
    PROVE  TypeOK'
<1>1. Positions' = Positions /\ Frame' = Frame BY FramePositions
<1> QED BY <1>1 DEF TypeOK, lisVars, itVars

LEMMA ForEachType ==
    ASSUME TypeOK, NEW n \in Positions, NEW list \in Kinds
    PROVE  ForEach(n, list) \in Frame
  BY DEF TypeOK, ForEach, Frame

LEMMA ListenerReturnsType == ASSUME TypeOK, ListenerReturns PROVE TypeOK'
<1>1. stack # <<>> /\ Top \in Frame
  BY TopType DEF ListenerReturns, InCallback
<1>2. [Top EXCEPT !.run = None] \in Frame
  BY <1>1 DEF Frame
<1>3. stack' \in Seq(Frame)
  BY <1>1, <1>2, FrameUpdate DEF ListenerReturns
<1> QED BY <1>3, StackOnlyType DEF ListenerReturns

LEMMA ThenNextListenersType == ASSUME TypeOK, ThenNextListeners PROVE TypeOK'
<1>1. stack # <<>> /\ Top \in Frame
  BY TopType DEF ThenNextListeners
<1>2. ForEach(Top.n, "nxt") \in Frame
  BY <1>1, ForEachType DEF Frame, Kinds
<1>3. stack' \in Seq(Frame)
  BY <1>1, <1>2, FrameUpdate DEF ThenNextListeners
<1> QED BY <1>3, StackOnlyType DEF ThenNextListeners

LEMMA ListenerThrowsType == ASSUME TypeOK, ListenerThrows PROVE TypeOK'
<1>1. stack' \in Seq(Frame)
  BY FrontType DEF ListenerThrows, InCallback
<1>2. cut' \in BOOLEAN /\ disturbed' \in BOOLEAN BY DEF ListenerThrows
<1>3. Positions' = Positions /\ Frame' = Frame BY FramePositions DEF ListenerThrows
<1>4. UNCHANGED <<closed, log, heard, lis, member, since, itOn, p, q, loop, taken, acquired, late>>
  BY DEF ListenerThrows, itVars
<1> QED BY <1>1, <1>2, <1>3, <1>4 DEF TypeOK

LEMMA NotifyReturnsType == ASSUME TypeOK, NotifyReturns PROVE TypeOK'
<1>1. stack' \in Seq(Frame)
  BY FrontType DEF NotifyReturns
<1>2. lis' \in [Kinds -> Seq(Listeners)]
  BY DEF TypeOK, NotifyReturns, ClearLis
<1>3. Positions' = Positions /\ Frame' = Frame BY FramePositions DEF NotifyReturns
<1>4. UNCHANGED <<closed, log, heard, cut, disturbed, member, since, itOn, p, q, loop, taken, acquired, late>>
  BY DEF NotifyReturns, itVars
<1> QED BY <1>1, <1>2, <1>3, <1>4 DEF TypeOK

\* pushIt takes a typed iterator state to a typed one.
LEMMA PushItType ==
    ASSUME TypeOK, NEW S, Positions \subseteq S, NEW n \in S, NEW kind,
           NEW loops \in [Loops -> {"idle", "body", "await", "ended", "broke", "failed"}],
           PushIt(n, kind, loops)
    PROVE  /\ p' \in Loops \cup {None} /\ q' \in Seq(S)
           /\ taken' \in Seq([by : Loops, n : S])
           /\ loop' \in [Loops -> {"idle", "body", "await", "ended", "broke", "failed"}]
<1>1. q \in Seq(S) /\ taken \in Seq([by : Loops, n : S])
  <2>1. q \in Seq(Positions) /\ taken \in Seq([by : Loops, n : Positions]) BY DEF TypeOK
  <2>2. [by : Loops, n : Positions] \subseteq [by : Loops, n : S] OBVIOUS
  <2> QED BY <2>1, <2>2, SeqMonotonic
<1>2. p \in Loops \cup {None} BY DEF TypeOK
<1>3. CASE p # None
  <2>1. [by |-> p, n |-> n] \in [by : Loops, n : S] BY <1>2, <1>3
  <2>2. taken' = Append(taken, [by |-> p, n |-> n]) /\ p' = None /\ q' = q
        /\ loop' = [loops EXCEPT ![p] = WithResult(kind)]
    BY <1>3 DEF PushIt
  <2>3. taken' \in Seq([by : Loops, n : S]) BY <1>1, <2>1, <2>2, AppendProperties
  <2> QED BY <1>1, <2>2, <2>3 DEF WithResult
<1>4. CASE p = None
  <2>1. q' = Append(q, n) /\ loop' = loops /\ UNCHANGED <<p, taken>>
    BY <1>4 DEF PushIt
  <2>2. q' \in Seq(S) BY <1>1, <2>1, AppendProperties
  <2> QED BY <1>1, <1>2, <2>1, <2>2
<1> QED BY <1>3, <1>4

LoopStates == {"idle", "body", "await", "ended", "broke", "failed"}

LEMMA EmitType ==
    ASSUME TypeOK, NEW kind \in Emissions, NEW c \in {"open", "done", "error"},
           Emit(kind, c)
    PROVE  TypeOK'
<1>1. log \in Seq(Emissions) /\ log' = Append(log, kind) /\ Len(log) \in Nat
  BY DEF TypeOK, Emit, Send
<1>2. log' \in Seq(Emissions) /\ Len(log') = Len(log) + 1
  BY <1>1, AppendProperties
<1>3. Positions \subseteq Positions' /\ Len(log) + 1 \in Positions'
  BY <1>1, <1>2 DEF Positions
<1>4. Frame \subseteq Frame'
  BY <1>3 DEF Frame
<1>5. /\ p' \in Loops \cup {None} /\ q' \in Seq(Positions')
      /\ taken' \in Seq([by : Loops, n : Positions'])
      /\ loop' \in [Loops -> LoopStates]
  <2> USE DEF LoopStates
  <2>1. CASE itOn
    <3>1. PushIt(Len(log) + 1, kind, loop) BY <2>1 DEF Emit, Send
    <3>2. loop \in [Loops -> LoopStates] BY DEF TypeOK
    <3> QED BY <1>3, <3>1, <3>2, PushItType
  <2>2. CASE ~itOn
    <3>1. UNCHANGED <<p, q, taken, loop>> BY <2>2 DEF Emit, Send
    <3>2. [by : Loops, n : Positions] \subseteq [by : Loops, n : Positions'] BY <1>3
    <3>3. q \in Seq(Positions') /\ taken \in Seq([by : Loops, n : Positions'])
      BY <1>3, <3>2, SeqMonotonic DEF TypeOK
    <3> QED BY <3>1, <3>3 DEF TypeOK
  <2> QED BY <2>1, <2>2
<1>6. stack' \in Seq(Frame')
  <2>1. stack \in Seq(Frame') BY <1>4, SeqMonotonic DEF TypeOK
  <2>2. ForEach(Len(log) + 1, kind) \in Frame'
    BY <1>3 DEF TypeOK, ForEach, Frame, Emissions
  <2>3. stack' = Append(stack, ForEach(Len(log) + 1, kind)) BY DEF Emit, Send
  <2> QED BY <2>1, <2>2, <2>3, AppendProperties
<1>7. heard' \in [Listeners -> Seq(Positions')]
  <2>1. heard \in [Listeners -> Seq(Positions)] /\ heard' = heard BY DEF TypeOK, Emit, Send
  <2>2. Seq(Positions) \subseteq Seq(Positions') BY <1>3, SeqMonotonic
  <2> QED BY <2>1, <2>2
<1>8. acquired' \in 0 .. Len(log')
  BY <1>1, <1>2 DEF TypeOK, Emit, Send
<1>9. closed' = c /\ UNCHANGED <<lis, cut, member, since, itOn, late>>
  BY DEF Emit, Send
<1>10. disturbed' \in BOOLEAN BY DEF TypeOK, Emit, Send
<1> QED BY <1>2, <1>5, <1>6, <1>7, <1>8, <1>9, <1>10 DEF TypeOK, LoopStates

LEMMA NotifyNextType == ASSUME TypeOK, NotifyNext PROVE TypeOK'
<1>1. \A k \in Kinds \ {"nxt"} : k \in Emissions BY DEF Emissions
<1>2. CASE NotifyMessage BY <1>1, <1>2, EmitType DEF NotifyMessage, Kinds
<1>3. CASE NotifyError BY <1>1, <1>3, EmitType DEF NotifyError, Kinds
<1>4. CASE NotifyComplete BY <1>1, <1>4, EmitType DEF NotifyComplete, Kinds
<1> QED BY <1>2, <1>3, <1>4 DEF NotifyNext

\* A closed stream has a last emission, its end.
ClosedHasEnd == closed # "open" => log # <<>>

LEMMA AsyncIteratorType ==
    ASSUME TypeOK, ClosedHasEnd, NEW c \in Loops, AsyncIterator(c) PROVE TypeOK'
<1>1. Positions' = Positions /\ Frame' = Frame
  BY FramePositions DEF AsyncIterator, RepeatEnd
<1>2. /\ p' \in Loops \cup {None} /\ q' \in Seq(Positions)
      /\ taken' \in Seq([by : Loops, n : Positions])
      /\ loop' \in [Loops -> LoopStates] /\ late' \subseteq Loops
  <2> DEFINE loops == [loop EXCEPT ![c] = "body"]
  <2>1. loops \in [Loops -> LoopStates] BY DEF TypeOK, LoopStates
  <2>2. CASE closed = "open"
    BY <2>1, <2>2 DEF TypeOK, AsyncIterator, RepeatEnd
  <2>3. CASE closed # "open"
    <3>1. PushIt(Len(log), log[Len(log)], loops) /\ late' = late \cup {c}
      BY <2>3 DEF AsyncIterator, RepeatEnd
    <3>2. Len(log) \in Positions
      BY <2>3, EmptySeq DEF ClosedHasEnd, TypeOK, Positions
    <3> HIDE DEF loops
    <3> QED BY <2>1, <3>1, <3>2, PushItType DEF LoopStates, TypeOK
  <2> QED BY <2>2, <2>3
<1>3. acquired' \in 0 .. Len(log') /\ itOn' = TRUE
  BY DEF TypeOK, AsyncIterator, RepeatEnd
<1>4. UNCHANGED <<closed, stack, log, heard, cut, disturbed, lis, member, since>>
  BY DEF AsyncIterator, lisVars
<1> QED BY <1>1, <1>2, <1>3, <1>4 DEF TypeOK, LoopStates

LEMMA IteratorNextType ==
    ASSUME TypeOK, NEW c \in Loops, IteratorNext(c) PROVE TypeOK'
<1>1. Positions' = Positions /\ Frame' = Frame
  BY FramePositions DEF IteratorNext, TakeResult
<1>2. p' \in Loops \cup {None} /\ loop' \in [Loops -> LoopStates]
  BY DEF TypeOK, IteratorNext, TakeResult, WithResult, LoopStates
<1>3. q' \in Seq(Positions) /\ taken' \in Seq([by : Loops, n : Positions])
  <2>1. q \in Seq(Positions) /\ taken \in Seq([by : Loops, n : Positions])
    BY DEF TypeOK
  <2>2. CASE q # <<>> /\ q' = Tail(q) /\ taken' = Append(taken, [by |-> c, n |-> Head(q)])
    <3>1. Head(q) \in Positions /\ Tail(q) \in Seq(Positions)
      BY <2>1, <2>2, HeadTailProperties
    <3>2. [by |-> c, n |-> Head(q)] \in [by : Loops, n : Positions] BY <3>1
    <3> QED BY <2>1, <2>2, <3>1, <3>2, AppendProperties
  <2>3. CASE UNCHANGED <<q, taken>> BY <2>1, <2>3
  <2> QED BY <2>2, <2>3 DEF IteratorNext, TakeResult
<1>4. UNCHANGED <<closed, stack, log, heard, cut, disturbed, lis, member, since, itOn, acquired, late>>
  BY DEF IteratorNext, lisVars
<1> QED BY <1>1, <1>2, <1>3, <1>4 DEF TypeOK, LoopStates

LEMMA LoopBreaksType ==
    ASSUME TypeOK, NEW c \in Loops, LoopBreaks(c) PROVE TypeOK'
<1>1. Positions' = Positions /\ Frame' = Frame
  BY FramePositions DEF LoopBreaks
<1>2. loop' \in [Loops -> LoopStates]
  BY DEF TypeOK, LoopBreaks, LoopStates
<1>3. UNCHANGED <<closed, stack, log, heard, cut, disturbed, lis, member, since, itOn, p, q,
                    taken, acquired, late>>
  BY DEF LoopBreaks, lisVars
<1> QED BY <1>1, <1>2, <1>3 DEF TypeOK, LoopStates

-----------------------------------------------------------------------------
(* The iterators. What PushedInOrder needs to be kept by every step.          *)

IteratorInv ==
    /\ TypeOK
    /\ ClosedHasEnd
    /\ closed = "open" => late = {}
    /\ ~itOn => taken = <<>> /\ q = <<>> /\ p = None /\ late = {}
                /\ \A c \in Loops : loop[c] = "idle"
    /\ \A c \in late : loop[c] # "idle"
    /\ PendingMeansDrained
    /\ PushedInOrder

\* The typed facts about the iterator state, for the arithmetic below.
LEMMA IteratorFacts ==
    ASSUME TypeOK
    PROVE  /\ Len(log) \in Nat /\ Len(q) \in Nat /\ Len(taken) \in Nat
           /\ acquired \in 0 .. Len(log)
           /\ Cardinality(late) \in Nat /\ IsFiniteSet(late)
           /\ PushCount \in Nat
<1>1. Len(log) \in Nat /\ Len(q) \in Nat /\ Len(taken) \in Nat /\ acquired \in 0 .. Len(log)
  BY DEF TypeOK
<1>2. IsFiniteSet(late) /\ Cardinality(late) \in Nat
  BY StreamAssumption, FS_Subset, FS_CardinalityType DEF TypeOK
<1> QED BY <1>1, <1>2 DEF PushCount

\* One push keeps queue and promise in step with what was pushed.
LEMMA PushItFifo ==
    ASSUME TypeOK, PushedInOrder, PendingMeansDrained, NEW n, NEW kind, NEW loops,
           PushIt(n, kind, loops),
           PushCount' = PushCount + 1,
           NEW CONSTANT k \in Nat, k = PushCount,
           \A i \in 1 .. k : Pushed(i)' = Pushed(i),
           Pushed(k + 1)' = n
    PROVE  PendingMeansDrained' /\ PushedInOrder'
<1>1. Len(q) \in Nat /\ Len(taken) \in Nat /\ k = Len(taken) + Len(q)
  BY IteratorFacts DEF PushedInOrder
<1>2. DOMAIN q = 1 .. Len(q) /\ DOMAIN taken = 1 .. Len(taken)
  BY DEF TypeOK
<1>3. CASE p # None
  <2>1. q = <<>> /\ Len(q) = 0 /\ q' = q /\ p' = None
    BY <1>3 DEF PushIt, PendingMeansDrained
  <2>2. taken' = Append(taken, [by |-> p, n |-> n])
    BY <1>3 DEF PushIt
  <2>3. /\ Len(taken') = Len(taken) + 1 /\ DOMAIN taken' = 1 .. Len(taken) + 1
        /\ \A i \in 1 .. Len(taken) : taken'[i] = taken[i]
        /\ taken'[Len(taken) + 1].n = n
    BY <1>1, <2>2 DEF TypeOK
  <2>4. \A i \in DOMAIN taken' : taken'[i].n = Pushed(i)'
    <3> TAKE i \in DOMAIN taken'
    <3>1. CASE i \in 1 .. Len(taken)
      BY <1>1, <1>2, <2>1, <2>3, <3>1 DEF PushedInOrder
    <3>2. CASE i = Len(taken) + 1
      <4>1. i = k + 1 BY <1>1, <2>1, <3>2
      <4> QED BY <1>1, <2>3, <3>2, <4>1
    <3> QED BY <1>1, <2>3, <3>1, <3>2
  <2>5. DOMAIN q' = {} BY <2>1
  <2> QED BY <1>1, <2>1, <2>3, <2>4, <2>5 DEF PushedInOrder, PendingMeansDrained
<1>4. CASE p = None
  <2>1. q' = Append(q, n) /\ p' = None /\ taken' = taken
    BY <1>4 DEF PushIt
  <2>2. /\ Len(q') = Len(q) + 1 /\ DOMAIN q' = 1 .. Len(q) + 1
        /\ \A i \in 1 .. Len(q) : q'[i] = q[i]
        /\ q'[Len(q) + 1] = n
    BY <1>1, <2>1 DEF TypeOK
  <2>3. \A i \in DOMAIN q' : q'[i] = Pushed(Len(taken) + i)'
    <3> TAKE i \in DOMAIN q'
    <3> SUFFICES ASSUME NEW CONSTANT j \in Nat, j = Len(taken) + i
                 PROVE  q'[i] = Pushed(j)'
      BY <1>1, <2>1, <2>2
    <3>1. CASE i \in 1 .. Len(q)
      <4>1. j \in 1 .. k /\ q'[i] = q[i] BY <1>1, <2>2, <3>1
      <4>2. q[i] = Pushed(j) BY <1>2, <3>1 DEF PushedInOrder
      <4> QED BY <4>1, <4>2
    <3>2. CASE i = Len(q) + 1
      <4>1. j = k + 1 BY <1>1, <3>2
      <4> QED BY <2>2, <3>2, <4>1
    <3> QED BY <1>1, <2>2, <3>1, <3>2
  <2>4. \A i \in DOMAIN taken' : taken'[i].n = Pushed(i)'
    <3> TAKE i \in DOMAIN taken'
    <3>1. i \in 1 .. k BY <1>1, <1>2, <2>1
    <3> QED BY <1>1, <2>1, <3>1 DEF PushedInOrder
  <2>5. Len(taken') + Len(q') = PushCount' BY <1>1, <2>1, <2>2
  <2> QED BY <2>1, <2>3, <2>4, <2>5 DEF PushedInOrder, PendingMeansDrained
<1> QED BY <1>3, <1>4

\* A step that touches neither the log nor the iterator keeps the invariant.
LEMMA IteratorUntouched ==
    ASSUME IteratorInv, TypeOK', UNCHANGED <<closed, log>>, UNCHANGED itVars
    PROVE  IteratorInv'
  BY DEF IteratorInv, ClosedHasEnd, PendingMeansDrained, PushedInOrder, PushCount,
         Pushed, itVars

LEMMA EmitKeeps ==
    ASSUME IteratorInv, NEW kind \in Emissions, NEW c \in {"open", "done", "error"},
           kind # "msg" => c # "open", Emit(kind, c)
    PROVE  IteratorInv'
<1>1. TypeOK /\ TypeOK'
  BY EmitType DEF IteratorInv
<1>2. /\ closed = "open" /\ late = {} /\ late' = {} /\ closed' = c
      /\ log' = Append(log, kind) /\ itOn' = itOn /\ acquired' = acquired
  BY DEF IteratorInv, Emit, Send
<1>3. Len(log') = Len(log) + 1 /\ Len(log) \in Nat /\ log' # <<>>
  <2>1. log \in Seq(Emissions) BY <1>1 DEF TypeOK
  <2> QED BY <1>2, <2>1, AppendProperties
<1>4. Cardinality(late) = 0 /\ Cardinality(late') = 0
  BY <1>2, FS_EmptySet
<1>5. CASE itOn
  <2>1. PushIt(Len(log) + 1, kind, loop)
    BY <1>5 DEF Emit, Send
  <2>2. PushCount' = PushCount + 1 /\ PushCount = Len(log) - acquired
    BY <1>1, <1>2, <1>3, <1>4, <1>5, IteratorFacts DEF PushCount
  <2> DEFINE k == Len(log) - acquired
  <2>3. k \in Nat /\ acquired \in Nat BY <1>1, IteratorFacts
  <2>4. /\ \A i \in 1 .. k : Pushed(i)' = Pushed(i)
        /\ \A i \in Nat : i = k + 1 => Pushed(i)' = Len(log) + 1
    BY <1>2, <1>3, <2>3 DEF Pushed
  <2>5. PendingMeansDrained' /\ PushedInOrder'
    <3> SUFFICES ASSUME NEW CONSTANT j \in Nat, j = k
                 PROVE  PendingMeansDrained' /\ PushedInOrder'
      BY <2>3
    <3>1. \A i \in 1 .. j : Pushed(i)' = Pushed(i) BY <2>4
    <3>2. Pushed(j + 1)' = Len(log) + 1 BY <2>4
    <3> HIDE DEF k
    <3> QED BY <1>1, <2>1, <2>2, <3>1, <3>2, PushItFifo DEF IteratorInv, k
  <2> QED BY <1>1, <1>2, <1>3, <1>5, <2>5 DEF IteratorInv, ClosedHasEnd
<1>6. CASE ~itOn
  <2>1. UNCHANGED <<p, q, taken, loop>> BY <1>6 DEF Emit, Send
  <2>2. taken = <<>> /\ q = <<>> /\ p = None BY <1>6 DEF IteratorInv
  <2>3. PushCount' = 0 /\ Len(taken') = 0 /\ Len(q') = 0 /\ DOMAIN taken' = {} /\ DOMAIN q' = {}
    BY <1>2, <1>6, <2>1, <2>2 DEF PushCount
  <2>4. PushedInOrder' /\ PendingMeansDrained'
    BY <2>1, <2>2, <2>3 DEF PushedInOrder, PendingMeansDrained
  <2> QED BY <1>1, <1>2, <1>3, <1>6, <2>1, <2>2, <2>4 DEF IteratorInv, ClosedHasEnd
<1> QED BY <1>5, <1>6

LEMMA AsyncIteratorKeeps ==
    ASSUME IteratorInv, NEW c \in Loops, AsyncIterator(c) PROVE IteratorInv'
<1>1. TypeOK /\ TypeOK'
  BY AsyncIteratorType DEF IteratorInv
<1>2. /\ loop[c] = "idle" /\ c \notin late /\ itOn' = TRUE
      /\ log' = log /\ closed' = closed
      /\ acquired' = IF itOn THEN acquired ELSE Len(log)
  BY DEF IteratorInv, AsyncIterator
<1>3. ~itOn => PushCount = 0 /\ late = {} /\ Cardinality(late) = 0
  BY FS_EmptySet DEF IteratorInv, PushCount
<1>4. CASE closed = "open"
  <2>1. loop' = [loop EXCEPT ![c] = "body"] /\ UNCHANGED <<p, q, taken, late>>
    BY <1>4 DEF AsyncIterator, RepeatEnd
  <2>2. PushCount' = PushCount
    BY <1>1, <1>2, <1>3, <2>1, IteratorFacts DEF PushCount
  <2>3. PushedInOrder'
    <3>1. CASE itOn
      BY <1>2, <2>1, <2>2, <3>1 DEF IteratorInv, PushedInOrder, Pushed
    <3>2. CASE ~itOn
      <4>1. taken' = <<>> /\ q' = <<>> BY <2>1, <3>2 DEF IteratorInv
      <4>2. Len(taken') = 0 /\ Len(q') = 0 /\ DOMAIN taken' = {} /\ DOMAIN q' = {}
        BY <4>1
      <4> QED BY <1>3, <2>2, <3>2, <4>2 DEF PushedInOrder
    <3> QED BY <3>1, <3>2
  <2>4. PendingMeansDrained'
    BY <1>1, <1>2, <2>1 DEF IteratorInv, PendingMeansDrained, TypeOK
  <2> QED BY <1>1, <1>2, <1>4, <2>1, <2>3, <2>4 DEF IteratorInv, ClosedHasEnd, TypeOK
<1>5. CASE closed # "open"
  <2> DEFINE loops == [loop EXCEPT ![c] = "body"]
  <2>1. PushIt(Len(log), log[Len(log)], loops) /\ late' = late \cup {c}
    BY <1>5 DEF AsyncIterator, RepeatEnd
  <2>2. Cardinality(late') = Cardinality(late) + 1
    BY <1>1, <1>2, <2>1, IteratorFacts, FS_AddElement
  <2>3. PushCount' = PushCount + 1
    BY <1>1, <1>2, <1>3, <2>1, <2>2, IteratorFacts DEF PushCount
  <2>4. PendingMeansDrained' /\ PushedInOrder'
    <3> SUFFICES ASSUME NEW CONSTANT k \in Nat, k = PushCount
                 PROVE  PendingMeansDrained' /\ PushedInOrder'
      BY <1>1, IteratorFacts
    <3>1. \A i \in 1 .. k : Pushed(i)' = Pushed(i)
      BY <1>1, <1>2, <1>3, IteratorFacts DEF Pushed
    <3>2. Pushed(k + 1)' = Len(log)
      <4>1. acquired' + (k + 1) > Len(log)
        BY <1>1, <1>2, <1>3, IteratorFacts DEF PushCount
      <4> QED BY <1>1, <1>2, <4>1, IteratorFacts DEF Pushed
    <3> HIDE DEF loops
    <3> QED BY <1>1, <2>1, <2>3, <3>1, <3>2, PushItFifo DEF IteratorInv
  <2>5. \A d \in late' : loop'[d] # "idle"
    <3>1. \A d \in late' : loops[d] # "idle"
      BY <1>1, <2>1 DEF IteratorInv, TypeOK
    <3>2. \/ loop' = loops
          \/ loop' = [loops EXCEPT ![p] = WithResult(log[Len(log)])]
      BY <2>1 DEF PushIt
    <3>3. DOMAIN loops = Loops /\ late' \subseteq Loops
      BY <1>1, <2>1 DEF TypeOK
    <3> HIDE DEF loops
    <3> QED BY <3>1, <3>2, <3>3 DEF WithResult
  <2> QED BY <1>1, <1>2, <1>5, <2>4, <2>5 DEF IteratorInv, ClosedHasEnd
<1> QED BY <1>4, <1>5

LEMMA IteratorNextKeeps ==
    ASSUME IteratorInv, NEW c \in Loops, IteratorNext(c) PROVE IteratorInv'
<1>1. TypeOK /\ TypeOK'
  BY IteratorNextType DEF IteratorInv
<1>2. UNCHANGED <<closed, log, itOn, acquired, late>> /\ loop[c] = "body"
  BY DEF IteratorNext, TakeResult
<1>3. PushCount' = PushCount /\ \A i : Pushed(i)' = Pushed(i)
  BY <1>2 DEF PushCount, Pushed
<1>4. itOn
  BY <1>2 DEF IteratorInv
<1>5. \A d \in late : loop'[d] # "idle"
  BY <1>1 DEF IteratorInv, IteratorNext, TakeResult, WithResult, TypeOK
<1>6. Len(q) \in Nat /\ Len(taken) \in Nat /\ PushCount = Len(taken) + Len(q)
  BY <1>1, IteratorFacts DEF IteratorInv, PushedInOrder
<1> SUFFICES PendingMeansDrained' /\ PushedInOrder'
  BY <1>1, <1>2, <1>4, <1>5 DEF IteratorInv, ClosedHasEnd
<1>7. CASE p = None /\ q # <<>>
  <2>1. /\ q' = Tail(q) /\ taken' = Append(taken, [by |-> c, n |-> Head(q)])
        /\ p' = None
    BY <1>7 DEF IteratorNext, TakeResult
  <2>2. /\ Len(q) >= 1 /\ Len(q') = Len(q) - 1 /\ DOMAIN q' = 1 .. Len(q) - 1
        /\ \A i \in 1 .. Len(q) - 1 : q'[i] = q[i + 1]
        /\ Head(q) = q[1]
    BY <1>1, <1>6, <1>7, <2>1 DEF TypeOK
  <2>3. /\ Len(taken') = Len(taken) + 1 /\ DOMAIN taken' = 1 .. Len(taken) + 1
        /\ \A i \in 1 .. Len(taken) : taken'[i] = taken[i]
        /\ taken'[Len(taken) + 1].n = q[1]
    BY <1>1, <1>6, <2>1, <2>2 DEF TypeOK
  <2>4. DOMAIN q = 1 .. Len(q) /\ DOMAIN taken = 1 .. Len(taken)
    BY <1>1 DEF TypeOK
  <2>5. \A i \in DOMAIN taken' : taken'[i].n = Pushed(i)'
    <3> TAKE i \in DOMAIN taken'
    <3>1. CASE i \in 1 .. Len(taken)
      BY <1>3, <2>3, <2>4, <3>1 DEF IteratorInv, PushedInOrder
    <3>2. CASE i = Len(taken) + 1
      <4>1. q[1] = Pushed(Len(taken) + 1)
        BY <1>6, <2>2, <2>4 DEF IteratorInv, PushedInOrder
      <4> QED BY <1>3, <2>3, <3>2, <4>1
    <3> QED BY <1>6, <2>3, <3>1, <3>2
  <2>6. \A i \in DOMAIN q' : q'[i] = Pushed(Len(taken) + i)'
    <3> TAKE i \in DOMAIN q'
    <3>0. i \in 1 .. Len(q) - 1 BY <2>2
    <3>1. i + 1 \in DOMAIN q /\ Len(taken') + i = Len(taken) + (i + 1)
      BY <1>6, <2>3, <2>4, <3>0
    <3> SUFFICES ASSUME NEW CONSTANT j, j = Len(taken') + i
                 PROVE  q'[i] = Pushed(j)'
      OBVIOUS
    <3>2. q'[i] = q[i + 1] BY <2>2
    <3>3. q[i + 1] = Pushed(j) BY <3>1 DEF IteratorInv, PushedInOrder
    <3> QED BY <1>3, <3>2, <3>3
  <2>7. Len(taken') + Len(q') = PushCount' BY <1>3, <1>6, <2>2, <2>3
  <2>8. PushedInOrder' BY <2>5, <2>6, <2>7 DEF PushedInOrder
  <2> QED BY <2>1, <2>8 DEF PendingMeansDrained
<1>8. CASE p = None /\ q = <<>>
  <2>1. p' = c /\ loop' = [loop EXCEPT ![c] = "await"] /\ UNCHANGED <<q, taken>>
    BY <1>8 DEF IteratorNext, TakeResult
  <2>2. PushedInOrder' BY <1>3, <2>1 DEF IteratorInv, PushedInOrder
  <2>3. q' = <<>> /\ loop'[p'] = "await" BY <1>1, <1>8, <2>1 DEF TypeOK
  <2> QED BY <2>2, <2>3 DEF PendingMeansDrained
<1>9. CASE p # None
  <2>1. loop' = [loop EXCEPT ![c] = "failed"] /\ UNCHANGED <<p, q, taken>>
    BY <1>9 DEF IteratorNext, TakeResult
  <2>2. PushedInOrder' BY <1>3, <2>1 DEF IteratorInv, PushedInOrder
  <2>3. p # c /\ q = <<>> /\ loop[p] = "await"
    BY <1>2, <1>9 DEF IteratorInv, PendingMeansDrained
  <2>4. loop'[p'] = "await" /\ q' = <<>> BY <1>1, <2>1, <2>3 DEF TypeOK
  <2> QED BY <2>2, <2>4 DEF PendingMeansDrained
<1> QED BY <1>7, <1>8, <1>9

LEMMA LoopBreaksKeeps ==
    ASSUME IteratorInv, NEW c \in Loops, LoopBreaks(c) PROVE IteratorInv'
<1>1. TypeOK /\ TypeOK'
  BY LoopBreaksType DEF IteratorInv
<1>2. /\ UNCHANGED <<closed, log, itOn, acquired, late, p, q, taken>>
      /\ loop[c] = "body" /\ loop' = [loop EXCEPT ![c] = "broke"]
  BY DEF LoopBreaks
<1>3. itOn
  BY <1>2 DEF IteratorInv
<1>4. PushedInOrder'
  BY <1>2 DEF IteratorInv, PushedInOrder, PushCount, Pushed
<1>5. PendingMeansDrained' /\ \A d \in late : loop'[d] # "idle"
  BY <1>1, <1>2 DEF IteratorInv, PendingMeansDrained, TypeOK
<1> QED BY <1>1, <1>2, <1>3, <1>4, <1>5 DEF IteratorInv, ClosedHasEnd

LEMMA InitIterator == Init => IteratorInv
<1> SUFFICES ASSUME Init PROVE IteratorInv OBVIOUS
<1>1. TypeOK BY InitType
<1>2. PushedInOrder
  <2>1. Len(taken) = 0 /\ Len(q) = 0 /\ DOMAIN taken = {} /\ DOMAIN q = {} /\ PushCount = 0
    BY DEF Init, PushCount
  <2> QED BY <2>1 DEF PushedInOrder
<1> QED BY <1>1, <1>2 DEF Init, IteratorInv, ClosedHasEnd, PendingMeansDrained

LEMMA IteratorStep == IteratorInv /\ [Next]_vars => IteratorInv'
<1> SUFFICES ASSUME IteratorInv, [Next]_vars PROVE IteratorInv' OBVIOUS
<1>0. TypeOK BY DEF IteratorInv
<1>1. CASE NotifyNext
  <2>1. "msg" \in Emissions /\ "err" \in Emissions /\ "cmp" \in Emissions
    BY DEF Emissions, Kinds
  <2>2. CASE NotifyMessage BY <2>1, <2>2, EmitKeeps DEF NotifyMessage
  <2>3. CASE NotifyError BY <2>1, <2>3, EmitKeeps DEF NotifyError
  <2>4. CASE NotifyComplete BY <2>1, <2>4, EmitKeeps DEF NotifyComplete
  <2> QED BY <1>1, <2>2, <2>3, <2>4 DEF NotifyNext
<1>2. CASE CallListener
  BY <1>0, <1>2, CallListenerType, IteratorUntouched DEF CallListener
<1>3. CASE ListenerReturns
  BY <1>0, <1>3, ListenerReturnsType, IteratorUntouched DEF ListenerReturns
<1>4. CASE ThenNextListeners
  BY <1>0, <1>4, ThenNextListenersType, IteratorUntouched DEF ThenNextListeners
<1>5. CASE NotifyReturns
  BY <1>0, <1>5, NotifyReturnsType, IteratorUntouched DEF NotifyReturns
<1>6. CASE ListenerThrows
  BY <1>0, <1>6, ListenerThrowsType, IteratorUntouched DEF ListenerThrows
<1>7. ASSUME NEW l \in Listeners, AddLis(l) PROVE IteratorInv'
  BY <1>0, <1>7, AddLisType, IteratorUntouched DEF AddLis
<1>8. ASSUME NEW l \in Listeners, RemoveLis(l) PROVE IteratorInv'
  BY <1>0, <1>8, RemoveLisType, IteratorUntouched DEF RemoveLis
<1>9. ASSUME NEW c \in Loops, AsyncIterator(c) \/ IteratorNext(c) \/ LoopBreaks(c)
      PROVE  IteratorInv'
  BY <1>9, AsyncIteratorKeeps, IteratorNextKeeps, LoopBreaksKeeps
<1>10. CASE UNCHANGED vars
  <2>1. TypeOK'
    <3>1. Positions' = Positions /\ Frame' = Frame BY <1>10, FramePositions DEF vars
    <3> QED BY <1>0, <1>10, <3>1 DEF TypeOK, vars
  <2> QED BY <1>10, <2>1, IteratorUntouched DEF vars, itVars
<1> QED
  BY <1>1, <1>2, <1>3, <1>4, <1>5, <1>6, <1>7, <1>8, <1>9, <1>10 DEF Next

(* Whatever the callbacks, the loops and the bounds are, the state has the   *)
(* type the declarations give it.                                            *)
THEOREM TypeCorrect == Spec => []TypeOK
<1>1. IteratorInv => TypeOK BY DEF IteratorInv
<1> QED BY <1>1, InitIterator, IteratorStep, PTL DEF Spec

\* The i-th result, taken or queued, is the i-th that was pushed.
LEMMA ResultIsPushed ==
    ASSUME IteratorInv, NEW i \in Handed
    PROVE  i \in 1 .. PushCount /\ Result(i) = Pushed(i)
<1>1. TypeOK /\ PushedInOrder BY DEF IteratorInv
<1>2. Len(taken) \in Nat /\ Len(q) \in Nat BY <1>1 DEF TypeOK
<1>3. i \in 1 .. PushCount /\ i \in Nat BY <1>1, <1>2 DEF PushedInOrder, Handed
<1>4. DOMAIN q = 1 .. Len(q) /\ DOMAIN taken = 1 .. Len(taken)
  BY <1>1 DEF TypeOK
<1>5. CASE i <= Len(taken)
  <2>1. i \in DOMAIN taken BY <1>2, <1>3, <1>4, <1>5
  <2> QED BY <1>1, <1>3, <1>5, <2>1 DEF PushedInOrder, Result
<1>6. CASE ~(i <= Len(taken))
  <2>1. i - Len(taken) \in DOMAIN q /\ Len(taken) + (i - Len(taken)) = i
    BY <1>2, <1>3, <1>4, <1>6 DEF Handed
  <2> QED BY <1>1, <1>3, <1>6, <2>1 DEF PushedInOrder, Result
<1> QED BY <1>5, <1>6

LEMMA FifoFollows == IteratorInv => IteratorFifo
<1> SUFFICES ASSUME IteratorInv PROVE IteratorFifo OBVIOUS
<1>1. TypeOK /\ PushedInOrder BY DEF IteratorInv
<1>2. /\ Len(log) \in Nat /\ acquired \in 0 .. Len(log) /\ Cardinality(late) \in Nat
      /\ PushCount \in Nat /\ Len(taken) \in Nat /\ Len(q) \in Nat
  BY <1>1, IteratorFacts
<1>3. \A i \in Handed : i \in Nat /\ i \in 1 .. PushCount /\ Result(i) = Pushed(i)
  BY <1>2, ResultIsPushed DEF Handed
<1>4. late = {} /\ itOn => PushCount = Len(log) - acquired
  BY <1>2, FS_EmptySet DEF PushCount
<1>5. ~itOn => Handed = {} /\ late = {} BY <1>1, <1>2 DEF PushedInOrder, PushCount, Handed, IteratorInv
<1>6. \A i, j \in Handed : i < j =>
           Result(i) < Result(j) \/ (late # {} /\ Result(i) = Result(j) /\ Result(i) = Len(log))
  <2> SUFFICES ASSUME NEW i \in Handed, NEW j \in Handed, i < j
               PROVE  Result(i) < Result(j)
                      \/ (late # {} /\ Result(i) = Result(j) /\ Result(i) = Len(log))
    OBVIOUS
  <2>1. /\ i \in 1 .. PushCount /\ j \in 1 .. PushCount
        /\ Result(i) = Pushed(i) /\ Result(j) = Pushed(j)
    BY <1>3
  <2>2. itOn BY <1>5
  <2>3. CASE late = {}
    <3>1. acquired + i <= Len(log) /\ acquired + j <= Len(log)
      BY <1>2, <1>4, <2>1, <2>2, <2>3
    <3> QED BY <1>2, <2>1, <3>1 DEF Pushed
  <2>4. CASE late # {} BY <1>2, <2>1, <2>4 DEF Pushed
  <2> QED BY <2>3, <2>4
<1>7. ASSUME itOn PROVE acquired + 1 .. Len(log) \subseteq {Result(i) : i \in Handed}
  <2> SUFFICES ASSUME NEW n \in acquired + 1 .. Len(log)
               PROVE  \E i \in Handed : n = Result(i)
    OBVIOUS
  <2>1. n - acquired \in 1 .. PushCount BY <1>2, <1>7 DEF PushCount
  <2>2. n - acquired \in Handed BY <1>1, <2>1 DEF PushedInOrder, Handed
  <2>3. Result(n - acquired) = Pushed(n - acquired) BY <1>3, <2>2
  <2>4. Pushed(n - acquired) = n BY <1>2 DEF Pushed
  <2> QED BY <2>2, <2>3, <2>4
<1>8. ASSUME late = {}, NEW i \in Handed PROVE Result(i) > acquired
  <2>1. itOn BY <1>5
  <2>2. acquired + i <= Len(log) /\ i >= 1 BY <1>2, <1>3, <1>4, <1>8, <2>1
  <2> QED BY <1>2, <1>3, <2>2 DEF Pushed
<1> QED BY <1>6, <1>7, <1>8 DEF IteratorFifo

(* For any number of loops and any reentrant, removing or throwing callbacks *)
(* a message reaches the loops once and in order, and while the loops that   *)
(* began on the open stream read on none is lost; and a promise is only      *)
(* pending when nothing is queued.                                           *)
THEOREM IteratorLosesNothing == Spec => [](IteratorFifo /\ PendingMeansDrained)
<1>1. IteratorInv => IteratorFifo /\ PendingMeansDrained
  BY FifoFollows DEF IteratorInv
<1> QED BY <1>1, InitIterator, IteratorStep, PTL DEF Spec

-----------------------------------------------------------------------------
(* The end of the stream. NothingAfterEnd is not inductive: that the next    *)
(* callback of a forEach has not heard the end rests on its being in one     *)
(* list, and once, on the live list shifting to the front only, and on       *)
(* clearLis having emptied the lists before an outer emission goes on.       *)

\* An end of the stream is the last of its emissions.
LogEnds ==
    /\ closed = "open" => \A n \in Positions : log[n] = "msg"
    /\ closed # "open" => /\ log # <<>> /\ log[Len(log)] # "msg"
                          /\ \A n \in Positions : n < Len(log) => log[n] = "msg"

\* A registered callback is in the list of its kind, and once.
OwnListOf(k, list) ==
    /\ \A i \in 1 .. Len(list) : KindOf[list[i]] = k /\ member[list[i]] = "on"
    /\ \A i, j \in 1 .. Len(list) : list[i] = list[j] => i = j
OwnList == \A k \in Kinds : OwnListOf(k, lis[k])

NewUnheard == \A l \in Listeners : member[l] = "new" => heard[l] = <<>>

EndHeard(l) == \E i \in 1 .. Len(heard[l]) : log[heard[l][i]] # "msg"

\* The end is handed out by the innermost notify call.
EndsOnTop == \A i \in 1 .. Len(stack) : i < Len(stack) => log[stack[i].n] = "msg"

\* While it is, those have heard it whose turn was.
HandsOutEnd == stack # <<>> /\ log[Top.n] # "msg"
HadTurn(k, i) == (k = Top.list /\ i <= Top.pos) \/ (k # "nxt" /\ Top.list = "nxt")
OneByOne ==
    HandsOutEnd => \A k \in Kinds : \A i \in 1 .. Len(lis[k]) :
                      EndHeard(lis[k][i]) => HadTurn(k, i)

\* When an outer emission goes on, those who heard the end have been let go.
GoesOn == stack # <<>> /\ log[Top.n] = "msg" /\ ~cut
LetGo ==
    GoesOn => \A k \in Kinds : \A i \in 1 .. Len(lis[k]) : ~EndHeard(lis[k][i])

EndInv ==
    /\ TypeOK /\ LogEnds /\ OwnList /\ NewUnheard /\ EndsOnTop
    /\ OneByOne /\ LetGo /\ NothingAfterEnd

LEMMA HeardType ==
    ASSUME TypeOK, NEW l \in Listeners
    PROVE  /\ heard[l] \in Seq(Positions) /\ Len(heard[l]) \in Nat
           /\ DOMAIN heard[l] = 1 .. Len(heard[l])
           /\ \A i \in 1 .. Len(heard[l]) : heard[l][i] \in Positions
<1>1. heard[l] \in Seq(Positions) BY DEF TypeOK
<1> QED BY <1>1

LEMMA ListType ==
    ASSUME TypeOK, NEW k \in Kinds
    PROVE  /\ lis[k] \in Seq(Listeners) /\ Len(lis[k]) \in Nat
           /\ DOMAIN lis[k] = 1 .. Len(lis[k])
           /\ \A i \in 1 .. Len(lis[k]) : lis[k][i] \in Listeners
<1>1. lis[k] \in Seq(Listeners) BY DEF TypeOK
<1> QED BY <1>1

LEMMA StackType ==
    ASSUME TypeOK
    PROVE  /\ Len(stack) \in Nat /\ DOMAIN stack = 1 .. Len(stack)
           /\ \A i \in 1 .. Len(stack) : stack[i] \in Frame
           /\ stack # <<>> => Len(stack) \in 1 .. Len(stack) /\ Top = stack[Len(stack)]
<1>1. stack \in Seq(Frame) BY DEF TypeOK
<1>2. Len(stack) \in Nat /\ DOMAIN stack = 1 .. Len(stack) BY <1>1
<1>3. \A i \in 1 .. Len(stack) : stack[i] \in Frame BY <1>1, ElementOfSeq
<1>4. stack # <<>> => Len(stack) \in 1 .. Len(stack) BY <1>1
<1> QED BY <1>2, <1>3, <1>4 DEF Top, Last

LEMMA EndInvInit == Init => EndInv
<1> SUFFICES ASSUME Init PROVE EndInv OBVIOUS
<1>1. TypeOK BY InitType
<1>2. OwnList /\ OneByOne /\ LetGo
  BY DEF Init, OwnList, OwnListOf, OneByOne, HandsOutEnd, LetGo, GoesOn
<1>3. LogEnds /\ NewUnheard /\ EndsOnTop /\ NothingAfterEnd
  BY DEF Init, LogEnds, Positions, NewUnheard, EndsOnTop, NothingAfterEnd
<1> QED BY <1>1, <1>2, <1>3 DEF EndInv

\* A step of the loops, and a stuttering step.
LEMMA LoopsKeepEnd ==
    ASSUME EndInv, TypeOK', UNCHANGED <<closed, stack, log, heard>>, UNCHANGED lisVars
    PROVE  EndInv'
BY DEF EndInv, LogEnds, Positions, OwnList, OwnListOf, NewUnheard, EndHeard, EndsOnTop,
       OneByOne, HandsOutEnd, HadTurn, Top, LetGo, GoesOn, NothingAfterEnd, lisVars

\* Nobody has heard of an end that has not come.
LEMMA OpenUnheard ==
    ASSUME EndInv, closed = "open", NEW l \in Listeners PROVE ~EndHeard(l)
BY HeardType DEF EndInv, LogEnds, EndHeard

LEMMA EmitKeepsEnd ==
    ASSUME EndInv, NEW kind \in Emissions, NEW c \in {"open", "done", "error"},
           kind = "msg" <=> c = "open", Emit(kind, c)
    PROVE  EndInv'
<1>1. TypeOK /\ TypeOK' BY EmitType DEF EndInv
<1>2. /\ closed = "open" /\ closed' = c /\ log' = Append(log, kind)
      /\ stack' = Append(stack, ForEach(Len(log) + 1, kind))
      /\ UNCHANGED <<heard, lis, member, since, cut>>
  BY DEF Emit, Send, lisVars
<1>3. /\ Len(log) \in Nat /\ Len(log') = Len(log) + 1 /\ log'[Len(log) + 1] = kind
      /\ \A n \in Positions : log'[n] = "msg"
  <2>1. log \in Seq(Emissions) BY <1>1 DEF TypeOK
  <2>2. \A n \in Positions : log[n] = "msg" BY <1>2 DEF EndInv, LogEnds
  <2> QED BY <1>2, <2>1, <2>2, AppendProperties DEF Positions
<1>4. LogEnds'
  <2>1. \A n \in Positions' : n \in Positions \/ n = Len(log) + 1 BY <1>3 DEF Positions
  <2>2. log' # <<>> BY <1>3
  <2> QED BY <1>2, <1>3, <2>1, <2>2 DEF LogEnds, Positions
<1>5. ASSUME NEW l \in Listeners, NEW i \in 1 .. Len(heard[l])
      PROVE  log'[heard[l][i]] = "msg"
  BY <1>1, <1>3, HeardType
<1>6. \A k \in Kinds : \A i \in 1 .. Len(lis[k]) : lis[k][i] \in Listeners
  BY <1>1, ListType
<1>7. OneByOne' /\ LetGo'
  BY <1>2, <1>5, <1>6 DEF OneByOne, LetGo, EndHeard
<1>8. NothingAfterEnd' BY <1>1, <1>2, <1>5, HeardType DEF NothingAfterEnd
<1>9. EndsOnTop'
  <2>1. Len(stack') = Len(stack) + 1 /\ \A i \in 1 .. Len(stack) : stack'[i] = stack[i]
    BY <1>1, <1>2, AppendProperties DEF TypeOK
  <2>2. \A i \in 1 .. Len(stack) : stack[i].n \in Positions
    BY <1>1, StackType DEF Frame
  <2>3. Len(stack) \in Nat BY <1>1, StackType
  <2>4. \A i \in 1 .. Len(stack') : i < Len(stack') => i \in 1 .. Len(stack) BY <2>1, <2>3
  <2> QED BY <1>3, <2>1, <2>2, <2>4 DEF EndsOnTop
<1>10. OwnList' /\ NewUnheard' BY <1>2 DEF EndInv, OwnList, OwnListOf, NewUnheard
<1> QED BY <1>1, <1>4, <1>7, <1>8, <1>9, <1>10 DEF EndInv

\* A step in which no callback is called.
LEMMA NobodyHears ==
    ASSUME EndInv, TypeOK', UNCHANGED <<closed, log, heard>>, cut => cut',
           OwnList', NewUnheard', EndsOnTop', OneByOne', LetGo'
    PROVE  EndInv'
BY DEF EndInv, LogEnds, Positions, NothingAfterEnd

LEMMA TopUpdate ==
    ASSUME TypeOK, stack # <<>>, NEW f, SetTop(f)
    PROVE  /\ stack' # <<>> /\ Len(stack') = Len(stack) /\ Top' = f
           /\ \A i \in 1 .. Len(stack) : i < Len(stack) => stack'[i] = stack[i]
<1>1. stack \in Seq(Frame) /\ Len(stack) \in 1 .. Len(stack) /\ DOMAIN stack = 1 .. Len(stack)
  BY StackType DEF TypeOK
<1>2. stack' = [stack EXCEPT ![Len(stack)] = f] BY DEF SetTop
<1>3. Len(stack') = Len(stack) BY <1>1, <1>2
<1>4. stack'[Len(stack)] = f /\ \A i \in 1 .. Len(stack) : i < Len(stack) => stack'[i] = stack[i]
  <2>1. \A i \in DOMAIN stack :
          [stack EXCEPT ![Len(stack)] = f][i] = IF i = Len(stack) THEN f ELSE stack[i]
    OBVIOUS
  <2>2. \A i \in 1 .. Len(stack) : stack'[i] = IF i = Len(stack) THEN f ELSE stack[i]
    BY <1>1, <1>2, <2>1, Zenon
  <2>3. \A i \in 1 .. Len(stack) : i < Len(stack) => i # Len(stack)
    <3>1. Len(stack) \in Nat BY StackType
    <3> QED BY <3>1
  <2> QED BY <1>1, <2>2, <2>3
<1>5. stack' # <<>> BY <1>1, <1>3
<1> QED BY <1>3, <1>4, <1>5 DEF Top, Last

LEMMA EndsStayOnTop ==
    ASSUME EndInv, stack # <<>>, NEW f, SetTop(f), UNCHANGED log PROVE EndsOnTop'
BY TopUpdate DEF EndInv, EndsOnTop

LEMMA ListenerReturnsKeepsEnd == ASSUME EndInv, ListenerReturns PROVE EndInv'
<1>1. TypeOK /\ TypeOK' BY ListenerReturnsType DEF EndInv
<1>2. /\ stack # <<>> /\ SetTop([Top EXCEPT !.run = None]) /\ UNCHANGED <<closed, log, heard>>
      /\ UNCHANGED <<lis, member, since, cut>>
  BY DEF ListenerReturns, InCallback, lisVars
<1>3. Top \in Frame BY <1>1, <1>2, TopType
<1>4. Top'.n = Top.n /\ Top'.list = Top.list /\ Top'.pos = Top.pos /\ stack' # <<>>
  BY <1>1, <1>2, <1>3, TopUpdate DEF Frame
<1>5. EndsOnTop' BY <1>2, EndsStayOnTop
<1>6. OneByOne' /\ LetGo'
  BY <1>2, <1>4
     DEF EndInv, OneByOne, HandsOutEnd, HadTurn, LetGo, GoesOn, EndHeard
<1>7. OwnList' /\ NewUnheard' BY <1>2 DEF EndInv, OwnList, OwnListOf, NewUnheard
<1> QED BY <1>1, <1>2, <1>5, <1>6, <1>7, NobodyHears

\* The second list begins: nobody on it has heard the end.
LEMMA ThenNextListenersKeepsEnd == ASSUME EndInv, ThenNextListeners PROVE EndInv'
<1>1. TypeOK /\ TypeOK' BY ThenNextListenersType DEF EndInv
<1>2. /\ stack # <<>> /\ SetTop(ForEach(Top.n, "nxt")) /\ UNCHANGED <<closed, log, heard>>
      /\ UNCHANGED <<lis, member, since, cut>> /\ Top.list # "nxt"
  BY DEF ThenNextListeners, lisVars
<1>3. Top'.n = Top.n /\ Top'.list = "nxt" /\ Top'.pos = 0 /\ stack' # <<>>
  BY <1>1, <1>2, TopUpdate DEF ForEach
<1>4. EndsOnTop' BY <1>2, EndsStayOnTop
<1>5. OneByOne'
  <2> SUFFICES ASSUME HandsOutEnd, NEW k \in Kinds, NEW i \in 1 .. Len(lis[k]),
                      EndHeard(lis[k][i])
               PROVE  k # "nxt"
    BY <1>2, <1>3 DEF OneByOne, HandsOutEnd, HadTurn, EndHeard
  <2> QED BY <1>2 DEF EndInv, OneByOne, HadTurn
<1>6. LetGo' BY <1>2, <1>3 DEF EndInv, LetGo, GoesOn, EndHeard
<1>7. OwnList' /\ NewUnheard' BY <1>2 DEF EndInv, OwnList, OwnListOf, NewUnheard
<1> QED BY <1>1, <1>2, <1>4, <1>5, <1>6, <1>7, NobodyHears

\* The innermost notify call is left: those under it hand out messages.
LEMMA FrontStack ==
    ASSUME EndInv, stack # <<>>, stack' = Front(stack), UNCHANGED log
    PROVE  /\ EndsOnTop' /\ ~HandsOutEnd'
           /\ stack' # <<>> => Len(stack) > 1
<1>1. /\ stack \in Seq(Frame) /\ Len(stack) \in 1 .. Len(stack)
      /\ DOMAIN stack = 1 .. Len(stack) /\ Len(stack) \in Nat
  BY StackType DEF EndInv, TypeOK
<1>2. Len(stack') = Len(stack) - 1 /\ \A i \in 1 .. Len(stack) - 1 : stack'[i] = stack[i]
  BY <1>1 DEF Front
<1>3. EndsOnTop' BY <1>1, <1>2 DEF EndInv, EndsOnTop
<1>4. ASSUME stack' # <<>> PROVE Len(stack) > 1 /\ log[Top'.n] = "msg"
  <2>1. stack' \in Seq(Frame) BY <1>1 DEF Front
  <2>2. Len(stack') # 0 BY <1>4, <2>1
  <2>3. Len(stack) > 1 /\ Len(stack) - 1 \in 1 .. Len(stack) - 1 BY <1>1, <1>2, <2>2
  <2>4. Top' = stack[Len(stack) - 1] BY <1>2, <2>3 DEF Top, Last
  <2>5. log[stack[Len(stack) - 1].n] = "msg" BY <1>1, <2>3 DEF EndInv, EndsOnTop
  <2> QED BY <2>3, <2>4, <2>5
<1> QED BY <1>3, <1>4 DEF HandsOutEnd

LEMMA NotifyReturnsKeepsEnd == ASSUME EndInv, NotifyReturns PROVE EndInv'
<1>1. TypeOK /\ TypeOK' BY NotifyReturnsType DEF EndInv
<1>2. /\ stack # <<>> /\ stack' = Front(stack) /\ UNCHANGED <<closed, log, heard>>
      /\ UNCHANGED <<member, since, cut>>
      /\ lis' = IF log[Top.n] = "msg" THEN lis ELSE [k \in Kinds |-> <<>>]
  BY DEF NotifyReturns, ClearLis
<1>3. EndsOnTop' /\ OneByOne' BY <1>2, FrontStack DEF OneByOne
<1>4. CASE log[Top.n] = "msg"
  <2>1. lis' = lis BY <1>2, <1>4
  <2>2. LetGo'
    <3> SUFFICES ASSUME GoesOn' PROVE GoesOn
      BY <1>2, <2>1 DEF EndInv, LetGo, EndHeard
    <3> QED BY <1>2, <1>4 DEF GoesOn
  <2>3. OwnList' BY <1>2, <2>1 DEF EndInv, OwnList, OwnListOf
  <2>4. NewUnheard' BY <1>2 DEF EndInv, NewUnheard
  <2> QED BY <1>1, <1>2, <1>3, <2>2, <2>3, <2>4, NobodyHears
<1>5. CASE log[Top.n] # "msg"
  <2>1. \A k \in Kinds : lis'[k] = <<>> BY <1>2, <1>5
  <2>2. LetGo' /\ OwnList' BY <2>1 DEF LetGo, OwnList, OwnListOf
  <2>3. NewUnheard' BY <1>2 DEF EndInv, NewUnheard
  <2> QED BY <1>1, <1>2, <1>3, <2>2, <2>3, NobodyHears
<1> QED BY <1>4, <1>5

LEMMA ListenerThrowsKeepsEnd == ASSUME EndInv, ListenerThrows PROVE EndInv'
<1>1. TypeOK /\ TypeOK' BY ListenerThrowsType DEF EndInv
<1>2. /\ stack # <<>> /\ stack' = Front(stack) /\ UNCHANGED <<closed, log, heard>>
      /\ UNCHANGED <<lis, member, since>>
      /\ cut' = (cut \/ (log[Top.n] # "msg" /\ Len(stack) > 1))
  BY DEF ListenerThrows, InCallback
<1>3. EndsOnTop' /\ OneByOne' BY <1>2, FrontStack DEF OneByOne
<1>4. LetGo'
  <2> SUFFICES ASSUME GoesOn' PROVE GoesOn
    BY <1>2 DEF EndInv, LetGo, EndHeard
  <2>1. ~cut' /\ Len(stack) > 1 BY <1>2, FrontStack DEF GoesOn
  <2> QED BY <1>2, <2>1 DEF GoesOn
<1>5. OwnList' /\ NewUnheard' BY <1>2 DEF EndInv, OwnList, OwnListOf, NewUnheard
<1> QED BY <1>1, <1>2, <1>3, <1>4, <1>5, NobodyHears

LEMMA RemoveAtElements ==
    ASSUME NEW S, NEW s \in Seq(S), NEW i \in 1 .. Len(s)
    PROVE  /\ Len(RemoveAt(s, i)) = Len(s) - 1
           /\ \A j \in 1 .. Len(s) - 1 :
                RemoveAt(s, i)[j] = IF j < i THEN s[j] ELSE s[j + 1]
<1> DEFINE a == SubSeq(s, 1, i - 1)
           b == SubSeq(s, i + 1, Len(s))
<1>1. Len(s) \in Nat /\ i \in Nat OBVIOUS
<1>2. a \in Seq(S) /\ Len(a) = i - 1 /\ (\A j \in 1 .. i - 1 : a[j] = s[j])
  BY <1>1
<1>3. b \in Seq(S) /\ Len(b) = Len(s) - i
      /\ (\A j \in 1 .. Len(s) - i : b[j] = s[i + j])
  BY <1>1
<1>4. RemoveAt(s, i) = a \o b BY DEF RemoveAt
<1> HIDE DEF a, b
<1>5. /\ Len(a \o b) = Len(s) - 1
      /\ \A j \in 1 .. Len(s) - 1 :
           (a \o b)[j] = IF j <= i - 1 THEN a[j] ELSE b[j - (i - 1)]
  <2>1. /\ Len(a \o b) = Len(a) + Len(b)
        /\ \A j \in 1 .. Len(a) + Len(b) :
             (a \o b)[j] = IF j <= Len(a) THEN a[j] ELSE b[j - Len(a)]
    BY <1>2, <1>3, ConcatProperties
  <2>2. Len(a) = i - 1 /\ Len(a) + Len(b) = Len(s) - 1 BY <1>1, <1>2, <1>3
  <2> QED BY <2>1, <2>2
<1>6. ASSUME NEW j \in 1 .. Len(s) - 1
      PROVE  (a \o b)[j] = IF j < i THEN s[j] ELSE s[j + 1]
  <2>1. CASE j < i BY <1>1, <1>2, <1>5, <2>1
  <2>2. CASE ~(j < i)
    <3>1. (a \o b)[j] = b[j - (i - 1)] BY <1>1, <1>5, <2>2
    <3>2. j - (i - 1) \in 1 .. Len(s) - i /\ i + (j - (i - 1)) = j + 1 BY <1>1, <2>2
    <3> QED BY <1>3, <2>2, <3>1, <3>2
  <2> QED BY <2>1, <2>2
<1> QED BY <1>4, <1>5, <1>6

\* A callback that is added has heard nothing yet.
LEMMA AddLisKeepsEnd == ASSUME EndInv, NEW l \in Listeners, AddLis(l) PROVE EndInv'
<1> DEFINE k == KindOf[l]
           n == Len(lis[k])
<1>1. TypeOK /\ TypeOK' BY AddLisType DEF EndInv
<1>2. /\ member[l] = "new" /\ lis' = [lis EXCEPT ![k] = Append(lis[k], l)]
      /\ member' = [member EXCEPT ![l] = "on"] /\ UNCHANGED <<closed, stack, log, heard, cut>>
  BY DEF AddLis
<1>3. k \in Kinds BY StreamAssumption
<1>4. /\ lis \in [Kinds -> Seq(Listeners)] /\ lis[k] \in Seq(Listeners) /\ n \in Nat
      /\ member \in [Listeners -> {"new", "on", "removed"}]
      /\ \A j \in Kinds : \A i \in 1 .. Len(lis[j]) : lis[j][i] \in Listeners
  BY <1>1, <1>3, ListType DEF TypeOK
<1>5. /\ Len(Append(lis[k], l)) = n + 1 /\ Append(lis[k], l)[n + 1] = l
      /\ \A i \in 1 .. n : Append(lis[k], l)[i] = lis[k][i]
  BY <1>4, AppendProperties
<1> HIDE DEF k, n
<1>6. /\ Len(lis'[k]) = n + 1 /\ lis'[k][n + 1] = l
      /\ \A i \in 1 .. n : lis'[k][i] = lis[k][i]
      /\ \A j \in Kinds : j # k => lis'[j] = lis[j]
  BY <1>2, <1>3, <1>4, <1>5
<1>7. \A i \in 1 .. n + 1 : i = n + 1 \/ i \in 1 .. n BY <1>4
<1>8. ASSUME NEW j \in Kinds, NEW i \in 1 .. Len(lis'[j])
      PROVE  (i \in 1 .. Len(lis[j]) /\ lis'[j][i] = lis[j][i])
             \/ (j = k /\ i = n + 1 /\ lis'[j][i] = l)
  BY <1>6, <1>7 DEF n
<1>9. ~EndHeard(l)
  <2>1. heard[l] = <<>> BY <1>2 DEF EndInv, NewUnheard
  <2>2. Len(heard[l]) = 0 BY <2>1
  <2> QED BY <2>2 DEF EndHeard
<1>10. \A m \in Listeners : EndHeard(m)' <=> EndHeard(m) BY <1>2 DEF EndHeard
<1>11. OneByOne'
  <2> SUFFICES ASSUME HandsOutEnd, NEW j \in Kinds, NEW i \in 1 .. Len(lis'[j]),
                      \E h \in 1 .. Len(heard[lis'[j][i]]) : log[heard[lis'[j][i]][h]] # "msg"
               PROVE  HadTurn(j, i)
    BY <1>2, SMTT(30) DEF OneByOne, HandsOutEnd, HadTurn, Top, EndHeard
  <2>1. i \in 1 .. Len(lis[j]) /\ lis'[j][i] = lis[j][i] BY <1>8, <1>9 DEF EndHeard
  <2>2. EndHeard(lis[j][i]) BY <2>1 DEF EndHeard
  <2> QED BY <2>1, <2>2 DEF EndInv, OneByOne
<1>12. LetGo'
  <2> SUFFICES ASSUME GoesOn, NEW j \in Kinds, NEW i \in 1 .. Len(lis'[j]),
                      \E h \in 1 .. Len(heard[lis'[j][i]]) : log[heard[lis'[j][i]][h]] # "msg"
               PROVE  FALSE
    BY <1>2 DEF LetGo, GoesOn, Top, EndHeard
  <2>1. i \in 1 .. Len(lis[j]) /\ lis'[j][i] = lis[j][i] BY <1>8, <1>9 DEF EndHeard
  <2>2. EndHeard(lis[j][i]) BY <2>1 DEF EndHeard
  <2> QED BY <2>1, <2>2 DEF EndInv, LetGo
<1>13. OwnList'
  <2>1. ASSUME NEW j \in Kinds, NEW i \in 1 .. Len(lis'[j])
        PROVE  KindOf[lis'[j][i]] = j /\ member'[lis'[j][i]] = "on"
    <3>1. \A g \in Kinds : \A h \in 1 .. Len(lis[g]) :
            KindOf[lis[g][h]] = g /\ member[lis[g][h]] = "on"
      BY DEF EndInv, OwnList, OwnListOf
    <3>2. \A m \in Listeners : member[m] = "on" \/ m = l => member'[m] = "on"
      BY <1>2, <1>4
    <3>3. CASE i \in 1 .. Len(lis[j]) /\ lis'[j][i] = lis[j][i]
      BY <1>4, <3>1, <3>2, <3>3
    <3>4. CASE j = k /\ lis'[j][i] = l BY <3>2, <3>4 DEF k
    <3> QED BY <1>8, <3>3, <3>4
  <2>2. ASSUME NEW j \in Kinds, NEW i \in 1 .. Len(lis[j]) PROVE lis[j][i] # l
    BY <1>2 DEF EndInv, OwnList, OwnListOf
  <2>3. ASSUME NEW j \in Kinds, NEW h \in 1 .. Len(lis'[j]), NEW i \in 1 .. Len(lis'[j]),
               lis'[j][h] = lis'[j][i]
        PROVE  h = i
    BY <1>8, <2>2, <2>3 DEF EndInv, OwnList, OwnListOf
  <2> QED BY <2>1, <2>3 DEF OwnList, OwnListOf
<1>14. NewUnheard' /\ EndsOnTop'
  BY <1>2, <1>4 DEF EndInv, NewUnheard, EndsOnTop
<1> QED BY <1>1, <1>2, <1>11, <1>12, <1>13, <1>14, NobodyHears

\* Where a callback of a list was before the removal of another, and that all
\* others are still there.
LEMMA ListsAfterRemoval ==
    ASSUME EndInv, NEW l \in Listeners, RemoveLis(l)
    PROVE  \A j \in Kinds :
             /\ \A i \in 1 .. Len(lis'[j]) : \E h \in 1 .. Len(lis[j]) :
                  h >= i /\ lis'[j][i] = lis[j][h] /\ lis[j][h] # l
             /\ \A g, i \in 1 .. Len(lis'[j]) : lis'[j][g] = lis'[j][i] => g = i
             /\ \A i \in 1 .. Len(lis[j]) : lis[j][i] # l =>
                  \E h \in 1 .. Len(lis'[j]) : lis'[j][h] = lis[j][i]
<1> DEFINE k == KindOf[l]
           n == Len(lis[k])
<1>1. TypeOK /\ TypeOK' BY RemoveLisType DEF EndInv
<1>2. /\ member[l] = "on" /\ UNCHANGED <<closed, stack, log, heard, cut>>
      /\ member' = [member EXCEPT ![l] = "removed"]
  BY DEF RemoveLis
<1>3. k \in Kinds BY StreamAssumption
<1>4. /\ lis \in [Kinds -> Seq(Listeners)] /\ lis[k] \in Seq(Listeners) /\ n \in Nat
      /\ member \in [Listeners -> {"new", "on", "removed"}] /\ DOMAIN lis[k] = 1 .. n
      /\ \A j \in Kinds : \A i \in 1 .. Len(lis[j]) : lis[j][i] \in Listeners
  BY <1>1, <1>3, ListType DEF TypeOK
<1> QED
  <2>0. \A j \in Kinds :
          /\ \A i \in 1 .. Len(lis[j]) : KindOf[lis[j][i]] = j
          /\ \A g, i \in 1 .. Len(lis[j]) : lis[j][g] = lis[j][i] => g = i
    BY DEF EndInv, OwnList, OwnListOf
  <2>1. ASSUME NEW r \in 1 .. n, lis[k][r] = l,
               lis' = [lis EXCEPT ![k] = RemoveAt(lis[k], r)], NEW j \in Kinds
        PROVE  /\ \A i \in 1 .. Len(lis'[j]) : \E h \in 1 .. Len(lis[j]) :
                    h >= i /\ lis'[j][i] = lis[j][h] /\ lis[j][h] # l
               /\ \A g, i \in 1 .. Len(lis'[j]) : lis'[j][g] = lis'[j][i] => g = i
               /\ \A i \in 1 .. Len(lis[j]) : lis[j][i] # l =>
                    \E h \in 1 .. Len(lis'[j]) : lis'[j][h] = lis[j][i]
    <3>1. CASE j # k
      <4>1. lis'[j] = lis[j] BY <1>4, <2>1, <3>1
      <4>2. \A i \in 1 .. Len(lis[j]) : lis[j][i] # l BY <2>0, <3>1 DEF k
      <4> QED BY <2>0, <4>1, <4>2
    <3>2. CASE j = k
      <4>1. lis'[k] = RemoveAt(lis[k], r) BY <1>3, <1>4, <2>1
      <4>2. /\ Len(lis'[k]) = n - 1
            /\ \A i \in 1 .. n - 1 :
                 lis'[k][i] = IF i < r THEN lis[k][i] ELSE lis[k][i + 1]
        BY <1>4, <4>1, RemoveAtElements
      <4> DEFINE Was(i) == IF i < r THEN i ELSE i + 1
      <4>3. ASSUME NEW i \in 1 .. n - 1
            PROVE  Was(i) \in 1 .. n /\ Was(i) # r /\ Was(i) >= i /\ lis'[k][i] = lis[k][Was(i)]
        BY <1>4, <4>2
      <4>4. \A g, i \in 1 .. n - 1 : Was(g) = Was(i) => g = i BY <1>4
      <4> HIDE DEF Was, k, n
      <4>5. ASSUME NEW i \in 1 .. n - 1 PROVE lis[k][Was(i)] # l
        BY <1>3, <2>0, <2>1, <4>3 DEF n
      <4>6. ASSUME NEW g \in 1 .. n - 1, NEW i \in 1 .. n - 1, lis'[k][g] = lis'[k][i]
            PROVE  g = i
        <5>1. Was(g) \in 1 .. Len(lis[k]) /\ Was(i) \in 1 .. Len(lis[k]) BY <4>3 DEF n
        <5>2. lis[k][Was(g)] = lis[k][Was(i)] BY <4>3, <4>6
        <5>3. Was(g) = Was(i) BY <1>3, <2>0, <5>1, <5>2
        <5> QED BY <4>4, <5>3
      <4>7. ASSUME NEW i \in 1 .. n, lis[k][i] # l
            PROVE  \E h \in 1 .. n - 1 : lis'[k][h] = lis[k][i]
        <5>1. i # r BY <2>1, <4>7
        <5>2. CASE i < r
          <6>1. i \in 1 .. n - 1 BY <1>4, <5>2
          <6> QED BY <4>2, <5>2, <6>1
        <5>3. CASE i > r
          <6>1. i - 1 \in 1 .. n - 1 /\ ~(i - 1 < r) /\ (i - 1) + 1 = i BY <1>4, <5>3
          <6>2. lis'[k][i - 1] = lis[k][i] BY <4>2, <6>1
          <6> QED BY <6>1, <6>2
        <5> QED BY <1>4, <5>1, <5>2, <5>3
      <4> QED BY <3>2, <4>2, <4>3, <4>5, <4>6, <4>7 DEF n
    <3> QED BY <3>1, <3>2
  <2>2. ASSUME l \notin Range(lis[k]), lis' = lis, NEW j \in Kinds
        PROVE  /\ \A i \in 1 .. Len(lis'[j]) : \E h \in 1 .. Len(lis[j]) :
                    h >= i /\ lis'[j][i] = lis[j][h] /\ lis[j][h] # l
               /\ \A g, i \in 1 .. Len(lis'[j]) : lis'[j][g] = lis'[j][i] => g = i
               /\ \A i \in 1 .. Len(lis[j]) : lis[j][i] # l =>
                    \E h \in 1 .. Len(lis'[j]) : lis'[j][h] = lis[j][i]
    <3>1. \A i \in 1 .. Len(lis[j]) : lis[j][i] # l
      BY <1>4, <2>0, <2>2 DEF Range, k
    <3> QED BY <2>0, <2>2, <3>1
  <2> QED BY <1>4, <2>1, <2>2 DEF RemoveLis

\* A removal moves callbacks to the front only: no turn comes twice.
LEMMA RemoveLisKeepsEnd == ASSUME EndInv, NEW l \in Listeners, RemoveLis(l) PROVE EndInv'
<1> DEFINE k == KindOf[l]
           n == Len(lis[k])
<1>1. TypeOK /\ TypeOK' BY RemoveLisType DEF EndInv
<1>2. /\ member[l] = "on" /\ UNCHANGED <<closed, stack, log, heard, cut>>
      /\ member' = [member EXCEPT ![l] = "removed"]
  BY DEF RemoveLis
<1>3. k \in Kinds BY StreamAssumption
<1>4. /\ lis \in [Kinds -> Seq(Listeners)] /\ lis[k] \in Seq(Listeners) /\ n \in Nat
      /\ member \in [Listeners -> {"new", "on", "removed"}] /\ DOMAIN lis[k] = 1 .. n
      /\ \A j \in Kinds : \A i \in 1 .. Len(lis[j]) : lis[j][i] \in Listeners
  BY <1>1, <1>3, ListType DEF TypeOK
<1>5. \A j \in Kinds :
        /\ \A i \in 1 .. Len(lis'[j]) : \E h \in 1 .. Len(lis[j]) :
             h >= i /\ lis'[j][i] = lis[j][h] /\ lis[j][h] # l
        /\ \A g, i \in 1 .. Len(lis'[j]) : lis'[j][g] = lis'[j][i] => g = i
  BY ListsAfterRemoval
<1>6. OneByOne'
  <2> SUFFICES ASSUME HandsOutEnd, NEW j \in Kinds, NEW i \in 1 .. Len(lis'[j]),
                      \E h \in 1 .. Len(heard[lis'[j][i]]) : log[heard[lis'[j][i]][h]] # "msg"
               PROVE  HadTurn(j, i)
    BY <1>2 DEF OneByOne, HandsOutEnd, HadTurn, Top, EndHeard
  <2>1. PICK h \in 1 .. Len(lis[j]) : h >= i /\ lis'[j][i] = lis[j][h] BY <1>5
  <2>2. EndHeard(lis[j][h]) BY <2>1 DEF EndHeard
  <2>3. HadTurn(j, h) BY <2>2 DEF EndInv, OneByOne
  <2>4. Top.pos \in Nat BY <1>1, TopType DEF HandsOutEnd, Frame
  <2> QED BY <2>1, <2>3, <2>4 DEF HadTurn
<1>7. LetGo'
  <2> SUFFICES ASSUME GoesOn, NEW j \in Kinds, NEW i \in 1 .. Len(lis'[j]),
                      \E h \in 1 .. Len(heard[lis'[j][i]]) : log[heard[lis'[j][i]][h]] # "msg"
               PROVE  FALSE
    BY <1>2 DEF LetGo, GoesOn, Top, EndHeard
  <2>1. PICK h \in 1 .. Len(lis[j]) : lis'[j][i] = lis[j][h] BY <1>5
  <2>2. EndHeard(lis[j][h]) BY <2>1 DEF EndHeard
  <2> QED BY <2>1, <2>2 DEF EndInv, LetGo
<1>8. OwnList'
  <2>1. ASSUME NEW j \in Kinds, NEW i \in 1 .. Len(lis'[j])
        PROVE  KindOf[lis'[j][i]] = j /\ member'[lis'[j][i]] = "on"
    <3>1. PICK h \in 1 .. Len(lis[j]) : lis'[j][i] = lis[j][h] /\ lis[j][h] # l BY <1>5
    <3>2. KindOf[lis[j][h]] = j /\ member[lis[j][h]] = "on"
      BY DEF EndInv, OwnList, OwnListOf
    <3> QED BY <1>2, <1>4, <3>1, <3>2
  <2> QED BY <1>5, <2>1 DEF OwnList, OwnListOf
<1>9. NewUnheard' /\ EndsOnTop'
  BY <1>2, <1>4 DEF EndInv, NewUnheard, EndsOnTop
<1> QED BY <1>1, <1>2, <1>6, <1>7, <1>8, <1>9, NobodyHears

\* The next callback of the innermost forEach has not heard the end.
LEMMA CallListenerKeepsEnd == ASSUME EndInv, CallListener PROVE EndInv'
<1> DEFINE k == Top.list
           l == lis[k][Top.pos + 1]
           n == Top.n
<1>1. TypeOK /\ TypeOK' BY CallListenerType DEF EndInv
<1>2. /\ stack # <<>> /\ Top.pos < Len(lis[k])
      /\ SetTop([Top EXCEPT !.pos = @ + 1, !.run = l])
      /\ heard' = [heard EXCEPT ![l] = Append(heard[l], n)]
      /\ UNCHANGED <<closed, log, lis, member, since, cut>>
  BY DEF CallListener, MoreToCall, lisVars
<1>3. Top \in Frame /\ k \in Kinds /\ Top.pos \in Nat /\ n \in Positions
  BY <1>1, <1>2, TopType DEF Frame
<1>4. Top.pos + 1 \in 1 .. Len(lis[k]) /\ l \in Listeners
      /\ (\A j \in Kinds : \A i \in 1 .. Len(lis[j]) : lis[j][i] \in Listeners)
  BY <1>1, <1>2, <1>3, ListType
<1>5. Top'.n = n /\ Top'.list = k /\ Top'.pos = Top.pos + 1 /\ stack' # <<>>
  <2>1. Top' = [Top EXCEPT !.pos = @ + 1, !.run = l] /\ stack' # <<>>
    BY <1>1, <1>2, TopUpdate
  <2> QED BY <1>3, <2>1 DEF Frame
<1>6. EndsOnTop' BY <1>2, EndsStayOnTop
<1> HIDE DEF l, n, k
<1>7. /\ heard'[l] = Append(heard[l], n) /\ Len(heard'[l]) = Len(heard[l]) + 1
      /\ DOMAIN heard'[l] = 1 .. Len(heard[l]) + 1
      /\ heard'[l][Len(heard[l]) + 1] = n /\ Len(heard[l]) \in Nat
      /\ \A i \in 1 .. Len(heard[l]) : heard'[l][i] = heard[l][i]
      /\ \A m \in Listeners : m # l => heard'[m] = heard[m]
  <2>1. heard \in [Listeners -> Seq(Positions)] BY <1>1 DEF TypeOK
  <2>2. heard[l] \in Seq(Positions) /\ Len(heard[l]) \in Nat BY <1>4, <2>1
  <2>3. heard'[l] = Append(heard[l], n) /\ \A m \in Listeners : m # l => heard'[m] = heard[m]
    BY <1>2, <1>4, <2>1
  <2>4. /\ Len(Append(heard[l], n)) = Len(heard[l]) + 1
        /\ Append(heard[l], n)[Len(heard[l]) + 1] = n
        /\ \A i \in 1 .. Len(heard[l]) : Append(heard[l], n)[i] = heard[l][i]
        /\ Append(heard[l], n) \in Seq(Positions)
    BY <1>3, <2>2, AppendProperties
  <2>5. DOMAIN Append(heard[l], n) = 1 .. Len(heard[l]) + 1 BY <2>2, <2>4
  <2> QED BY <2>2, <2>3, <2>4, <2>5
<1> DEFINE Hears(m) == \E i \in 1 .. Len(heard'[m]) : log[heard'[m][i]] # "msg"
<1>8. ASSUME NEW m \in Listeners, Hears(m), m # l \/ log[n] = "msg" PROVE EndHeard(m)
  <2>1. CASE m # l BY <1>7, <1>8, <2>1 DEF EndHeard
  <2>2. CASE m = l
    <3>1. PICK i \in 1 .. Len(heard[l]) + 1 : log[heard'[l][i]] # "msg" BY <1>7, <1>8, <2>2
    <3>2. i # Len(heard[l]) + 1 BY <1>7, <1>8, <2>2, <3>1
    <3>3. i \in 1 .. Len(heard[l]) BY <1>7, <3>2
    <3> QED BY <1>7, <2>2, <3>1, <3>3 DEF EndHeard
  <2> QED BY <2>1, <2>2
<1> HIDE DEF Hears
\* The callback is where its turn is, and nowhere else.
<1>9. ASSUME NEW j \in Kinds, NEW i \in 1 .. Len(lis[j]), lis[j][i] = l
      PROVE  j = k /\ i = Top.pos + 1
  <2>1. KindOf[lis[j][i]] = j /\ KindOf[lis[k][Top.pos + 1]] = k
    BY <1>3, <1>4 DEF EndInv, OwnList, OwnListOf
  <2>2. j = k BY <1>9, <2>1 DEF l
  <2> QED BY <1>4, <1>9, <2>2 DEF EndInv, OwnList, OwnListOf, l
<1>10. OneByOne'
  <2> SUFFICES ASSUME HandsOutEnd, NEW j \in Kinds, NEW i \in 1 .. Len(lis[j]), Hears(lis[j][i])
               PROVE  (j = k /\ i <= Top.pos + 1) \/ (j # "nxt" /\ k = "nxt")
    BY <1>2, <1>5 DEF OneByOne, HandsOutEnd, HadTurn, EndHeard, Hears, n
  <2>1. CASE lis[j][i] = l BY <1>3, <1>9, <2>1
  <2>2. CASE lis[j][i] # l
    <3>1. EndHeard(lis[j][i]) BY <1>4, <1>8, <2>2
    <3>2. HadTurn(j, i) BY <3>1 DEF EndInv, OneByOne
    <3> QED BY <1>3, <3>2 DEF HadTurn, k
  <2> QED BY <2>1, <2>2
<1>11. LetGo'
  <2> SUFFICES ASSUME GoesOn, NEW j \in Kinds, NEW i \in 1 .. Len(lis[j]), Hears(lis[j][i])
               PROVE  FALSE
    BY <1>2, <1>5 DEF LetGo, GoesOn, EndHeard, Hears, n
  <2>1. EndHeard(lis[j][i]) BY <1>4, <1>8 DEF GoesOn, n
  <2> QED BY <2>1 DEF EndInv, LetGo
<1>12. NothingAfterEnd'
  <2> SUFFICES ASSUME NEW m \in Listeners, NEW i \in DOMAIN heard'[m], NEW j \in DOMAIN heard'[m],
                      i < j
               PROVE  log[heard'[m][i]] = "msg" \/ (cut /\ log[heard'[m][j]] = "msg")
    BY <1>2 DEF NothingAfterEnd
  <2>1. CASE m # l \/ j # Len(heard[l]) + 1
    <3>1. /\ i \in DOMAIN heard[m] /\ heard'[m][i] = heard[m][i]
          /\ j \in DOMAIN heard[m] /\ heard'[m][j] = heard[m][j]
      <4>1. CASE m # l BY <1>7, <4>1
      <4>2. CASE m = l
        <5>1. i \in 1 .. Len(heard[l]) + 1 /\ j \in 1 .. Len(heard[l]) + 1 BY <1>7, <4>2
        <5>2. i \in 1 .. Len(heard[l]) /\ j \in 1 .. Len(heard[l]) BY <1>7, <2>1, <4>2, <5>1
        <5>3. DOMAIN heard[l] = 1 .. Len(heard[l]) BY <1>1, <1>4, HeardType
        <5> QED BY <1>7, <4>2, <5>2, <5>3
      <4> QED BY <4>1, <4>2
    <3> QED BY <3>1 DEF EndInv, NothingAfterEnd
  <2>2. CASE m = l /\ j = Len(heard[l]) + 1
    <3>1. i \in 1 .. Len(heard[l]) /\ heard'[m][i] = heard[l][i] /\ heard'[m][j] = n
      BY <1>7, <2>2
    <3>2. CASE EndHeard(l) /\ log[n] # "msg"
      <4>1. HandsOutEnd BY <1>2, <3>2 DEF HandsOutEnd, n
      <4>2. HadTurn(k, Top.pos + 1)
        BY <1>3, <1>4, <3>2, <4>1 DEF EndInv, OneByOne, l
      <4> QED BY <1>3, <4>2 DEF HadTurn, k
    <3>3. CASE EndHeard(l) /\ log[n] = "msg"
      <4>1. cut
        <5> SUFFICES ASSUME ~cut PROVE FALSE OBVIOUS
        <5>1. GoesOn BY <1>2, <3>3 DEF GoesOn, n
        <5> QED BY <1>3, <1>4, <3>3, <5>1 DEF EndInv, LetGo, l
      <4> QED BY <3>1, <3>3, <4>1
    <3>4. CASE ~EndHeard(l) BY <3>1, <3>4 DEF EndHeard
    <3> QED BY <3>2, <3>3, <3>4
  <2> QED BY <2>1, <2>2
<1>13. NewUnheard'
  <2>1. member[l] = "on"
    BY <1>3, <1>4 DEF EndInv, OwnList, OwnListOf, l
  <2> QED BY <1>2, <1>7, <2>1 DEF EndInv, NewUnheard
<1>14. OwnList' /\ LogEnds'
  BY <1>2 DEF EndInv, OwnList, OwnListOf, LogEnds, Positions
<1> QED BY <1>1, <1>6, <1>10, <1>11, <1>12, <1>13, <1>14 DEF EndInv

LEMMA EndInvStep == EndInv /\ IteratorInv /\ [Next]_vars => EndInv'
<1> SUFFICES ASSUME EndInv, IteratorInv, [Next]_vars PROVE EndInv' OBVIOUS
<1>0. TypeOK' BY IteratorStep DEF IteratorInv
<1>1. CASE NotifyNext
  <2>1. "msg" \in Emissions /\ "err" \in Emissions /\ "cmp" \in Emissions
    BY DEF Emissions, Kinds
  <2>2. CASE NotifyMessage BY <2>1, <2>2, EmitKeepsEnd DEF NotifyMessage
  <2>3. CASE NotifyError BY <2>1, <2>3, EmitKeepsEnd DEF NotifyError
  <2>4. CASE NotifyComplete BY <2>1, <2>4, EmitKeepsEnd DEF NotifyComplete
  <2> QED BY <1>1, <2>2, <2>3, <2>4 DEF NotifyNext
<1>2. CASE CallListener BY <1>2, CallListenerKeepsEnd
<1>3. CASE ListenerReturns BY <1>3, ListenerReturnsKeepsEnd
<1>4. CASE ThenNextListeners BY <1>4, ThenNextListenersKeepsEnd
<1>5. CASE NotifyReturns BY <1>5, NotifyReturnsKeepsEnd
<1>6. CASE ListenerThrows BY <1>6, ListenerThrowsKeepsEnd
<1>7. ASSUME NEW l \in Listeners, AddLis(l) \/ RemoveLis(l) PROVE EndInv'
  BY <1>7, AddLisKeepsEnd, RemoveLisKeepsEnd
<1>8. ASSUME NEW c \in Loops, AsyncIterator(c) \/ IteratorNext(c) \/ LoopBreaks(c)
      PROVE  EndInv'
  <2>1. UNCHANGED <<closed, stack, log, heard>> /\ UNCHANGED lisVars
    BY <1>8 DEF AsyncIterator, IteratorNext, LoopBreaks
  <2> QED BY <1>0, <2>1, LoopsKeepEnd
<1>9. CASE UNCHANGED vars
  <2>1. UNCHANGED <<closed, stack, log, heard>> /\ UNCHANGED lisVars
    BY <1>9 DEF vars, lisVars
  <2> QED BY <1>0, <2>1, LoopsKeepEnd
<1> QED BY <1>1, <1>2, <1>3, <1>4, <1>5, <1>6, <1>7, <1>8, <1>9 DEF Next

(* Nobody is called any more who was told that the stream ended, however     *)
(* deep emissions are nested and whatever callbacks add, remove, emit and    *)
(* throw; only an exception out of the closing notify call into a callback   *)
(* that catches it lets a message follow the end, and never a second end.    *)
THEOREM NothingFollowsTheEnd == Spec => []NothingAfterEnd
<1>1. EndInv => NothingAfterEnd BY DEF EndInv
<1>2. Spec => []IteratorInv BY InitIterator, IteratorStep, PTL DEF Spec
<1> QED BY <1>1, <1>2, EndInvInit, EndInvStep, PTL DEF Spec

-----------------------------------------------------------------------------
(* The refinement of AsyncResults: queue, pending promise and the state that *)
(* the iterators share behave as one numbered sequence of results.           *)

ResultSet == [n : Nat, kind : Emissions]

LEMMA PushedPositions ==
    ASSUME IteratorInv
    PROVE  /\ PushCount \in Nat /\ PushCount = Len(taken) + Len(q)
           /\ Len(taken) \in Nat /\ Len(q) \in Nat
           /\ DOMAIN taken = 1 .. Len(taken) /\ DOMAIN q = 1 .. Len(q)
           /\ \A i \in 1 .. PushCount : Pushed(i) \in 1 .. Len(log)
<1>1. TypeOK /\ PushedInOrder BY DEF IteratorInv
<1>2. /\ Len(log) \in Nat /\ acquired \in 0 .. Len(log) /\ PushCount \in Nat
      /\ Len(taken) \in Nat /\ Len(q) \in Nat
  BY <1>1, IteratorFacts
<1>3. DOMAIN taken = 1 .. Len(taken) /\ DOMAIN q = 1 .. Len(q) BY <1>1 DEF TypeOK
<1>4. \A i \in 1 .. PushCount : Pushed(i) \in 1 .. Len(log)
  <2>1. CASE log # <<>>
    <3>1. Len(log) >= 1 BY <1>1, <2>1 DEF TypeOK
    <3> QED BY <1>2, <3>1 DEF Pushed
  <2>2. CASE log = <<>>
    <3>1. late = {} BY <2>2 DEF IteratorInv, ClosedHasEnd
    <3>2. Len(log) = 0 /\ Cardinality(late) = 0 BY <2>2, <3>1, FS_EmptySet
    <3>3. acquired = 0 BY <1>2, <3>2
    <3>4. Len(log) - acquired + Cardinality(late) = 0 BY <3>2, <3>3
    <3>5. PushCount = 0 BY <3>4 DEF PushCount
    <3> QED BY <3>5
  <2> QED BY <2>1, <2>2
<1> QED BY <1>1, <1>2, <1>3, <1>4 DEF PushedInOrder

LEMMA TakenPositions ==
    ASSUME IteratorInv PROVE \A i \in 1 .. Len(taken) : taken[i].n \in 1 .. Len(log)
<1>1. taken \in Seq([by : Loops, n : 1 .. Len(log)]) BY DEF IteratorInv, TypeOK, Positions
<1>2. \A i \in 1 .. Len(taken) : taken[i] \in [by : Loops, n : 1 .. Len(log)]
  BY <1>1, ElementOfSeq
<1> QED BY <1>2

ResultsTyped ==
    /\ Results \in Seq(ResultSet) /\ Len(Results) = PushCount
    /\ Answers \in Seq(ResultSet) /\ Len(Answers) = Len(taken)

LEMMA ResultFacts == IteratorInv => ResultsTyped
<1> SUFFICES ASSUME IteratorInv PROVE ResultsTyped OBVIOUS
<1>1. \A n \in 1 .. Len(log) : AsResult(n) \in ResultSet
  BY DEF AsResult, ResultSet, IteratorInv, TypeOK
<1>2. Results \in [1 .. PushCount -> ResultSet]
  BY <1>1, PushedPositions DEF Results
<1>3. \A i \in 1 .. Len(taken) : taken[i].n \in 1 .. Len(log) BY TakenPositions
<1>4. Answers \in [1 .. Len(taken) -> ResultSet]
  BY <1>1, <1>3, PushedPositions DEF Answers
<1>5. Results \in Seq(ResultSet) /\ Answers \in Seq(ResultSet)
  BY <1>2, <1>4, PushedPositions, SeqDef, ZenonT(30)
<1>6. DOMAIN Results = 1 .. PushCount /\ DOMAIN Answers = 1 .. Len(taken)
  BY <1>2, <1>4
<1>7. DOMAIN Results = 1 .. Len(Results) /\ Len(Results) \in Nat
      /\ DOMAIN Answers = 1 .. Len(Answers) /\ Len(Answers) \in Nat
  BY <1>5, LenProperties
<1>8. \A a, b \in Nat : 1 .. a = 1 .. b => a = b
  <2> SUFFICES ASSUME NEW a \in Nat, NEW b \in Nat, 1 .. a = 1 .. b PROVE a = b OBVIOUS
  <2>1. (a > 0 => a \in 1 .. b) /\ (b > 0 => b \in 1 .. a) OBVIOUS
  <2> QED BY <2>1
<1> QED BY <1>5, <1>6, <1>7, <1>8, PushedPositions DEF ResultsTyped

\* The same after a step.
LEMMA ResultFactsNext == IteratorInv' => ResultsTyped'
BY ResultFacts, PTL

\* A step that leaves the log and what was asked and pushed alone stutters.
LEMMA MappingStutters ==
    ASSUME UNCHANGED <<log, itOn, acquired, late, taken, p>>
    PROVE  UNCHANGED Abstract!abstractVars
BY DEF Abstract!abstractVars, Results, Answers, AsResult, PushCount, Pushed

\* What is in the log, as a result, is the same in every longer log.
LEMMA PushProduces ==
    ASSUME IteratorInv, IteratorInv', NEW n, NEW kind, NEW loops, PushIt(n, kind, loops),
           \A i \in 1 .. Len(log) : log'[i] = log[i],
           NEW CONSTANT k \in Nat, PushCount = k, PushCount' = k + 1,
           \A i \in 1 .. k : Pushed(i)' = Pushed(i),
           Pushed(k + 1)' = n,
           k # 0 => Abstract!Follows([n |-> n, kind |-> log'[n]], AsResult(Pushed(k)))
    PROVE  Abstract!AbstractNext
<1> DEFINE r == [n |-> n, kind |-> log'[n]]
<1>1. /\ Len(Results) = k /\ Len(Results') = k + 1
      /\ Results \in Seq(ResultSet) /\ Results' \in Seq(ResultSet)
      /\ Answers \in Seq(ResultSet) /\ Answers' \in Seq(ResultSet)
      /\ Len(Answers) = Len(taken) /\ Len(Answers') = Len(taken')
  BY ResultFacts, ResultFactsNext DEF ResultsTyped
<1>2. /\ \A i \in 1 .. k : Results'[i] = Results[i]
      /\ Results'[k + 1] = r
  <2>1. \A i \in 1 .. k + 1 : Results'[i] = [n |-> Pushed(i)', kind |-> log'[Pushed(i)']]
    BY DEF Results, AsResult
  <2>2. \A i \in 1 .. k : Results[i] = [n |-> Pushed(i), kind |-> log[Pushed(i)]]
    BY DEF Results, AsResult
  <2>3. \A i \in 1 .. k : Results'[i] = Results[i]
    <3> TAKE i \in 1 .. k
    <3>1. Pushed(i) \in 1 .. Len(log) /\ Pushed(i)' = Pushed(i) BY PushedPositions
    <3>2. Results'[i] = [n |-> Pushed(i), kind |-> log'[Pushed(i)]] BY <2>1, <3>1
    <3> QED BY <2>2, <3>1, <3>2
  <2>4. Results'[k + 1] = r
    <3>1. k + 1 \in 1 .. k + 1 OBVIOUS
    <3> QED BY <2>1, <3>1
  <2> QED BY <2>3, <2>4
<1>3. r \in ResultSet
  <2>1. Results'[k + 1] \in ResultSet BY <1>1, ElementOfSeq
  <2> QED BY <1>2, <2>1
<1> HIDE DEF r
<1>4. Results' = Append(Results, r)
  <2>1. Append(Results, r) \in Seq(ResultSet) /\ Len(Append(Results, r)) = k + 1
        /\ \A i \in 1 .. k : Append(Results, r)[i] = Results[i]
        /\ Append(Results, r)[k + 1] = r
    BY <1>1, <1>3, AppendProperties
  <2>2. \A i \in 1 .. k + 1 : Results'[i] = Append(Results, r)[i] BY <1>2, <2>1
  <2> QED BY <1>1, <2>1, <2>2, SeqEqual
<1>5. \A i \in 1 .. Len(taken) : Answers[i] = [n |-> taken[i].n, kind |-> log'[taken[i].n]]
  <2>1. \A i \in 1 .. Len(taken) : taken[i].n \in 1 .. Len(log)
    BY TakenPositions
  <2>2. \A i \in 1 .. Len(taken) : Answers[i] = [n |-> taken[i].n, kind |-> log[taken[i].n]]
    BY PushedPositions DEF Answers, AsResult
  <2> QED BY <2>1, <2>2
<1>6. \A i \in 1 .. Len(taken') : Answers'[i] = [n |-> taken'[i].n, kind |-> log'[taken'[i].n]]
  <2>1. DOMAIN taken' = 1 .. Len(taken') BY DEF IteratorInv, TypeOK
  <2> QED BY <2>1 DEF Answers, AsResult
<1>7. Answers' = IF p # None THEN Append(Answers, r) ELSE Answers
  <2>1. CASE p # None
    <3>1. /\ Append(Answers, r) \in Seq(ResultSet) /\ Len(Append(Answers, r)) = Len(taken) + 1
          /\ \A i \in 1 .. Len(taken) : Append(Answers, r)[i] = Answers[i]
          /\ Append(Answers, r)[Len(taken) + 1] = r
      BY <1>1, <1>3, AppendProperties
    <3>2. taken' = Append(taken, [by |-> p, n |-> n]) BY <2>1 DEF PushIt
    <3>3. /\ Len(taken') = Len(taken) + 1 /\ Len(taken) \in Nat
          /\ \A i \in 1 .. Len(taken) : taken'[i] = taken[i]
          /\ taken'[Len(taken) + 1].n = n
      BY <3>2 DEF IteratorInv, TypeOK
    <3>4. Answers'[Len(taken) + 1] = r
      <4>1. Len(taken) + 1 \in 1 .. Len(taken') BY <3>3
      <4> QED BY <1>6, <3>3, <4>1 DEF r
    <3>5. \A i \in 1 .. Len(taken) : Answers'[i] = Answers[i]
      <4> TAKE i \in 1 .. Len(taken)
      <4>1. i \in 1 .. Len(taken') /\ taken'[i] = taken[i] BY <3>3
      <4>2. Answers'[i] = [n |-> taken[i].n, kind |-> log'[taken[i].n]] BY <1>6, <4>1
      <4> QED BY <1>5, <4>2
    <3>6. \A i \in 1 .. Len(taken) + 1 : Answers'[i] = Append(Answers, r)[i]
      BY <3>1, <3>3, <3>4, <3>5
    <3>7. Answers' = Append(Answers, r)
      BY <1>1, <3>1, <3>3, <3>6, SeqEqual
    <3> QED BY <2>1, <3>7
  <2>2. CASE p = None
    <3>1. taken' = taken BY <2>2 DEF PushIt
    <3>2. \A i \in 1 .. Len(taken) : Answers'[i] = Answers[i] BY <1>5, <1>6, <3>1
    <3>3. Answers' = Answers BY <1>1, <3>1, <3>2, SeqEqual
    <3> QED BY <2>2, <3>3
  <2> QED BY <2>1, <2>2
<1>8. p' = None BY DEF PushIt
<1>9. Results # <<>> => Abstract!Follows(r, Results[Len(Results)])
  <2>1. SUFFICES ASSUME Results # <<>> PROVE Abstract!Follows(r, Results[Len(Results)])
    OBVIOUS
  <2>2. k # 0 BY <1>1, <2>1, EmptySeq
  <2>3. Results[k] = AsResult(Pushed(k)) BY <2>2 DEF Results
  <2> QED BY <1>1, <2>2, <2>3 DEF r
<1>10. Abstract!Produce(r)
  BY <1>4, <1>7, <1>8, <1>9 DEF Abstract!Produce
<1>11. k + 1 \in DOMAIN Results' /\ Results'[k + 1] = r
  BY <1>1, <1>2, LenProperties
<1> QED BY <1>10, <1>11 DEF Abstract!AbstractNext

\* The emission after the last one follows it.
LEMMA EmitProduces ==
    ASSUME IteratorInv, IteratorInv', LogEnds, NEW kind \in Emissions, NEW c,
           kind # "msg" => c # "open", Emit(kind, c)
    PROVE  [Abstract!AbstractNext]_(Abstract!abstractVars)
<1>1. closed = "open" /\ log' = Append(log, kind) /\ UNCHANGED <<itOn, acquired, late>>
      /\ late = {}
  BY DEF Emit, Send, IteratorInv
<1>2. /\ Len(log) \in Nat /\ acquired \in 0 .. Len(log) /\ Len(log') = Len(log) + 1
      /\ \A i \in 1 .. Len(log) : log'[i] = log[i]
      /\ log'[Len(log) + 1] = kind
  BY <1>1, IteratorFacts DEF IteratorInv, TypeOK
<1>3. CASE ~itOn
  <2>1. PushCount = 0 /\ PushCount' = 0 BY <1>1, <1>3 DEF PushCount
  <2>2. taken = <<>> /\ taken' = taken /\ p' = p
    BY <1>3 DEF IteratorInv, Emit, Send
  <2>3. Results = <<>> /\ Results' = <<>>
    <3>1. Len(Results) = 0 /\ Len(Results') = 0
          /\ Results \in Seq(ResultSet) /\ Results' \in Seq(ResultSet)
      BY <2>1, ResultFacts, ResultFactsNext DEF ResultsTyped
    <3> QED BY <3>1, EmptySeq
  <2>4. Answers = <<>> /\ Answers' = <<>>
    <3>1. Len(Answers) = 0 /\ Len(Answers') = 0
          /\ Answers \in Seq(ResultSet) /\ Answers' \in Seq(ResultSet)
      BY <2>2, ResultFacts, ResultFactsNext DEF ResultsTyped
    <3> QED BY <3>1, EmptySeq
  <2> QED BY <2>2, <2>3, <2>4 DEF Abstract!abstractVars
<1>4. CASE itOn
  <2> DEFINE k == Len(log) - acquired
  <2>1. k \in Nat /\ PushCount = k /\ PushCount' = k + 1
    <3>1. Cardinality(late) = 0 /\ Cardinality(late') = 0 BY <1>1, FS_EmptySet
    <3> QED BY <1>1, <1>2, <1>4, <3>1 DEF PushCount
  <2>2. PushIt(Len(log) + 1, kind, loop) BY <1>4 DEF Emit, Send
  <2>3. /\ \A i \in 1 .. k : Pushed(i)' = Pushed(i)
        /\ \A i \in Nat : i = k + 1 => Pushed(i)' = Len(log) + 1
        /\ \A i \in Nat : i = k => Pushed(i) = Len(log)
    BY <1>1, <1>2 DEF Pushed
  <2> SUFFICES ASSUME NEW CONSTANT m \in Nat, m = k
               PROVE  [Abstract!AbstractNext]_(Abstract!abstractVars)
    BY <2>1
  <2>4. /\ \A i \in 1 .. m : Pushed(i)' = Pushed(i)
        /\ Pushed(m + 1)' = Len(log) + 1 /\ Pushed(m) = Len(log)
    BY <2>3
  <2>5. m # 0 => Abstract!Follows([n |-> Len(log) + 1, kind |-> log'[Len(log) + 1]],
                                  AsResult(Pushed(m)))
    <3> SUFFICES ASSUME m # 0
                 PROVE  Abstract!Follows([n |-> Len(log) + 1, kind |-> log'[Len(log) + 1]],
                                         AsResult(Len(log)))
      BY <2>4
    <3>1. Len(log) \in Positions BY <1>2 DEF Positions
    <3>2. log[Len(log)] = "msg" BY <1>1, <3>1 DEF LogEnds
    <3> QED BY <3>2 DEF Abstract!Follows, AsResult
  <2>6. PushCount = m /\ PushCount' = m + 1 BY <2>1
  <2> HIDE DEF k
  <2>7. Abstract!AbstractNext BY <1>2, <2>2, <2>4, <2>5, <2>6, PushProduces
  <2> QED BY <2>7
<1> QED BY <1>3, <1>4

\* On a closed stream, an iterator repeats the end.
LEMMA AsyncIteratorProduces ==
    ASSUME IteratorInv, IteratorInv', LogEnds, NEW c \in Loops, AsyncIterator(c)
    PROVE  [Abstract!AbstractNext]_(Abstract!abstractVars)
<1>1. /\ log' = log /\ itOn' = TRUE /\ loop[c] = "idle"
      /\ acquired' = IF itOn THEN acquired ELSE Len(log)
      /\ late' = IF closed = "open" THEN late ELSE late \cup {c}
  BY DEF AsyncIterator
<1>2. TypeOK /\ Len(log) \in Nat /\ acquired \in 0 .. Len(log) /\ PushCount \in Nat
      /\ Cardinality(late) \in Nat /\ IsFiniteSet(late)
  BY IteratorFacts DEF IteratorInv
<1>3. ~itOn => PushCount = 0 /\ late = {} /\ Cardinality(late) = 0
  BY FS_EmptySet DEF IteratorInv, PushCount
<1>4. CASE closed = "open"
  <2>1. UNCHANGED <<p, q, taken, late>> BY <1>1, <1>4 DEF AsyncIterator, RepeatEnd
  <2>2. CASE itOn
    <3>1. UNCHANGED <<log, itOn, acquired, late, taken, p>>
      BY <1>1, <2>1, <2>2 DEF IteratorInv, TypeOK
    <3> QED BY <3>1, MappingStutters
  <2>3. CASE ~itOn
    <3>1. PushCount = 0 /\ PushCount' = 0
      <4>1. Cardinality(late') = 0 /\ acquired' = Len(log') BY <1>1, <1>3, <2>1, <2>3
      <4>2. PushCount' = 0 BY <1>1, <1>2, <4>1 DEF PushCount
      <4> QED BY <1>3, <2>3, <4>2
    <3>2. Results = <<>> /\ Results' = <<>>
      <4>1. Len(Results) = 0 /\ Len(Results') = 0
            /\ Results \in Seq(ResultSet) /\ Results' \in Seq(ResultSet)
        BY <3>1, ResultFacts, ResultFactsNext DEF ResultsTyped
      <4> QED BY <4>1, EmptySeq
    <3>3. Answers' = Answers BY <1>1, <2>1 DEF Answers, AsResult
    <3> QED BY <2>1, <3>2, <3>3 DEF Abstract!abstractVars
  <2> QED BY <2>2, <2>3
<1>5. CASE closed # "open"
  <2>1. PushIt(Len(log), log[Len(log)], [loop EXCEPT ![c] = "body"]) /\ late' = late \cup {c}
    BY <1>1, <1>5 DEF AsyncIterator, RepeatEnd
  <2>2. Cardinality(late') = Cardinality(late) + 1
    <3>1. c \notin late BY <1>1 DEF IteratorInv
    <3> QED BY <1>2, <2>1, <3>1, FS_AddElement
  <2>3. PushCount' = PushCount + 1
    BY <1>1, <1>2, <1>3, <2>2 DEF PushCount
  <2> SUFFICES ASSUME NEW CONSTANT k \in Nat, PushCount = k PROVE Abstract!AbstractNext
    BY <1>2
  <2>4. \A i \in 1 .. k : Pushed(i)' = Pushed(i)
    BY <1>1, <1>2, <1>3 DEF Pushed
  <2>5. Pushed(k + 1)' = Len(log)
    <3>1. acquired' \in Nat /\ acquired' + (k + 1) > Len(log)
      <4>1. CASE itOn
        <5>1. k = Len(log) - acquired + Cardinality(late) BY <4>1 DEF PushCount
        <5>2. acquired' = acquired BY <1>1, <4>1
        <5> QED BY <1>2, <5>1, <5>2
      <4>2. CASE ~itOn
        <5>1. acquired' = Len(log) BY <1>1, <4>2
        <5> QED BY <1>2, <5>1
      <4> QED BY <4>1, <4>2
    <3>2. Len(log') = Len(log) BY <1>1
    <3>3. ~(acquired' + (k + 1) <= Len(log')) BY <1>2, <3>1, <3>2
    <3>4. Pushed(k + 1)' = Len(log') BY <3>3 DEF Pushed
    <3> QED BY <3>2, <3>4
  <2>6. k # 0 => Abstract!Follows([n |-> Len(log), kind |-> log'[Len(log)]],
                                  AsResult(Pushed(k)))
    <3> SUFFICES ASSUME k # 0
                 PROVE  Abstract!Follows([n |-> Len(log), kind |-> log'[Len(log)]],
                                         AsResult(Pushed(k)))
      OBVIOUS
    <3>1. Pushed(k) = Len(log)
      BY <1>2, <1>3 DEF Pushed, PushCount
    <3>2. log[Len(log)] # "msg" BY <1>5 DEF LogEnds
    <3> QED BY <1>1, <3>1, <3>2 DEF Abstract!Follows, AsResult
  <2> QED BY <1>1, <2>1, <2>3, <2>4, <2>5, <2>6, PushProduces
<1> QED BY <1>4, <1>5

\* next() asks.
LEMMA IteratorNextAsks ==
    ASSUME IteratorInv, IteratorInv', NEW c \in Loops, IteratorNext(c)
    PROVE  [Abstract!AbstractNext]_(Abstract!abstractVars)
<1>1. UNCHANGED <<log, itOn, acquired, late>> BY DEF IteratorNext
<1>2. /\ Results' = Results
      /\ Len(Results) = Len(taken) + Len(q) /\ Len(Answers) = Len(taken)
      /\ Answers \in Seq(ResultSet) /\ Answers' \in Seq(ResultSet)
      /\ Results \in Seq(ResultSet)
      /\ Len(Answers') = Len(taken') /\ Len(q) \in Nat /\ Len(taken) \in Nat
  <2>1. Results' = Results BY <1>1 DEF Results, AsResult, PushCount, Pushed
  <2> QED BY <2>1, ResultFacts, ResultFactsNext, PushedPositions DEF ResultsTyped
<1>3. CASE p # None
  <2>1. UNCHANGED <<log, itOn, acquired, late, taken, p>>
    BY <1>1, <1>3 DEF IteratorNext, TakeResult
  <2> QED BY <2>1, MappingStutters
<1>4. CASE p = None /\ q = <<>>
  <2>1. p' = c /\ c # None /\ taken' = taken
    BY <1>4, StreamAssumption DEF IteratorNext, TakeResult
  <2>2. Answers' = Answers BY <1>1, <2>1 DEF Answers, AsResult
  <2>3. ~(Len(Answers) < Len(Results)) BY <1>2, <1>4
  <2>4. Abstract!Ask BY <1>2, <1>4, <2>1, <2>2, <2>3 DEF Abstract!Ask
  <2> QED BY <2>4 DEF Abstract!AbstractNext
<1>5. CASE p = None /\ q # <<>>
  <2>1. p' = None /\ taken' = Append(taken, [by |-> c, n |-> Head(q)])
    BY <1>5 DEF IteratorNext, TakeResult
  <2>2. Len(q) >= 1 /\ Head(q) = q[1] BY <1>2, <1>5 DEF IteratorInv, TypeOK
  <2>3. q[1] = Pushed(Len(taken) + 1)
    BY <2>2, <1>2, PushedPositions DEF IteratorInv, PushedInOrder
  <2>4. Results[Len(taken) + 1] = [n |-> q[1], kind |-> log[q[1]]]
    <3>1. Len(taken) + 1 \in 1 .. PushCount BY <1>2, <2>2, PushedPositions
    <3> QED BY <2>3, <3>1 DEF Results, AsResult
  <2> DEFINE r == Results[Len(taken) + 1]
  <2>5. r \in ResultSet
    <3>1. Len(taken) + 1 \in 1 .. Len(Results) BY <1>2, <2>2
    <3> QED BY <1>2, <3>1, ElementOfSeq
  <2>6. /\ Len(taken') = Len(taken) + 1 /\ DOMAIN taken' = 1 .. Len(taken) + 1
        /\ DOMAIN taken = 1 .. Len(taken)
        /\ \A i \in 1 .. Len(taken) : taken'[i] = taken[i]
        /\ taken'[Len(taken) + 1].n = q[1]
    BY <1>2, <2>1, <2>2 DEF IteratorInv, TypeOK
  <2>7. /\ \A i \in 1 .. Len(taken) : Answers'[i] = Answers[i]
        /\ Answers'[Len(taken) + 1] = r
    <3>1. \A i \in 1 .. Len(taken) + 1 :
            Answers'[i] = [n |-> taken'[i].n, kind |-> log[taken'[i].n]]
      BY <1>1, <2>6 DEF Answers, AsResult
    <3>2. \A i \in 1 .. Len(taken) :
            Answers[i] = [n |-> taken[i].n, kind |-> log[taken[i].n]]
      BY <2>6 DEF Answers, AsResult
    <3>3. Len(taken) + 1 \in 1 .. Len(taken) + 1 BY <1>2
    <3>4. Answers'[Len(taken) + 1] = r BY <2>4, <2>6, <3>1, <3>3
    <3>5. \A i \in 1 .. Len(taken) : Answers'[i] = Answers[i]
      <4> TAKE i \in 1 .. Len(taken)
      <4>1. i \in 1 .. Len(taken) + 1 /\ taken'[i] = taken[i] BY <1>2, <2>6
      <4>2. Answers'[i] = [n |-> taken[i].n, kind |-> log[taken[i].n]] BY <3>1, <4>1
      <4> QED BY <3>2, <4>2
    <3> QED BY <3>4, <3>5
  <2> HIDE DEF r
  <2>8. Answers' = Append(Answers, r)
    <3>1. /\ Append(Answers, r) \in Seq(ResultSet) /\ Len(Append(Answers, r)) = Len(taken) + 1
          /\ \A i \in 1 .. Len(taken) : Append(Answers, r)[i] = Answers[i]
          /\ Append(Answers, r)[Len(taken) + 1] = r
      BY <1>2, <2>5, AppendProperties
    <3>2. \A i \in 1 .. Len(taken) + 1 : Answers'[i] = Append(Answers, r)[i]
      BY <1>2, <2>7, <3>1
    <3> QED BY <1>2, <2>6, <3>1, <3>2, SeqEqual
  <2>9. Len(Answers) < Len(Results) BY <1>2, <2>2
  <2>10. Abstract!Ask BY <1>2, <1>5, <2>1, <2>8, <2>9 DEF Abstract!Ask, r
  <2> QED BY <2>10 DEF Abstract!AbstractNext
<1> QED BY <1>3, <1>4, <1>5

(* Every step of the stream is a step of the abstract sequence of results,   *)
(* or none: for any number of loops that share the iterator state, however   *)
(* they overlap, break and come late, and whatever the callbacks do.         *)
THEOREM ResultsAreOneSequence == Spec => ImplementsAsyncResults
<1>1. Init => Abstract!Init
  <2> SUFFICES ASSUME Init PROVE Abstract!Init OBVIOUS
  <2>1. IteratorInv BY InitIterator
  <2>2. Len(Results) = 0 /\ Len(Answers) = 0
        /\ Results \in Seq(ResultSet) /\ Answers \in Seq(ResultSet)
    <3>1. PushCount = 0 /\ Len(taken) = 0 BY DEF Init, PushCount
    <3> QED BY <2>1, <3>1, ResultFacts DEF ResultsTyped
  <2>3. Results = <<>> /\ Answers = <<>> BY <2>2, EmptySeq
  <2> QED BY <2>3 DEF Abstract!Init, Init
<1>2. IteratorInv /\ IteratorInv' /\ EndInv /\ [Next]_vars
        => [Abstract!AbstractNext]_(Abstract!abstractVars)
  <2> SUFFICES ASSUME IteratorInv, IteratorInv', EndInv, [Next]_vars
               PROVE  [Abstract!AbstractNext]_(Abstract!abstractVars)
    OBVIOUS
  <2>1. LogEnds BY DEF EndInv
  <2>2. CASE NotifyNext
    <3>1. "msg" \in Emissions /\ "err" \in Emissions /\ "cmp" \in Emissions
      BY DEF Emissions, Kinds
    <3>2. CASE NotifyMessage BY <2>1, <3>1, <3>2, EmitProduces DEF NotifyMessage
    <3>3. CASE NotifyError BY <2>1, <3>1, <3>3, EmitProduces DEF NotifyError
    <3>4. CASE NotifyComplete BY <2>1, <3>1, <3>4, EmitProduces DEF NotifyComplete
    <3> QED BY <2>2, <3>2, <3>3, <3>4 DEF NotifyNext
  <2>3. ASSUME UNCHANGED log, UNCHANGED itVars
        PROVE  [Abstract!AbstractNext]_(Abstract!abstractVars)
    BY <2>3, MappingStutters DEF itVars
  <2>4. CASE CallListener BY <2>3, <2>4 DEF CallListener
  <2>5. CASE ListenerReturns BY <2>3, <2>5 DEF ListenerReturns
  <2>6. CASE ThenNextListeners BY <2>3, <2>6 DEF ThenNextListeners
  <2>7. CASE NotifyReturns BY <2>3, <2>7 DEF NotifyReturns
  <2>8. CASE ListenerThrows BY <2>3, <2>8 DEF ListenerThrows
  <2>9. ASSUME NEW l \in Listeners, AddLis(l) \/ RemoveLis(l)
        PROVE  [Abstract!AbstractNext]_(Abstract!abstractVars)
    BY <2>3, <2>9 DEF AddLis, RemoveLis
  <2>10. ASSUME NEW c \in Loops, AsyncIterator(c) \/ IteratorNext(c) \/ LoopBreaks(c)
         PROVE  [Abstract!AbstractNext]_(Abstract!abstractVars)
    <3>1. CASE AsyncIterator(c) BY <2>1, <3>1, AsyncIteratorProduces
    <3>2. CASE IteratorNext(c) BY <3>2, IteratorNextAsks
    <3>3. CASE LoopBreaks(c) BY <3>3, MappingStutters DEF LoopBreaks
    <3> QED BY <2>10, <3>1, <3>2, <3>3
  <2>11. CASE UNCHANGED vars BY <2>3, <2>11 DEF vars, itVars
  <2> QED BY <2>2, <2>4, <2>5, <2>6, <2>7, <2>8, <2>9, <2>10, <2>11 DEF Next
<1>3. Spec => []IteratorInv BY InitIterator, IteratorStep, PTL DEF Spec
<1>4. Spec => []EndInv BY <1>3, EndInvInit, EndInvStep, PTL DEF Spec
<1> QED BY <1>1, <1>2, <1>3, <1>4, PTL DEF Spec, ImplementsAsyncResults, Abstract!AbstractSpec
-----------------------------------------------------------------------------
(* A transport that feeds a stream from between its notify calls: never      *)
(* inside more than one of them.                                             *)

\* The stream emits: one more in the log, one notify call under way.
LEMMA Emits ==
    ASSUME TypeOK, stack = <<>>, NEW kind \in Emissions, NEW c, Emit(kind, c)
    PROVE  closed = "open" /\ closed' = c /\ Len(log') = Len(log) + 1 /\ Len(stack') = 1
<1>1. closed = "open" /\ closed' = c /\ log' = Append(log, kind)
      /\ stack' = Append(stack, ForEach(Len(log) + 1, kind))
  BY DEF Emit, Send
<1>2. Len(log') = Len(log) + 1 BY <1>1, AppendProperties DEF TypeOK
<1>3. Len(stack') = 1 BY <1>1, AppendProperties DEF TypeOK
<1> QED BY <1>1, <1>2, <1>3

\* The notify call that is under way is left, there is no other.
LEMMA LeavesNotify ==
    ASSUME TypeOK, stack # <<>>, Len(stack) <= 1, stack' = Front(stack)
    PROVE  stack' = <<>> /\ Len(stack') = 0
<1>1. stack \in Seq(Frame) /\ Len(stack) \in 1 .. Len(stack) BY StackType DEF TypeOK
<1>2. Len(stack') = 0 /\ stack' \in Seq(Frame) BY <1>1 DEF Front
<1> QED BY <1>2, EmptySeq

\* What callbacks and loops do.
ReaderStep ==
    \/ CallListener \/ ListenerReturns \/ ThenNextListeners \/ NotifyReturns
    \/ \E l \in Listeners : AddLis(l) \/ RemoveLis(l)
    \/ \E c \in Loops : AsyncIterator(c) \/ IteratorNext(c) \/ LoopBreaks(c)

\* It leaves closed and log as they are, and the notify calls no deeper.
LEMMA ReaderKeepsStream ==
    ASSUME TypeOK, Len(stack) <= 1, ReaderStep
    PROVE  /\ UNCHANGED <<closed, log>>
           /\ Len(stack') <= 1 /\ (stack = <<>> => stack' = <<>>)
<1>1. CASE CallListener
  <2>1. stack # <<>> /\ UNCHANGED <<closed, log>>
        /\ \E f : SetTop(f)
    BY <1>1 DEF CallListener
  <2> QED BY <2>1, TopUpdate
<1>2. CASE ListenerReturns
  <2>1. stack # <<>> /\ UNCHANGED <<closed, log>>
        /\ \E f : SetTop(f)
    BY <1>2 DEF ListenerReturns, InCallback
  <2> QED BY <2>1, TopUpdate
<1>3. CASE ThenNextListeners
  <2>1. stack # <<>> /\ UNCHANGED <<closed, log>>
        /\ \E f : SetTop(f)
    BY <1>3 DEF ThenNextListeners
  <2> QED BY <2>1, TopUpdate
<1>4. CASE NotifyReturns
  <2>1. stack # <<>> /\ UNCHANGED <<closed, log>> /\ stack' = Front(stack)
    BY <1>4 DEF NotifyReturns
  <2> QED BY <2>1, LeavesNotify
<1>5. CASE \E l \in Listeners : AddLis(l) \/ RemoveLis(l)
  BY <1>5 DEF AddLis, RemoveLis
<1>6. CASE \E c \in Loops : AsyncIterator(c) \/ IteratorNext(c) \/ LoopBreaks(c)
  BY <1>6 DEF AsyncIterator, IteratorNext, LoopBreaks
<1> QED BY <1>1, <1>2, <1>3, <1>4, <1>5, <1>6 DEF ReaderStep
-----------------------------------------------------------------------------
(* Every callback hears every emission it is for, as long as callbacks, from *)
(* within an emission, do nothing but register others: a removal from within *)
(* one shifts the list that is walked, an emission overtakes the one under   *)
(* way, and an exception cuts it short. Registering is harmless: forEach     *)
(* keeps to the length the list had when it began.                           *)

\* Is the i-th emission one for this callback, and was it called with it?
IsFor(l, i) == KindOf[l] \in {"nxt", log[i]}
HeardIt(l, i) == \E j \in 1 .. Len(heard[l]) : heard[l][j] = i
HeardUpTo(l, to) ==
    \E from \in {since[l], since[l] + 1} : \A i \in Positions :
        HeardIt(l, i) <=> from <= i /\ i <= to /\ IsFor(l, i)

InOrder(l) == \A i, j \in 1 .. Len(heard[l]) : i < j => heard[l][i] < heard[l][j]

\* The one notify call under way walks over the list of the last emission, then
\* over the second list, and not beyond its end.
WalksLast ==
    /\ Len(stack) <= 1
    /\ stack # <<>> => /\ Top.n = Len(log) /\ Top.list \in {"nxt", log[Len(log)]}
                       /\ Top.len <= Len(lis[Top.list])

\* A callback is still to be called with the last emission.
Waits(l) ==
    /\ stack # <<>>
    /\ \/ KindOf[l] = Top.list /\ \E i \in 1 .. Top.len : i > Top.pos /\ lis[Top.list][i] = l
       \/ KindOf[l] = "nxt" /\ Top.list # "nxt"

\* Until the lists are cleared, who is registered is in the list of his kind.
InList(l) == \E i \in 1 .. Len(lis[KindOf[l]]) : lis[KindOf[l]][i] = l
Listed ==
    closed = "open" \/ stack # <<>> => \A l \in Listeners : member[l] = "on" => InList(l)

Hears ==
    \A l \in Listeners : member[l] = "on" =>
        HeardUpTo(l, IF Waits(l) THEN Len(log) - 1 ELSE Len(log))

HearInv ==
    /\ WalksLast /\ Listed /\ Hears /\ ListenersReleased
    /\ \A l \in Listeners : since[l] <= Len(log) /\ InOrder(l)

LEMMA HearInvInit == Init => HearInv
<1> SUFFICES ASSUME Init PROVE HearInv OBVIOUS
<1>1. stack = <<>> /\ Len(stack) = 0 /\ Len(log) = 0 /\ closed = "open" BY DEF Init
<1>2. WalksLast /\ ListenersReleased BY <1>1 DEF WalksLast, ListenersReleased
<1>3. Listed /\ Hears BY DEF Init, Listed, Hears
<1>4. \A l \in Listeners : since[l] <= Len(log) /\ InOrder(l) BY <1>1 DEF Init, InOrder
<1> QED BY <1>2, <1>3, <1>4 DEF HearInv

LEMMA LoopsKeepHears ==
    ASSUME HearInv, UNCHANGED <<closed, stack, log, heard>>, UNCHANGED lisVars
    PROVE  HearInv'
<1>1. UNCHANGED <<lis, member, since, Top>> BY DEF lisVars, Top
<1>2. WalksLast' /\ Listed' /\ ListenersReleased'
  BY <1>1 DEF HearInv, WalksLast, Listed, InList, ListenersReleased
<1>3. Hears'
  BY <1>1, SMTT(30) DEF HearInv, Hears, Waits, HeardUpTo, HeardIt, IsFor, Positions
<1>4. \A l \in Listeners : since'[l] <= Len(log') /\ InOrder(l)'
  BY <1>1 DEF HearInv, InOrder
<1> QED BY <1>2, <1>3, <1>4 DEF HearInv

\* A notify call begins: those who are in its lists wait for it.
LEMMA EmitKeepsHears ==
    ASSUME ~disturbed', EndInv, HearInv, NEW kind \in Emissions, NEW c, Emit(kind, c)
    PROVE  HearInv'
<1>1. TypeOK BY DEF EndInv
<1>2. /\ stack = <<>> /\ closed = "open" /\ log' = Append(log, kind)
      /\ stack' = Append(stack, ForEach(Len(log) + 1, kind))
      /\ UNCHANGED <<heard, lis, member, since>>
  BY DEF Emit, Send
<1>3. /\ Len(log) \in Nat /\ Len(log') = Len(log) + 1 /\ log'[Len(log) + 1] = kind
      /\ \A i \in Positions : log'[i] = log[i]
  BY <1>1, <1>2, AppendProperties DEF TypeOK, Positions
<1>4. Len(stack') = 1 /\ stack' # <<>> /\ Top' = ForEach(Len(log) + 1, kind)
  <2>1. Len(stack') = 1 /\ stack'[1] = ForEach(Len(log) + 1, kind)
    BY <1>1, <1>2, AppendProperties DEF TypeOK
  <2>2. stack' # <<>> BY <2>1
  <2> QED BY <2>1, <2>2 DEF Top, Last
<1>5. Top'.n = Len(log) + 1 /\ Top'.list = kind /\ Top'.pos = 0 /\ Top'.len = Len(lis[kind])
  BY <1>4 DEF ForEach
<1>6. WalksLast'
  <2>1. kind \in Kinds BY DEF Emissions
  <2>2. Len(lis[kind]) \in Nat BY <1>1, <2>1, ListType
  <2> QED BY <1>2, <1>3, <1>4, <1>5, <2>2 DEF WalksLast
<1>7. Listed' BY <1>2 DEF HearInv, Listed, InList
<1>8. ListenersReleased' BY <1>4 DEF ListenersReleased
<1>9. \A l \in Listeners : since'[l] <= Len(log') /\ InOrder(l)'
  <2>1. \A l \in Listeners : since[l] \in Nat /\ since[l] <= Len(log)
    BY <1>1 DEF TypeOK, HearInv
  <2> QED BY <1>2, <1>3, <2>1 DEF HearInv, InOrder
<1>10. ASSUME NEW l \in Listeners, member[l] = "on"
       PROVE  HeardUpTo(l, IF Waits(l) THEN Len(log) - 1 ELSE Len(log))'
  <2>1. PICK from \in {since[l], since[l] + 1} : \A i \in Positions :
          HeardIt(l, i) <=> from <= i /\ i <= Len(log) /\ IsFor(l, i)
    BY <1>2, <1>10 DEF HearInv, Hears, Waits, HeardUpTo
  <2>2. from \in Nat BY <1>1 DEF TypeOK
  <2>3. ~HeardIt(l, Len(log) + 1)
    BY <1>1, <1>3, HeardType DEF HeardIt, Positions
  <2>4. \A i \in Positions' : i \in Positions \/ i = Len(log) + 1 BY <1>3 DEF Positions
  <2>5. \A i : HeardIt(l, i)' <=> HeardIt(l, i) BY <1>2 DEF HeardIt
  <2>6. \A i \in Positions : IsFor(l, i)' <=> IsFor(l, i) BY <1>3 DEF IsFor
  <2>7. \A i \in Positions : i <= Len(log) /\ i # Len(log) + 1 BY <1>3 DEF Positions
  <2>8. CASE Waits(l)'
    <3>1. \A i \in Positions' : HeardIt(l, i)' <=> from <= i /\ i <= Len(log') - 1 /\ IsFor(l, i)'
      BY <1>3, <2>1, <2>2, <2>3, <2>4, <2>5, <2>6, <2>7
    <3> QED BY <1>2, <2>8, <3>1 DEF HeardUpTo
  <2>9. CASE ~Waits(l)'
    <3>1. KindOf[l] # kind
      <4> SUFFICES ASSUME KindOf[l] = kind PROVE FALSE OBVIOUS
      <4>1. PICK i \in 1 .. Len(lis[kind]) : lis[kind][i] = l
        BY <1>2, <1>10 DEF HearInv, Listed, InList
      <4>2. kind \in Kinds BY DEF Emissions
      <4>3. i > 0 /\ i \in 1 .. Top'.len BY <1>1, <1>5, <4>2, ListType
      <4> QED BY <1>2, <1>4, <1>5, <2>9, <4>1, <4>3 DEF Waits
    <3>2. KindOf[l] # "nxt"
      BY <1>4, <1>5, <2>9 DEF Waits, Emissions
    <3>3. \A i : i = Len(log) + 1 => ~IsFor(l, i)' BY <1>3, <3>1, <3>2 DEF IsFor
    <3>4. \A i \in Positions' : HeardIt(l, i)' <=> from <= i /\ i <= Len(log') /\ IsFor(l, i)'
      <4> SUFFICES ASSUME NEW i \in Positions'
                   PROVE  HeardIt(l, i)' <=> from <= i /\ i <= Len(log') /\ IsFor(l, i)'
        OBVIOUS
      <4>1. CASE i \in Positions
        <5>1. i <= Len(log) /\ i <= Len(log') BY <1>3, <2>7, <4>1 DEF Positions
        <5> QED BY <2>1, <2>5, <2>6, <4>1, <5>1
      <4>2. CASE i = Len(log) + 1 BY <2>3, <2>5, <3>3, <4>2
      <4> QED BY <2>4, <4>1, <4>2
    <3> QED BY <1>2, <2>9, <3>4 DEF HeardUpTo
  <2> QED BY <2>8, <2>9
<1>11. Hears' BY <1>2, <1>10 DEF Hears
<1> QED BY <1>6, <1>7, <1>8, <1>9, <1>11 DEF HearInv

\* The walk goes on, to a callback that waited.
LEMMA CallListenerKeepsHears == ASSUME EndInv, HearInv, CallListener PROVE HearInv'
<1> DEFINE k == Top.list
<1>1. TypeOK /\ stack # <<>> BY DEF EndInv, CallListener
<1>7. PICK m : m = lis[k][Top.pos + 1] OBVIOUS
<1>2. Top \in Frame /\ k \in Kinds /\ Top.pos \in Nat /\ Top.len \in Nat /\ Len(log) \in Nat
  BY <1>1, TopType, SMTT(30) DEF Frame, TypeOK
<1>3. /\ Top.pos < Top.len /\ Top.pos < Len(lis[k])
      /\ SetTop([Top EXCEPT !.pos = @ + 1, !.run = m])
      /\ heard' = [heard EXCEPT ![m] = Append(heard[m], Top.n)]
      /\ UNCHANGED <<closed, log, lis, member, since>>
  BY <1>7 DEF CallListener, MoreToCall, lisVars
<1>4. Top.n = Len(log) /\ k \in {"nxt", log[Len(log)]} /\ Top.len <= Len(lis[k])
      /\ Len(log) \in Positions
  BY <1>1, <1>2 DEF HearInv, WalksLast, Frame
<1>5. /\ Len(lis[k]) \in Nat /\ Top.pos + 1 \in 1 .. Len(lis[k]) /\ m \in Listeners
      /\ KindOf[m] = k /\ member[m] = "on"
  <2>1. Len(lis[k]) \in Nat /\ \A i \in 1 .. Len(lis[k]) : lis[k][i] \in Listeners
    BY <1>1, <1>2, ListType
  <2>2. Top.pos + 1 \in 1 .. Len(lis[k]) BY <1>2, <1>3, <2>1
  <2>3. \A i \in 1 .. Len(lis[k]) : KindOf[lis[k][i]] = k /\ member[lis[k][i]] = "on"
    BY <1>2 DEF EndInv, OwnList, OwnListOf
  <2> QED BY <1>7, <2>1, <2>2, <2>3
<1>6. \A i, j \in 1 .. Len(lis[k]) : lis[k][i] = lis[k][j] => i = j
  BY <1>2 DEF EndInv, OwnList, OwnListOf
<1> DEFINE f == [Top EXCEPT !.pos = @ + 1, !.run = m]
<1>8. f.n = Top.n /\ f.list = k /\ f.pos = Top.pos + 1 /\ f.len = Top.len
  BY <1>2 DEF Frame
<1> HIDE DEF f
<1>9. /\ stack' # <<>> /\ Len(stack') = Len(stack)
      /\ Top'.n = Top.n /\ Top'.list = k /\ Top'.pos = Top.pos + 1 /\ Top'.len = Top.len
  <2>1. stack' # <<>> /\ Len(stack') = Len(stack) /\ Top' = f
    BY <1>1, <1>3, TopUpdate DEF f
  <2> QED BY <1>8, <2>1
<1> HIDE DEF k
<1>10. WalksLast' BY <1>1, <1>3, <1>4, <1>9 DEF HearInv, WalksLast, k
<1>11. Listed' BY <1>1, <1>3 DEF HearInv, Listed, InList
<1>12. ListenersReleased' BY <1>9 DEF ListenersReleased
<1>13. Waits(m) /\ ~Waits(m)'
  <2>1. Waits(m)
    <3>1. Top.pos + 1 \in 1 .. Top.len /\ Top.pos + 1 > Top.pos BY <1>2, <1>3
    <3> QED BY <1>1, <1>5, <1>7, <3>1 DEF Waits, k
  <2>2. ASSUME Waits(m)' PROVE FALSE
    <3>0. \E i \in 1 .. Top'.len : i > Top'.pos /\ lis'[Top'.list][i] = m
      BY <1>5, <1>9, <2>2 DEF Waits
    <3>1. PICK i \in 1 .. Top.len : i > Top.pos + 1 /\ lis[k][i] = m
      BY <1>3, <1>9, <3>0
    <3>2. i \in 1 .. Len(lis[k]) BY <1>2, <1>4, <1>5, <3>1
    <3>3. i = Top.pos + 1 BY <1>5, <1>6, <1>7, <3>1, <3>2
    <3> QED BY <1>2, <3>1, <3>3
  <2> QED BY <2>1, <2>2
<1>14. \A l \in Listeners : l # m => (Waits(l)' <=> Waits(l))
  <2> SUFFICES ASSUME NEW l \in Listeners, l # m PROVE Waits(l)' <=> Waits(l) OBVIOUS
  <2>1. \A i \in 1 .. Top.len : lis[k][i] = l => (i > Top.pos + 1 <=> i > Top.pos)
    <3> SUFFICES ASSUME NEW i \in 1 .. Top.len, lis[k][i] = l, i > Top.pos
                 PROVE  i > Top.pos + 1
      BY <1>2
    <3>1. i # Top.pos + 1 BY <1>7
    <3> QED BY <1>2, <3>1
  <2> QED BY <1>1, <1>3, <1>9, <2>1 DEF Waits, k
<1>15. \A l \in Listeners : l # m => heard'[l] = heard[l]
  BY <1>1, <1>3 DEF TypeOK
<1>16. PICK from \in {since[m], since[m] + 1} : \A i \in Positions :
         HeardIt(m, i) <=> from <= i /\ i <= Len(log) - 1 /\ IsFor(m, i)
  BY <1>5, <1>13 DEF HearInv, Hears, HeardUpTo
<1>17. since[m] \in Nat /\ since[m] <= Len(log) BY <1>1, <1>5 DEF TypeOK, HearInv
\* One who was registered during this emission has heard nothing before it.
<1>18. \E fr \in {since[m], since[m] + 1} : fr <= Len(log) /\ \A i \in Positions :
         HeardIt(m, i) <=> fr <= i /\ i <= Len(log) - 1 /\ IsFor(m, i)
  <2>1. \A i \in Positions : i \in Nat BY <1>2 DEF Positions
  <2>2. CASE from <= Len(log) BY <1>16, <2>2
  <2>3. CASE ~(from <= Len(log))
    <3>1. since[m] = Len(log) /\ from = Len(log) + 1 BY <1>2, <1>17, <2>3
    <3>2. \A i \in Positions : ~(from <= i /\ i <= Len(log) - 1)
                              /\ ~(since[m] <= i /\ i <= Len(log) - 1)
      BY <1>2, <2>1, <3>1
    <3> QED BY <1>16, <1>17, <3>2
  <2> QED BY <2>2, <2>3
<1>19. /\ Len(heard[m]) \in Nat /\ Len(heard'[m]) = Len(heard[m]) + 1
       /\ heard'[m][Len(heard[m]) + 1] = Len(log)
       /\ \A j \in 1 .. Len(heard[m]) : heard'[m][j] = heard[m][j] /\ heard[m][j] \in Positions
  <2>1. heard'[m] = Append(heard[m], Len(log)) BY <1>1, <1>3, <1>4, <1>5 DEF TypeOK
  <2>2. heard[m] \in Seq(Positions) /\ \A j \in 1 .. Len(heard[m]) : heard[m][j] \in Positions
    BY <1>1, <1>5, HeardType
  <2> QED BY <1>4, <2>1, <2>2, AppendProperties
<1>20. \A i \in Positions : HeardIt(m, i)' <=> HeardIt(m, i) \/ i = Len(log)
  <2> SUFFICES ASSUME NEW i \in Positions PROVE HeardIt(m, i)' <=> HeardIt(m, i) \/ i = Len(log)
    OBVIOUS
  <2>1. \A j \in 1 .. Len(heard'[m]) : j \in 1 .. Len(heard[m]) \/ j = Len(heard[m]) + 1
    BY <1>19
  <2>2. \A j \in 1 .. Len(heard[m]) + 1 : j \in 1 .. Len(heard'[m]) BY <1>19
  <2>3. Len(heard[m]) + 1 \in 1 .. Len(heard'[m])
        /\ \A j \in 1 .. Len(heard[m]) : j \in 1 .. Len(heard'[m])
    BY <1>19
  <2>4. HeardIt(m, i) => HeardIt(m, i)' BY <1>19, <2>3 DEF HeardIt
  <2>5. i = Len(log) => HeardIt(m, i)' BY <1>19, <2>3 DEF HeardIt
  <2>6. HeardIt(m, i)' => HeardIt(m, i) \/ i = Len(log) BY <1>19, <2>1 DEF HeardIt
  <2> QED BY <2>4, <2>5, <2>6
<1>21. HeardUpTo(m, Len(log))'
  <2>1. PICK fr \in {since[m], since[m] + 1} : fr <= Len(log) /\ \A i \in Positions :
          HeardIt(m, i) <=> fr <= i /\ i <= Len(log) - 1 /\ IsFor(m, i)
    BY <1>18
  <2>2. IsFor(m, Len(log)) BY <1>4, <1>5 DEF IsFor
  <2>3. \A i \in Positions : i = Len(log) \/ (i <= Len(log) - 1 /\ i <= Len(log) /\ i # Len(log))
    BY <1>2 DEF Positions
  <2>4. ~(Len(log) <= Len(log) - 1) /\ Len(log) <= Len(log) BY <1>2
  <2>5. \A i \in Positions : IsFor(m, i)' <=> IsFor(m, i) BY <1>3 DEF IsFor
  <2>6. \A i \in Positions : HeardIt(m, i)' <=> fr <= i /\ i <= Len(log) /\ IsFor(m, i)'
    BY <1>20, <2>1, <2>2, <2>3, <2>4, <2>5
  <2> QED BY <1>3, <2>1, <2>6 DEF HeardUpTo, Positions
<1>22. InOrder(m)'
  <2>1. \A j \in 1 .. Len(heard[m]) : heard[m][j] < Len(log)
    <3> SUFFICES ASSUME NEW j \in 1 .. Len(heard[m]) PROVE heard[m][j] < Len(log) OBVIOUS
    <3>1. heard[m][j] \in Positions /\ HeardIt(m, heard[m][j]) BY <1>19 DEF HeardIt
    <3>2. heard[m][j] <= Len(log) - 1 BY <1>16, <3>1
    <3> QED BY <1>2, <3>1, <3>2 DEF Positions
  <2>2. \A i, j \in 1 .. Len(heard[m]) : i < j => heard[m][i] < heard[m][j]
    BY <1>5 DEF HearInv, InOrder
  <2> SUFFICES ASSUME NEW i \in 1 .. Len(heard'[m]), NEW j \in 1 .. Len(heard'[m]), i < j
               PROVE  heard'[m][i] < heard'[m][j]
    BY DEF InOrder
  <2>3. i \in 1 .. Len(heard[m]) BY <1>19
  <2>4. CASE j \in 1 .. Len(heard[m]) BY <1>19, <2>2, <2>3, <2>4
  <2>5. CASE j = Len(heard[m]) + 1 BY <1>19, <2>1, <2>3, <2>5
  <2> QED BY <1>19, <2>4, <2>5
<1>23. ASSUME NEW l \in Listeners
       PROVE  /\ since'[l] <= Len(log') /\ InOrder(l)'
              /\ member[l] = "on" => HeardUpTo(l, IF Waits(l) THEN Len(log) - 1 ELSE Len(log))'
  <2>1. CASE l = m BY <1>3, <1>13, <1>17, <1>21, <1>22, <2>1
  <2>2. CASE l # m
    <3>1. heard'[l] = heard[l] /\ (Waits(l)' <=> Waits(l)) BY <1>14, <1>15, <2>2
    <3>2. since'[l] <= Len(log') /\ InOrder(l)' BY <1>3, <3>1 DEF HearInv, InOrder
    <3>3. member[l] = "on" => HeardUpTo(l, IF Waits(l) THEN Len(log) - 1 ELSE Len(log))
      BY DEF HearInv, Hears
    <3>4. \A i : (HeardIt(l, i)' <=> HeardIt(l, i)) /\ (IsFor(l, i)' <=> IsFor(l, i))
      BY <1>3, <3>1 DEF HeardIt, IsFor
    <3> QED BY <1>3, <3>1, <3>2, <3>3, <3>4 DEF HeardUpTo, Positions
  <2> QED BY <2>1, <2>2
<1>24. Hears' BY <1>3, <1>23 DEF Hears
<1> QED BY <1>10, <1>11, <1>12, <1>23, <1>24 DEF HearInv
\* Where the walk is: in the lists of one of the kinds, at a natural number.
LEMMA WalkTyped ==
    ASSUME TypeOK, stack # <<>>
    PROVE  /\ Top \in Frame /\ Top.list \in Kinds /\ Top.pos \in Nat /\ Top.len \in Nat
           /\ Len(lis[Top.list]) \in Nat /\ Len(log) \in Positions /\ Len(log) \in Nat
<1>1. Top \in Frame BY TopType DEF TypeOK
<1>2. Top.n \in Positions /\ Top.list \in Kinds /\ Top.pos \in Nat /\ Top.len \in Nat
  BY <1>1 DEF Frame
<1>3. Len(lis[Top.list]) \in Nat BY <1>2, ListType
<1>4. Len(log) \in Nat BY DEF TypeOK
<1>5. Len(log) \in Positions BY <1>2, <1>4 DEF Positions
<1> QED BY <1>1, <1>2, <1>3, <1>4, <1>5

\* What has been heard is kept if nobody stops or begins to wait.
LEMMA HearsByWaiting ==
    ASSUME UNCHANGED <<log, heard, since, member>>, Hears,
           \A l \in Listeners : member[l] = "on" => (Waits(l)' <=> Waits(l))
    PROVE  Hears'
<1> SUFFICES ASSUME NEW l \in Listeners, member[l] = "on"
             PROVE  HeardUpTo(l, IF Waits(l) THEN Len(log) - 1 ELSE Len(log))'
  BY DEF Hears
<1>1. HeardUpTo(l, IF Waits(l) THEN Len(log) - 1 ELSE Len(log)) BY DEF Hears
<1>2. Waits(l)' <=> Waits(l) OBVIOUS
<1> QED BY <1>1, <1>2 DEF HeardUpTo, HeardIt, IsFor, Positions

\* The callback returns: the walk is where it was.
LEMMA ListenerReturnsKeepsHears ==
    ASSUME EndInv, HearInv, ListenerReturns PROVE HearInv'
<1>1. TypeOK /\ stack # <<>> BY DEF EndInv, ListenerReturns, InCallback
<1>2. /\ SetTop([Top EXCEPT !.run = None])
      /\ UNCHANGED <<closed, log, heard, lis, member, since>>
  BY DEF ListenerReturns, lisVars
<1>3. Top \in Frame BY <1>1, WalkTyped
<1> DEFINE f == [Top EXCEPT !.run = None]
<1>4. f.n = Top.n /\ f.list = Top.list /\ f.pos = Top.pos /\ f.len = Top.len
  BY <1>3 DEF Frame
<1> HIDE DEF f
<1>5. /\ stack' # <<>> /\ Len(stack') = Len(stack)
      /\ Top'.n = Top.n /\ Top'.list = Top.list /\ Top'.pos = Top.pos /\ Top'.len = Top.len
  <2>1. stack' # <<>> /\ Len(stack') = Len(stack) /\ Top' = f
    BY <1>1, <1>2, TopUpdate DEF f
  <2> QED BY <1>4, <2>1
<1>6. WalksLast' BY <1>1, <1>2, <1>5 DEF HearInv, WalksLast
<1>7. Listed' BY <1>1, <1>2 DEF HearInv, Listed, InList
<1>8. ListenersReleased' BY <1>5 DEF ListenersReleased
<1>9. \A l \in Listeners : Waits(l)' <=> Waits(l)
  BY <1>1, <1>2, <1>5 DEF Waits
<1>10. Hears' BY <1>2, <1>9, HearsByWaiting DEF HearInv
<1>11. \A l \in Listeners : since'[l] <= Len(log') /\ InOrder(l)'
  BY <1>2 DEF HearInv, InOrder
<1> QED BY <1>6, <1>7, <1>8, <1>10, <1>11 DEF HearInv

\* At the end of its list nobody waits in the walk any more.
LEMMA WalkOver ==
    ASSUME TypeOK, HearInv, stack # <<>>, ~MoreToCall, NEW l, KindOf[l] = Top.list, Waits(l)
    PROVE  FALSE
<1>1. PICK i \in 1 .. Top.len : i > Top.pos
  BY DEF Waits
<1>2. Top.pos < Top.len BY <1>1, WalkTyped
<1>3. Top.len <= Len(lis[Top.list]) BY DEF HearInv, WalksLast
<1>4. Top.pos < Len(lis[Top.list]) BY <1>2, <1>3, WalkTyped
<1> QED BY <1>2, <1>4 DEF MoreToCall

\* The walk goes on to the second list: those in it waited, and wait still.
LEMMA ThenNextListenersKeepsHears ==
    ASSUME EndInv, HearInv, ThenNextListeners PROVE HearInv'
<1>1. TypeOK /\ stack # <<>> BY DEF EndInv, ThenNextListeners
<1>2. /\ SetTop(ForEach(Top.n, "nxt")) /\ ~MoreToCall /\ Top.list # "nxt"
      /\ UNCHANGED <<closed, log, heard, lis, member, since>>
  BY DEF ThenNextListeners, lisVars
<1>3. /\ stack' # <<>> /\ Len(stack') = Len(stack)
      /\ Top'.n = Top.n /\ Top'.list = "nxt" /\ Top'.pos = 0 /\ Top'.len = Len(lis["nxt"])
  <2>1. stack' # <<>> /\ Len(stack') = Len(stack) /\ Top' = ForEach(Top.n, "nxt")
    BY <1>1, <1>2, TopUpdate
  <2> QED BY <2>1 DEF ForEach
<1>4. Len(lis["nxt"]) \in Nat /\ \A i \in 1 .. Len(lis["nxt"]) : lis["nxt"][i] \in Listeners
  BY <1>1, ListType DEF Kinds
<1>5. WalksLast' BY <1>1, <1>2, <1>3, <1>4 DEF HearInv, WalksLast
<1>6. Listed' BY <1>1, <1>2 DEF HearInv, Listed, InList
<1>7. ListenersReleased' BY <1>3 DEF ListenersReleased
<1>8. ASSUME NEW l \in Listeners, member[l] = "on"
      PROVE  Waits(l)' <=> Waits(l)
  <2>1. CASE KindOf[l] = "nxt"
    <3>1. Waits(l) BY <1>1, <1>2, <2>1 DEF Waits
    <3>2. PICK i \in 1 .. Len(lis["nxt"]) : lis["nxt"][i] = l
      BY <1>1, <1>8, <2>1 DEF HearInv, Listed, InList
    <3>3. i > 0 /\ i \in 1 .. Top'.len BY <1>3, <1>4
    <3> QED BY <1>2, <1>3, <2>1, <3>1, <3>2, <3>3 DEF Waits
  <2>2. CASE KindOf[l] # "nxt"
    <3>1. ~Waits(l)' BY <1>3, <2>2 DEF Waits
    <3>2. ~Waits(l)
      <4> SUFFICES ASSUME Waits(l) PROVE FALSE OBVIOUS
      <4>1. KindOf[l] = Top.list BY <2>2 DEF Waits
      <4> QED BY <1>1, <1>2, <4>1, WalkOver
    <3> QED BY <3>1, <3>2
  <2> QED BY <2>1, <2>2
<1>9. Hears' BY <1>2, <1>8, HearsByWaiting DEF HearInv
<1>10. \A l \in Listeners : since'[l] <= Len(log') /\ InOrder(l)'
  BY <1>2 DEF HearInv, InOrder
<1> QED BY <1>5, <1>6, <1>7, <1>9, <1>10 DEF HearInv

\* The notify call returns: nobody waits, and after an end the lists are empty.
LEMMA NotifyReturnsKeepsHears ==
    ASSUME EndInv, HearInv, NotifyReturns PROVE HearInv'
<1>1. TypeOK /\ stack # <<>> /\ LogEnds BY DEF EndInv, NotifyReturns
<1>2. /\ stack' = Front(stack) /\ ~MoreToCall /\ Top.list = "nxt"
      /\ lis' = (IF log[Top.n] = "msg" THEN lis ELSE ClearLis)
      /\ UNCHANGED <<closed, log, heard, member, since>>
  BY DEF NotifyReturns
<1>3. stack' = <<>> /\ Len(stack') = 0 /\ Top.n = Len(log)
  BY <1>1, <1>2, LeavesNotify DEF HearInv, WalksLast
<1>4. WalksLast' BY <1>3 DEF WalksLast
<1>5. closed = "open" => lis' = lis
  BY <1>1, <1>2, <1>3, WalkTyped DEF LogEnds
<1>6. closed # "open" => lis' = ClearLis
  BY <1>1, <1>2, <1>3, WalkTyped DEF LogEnds
<1>7. Listed' BY <1>1, <1>2, <1>3, <1>5 DEF HearInv, Listed, InList
<1>8. ListenersReleased'
  <2> SUFFICES ASSUME closed # "open", NEW k \in Kinds, NEW i \in DOMAIN lis'[k]
               PROVE  FALSE
    BY <1>2 DEF ListenersReleased
  <2>1. lis'[k] = <<>> BY <1>6 DEF ClearLis
  <2> QED BY <2>1
<1>9. \A l \in Listeners : ~Waits(l)' /\ ~Waits(l)
  <2> SUFFICES ASSUME NEW l \in Listeners PROVE ~Waits(l)' /\ ~Waits(l) OBVIOUS
  <2>1. ~Waits(l)' BY <1>3 DEF Waits
  <2>2. ~Waits(l)
    <3> SUFFICES ASSUME Waits(l) PROVE FALSE OBVIOUS
    <3>1. KindOf[l] = Top.list BY <1>2 DEF Waits
    <3> QED BY <1>1, <1>2, <3>1, WalkOver
  <2> QED BY <2>1, <2>2
<1>10. Hears' BY <1>2, <1>9, HearsByWaiting DEF HearInv
<1>11. \A l \in Listeners : since'[l] <= Len(log') /\ InOrder(l)'
  BY <1>2 DEF HearInv, InOrder
<1> QED BY <1>4, <1>7, <1>8, <1>10, <1>11 DEF HearInv
\* One more callback at the end of its list, beyond where the walk goes to: it
\* has heard nothing and waits only if its list is still to come.
LEMMA AddLisKeepsHears ==
    ASSUME EndInv, HearInv, NEW l \in Listeners, AddLis(l) PROVE HearInv'
<1> DEFINE k == KindOf[l]
           n == Len(lis[k])
<1>1. TypeOK BY DEF EndInv
<1>2. /\ member[l] = "new" /\ lis' = [lis EXCEPT ![k] = Append(lis[k], l)]
      /\ member' = [member EXCEPT ![l] = "on"] /\ since' = [since EXCEPT ![l] = Len(log)]
      /\ UNCHANGED <<closed, stack, log, heard>>
  BY DEF AddLis
<1>3. k \in Kinds BY StreamAssumption
<1>4. lis[k] \in Seq(Listeners) /\ n \in Nat /\ Len(log) \in Nat /\ lis \in [Kinds -> Seq(Listeners)]
  BY <1>1, <1>3, ListType DEF TypeOK
<1>5. /\ Len(Append(lis[k], l)) = n + 1 /\ Append(lis[k], l)[n + 1] = l
      /\ \A i \in 1 .. n : Append(lis[k], l)[i] = lis[k][i]
  BY <1>4, AppendProperties
<1> HIDE DEF k, n
<1>6. /\ Len(lis'[k]) = n + 1 /\ lis'[k][n + 1] = l
      /\ \A i \in 1 .. n : lis'[k][i] = lis[k][i]
      /\ \A j \in Kinds : j # k => lis'[j] = lis[j]
  BY <1>2, <1>3, <1>4, <1>5
<1>7. \A j \in Kinds : Len(lis[j]) <= Len(lis'[j])
        /\ \A i \in 1 .. Len(lis[j]) : i \in 1 .. Len(lis'[j]) /\ lis'[j][i] = lis[j][i]
  <2> SUFFICES ASSUME NEW j \in Kinds
               PROVE  Len(lis[j]) <= Len(lis'[j])
                      /\ \A i \in 1 .. Len(lis[j]) : i \in 1 .. Len(lis'[j]) /\ lis'[j][i] = lis[j][i]
    OBVIOUS
  <2>1. Len(lis[j]) \in Nat BY <1>1, ListType
  <2>2. CASE j = k BY <1>4, <1>6, <2>2 DEF n
  <2>3. CASE j # k BY <1>6, <2>1, <2>3
  <2> QED BY <2>2, <2>3
<1>8. Top' = Top BY <1>2 DEF Top
<1>9. \A m \in Listeners : KindOf[m] \in Kinds BY StreamAssumption
<1>10. \A m \in Listeners : m # l => member'[m] = member[m] /\ since'[m] = since[m]
  BY <1>1, <1>2 DEF TypeOK
<1>11. since'[l] = Len(log) /\ member'[l] = "on" BY <1>1, <1>2 DEF TypeOK
<1>12. WalksLast'
  <2> SUFFICES ASSUME stack # <<>> PROVE Top.len <= Len(lis'[Top.list])
    BY <1>2, <1>8 DEF HearInv, WalksLast
  <2>1. Top.list \in Kinds /\ Top.len \in Nat /\ Len(lis[Top.list]) \in Nat BY <1>1, WalkTyped
  <2>2. Top.len <= Len(lis[Top.list]) BY DEF HearInv, WalksLast
  <2>3. Len(lis[Top.list]) <= Len(lis'[Top.list]) BY <1>7, <2>1
  <2>4. Len(lis'[Top.list]) \in Nat
    BY <1>4, <1>6, <2>1
  <2> QED BY <2>1, <2>2, <2>3, <2>4
<1>13. Listed'
  <2> SUFFICES ASSUME closed = "open" \/ stack # <<>>, NEW m \in Listeners, member'[m] = "on"
               PROVE  InList(m)'
    BY <1>2 DEF Listed
  <2>1. CASE m = l
    <3>1. n + 1 \in 1 .. Len(lis'[k]) BY <1>4, <1>6
    <3> QED BY <1>6, <2>1, <3>1 DEF InList, k
  <2>2. CASE m # l
    <3>1. PICK i \in 1 .. Len(lis[KindOf[m]]) : lis[KindOf[m]][i] = m
      BY <1>10, <2>2 DEF HearInv, Listed, InList
    <3> QED BY <1>7, <1>9, <3>1 DEF InList
  <2> QED BY <2>1, <2>2
<1>14. ListenersReleased'
  <2> SUFFICES ASSUME closed # "open", stack = <<>>, NEW j \in Kinds, NEW i \in 1 .. Len(lis'[j])
               PROVE  since'[lis'[j][i]] = Len(log)
    <3>1. \A j \in Kinds : DOMAIN lis'[j] = 1 .. Len(lis'[j])
      BY <1>1, AddLisType, ListType DEF TypeOK
    <3> QED BY <1>2, <3>1 DEF ListenersReleased
  <2>1. CASE j # k \/ i \in 1 .. n
    <3>1. i \in 1 .. Len(lis[j]) /\ lis'[j][i] = lis[j][i] /\ lis[j][i] \in Listeners
      <4>1. i \in 1 .. Len(lis[j]) BY <1>6, <2>1 DEF n
      <4> QED BY <1>1, <1>7, <4>1, ListType
    <3>2. DOMAIN lis[j] = 1 .. Len(lis[j]) BY <1>1, ListType
    <3>3. since[lis[j][i]] = Len(log) BY <3>1, <3>2 DEF HearInv, ListenersReleased
    <3> QED BY <1>10, <1>11, <3>1, <3>3
  <2>2. CASE j = k /\ i = n + 1 BY <1>6, <1>11, <2>2
  <2> QED BY <1>4, <1>6, <2>1, <2>2
<1>15. ASSUME NEW m \in Listeners, m # l
       PROVE  Waits(m)' <=> Waits(m)
  <2> SUFFICES ASSUME stack # <<>> PROVE Waits(m)' <=> Waits(m) BY <1>2 DEF Waits
  <2>1. Top.list \in Kinds /\ Top.len \in Nat /\ Len(lis[Top.list]) \in Nat BY <1>1, WalkTyped
  <2>2. Top.len <= Len(lis[Top.list]) BY DEF HearInv, WalksLast
  <2>3. \A i \in 1 .. Top.len : lis'[Top.list][i] = lis[Top.list][i]
    <3>1. \A i \in 1 .. Top.len : i \in 1 .. Len(lis[Top.list]) BY <2>1, <2>2
    <3> QED BY <1>7, <2>1, <3>1
  <2> QED BY <1>2, <1>8, <2>3 DEF Waits
<1>16. heard[l] = <<>> /\ Len(heard[l]) = 0 BY <1>2 DEF EndInv, NewUnheard
<1>17. ASSUME NEW m \in Listeners
       PROVE  since'[m] <= Len(log') /\ InOrder(m)'
  <2>1. InOrder(m)' BY <1>2 DEF HearInv, InOrder
  <2>2. since'[m] <= Len(log')
    <3>1. CASE m = l BY <1>2, <1>4, <1>11, <3>1
    <3>2. CASE m # l BY <1>2, <1>10, <3>2 DEF HearInv
    <3> QED BY <3>1, <3>2
  <2> QED BY <2>1, <2>2
<1>18. ASSUME NEW m \in Listeners, member'[m] = "on"
       PROVE  HeardUpTo(m, IF Waits(m) THEN Len(log) - 1 ELSE Len(log))'
  <2>1. CASE m = l
    <3>1. \A i : ~HeardIt(l, i)' BY <1>2, <1>16 DEF HeardIt
    <3>2. \A i \in Positions : i \in Nat /\ i <= Len(log) BY <1>4 DEF Positions
    <3>3. \A i \in Positions : /\ ~(Len(log) + 1 <= i /\ i <= Len(log))
                               /\ ~(Len(log) + 1 <= i /\ i <= Len(log) - 1)
      BY <1>4, <3>2
    <3> QED BY <1>2, <1>11, <2>1, <3>1, <3>3 DEF HeardUpTo, Positions
  <2>2. CASE m # l
    <3>1. HeardUpTo(m, IF Waits(m) THEN Len(log) - 1 ELSE Len(log))
      BY <1>10, <1>18, <2>2 DEF HearInv, Hears
    <3>2. (Waits(m)' <=> Waits(m)) /\ since'[m] = since[m] BY <1>10, <1>15, <2>2
    <3> QED BY <1>2, <3>1, <3>2 DEF HeardUpTo, HeardIt, IsFor, Positions
  <2> QED BY <2>1, <2>2
<1>19. Hears' BY <1>18 DEF Hears
<1> QED BY <1>12, <1>13, <1>14, <1>17, <1>19 DEF HearInv

\* A callback is removed between emissions: the others stay in their lists.
LEMMA RemoveLisKeepsHears ==
    ASSUME ~disturbed', EndInv, HearInv, NEW l \in Listeners, RemoveLis(l) PROVE HearInv'
<1>1. TypeOK BY DEF EndInv
<1>2. /\ stack = <<>> /\ stack' = <<>> /\ member' = [member EXCEPT ![l] = "removed"]
      /\ UNCHANGED <<closed, log, heard, since>>
  BY DEF RemoveLis
<1>3. \A m \in Listeners : member'[m] = "on" => m # l /\ member[m] = "on"
  BY <1>1, <1>2 DEF TypeOK
<1>4. WalksLast' BY <1>2 DEF HearInv, WalksLast
<1>5. Listed'
  <2> SUFFICES ASSUME closed = "open", NEW m \in Listeners, member'[m] = "on"
               PROVE  InList(m)'
    BY <1>2 DEF Listed
  <2>1. PICK i \in 1 .. Len(lis[KindOf[m]]) : lis[KindOf[m]][i] = m
    BY <1>3 DEF HearInv, Listed, InList
  <2>2. KindOf[m] \in Kinds BY StreamAssumption
  <2> QED BY <1>3, <2>1, <2>2, ListsAfterRemoval DEF InList
<1>6. ListenersReleased'
  <2>1. \A j \in Kinds : DOMAIN lis'[j] = 1 .. Len(lis'[j]) /\ DOMAIN lis[j] = 1 .. Len(lis[j])
    BY <1>1, RemoveLisType, ListType DEF TypeOK
  <2> SUFFICES ASSUME closed # "open", NEW j \in Kinds, NEW i \in 1 .. Len(lis'[j])
               PROVE  since[lis'[j][i]] = Len(log)
    BY <1>2, <2>1 DEF ListenersReleased
  <2>2. PICK h \in 1 .. Len(lis[j]) : lis'[j][i] = lis[j][h]
    BY ListsAfterRemoval
  <2> QED BY <1>2, <2>1, <2>2 DEF HearInv, ListenersReleased
<1>7. Hears'
  <2> SUFFICES ASSUME NEW m \in Listeners, member'[m] = "on"
               PROVE  HeardUpTo(m, IF Waits(m) THEN Len(log) - 1 ELSE Len(log))'
    BY DEF Hears
  <2>1. ~Waits(m) /\ ~Waits(m)' BY <1>2 DEF Waits
  <2>2. HeardUpTo(m, Len(log)) BY <1>3, <2>1 DEF HearInv, Hears
  <2> QED BY <1>2, <2>1, <2>2, SMTT(30) DEF HeardUpTo, HeardIt, IsFor, Positions
<1>8. \A m \in Listeners : since'[m] <= Len(log') /\ InOrder(m)'
  BY <1>2 DEF HearInv, InOrder
<1> QED BY <1>4, <1>5, <1>6, <1>7, <1>8 DEF HearInv

\* Once disturbed, always disturbed.
LEMMA StaysDisturbed == ASSUME EndInv, [Next]_vars, ~disturbed' PROVE ~disturbed
<1>1. CASE NotifyNext
  BY <1>1 DEF NotifyNext, NotifyMessage, NotifyError, NotifyComplete, Emit, Send
<1>2. CASE CallListener \/ ListenerReturns \/ ThenNextListeners
  BY <1>2 DEF CallListener, ListenerReturns, ThenNextListeners, lisVars
<1>3. CASE NotifyReturns \/ ListenerThrows BY <1>3 DEF NotifyReturns, ListenerThrows
<1>4. ASSUME NEW l \in Listeners, AddLis(l) \/ RemoveLis(l) PROVE ~disturbed
  BY <1>4 DEF AddLis, RemoveLis
<1>5. ASSUME NEW c \in Loops, AsyncIterator(c) \/ IteratorNext(c) \/ LoopBreaks(c)
      PROVE  ~disturbed
  BY <1>5 DEF AsyncIterator, IteratorNext, LoopBreaks, lisVars
<1>6. CASE UNCHANGED vars BY <1>6 DEF vars
<1> QED BY <1>1, <1>2, <1>3, <1>4, <1>5, <1>6 DEF Next

LEMMA HearInvStep == EndInv /\ (disturbed \/ HearInv) /\ [Next]_vars => (disturbed \/ HearInv)'
<1> SUFFICES ASSUME ~disturbed', EndInv, HearInv, [Next]_vars PROVE HearInv'
  BY StaysDisturbed
<1>1. CASE NotifyNext
  <2>1. "msg" \in Emissions /\ "err" \in Emissions /\ "cmp" \in Emissions
    BY DEF Emissions, Kinds
  <2>2. CASE NotifyMessage BY <2>1, <2>2, EmitKeepsHears DEF NotifyMessage
  <2>3. CASE NotifyError BY <2>1, <2>3, EmitKeepsHears DEF NotifyError
  <2>4. CASE NotifyComplete BY <2>1, <2>4, EmitKeepsHears DEF NotifyComplete
  <2> QED BY <1>1, <2>2, <2>3, <2>4 DEF NotifyNext
<1>2. CASE CallListener BY <1>2, CallListenerKeepsHears
<1>3. CASE ListenerReturns BY <1>3, ListenerReturnsKeepsHears
<1>4. CASE ThenNextListeners BY <1>4, ThenNextListenersKeepsHears
<1>5. CASE NotifyReturns BY <1>5, NotifyReturnsKeepsHears
<1>6. CASE ListenerThrows BY <1>6 DEF ListenerThrows
<1>7. ASSUME NEW l \in Listeners, AddLis(l) \/ RemoveLis(l) PROVE HearInv'
  BY <1>7, AddLisKeepsHears, RemoveLisKeepsHears
<1>8. ASSUME NEW c \in Loops, AsyncIterator(c) \/ IteratorNext(c) \/ LoopBreaks(c)
      PROVE  HearInv'
  <2>1. UNCHANGED <<closed, stack, log, heard>> /\ UNCHANGED lisVars
    BY <1>8 DEF AsyncIterator, IteratorNext, LoopBreaks
  <2> QED BY <2>1, LoopsKeepHears
<1>9. CASE UNCHANGED vars
  <2>1. UNCHANGED <<closed, stack, log, heard>> /\ UNCHANGED lisVars
    BY <1>9 DEF vars, lisVars
  <2> QED BY <2>1, LoopsKeepHears
<1> QED BY <1>1, <1>2, <1>3, <1>4, <1>5, <1>6, <1>7, <1>8, <1>9 DEF Next

\* Between emissions nobody waits: everybody has heard what is for him.
LEMMA AllHaveHeard == EndInv /\ (disturbed \/ HearInv) => ListenersServed
<1> SUFFICES ASSUME EndInv, HearInv PROVE EveryListenerHears /\ ListenersReleased
  BY DEF ListenersServed
<1>1. TypeOK BY DEF EndInv
<1>2. ASSUME stack = <<>>, NEW l \in Listeners, member[l] = "on"
      PROVE  \E from \in {since[l], since[l] + 1} : HeardInOrder(l, Relevant(l, from))
  <2>1. ~Waits(l) BY <1>2 DEF Waits
  <2>2. PICK from \in {since[l], since[l] + 1} : \A i \in Positions :
          HeardIt(l, i) <=> from <= i /\ i <= Len(log) /\ IsFor(l, i)
    BY <1>2, <2>1 DEF HearInv, Hears, HeardUpTo
  <2>3. from \in Nat /\ Len(log) \in Nat BY <1>1 DEF TypeOK
  <2>4. /\ DOMAIN heard[l] = 1 .. Len(heard[l])
        /\ \A j \in 1 .. Len(heard[l]) : heard[l][j] \in Positions
    BY <1>1, HeardType
  <2>5. \A i : i \in Range(heard[l]) <=> i \in Positions /\ HeardIt(l, i)
    BY <2>4 DEF Range, HeardIt
  <2>6. \A i : i \in Relevant(l, from) <=> i \in Positions /\ from <= i /\ IsFor(l, i)
    BY <2>3 DEF Relevant, IsFor, Positions
  <2>7. \A i \in Positions : i <= Len(log) BY <2>3 DEF Positions
  <2>8. Range(heard[l]) = Relevant(l, from) BY <2>2, <2>5, <2>6, <2>7
  <2>9. \A i, j \in DOMAIN heard[l] : i < j => heard[l][i] < heard[l][j]
    BY <2>4 DEF HearInv, InOrder
  <2> QED BY <2>8, <2>9 DEF HeardInOrder
<1>3. EveryListenerHears BY <1>2 DEF EveryListenerHears
<1> QED BY <1>3 DEF HearInv

(* A callback misses no emission and hears none twice, for any number of     *)
(* callbacks that come and go between emissions and of callbacks that are    *)
(* registered while one is under way; the notify call that closes the stream *)
(* lets all of them go. It is so until a callback has disturbed the stream.  *)
THEOREM EveryoneIsServed == Spec => []ListenersServed
<1>1. Spec => []IteratorInv BY InitIterator, IteratorStep, PTL DEF Spec
<1>2. Spec => []EndInv BY <1>1, EndInvInit, EndInvStep, PTL DEF Spec
<1>3. EndInv /\ (disturbed \/ HearInv) /\ [Next]_vars => (disturbed \/ HearInv)'
  BY HearInvStep
<1>4. Spec => [](disturbed \/ HearInv) BY <1>2, <1>3, HearInvInit, PTL DEF Spec
<1> QED BY <1>2, <1>4, AllHaveHeard, PTL
=============================================================================
