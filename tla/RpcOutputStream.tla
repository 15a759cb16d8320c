-------------------------- MODULE RpcOutputStream --------------------------
(* RpcOutputStreamController of packages/runtime-rpc: one object that a      *)
(* transport feeds (notifyMessage, notifyError, notifyComplete) and that     *)
(* hands every emission to two kinds of readers at once:                     *)
(*   - callbacks, kept in four lists and called synchronously by forEach,    *)
(*     while they may themselves call back into the controller;              *)
(*   - async iterators (`for await` loops), which share ONE queue and ONE    *)
(*     pending promise.                                                      *)
(* An emission is identified by its position in `log`, the order of the      *)
(* notify calls, so that a lost, repeated or reordered one can be told.      *)
EXTENDS Naturals, FiniteSets, SequencesExt

CONSTANTS
    Listeners,     \* the callbacks the readers of the stream own
    KindOf,        \* which of the lists a callback goes to
    Loops,         \* the async iterators (`for await` loops)
    None,          \* no callback running / no promise pending
    ListenerActs,  \* what a callback may do to the controller while it runs
    Overlapping,   \* may a loop start while another one is under way?
    MaxMessages,   \* bound: messages the source emits
    MaxDepth       \* bound: emissions nested in one another by callbacks

\* The keys of `_lis`; all but "nxt" name the kind of emission they are for.
Kinds == {"nxt", "msg", "err", "cmp"}
Emissions == Kinds \ {"nxt"}

ASSUME StreamAssumption ==
    /\ KindOf \in [Listeners -> Kinds]
    /\ IsFiniteSet(Loops)
    /\ None \notin Listeners \cup Loops
    /\ ListenerActs \subseteq {"add", "remove", "notify", "throw"}
    /\ Overlapping \in BOOLEAN
    /\ MaxMessages \in Nat
    /\ MaxDepth \in Nat \ {0}

VARIABLES
    closed,    \* _closed: "open" (false), "done" (true) or "error" (an Error)
    lis,       \* _lis: the callbacks of each kind, in order of registration
    itOn,      \* _itState: has an iterator been acquired?
    p,         \* _itState.p: the loop whose next() is pending, or None
    q,         \* _itState.q: the emissions no next() has asked for yet
    stack,     \* the notify calls under way, the innermost last
    loop,      \* where each `for await` loop is
    \* history, read by the properties only
    log,       \* every emission the controller accepted, in order
    member,    \* has a callback been registered, removed?
    since,     \* Len(log) when it was registered
    heard,     \* the emissions each callback was called with, in order
    acquired,  \* Len(log) when the first iterator was acquired
    cut,       \* has a callback thrown out of the notify call that closed the
               \* stream, into the callback that had made this call?
    disturbed, \* has a callback, from within an emission, removed one, emitted
               \* or thrown?
    late,      \* the loops that started when the stream was closed
    taken      \* the results of next(), in order, with the loop that got each

lisVars  == <<lis, member, since, cut, disturbed>>
itVars   == <<itOn, p, q, loop, taken, acquired, late>>
vars     == <<closed, lis, itOn, p, q, stack, loop, log, member, since,
              heard, cut, disturbed, acquired, late, taken>>

-----------------------------------------------------------------------------
Init ==
    /\ closed = "open"
    /\ lis = [k \in Kinds |-> <<>>]
    /\ itOn = FALSE /\ p = None /\ q = <<>>
    /\ stack = <<>>
    /\ loop = [c \in Loops |-> "idle"]
    /\ log = <<>>
    /\ member = [l \in Listeners |-> "new"]
    /\ since = [l \in Listeners |-> 0]
    /\ heard = [l \in Listeners |-> <<>>]
    /\ cut = FALSE /\ disturbed = FALSE
    /\ acquired = 0 /\ late = {} /\ taken = <<>>

\* The innermost notify call under way.
Top == Last(stack)

\* Is a callback of the innermost emission running?
InCallback == stack # <<>> /\ Top.run # None

\* The controller is called from plain code (no emission under way), or by a
\* callback that is allowed to do `act`.
MayCall(act) == stack = <<>> \/ (InCallback /\ act \in ListenerActs)

-----------------------------------------------------------------------------
(* Readers that register callbacks.                                          *)

\* onNext, onMessage, onError, onComplete: all are addLis on one list.
AddLis(l) ==
    /\ MayCall("add")
    /\ member[l] = "new"
    /\ lis' = [lis EXCEPT ![KindOf[l]] = Append(@, l)]
    /\ member' = [member EXCEPT ![l] = "on"]
    /\ since' = [since EXCEPT ![l] = Len(log)]
    /\ UNCHANGED <<closed, stack, log, heard, cut, disturbed>> /\ UNCHANGED itVars

\* The RemoveListenerFn: indexOf and splice on the live list, which shifts
\* the callbacks behind it one place to the front.
RemoveLis(l) ==
    /\ MayCall("remove")
    /\ member[l] = "on"
    /\ LET list == lis[KindOf[l]] IN
       \/ \E i \in DOMAIN list :
              list[i] = l /\ lis' = [lis EXCEPT ![KindOf[l]] = RemoveAt(list, i)]
       \/ l \notin Range(list) /\ lis' = lis
    /\ member' = [member EXCEPT ![l] = "removed"]
    /\ disturbed' = (disturbed \/ stack # <<>>)
    /\ UNCHANGED <<closed, stack, log, heard, since, cut>> /\ UNCHANGED itVars

-----------------------------------------------------------------------------
(* The iterator side.                                                        *)

\* Where a loop goes with a result: on to its body, or out of the loop.
WithResult(kind) == IF kind = "msg" THEN "body" ELSE "ended"

\* Mutant: the result is queued although a loop waits for one.
PushItQueues(n, kind, loops) ==
    q' = Append(q, n) /\ loop' = loops /\ UNCHANGED <<p, taken>>

\* pushIt, with an iterator state: resolve the pending promise or enqueue.
\* `loops` is where the loops are before the result arrives.
PushIt(n, kind, loops) ==
    \/ /\ p # None
       /\ p' = None
       /\ taken' = Append(taken, [by |-> p, n |-> n])
       /\ loop' = [loops EXCEPT ![p] = WithResult(kind)]
       /\ UNCHANGED q
    \/ /\ p = None
       /\ q' = Append(q, n)
       /\ loop' = loops
       /\ UNCHANGED <<p, taken>>

\* A loop is under way from its start until it ended, broke or failed.
Under(c) == loop[c] \in {"body", "await"}

\* Mutants: the new iterator is not told that the stream is closed; it is told
\* so only when the stream is complete.
NoRepeat(loops) == loop' = loops /\ UNCHANGED <<p, q, taken>>
RepeatDoneOnly(loops) ==
    IF closed # "done" THEN NoRepeat(loops)
    ELSE PushIt(Len(log), log[Len(log)], loops)

\* "we can't let the iterator get stuck": on a closed stream, its end is
\* pushed once more.
RepeatEnd(loops) ==
    IF closed = "open" THEN loop' = loops /\ UNCHANGED <<p, q, taken>>
    ELSE PushIt(Len(log), log[Len(log)], loops)

\* [Symbol.asyncIterator](): creates the shared state, and repeats the end of
\* a closed stream for the new iterator.
AsyncIterator(c) ==
    /\ stack = <<>>
    /\ loop[c] = "idle"
    /\ Overlapping \/ \A d \in Loops : ~Under(d)
    /\ itOn' = TRUE
    /\ acquired' = IF itOn THEN acquired ELSE Len(log)
    /\ late' = IF closed = "open" THEN late ELSE late \cup {c}
    /\ RepeatEnd([loop EXCEPT ![c] = "body"])
    /\ UNCHANGED <<closed, stack, log, heard>> /\ UNCHANGED lisVars

\* Mutant: next() takes the newest result (pop).
TakeNewest(c) ==
    /\ q' = Front(q)
    /\ taken' = Append(taken, [by |-> c, n |-> Last(q)])
    /\ loop' = [loop EXCEPT ![c] = WithResult(log[Last(q)])]

\* "return the oldest result from the queue": shift.
TakeResult(c) ==
    /\ q' = Tail(q)
    /\ taken' = Append(taken, [by |-> c, n |-> Head(q)])
    /\ loop' = [loop EXCEPT ![c] = WithResult(log[Head(q)])]

\* next(): throws while a promise is pending, takes the oldest result of the
\* queue, or leaves a promise.
IteratorNext(c) ==
    /\ stack = <<>>
    /\ loop[c] = "body"
    /\ \/ /\ p # None
          /\ loop' = [loop EXCEPT ![c] = "failed"]
          /\ UNCHANGED <<p, q, taken>>
       \/ p = None /\ q # <<>> /\ TakeResult(c) /\ UNCHANGED p
       \/ /\ p = None /\ q = <<>>
          /\ p' = c
          /\ loop' = [loop EXCEPT ![c] = "await"]
          /\ UNCHANGED <<q, taken>>
    /\ UNCHANGED <<closed, stack, log, heard, itOn, acquired, late>>
    /\ UNCHANGED lisVars

\* `break` in the body of the loop; the iterator has no return() method, the
\* shared state stays as it is.
LoopBreaks(c) ==
    /\ stack = <<>>
    /\ loop[c] = "body"
    /\ loop' = [loop EXCEPT ![c] = "broke"]
    /\ UNCHANGED <<closed, stack, log, heard, itOn, p, q, taken, acquired, late>>
    /\ UNCHANGED lisVars

-----------------------------------------------------------------------------
(* The source of the stream.                                                 *)

\* Mutant: the emission is numbered one too high.
ForEachNext(n, list) ==
    [n |-> n + 1, list |-> list, pos |-> 0, len |-> Len(lis[list]), run |-> None]

\* A forEach that has not called anything yet: it fixes the length it will go
\* to, but reads the list itself anew for every call.
ForEach(n, list) ==
    [n |-> n, list |-> list, pos |-> 0, len |-> Len(lis[list]), run |-> None]

\* What the three notify methods have in common: push for the iterators, enter
\* the forEach over the list of the kind.
Send(kind, newClosed) ==
    /\ MayCall("notify") /\ Len(stack) < MaxDepth
    /\ closed' = newClosed
    /\ log' = Append(log, kind)
    /\ IF itOn THEN PushIt(Len(log) + 1, kind, loop)
               ELSE UNCHANGED <<p, q, taken, loop>>
    /\ stack' = Append(stack, ForEach(Len(log) + 1, kind))
    /\ disturbed' = (disturbed \/ stack # <<>>)
    /\ UNCHANGED <<heard, itOn, acquired, late, lis, member, since, cut>>

\* assert(!this.closed), then send.
Emit(kind, newClosed) == closed = "open" /\ Send(kind, newClosed)

NotifyMessage == Len(log) < MaxMessages /\ Emit("msg", "open")
NotifyError == Emit("err", "error")
NotifyComplete == Emit("cmp", "done")

\* notifyNext hands its arguments on to exactly one of the three.
NotifyNext == NotifyMessage \/ NotifyError \/ NotifyComplete

SetTop(frame) == stack' = [stack EXCEPT ![Len(stack)] = frame]

\* Mutant: the last callback of the list is forgotten.
MoreButOne == Top.pos + 1 < Top.len /\ Top.pos < Len(lis[Top.list])

\* Has the innermost forEach another callback to call? An index the list no
\* longer has is skipped.
MoreToCall == Top.pos < Top.len /\ Top.pos < Len(lis[Top.list])

\* One call `l => l(...)` of the innermost forEach begins.
CallListener ==
    /\ stack # <<>> /\ Top.run = None
    /\ MoreToCall
    /\ LET l == lis[Top.list][Top.pos + 1] IN
       /\ SetTop([Top EXCEPT !.pos = @ + 1, !.run = l])
       /\ heard' = [heard EXCEPT ![l] = Append(@, Top.n)]
    /\ UNCHANGED <<closed, log>> /\ UNCHANGED lisVars /\ UNCHANGED itVars

\* The callback returns to forEach.
ListenerReturns ==
    /\ InCallback
    /\ SetTop([Top EXCEPT !.run = None])
    /\ UNCHANGED <<closed, log, heard>> /\ UNCHANGED lisVars /\ UNCHANGED itVars

\* The list of the kind is through: the forEach over `_lis.nxt` begins.
ThenNextListeners ==
    /\ stack # <<>> /\ Top.run = None
    /\ ~MoreToCall /\ Top.list # "nxt"
    /\ SetTop(ForEach(Top.n, "nxt"))
    /\ UNCHANGED <<closed, log, heard>> /\ UNCHANGED lisVars /\ UNCHANGED itVars

\* Mutant: the lists stay.
KeepLis == lis

\* clearLis: all lists are emptied.
ClearLis == [k \in Kinds |-> <<>>]

\* The notify call returns; the closing ones clear all lists first (clearLis).
NotifyReturns ==
    /\ stack # <<>> /\ Top.run = None
    /\ ~MoreToCall /\ Top.list = "nxt"
    /\ lis' = IF log[Top.n] = "msg" THEN lis ELSE ClearLis
    /\ stack' = Front(stack)
    /\ UNCHANGED <<closed, log, heard, member, since, cut, disturbed>> /\ UNCHANGED itVars

\* The callback throws: forEach and the notify method are left at once,
\* clearLis included. A callback that made that notify call may catch.
ListenerThrows ==
    /\ InCallback
    /\ "throw" \in ListenerActs
    /\ stack' = Front(stack)
    /\ cut' = (cut \/ (log[Top.n] # "msg" /\ Len(stack) > 1))
    /\ disturbed' = TRUE
    /\ UNCHANGED <<closed, log, heard, lis, member, since>> /\ UNCHANGED itVars

-----------------------------------------------------------------------------
Dispatch == \/ CallListener \/ ListenerReturns \/ ThenNextListeners
            \/ NotifyReturns \/ ListenerThrows

Next ==
    \/ NotifyNext
    \/ CallListener
    \/ ListenerReturns
    \/ ThenNextListeners
    \/ NotifyReturns
    \/ ListenerThrows
    \/ \E l \in Listeners : AddLis(l) \/ RemoveLis(l)
    \/ \E c \in Loops : AsyncIterator(c) \/ IteratorNext(c) \/ LoopBreaks(c)

Spec == Init /\ [][Next]_vars

\* Synchronous code runs on to its end, a started loop keeps calling next(),
\* and the source closes its stream at last.
Fairness ==
    /\ WF_vars(Dispatch)
    /\ \A c \in Loops : WF_vars(IteratorNext(c) \/ LoopBreaks(c))
    /\ WF_vars(stack = <<>> /\ (NotifyError \/ NotifyComplete))

FairSpec == Spec /\ Fairness
-----------------------------------------------------------------------------
Positions == 1 .. Len(log)

Frame == [n : Positions, list : Kinds, pos : Nat, len : Nat,
          run : Listeners \cup {None}]

\* The state the code can be in has the shape the declarations give it.
TypeOK ==
    /\ closed \in {"open", "done", "error"}
    /\ lis \in [Kinds -> Seq(Listeners)]
    /\ itOn \in BOOLEAN /\ p \in Loops \cup {None} /\ q \in Seq(Positions)
    /\ stack \in Seq(Frame)
    /\ loop \in [Loops -> {"idle", "body", "await", "ended", "broke", "failed"}]
    /\ log \in Seq(Emissions)
    /\ member \in [Listeners -> {"new", "on", "removed"}]
    /\ since \in [Listeners -> Nat]
    /\ heard \in [Listeners -> Seq(Positions)]
    /\ cut \in BOOLEAN /\ disturbed \in BOOLEAN
    /\ acquired \in 0 .. Len(log)
    /\ late \subseteq Loops
    /\ taken \in Seq([by : Loops, n : Positions])

(* How many results were pushed for the iterators, and the i-th of them:     *)
(* every emission since the first iterator was acquired, then the end again  *)
(* for each iterator acquired on the closed stream.                          *)
PushCount == IF itOn THEN Len(log) - acquired + Cardinality(late) ELSE 0
Pushed(i) == IF acquired + i <= Len(log) THEN acquired + i ELSE Len(log)

\* Taken results and queue are together what was pushed, in that order.
PushedInOrder ==
    /\ Len(taken) + Len(q) = PushCount
    /\ \A i \in DOMAIN taken : taken[i].n = Pushed(i)
    /\ \A i \in DOMAIN q : q[i] = Pushed(Len(taken) + i)

\* The emissions that next() has answered with or will, in the order it does.
Handed == 1 .. Len(taken) + Len(q)
Result(i) == IF i <= Len(taken) THEN taken[i].n ELSE q[i - Len(taken)]

\* The readers iterate over the stream while it is open, or go on from then.
ReadOpen == late = {} \/ \E c \in Loops \ late : Under(c)

(* However emissions, loops and breaks interleave, a message reaches the     *)
(* loops once, and behind all earlier ones; and while the loops that began   *)
(* on the open stream read on, every emission since the first of them began  *)
(* is taken or waits in `q`. What becomes of the rest when only loops are    *)
(* left that began on a closed stream is not said: the code gives it to them. *)
IteratorFifo ==
    /\ \A i, j \in Handed : i < j =>
           Result(i) < Result(j) \/ (late # {} /\ Result(i) = Result(j) /\ Result(i) = Len(log))
    /\ itOn /\ ReadOpen => acquired + 1 .. Len(log) \subseteq {Result(i) : i \in Handed}
    /\ late = {} => \A i \in Handed : Result(i) > acquired

(* pushIt and next() never leave a promise pending beside a queued result:   *)
(* the waiting loop would be overtaken by the next emission.                 *)
PendingMeansDrained == p # None => q = <<>> /\ loop[p] = "await"

\* A position of the log as a result of next().
AsResult(n) == [n |-> n, kind |-> log[n]]

\* What next() ever answers with, and what it has answered.
Results == [i \in 1 .. PushCount |-> AsResult(Pushed(i))]
Answers == [i \in DOMAIN taken |-> AsResult(taken[i].n)]

(* Queue, promise and shared iterator state implement one sequence of        *)
(* numbered results that every next() reads on from.                         *)
Abstract == INSTANCE AsyncResults WITH
    results <- Results, answered <- Answers, waiting <- p # None

ImplementsAsyncResults == Abstract!AbstractSpec

\* The emissions a callback is for, from a position on.
Relevant(l, from) == {i \in Positions : i >= from /\ KindOf[l] \in {"nxt", log[i]}}

\* A callback was called with these emissions, with each once and in order.
HeardInOrder(l, emissions) ==
    /\ Range(heard[l]) = emissions
    /\ \A i, j \in DOMAIN heard[l] : i < j => heard[l][i] < heard[l][j]

\* When no notify call is under way, a callback that has not been removed was
\* called once for each emission of its kind since it was registered, in order;
\* one registered by a callback may also see the emission under way.
EveryListenerHears ==
    stack = <<>> =>
        \A l \in Listeners : member[l] = "on" =>
            \E from \in {since[l], since[l] + 1} : HeardInOrder(l, Relevant(l, from))

(* A callback is not called any more once it was told that the stream ended, *)
(* also when a callback closes the stream in the middle of an emission - only *)
(* when a callback throws out of that closing, so that the lists stay, may   *)
(* the message that was under way follow the end. Nobody is told twice.      *)
NothingAfterEnd ==
    \A l \in Listeners : \A i, j \in DOMAIN heard[l] :
        i < j => log[heard[l][i]] = "msg" \/ (cut /\ log[heard[l][j]] = "msg")

\* The lists of a closed stream hold only callbacks that came too late.
ListenersReleased ==
    closed # "open" /\ stack = <<>> =>
        \A k \in Kinds : \A i \in DOMAIN lis[k] : since[lis[k][i]] = Len(log)

(* "Add a callback for every new message" (RpcOutputStream): a callback      *)
(* misses no emission while the stream is open, hears none twice, and is let *)
(* go by the notify call that closes the stream - as long as no callback,    *)
(* called by forEach, removes one (the live list shifts under the forEach,   *)
(* which skips the next), emits, or throws.                                  *)
ListenersServed == ~disturbed => EveryListenerHears /\ ListenersReleased

\* A waiting loop, and another one of those that shared the end has taken it.
OtherTookEnd(c) ==
    loop[c] = "await" /\ \E d \in Loops \ late : d # c /\ loop[d] = "ended"

(* A `for await` loop comes to its end on a stream whose source closes it,   *)
(* also one that begins on the closed stream - unless several were under way *)
(* when it closed: they share one end, and while one of them has taken it,   *)
(* the others wait.                                                          *)
LoopsEnd == \A c \in Loops : Under(c) ~> ~Under(c) \/ OtherTookEnd(c)
=============================================================================
