------------------------- MODULE ServerCallContext -------------------------
(* ServerCallContextController of packages/runtime-rpc: the `_cancelled` flag *)
(* and the onCancel callbacks of a call on the server. notifyCancelled walks  *)
(* the live list with for..of, and a callback may change the list meanwhile.  *)
(* There is one context per call; JavaScript runs one notifyCancelled at a    *)
(* time.                                                                      *)
EXTENDS Naturals, SequencesExt

CONSTANTS
    Calls,          \* the calls, each with its context
    Callbacks,      \* the callbacks a method may register, per call
    None,           \* no call is being notified / no callback is running
    CallbackActs    \* what a callback may do to its context while it runs

ASSUME ContextAssumption ==
    /\ None \notin Calls \cup Callbacks
    /\ CallbackActs \subseteq {"add", "remove", "throw"}

VARIABLES
    cancelled,   \* _cancelled of each context
    listeners,   \* _listeners of each context
    firing,      \* the notifyCancelled under way: its call, the place of the
                 \* for..of in the list, and the callback that runs
    \* history
    fired,       \* how often each callback has been called
    member,      \* has a callback been registered, removed?
    disturbed    \* the calls whose notifyCancelled a callback has disturbed

contextVars == <<cancelled, listeners, firing, fired, member, disturbed>>

NotFiring == [call |-> None, pos |-> 0, run |-> None]

ContextInit ==
    /\ cancelled = [c \in Calls |-> FALSE]
    /\ listeners = [c \in Calls |-> <<>>]
    /\ firing = NotFiring
    /\ fired = [c \in Calls |-> [l \in Callbacks |-> 0]]
    /\ member = [c \in Calls |-> [l \in Callbacks |-> "new"]]
    /\ disturbed = {}

\* Plain code runs when no notifyCancelled is under way.
Quiet == firing.call = None

\* The callback of `c` that runs may do `act`; plain code may do anything.
MayCall(c, act) == Quiet \/ (firing.call = c /\ firing.run # None /\ act \in CallbackActs)

\* onCancel: push. There is no look at `_cancelled`.
OnCancel(c, l) ==
    /\ member[c][l] = "new"
    /\ listeners' = [listeners EXCEPT ![c] = Append(@, l)]
    /\ member' = [member EXCEPT ![c][l] =
                    IF ~cancelled[c] THEN "on" ELSE "late"]
    /\ UNCHANGED <<cancelled, firing, fired, disturbed>>

\* The RemoveListenerFn of onCancel: indexOf and splice.
RemoveOnCancel(c, l) ==
    /\ member[c][l] \in {"on", "late"}
    /\ \E i \in DOMAIN listeners[c] :
         /\ listeners[c][i] = l
         /\ listeners' = [listeners EXCEPT ![c] = RemoveAt(@, i)]
         /\ disturbed' = IF firing.call = c /\ i <= firing.pos
                         THEN disturbed \cup {c} ELSE disturbed
    /\ member' = [member EXCEPT ![c][l] = "removed"]
    /\ UNCHANGED <<cancelled, firing, fired>>

\* Mutant: a call may be cancelled again.
AnyTime(c) == \A l \in Callbacks : fired[c][l] <= 1

\* "if (!this._cancelled)"
FirstTime(c) == ~cancelled[c]

\* notifyCancelled begins.
NotifyCancelled(c) ==
    /\ Quiet
    /\ FirstTime(c)
    /\ cancelled' = [cancelled EXCEPT ![c] = TRUE]
    /\ firing' = [call |-> c, pos |-> 0, run |-> None]
    /\ UNCHANGED <<listeners, fired, member, disturbed>>

\* Mutant: the last callback is forgotten.
MoreButLast == firing.pos + 1 < Len(listeners[firing.call])

\* for..of looks at the length of the list before every round.
MoreListeners == firing.pos < Len(listeners[firing.call])

\* The callback whose turn it is.
NextListener == listeners[firing.call][firing.pos + 1]

\* One round of the for..of: a callback begins to run.
CallNextListener ==
    /\ ~Quiet /\ firing.run = None
    /\ MoreListeners
    /\ firing' = [firing EXCEPT !.pos = @ + 1, !.run = NextListener]
    /\ fired' = [fired EXCEPT ![firing.call][NextListener] = @ + 1]
    /\ UNCHANGED <<cancelled, listeners, member, disturbed>>

\* The callback returns.
CallbackReturns ==
    /\ firing.run # None
    /\ firing' = [firing EXCEPT !.run = None]
    /\ UNCHANGED <<cancelled, listeners, fired, member, disturbed>>

\* The callback throws: notifyCancelled is left.
CallbackThrows ==
    /\ firing.run # None /\ "throw" \in CallbackActs
    /\ firing' = NotFiring
    /\ disturbed' = disturbed \cup {firing.call}
    /\ UNCHANGED <<cancelled, listeners, fired, member>>

\* The list is through.
AllNotified ==
    /\ ~Quiet /\ firing.run = None
    /\ ~MoreListeners
    /\ firing' = NotFiring
    /\ UNCHANGED <<cancelled, listeners, fired, member, disturbed>>

ContextNext ==
    \/ \E c \in Calls : NotifyCancelled(c)
    \/ CallNextListener \/ CallbackReturns \/ CallbackThrows \/ AllNotified
    \/ \E c \in Calls, l \in Callbacks :
          \/ MayCall(c, "add") /\ OnCancel(c, l)
          \/ MayCall(c, "remove") /\ RemoveOnCancel(c, l)

ContextSpec == ContextInit /\ [][ContextNext]_contextVars

-----------------------------------------------------------------------------
Firings == [call : Calls \cup {None}, pos : Nat, run : Callbacks \cup {None}]

ContextTypeOK ==
    /\ cancelled \in [Calls -> BOOLEAN]
    /\ listeners \in [Calls -> Seq(Callbacks)]
    /\ firing \in Firings /\ (Quiet => firing = NotFiring)
    /\ fired \in [Calls -> [Callbacks -> Nat]]
    /\ member \in [Calls -> [Callbacks -> {"new", "on", "late", "removed"}]]
    /\ disturbed \subseteq Calls

(* No callback is called twice, whatever it and its neighbours do to the     *)
(* list while notifyCancelled walks over it, and none before the call was    *)
(* cancelled.                                                                *)
CalledOnce ==
    \A c \in Calls, l \in Callbacks :
        /\ fired[c][l] <= 1
        /\ fired[c][l] = 1 => cancelled[c]

(* "Invokes all callbacks registered with onCancel()" (notifyCancelled): a   *)
(* callback that was registered before the call was cancelled, and was not   *)
(* removed, has been called when notifyCancelled returns - unless a callback *)
(* took itself or an earlier one off the list meanwhile, or threw.           *)
AllCallbacksInvoked ==
    \A c \in Calls \ disturbed : cancelled[c] /\ firing.call # c =>
        \A l \in Callbacks : member[c][l] = "on" => fired[c][l] = 1
=============================================================================
