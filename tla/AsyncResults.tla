---------------------------- MODULE AsyncResults ----------------------------
(* What an RpcOutputStream promises to whoever iterates over it, without the *)
(* queue and the promise that implement it: there is ONE sequence of         *)
(* results, next() answers with its elements in order, each once, and waits  *)
(* when it has come to the end of what there is. The sequence numbers the    *)
(* emissions of the stream without a gap, and after the end of the stream it *)
(* can only repeat that end. It does not say which loop asks, nor when that  *)
(* loop began: the doc of the iterator has a loop that begins on a complete  *)
(* stream be empty, while the code lets it read what earlier ones left.      *)
EXTENDS Naturals, Sequences

VARIABLES
    results,   \* everything next() ever answers with, so far
    answered,  \* what next() has answered
    waiting    \* has next() been asked for a result that is not there yet?

abstractVars == <<results, answered, waiting>>

Init == results = <<>> /\ answered = <<>> /\ waiting = FALSE

\* A result after `last`: the emission that follows it, or the same end.
Follows(r, last) ==
    IF last.kind = "msg" THEN r.n = last.n + 1 ELSE r = last

\* A new result, given to the one who waits for it.
Produce(r) ==
    /\ results # <<>> => Follows(r, results[Len(results)])
    /\ results' = Append(results, r)
    /\ answered' = IF waiting THEN Append(answered, r) ELSE answered
    /\ waiting' = FALSE

\* next() is asked, by one caller at a time.
Ask ==
    /\ ~waiting
    /\ IF Len(answered) < Len(results)
       THEN answered' = Append(answered, results[Len(answered) + 1]) /\ waiting' = FALSE
       ELSE answered' = answered /\ waiting' = TRUE
    /\ UNCHANGED results

AbstractNext == Ask \/ \E i \in DOMAIN results' : Produce(results'[i])

AbstractSpec == Init /\ [][AbstractNext]_abstractVars
=============================================================================
