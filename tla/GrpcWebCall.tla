---------------------------- MODULE GrpcWebCall ----------------------------
(* GrpcWebFetchTransport.serverStreaming: a fetch, the promise chain that    *)
(* reads the response (header, body, finish, catch), the deferred promises   *)
(* of the ServerStreamingCall, and the RpcOutputStream the chain feeds.      *)
(* The stream is the one of RpcOutputStream; here it has the transport as    *)
(* its only source, while callbacks and `for await` loops stay the reader's. *)
EXTENDS RpcOutputStream, GrpcWebResponse

VARIABLES
    pc,            \* where the promise chain is
    def,           \* defHeader, defStatus, defTrailer: Deferred, by name
    maybeStatus,   \* the code of maybeStatus, "none" while undefined
    maybeTrailer,  \* has a trailer been read?
    emptyBody,     \* responseEmptyBody
    thrown,        \* the code of the error on its way to catch
    headerCode,    \* history: the status read from the response header
    frames,        \* history: data frames the body has had so far
    ending,        \* history: how the body ended
    lost           \* history: has a callback thrown out of the notify call that
                   \* closed the stream?

callVars == <<pc, def, maybeStatus, maybeTrailer, emptyBody, thrown,
              headerCode, frames, ending, lost>>
allVars == <<vars, callVars>>

Deferreds == {"header", "status", "trailer"}

\* "dispatch", "completing" and "failing" are inside a notify call of the
\* stream; in "broken" the catch handler itself has thrown.
PCs == {"idle", "refused", "fetch", "body", "dispatch", "finish", "completing",
        "catch", "failing", "settled", "broken"}

CallInit ==
    /\ Init
    /\ pc = "idle"
    /\ def = [d \in Deferreds |-> "pending"]
    /\ maybeStatus = "none" /\ maybeTrailer = FALSE /\ emptyBody = TRUE
    /\ thrown = "none"
    /\ headerCode = "unread" /\ frames = 0 /\ ending = "open"
    /\ lost = FALSE

-----------------------------------------------------------------------------
\* Deferred.resolve: throws unless pending; the chain only resolves pending ones.
Resolve(ds) == def' = [d \in Deferreds |-> IF d \in ds THEN "resolved" ELSE def[d]]

\* Deferred.rejectPending: ignored unless pending.
RejectPending(ds) ==
    def' = [d \in Deferreds |->
              IF d \in ds /\ def[d] = "pending" THEN "rejected" ELSE def[d]]

\* An error leaves its handler and is on its way to catch.
Throw(code) == pc' = "catch" /\ thrown' = code

-----------------------------------------------------------------------------
\* serverStreaming() is called. A timeout that has already passed throws
\* before there is a call.
Start ==
    /\ pc = "idle" /\ stack = <<>>
    /\ \E expired \in BOOLEAN : pc' = IF expired THEN "refused" ELSE "fetch"
    /\ UNCHANGED vars
    /\ UNCHANGED <<def, maybeStatus, maybeTrailer, emptyBody, thrown, headerCode,
                   frames, ending, lost>>

\* What the first handler makes of the code it has read.
AfterHeader(code) ==
    \/ /\ code \in {"none", "OK"}
       /\ pc' = "body"
       /\ maybeStatus' = code
       /\ UNCHANGED thrown
    \/ /\ code \notin {"none", "OK"}
       /\ Throw(code)
       /\ UNCHANGED maybeStatus

\* What the first handler resolves, whatever the status is.
ResolvedFirst == {"header"}

\* fetch resolves and the first handler reads the header.
OnResponse ==
    /\ pc = "fetch" /\ stack = <<>>
    /\ \E httpOk \in BOOLEAN, s \in HeaderStatus : \E code \in ReadHeader(httpOk, s) :
         /\ Resolve(ResolvedFirst)
         /\ headerCode' = code
         /\ AfterHeader(code)
    /\ UNCHANGED vars
    /\ UNCHANGED <<maybeTrailer, emptyBody, frames, ending, lost>>

\* fetch fails (a network error, or an abort), or gives an error response:
\* nothing has been read.
OnFetchError ==
    /\ pc = "fetch" /\ stack = <<>>
    /\ \E code \in {"INTERNAL", "CANCELLED", "UNKNOWN"} : Throw(code)
    /\ UNCHANGED vars
    /\ UNCHANGED <<def, maybeStatus, maybeTrailer, emptyBody, headerCode, frames, ending, lost>>

\* A data frame that parses: the stream emits the message.
OnDataFrame ==
    /\ pc = "body" /\ stack = <<>>
    /\ frames < MaxMessages
    /\ NotifyMessage
    /\ pc' = "dispatch"
    /\ frames' = frames + 1
    /\ UNCHANGED <<def, maybeStatus, maybeTrailer, emptyBody, thrown, headerCode, ending, lost>>

\* notifyMessage has returned.
AfterMessage ==
    /\ pc = "dispatch" /\ stack = <<>>
    /\ pc' = "body"
    /\ emptyBody' = FALSE
    /\ UNCHANGED vars
    /\ UNCHANGED <<def, maybeStatus, maybeTrailer, thrown, headerCode, frames, ending, lost>>

\* A missing body or an unknown content type, a frame that does not parse, a
\* body that ends in the middle of a frame, a connection that breaks, an abort.
OnBodyError ==
    /\ pc = "body" /\ stack = <<>>
    /\ \E code \in {"INTERNAL", "DATA_LOSS", "CANCELLED"} : Throw(code)
    /\ ending' = "broken"
    /\ UNCHANGED vars
    /\ UNCHANGED <<def, maybeStatus, maybeTrailer, emptyBody, headerCode, frames, lost>>

\* The body ends, with a trailer frame or without one.
OnBodyEnd ==
    /\ pc = "body" /\ stack = <<>>
    /\ pc' = "finish"
    /\ \/ \E s \in HeaderStatus :
            /\ maybeTrailer' = TRUE
            /\ maybeStatus' = ReadTrailer(s)
            /\ ending' = s
       \/ /\ ending' = "eof"
          /\ UNCHANGED <<maybeTrailer, maybeStatus>>
    /\ UNCHANGED vars
    /\ UNCHANGED <<def, emptyBody, thrown, headerCode, frames, lost>>

\* Mutant: a body without a trailer is taken for complete.
VerdictWithoutTrailer ==
    IF maybeStatus = "none" THEN "INTERNAL"
    ELSE IF maybeStatus # "OK" THEN maybeStatus
    ELSE "none"

\* The checks of the third handler; the error it throws, or "none".
Verdict ==
    IF ~maybeTrailer /\ ~emptyBody THEN "DATA_LOSS"
    ELSE IF maybeStatus = "none" THEN "INTERNAL"
    ELSE IF maybeStatus # "OK" THEN maybeStatus
    ELSE "none"

\* Mutant: it waits for a trailer that does not come.
FinishWithTrailer ==
    /\ pc = "finish" /\ stack = <<>> /\ Verdict # "DATA_LOSS"
    /\ \/ Verdict = "none" /\ NotifyComplete /\ pc' = "completing" /\ UNCHANGED thrown
       \/ Verdict # "none" /\ Throw(Verdict) /\ UNCHANGED vars
    /\ UNCHANGED <<def, maybeStatus, maybeTrailer, emptyBody, headerCode, frames, ending, lost>>

\* The third handler up to its notifyComplete, or to its throw.
Finish ==
    /\ pc = "finish" /\ stack = <<>>
    /\ \/ /\ Verdict = "none"
          /\ NotifyComplete
          /\ pc' = "completing"
          /\ UNCHANGED thrown
       \/ /\ Verdict # "none"
          /\ Throw(Verdict)
          /\ UNCHANGED vars
    /\ UNCHANGED <<def, maybeStatus, maybeTrailer, emptyBody, headerCode, frames, ending, lost>>

\* What the third handler resolves once the stream is complete.
ResolvedLast == {"status", "trailer"}

AfterComplete ==
    /\ pc = "completing" /\ stack = <<>>
    /\ Resolve(ResolvedLast)
    /\ pc' = "settled"
    /\ UNCHANGED vars
    /\ UNCHANGED <<maybeStatus, maybeTrailer, emptyBody, thrown, headerCode, frames, ending, lost>>

\* Mutant: the stream is completed whatever the reason.
CatchCompletes ==
    /\ pc = "catch" /\ stack = <<>>
    /\ RejectPending({"header"})
    /\ \/ NotifyComplete /\ pc' = "failing"
       \/ closed # "open" /\ pc' = "broken" /\ UNCHANGED vars
    /\ UNCHANGED <<maybeStatus, maybeTrailer, emptyBody, thrown, headerCode, frames, ending, lost>>

\* The catch handler up to notifyError, which throws on a closed stream.
Catch ==
    /\ pc = "catch" /\ stack = <<>>
    /\ RejectPending({"header"})
    /\ \/ NotifyError /\ pc' = "failing"
       \/ closed # "open" /\ pc' = "broken" /\ UNCHANGED vars
    /\ UNCHANGED <<maybeStatus, maybeTrailer, emptyBody, thrown, headerCode, frames, ending, lost>>

\* The rest of the catch handler.
AfterError ==
    /\ pc = "failing" /\ stack = <<>>
    /\ RejectPending({"status", "trailer"})
    /\ pc' = "settled"
    /\ UNCHANGED vars
    /\ UNCHANGED <<maybeStatus, maybeTrailer, emptyBody, thrown, headerCode, frames, ending, lost>>

-----------------------------------------------------------------------------
(* The reader of the call.                                                   *)

\* Callbacks and loops of the reader, and the dispatch to them. The reader's
\* plain code runs between the handlers of the chain, never inside one.
Reader ==
    /\ \/ CallListener \/ ListenerReturns \/ ThenNextListeners \/ NotifyReturns
       \/ \E l \in Listeners : AddLis(l) \/ RemoveLis(l)
       \/ \E c \in Loops : AsyncIterator(c) \/ IteratorNext(c) \/ LoopBreaks(c)
    /\ pc \notin {"idle", "refused"}
    /\ pc \in {"dispatch", "completing", "failing"} => stack # <<>>
    /\ UNCHANGED callVars

\* A callback throws: the error leaves notify... and arrives in the handler
\* that called it, as an error that is not an RpcError.
ReaderThrows ==
    /\ ListenerThrows
    /\ IF pc = "failing" THEN pc' = "broken" /\ UNCHANGED thrown ELSE Throw("INTERNAL")
    /\ lost' = (lost \/ closed # "open")
    /\ UNCHANGED <<def, maybeStatus, maybeTrailer, emptyBody, headerCode, frames, ending>>

Chain ==
    \/ OnResponse \/ OnFetchError \/ OnDataFrame \/ AfterMessage \/ OnBodyError
    \/ OnBodyEnd \/ Finish \/ AfterComplete \/ Catch \/ AfterError

CallNext == Start \/ Chain \/ Reader \/ ReaderThrows

\* The network answers or fails, and JavaScript runs on; callbacks return.
CallFairness ==
    /\ WF_allVars(Chain)
    /\ WF_allVars(Dispatch /\ (Reader \/ ReaderThrows))
    /\ \A c \in Loops : WF_allVars((IteratorNext(c) \/ LoopBreaks(c)) /\ Reader)

CallSpec == CallInit /\ [][CallNext]_allVars
FairCallSpec == CallSpec /\ CallFairness

-----------------------------------------------------------------------------
(* The chain that runs to its end leaves no promise pending and the stream   *)
(* closed, whatever callbacks have done, and what the promises say and what  *)
(* the stream says is the same: a loop over the responses ends without an    *)
(* error exactly if the status is OK.                                        *)
StreamAgreesWithStatus ==
    pc = "settled" =>
        /\ closed # "open" /\ \A d \in Deferreds : def[d] # "pending"
        /\ closed = "done" <=> def["status"] = "resolved"
        /\ closed = "error" <=> def["status"] = "rejected"
        /\ def["trailer"] = def["status"]

\* What ends the body of a response whose status is OK: a trailer that says
\* so; a trailer without a status, which is taken for OK; or nothing, when the
\* header said OK and there was no message - a trailers-only response, and no
\* less a body that was lost before its first frame.
OkEnding ==
    \/ ending \in {"OK", "none"}
    \/ ending = "eof" /\ frames = 0 /\ headerCode = "OK"

(* No call with a message is OK without a trailer behind its messages, each  *)
(* of which was emitted; and neither header nor trailer reported an error.   *)
OkNeedsTrailer ==
    def["status"] = "resolved" =>
        headerCode \in {"none", "OK"} /\ Len(log) = frames + 1 /\ OkEnding

(* A call that was made is settled at last, and its loops come to an end -   *)
(* only when a callback throws out of the notify call that closes the stream *)
(* may the chain break with status and trailer pending for ever.             *)
CallEnds ==
    /\ pc = "fetch" ~> pc = "settled" \/ (pc = "broken" /\ lost)
    /\ LoopsEnd

-----------------------------------------------------------------------------
\* Callbacks of a small instance: one for messages, the others for every emission.
MessageAndEnds ==
    LET first == CHOOSE l \in Listeners : TRUE IN
    [l \in Listeners |-> IF l = first THEN "msg" ELSE "nxt"]
=============================================================================
