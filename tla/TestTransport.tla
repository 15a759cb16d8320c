---------------------------- MODULE TestTransport ----------------------------
(* TestTransport of packages/runtime-rpc: calls that are answered from mock  *)
(* data by chains of promises with delays, which an abort signal races. A    *)
(* chain forks (status and trailers wait for the responses, each on its own) *)
(* and, for streaming methods, feeds an RpcOutputStream; the messages a      *)
(* client streams go to a TestInputStream of the same transport.             *)
(*                                                                           *)
(* `at` is the delay the chain waits in. Its timer fires and what follows    *)
(* runs before any other code does: that is one step. An abort only rejects  *)
(* the promise of the delay, what follows runs later (RejectsAt).            *)
EXTENDS RpcOutputStream

CONSTANTS
    CallKinds,   \* the methods of the transport that are called
    MaxInputs    \* bound: messages the client sends

ASSUME TestTransportAssumption ==
    /\ CallKinds \subseteq {"unary", "serverStreaming", "clientStreaming", "duplex"}
    /\ MaxInputs \in Nat

VARIABLES
    kind,       \* the method of the call
    mock,       \* TestTransportMockData: what each part is mocked with
    signal,     \* options.abort: "quiet" (or absent) or "aborted"
    at,         \* where the chain is
    promise,    \* the promises of the call, by name
    sends,      \* the promises of send() and, last, of complete()
    jobs,       \* those of them whose first handler has not run, in order
    sentMessages, \* TestInputStream._sent, by number of the send() call
    sendComplete  \* TestInputStream._completed

inputVars == <<sends, jobs, sentMessages, sendComplete>>
transportVars == <<kind, mock, signal, at, promise, inputVars>>
testVars == <<vars, transportVars>>

Streaming == kind \in {"serverStreaming", "duplex"}
HasInput == kind \in {"clientStreaming", "duplex"}

\* What a part of a call is mocked with: a value or an RpcError; for the
\* response also one that `method.O.is` refuses, or any number of messages.
Mocks ==
    {m \in [headers : {"value", "error"}, status : {"value", "error"},
            trailers : {"value", "error"}, input : {"value", "error"},
            response : {"messages", "invalid", "error"}, count : 0 .. MaxMessages] :
        m.response # "messages" => m.count = 0}

Promises == {"headers", "response", "status", "trailers"}

TestInit ==
    /\ Init
    /\ kind \in CallKinds
    /\ mock \in Mocks
    /\ ~HasInput => mock.input = "value"
    /\ signal \in {"quiet", "aborted"}
    /\ at = "idle"
    /\ promise = [x \in Promises |-> "pending"]
    /\ sends = <<>> /\ jobs = <<>> /\ sentMessages = <<>> /\ sendComplete = FALSE

-----------------------------------------------------------------------------
(* delay()                                                                   *)

\* Mutant: a delay that begins after the abort does not see it.
ElapsesBlindly(place) == at = place /\ stack = <<>>

\* The timer of the delay the chain is in fires: an abort, before or during
\* the delay, would have rejected it.
ElapsesAt(place) == at = place /\ stack = <<>> /\ signal # "aborted"

\* Mutant: the abort only clears the timer.
NeverRejects(place) == at = place /\ FALSE

\* The delay has been rejected with CANCELLED.
RejectsAt(place) == at = place /\ stack = <<>> /\ signal = "aborted"

\* A mocked part of the call, as the promise made of it settles.
Mocked(part) == IF mock[part] = "error" THEN "mocked error" ELSE "resolved"

\* Some promises settle, each with its outcome.
Settle(outcome) ==
    promise' = [x \in Promises |-> IF x \in DOMAIN outcome THEN outcome[x] ELSE promise[x]]

\* The user aborts the signal, from plain code or from within a callback.
Abort ==
    /\ signal = "quiet"
    /\ signal' = "aborted"
    /\ UNCHANGED vars
    /\ UNCHANGED <<kind, mock, at, promise, inputVars>>

-----------------------------------------------------------------------------
(* Headers and response: the common part of the chains.                      *)

\* One of the four methods is called; promiseHeaders() is made.
Start ==
    /\ at = "idle" /\ stack = <<>>
    /\ at' = "headerDelay"
    /\ UNCHANGED vars
    /\ UNCHANGED <<kind, mock, signal, promise, inputVars>>

\* Mutant: nobody waits for the promise of streamResponses().
StreamResponsesUnawaited == "afterDelay"

\* streamResponses() begins: it asserts that all mocked responses are messages
\* of the method, and rejects otherwise.
StreamResponses == IF mock.response = "invalid" THEN "rejected" ELSE "streamDelay"

\* The headers settle. A rejection skips the delay before a stream, but not
\* the one before a single response, which has a catch before it.
Headers ==
    /\ \/ /\ mock.headers = "error" /\ at = "headerDelay" /\ stack = <<>>
          /\ Settle([x \in {"headers"} |-> "mocked error"])
          /\ at' = IF Streaming THEN StreamResponses ELSE "responseDelay"
       \/ /\ mock.headers = "value" /\ ElapsesAt("headerDelay")
          /\ Settle([x \in {"headers"} |-> "resolved"])
          /\ at' = "responseDelay"
       \/ /\ mock.headers = "value" /\ RejectsAt("headerDelay")
          /\ Settle([x \in {"headers"} |-> "CANCELLED"])
          /\ at' = IF Streaming THEN StreamResponses ELSE "responseDelay"
    /\ UNCHANGED vars
    /\ UNCHANGED <<kind, mock, signal, inputVars>>

\* promiseSingleResponse(): the first of the mocked responses, which has to be
\* there and to be a message of the method.
SingleResponse ==
    IF mock.response = "error" THEN "mocked error"
    ELSE IF mock.response = "invalid" \/ mock.count = 0 THEN "assert"
    ELSE "resolved"

Response ==
    /\ ~Streaming
    /\ \/ ElapsesAt("responseDelay") /\ Settle([x \in {"response"} |-> SingleResponse])
       \/ RejectsAt("responseDelay") /\ Settle([x \in {"response"} |-> "CANCELLED"])
    /\ at' = "afterDelay"
    /\ UNCHANGED vars
    /\ UNCHANGED <<kind, mock, signal, inputVars>>

\* Status and trailers of a call with one response each have a delay of their
\* own behind it, which may be rejected like any other.
AfterResponse(part) ==
    /\ ~Streaming /\ promise[part] = "pending"
    /\ \/ ElapsesAt("afterDelay") /\ Settle([x \in {part} |-> Mocked(x)])
       \/ RejectsAt("afterDelay") /\ Settle([x \in {part} |-> "CANCELLED"])
    /\ UNCHANGED vars
    /\ UNCHANGED <<kind, mock, signal, at, inputVars>>

-----------------------------------------------------------------------------
(* The response stream.                                                      *)

\* Its first delay, whose rejection is caught at once, belongs to the chain.
BeforeStream ==
    /\ Streaming
    /\ ElapsesAt("responseDelay") \/ RejectsAt("responseDelay")
    /\ at' = StreamResponses
    /\ UNCHANGED vars
    /\ UNCHANGED <<kind, mock, signal, promise, inputVars>>

\* How the stream ends when all messages are out.
MockedEnd ==
    IF mock.status = "error" \/ mock.trailers = "error" THEN NotifyError
    ELSE NotifyComplete

\* streamResponses() after a delay: the next message, followed by a delay, or
\* the end of the stream.
EmitNext ==
    IF mock.response = "error" THEN NotifyError /\ at' = "afterDelay"
    ELSE IF Len(log) < mock.count THEN NotifyMessage /\ at' = "betweenDelay"
    ELSE MockedEnd /\ at' = "afterDelay"

StreamStep ==
    /\ \E place \in {"streamDelay", "betweenDelay"} :
         \/ ElapsesAt(place) /\ EmitNext
         \/ RejectsAt(place) /\ NotifyError /\ at' = "afterDelay"
    /\ UNCHANGED <<kind, mock, signal, promise, inputVars>>

\* Status and trailers of a streaming call share the delay behind the stream;
\* streamResponses() that rejected leaves them its error.
AfterStream ==
    /\ Streaming /\ at' = "over"
    /\ \/ ElapsesAt("afterDelay")
          /\ Settle([part \in {"status", "trailers"} |-> Mocked(part)])
       \/ RejectsAt("afterDelay")
          /\ Settle([part \in {"status", "trailers"} |-> "CANCELLED"])
       \/ at = "rejected" /\ stack = <<>>
          /\ Settle([part \in {"status", "trailers"} |-> "assert"])
    /\ UNCHANGED vars
    /\ UNCHANGED <<kind, mock, signal, inputVars>>

-----------------------------------------------------------------------------
(* TestInputStream                                                           *)

\* send() or complete(): rejects with the mocked error, or leaves its effect
\* to a promise handler.
CallInput(isComplete) ==
    /\ sendComplete' = sendComplete
    /\ IF mock.input = "error" THEN sends' = Append(sends, "mocked error") /\ UNCHANGED jobs
       ELSE sends' = Append(sends, "called") /\ jobs' = Append(jobs, Len(sends) + 1)

Completing(i) == i = MaxInputs + 1

\* The client sends its messages and completes, without waiting for answers.
\* (Every message is sent: the calls are numbered 1 .. MaxInputs + 1.)
CallsInput ==
    /\ HasInput /\ at # "idle" /\ stack = <<>>
    /\ Len(sends) <= MaxInputs
    /\ CallInput(Completing(Len(sends) + 1))
    /\ UNCHANGED sentMessages
    /\ UNCHANGED vars /\ UNCHANGED <<kind, mock, signal, at, promise>>

\* The handler runs: the message is recorded, and the delay begins.
InputJob ==
    /\ jobs # <<>> /\ stack = <<>>
    /\ jobs' = Tail(jobs)
    /\ sends' = [sends EXCEPT ![Head(jobs)] = "delay"]
    /\ IF Completing(Head(jobs)) THEN sendComplete' = TRUE /\ UNCHANGED sentMessages
       ELSE sentMessages' = Append(sentMessages, Head(jobs)) /\ UNCHANGED sendComplete
    /\ UNCHANGED vars /\ UNCHANGED <<kind, mock, signal, at, promise>>

InputSettles ==
    /\ \E i \in DOMAIN sends :
         /\ sends[i] = "delay" /\ stack = <<>>
         /\ sends' = [sends EXCEPT ![i] =
                        IF signal = "aborted" THEN "CANCELLED" ELSE "resolved"]
    /\ UNCHANGED <<jobs, sentMessages, sendComplete>>
    /\ UNCHANGED vars /\ UNCHANGED <<kind, mock, signal, at, promise>>

-----------------------------------------------------------------------------
(* The reader of the call: callbacks and loops, as in GrpcWebCall.           *)

Reader ==
    /\ \/ CallListener \/ ListenerReturns \/ ThenNextListeners \/ NotifyReturns
       \/ \E l \in Listeners : AddLis(l) \/ RemoveLis(l)
       \/ \E c \in Loops : AsyncIterator(c) \/ IteratorNext(c) \/ LoopBreaks(c)
    /\ Streaming /\ at # "idle"
    /\ UNCHANGED transportVars

\* A callback throws: streamResponses(), which notified, rejects.
ReaderThrows ==
    /\ ListenerThrows
    /\ at' = "rejected"
    /\ UNCHANGED <<kind, mock, signal, promise, inputVars>>

Chain ==
    \/ Headers \/ Response \/ BeforeStream \/ StreamStep \/ AfterStream
    \/ \E part \in {"status", "trailers"} : AfterResponse(part)

TestNext ==
    \/ Start \/ Abort \/ Chain \/ Reader \/ ReaderThrows
    \/ CallsInput \/ InputJob \/ InputSettles

\* Timers fire and JavaScript runs on. Nobody has to abort, send or read.
TestFairness ==
    /\ WF_testVars(Chain)
    /\ WF_testVars(Dispatch /\ (Reader \/ ReaderThrows))
    /\ WF_testVars(InputJob) /\ WF_testVars(InputSettles)
    /\ \A c \in Loops : WF_testVars((IteratorNext(c) \/ LoopBreaks(c)) /\ Reader)

TestSpec == TestInit /\ [][TestNext]_testVars
FairTestSpec == TestSpec /\ TestFairness

-----------------------------------------------------------------------------
\* Status and trailers are not known before the responses are over - the response
\* has settled, or the stream is closed - unless a throwing callback or an invalid
\* mock made streamResponses() reject. They then both fail.
StatusAfterResponses ==
    \A part \in {"status", "trailers"} : promise[part] # "pending" =>
        \/ ~Streaming /\ promise["response"] # "pending"
        \/ Streaming /\ closed # "open"
        \/ Streaming /\ promise["status"] = "assert" /\ promise["trailers"] = "assert"

\* A status or trailers that resolve or reject as they are mocked tell that the
\* responses came as they are mocked: all messages, and the end that fits.
StatusMeansAsMocked ==
    \A part \in {"status", "trailers"} :
        promise[part] = Mocked(part) /\ promise[part] # "pending" =>
            IF Streaming
            THEN /\ Len(log) = mock.count + 1
                 /\ closed = "done" <=>
                      \A x \in {"response", "status", "trailers"} : mock[x] # "error"
            ELSE promise["response"] = SingleResponse

(* "The returned promise resolves when the stream is closed"                 *)
(* (streamResponses): status and trailers wait for the responses, and tell   *)
(* them truly; an abort that cut the responses short is told by all promises *)
(* behind it, wherever in the forks of the chain it came.                    *)
StatusTellsResponses == StatusAfterResponses /\ StatusMeansAsMocked

(* After an abort nothing succeeds any more: no message comes out, no        *)
(* promise resolves and no message is acknowledged, wherever in the chain,   *)
(* in a callback or between two delays, the abort came.                      *)
NothingAfterAbort ==
    [][signal = "aborted" =>
         /\ \A x \in Promises : promise'[x] = "resolved" => promise[x] = "resolved"
         /\ Len(log') > Len(log) => log'[Len(log')] = "err"
         /\ \A i \in DOMAIN sends : sends'[i] = "resolved" => sends[i] = "resolved"]_testVars

(* All promises of a call settle, and a loop over its responses ends, at     *)
(* last - the loop unless streamResponses() has rejected, which leaves the   *)
(* stream open for ever.                                                     *)
TestCallEnds ==
    /\ \A x \in Promises :
         at # "idle" /\ (Streaming => x # "response") ~> promise[x] # "pending"
    /\ \A c \in Loops : Under(c) ~> ~Under(c) \/ promise["status"] = "assert"

\* The callbacks of a small instance are all for messages.
JustMessages == [l \in Listeners |-> "msg"]
=============================================================================
