---------------------------- MODULE GrpcAdapter ----------------------------
(* grpc-backend: how mapUnary, mapServerStreaming, mapClientStreaming and    *)
(* mapBidi run an asynchronous method for one call of a grpc-js server, feed *)
(* its request stream from the events of the call, and answer the call with  *)
(* what becomes of the method and of the status in its context.              *)
(* Of the request stream (RpcOutputStream) only `closed` matters here.       *)
EXTENDS GrpcKinds, Naturals, Sequences

CONSTANTS
    MaxRequests,   \* bound: messages the client sends
    MaxSends       \* bound: messages the method sends

ASSUME AdapterAssumption == MaxRequests \in Nat /\ MaxSends \in Nat

\* What a method may throw: a RpcError whose code is a gRPC status, one of them
\* OK, one whose code is not, another error.
Thrown == {"RpcError", "OK RpcError", "invalid RpcError", "Error"}

\* context.status.code: OK, another gRPC status, or none of them.
StatusCodes == {"OK", "ERR", "invalid"}

VARIABLES
    method,    \* the method: running, returned, or what it has thrown
    status,    \* context.status.code
    cancelled, \* context.cancelled
    request,   \* the request stream: "open", "done", "error"
    received,  \* messages it was notified of
    client,    \* the client's side of the call: "sending", "ended", "broken"
    sends,     \* messages the method has sent, and sends that have resolved
    error,     \* an 'error' event that destroy() has scheduled
    threw,     \* has an event handler thrown?
    answers    \* the answers given to the call: how, and the code that the
               \* client sees

serverVars == <<method, status, cancelled, request, received, client, sends,
                error, threw, answers>>
adapterVars == <<kind, serverVars>>

AdapterInit ==
    /\ kind \in Kinds
    /\ method = "running" /\ status = "OK" /\ cancelled = FALSE
    /\ request = "open" /\ received = 0
    /\ client = "sending"
    /\ sends = [asked |-> 0, written |-> 0]
    /\ error = FALSE /\ threw = FALSE
    /\ answers = <<>>

-----------------------------------------------------------------------------
(* Events of the call.                                                       *)

\* Mutant: no handler looks at `closed`.
Unchecked == {}

\* The kinds whose handlers look at `closed` before they notify.
Checked == {"duplex"}

\* The request stream is notified, unless it is closed: then the handler of
\* mapBidi does nothing and that of mapClientStreaming throws.
Notify(newRequest, message) ==
    \/ /\ request = "open"
       /\ request' = newRequest
       /\ received' = received + (IF message THEN 1 ELSE 0)
       /\ UNCHANGED threw
    \/ /\ request # "open"
       /\ threw' = (threw \/ kind \notin Checked)
       /\ UNCHANGED <<request, received>>

\* 'data'
OnRequest ==
    /\ kind \in Requesting /\ client = "sending" /\ received < MaxRequests
    /\ Notify("open", TRUE)
    /\ UNCHANGED <<kind, method, status, cancelled, client, sends, error, answers>>

\* 'end': the client has completed its requests, or has gone away.
OnRequestsEnd ==
    /\ kind \in Requesting /\ client = "sending"
    /\ client' = "ended"
    /\ Notify("done", FALSE)
    /\ UNCHANGED <<kind, method, status, cancelled, sends, error, answers>>

\* 'error': a request that does not parse.
OnRequestError ==
    /\ kind \in Requesting /\ client = "sending"
    /\ client' = "broken"
    /\ Notify("error", FALSE)
    /\ UNCHANGED <<kind, method, status, cancelled, sends, error, answers>>

\* 'error' once more, of a call that the adapter has destroyed.
OnDestroyed ==
    /\ error
    /\ error' = FALSE
    /\ \/ kind \in Requesting /\ Notify("error", FALSE)
       \/ kind \notin Requesting /\ UNCHANGED <<request, received, threw>>
    /\ UNCHANGED <<kind, method, status, cancelled, client, sends, answers>>

\* 'cancelled': the context is told (ServerCallContext).
OnCancelled ==
    /\ ~cancelled /\ answers = <<>>
    /\ cancelled' = TRUE
    /\ UNCHANGED <<kind, method, status, request, received, client, sends, error,
                   threw, answers>>

-----------------------------------------------------------------------------
(* The method.                                                               *)

\* responseStream.send: call.write.
Send ==
    /\ kind \in Responding /\ method = "running" /\ sends.asked < MaxSends
    /\ sends' = [sends EXCEPT !.asked = @ + 1]
    /\ UNCHANGED <<kind, method, status, cancelled, request, received, client,
                   error, threw, answers>>

\* The callback of a write resolves the promise of send(): when it is done, or
\* with the error of a destroyed call.
Written ==
    /\ sends.written < sends.asked
    /\ sends' = [sends EXCEPT !.written = @ + 1]
    /\ UNCHANGED <<kind, method, status, cancelled, request, received, client,
                   error, threw, answers>>

\* context.status = ...
SetStatus(s) ==
    /\ method = "running"
    /\ status' = s
    /\ UNCHANGED <<kind, method, cancelled, request, received, client, sends,
                   error, threw, answers>>

\* The promise of the method settles, whether it awaited its sends or not.
MethodSettles ==
    /\ method = "running"
    /\ method' \in {"returned"} \cup Thrown
    /\ UNCHANGED <<kind, status, cancelled, request, received, client, sends,
                   error, threw, answers>>

-----------------------------------------------------------------------------
(* The answer.                                                               *)

\* The code grpc-js makes of an error a call is destroyed with: its own `code`
\* is only picked up if it is a number, and that of a RpcError is a string.
DestroyCode(isNumber, code) == IF isNumber THEN code ELSE "UNKNOWN"

\* What a method's error comes to: `callback` maps the code of a RpcError, that
\* of OK too; `destroy` gets the RpcError itself.
ErrorAnswer ==
    IF kind \in Responding THEN
        [how |-> "destroy",
         code |-> IF method = "invalid RpcError" THEN DestroyCode(TRUE, "INTERNAL")
                  ELSE DestroyCode(FALSE, "string")]
    ELSE
        [how |-> "callback",
         code |-> CASE method = "RpcError" -> "ERR"
                    [] method = "OK RpcError" -> "OK"
                    [] OTHER -> "INTERNAL"]

\* Mutant: the status of the context is not looked at.
StatusIgnored ==
    IF kind \in Responding THEN [how |-> "end", code |-> "OK"]
    ELSE [how |-> "response", code |-> "OK"]

\* What the context's status comes to when the method has returned. A call is
\* ended, or its callback is given the response, for OK only.
StatusAnswer ==
    IF status = "OK" THEN
        [how |-> IF kind \in Responding THEN "end" ELSE "response", code |-> "OK"]
    ELSE
        [how |-> IF kind \in Responding THEN "destroy" ELSE "callback",
         code |-> IF status = "invalid" THEN "INTERNAL" ELSE status]

\* All that the adapter answers: it returns after the first answer.
Answers == IF method = "returned" THEN <<StatusAnswer>> ELSE <<ErrorAnswer>>

\* The adapter goes on after `await method(...)`.
Answer ==
    /\ method # "running" /\ answers = <<>>
    /\ answers' = Answers
    /\ error' = (Answers[1].how = "destroy")
    /\ UNCHANGED <<kind, method, status, cancelled, request, received, client,
                   sends, threw>>

AdapterNext ==
    \/ OnRequest \/ OnRequestsEnd \/ OnRequestError \/ OnDestroyed \/ OnCancelled
    \/ Send \/ Written \/ MethodSettles \/ Answer
    \/ \E s \in StatusCodes : SetStatus(s)

AdapterSpec == AdapterInit /\ [][AdapterNext]_adapterVars

-----------------------------------------------------------------------------
(* The adapter ends a call well, or gives its client the response, exactly   *)
(* if the method returned with an OK status; and there is no other way to OK *)
(* but one: a method with one response that throws a RpcError whose code is  *)
(* OK is answered with it, and without the response (see README).            *)
OkMeansReturned ==
    answers # <<>> =>
        /\ answers[1].how \in {"end", "response"} <=> method = "returned" /\ status = "OK"
        /\ answers[1].code = "OK" <=>
              \/ answers[1].how \in {"end", "response"}
              \/ kind \notin Responding /\ method = "OK RpcError"

(* "If you want to cancel a request on the server, throw a RpcError with the *)
(* CANCELLED status code." (ServerCallContext.cancelled): the code of a      *)
(* RpcError reaches the client.                                              *)
RpcErrorCodeArrives ==
    method = "RpcError" /\ answers # <<>> => answers[1].code = "ERR"
=============================================================================
