------------------------------ MODULE GrpcCall ------------------------------
(* grpc-transport: how unary, serverStreaming, clientStreaming and duplex    *)
(* turn the events of a grpc-js call into the promises and the output stream *)
(* of a call. Of the stream (RpcOutputStream) only `closed` and the number   *)
(* of messages matter here. What grpc-js does is external: metadata, then    *)
(* messages, then one status; with the status come, in this order and in one *)
(* tick, the callback (one response) or 'error' (many), and 'status'; 'end'  *)
(* follows when the messages are read.                                       *)
EXTENDS GrpcKinds, Naturals

CONSTANT MaxMessages   \* bound: messages the server sends

ASSUME GrpcCallAssumption == MaxMessages \in Nat

VARIABLES
    signal,     \* options.abort: "none", "quiet", "aborted"
    listening,  \* has the call a listener on the signal?
    phase,      \* where the grpc-js call is
    code,       \* the status it ends with, "none" before
    headers,    \* has 'metadata' been emitted?
    messages,   \* messages received so far
    def,        \* the deferred promises
    stream,     \* outStream: "open", "done", "error"
    notified,   \* messages outStream was notified of
    uncaught    \* has a handler thrown?

clientVars == <<signal, listening, phase, code, headers, messages, def,
                stream, notified, uncaught>>
grpcVars == <<kind, clientVars>>

\* The promises of the four classes of calls. Where many
\* messages come back an output stream stands for the promise of the message.
UnaryCall == {"header", "message", "status", "trailer"}
ServerStreamingCall == {"header", "status", "trailer"}
ClientStreamingCall == {"header", "message", "status", "trailer"}
DuplexStreamingCall == {"header", "status", "trailer"}

Deferreds(k) == CASE k = "unary" -> UnaryCall
                  [] k = "serverStreaming" -> ServerStreamingCall
                  [] k = "clientStreaming" -> ClientStreamingCall
                  [] k = "duplex" -> DuplexStreamingCall

Phases == {"idle", "open", "callback", "error", "status", "end", "over"}
Codes == {"OK", "ERR", "CANCELLED"}

GrpcInit ==
    /\ kind \in Kinds
    /\ signal \in {"none", "quiet", "aborted"}
    /\ listening = FALSE
    /\ phase = "idle" /\ code = "none" /\ headers = FALSE /\ messages = 0
    /\ def = [d \in Deferreds(kind) |-> "pending"]
    /\ stream = "open" /\ notified = 0
    /\ uncaught = FALSE

-----------------------------------------------------------------------------
\* Deferred.resolve throws if the promise is settled already.
Resolve(d) ==
    \/ def[d] = "pending" /\ def' = [def EXCEPT ![d] = "resolved"] /\ UNCHANGED uncaught
    \/ def[d] # "pending" /\ uncaught' = TRUE /\ UNCHANGED def

\* resolvePending and rejectPending ignore what is settled.
SettlePending(ds, how) ==
    def' = [d \in DOMAIN def |->
              IF d \in ds /\ def[d] = "pending" THEN how ELSE def[d]]

-----------------------------------------------------------------------------
\* "if (opt.abort)": addEventListener, no look at `aborted`.
ListensToAbort == signal # "none"

\* The call is made; gCall exists.
Call ==
    /\ phase = "idle"
    /\ phase' = "open"
    /\ listening' = ListensToAbort
    /\ UNCHANGED <<kind, signal, code, headers, messages, def, stream, notified, uncaught>>

\* The status of a call has arrived: where grpc-js goes with it.
EndsWith(c) ==
    /\ code' = c
    /\ phase' = IF kind \notin Responding THEN "callback"
                ELSE IF c = "OK" THEN "status" ELSE "error"

\* The signal fires: gCall.cancel(), if the call listens and has no status yet.
Abort ==
    /\ signal = "quiet"
    /\ signal' = "aborted"
    /\ IF listening /\ phase = "open" THEN EndsWith("CANCELLED")
                                      ELSE UNCHANGED <<phase, code>>
    /\ UNCHANGED <<kind, listening, headers, messages, def, stream,
                   notified, uncaught>>

\* 'metadata'
OnMetadata ==
    /\ phase = "open" /\ ~headers
    /\ headers' = TRUE
    /\ Resolve("header")
    /\ UNCHANGED <<kind, signal, listening, phase, code, messages, stream, notified>>

\* 'data': notifyMessage without a look at `closed`.
OnData ==
    /\ phase = "open" /\ headers /\ kind \in Responding /\ messages < MaxMessages
    /\ messages' = messages + 1
    /\ \/ stream = "open" /\ notified' = notified + 1 /\ UNCHANGED uncaught
       \/ stream # "open" /\ uncaught' = TRUE /\ UNCHANGED notified
    /\ UNCHANGED <<kind, signal, listening, phase, code, headers, def, stream>>

\* The one message of the other kinds, kept by grpc-js.
OnMessage ==
    /\ phase = "open" /\ headers /\ kind \notin Responding /\ messages = 0
    /\ messages' = 1
    /\ UNCHANGED <<kind, signal, listening, phase, code, headers, def,
                   stream, notified, uncaught>>

\* The server ends the call; an OK may come without a message of any kind.
ServerEnds ==
    /\ phase = "open"
    /\ EndsWith("ERR") \/ (headers /\ EndsWith("OK"))
    /\ UNCHANGED <<kind, signal, listening, headers, messages, def, stream,
                   notified, uncaught>>

\* What an error rejects: all that is pending.
RejectedOnError == DOMAIN def

\* The callback of unary and clientStreaming, with an error or a value (an
\* empty OK has neither).
OnCallback ==
    /\ phase = "callback" /\ phase' = "status"
    /\ \/ /\ code # "OK"
          /\ SettlePending(RejectedOnError, "rejected") /\ UNCHANGED uncaught
       \/ code = "OK" /\ messages = 1 /\ Resolve("message")
       \/ code = "OK" /\ messages = 0 /\ UNCHANGED <<def, uncaught>>
    /\ UNCHANGED <<kind, signal, listening, code, headers, messages,
                   stream, notified>>

\* Mutant: the stream is not told.
StreamIgnoresError == stream

\* "if (!outStream.closed)": notifyError.
StreamAfterError == IF stream = "open" THEN "error" ELSE stream

\* 'error'
OnError ==
    /\ phase = "error" /\ phase' = "status"
    /\ stream' = StreamAfterError
    /\ SettlePending(RejectedOnError, "rejected")
    /\ UNCHANGED <<kind, signal, listening, code, headers, messages,
                   notified, uncaught>>

\* Unary: "we require that the status is an error status".
MessageIsMissing == kind = "unary" /\ def["message"] = "pending" /\ code = "OK"

\* Mutant: a status that comes after an error resolves all the same.
OnStatusResolves ==
    /\ phase = "status"
    /\ phase' = IF kind \in Responding THEN "end" ELSE "over"
    /\ def' = [d \in DOMAIN def |->
                 IF d \in {"status", "trailer"} THEN "resolved" ELSE def[d]]
    /\ UNCHANGED <<kind, signal, listening, code, headers, messages,
                   stream, notified, uncaught>>

\* 'status'
OnStatus ==
    /\ phase = "status"
    /\ phase' = IF kind \in Responding THEN "end" ELSE "over"
    /\ \/ /\ MessageIsMissing
          /\ SettlePending({"message", "status", "trailer"}, "rejected")
       \/ /\ ~MessageIsMissing
          /\ SettlePending({"status", "trailer"}, "resolved")
    /\ UNCHANGED <<kind, signal, listening, code, headers, messages,
                   stream, notified, uncaught>>

\* "if (!outStream.closed)"
EndChecked == stream' = (IF stream = "open" THEN "done" ELSE stream) /\ UNCHANGED uncaught

\* 'end'
OnEnd ==
    /\ phase = "end" /\ phase' = "over"
    /\ EndChecked
    /\ UNCHANGED <<kind, signal, listening, code, headers, messages, def, notified>>

\* The call is over. (Anywhere else, a call that is stuck is a deadlock.)
Over == phase = "over" /\ UNCHANGED grpcVars

GrpcNext ==
    \/ Call \/ Abort \/ OnMetadata \/ OnData \/ OnMessage \/ ServerEnds
    \/ OnCallback \/ OnError \/ OnStatus \/ OnEnd \/ Over

GrpcSpec == GrpcInit /\ [][GrpcNext]_grpcVars

-----------------------------------------------------------------------------
\* A client streaming call that has ended with OK and no message: its message
\* stays pending (see README).
OkWithoutMessage == kind = "clientStreaming" /\ code = "OK" /\ messages = 0

\* Although 'status' is emitted for every code, and after 'error', the status
\* promise resolves for OK only, and otherwise it rejects with everything that
\* is pending.
StatusMeansOk ==
    phase = "over" =>
        /\ def["status"] = "resolved" => code = "OK"
        /\ def["trailer"] = def["status"]
        /\ \A d \in DOMAIN def :
               def[d] = "pending" => d = "message" /\ OkWithoutMessage
        /\ "message" \in DOMAIN def /\ ~OkWithoutMessage => def["message"] = def["status"]

\* The output stream tells the same outcome as the status, although 'end' comes
\* last also after an error, and it had every message.
StreamMeansStatus ==
    phase = "over" /\ kind \in Responding =>
        /\ stream = "done" <=> def["status"] = "resolved"
        /\ stream # "open" /\ notified = messages

\* What comes of `await call`: Promise.all over the promises of the call.
promiseFinished ==
    CASE \E d \in DOMAIN def : def[d] = "rejected" -> "rejected"
      [] \A d \in DOMAIN def : def[d] = "resolved" -> "resolved"
      [] OTHER -> "pending"

\* To await the call is as good as to await its status and its messages.
AwaitMeansStatus ==
    phase = "over" /\ ~OkWithoutMessage =>
        /\ promiseFinished = def["status"]
        /\ promiseFinished = "resolved" /\ kind \in Responding => stream = "done"

(* "The status code will always be OK." (FinishedServerStreamingCall and its *)
(* siblings): whatever events grpc-js emits for a failed call, one after the *)
(* other, promises, output stream and the awaited call settle once and tell  *)
(* its one outcome. Only the message of a client streaming call that ended   *)
(* with OK and without one is left pending, and the awaited call with it.    *)
StatusIsTrue == StatusMeansOk /\ StreamMeansStatus /\ AwaitMeansStatus
=============================================================================
