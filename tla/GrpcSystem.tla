----------------------------- MODULE GrpcSystem -----------------------------
(* A gRPC call from end to end: the client side is GrpcCall (grpc-transport), *)
(* the server side GrpcAdapter (grpc-backend); grpc-js and the network are    *)
(* between them. Either side may also face another implementation of gRPC,    *)
(* that may do whatever the protocol allows.                                  *)
EXTENDS GrpcCall, GrpcAdapter

VARIABLES
    peers,      \* whose code runs: "both" ends, or one of them
    sent,       \* requests the client has sent
    completed,  \* has the client completed its requests?
    lost        \* has the connection been lost?

netVars == <<peers, sent, completed, lost>>
systemVars == <<kind, clientVars, serverVars, netVars>>

SystemInit ==
    /\ GrpcInit /\ AdapterInit
    /\ peers \in {"both", "transport", "backend"}
    /\ sent = 0 /\ completed = FALSE /\ lost = FALSE

-----------------------------------------------------------------------------
(* One end.                                                                  *)

TransportAlone ==
    /\ peers = "transport"
    /\ GrpcNext
    /\ UNCHANGED serverVars /\ UNCHANGED netVars

BackendAlone ==
    /\ peers = "backend"
    /\ \/ AdapterNext
       \/ answers # <<>> /\ UNCHANGED adapterVars
    /\ UNCHANGED clientVars /\ UNCHANGED netVars

-----------------------------------------------------------------------------
(* Both ends: the steps of the client.                                       *)

\* What happens at the client alone.
ClientStep ==
    /\ \/ Call \/ Abort \/ OnCallback \/ OnError \/ OnStatus \/ OnEnd \/ Over
       \/ phase = "open" /\ OnMetadata
    /\ UNCHANGED serverVars /\ UNCHANGED netVars

\* GrpcInputStreamWrapper.send and complete.
ClientSends ==
    /\ phase = "open" /\ kind \in Requesting /\ ~completed
    /\ \/ sent < MaxRequests /\ sent' = sent + 1 /\ UNCHANGED completed
       \/ completed' = TRUE /\ UNCHANGED sent
    /\ UNCHANGED <<peers, lost>>
    /\ UNCHANGED clientVars /\ UNCHANGED serverVars /\ UNCHANGED kind

\* A message that the server has sent arrives.
ResponseArrives ==
    /\ \/ OnData /\ messages < sends.asked
       \/ OnMessage /\ answers # <<>> /\ answers[1].how = "response"
    /\ UNCHANGED serverVars /\ UNCHANGED netVars

\* The messages that go before the status of the server.
BeforeStatus ==
    IF kind \in Responding THEN sends.asked
    ELSE IF answers[1].how = "response" THEN 1 ELSE 0

\* The status with which the server answered arrives: an OK after everything
\* that was sent before it, an error at once.
StatusArrives ==
    /\ phase = "open" /\ answers # <<>>
    /\ IF answers[1].code = "OK"
       THEN headers /\ messages = BeforeStatus /\ EndsWith("OK")
       ELSE EndsWith("ERR")
    /\ UNCHANGED <<kind, signal, listening, headers, messages, def, stream,
                   notified, uncaught>>
    /\ UNCHANGED serverVars /\ UNCHANGED netVars

\* The connection is lost: the client ends the call with an error.
ConnectionLost ==
    /\ phase = "open" /\ ~lost
    /\ lost' = TRUE
    /\ EndsWith("ERR")
    /\ UNCHANGED <<kind, signal, listening, headers, messages, def, stream,
                   notified, uncaught>>
    /\ UNCHANGED serverVars /\ UNCHANGED <<peers, sent, completed>>

-----------------------------------------------------------------------------
(* Both ends: the steps of the server.                                       *)

\* Has the client gone away?
Gone == lost \/ code = "CANCELLED"

\* The events of the request stream follow what the client has sent.
RequestArrives ==
    \/ received < sent /\ (OnRequest \/ OnRequestError)
    \/ (Gone \/ (completed /\ received = sent)) /\ OnRequestsEnd

\* What happens at the server once the call has been made.
ServerStep ==
    /\ phase # "idle"
    /\ \/ RequestArrives
       \/ OnCancelled /\ Gone
       \/ OnDestroyed \/ Send \/ Written \/ MethodSettles \/ Answer
       \/ \E s \in StatusCodes : SetStatus(s)
    /\ UNCHANGED clientVars /\ UNCHANGED netVars

BothEnds ==
    /\ peers = "both"
    /\ \/ ClientStep \/ ClientSends \/ ResponseArrives \/ StatusArrives
       \/ ConnectionLost \/ ServerStep

SystemNext == TransportAlone \/ BackendAlone \/ BothEnds

SystemSpec == SystemInit /\ [][SystemNext]_systemVars

-----------------------------------------------------------------------------
(* No order of the events makes a handler throw into grpc-js: not a status   *)
(* after an error at the client, and at the server not even the error that   *)
(* destroying a call brings back to its own handlers, after the client has   *)
(* completed its requests.                                                   *)
NoHandlerThrows == ~uncaught /\ ~threw

(* The client reports OK only if the method has returned with an OK status,  *)
(* and then it has handed out every message the method has sent - or, with   *)
(* no message, if a client streaming method threw a RpcError whose code is   *)
(* OK, of which a unary call makes an error.                                 *)
OkIsTheMethods ==
    peers = "both" /\ def["status"] = "resolved" =>
        \/ /\ method = "returned" /\ status = "OK"
           /\ IF kind \in Responding THEN notified = sends.asked
                                     ELSE def["message"] = "resolved"
        \/ method = "OK RpcError" /\ OkWithoutMessage
=============================================================================
