---------------------------- MODULE GrpcWebUnary ----------------------------
(* GrpcWebFetchTransport.unary: the promise chain that makes the four        *)
(* promises of a UnaryCall out of the header and the body of a response. The *)
(* body is the one of GrpcWebBody, chunk by chunk; its onFrame is here.      *)
EXTENDS GrpcWebBody, GrpcWebResponse, UnaryDeferreds

VARIABLES
    pc,            \* where the promise chain is
    maybeMessage,  \* has a message been read?
    maybeStatus,   \* the code of maybeStatus, "none" while undefined
    maybeTrailer,  \* has a trailer been read?
    thrown,        \* the code of the error on its way to catch
    sent           \* the grpc-status of the server's header and its trailer

chainVars == <<pc, def, maybeMessage, maybeStatus, maybeTrailer, thrown, sent>>
unaryVars == <<bodyVars, chainVars>>

PCs == {"idle", "refused", "fetch", "body", "finish", "catch", "settled"}

UnaryInit ==
    /\ BodyInit
    /\ pc = "idle"
    /\ DeferredsInit
    /\ maybeMessage = FALSE /\ maybeStatus = "none" /\ maybeTrailer = FALSE
    /\ thrown = "none"
    /\ sent \in [{"header", "trailer"} -> HeaderStatus]

Throw(code) == pc' = "catch" /\ thrown' = code

-----------------------------------------------------------------------------
\* unary() is called; a timeout that has passed throws before there is a call.
Start ==
    /\ pc = "idle"
    /\ \E expired \in BOOLEAN : pc' = IF expired THEN "refused" ELSE "fetch"
    /\ UNCHANGED bodyVars
    /\ UNCHANGED <<def, maybeMessage, maybeStatus, maybeTrailer, thrown, sent>>

\* fetch fails, or the response is an error response.
OnFetchError ==
    /\ pc = "fetch"
    /\ \E code \in {"INTERNAL", "CANCELLED", "UNKNOWN"} : Throw(code)
    /\ UNCHANGED bodyVars
    /\ UNCHANGED <<def, maybeMessage, maybeStatus, maybeTrailer, sent>>

\* The first handler: the headers are resolved, then an error status thrown.
OnResponse ==
    /\ pc = "fetch"
    /\ \E httpOk \in BOOLEAN : \E code \in ReadHeader(httpOk, sent["header"]) :
         /\ Resolve({"header"})
         /\ \/ /\ code \in {"none", "OK"}
               /\ pc' = "body" /\ maybeStatus' = code /\ UNCHANGED thrown
            \/ /\ code \notin {"none", "OK"}
               /\ Throw(code) /\ UNCHANGED maybeStatus
    /\ UNCHANGED bodyVars
    /\ UNCHANGED <<maybeMessage, maybeTrailer, sent>>

\* A chunk of the body, which may complete data frames.
OnChunk ==
    /\ pc = "body"
    /\ NextChunk
    /\ UNCHANGED chainVars

\* The DATA branch of onFrame: a second message is an error, as is one that
\* cannot be parsed.
TakeMessage ==
    \/ maybeMessage /\ Throw("DATA_LOSS") /\ UNCHANGED maybeMessage
    \/ ~maybeMessage /\ maybeMessage' = TRUE /\ UNCHANGED <<pc, thrown>>
    \/ ~maybeMessage /\ Throw("INTERNAL") /\ UNCHANGED maybeMessage

OnDataFrame ==
    /\ pc = "body"
    /\ EmitFrame
    /\ TakeMessage
    /\ UNCHANGED <<def, maybeStatus, maybeTrailer, sent>>

\* The grpc-status of a trailer: what is left of one that was cut short may
\* be read as any status.
StatusRead(trailer) ==
    IF trailer = body[Len(body)] THEN {ReadTrailer(sent["trailer"])}
    ELSE {ReadTrailer(s) : s \in HeaderStatus}

\* The body ends: with a trailer (the TRAILER branch of onFrame), without one,
\* or prematurely.
OnBodyEnd ==
    /\ pc = "body"
    /\ EndOfStream
    /\ \/ /\ result' = "premature EOF"
          /\ Throw("DATA_LOSS")
          /\ UNCHANGED <<maybeStatus, maybeTrailer>>
       \/ /\ result' = "resolved"
          /\ pc' = "finish"
          /\ UNCHANGED thrown
          /\ \/ /\ frames' = frames
                /\ UNCHANGED <<maybeStatus, maybeTrailer>>
             \/ /\ frames' # frames
                /\ maybeTrailer' = TRUE
                /\ maybeStatus' \in StatusRead(Last(frames'))
    /\ UNCHANGED <<def, maybeMessage, sent>>

\* A missing body, an unknown content type, a broken connection, an abort.
OnBodyError ==
    /\ pc = "body" /\ ~HasFrame(byteQueue)
    /\ \E code \in {"INTERNAL", "CANCELLED"} : Throw(code)
    /\ UNCHANGED bodyVars
    /\ UNCHANGED <<def, maybeMessage, maybeStatus, maybeTrailer, sent>>

\* The checks of the third handler: the error it throws, or "none".
Verdict ==
    IF ~maybeTrailer /\ maybeMessage THEN "DATA_LOSS"
    ELSE IF maybeStatus = "none" THEN "INTERNAL"
    ELSE IF ~maybeMessage /\ maybeStatus = "OK" THEN "DATA_LOSS"
    ELSE IF maybeStatus # "OK" THEN maybeStatus
    ELSE "none"

\* Mutant: the message is there whatever the trailer says.
MessageRead == maybeMessage

\* The message is resolved before the status is looked at.
MessageResolves == maybeMessage /\ maybeTrailer /\ maybeStatus # "none"

\* The third handler.
Finish ==
    /\ pc = "finish"
    /\ \/ /\ Verdict = "none"
          /\ Resolve({"message", "status", "trailer"})
          /\ pc' = "settled" /\ UNCHANGED thrown
       \/ /\ Verdict # "none"
          /\ Resolve(IF MessageResolves THEN {"message"} ELSE {})
          /\ Throw(Verdict)
    /\ UNCHANGED bodyVars
    /\ UNCHANGED <<maybeMessage, maybeStatus, maybeTrailer, sent>>

\* What the catch handler rejects, unless it is settled (rejectPending).
RejectedLast == Deferreds

Catch ==
    /\ pc = "catch"
    /\ RejectPending(RejectedLast)
    /\ pc' = "settled"
    /\ UNCHANGED bodyVars
    /\ UNCHANGED <<maybeMessage, maybeStatus, maybeTrailer, thrown, sent>>

Chain ==
    \/ OnResponse \/ OnFetchError \/ OnChunk \/ OnDataFrame \/ OnBodyEnd
    \/ OnBodyError \/ Finish \/ Catch

UnaryNext == Start \/ Chain

-----------------------------------------------------------------------------
\* OK is only reported for a response with exactly one message, complete, that
\* a trailer followed.
OkMeansOneMessage ==
    pc # "idle" /\ def["status"] = "resolved" =>
        /\ Len(body) = 2 /\ body[1].type = DATA
        /\ Len(frames) = 2 /\ frames[1] = body[1] /\ frames[2].type = TRAILER

\* The message resolves only with the whole of the one message, and with an
\* error status only if the server's trailer carried it.
MessageWasSent ==
    pc # "idle" /\ def["message"] = "resolved" =>
        /\ Len(body) = 2 /\ frames[1] = body[1] /\ Len(frames) = 2
        /\ pc = "settled" /\ def["status"] = "rejected" => thrown = maybeStatus

(* "If the server does not send a message, this promise will reject"         *)
(* (UnaryCall.response): message and OK both stand for one whole message and *)
(* a trailer behind it; a response with two messages, or cut short between   *)
(* message and trailer, gives neither.                                       *)
MessageIsTheServers == OkMeansOneMessage /\ MessageWasSent
=============================================================================
