-------------------------- MODULE GrpcSystemProofs --------------------------
(* Proofs about both ends of a gRPC call: for any number of requests and     *)
(* responses, whatever order the events of grpc-js come in. Each end is      *)
(* looked at by itself; the system is then shown to do at each end nothing   *)
(* that the end does not do by itself.                                       *)
EXTENDS GrpcSystem, TLAPS

-----------------------------------------------------------------------------
(* The client. Where a call is (phase), what the status was and what has     *)
(* come before decide everything that the caller is told: the invariant says *)
(* what each promise and the stream are, in every phase.                     *)

Outcomes == {"pending", "resolved", "rejected"}

ClientTypeOK ==
    /\ kind \in Kinds
    /\ signal \in {"none", "quiet", "aborted"} /\ listening \in BOOLEAN
    /\ phase \in Phases /\ code \in Codes \cup {"none"}
    /\ headers \in BOOLEAN /\ messages \in Nat /\ notified \in Nat
    /\ def \in [Deferreds(kind) -> Outcomes]
    /\ stream \in {"open", "done", "error"} /\ uncaught \in BOOLEAN

\* The phases in which no handler of the end of the call has run.
Early == {"idle", "open", "callback", "error"}

\* The events that end a call depend on its kind; OK comes behind the headers.
PhaseFits ==
    /\ phase = "callback" => kind \notin Responding
    /\ phase \in {"error", "end"} => kind \in Responding
    /\ code = "none" <=> phase \in {"idle", "open"}
    /\ phase = "error" => code # "OK"
    /\ code = "OK" => headers

\* A unary call that ended with OK and no message.
EmptyUnary == kind = "unary" /\ messages = 0

HeaderTold ==
    def["header"] = IF headers THEN "resolved"
                    ELSE IF phase \in Early THEN "pending" ELSE "rejected"

StatusTold ==
    /\ def["status"] = IF phase \in Early THEN "pending"
                       ELSE IF code # "OK" THEN "rejected"
                       ELSE IF phase = "status" THEN "pending"
                       ELSE IF EmptyUnary THEN "rejected" ELSE "resolved"
    /\ def["trailer"] = def["status"]

MessageTold ==
    kind \notin Responding =>
        /\ messages \in {0, 1}
        /\ def["message"] = IF phase \in Early THEN "pending"
                            ELSE IF code # "OK" THEN "rejected"
                            ELSE IF messages = 1 THEN "resolved"
                            ELSE IF EmptyUnary /\ phase = "over" THEN "rejected"
                            ELSE "pending"

StreamTold ==
    kind \in Responding =>
        /\ notified = messages
        /\ stream = IF phase \in Early THEN "open"
                    ELSE IF code # "OK" THEN "error"
                    ELSE IF phase = "over" THEN "done" ELSE "open"

ClientInv ==
    /\ ClientTypeOK /\ PhaseFits
    /\ HeaderTold /\ StatusTold /\ MessageTold /\ StreamTold
    /\ ~uncaught

\* The promises of a call by its kind.
LEMMA DeferredsOfKind ==
    ASSUME NEW k \in Kinds
    PROVE  /\ {"header", "status", "trailer"} \subseteq Deferreds(k)
           /\ "message" \in Deferreds(k) <=> k \notin Responding
           /\ Deferreds(k) \subseteq {"header", "message", "status", "trailer"}
BY DEF Kinds, Responding, Deferreds, UnaryCall, ServerStreamingCall,
       ClientStreamingCall, DuplexStreamingCall

LEMMA ClientInvInit == GrpcInit => ClientInv
<1> SUFFICES ASSUME GrpcInit PROVE ClientInv OBVIOUS
<1>1. kind \in Kinds BY DEF GrpcInit
<1> QED
  BY <1>1, DeferredsOfKind
     DEF GrpcInit, ClientInv, ClientTypeOK, PhaseFits, HeaderTold, StatusTold,
         MessageTold, StreamTold, Early, Outcomes, Phases, Codes

LEMMA CallStep ==
    ASSUME ClientInv, Call PROVE ClientInv'
BY DEF Call, ListensToAbort, ClientInv, ClientTypeOK, PhaseFits, HeaderTold,
       StatusTold, MessageTold, StreamTold, EmptyUnary, Early, Phases

\* Whatever ends an open call: nothing is told before grpc-js says so.
LEMMA EndsWithStep ==
    ASSUME ClientInv, phase = "open", NEW c \in Codes, EndsWith(c),
           c = "OK" => headers,
           UNCHANGED <<kind, listening, headers, messages, def, stream, notified, uncaught>>,
           signal' \in {"none", "quiet", "aborted"}
    PROVE  ClientInv'
BY DEF EndsWith, ClientInv, ClientTypeOK, PhaseFits, HeaderTold, StatusTold,
       MessageTold, StreamTold, EmptyUnary, Early, Phases, Codes

LEMMA AbortStep ==
    ASSUME ClientInv, Abort PROVE ClientInv'
<1>1. CASE listening /\ phase = "open"
  BY <1>1, EndsWithStep DEF Abort, Codes
<1>2. CASE ~(listening /\ phase = "open")
  BY <1>2 DEF Abort, ClientInv, ClientTypeOK, PhaseFits, HeaderTold, StatusTold,
              MessageTold, StreamTold, EmptyUnary
<1> QED BY <1>1, <1>2

\* The headers come once, so that the promise is pending.
LEMMA OnMetadataStep ==
    ASSUME ClientInv, OnMetadata PROVE ClientInv'
<1>1. kind \in Kinds /\ def["header"] = "pending"
  BY DEF OnMetadata, ClientInv, ClientTypeOK, HeaderTold, Early
<1>2. def' = [def EXCEPT !["header"] = "resolved"] /\ uncaught' = uncaught
  BY <1>1 DEF OnMetadata, Resolve
<1> QED
  BY <1>1, <1>2, DeferredsOfKind
     DEF OnMetadata, ClientInv, ClientTypeOK, PhaseFits, HeaderTold, StatusTold,
         MessageTold, StreamTold, EmptyUnary, Outcomes

\* The stream is open as long as messages come.
LEMMA OnDataStep ==
    ASSUME ClientInv, OnData PROVE ClientInv'
BY DEF OnData, ClientInv, ClientTypeOK, PhaseFits, HeaderTold, StatusTold,
       MessageTold, StreamTold, EmptyUnary, Early

LEMMA OnMessageStep ==
    ASSUME ClientInv, OnMessage PROVE ClientInv'
BY DEF OnMessage, ClientInv, ClientTypeOK, PhaseFits, HeaderTold, StatusTold,
       MessageTold, StreamTold, EmptyUnary, Early

LEMMA ServerEndsStep ==
    ASSUME ClientInv, ServerEnds PROVE ClientInv'
BY EndsWithStep DEF ServerEnds, ClientInv, ClientTypeOK, Codes

LEMMA OnCallbackStep ==
    ASSUME ClientInv, OnCallback PROVE ClientInv'
<1>1. kind \in Kinds /\ kind \notin Responding
  BY DEF OnCallback, ClientInv, ClientTypeOK, PhaseFits
<1>2. DOMAIN def = Deferreds(kind) BY DEF ClientInv, ClientTypeOK
<1>3. def["message"] = "pending" BY <1>1 DEF OnCallback, ClientInv, MessageTold, Early
<1>4. CASE code # "OK"
  BY <1>1, <1>2, <1>4, DeferredsOfKind
     DEF OnCallback, SettlePending, RejectedOnError, ClientInv, ClientTypeOK, PhaseFits,
         HeaderTold, StatusTold, MessageTold, StreamTold, EmptyUnary, Early, Outcomes, Phases
<1>5. CASE code = "OK" /\ messages = 1
  BY <1>1, <1>2, <1>3, <1>5, DeferredsOfKind
     DEF OnCallback, Resolve, ClientInv, ClientTypeOK, PhaseFits,
         HeaderTold, StatusTold, MessageTold, StreamTold, EmptyUnary, Early, Outcomes, Phases
<1>6. CASE code = "OK" /\ messages = 0
  BY <1>1, <1>6
     DEF OnCallback, ClientInv, ClientTypeOK, PhaseFits,
         HeaderTold, StatusTold, MessageTold, StreamTold, EmptyUnary, Early, Phases
<1> QED BY <1>1, <1>4, <1>5, <1>6 DEF ClientInv, MessageTold

LEMMA OnErrorStep ==
    ASSUME ClientInv, OnError PROVE ClientInv'
<1>1. kind \in Kinds /\ kind \in Responding
  BY DEF OnError, ClientInv, ClientTypeOK, PhaseFits
<1>2. DOMAIN def = Deferreds(kind) BY DEF ClientInv, ClientTypeOK
<1> QED
  BY <1>1, <1>2, DeferredsOfKind
     DEF OnError, StreamAfterError, SettlePending, RejectedOnError, ClientInv, ClientTypeOK,
         PhaseFits, HeaderTold, StatusTold, MessageTold, StreamTold, EmptyUnary, Early,
         Outcomes, Phases

\* What an error has rejected is not pending any more, so that 'status' only
\* tells the status of a call that ended with OK.
LEMMA OnStatusStep ==
    ASSUME ClientInv, OnStatus PROVE ClientInv'
<1>1. kind \in Kinds /\ DOMAIN def = Deferreds(kind) BY DEF ClientInv, ClientTypeOK
<1>2. MessageIsMissing <=> EmptyUnary /\ code = "OK"
  BY DEF OnStatus, MessageIsMissing, EmptyUnary, ClientInv, MessageTold, Responding, Early
<1>3. CASE MessageIsMissing
  BY <1>1, <1>2, <1>3, DeferredsOfKind
     DEF OnStatus, SettlePending, ClientInv, ClientTypeOK, PhaseFits, HeaderTold,
         StatusTold, MessageTold, StreamTold, EmptyUnary, Early, Outcomes, Phases, Responding
<1>4. CASE ~MessageIsMissing
  BY <1>1, <1>2, <1>4, DeferredsOfKind
     DEF OnStatus, SettlePending, ClientInv, ClientTypeOK, PhaseFits, HeaderTold,
         StatusTold, MessageTold, StreamTold, EmptyUnary, Early, Outcomes, Phases
<1> QED BY <1>3, <1>4

LEMMA OnEndStep ==
    ASSUME ClientInv, OnEnd PROVE ClientInv'
BY DEF OnEnd, EndChecked, ClientInv, ClientTypeOK, PhaseFits, HeaderTold, StatusTold,
       MessageTold, StreamTold, EmptyUnary, Early, Phases, Responding

LEMMA ClientInvStep ==
    ASSUME ClientInv, [GrpcNext]_grpcVars PROVE ClientInv'
<1>1. CASE UNCHANGED grpcVars
  BY <1>1 DEF grpcVars, clientVars, ClientInv, ClientTypeOK, PhaseFits, HeaderTold,
              StatusTold, MessageTold, StreamTold, EmptyUnary
<1>2. CASE GrpcNext
  BY <1>1, <1>2, CallStep, AbortStep, OnMetadataStep, OnDataStep, OnMessageStep,
     ServerEndsStep, OnCallbackStep, OnErrorStep, OnStatusStep, OnEndStep
     DEF GrpcNext, Over
<1> QED BY <1>1, <1>2

(* Promises, stream and the events that came fit at every step of a client's *)
(* call (grpc-transport.ts).                                                 *)
THEOREM ClientInvariant == GrpcSpec => []ClientInv
<1> QED BY ClientInvInit, ClientInvStep, PTL DEF GrpcSpec

\* Promise.all rejects with any of its promises, and resolves with all of them.
LEMMA AwaitRejects ==
    ASSUME NEW d \in DOMAIN def, def[d] = "rejected"
    PROVE  promiseFinished = "rejected"
<1>1. \E e \in DOMAIN def : def[e] = "rejected" OBVIOUS
<1>2. ~ \A e \in DOMAIN def : def[e] = "resolved" OBVIOUS
<1> QED BY <1>1, <1>2, Zenon DEF promiseFinished

LEMMA AwaitResolves ==
    ASSUME \A d \in DOMAIN def : def[d] = "resolved"
    PROVE  promiseFinished = "resolved"
<1>1. ~ \E e \in DOMAIN def : def[e] = "rejected" OBVIOUS
<1> QED BY <1>1, Zenon DEF promiseFinished

\* When the call is over, all that was told is the one outcome.
LEMMA ClientInvTellsTruth == ClientInv => StatusIsTrue
<1> SUFFICES ASSUME ClientInv PROVE StatusIsTrue OBVIOUS
<1>1. kind \in Kinds /\ DOMAIN def = Deferreds(kind) /\ "over" \notin Early
  BY DEF ClientInv, ClientTypeOK, Early
<1>2. StatusMeansOk
  BY <1>1, DeferredsOfKind
     DEF StatusMeansOk, OkWithoutMessage, ClientInv, ClientTypeOK, PhaseFits, HeaderTold, StatusTold,
         MessageTold, EmptyUnary, Kinds, Responding, Outcomes
<1>3. StreamMeansStatus
  BY <1>1 DEF StreamMeansStatus, ClientInv, ClientTypeOK, PhaseFits, StatusTold,
              StreamTold, EmptyUnary, Responding
<1>4. AwaitMeansStatus
  <2> SUFFICES ASSUME phase = "over", ~OkWithoutMessage
               PROVE  /\ promiseFinished = def["status"]
                      /\ promiseFinished = "resolved" /\ kind \in Responding
                           => stream = "done"
    BY DEF AwaitMeansStatus
  <2>1. "status" \in DOMAIN def BY <1>1, DeferredsOfKind
  <2>2. promiseFinished = def["status"]
    <3>1. CASE def["status"] = "rejected"
      BY <2>1, <3>1, AwaitRejects
    <3>2. CASE def["status"] # "rejected"
      <4>1. \A d \in DOMAIN def : def[d] = "resolved"
        BY <1>1, <3>2, DeferredsOfKind
           DEF ClientInv, ClientTypeOK, PhaseFits, HeaderTold, StatusTold, MessageTold,
               EmptyUnary, OkWithoutMessage, Kinds, Responding
      <4> QED BY <2>1, <4>1, AwaitResolves
    <3> QED BY <3>1, <3>2
  <2>3. def["status"] = "resolved" /\ kind \in Responding => stream = "done"
    BY <1>1, <1>3 DEF StreamMeansStatus
  <2> QED BY <2>2, <2>3
<1> QED BY <1>2, <1>3, <1>4 DEF StatusIsTrue

(* Whatever grpc-js emits, in whatever order: an outcome is told once, and    *)
(* promises, stream and the awaited call tell the same (grpc-transport.ts).  *)
THEOREM StatusIsAlwaysTrue == GrpcSpec => []StatusIsTrue
<1> QED BY ClientInvariant, ClientInvTellsTruth, PTL

-----------------------------------------------------------------------------
(* The server. No handler throws, as the request stream is closed by the     *)
(* last event of the client only, but for the kinds whose handlers look; and *)
(* the answer is made of a method and a status that do not change any more.  *)

AdapterTypeOK ==
    /\ kind \in Kinds
    /\ method \in {"running", "returned"} \cup Thrown /\ status \in StatusCodes
    /\ cancelled \in BOOLEAN
    /\ request \in {"open", "done", "error"} /\ received \in Nat
    /\ client \in {"sending", "ended", "broken"}
    /\ sends \in [asked : Nat, written : Nat]
    /\ error \in BOOLEAN /\ threw \in BOOLEAN

AnswerStands == answers # <<>> => method # "running" /\ answers = Answers

\* destroy() is for calls with a response stream.
DestroyedResponds == error => kind \in Responding

\* Where the handlers do not look, only the end of the client's side closes
\* the request stream.
RequestFollowsClient ==
    kind \in Requesting \ Checked => (request = "open" <=> client = "sending")

AdapterInv ==
    /\ AdapterTypeOK /\ AnswerStands
    /\ DestroyedResponds /\ RequestFollowsClient
    /\ ~threw

LEMMA AdapterInvInit == AdapterInit => AdapterInv
<1> SUFFICES ASSUME AdapterInit PROVE AdapterInv OBVIOUS
<1>1. AdapterTypeOK
  <2>1. sends \in [asked : Nat, written : Nat] BY DEF AdapterInit
  <2> QED BY <2>1 DEF AdapterInit, AdapterTypeOK, StatusCodes
<1>2. AnswerStands BY DEF AdapterInit, AnswerStands
<1> QED
  BY <1>1, <1>2 DEF AdapterInit, AdapterInv, DestroyedResponds, RequestFollowsClient

\* An answer stands as long as nothing it was made of changes.
LEMMA AnswerStandsOn ==
    ASSUME AnswerStands, answers' = answers,
           answers = <<>> \/ UNCHANGED <<kind, method, status>>
    PROVE  AnswerStands'
<1>1. CASE answers = <<>> BY <1>1 DEF AnswerStands
<1>2. CASE UNCHANGED <<kind, method, status>>
  <2>1. Answers' = Answers BY <1>2 DEF Answers, StatusAnswer, ErrorAnswer, DestroyCode
  <2> QED BY <1>2, <2>1 DEF AnswerStands
<1> QED BY <1>1, <1>2

\* An event of the request stream, which only closes with the client's side.
LEMMA NotifyStep ==
    ASSUME AdapterInv, NEW r \in {"open", "done", "error"}, NEW m \in BOOLEAN,
           kind \in Requesting, Notify(r, m),
           \/ /\ client = "sending"
              /\ client' \in {"sending", "ended", "broken"}
              /\ r = "open" <=> client' = "sending"
           \/ error /\ client' = client,
           error' \in {error, FALSE},
           UNCHANGED <<kind, method, status, cancelled, sends, answers>>
    PROVE  AdapterInv'
<1>1. error => kind \in Checked
  BY DEF AdapterInv, DestroyedResponds, Responding, Requesting, Checked
<1>2. request # "open" => kind \in Checked
  BY <1>1 DEF AdapterInv, RequestFollowsClient
<1>3. threw' = threw /\ received' \in Nat /\ request' \in {"open", "done", "error"}
      /\ (kind \notin Checked => request' = r)
  BY <1>2 DEF Notify, AdapterInv, AdapterTypeOK
<1>4. AdapterTypeOK' BY <1>3 DEF AdapterInv, AdapterTypeOK
<1>5. RequestFollowsClient' BY <1>1, <1>3 DEF RequestFollowsClient
<1>6. AnswerStands' BY AnswerStandsOn DEF AdapterInv
<1>7. DestroyedResponds' BY DEF AdapterInv, AdapterTypeOK, DestroyedResponds
<1> QED BY <1>3, <1>4, <1>5, <1>6, <1>7 DEF AdapterInv

LEMMA OnDestroyedStep == ASSUME AdapterInv, OnDestroyed PROVE AdapterInv'
<1>1. CASE kind \in Requesting BY <1>1, NotifyStep DEF OnDestroyed
<1>2. CASE kind \notin Requesting
  <2>1. AdapterTypeOK' BY <1>2 DEF OnDestroyed, AdapterInv, AdapterTypeOK
  <2>2. AnswerStands' BY AnswerStandsOn DEF OnDestroyed, AdapterInv
  <2>3. DestroyedResponds' BY DEF OnDestroyed, AdapterInv, DestroyedResponds
  <2>4. RequestFollowsClient' BY <1>2 DEF OnDestroyed, AdapterInv, RequestFollowsClient
  <2>5. ~threw' BY <1>2 DEF OnDestroyed, AdapterInv
  <2> QED BY <2>1, <2>2, <2>3, <2>4, <2>5 DEF AdapterInv
<1> QED BY <1>1, <1>2

LEMMA SendStep == ASSUME AdapterInv, Send PROVE AdapterInv'
<1>1. sends \in [asked : Nat, written : Nat] BY DEF AdapterInv, AdapterTypeOK
<1>2. sends' = [asked |-> sends.asked + 1, written |-> sends.written]
  BY <1>1 DEF Send
<1>3. AdapterTypeOK' BY <1>1, <1>2 DEF Send, AdapterInv, AdapterTypeOK
<1>4. AnswerStands' BY AnswerStandsOn DEF Send, AdapterInv
<1> QED
  BY <1>3, <1>4
     DEF Send, AdapterInv, DestroyedResponds, RequestFollowsClient

LEMMA WrittenStep == ASSUME AdapterInv, Written PROVE AdapterInv'
<1>1. sends \in [asked : Nat, written : Nat] BY DEF AdapterInv, AdapterTypeOK
<1>2. sends' = [asked |-> sends.asked, written |-> sends.written + 1]
  BY <1>1 DEF Written
<1>3. AdapterTypeOK' BY <1>1, <1>2 DEF Written, AdapterInv, AdapterTypeOK
<1>4. AnswerStands' BY AnswerStandsOn DEF Written, AdapterInv
<1> QED
  BY <1>3, <1>4 DEF Written, AdapterInv, DestroyedResponds, RequestFollowsClient

\* While the method runs nothing has been answered.
LEMMA MethodSettlesStep == ASSUME AdapterInv, MethodSettles PROVE AdapterInv'
<1>1. answers = <<>> BY DEF MethodSettles, AdapterInv, AnswerStands
<1> QED
  BY <1>1, AnswerStandsOn
     DEF MethodSettles, AdapterInv, AdapterTypeOK, DestroyedResponds,
         RequestFollowsClient

LEMMA SetStatusStep ==
    ASSUME AdapterInv, NEW s \in StatusCodes, SetStatus(s) PROVE AdapterInv'
<1>1. answers = <<>> BY DEF SetStatus, AdapterInv, AnswerStands
<1> QED
  BY <1>1, AnswerStandsOn
     DEF SetStatus, AdapterInv, AdapterTypeOK, DestroyedResponds,
         RequestFollowsClient

LEMMA OnCancelledStep == ASSUME AdapterInv, OnCancelled PROVE AdapterInv'
BY AnswerStandsOn
   DEF OnCancelled, AdapterInv, AdapterTypeOK, DestroyedResponds,
       RequestFollowsClient

LEMMA AnswerStep == ASSUME AdapterInv, Answer PROVE AdapterInv'
<1>1. Answers' = Answers BY DEF Answer, Answers, StatusAnswer, ErrorAnswer
<1>2. Answers[1].how = "destroy" => kind \in Responding
  BY DEF Answers, StatusAnswer, ErrorAnswer
<1> QED
  BY <1>1, <1>2
     DEF Answer, AdapterInv, AdapterTypeOK, AnswerStands,
         DestroyedResponds, RequestFollowsClient

LEMMA AdapterInvStep ==
    ASSUME AdapterInv, [AdapterNext]_adapterVars PROVE AdapterInv'
<1>1. CASE UNCHANGED adapterVars
  BY <1>1, AnswerStandsOn
     DEF adapterVars, serverVars, AdapterInv, AdapterTypeOK,
         DestroyedResponds, RequestFollowsClient
<1>2. CASE OnRequest BY <1>2, NotifyStep DEF OnRequest
<1>3. CASE OnRequestsEnd BY <1>3, NotifyStep DEF OnRequestsEnd
<1>4. CASE OnRequestError BY <1>4, NotifyStep DEF OnRequestError
<1> QED
  BY <1>1, <1>2, <1>3, <1>4, OnDestroyedStep, SendStep, WrittenStep,
     MethodSettlesStep, SetStatusStep, OnCancelledStep, AnswerStep
     DEF AdapterNext

(* What was answered, written and asked fit at every step of the adapter of a *)
(* method (grpc-adapter.ts).                                                 *)
THEOREM AdapterInvariant == AdapterSpec => []AdapterInv
<1> QED BY AdapterInvInit, AdapterInvStep, PTL DEF AdapterSpec

\* An error of a method comes to OK in the callback of a RpcError only.
LEMMA ErrorAsAnswer ==
    ASSUME method \in Thrown
    PROVE  /\ ErrorAnswer.how \notin {"end", "response"}
           /\ ErrorAnswer.code = "OK" <=> kind \notin Responding /\ method = "OK RpcError"
BY DEF Thrown, ErrorAnswer, DestroyCode

\* The status of a method that has returned comes to OK as it should.
LEMMA StatusAsAnswer ==
    ASSUME status \in StatusCodes
    PROVE  /\ StatusAnswer.how \in {"end", "response"} <=> status = "OK"
           /\ StatusAnswer.code = "OK" <=> status = "OK"
BY DEF StatusCodes, StatusAnswer

LEMMA AdapterInvAnswersTruly == AdapterInv => OkMeansReturned
<1> SUFFICES ASSUME AdapterInv, answers # <<>> PROVE
      /\ answers[1].how \in {"end", "response"} <=> method = "returned" /\ status = "OK"
      /\ answers[1].code = "OK" <=>
            \/ answers[1].how \in {"end", "response"}
            \/ kind \notin Responding /\ method = "OK RpcError"
  BY DEF OkMeansReturned
<1>1. method # "running" /\ answers = Answers BY DEF AdapterInv, AnswerStands
<1>2. CASE method = "returned"
  <2>1. answers[1] = StatusAnswer BY <1>1, <1>2 DEF Answers
  <2> QED BY <1>2, <2>1, StatusAsAnswer DEF AdapterInv, AdapterTypeOK
<1>3. CASE method # "returned"
  <2>1. method \in Thrown BY <1>1, <1>3 DEF AdapterInv, AdapterTypeOK
  <2>2. answers[1] = ErrorAnswer BY <1>1, <1>3 DEF Answers
  <2> QED BY <1>3, <2>1, <2>2, ErrorAsAnswer
<1> QED BY <1>2, <1>3

(* The adapter answers with the response, or ends the call well, exactly if  *)
(* the method returned with an OK status; and with OK otherwise only where a *)
(* method with one response throws a RpcError of that code (grpc-adapter.ts).*)
THEOREM OkAlwaysMeansReturned == AdapterSpec => []OkMeansReturned
<1> QED BY AdapterInvariant, AdapterInvAnswersTruly, PTL

-----------------------------------------------------------------------------
(* Both ends. The composition only leaves out steps that an end could do by  *)
(* itself, so what was proved of the ends holds in the system too.           *)

LEMMA ClientIsGrpcCall == [SystemNext]_systemVars => [GrpcNext]_grpcVars
<1> SUFFICES ASSUME [SystemNext]_systemVars PROVE [GrpcNext]_grpcVars OBVIOUS
<1>1. CASE UNCHANGED systemVars BY <1>1 DEF systemVars, grpcVars
<1>2. CASE TransportAlone BY <1>2 DEF TransportAlone
<1>3. CASE BackendAlone
  <2>1. UNCHANGED kind
    BY <1>3 DEF BackendAlone, AdapterNext, OnRequest, OnRequestsEnd, OnRequestError,
                OnDestroyed, OnCancelled, Send, Written, MethodSettles, Answer, SetStatus,
                adapterVars
  <2> QED BY <1>3, <2>1 DEF BackendAlone, grpcVars
<1>4. CASE ClientStep BY <1>4 DEF ClientStep, GrpcNext
<1>5. CASE ClientSends BY <1>5 DEF ClientSends, grpcVars
<1>6. CASE ResponseArrives BY <1>6 DEF ResponseArrives, GrpcNext
<1>7. CASE StatusArrives
  <2>1. ServerEnds BY <1>7 DEF StatusArrives, ServerEnds
  <2> QED BY <2>1 DEF GrpcNext
<1>8. CASE ConnectionLost
  <2>1. ServerEnds BY <1>8 DEF ConnectionLost, ServerEnds
  <2> QED BY <2>1 DEF GrpcNext
<1>9. CASE ServerStep
  <2>1. UNCHANGED kind
    BY <1>9 DEF ServerStep, RequestArrives, OnRequest, OnRequestsEnd, OnRequestError,
                OnDestroyed, OnCancelled, Send, Written, MethodSettles, Answer, SetStatus
  <2> QED BY <1>9, <2>1 DEF ServerStep, grpcVars
<1> QED
  BY <1>1, <1>2, <1>3, <1>4, <1>5, <1>6, <1>7, <1>8, <1>9 DEF SystemNext, BothEnds

\* No step of the client touches the server, or the kind of the call.
LEMMA ClientKeepsKind == ASSUME GrpcNext PROVE UNCHANGED kind
BY DEF GrpcNext, Call, Abort, OnMetadata, OnData, OnMessage, ServerEnds, OnCallback,
       OnError, OnStatus, OnEnd, Over, grpcVars

LEMMA ServerIsGrpcAdapter == [SystemNext]_systemVars => [AdapterNext]_adapterVars
<1> SUFFICES ASSUME [SystemNext]_systemVars PROVE [AdapterNext]_adapterVars OBVIOUS
<1>1. CASE UNCHANGED systemVars BY <1>1 DEF systemVars, adapterVars
<1>2. CASE TransportAlone
  BY <1>2, ClientKeepsKind DEF TransportAlone, adapterVars
<1>3. CASE BackendAlone BY <1>3 DEF BackendAlone
<1>4. CASE ClientStep
  BY <1>4, ClientKeepsKind DEF ClientStep, GrpcNext, adapterVars
<1>5. CASE ClientSends BY <1>5 DEF ClientSends, adapterVars
<1>6. CASE ResponseArrives
  BY <1>6, ClientKeepsKind DEF ResponseArrives, GrpcNext, adapterVars
<1>7. CASE StatusArrives BY <1>7 DEF StatusArrives, adapterVars
<1>8. CASE ConnectionLost BY <1>8 DEF ConnectionLost, adapterVars
<1>9. CASE ServerStep
  BY <1>9 DEF ServerStep, RequestArrives, AdapterNext
<1> QED
  BY <1>1, <1>2, <1>3, <1>4, <1>5, <1>6, <1>7, <1>8, <1>9 DEF SystemNext, BothEnds

(* Each end of the system is the component that models it: the network only  *)
(* restricts when its events come.                                           *)
THEOREM SystemIsItsEnds == SystemSpec => GrpcSpec /\ AdapterSpec
<1>1. SystemInit => GrpcInit /\ AdapterInit BY DEF SystemInit
<1> QED
  BY <1>1, ClientIsGrpcCall, ServerIsGrpcAdapter, PTL
     DEF SystemSpec, GrpcSpec, AdapterSpec

LEMMA EndsInvariant == SystemSpec => [](ClientInv /\ AdapterInv)
<1> QED BY SystemIsItsEnds, ClientInvariant, AdapterInvariant, PTL

(* The order of the events of both ends, and of an abort, of a lost          *)
(* connection and of the method, never makes a handler throw.                *)
THEOREM HandlersNeverThrow == SystemSpec => []NoHandlerThrows
<1>1. ClientInv /\ AdapterInv => NoHandlerThrows
  BY DEF ClientInv, AdapterInv, NoHandlerThrows
<1> QED BY <1>1, EndsInvariant, PTL

(* What is told at either end of the system is true of that end.             *)
THEOREM EndsTellTruth == SystemSpec => [](StatusIsTrue /\ OkMeansReturned)
<1> QED BY EndsInvariant, ClientInvTellsTruth, AdapterInvAnswersTruly, PTL

-----------------------------------------------------------------------------
(* From end to end: OK only reaches the client as the answer of the server,  *)
(* behind everything the method has sent; and the method is over by then.    *)

OkIsAnswered ==
    peers = "both" /\ code = "OK" =>
        /\ answers # <<>> /\ answers[1].code = "OK"
        /\ messages = BeforeStatus

SystemInv == ClientInv /\ AdapterInv /\ OkIsAnswered

\* After the answer neither the answer changes nor what was sent.
LEMMA AnswerIsLast ==
    ASSUME AdapterInv, answers # <<>>, [AdapterNext]_adapterVars
    PROVE  UNCHANGED <<answers, kind>> /\ sends'.asked = sends.asked
<1>1. method # "running" BY DEF AdapterInv, AnswerStands
<1>2. CASE UNCHANGED adapterVars BY <1>2 DEF adapterVars, serverVars
<1>3. CASE Written
  <2>1. sends \in [asked : Nat, written : Nat] BY DEF AdapterInv, AdapterTypeOK
  <2> QED BY <1>3, <2>1 DEF Written
<1>4. CASE AdapterNext /\ ~Written
  BY <1>1, <1>4
     DEF AdapterNext, OnRequest, OnRequestsEnd, OnRequestError, OnDestroyed, OnCancelled,
         Send, MethodSettles, Answer, SetStatus
<1> QED BY <1>2, <1>3, <1>4

\* The end of a call does not change the code or the messages any more.
LEMMA CodeIsLast ==
    ASSUME ClientInv, code = "OK", [GrpcNext]_grpcVars
    PROVE  UNCHANGED <<code, messages>>
<1>1. phase \notin {"idle", "open"} BY DEF ClientInv, PhaseFits
<1>2. CASE UNCHANGED grpcVars BY <1>2 DEF grpcVars, clientVars
<1>3. CASE GrpcNext
  BY <1>1, <1>3
     DEF GrpcNext, Call, Abort, OnMetadata, OnData, OnMessage, ServerEnds, OnCallback,
         OnError, OnStatus, OnEnd, Over, EndsWith, grpcVars, clientVars
<1> QED BY <1>2, <1>3

\* OK comes to the client with the status of the server only.
LEMMA OkComesFromServer ==
    ASSUME [SystemNext]_systemVars, peers = "both", code # "OK", code' = "OK"
    PROVE  StatusArrives /\ answers[1].code = "OK"
<1>1. ~ UNCHANGED code OBVIOUS
<1>2. ~ UNCHANGED systemVars BY <1>1 DEF systemVars, clientVars
<1>3. ~ TransportAlone /\ ~ BackendAlone BY DEF TransportAlone, BackendAlone
<1>4. ~ ClientStep
  BY <1>1 DEF ClientStep, Call, Abort, OnMetadata, OnCallback, OnError, OnStatus, OnEnd,
              Over, EndsWith, grpcVars, clientVars
<1>5. ~ ClientSends /\ ~ ServerStep BY <1>1 DEF ClientSends, ServerStep, clientVars
<1>6. ~ ResponseArrives BY <1>1 DEF ResponseArrives, OnData, OnMessage
<1>7. ~ ConnectionLost BY DEF ConnectionLost, EndsWith
<1>8. StatusArrives
  BY <1>2, <1>3, <1>4, <1>5, <1>6, <1>7 DEF SystemNext, BothEnds
<1> QED BY <1>8 DEF StatusArrives, EndsWith

LEMMA OkIsAnsweredStep ==
    ASSUME SystemInv, [SystemNext]_systemVars PROVE OkIsAnswered'
<1> SUFFICES ASSUME peers' = "both", code' = "OK"
             PROVE  /\ answers' # <<>> /\ answers'[1].code = "OK"
                    /\ messages' = BeforeStatus'
  BY DEF OkIsAnswered
<1>1. peers = "both"
  BY DEF SystemNext, TransportAlone, BackendAlone, BothEnds, systemVars, netVars
<1>2. CASE code = "OK"
  <2>1. answers # <<>> /\ answers[1].code = "OK"
        /\ messages = BeforeStatus
    BY <1>1, <1>2 DEF SystemInv, OkIsAnswered
  <2>2. UNCHANGED <<answers, kind>> /\ sends'.asked = sends.asked
    BY <2>1, AnswerIsLast, ServerIsGrpcAdapter DEF SystemInv
  <2>3. UNCHANGED <<code, messages>>
    BY <1>2, CodeIsLast, ClientIsGrpcCall DEF SystemInv
  <2> QED BY <2>1, <2>2, <2>3 DEF BeforeStatus
<1>3. CASE code # "OK"
  <2>1. StatusArrives /\ answers[1].code = "OK" BY <1>1, <1>3, OkComesFromServer
  <2> QED BY <2>1 DEF StatusArrives, BeforeStatus, serverVars
<1> QED BY <1>2, <1>3

LEMMA SystemInvariant == SystemSpec => []SystemInv
<1>1. SystemInit => SystemInv
  <2>1. SystemInit => ClientInv /\ AdapterInv
    BY ClientInvInit, AdapterInvInit DEF SystemInit
  <2> QED BY <2>1 DEF SystemInit, GrpcInit, SystemInv, OkIsAnswered
<1>2. SystemInv /\ [SystemNext]_systemVars => SystemInv'
  BY ClientIsGrpcCall, ServerIsGrpcAdapter, ClientInvStep, AdapterInvStep, OkIsAnsweredStep
     DEF SystemInv
<1> QED BY <1>1, <1>2, PTL DEF SystemSpec

LEMMA SystemInvIsEndToEnd == SystemInv => OkIsTheMethods
<1> SUFFICES ASSUME SystemInv, peers = "both", def["status"] = "resolved"
             PROVE  \/ /\ method = "returned" /\ status = "OK"
                       /\ IF kind \in Responding THEN notified = sends.asked
                                                 ELSE def["message"] = "resolved"
                    \/ method = "OK RpcError" /\ OkWithoutMessage
  BY DEF OkIsTheMethods
<1>1. code = "OK" /\ phase \notin Early /\ phase # "status" /\ ~EmptyUnary
  BY DEF SystemInv, ClientInv, StatusTold
<1>2. answers # <<>> /\ answers[1].code = "OK" /\ messages = BeforeStatus
  BY <1>1 DEF SystemInv, OkIsAnswered
<1>3. /\ answers[1].how \in {"end", "response"} <=> method = "returned" /\ status = "OK"
      /\ \/ answers[1].how \in {"end", "response"}
         \/ kind \notin Responding /\ method = "OK RpcError"
  BY <1>2, AdapterInvAnswersTruly DEF SystemInv, OkMeansReturned
<1>4. CASE method = "returned" /\ status = "OK" /\ kind \in Responding
  BY <1>2, <1>4 DEF BeforeStatus, SystemInv, ClientInv, StreamTold
<1>5. CASE method = "returned" /\ status = "OK" /\ kind \notin Responding
  <2>1. answers[1] = StatusAnswer
    BY <1>2, <1>5 DEF SystemInv, AdapterInv, AnswerStands, Answers
  <2>2. answers[1].how = "response" BY <1>5, <2>1 DEF StatusAnswer
  <2> QED BY <1>1, <1>2, <1>5, <2>2 DEF BeforeStatus, SystemInv, ClientInv, MessageTold
<1>6. CASE ~(method = "returned" /\ status = "OK")
  <2>1. answers[1].how # "response" /\ kind \notin Responding /\ method = "OK RpcError"
    BY <1>3, <1>6
  <2>2. messages = 0 BY <1>2, <2>1 DEF BeforeStatus
  <2>3. kind = "clientStreaming"
    BY <1>1, <2>1, <2>2
       DEF EmptyUnary, SystemInv, ClientInv, ClientTypeOK, Kinds, Responding
  <2> QED BY <1>1, <2>1, <2>2, <2>3 DEF OkWithoutMessage
<1> QED BY <1>4, <1>5, <1>6

(* Where both ends are this code, the client reports OK only if the method   *)
(* has returned with an OK status, and has all that the method has sent; or, *)
(* without a message, if a client streaming method threw a RpcError with OK. *)
THEOREM OkIsAlwaysTheMethods == SystemSpec => []OkIsTheMethods
<1> QED BY SystemInvariant, SystemInvIsEndToEnd, PTL
=============================================================================
