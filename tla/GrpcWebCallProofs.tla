------------------------- MODULE GrpcWebCallProofs -------------------------
(* What the promises of a grpc-web server streaming call say of its response *)
(* and of its stream, for any callbacks, loops and numbers of messages.      *)
EXTENDS GrpcWebCall, RpcOutputStreamProofs

(* The stream of a call is an RpcOutputStream: each step of a call is a step *)
(* of the stream, or does not touch it. All that is proved of the stream     *)
(* holds of it here.                                                         *)
THEOREM CallFeedsStream == CallSpec => Spec
<1>1. CallInit => Init BY DEF CallInit
<1>2. [CallNext]_allVars => [Next]_vars
  <2> SUFFICES ASSUME [CallNext]_allVars PROVE [Next]_vars OBVIOUS
  <2>1. CASE Start \/ OnResponse \/ OnFetchError \/ AfterMessage \/ OnBodyError \/ OnBodyEnd
             \/ AfterComplete \/ AfterError
    BY <2>1 DEF Start, OnResponse, OnFetchError, AfterMessage, OnBodyError, OnBodyEnd,
                AfterComplete, AfterError
  <2>2. CASE OnDataFrame \/ Finish \/ Catch
    BY <2>2 DEF OnDataFrame, Finish, Catch, Next, NotifyNext
  <2>3. CASE Reader \/ ReaderThrows BY <2>3 DEF Reader, ReaderThrows, Next
  <2>4. CASE UNCHANGED allVars BY <2>4 DEF allVars
  <2> QED BY <2>1, <2>2, <2>3, <2>4 DEF CallNext, Chain
<1> QED BY <1>1, <1>2, PTL DEF CallSpec, Spec

Reading == {"body", "dispatch", "finish"}
Notifying == {"dispatch", "completing", "failing"}

\* What OkNeedsTrailer says of the status OK.
Complete == headerCode \in {"none", "OK"} /\ Len(log) = frames + 1 /\ OkEnding

\* Inside one notify call at most, and only where the chain makes one.
OneNotify ==
    /\ Len(stack) <= 1
    /\ pc \notin Notifying => stack = <<>>

\* What is settled, and how the stream stands, at each place of the chain.
ChainAt ==
    /\ pc \in PCs
    /\ def \in [Deferreds -> {"pending", "resolved", "rejected"}]
    /\ pc \in {"idle", "refused", "fetch"} \cup Reading => closed = "open"
    /\ pc \in Reading \cup {"completing"} => def["header"] = "resolved"
    /\ pc # "settled" => def["status"] = "pending" /\ def["trailer"] = "pending"
    /\ pc = "completing" => closed = "done"
    /\ pc = "failing" => closed = "error" /\ def["header"] # "pending"
    /\ StreamAgreesWithStatus

\* What has been read of the response.
ReadSoFar ==
    /\ frames \in Nat
    /\ pc \in {"idle", "refused", "fetch"} \cup Reading => Len(log) = frames
    /\ pc \in {"idle", "refused", "fetch", "body", "dispatch"} => maybeTrailer = FALSE
    /\ pc \in {"idle", "refused", "fetch"} => emptyBody = TRUE /\ frames = 0
    /\ pc \in {"body", "finish"} => (emptyBody <=> frames = 0)
    /\ pc = "dispatch" => frames > 0
    /\ pc \in Reading => headerCode \in {"none", "OK"}
    /\ pc \in {"body", "dispatch"} => maybeStatus = headerCode
    /\ pc = "finish" => IF maybeTrailer
                        THEN ending \in HeaderStatus /\ maybeStatus = ReadTrailer(ending)
                        ELSE ending = "eof" /\ maybeStatus = headerCode
    /\ pc = "completing" => Complete
    /\ OkNeedsTrailer

CallInv == OneNotify /\ ChainAt /\ ReadSoFar

LEMMA CallInvInit == CallInit => CallInv
<1> SUFFICES ASSUME CallInit PROVE CallInv OBVIOUS
<1>1. stack = <<>> /\ Len(stack) = 0 /\ Len(log) = 0 BY DEF CallInit, Init
<1>2. OneNotify BY <1>1 DEF OneNotify
<1>3. ChainAt
  BY DEF CallInit, Init, ChainAt, PCs, Reading, Deferreds, StreamAgreesWithStatus
<1>4. ReadSoFar
  BY <1>1 DEF CallInit, ReadSoFar, Reading, OkNeedsTrailer, Deferreds
<1> QED BY <1>2, <1>3, <1>4 DEF CallInv
-----------------------------------------------------------------------------
(* The chain's part of a step.                                               *)

LEMMA OneNotifyStep ==
    ASSUME TypeOK, CallInv, CallNext \/ UNCHANGED allVars
    PROVE  OneNotify'
<1> USE DEF OneNotify, Notifying
<1>1. CASE Start \/ OnResponse \/ OnFetchError \/ AfterMessage \/ OnBodyError \/ OnBodyEnd
           \/ AfterComplete \/ AfterError
  <2>1. stack = <<>> /\ stack' = <<>>
    BY <1>1 DEF Start, OnResponse, OnFetchError, AfterMessage, OnBodyError, OnBodyEnd,
                AfterComplete, AfterError, vars
  <2> QED BY <2>1
<1>2. CASE OnDataFrame
  <2>1. stack = <<>> /\ NotifyMessage /\ pc' = "dispatch" BY <1>2 DEF OnDataFrame
  <2>2. Len(stack') = 1 BY <2>1, Emits DEF NotifyMessage, Emissions, Kinds
  <2> QED BY <2>1, <2>2
<1>3. CASE Finish
  <2>1. stack = <<>> BY <1>3 DEF Finish
  <2>2. CASE NotifyComplete /\ pc' = "completing"
    <3>1. Len(stack') = 1 BY <2>1, <2>2, Emits DEF NotifyComplete, Emissions, Kinds
    <3> QED BY <2>2, <3>1
  <2>3. CASE UNCHANGED vars BY <2>1, <2>3 DEF vars
  <2> QED BY <1>3, <2>2, <2>3 DEF Finish
<1>4. CASE Catch
  <2>1. stack = <<>> BY <1>4 DEF Catch
  <2>2. CASE NotifyError /\ pc' = "failing"
    <3>1. Len(stack') = 1 BY <2>1, <2>2, Emits DEF NotifyError, Emissions, Kinds
    <3> QED BY <2>2, <3>1
  <2>3. CASE UNCHANGED vars BY <2>1, <2>3 DEF vars
  <2> QED BY <1>4, <2>2, <2>3 DEF Catch
<1>5. CASE Reader
  <2>1. Len(stack') <= 1 /\ (stack = <<>> => stack' = <<>>) /\ UNCHANGED pc
    BY <1>5, ReaderKeepsStream DEF CallInv, callVars, Reader, ReaderStep
  <2> QED BY <2>1 DEF CallInv
<1>6. CASE ReaderThrows
  <2>1. stack # <<>> /\ stack' = Front(stack)
    BY <1>6 DEF ReaderThrows, ListenerThrows, InCallback
  <2>2. stack' = <<>> /\ Len(stack') = 0 BY <2>1, LeavesNotify DEF CallInv
  <2> QED BY <2>2
<1>7. CASE UNCHANGED allVars BY <1>7 DEF allVars, vars, callVars, CallInv
<1> QED BY <1>1, <1>2, <1>3, <1>4, <1>5, <1>6, <1>7 DEF CallNext, Chain

LEMMA ChainAtStep ==
    ASSUME TypeOK, CallInv, CallNext \/ UNCHANGED allVars
    PROVE  ChainAt'
<1> USE DEF ChainAt, StreamAgreesWithStatus, Reading, PCs, Deferreds
<1>0. ChainAt /\ Len(stack) <= 1 BY DEF CallInv, OneNotify
<1>1. CASE Start
  <2>1. pc = "idle" /\ pc' \in {"refused", "fetch"} /\ UNCHANGED <<closed, def>>
    BY <1>1 DEF Start, vars
  <2> QED BY <1>0, <2>1
<1>2. CASE OnResponse
  <2>1. /\ pc = "fetch" /\ Resolve({"header"}) /\ UNCHANGED closed
        /\ pc' \in {"body", "catch"}
    BY <1>2 DEF OnResponse, ResolvedFirst, AfterHeader, Throw, vars
  <2>2. /\ def' \in [Deferreds -> {"pending", "resolved", "rejected"}]
        /\ def'["header"] = "resolved"
        /\ def'["status"] = def["status"] /\ def'["trailer"] = def["trailer"]
    BY <1>0, <2>1 DEF Resolve
  <2> QED BY <1>0, <2>1, <2>2
<1>3. CASE OnFetchError \/ OnBodyError
  <2>1. pc \in {"fetch", "body"} /\ pc' = "catch" /\ UNCHANGED <<closed, def>>
    BY <1>3 DEF OnFetchError, OnBodyError, Throw, vars
  <2> QED BY <1>0, <2>1
<1>4. CASE OnDataFrame
  <2>1. stack = <<>> /\ NotifyMessage /\ pc = "body" /\ pc' = "dispatch" /\ UNCHANGED def
    BY <1>4 DEF OnDataFrame
  <2>2. closed' = "open" BY <2>1, Emits DEF NotifyMessage, Emissions, Kinds
  <2> QED BY <1>0, <2>1, <2>2
<1>5. CASE AfterMessage \/ OnBodyEnd
  <2>1. pc \in {"body", "dispatch"} /\ pc' \in {"body", "finish"} /\ UNCHANGED <<closed, def>>
    BY <1>5 DEF AfterMessage, OnBodyEnd, vars
  <2> QED BY <1>0, <2>1
<1>6. CASE Finish
  <2>1. stack = <<>> /\ pc = "finish" /\ UNCHANGED def BY <1>6 DEF Finish
  <2>2. CASE NotifyComplete /\ pc' = "completing"
    <3>1. closed' = "done" BY <2>1, <2>2, Emits DEF NotifyComplete, Emissions, Kinds
    <3> QED BY <1>0, <2>1, <2>2, <3>1
  <2>3. CASE pc' = "catch" /\ UNCHANGED vars
    <3>1. UNCHANGED closed BY <2>3 DEF vars
    <3> QED BY <1>0, <2>1, <2>3, <3>1
  <2> QED BY <1>6, <2>2, <2>3 DEF Finish, Throw
<1>7. CASE AfterComplete
  <2>1. pc = "completing" /\ pc' = "settled" /\ Resolve({"status", "trailer"}) /\ UNCHANGED closed
    BY <1>7 DEF AfterComplete, ResolvedLast, vars
  <2>2. /\ def' \in [Deferreds -> {"pending", "resolved", "rejected"}]
        /\ def'["header"] = "resolved" /\ def'["status"] = "resolved" /\ def'["trailer"] = "resolved"
    BY <1>0, <2>1 DEF Resolve
  <2> QED BY <1>0, <2>1, <2>2
<1>8. CASE Catch
  <2>1. stack = <<>> /\ pc = "catch" /\ RejectPending({"header"}) BY <1>8 DEF Catch
  <2>2. /\ def' \in [Deferreds -> {"pending", "resolved", "rejected"}]
        /\ def'["header"] # "pending"
        /\ def'["status"] = def["status"] /\ def'["trailer"] = def["trailer"]
    BY <1>0, <2>1 DEF RejectPending
  <2>3. CASE NotifyError /\ pc' = "failing"
    <3>1. closed' = "error" BY <2>1, <2>3, Emits DEF NotifyError, Emissions, Kinds
    <3> QED BY <1>0, <2>1, <2>2, <2>3, <3>1
  <2>4. CASE pc' = "broken" BY <1>0, <2>1, <2>2, <2>4
  <2> QED BY <1>8, <2>3, <2>4 DEF Catch
<1>9. CASE AfterError
  <2>1. pc = "failing" /\ pc' = "settled" /\ RejectPending({"status", "trailer"})
        /\ UNCHANGED closed
    BY <1>9 DEF AfterError, vars
  <2>2. /\ def' \in [Deferreds -> {"pending", "resolved", "rejected"}]
        /\ def'["header"] # "pending" /\ def'["status"] = "rejected" /\ def'["trailer"] = "rejected"
    BY <1>0, <2>1 DEF RejectPending
  <2> QED BY <1>0, <2>1, <2>2
<1>10. CASE Reader
  <2>1. UNCHANGED <<closed, pc, def>> BY <1>0, <1>10, ReaderKeepsStream DEF callVars, Reader, ReaderStep
  <2> QED BY <1>0, <2>1
<1>11. CASE ReaderThrows
  <2>1. stack # <<>> /\ pc' \in {"broken", "catch"} /\ UNCHANGED <<closed, def>>
    BY <1>11 DEF ReaderThrows, ListenerThrows, InCallback, Throw
  <2>2. pc \in Notifying BY <2>1 DEF CallInv, OneNotify
  <2> QED BY <1>0, <2>1, <2>2 DEF Notifying
<1>12. CASE UNCHANGED allVars
  BY <1>0, <1>12 DEF allVars, vars, callVars
<1> QED BY <1>1, <1>2, <1>3, <1>4, <1>5, <1>6, <1>7, <1>8, <1>9, <1>10, <1>11, <1>12
        DEF CallNext, Chain
\* Only a complete response gets to the handler that resolves the status.
LEMMA FinishComplete ==
    ASSUME ReadSoFar, pc = "finish", Verdict = "none"
    PROVE  /\ headerCode \in {"none", "OK"}
           /\ OkEnding
<1>1. maybeStatus = "OK" /\ (maybeTrailer \/ emptyBody)
  BY DEF Verdict
<1>2. CASE maybeTrailer
  <2>1. ending \in HeaderStatus /\ ReadTrailer(ending) = "OK"
    BY <1>1, <1>2 DEF ReadSoFar, Reading
  <2>2. ending \in {"OK", "none"}
    BY <2>1 DEF HeaderStatus, ReadTrailer, ParseStatus
  <2> QED BY <2>2 DEF ReadSoFar, Reading, OkEnding
<1>3. CASE ~maybeTrailer
  BY <1>1, <1>3 DEF ReadSoFar, Reading, OkEnding
<1> QED BY <1>2, <1>3

\* The status is resolved in the last step of the chain only.
LEMMA OnlyComplete ==
    ASSUME ChainAt', pc' # "settled" \/ def'["status"] # "resolved" PROVE OkNeedsTrailer'
BY DEF ChainAt, OkNeedsTrailer

LEMMA ReadSoFarStep ==
    ASSUME TypeOK, CallInv, ChainAt', CallNext \/ UNCHANGED allVars
    PROVE  ReadSoFar'
<1> USE DEF Reading
<1>0. ReadSoFar /\ ChainAt /\ Len(stack) <= 1 BY DEF CallInv, OneNotify
<1>1. CASE Start
  <2>1. /\ pc = "idle" /\ pc' \in {"refused", "fetch"}
        /\ UNCHANGED <<log, maybeTrailer, emptyBody, frames>>
    BY <1>1 DEF Start, vars
  <2>2. OkNeedsTrailer' BY <2>1, OnlyComplete
  <2> QED BY <1>0, <2>1, <2>2 DEF ReadSoFar
<1>2. CASE OnResponse
  <2>1. /\ pc = "fetch" /\ UNCHANGED <<log, maybeTrailer, emptyBody, frames>>
        /\ \/ /\ pc' = "body" /\ headerCode' \in {"none", "OK"}
              /\ maybeStatus' = headerCode'
           \/ pc' = "catch"
    BY <1>2 DEF OnResponse, AfterHeader, Throw, vars
  <2>2. OkNeedsTrailer' BY <2>1, OnlyComplete
  <2> QED BY <1>0, <2>1, <2>2 DEF ReadSoFar
<1>3. CASE OnFetchError \/ OnBodyError
  <2>1. pc' = "catch" /\ UNCHANGED frames BY <1>3 DEF OnFetchError, OnBodyError, Throw
  <2>2. OkNeedsTrailer' BY <2>1, OnlyComplete
  <2> QED BY <1>0, <2>1, <2>2 DEF ReadSoFar
<1>4. CASE OnDataFrame
  <2>1. /\ stack = <<>> /\ NotifyMessage /\ pc = "body" /\ pc' = "dispatch"
        /\ frames' = frames + 1
        /\ UNCHANGED <<maybeStatus, maybeTrailer, emptyBody, headerCode>>
    BY <1>4 DEF OnDataFrame
  <2>2. Len(log') = Len(log) + 1 BY <2>1, Emits DEF NotifyMessage, Emissions, Kinds
  <2>3. OkNeedsTrailer' BY <2>1, OnlyComplete
  <2> QED BY <1>0, <2>1, <2>2, <2>3 DEF ReadSoFar
<1>5. CASE AfterMessage
  <2>1. /\ pc = "dispatch" /\ pc' = "body" /\ emptyBody' = FALSE
        /\ UNCHANGED <<log, maybeStatus, maybeTrailer, headerCode, frames>>
    BY <1>5 DEF AfterMessage, vars
  <2>2. OkNeedsTrailer' BY <2>1, OnlyComplete
  <2> QED BY <1>0, <2>1, <2>2 DEF ReadSoFar
<1>6. CASE OnBodyEnd
  <2>1. /\ pc = "body" /\ pc' = "finish"
        /\ UNCHANGED <<log, emptyBody, headerCode, frames>>
        /\ \/ \E s \in HeaderStatus :
                /\ maybeTrailer' = TRUE /\ maybeStatus' = ReadTrailer(s) /\ ending' = s
           \/ ending' = "eof" /\ UNCHANGED <<maybeTrailer, maybeStatus>>
    BY <1>6 DEF OnBodyEnd, vars
  <2>2. OkNeedsTrailer' BY <2>1, OnlyComplete
  <2> QED BY <1>0, <2>1, <2>2 DEF ReadSoFar
<1>7. CASE Finish
  <2>1. stack = <<>> /\ pc = "finish" /\ UNCHANGED <<headerCode, frames, ending>>
    BY <1>7 DEF Finish
  <2>2. CASE Verdict = "none" /\ NotifyComplete /\ pc' = "completing"
    <3>1. Len(log') = Len(log) + 1 BY <2>1, <2>2, Emits DEF NotifyComplete, Emissions, Kinds
    <3>2. Complete' BY <1>0, <2>1, <2>2, <3>1, FinishComplete DEF Complete, OkEnding, ReadSoFar
    <3>3. OkNeedsTrailer' BY <2>2, OnlyComplete
    <3> QED BY <1>0, <2>1, <2>2, <3>2, <3>3 DEF ReadSoFar
  <2>3. CASE pc' = "catch"
    <3>1. OkNeedsTrailer' BY <2>3, OnlyComplete
    <3> QED BY <1>0, <2>1, <2>3, <3>1 DEF ReadSoFar
  <2> QED BY <1>7, <2>2, <2>3 DEF Finish, Throw
<1>8. CASE AfterComplete
  <2>1. pc = "completing" /\ pc' = "settled" /\ UNCHANGED <<log, headerCode, frames, ending>>
    BY <1>8 DEF AfterComplete, vars
  <2>2. OkNeedsTrailer' BY <1>0, <2>1 DEF ReadSoFar, Complete, OkEnding, OkNeedsTrailer
  <2> QED BY <1>0, <2>1, <2>2 DEF ReadSoFar
<1>9. CASE Catch
  <2>1. pc' \in {"failing", "broken"} /\ UNCHANGED frames BY <1>9 DEF Catch
  <2>2. OkNeedsTrailer' BY <2>1, OnlyComplete
  <2> QED BY <1>0, <2>1, <2>2 DEF ReadSoFar
<1>10. CASE AfterError
  <2>1. pc = "failing" /\ pc' = "settled" /\ RejectPending({"status", "trailer"})
        /\ UNCHANGED frames
    BY <1>10 DEF AfterError
  <2>2. def'["status"] # "resolved"
    BY <1>0, <2>1 DEF RejectPending, ChainAt, Deferreds
  <2>3. OkNeedsTrailer' BY <2>2, OnlyComplete
  <2> QED BY <1>0, <2>1, <2>3 DEF ReadSoFar
<1>11. CASE Reader
  <2>1. UNCHANGED log /\ UNCHANGED callVars BY <1>0, <1>11, ReaderKeepsStream DEF Reader, ReaderStep
  <2> QED BY <1>0, <2>1 DEF ReadSoFar, callVars, Complete, OkEnding, OkNeedsTrailer
<1>12. CASE ReaderThrows
  <2>1. pc' \in {"broken", "catch"} /\ UNCHANGED frames
    BY <1>12 DEF ReaderThrows, Throw
  <2>2. OkNeedsTrailer' BY <2>1, OnlyComplete
  <2> QED BY <1>0, <2>1, <2>2 DEF ReadSoFar
<1>13. CASE UNCHANGED allVars
  BY <1>0, <1>13 DEF ReadSoFar, allVars, vars, callVars, Complete, OkEnding, OkNeedsTrailer
<1> QED BY <1>1, <1>2, <1>3, <1>4, <1>5, <1>6, <1>7, <1>8, <1>9, <1>10, <1>11, <1>12, <1>13
        DEF CallNext, Chain

LEMMA CallInvStep == TypeOK /\ CallInv /\ [CallNext]_allVars => CallInv'
<1> SUFFICES ASSUME TypeOK, CallInv, CallNext \/ UNCHANGED allVars PROVE CallInv'
  OBVIOUS
<1>1. OneNotify' BY OneNotifyStep
<1>2. ChainAt' BY ChainAtStep
<1>3. ReadSoFar' BY <1>2, ReadSoFarStep
<1> QED BY <1>1, <1>2, <1>3 DEF CallInv

(* At each place of the promise chain it is fixed which promises are settled, *)
(* how the stream stands and what has been read of the response.             *)
THEOREM CallInvariant == CallSpec => []CallInv
<1>1. CallSpec => []TypeOK BY CallFeedsStream, TypeCorrect, PTL
<1> QED BY <1>1, CallInvInit, CallInvStep, PTL DEF CallSpec

(* The chain of GrpcWebFetchTransport.serverStreaming that ran to its end    *)
(* left no promise pending, and the status and the stream say the same.      *)
THEOREM StatusAgreesWithStream == CallSpec => []StreamAgreesWithStatus
<1>1. CallInv => StreamAgreesWithStatus BY DEF CallInv, ChainAt
<1> QED BY <1>1, CallInvariant, PTL

(* The status OK of a server streaming call with messages needs a trailer    *)
(* behind them, which says OK or nothing of the status; every message was    *)
(* emitted. Without a message, a header that says OK is enough.              *)
THEOREM OkAlwaysNeedsTrailer == CallSpec => []OkNeedsTrailer
<1>1. CallInv => OkNeedsTrailer BY DEF CallInv, ReadSoFar
<1> QED BY <1>1, CallInvariant, PTL
=============================================================================
