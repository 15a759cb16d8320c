------------------------ MODULE TestTransportProofs ------------------------
(* What the promises of the test transport's calls say of their responses,   *)
(* and what is left undone after an abort: for all methods, mock data,       *)
(* callbacks and loops, and any number of messages.                          *)
EXTENDS TestTransport, RpcOutputStreamProofs

(* The stream of a mocked call is an RpcOutputStream: all that is proved of  *)
(* the stream holds of it here.                                              *)
THEOREM TestFeedsStream == TestSpec => Spec
<1>1. TestInit => Init BY DEF TestInit
<1>2. [TestNext]_testVars => [Next]_vars
  <2> SUFFICES ASSUME [TestNext]_testVars PROVE [Next]_vars OBVIOUS
  <2>1. CASE Start \/ Abort \/ Headers \/ Response \/ BeforeStream \/ AfterStream
             \/ CallsInput \/ InputJob \/ InputSettles
    BY <2>1 DEF Start, Abort, Headers, Response, BeforeStream, AfterStream,
                CallsInput, InputJob, InputSettles
  <2>2. CASE StreamStep
    BY <2>2 DEF StreamStep, EmitNext, MockedEnd, Next, NotifyNext
  <2>3. CASE \E part \in {"status", "trailers"} : AfterResponse(part)
    BY <2>3 DEF AfterResponse
  <2>4. CASE Reader \/ ReaderThrows BY <2>4 DEF Reader, ReaderThrows, Next
  <2>5. CASE UNCHANGED testVars BY <2>5 DEF testVars
  <2> QED BY <2>1, <2>2, <2>3, <2>4, <2>5 DEF TestNext, Chain
<1> QED BY <1>1, <1>2, PTL DEF TestSpec, Spec

Outcomes == {"pending", "resolved", "mocked error", "CANCELLED", "assert"}

\* The promises given to Settle have their outcomes, the others stay.
LEMMA SettleGives ==
    ASSUME promise \in [Promises -> Outcomes], NEW ps \in SUBSET Promises,
           NEW o \in [ps -> Outcomes], Settle(o)
    PROVE  /\ promise' \in [Promises -> Outcomes]
           /\ \A x \in ps : promise'[x] = o[x]
           /\ \A x \in Promises \ ps : promise'[x] = promise[x]
BY DEF Settle
-----------------------------------------------------------------------------
(* Each part of the invariant says what holds at each place of the chain.    *)

Early == {"idle", "headerDelay", "responseDelay"}
Places == Early \cup {"streamDelay", "betweenDelay", "afterDelay", "over", "rejected"}

\* Nobody is inside a notify call but streamResponses().
Shape ==
    /\ mock \in Mocks
    /\ signal \in {"quiet", "aborted"}
    /\ at \in Places
    /\ promise \in [Promises -> Outcomes]
    /\ Len(stack) <= 1
    /\ stack # <<>> => Streaming /\ at \in {"betweenDelay", "afterDelay"}

Unsettled == promise["status"] = "pending" /\ promise["trailers"] = "pending"

\* A call with one response: status and trailers come after it.
SingleSoFar ==
    ~Streaming =>
        /\ at \in Early \cup {"afterDelay"}
        /\ at \in Early => Unsettled
        /\ at = "afterDelay" =>
             /\ promise["response"] # "pending"
             /\ promise["response"] = SingleResponse \/ signal = "aborted"

\* The stream had all its messages, and the end that fits.
AsMocked ==
    /\ Len(log) = mock.count + 1
    /\ closed = "done" <=> \A x \in {"response", "status", "trailers"} : mock[x] # "error"

\* A call with a stream: what is out of it at each place of the chain.
StreamSoFar ==
    Streaming =>
        /\ at \in Early \cup {"streamDelay", "betweenDelay"} => closed = "open"
        /\ at \in Early \cup {"streamDelay"} => Len(log) = 0
        /\ at = "streamDelay" => mock.response # "invalid"
        /\ at = "betweenDelay" => mock.response = "messages" /\ Len(log) <= mock.count
        /\ at = "afterDelay" => closed # "open" /\ (AsMocked \/ signal = "aborted")
        /\ at # "over" => Unsettled

TestInv == Shape /\ SingleSoFar /\ StreamSoFar /\ StatusTellsResponses

LEMMA MockFacts ==
    ASSUME mock \in Mocks
    PROVE  mock.count \in Nat /\ (mock.response # "messages" => mock.count = 0)
BY DEF Mocks

LEMMA MockedOutcome == \A part : Mocked(part) \in {"mocked error", "resolved"}
BY DEF Mocked

LEMMA SingleOutcome == SingleResponse \in Outcomes \ {"pending"}
BY DEF SingleResponse, Outcomes

\* While status and trailers are pending they tell nothing.
LEMMA NothingTold ==
    ASSUME Unsettled PROVE StatusTellsResponses
BY DEF Unsettled, StatusTellsResponses, StatusAfterResponses, StatusMeansAsMocked

LEMMA NothingToldNext == Unsettled' => StatusTellsResponses'
<1>1. Unsettled => StatusTellsResponses BY NothingTold
<1> QED BY <1>1, PTL

LEMMA TestInvInit == TestInit => TestInv
<1> SUFFICES ASSUME TestInit PROVE TestInv OBVIOUS
<1>1. stack = <<>> /\ Len(stack) = 0 /\ Len(log) = 0 /\ closed = "open" /\ at = "idle"
  BY DEF TestInit, Init
<1>2. Unsettled BY DEF TestInit, Unsettled, Promises
<1>3. Shape BY <1>1 DEF TestInit, Shape, Places, Early, Outcomes
<1>4. SingleSoFar BY <1>1, <1>2 DEF SingleSoFar, Early
<1>5. StreamSoFar BY <1>1, <1>2 DEF StreamSoFar, Early
<1> QED BY <1>2, <1>3, <1>4, <1>5, NothingTold DEF TestInv

\* A step that leaves the responses and the promises as they are.
LEMMA NothingTouched ==
    ASSUME StatusTellsResponses, UNCHANGED <<closed, log, kind, mock, promise>>
    PROVE  StatusTellsResponses'
BY DEF StatusTellsResponses, StatusAfterResponses, StatusMeansAsMocked, Streaming, Mocked,
       SingleResponse

LEMMA StartStep == ASSUME TestInv, Start PROVE TestInv'
<1>1. /\ at = "idle" /\ at' = "headerDelay"
      /\ UNCHANGED <<closed, log, stack, kind, mock, signal, promise>>
  BY DEF Start, vars
<1>2. StatusTellsResponses' BY <1>1, NothingTouched DEF TestInv
<1>3. Shape' BY <1>1 DEF TestInv, Shape, Places, Early, Streaming
<1>4. SingleSoFar' BY <1>1 DEF TestInv, SingleSoFar, Early, Streaming, Unsettled
<1>5. StreamSoFar' BY <1>1 DEF TestInv, StreamSoFar, Early, Streaming, Unsettled
<1> QED BY <1>2, <1>3, <1>4, <1>5 DEF TestInv

LEMMA AbortStep == ASSUME TestInv, Abort PROVE TestInv'
<1>1. signal' = "aborted" /\ UNCHANGED <<closed, log, stack, kind, mock, at, promise>>
  BY DEF Abort, vars
<1>2. StatusTellsResponses' BY <1>1, NothingTouched DEF TestInv
<1>3. Shape' BY <1>1 DEF TestInv, Shape, Streaming
<1>4. SingleSoFar' BY <1>1 DEF TestInv, SingleSoFar, Streaming, Unsettled
<1>5. StreamSoFar' BY <1>1 DEF TestInv, StreamSoFar, Streaming, Unsettled
<1> QED BY <1>2, <1>3, <1>4, <1>5 DEF TestInv

LEMMA InputStep == ASSUME TestInv, CallsInput \/ InputJob \/ InputSettles PROVE TestInv'
<1>1. UNCHANGED <<closed, log, stack, kind, mock, signal, at, promise>>
  BY DEF CallsInput, InputJob, InputSettles, vars
<1> QED BY <1>1 DEF TestInv, Shape, SingleSoFar, StreamSoFar, StatusTellsResponses,
              StatusAfterResponses, StatusMeansAsMocked, Streaming, Mocked, SingleResponse,
              AsMocked, Unsettled

LEMMA HeadersStep == ASSUME TestInv, Headers PROVE TestInv'
<1>1. PICK o \in {"mocked error", "resolved", "CANCELLED"} :
        /\ at = "headerDelay" /\ stack = <<>> /\ Settle([x \in {"headers"} |-> o])
        /\ at' = "responseDelay" \/ (Streaming /\ at' = StreamResponses)
        /\ UNCHANGED <<closed, log, stack, kind, mock, signal>>
  BY DEF Headers, ElapsesAt, RejectsAt, vars
<1>2. /\ promise' \in [Promises -> Outcomes]
      /\ promise'["status"] = promise["status"] /\ promise'["trailers"] = promise["trailers"]
  <2>1. {"headers"} \in SUBSET Promises BY DEF Promises
  <2>2. [x \in {"headers"} |-> o] \in [{"headers"} -> Outcomes]
    <3>1. \A v \in Outcomes : [x \in {"headers"} |-> v] \in [{"headers"} -> Outcomes] OBVIOUS
    <3>2. o \in Outcomes BY DEF Outcomes
    <3> QED BY <3>1, <3>2
  <2>3. "status" \in Promises \ {"headers"} /\ "trailers" \in Promises \ {"headers"}
    BY DEF Promises
  <2>4. promise \in [Promises -> Outcomes] BY DEF TestInv, Shape
  <2> QED BY <1>1, <2>1, <2>2, <2>3, <2>4, SettleGives
<1>3. at' \in {"responseDelay", "streamDelay", "rejected"} BY <1>1 DEF StreamResponses
<1>4. at' = "streamDelay" => mock.response # "invalid" BY <1>1 DEF StreamResponses
<1>5. at' # "responseDelay" => Streaming BY <1>1
<1>6. Unsettled /\ Unsettled'
  BY <1>1, <1>2 DEF TestInv, SingleSoFar, StreamSoFar, Early, Unsettled
<1>7. StatusTellsResponses' BY <1>6, NothingToldNext
<1>8. Shape' BY <1>1, <1>2, <1>3 DEF TestInv, Shape, Places, Early, Streaming
<1>9. SingleSoFar' BY <1>1, <1>3, <1>5, <1>6 DEF SingleSoFar, Early, Streaming
<1>10. StreamSoFar'
  <2>1. Streaming => closed = "open" /\ Len(log) = 0
    BY <1>1 DEF TestInv, StreamSoFar, Early
  <2> QED BY <1>1, <1>3, <1>4, <1>6, <2>1 DEF StreamSoFar, Early, Streaming
<1> QED BY <1>7, <1>8, <1>9, <1>10 DEF TestInv

LEMMA ResponseStep == ASSUME TestInv, Response PROVE TestInv'
<1>1. PICK o \in Outcomes \ {"pending"} :
        /\ ~Streaming /\ at = "responseDelay" /\ Settle([x \in {"response"} |-> o]) /\ at' = "afterDelay"
        /\ o = SingleResponse \/ signal = "aborted"
        /\ UNCHANGED <<closed, log, stack, kind, mock, signal>>
  <2>1. CASE ElapsesAt("responseDelay") /\ Settle([x \in {"response"} |-> SingleResponse])
    BY <2>1, SingleOutcome DEF Response, ElapsesAt, vars
  <2>2. CASE RejectsAt("responseDelay") /\ Settle([x \in {"response"} |-> "CANCELLED"])
    BY <2>2 DEF Response, RejectsAt, vars, Outcomes
  <2> QED BY <2>1, <2>2 DEF Response
<1>2. /\ promise' \in [Promises -> Outcomes] /\ promise'["response"] = o
      /\ promise'["status"] = promise["status"] /\ promise'["trailers"] = promise["trailers"]
  <2>1. {"response"} \in SUBSET Promises BY DEF Promises
  <2>2. [x \in {"response"} |-> o] \in [{"response"} -> Outcomes] /\ [x \in {"response"} |-> o]["response"] = o
    OBVIOUS
  <2>3. "status" \in Promises \ {"response"} /\ "trailers" \in Promises \ {"response"}
    BY DEF Promises
  <2>4. promise \in [Promises -> Outcomes] BY DEF TestInv, Shape
  <2> QED BY <1>1, <2>1, <2>2, <2>3, <2>4, SettleGives
<1>3. Unsettled /\ Unsettled'
  BY <1>1, <1>2 DEF TestInv, SingleSoFar, Early, Unsettled
<1>4. StatusTellsResponses' BY <1>3, NothingToldNext
<1>5. Shape' BY <1>1, <1>2 DEF TestInv, Shape, Places, Streaming
<1>6. SingleSoFar' BY <1>1, <1>2, <1>3 DEF SingleSoFar, Early, Streaming, SingleResponse
<1>7. StreamSoFar' BY <1>1 DEF StreamSoFar, Streaming
<1> QED BY <1>4, <1>5, <1>6, <1>7 DEF TestInv
LEMMA AfterResponseStep ==
    ASSUME TestInv, NEW part \in {"status", "trailers"}, AfterResponse(part)
    PROVE  TestInv'
<1>1. PICK o \in {"mocked error", "resolved", "CANCELLED"} :
        /\ ~Streaming /\ at = "afterDelay" /\ stack = <<>> /\ Settle([x \in {part} |-> o])
        /\ signal # "aborted" \/ o = "CANCELLED"
        /\ UNCHANGED <<closed, log, stack, kind, mock, signal, at>>
  <2>1. CASE ElapsesAt("afterDelay") /\ Settle([x \in {part} |-> Mocked(x)])
    <3>1. [x \in {part} |-> Mocked(x)] = [x \in {part} |-> Mocked(part)] OBVIOUS
    <3>2. Settle([x \in {part} |-> Mocked(part)]) BY <2>1, <3>1
    <3> QED BY <2>1, <3>2, MockedOutcome DEF AfterResponse, ElapsesAt, vars
  <2>2. CASE RejectsAt("afterDelay") /\ Settle([x \in {part} |-> "CANCELLED"])
    BY <2>2 DEF AfterResponse, RejectsAt, vars
  <2> QED BY <2>1, <2>2 DEF AfterResponse
<1>2. /\ promise' \in [Promises -> Outcomes] /\ promise'[part] = o
      /\ \A x \in Promises \ {part} : promise'[x] = promise[x]
  <2>1. {part} \in SUBSET Promises /\ o \in Outcomes BY DEF Promises, Outcomes
  <2>2. [x \in {part} |-> o] \in [{part} -> Outcomes] BY <2>1
  <2>3. promise \in [Promises -> Outcomes] BY DEF TestInv, Shape
  <2> QED BY <1>1, <2>1, <2>2, <2>3, SettleGives
<1>3. promise'["response"] = promise["response"] BY <1>2 DEF Promises
<1>4. promise["response"] # "pending" /\ (promise["response"] = SingleResponse \/ signal = "aborted")
  BY <1>1 DEF TestInv, SingleSoFar
<1>5. StatusTellsResponses'
  <2>1. StatusAfterResponses' BY <1>1, <1>3, <1>4 DEF StatusAfterResponses, Streaming
  <2>2. StatusMeansAsMocked'
    <3> SUFFICES ASSUME NEW x \in {"status", "trailers"}, promise'[x] = Mocked(x)'
                 PROVE  promise'["response"] = SingleResponse'
      BY <1>1 DEF StatusMeansAsMocked, Streaming
    <3>1. Mocked(x)' = Mocked(x) /\ SingleResponse' = SingleResponse
      BY <1>1 DEF Mocked, SingleResponse
    <3>2. CASE x = part
      <4>1. o # "CANCELLED" BY <1>2, <3>1, <3>2, MockedOutcome
      <4> QED BY <1>1, <1>3, <1>4, <3>1, <4>1
    <3>3. CASE x # part
      <4>1. promise[x] = Mocked(x) /\ promise[x] # "pending"
        BY <1>2, <3>1, <3>3, MockedOutcome DEF Promises
      <4>2. promise["response"] = SingleResponse
        BY <1>1, <4>1 DEF TestInv, StatusTellsResponses, StatusMeansAsMocked
      <4> QED BY <1>3, <3>1, <4>2
    <3> QED BY <3>2, <3>3
  <2> QED BY <2>1, <2>2 DEF StatusTellsResponses
<1>6. Shape' BY <1>1, <1>2 DEF TestInv, Shape, Streaming
<1>7. SingleSoFar' BY <1>1, <1>3, <1>4 DEF SingleSoFar, Early, Streaming, SingleResponse
<1>8. StreamSoFar' BY <1>1 DEF StreamSoFar, Streaming
<1> QED BY <1>5, <1>6, <1>7, <1>8 DEF TestInv

LEMMA BeforeStreamStep == ASSUME TestInv, BeforeStream PROVE TestInv'
<1>1. /\ Streaming /\ at = "responseDelay" /\ stack = <<>> /\ at' = StreamResponses
      /\ UNCHANGED <<closed, log, stack, kind, mock, signal, promise>>
  BY DEF BeforeStream, ElapsesAt, RejectsAt, vars
<1>2. at' \in {"streamDelay", "rejected"} /\ (at' = "streamDelay" => mock.response # "invalid")
  BY <1>1 DEF StreamResponses
<1>3. StatusTellsResponses' BY <1>1, NothingTouched DEF TestInv
<1>4. Shape' BY <1>1, <1>2 DEF TestInv, Shape, Places, Early, Streaming
<1>5. SingleSoFar' BY <1>1 DEF SingleSoFar, Streaming
<1>6. StreamSoFar' BY <1>1, <1>2 DEF TestInv, StreamSoFar, Early, Streaming, Unsettled
<1> QED BY <1>3, <1>4, <1>5, <1>6 DEF TestInv

\* The end of the mocked messages.
LEMMA EndIsAsMocked ==
    ASSUME TypeOK, stack = <<>>, mock \in Mocks, UNCHANGED mock,
           Len(log) = mock.count, mock.response # "invalid",
           IF mock.response = "error" THEN NotifyError ELSE MockedEnd
    PROVE  closed' # "open" /\ AsMocked' /\ Len(stack') = 1
<1>1. CASE NotifyError
  <2>1. closed' = "error" /\ Len(log') = Len(log) + 1 /\ Len(stack') = 1
    BY <1>1, Emits DEF NotifyError, Emissions, Kinds
  <2>2. \E x \in {"response", "status", "trailers"} : mock[x] = "error"
    <3>1. CASE mock.response = "error" BY <3>1
    <3>2. CASE mock.response # "error" /\ NotifyComplete
      <4>1. closed' = "done" BY <3>2, Emits DEF NotifyComplete, Emissions, Kinds
      <4> QED BY <2>1, <4>1
    <3>3. CASE mock.status = "error" \/ mock.trailers = "error" BY <3>3
    <3> QED BY <3>1, <3>2, <3>3 DEF MockedEnd
  <2> QED BY <2>1, <2>2 DEF AsMocked
<1>2. CASE mock.response # "error" /\ mock.status # "error" /\ mock.trailers # "error"
           /\ NotifyComplete
  <2>1. closed' = "done" /\ Len(log') = Len(log) + 1 /\ Len(stack') = 1
    BY <1>2, Emits DEF NotifyComplete, Emissions, Kinds
  <2>2. \A x \in {"response", "status", "trailers"} : mock[x] # "error" BY <1>2
  <2> QED BY <2>1, <2>2 DEF AsMocked
<1> QED BY <1>1, <1>2 DEF MockedEnd
LEMMA StreamStepStep == ASSUME TypeOK, TestInv, StreamStep PROVE TestInv'
<1>1. /\ stack = <<>> /\ mock \in Mocks /\ at \in {"streamDelay", "betweenDelay"}
      /\ UNCHANGED <<kind, mock, signal, promise>>
  BY DEF StreamStep, ElapsesAt, RejectsAt, TestInv, Shape
<1>2. Streaming /\ closed = "open"
  BY <1>1 DEF TestInv, SingleSoFar, StreamSoFar, Early
<1>3. Unsettled /\ Unsettled' BY <1>1, <1>2 DEF TestInv, StreamSoFar, Unsettled
<1>4. StatusTellsResponses' BY <1>3, NothingToldNext
<1>5. SingleSoFar' BY <1>1, <1>2 DEF SingleSoFar, Streaming
<1>6. Len(log) <= mock.count /\ mock.count \in Nat /\ mock.response # "invalid"
      /\ (mock.response = "error" => mock.count = 0)
  <2>1. mock.count \in Nat /\ (mock.response # "messages" => mock.count = 0)
    BY <1>1, MockFacts
  <2>2. CASE at = "streamDelay"
    <3>1. Len(log) = 0 /\ mock.response # "invalid" BY <1>2, <2>2 DEF TestInv, StreamSoFar
    <3> QED BY <2>1, <3>1
  <2>3. CASE at = "betweenDelay"
    <3>1. Len(log) <= mock.count /\ mock.response = "messages"
      BY <1>2, <2>3 DEF TestInv, StreamSoFar
    <3> QED BY <2>1, <3>1
  <2> QED BY <1>1, <2>2, <2>3
<1>7. Len(log) \in Nat BY DEF TypeOK
<1>8. CASE NotifyMessage /\ at' = "betweenDelay" /\ mock.response # "error" /\ Len(log) < mock.count
  <2>1. closed' = "open" /\ Len(log') = Len(log) + 1 /\ Len(stack') = 1
    BY <1>1, <1>8, Emits DEF NotifyMessage, Emissions, Kinds
  <2>2. Len(log') <= mock.count BY <1>6, <1>7, <1>8, <2>1
  <2>3. mock.response = "messages" BY <1>1, <1>6, <1>8 DEF Mocks
  <2>4. Shape' BY <1>1, <1>2, <1>8, <2>1 DEF TestInv, Shape, Places, Streaming
  <2>5. StreamSoFar' BY <1>1, <1>2, <1>3, <1>8, <2>1, <2>2, <2>3 DEF StreamSoFar, Early
  <2> QED BY <1>4, <1>5, <2>4, <2>5 DEF TestInv
<1>9. ASSUME at' = "afterDelay", closed' # "open", AsMocked' \/ signal = "aborted",
             Len(stack') = 1
      PROVE  TestInv'
  <2>1. Shape' BY <1>1, <1>2, <1>9 DEF TestInv, Shape, Places, Streaming
  <2>2. StreamSoFar' BY <1>1, <1>2, <1>3, <1>9 DEF StreamSoFar, Early
  <2> QED BY <1>4, <1>5, <2>1, <2>2 DEF TestInv
<1>10. CASE at' = "afterDelay" /\ (mock.response = "error" \/ ~(Len(log) < mock.count))
            /\ IF mock.response = "error" THEN NotifyError ELSE MockedEnd
  <2>1. Len(log) = mock.count
    <3>1. CASE mock.response = "error"
      <4>1. mock.count = 0 /\ Len(log) = 0 BY <1>6, <1>7, <3>1
      <4> QED BY <4>1
    <3>2. CASE ~(Len(log) < mock.count) BY <1>6, <1>7, <3>2
    <3> QED BY <1>10, <3>1, <3>2
  <2>2. closed' # "open" /\ AsMocked' /\ Len(stack') = 1
    BY <1>1, <1>6, <1>10, <2>1, EndIsAsMocked
  <2> QED BY <1>9, <1>10, <2>2
<1>11. CASE at' = "afterDelay" /\ NotifyError /\ signal = "aborted"
  <2>1. closed' = "error" /\ Len(stack') = 1
    BY <1>1, <1>11, Emits DEF NotifyError, Emissions, Kinds
  <2> QED BY <1>9, <1>11, <2>1
<1> QED BY <1>1, <1>8, <1>10, <1>11 DEF StreamStep, EmitNext, RejectsAt

LEMMA AfterStreamStep == ASSUME TestInv, AfterStream PROVE TestInv'
<1>1. /\ Streaming /\ at' = "over" /\ stack = <<>> /\ at \in {"afterDelay", "rejected"}
      /\ UNCHANGED <<closed, log, stack, kind, mock, signal>>
  BY DEF AfterStream, ElapsesAt, RejectsAt, vars
<1>2. promise \in [Promises -> Outcomes] /\ {"status", "trailers"} \in SUBSET Promises
  BY DEF TestInv, Shape, Promises
<1>3. ASSUME promise' \in [Promises -> Outcomes], StatusTellsResponses' PROVE TestInv'
  <2>1. Shape' BY <1>1, <1>3 DEF TestInv, Shape, Places
  <2>2. SingleSoFar' BY <1>1 DEF SingleSoFar, Streaming
  <2>3. StreamSoFar' BY <1>1, <1>3 DEF StreamSoFar, Early
  <2> QED BY <1>3, <2>1, <2>2, <2>3 DEF TestInv
<1>4. CASE ElapsesAt("afterDelay")
           /\ Settle([part \in {"status", "trailers"} |-> Mocked(part)])
  <2>1. promise' \in [Promises -> Outcomes]
    <3>1. [part \in {"status", "trailers"} |-> Mocked(part)]
            \in [{"status", "trailers"} -> Outcomes]
      BY MockedOutcome DEF Outcomes
    <3> QED BY <1>2, <1>4, <3>1, SettleGives
  <2>2. closed # "open" /\ AsMocked
    BY <1>1, <1>4 DEF ElapsesAt, TestInv, StreamSoFar
  <2>3. StatusAfterResponses' BY <1>1, <2>2 DEF StatusAfterResponses, Streaming
  <2>4. StatusMeansAsMocked'
    BY <1>1, <2>2 DEF StatusMeansAsMocked, Streaming, AsMocked
  <2> QED BY <1>3, <2>1, <2>3, <2>4 DEF StatusTellsResponses
<1>5. ASSUME NEW o \in {"CANCELLED", "assert"},
             Settle([part \in {"status", "trailers"} |-> o]),
             closed # "open" \/ o = "assert"
      PROVE  TestInv'
  <2>1. /\ promise' \in [Promises -> Outcomes]
        /\ promise'["status"] = o /\ promise'["trailers"] = o
    <3>1. \A v \in Outcomes : [part \in {"status", "trailers"} |-> v]
            \in [{"status", "trailers"} -> Outcomes]
      OBVIOUS
    <3>2. o \in Outcomes BY DEF Outcomes
    <3>3. [part \in {"status", "trailers"} |-> o] \in [{"status", "trailers"} -> Outcomes]
      BY <3>1, <3>2
    <3> QED BY <1>2, <1>5, <3>3, SettleGives
  <2>2. StatusAfterResponses' BY <1>1, <1>5, <2>1 DEF StatusAfterResponses, Streaming
  <2>3. \A part \in {"status", "trailers"} : promise'[part] # Mocked(part)'
    BY <2>1 DEF Mocked
  <2>4. StatusMeansAsMocked' BY <2>3 DEF StatusMeansAsMocked
  <2> QED BY <1>3, <2>1, <2>2, <2>4 DEF StatusTellsResponses
<1>6. CASE RejectsAt("afterDelay")
           /\ Settle([part \in {"status", "trailers"} |-> "CANCELLED"])
  <2>1. closed # "open" BY <1>1, <1>6 DEF RejectsAt, TestInv, StreamSoFar
  <2> QED BY <1>5, <1>6, <2>1
<1>7. CASE Settle([part \in {"status", "trailers"} |-> "assert"])
  BY <1>5, <1>7
<1> QED BY <1>4, <1>6, <1>7 DEF AfterStream

LEMMA TestReaderStep == ASSUME TypeOK, TestInv, Reader PROVE TestInv'
<1>1. /\ UNCHANGED <<closed, log>> /\ Len(stack') <= 1 /\ (stack = <<>> => stack' = <<>>)
  BY ReaderKeepsStream DEF TestInv, Shape, Reader, ReaderStep
<1>2. UNCHANGED <<kind, mock, signal, at, promise>> BY DEF Reader, transportVars
<1>3. StatusTellsResponses' BY <1>1, <1>2, NothingTouched DEF TestInv
<1>4. Shape' BY <1>1, <1>2 DEF TestInv, Shape, Streaming
<1>5. SingleSoFar' BY <1>1, <1>2 DEF TestInv, SingleSoFar, Streaming, Unsettled, SingleResponse
<1>6. StreamSoFar' BY <1>1, <1>2 DEF TestInv, StreamSoFar, Streaming, Unsettled, AsMocked
<1> QED BY <1>3, <1>4, <1>5, <1>6 DEF TestInv

LEMMA ReaderThrowsStep == ASSUME TypeOK, TestInv, ReaderThrows PROVE TestInv'
<1>1. /\ stack # <<>> /\ stack' = Front(stack) /\ at' = "rejected"
      /\ UNCHANGED <<closed, log, kind, mock, signal, promise>>
  BY DEF ReaderThrows, ListenerThrows, InCallback
<1>2. stack' = <<>> /\ Len(stack') = 0 BY <1>1, LeavesNotify DEF TestInv, Shape
<1>3. Streaming /\ at # "over" BY <1>1 DEF TestInv, Shape
<1>4. StatusTellsResponses' BY <1>1, NothingTouched DEF TestInv
<1>5. Shape' BY <1>1, <1>2 DEF TestInv, Shape, Places
<1>6. SingleSoFar' BY <1>1, <1>3 DEF SingleSoFar, Streaming
<1>7. StreamSoFar' BY <1>1, <1>3 DEF TestInv, StreamSoFar, Early, Streaming, Unsettled
<1> QED BY <1>4, <1>5, <1>6, <1>7 DEF TestInv

LEMMA TestInvStep == TypeOK /\ TestInv /\ [TestNext]_testVars => TestInv'
<1> SUFFICES ASSUME TypeOK, TestInv, [TestNext]_testVars PROVE TestInv' OBVIOUS
<1>1. CASE Start \/ Abort BY <1>1, StartStep, AbortStep
<1>2. CASE CallsInput \/ InputJob \/ InputSettles BY <1>2, InputStep
<1>3. CASE Headers \/ Response \/ \E part \in {"status", "trailers"} : AfterResponse(part)
  BY <1>3, HeadersStep, ResponseStep, AfterResponseStep
<1>4. CASE BeforeStream \/ StreamStep \/ AfterStream
  BY <1>4, BeforeStreamStep, StreamStepStep, AfterStreamStep
<1>5. CASE Reader \/ ReaderThrows BY <1>5, TestReaderStep, ReaderThrowsStep
<1>6. CASE UNCHANGED testVars
  <2>1. UNCHANGED <<closed, log, stack, kind, mock, signal, at, promise>>
    BY <1>6 DEF testVars, vars, transportVars
  <2> QED BY <2>1 DEF TestInv, Shape, SingleSoFar, StreamSoFar, StatusTellsResponses,
                StatusAfterResponses, StatusMeansAsMocked, Streaming, Mocked, SingleResponse,
                AsMocked, Unsettled
<1> QED BY <1>1, <1>2, <1>3, <1>4, <1>5, <1>6 DEF TestNext, Chain

(* Status and trailers of a mocked call wait for its responses and tell them *)
(* truly, wherever in the forks of its chain an abort or a throwing callback *)
(* cut it short.                                                             *)
THEOREM StatusIsThatOfResponses == TestSpec => []StatusTellsResponses
<1>1. TestSpec => []TypeOK BY TestFeedsStream, TypeCorrect, PTL
<1>2. TestInv => StatusTellsResponses BY DEF TestInv
<1> QED BY <1>1, <1>2, TestInvInit, TestInvStep, PTL DEF TestSpec
-----------------------------------------------------------------------------
(* After an abort.                                                           *)

SendStates == {"mocked error", "called", "delay", "resolved", "CANCELLED"}
SendsOK == sends \in Seq(SendStates)

\* The promises of send() and complete() change one at a time, or one is added.
LEMMA SendsTypeStep == SendsOK /\ [TestNext]_testVars => SendsOK'
<1> SUFFICES ASSUME SendsOK, [TestNext]_testVars PROVE SendsOK' OBVIOUS
<1>1. CASE UNCHANGED sends BY <1>1 DEF SendsOK
<1>2. CASE CallsInput
  <2>1. \E o \in {"mocked error", "called"} : sends' = Append(sends, o)
    BY <1>2 DEF CallsInput, CallInput
  <2>2. PICK o \in SendStates : sends' = Append(sends, o) BY <2>1 DEF SendStates
  <2> QED BY <2>2, AppendProperties DEF SendsOK
<1>3. CASE InputJob \/ InputSettles
  <2>1. PICK i : \E o \in {"delay", "CANCELLED", "resolved"} : sends' = [sends EXCEPT ![i] = o]
    <3>1. CASE InputJob BY <3>1 DEF InputJob
    <3>2. CASE InputSettles
      <4>1. PICK i \in DOMAIN sends :
              sends' = [sends EXCEPT ![i] = IF signal = "aborted" THEN "CANCELLED" ELSE "resolved"]
        BY <3>2 DEF InputSettles
      <4> QED BY <4>1
    <3> QED BY <1>3, <3>1, <3>2
  <2>2. PICK o \in SendStates : sends' = [sends EXCEPT ![i] = o] BY <2>1 DEF SendStates
  <2>3. DOMAIN sends = 1 .. Len(sends) /\ Len(sends) \in Nat
        /\ \A j \in 1 .. Len(sends) : sends[j] \in SendStates
    BY DEF SendsOK
  <2>4. sends' \in [1 .. Len(sends) -> SendStates]
    BY <2>2, <2>3 DEF SendsOK
  <2> QED BY <2>3, <2>4 DEF SendsOK
<1>4. CASE Start \/ Abort \/ Chain \/ Reader \/ ReaderThrows
  <2>1. UNCHANGED sends
    BY <1>4 DEF Start, Abort, Chain, Headers, Response, BeforeStream, StreamStep, AfterStream,
                AfterResponse, Reader, ReaderThrows, transportVars, inputVars
  <2> QED BY <1>1, <2>1
<1>5. CASE UNCHANGED testVars BY <1>1, <1>5 DEF testVars, transportVars, inputVars
<1> QED BY <1>2, <1>3, <1>4, <1>5 DEF TestNext

NoPromiseResolves == \A x \in Promises : promise'[x] = "resolved" => promise[x] = "resolved"
NoMessageComes == Len(log') > Len(log) => log'[Len(log')] = "err"
NoSendResolves == \A i \in DOMAIN sends : sends'[i] = "resolved" => sends[i] = "resolved"

\* After an abort the chain settles promises with errors only.
LEMMA OnlyErrorsSettle ==
    ASSUME TestInv, signal = "aborted", Chain PROVE NoPromiseResolves
<1>1. promise \in [Promises -> Outcomes] BY DEF TestInv, Shape
<1>2. ASSUME NEW ps \in SUBSET Promises, NEW o \in {"mocked error", "CANCELLED", "assert"},
             Settle([x \in ps |-> o])
      PROVE  NoPromiseResolves
  <2>1. o \in Outcomes /\ o # "resolved" BY DEF Outcomes
  <2>2. [x \in ps |-> o] \in [ps -> Outcomes] BY <2>1
  <2>3. \A x \in ps : promise'[x] = o BY <1>1, <1>2, <2>2, SettleGives
  <2>4. \A x \in Promises \ ps : promise'[x] = promise[x] BY <1>1, <1>2, <2>2, SettleGives
  <2> QED BY <2>1, <2>3, <2>4 DEF NoPromiseResolves
<1>3. {"headers"} \in SUBSET Promises /\ {"response"} \in SUBSET Promises
      /\ {"status", "trailers"} \in SUBSET Promises
      /\ \A part \in {"status", "trailers"} : {part} \in SUBSET Promises
  BY DEF Promises
<1>4. CASE Headers
  <2>1. \/ Settle([x \in {"headers"} |-> "mocked error"])
        \/ Settle([x \in {"headers"} |-> "CANCELLED"])
    BY <1>4 DEF Headers, ElapsesAt
  <2> QED BY <1>2, <1>3, <2>1
<1>5. CASE Response
  <2>1. Settle([x \in {"response"} |-> "CANCELLED"]) BY <1>5 DEF Response, ElapsesAt
  <2> QED BY <1>2, <1>3, <2>1
<1>6. CASE \E part \in {"status", "trailers"} : AfterResponse(part)
  <2>1. PICK part \in {"status", "trailers"} : Settle([x \in {part} |-> "CANCELLED"])
    BY <1>6 DEF AfterResponse, ElapsesAt
  <2> QED BY <1>2, <1>3, <2>1
<1>7. CASE AfterStream
  <2>1. \/ Settle([part \in {"status", "trailers"} |-> "CANCELLED"])
        \/ Settle([part \in {"status", "trailers"} |-> "assert"])
    BY <1>7 DEF AfterStream, ElapsesAt
  <2> QED BY <1>2, <1>3, <2>1
<1>8. CASE BeforeStream \/ StreamStep
  BY <1>8 DEF BeforeStream, StreamStep, NoPromiseResolves
<1> QED BY <1>4, <1>5, <1>6, <1>7, <1>8 DEF Chain

LEMMA OnlyErrorIsEmitted ==
    ASSUME TypeOK, TestInv, signal = "aborted", TestNext PROVE NoMessageComes
<1>1. log \in Seq(Emissions) /\ Len(log) \in Nat BY DEF TypeOK
<1>2. CASE StreamStep
  <2>1. NotifyError BY <1>2 DEF StreamStep, ElapsesAt
  <2>2. log' = Append(log, "err") BY <2>1 DEF NotifyError, Emit, Send
  <2>3. Len(log') = Len(log) + 1 /\ log'[Len(log) + 1] = "err"
    BY <1>1, <2>2, AppendProperties DEF Emissions, Kinds
  <2> QED BY <2>3 DEF NoMessageComes
<1>3. CASE UNCHANGED log BY <1>1, <1>3 DEF NoMessageComes
<1>4. CASE Reader
  BY <1>3, <1>4, ReaderKeepsStream DEF TestInv, Shape, Reader, ReaderStep
<1>5. CASE ReaderThrows BY <1>3, <1>5 DEF ReaderThrows, ListenerThrows
<1>6. CASE Start \/ Abort \/ Headers \/ Response \/ BeforeStream \/ AfterStream
           \/ CallsInput \/ InputJob \/ InputSettles
  BY <1>3, <1>6 DEF Start, Abort, Headers, Response, BeforeStream, AfterStream,
                    CallsInput, InputJob, InputSettles, vars
<1>7. CASE \E part \in {"status", "trailers"} : AfterResponse(part)
  BY <1>3, <1>7 DEF AfterResponse, vars
<1> QED BY <1>2, <1>4, <1>5, <1>6, <1>7 DEF TestNext, Chain

LEMMA NoSendIsAcknowledged ==
    ASSUME SendsOK, signal = "aborted", TestNext PROVE NoSendResolves
<1>1. DOMAIN sends = 1 .. Len(sends) /\ Len(sends) \in Nat BY DEF SendsOK
<1>2. CASE CallsInput
  <2>0. \E o \in {"mocked error", "called"} : sends' = Append(sends, o)
    BY <1>2 DEF CallsInput, CallInput
  <2>1. PICK o \in SendStates : sends' = Append(sends, o) BY <2>0 DEF SendStates
  <2>2. \A i \in 1 .. Len(sends) : sends'[i] = sends[i] BY <2>1, AppendProperties DEF SendsOK
  <2> QED BY <1>1, <2>2 DEF NoSendResolves
<1>3. CASE InputJob \/ InputSettles
  <2>1. PICK i : \/ sends' = [sends EXCEPT ![i] = "delay"]
                 \/ sends' = [sends EXCEPT ![i] = "CANCELLED"]
    BY <1>3 DEF InputJob, InputSettles
  <2>2. \A j \in DOMAIN sends : sends'[j] \in {sends[j], "delay", "CANCELLED"} BY <2>1
  <2> QED BY <2>2 DEF NoSendResolves
<1>4. CASE Start \/ Abort \/ Chain \/ Reader \/ ReaderThrows
  <2>1. UNCHANGED sends
    BY <1>4 DEF Start, Abort, Chain, Headers, Response, BeforeStream, StreamStep, AfterStream,
                AfterResponse, Reader, ReaderThrows, transportVars, inputVars
  <2> QED BY <2>1 DEF NoSendResolves
<1> QED BY <1>2, <1>3, <1>4 DEF TestNext

(* After an abort nothing succeeds: no promise of the call resolves, no      *)
(* message comes out of its stream and no message sent is acknowledged,      *)
(* wherever in the chain, in a callback or between two delays, it came.      *)
THEOREM AbortStopsAll == TestSpec => NothingAfterAbort
<1>1. TestSpec => []TypeOK BY TestFeedsStream, TypeCorrect, PTL
<1>2. TestInit => SendsOK BY DEF TestInit, SendsOK
<1> DEFINE Stopped == signal = "aborted" => NoPromiseResolves /\ NoMessageComes /\ NoSendResolves
<1>3. TypeOK /\ TestInv /\ SendsOK /\ [TestNext]_testVars => [Stopped]_testVars
  <2> SUFFICES ASSUME TypeOK, TestInv, SendsOK, TestNext, signal = "aborted"
               PROVE  NoPromiseResolves /\ NoMessageComes /\ NoSendResolves
    OBVIOUS
  <2>1. NoPromiseResolves
    <3>1. CASE Chain BY <3>1, OnlyErrorsSettle
    <3>2. CASE ~Chain
      <4>1. UNCHANGED promise
        BY <3>2 DEF TestNext, Start, Abort, Reader, ReaderThrows, CallsInput, InputJob,
                    InputSettles, transportVars
      <4> QED BY <4>1 DEF NoPromiseResolves
    <3> QED BY <3>1, <3>2
  <2>2. NoMessageComes BY OnlyErrorIsEmitted
  <2>3. NoSendResolves BY NoSendIsAcknowledged
  <2> QED BY <2>1, <2>2, <2>3
<1>4. [Stopped]_testVars <=>
        [signal = "aborted" =>
         /\ \A x \in Promises : promise'[x] = "resolved" => promise[x] = "resolved"
         /\ Len(log') > Len(log) => log'[Len(log')] = "err"
         /\ \A i \in DOMAIN sends : sends'[i] = "resolved" => sends[i] = "resolved"]_testVars
  BY DEF NoPromiseResolves, NoMessageComes, NoSendResolves
<1> QED BY <1>1, <1>2, <1>3, <1>4, TestInvInit, TestInvStep, SendsTypeStep, PTL
        DEF TestSpec, NothingAfterAbort
=============================================================================
