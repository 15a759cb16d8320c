SPECIFICATION FairTestSpec
CHECK_DEADLOCK FALSE
CONSTANTS
  None = None
  Listeners = {l1}
  KindOf <- JustMessages
  Loops = {c1}
  ListenerActs = {"remove", "throw"}
  Overlapping = FALSE
  MaxMessages = 2
  MaxDepth = 1
  CallKinds = {"unary", "serverStreaming", "clientStreaming"}
  MaxInputs = 2
INVARIANT StatusTellsResponses
PROPERTY NothingAfterAbort TestCallEnds
