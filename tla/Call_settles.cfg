SPECIFICATION FairCallSpec
CHECK_DEADLOCK FALSE
CONSTANTS
  None = None
  Listeners = {l1, l2}
  KindOf <- MessageAndEnds
  Loops = {c1}
  ListenerActs = {"add", "remove", "throw"}
  Overlapping = FALSE
  MaxMessages = 2
  MaxDepth = 1
INVARIANT StreamAgreesWithStatus OkNeedsTrailer
PROPERTY CallEnds
