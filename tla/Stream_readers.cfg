SPECIFICATION FairSpec
CHECK_DEADLOCK FALSE
CONSTANTS
  None = None
  l1 = l1 l2 = l2 c1 = c1 c2 = c2
  Listeners = {l1, l2}
  KindOf <- MessageAndNext
  Loops = {c1, c2}
  ListenerActs = {"add", "remove", "notify", "throw"}
  Overlapping = TRUE
  MaxMessages = 2
  MaxDepth = 2
INVARIANT TypeOK ListenersServed IteratorFifo NothingAfterEnd
PROPERTY ImplementsAsyncResults LoopsEnd
