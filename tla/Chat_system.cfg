SPECIFICATION ChatSpec
CHECK_DEADLOCK FALSE
CONSTANTS
  None = None
  Calls = {a, b, c}
  Others = {c}
  Callbacks = {"removeUser", "resolve"}
  CallbackActs = {"add", "remove", "throw"}
  MaxTime = 2
  MaxPosts = 1
  SameTime = FALSE
INVARIANT CalledOnce AllCallbacksInvoked UsersAreOpen EventsInOrder
PROPERTY NothingAfterClose
