SPECIFICATION FairChatSpec
CHECK_DEADLOCK FALSE
CONSTANTS
  None = None
  Calls = {a, b}
  Others = {}
  Callbacks = {"removeUser", "resolve"}
  CallbackActs = {}
  MaxTime = 2
  MaxPosts = 0
  SameTime = FALSE
PROPERTY JoinEndsAfterClose
