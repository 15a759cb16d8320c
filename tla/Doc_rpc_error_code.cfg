SPECIFICATION SystemSpec
CHECK_DEADLOCK FALSE
CONSTANTS
  MaxMessages = 1
  MaxRequests = 1
  MaxSends = 1
INVARIANT RpcErrorCodeArrives
