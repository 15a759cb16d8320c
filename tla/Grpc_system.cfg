SPECIFICATION SystemSpec
CONSTANTS
  MaxMessages = 2
  MaxRequests = 2
  MaxSends = 2
INVARIANT NoHandlerThrows OkMeansReturned StatusIsTrue OkIsTheMethods
