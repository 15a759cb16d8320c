SPECIFICATION RelaySpec
CHECK_DEADLOCK FALSE
CONSTANTS
  Messages <- FewMessages
  Additions <- FewMessages
  Declared <- SomeOrder
  Senders <- SomeSenders
  Relays <- EmptyTypes
  JsonReaders <- NoValues
  Values <- NoValues
  Dates <- NoValues
  FirstSecond <- Seconds0
  LastSecond = 10
  Longest = 10
INVARIANT RelayLosesNothing
