SPECIFICATION MessageSpec
CHECK_DEADLOCK FALSE
CONSTANTS
  Messages <- SomeMessages
  Additions <- SomeAdditions
  Declared <- SomeOrder
  Senders <- SomeSenders
  Relays <- SomeRelays
  JsonReaders <- SomeReaders
  Values <- SomeValues
  Dates <- SomeDates
  FirstSecond <- Seconds0
  LastSecond = 10
  Longest = 10
INVARIANTS RelayLosesNothing CutBetweenFields JsonLosesNothing ReadIsMessage WellKnownKept
PROPERTY CopyIsEqual
