CONSTANTS
  Calls <- SomeCalls
  Kind <- KindOf
  Environments <- SomeEnvironments
  NoInt = NoInt
  MaxCrashes = 2
  MaxStarts = 2
SPECIFICATION ReachableSpec
INVARIANT TypeOK
INVARIANT StopsOnPurpose
PROPERTY RevokedAgentStops
CHECK_DEADLOCK FALSE
