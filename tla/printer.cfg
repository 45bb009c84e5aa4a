CONSTANTS
  Calls = {c1, c2, c3}
  BadAddress = {c3}
  Chunks = 2
SPECIFICATION FairSpec
INVARIANT TimerOfPhase
PROPERTY RejectedSendsNothing
PROPERTY ImplementsPromise
PROPERTY EventuallySettles
CHECK_DEADLOCK FALSE
