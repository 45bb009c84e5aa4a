CONSTANTS
  MinBackoff <- MinSeconds
  MaxBackoff <- MaxSeconds
  AuthOutcomes = {"ok", "refused"}
  MaxFaults = 12
SPECIFICATION FairSpec
INVARIANT NeverStranded
INVARIANT HandleIsArmed
INVARIANT ConnectedIsLive
INVARIANT OneHandler
INVARIANT StoppedIsQuiet
PROPERTY BackoffFallsOnConnect
PROPERTY Reconnects
CHECK_DEADLOCK FALSE
