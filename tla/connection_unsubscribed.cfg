CONSTANTS
  MinBackoff <- MinSeconds
  MaxBackoff <- MaxSeconds
  AuthOutcomes = {"ok", "refused"}
  MaxFaults = 1
SPECIFICATION FairSpec
PROPERTY HealthyIsSubscribed
CHECK_DEADLOCK FALSE
