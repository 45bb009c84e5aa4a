CONSTANTS
  Jobs = {j1}
  NoRow = NoRow
  MaxAttempts = 2
  TTL = 2
  MaxBackoff = 1
  Slots = {s1, s2}
  NoJob = NoJob
  Printable = {j1}
  WriteFaults = {"refused", "truncated"}
  PrintOutcomes = {"sent", "failed"}
  MaxDeliveries = 2
  MaxStops = 1
SPECIFICATION FairSpec
INVARIANT AttemptsBounded
INVARIANT PrintsBounded
PROPERTY HeldUntilDone
PROPERTY LiveRowLeavesOnlySent
PROPERTY AbandonedIsFinal
PROPERTY RowsComeFromDeliveries
PROPERTY BufferDrains
