CONSTANTS
  Jobs = {j1, j2}
  NoRow = NoRow
  MaxAttempts = 2
  TTL = 2
  MaxBackoff = 1
  Slots = {s1, s2}
  NoJob = NoJob
  Printable = {j1}
  WriteFaults = {"refused"}
  PrintOutcomes = {"sent", "failed"}
  MaxDeliveries = 1
  MaxStops = 1
SPECIFICATION Spec
SYMMETRY SlotSymmetry
INVARIANT TypeOK
INVARIANT NoLostJob
INVARIANT DiskInStep
PROPERTY ImplementsQueue
