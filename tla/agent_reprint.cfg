CONSTANTS
  Jobs = {j1}
  NoRow = NoRow
  MaxAttempts = 3
  TTL = 3
  MaxBackoff = 2
  Slots = {s1, s2}
  NoJob = NoJob
  Printable = {j1}
  WriteFaults = {}
  PrintOutcomes = {"sent"}
  MaxDeliveries = 1
  MaxStops = 0
SPECIFICATION Spec
INVARIANT NoReprintAfterPrint
