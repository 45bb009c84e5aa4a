CONSTANTS
  Jobs = {j1}
  NoRow = NoRow
  MaxAttempts = 2
  TTL = 2
  MaxBackoff = 1
  Slots = {s1, s2}
  NoJob = NoJob
  Printable = {j1}
  WriteFaults = {}
  PrintOutcomes = {"sent", "failed"}
  MaxDeliveries = 2
  MaxStops = 0
SPECIFICATION Spec
INVARIANT NoAcceptedJobForgotten
