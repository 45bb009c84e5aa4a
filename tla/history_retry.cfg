CONSTANTS
  Receipts = {r1, r2}
  MaxHistory = 2
  Debounce = 1
  MaxStamp = 2
  SaveFaults = {}
  LoadFaults = {}
SPECIFICATION Spec
INVARIANT LastPrintIsListed
