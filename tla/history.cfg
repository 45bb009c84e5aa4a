CONSTANTS
  Receipts = {r1, r2, r3}
  MaxHistory = 2
  Debounce = 2
  MaxStamp = 4
  SaveFaults = {"refused", "truncated"}
  LoadFaults = {"unreadable"}
SPECIFICATION FairSpec
INVARIANT TypeOK
INVARIANT KeepsTheLatest
INVARIANT UnsavedIsScheduled
PROPERTY CloseSavesAll
PROPERTY SavedWhenQuiet
