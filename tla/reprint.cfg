CONSTANTS
  Receipts = {r1, r2, r3}
  MaxHistory = 2
  Debounce = 1
  MaxStamp = 3
  SaveFaults = {}
  LoadFaults = {}
  Requests = {q1}
  Bodies <- SomeBodies
  MaxBody = 3
  Limits <- SomeLimits
  NaN = NaN
  DefaultLimit = 1
  MaxLimit = 1
SPECIFICATION HealthSpec
INVARIANT HealthTypeOK
INVARIANT AnsweredOnce
INVARIANT TextArrives
PROPERTY ShowsTheLatest
