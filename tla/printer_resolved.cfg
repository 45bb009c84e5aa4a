CONSTANTS
  Calls = {c1, c2}
  BadAddress = {}
  Chunks = 2
SPECIFICATION Spec
SYMMETRY CallSymmetry
INVARIANT ResolvedMeansHandedOver
CHECK_DEADLOCK FALSE
