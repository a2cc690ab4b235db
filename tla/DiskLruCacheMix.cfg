\* Streams may fail to open.
CONSTANTS
  k1 = k1
  k2 = k2
  Keys <- OneKey
  ValueCount = 2
  Values = {1, 2}
  MaxSizes = {2, 3}
  MaxBuffer = 2
  OpenMayFail = TRUE
SPECIFICATION Spec
INVARIANT AllOrNothing
