\* The process may be killed before it cleans up.
CONSTANTS
  k1 = k1
  k2 = k2
  Keys <- TwoKeys
  ValueCount = 1
  Values = {1}
  MaxSizes = {1}
  MaxBuffer = 1
  OpenMayFail = FALSE
SPECIFICATION FairSpec
PROPERTY LimitIsMet
