\* Two entries of one file; one fits.
CONSTANTS
  k1 = k1
  k2 = k2
  Keys <- TwoKeys
  ValueCount = 1
  Values = {1}
  MaxSizes = {1}
  MaxBuffer = 1
  OpenMayFail = FALSE
SPECIFICATION FairSpec
INVARIANT FilesAreJournalled
PROPERTIES LockIsReleased CleanupMeetsLimit
