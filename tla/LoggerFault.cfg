\* One writer whose copy_from_user may fail, one reader; eight cells lapped
\* by five entries of three or four.
CONSTANTS
  w1 = w1
  w2 = w2
  r1 = r1
  r2 = r2
  Size = 8
  PayloadSizes <- Payloads
  Writers <- OneWriter
  Readers <- OneReader
  MaxWrites = 5
  Faults = TRUE
  NoOne = NoOne
SPECIFICATION Spec
INVARIANTS TypeOK ReadersSeeEntries
PROPERTIES ReadsMoveForward WriteIsReadable
