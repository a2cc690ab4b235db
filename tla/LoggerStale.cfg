\* Two writers, either of which may fail.
CONSTANTS
  w1 = w1
  w2 = w2
  r1 = r1
  r2 = r2
  Size = 8
  PayloadSizes <- Payloads
  Writers <- TwoWriters
  Readers <- OneReader
  MaxWrites = 5
  Faults = TRUE
  NoOne = NoOne
SPECIFICATION Spec
INVARIANT ReadersSeeEntries
