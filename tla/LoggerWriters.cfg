\* Two writers racing for the mutex, one reader that blocks.
CONSTANTS
  w1 = w1
  w2 = w2
  r1 = r1
  r2 = r2
  Size = 8
  PayloadSizes <- Payloads
  Writers <- TwoWriters
  Readers <- OneReader
  MaxWrites = 4
  Faults = FALSE
  NoOne = NoOne
SPECIFICATION FairSpec
INVARIANTS ReadersSeeEntries NoMissedWakeup
PROPERTY BlockedReaderReturns
