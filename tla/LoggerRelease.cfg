\* One writer walks the list while a reader closes its file.
CONSTANTS
  w1 = w1
  w2 = w2
  r1 = r1
  r2 = r2
  Size = 8
  PayloadSizes <- Payloads
  Writers <- OneWriter
  Readers <- OneReader
  MaxWrites = 5
  Faults = FALSE
  NoOne = NoOne
SPECIFICATION Spec
PROPERTY ReaderListProtected
