\* Two servers that share the process's descriptors; packets arrive whole.
CONSTANTS
  A = A
  B = B
  c1 = c1
  c2 = c2
  Servers <- TwoServers
  Clients <- TwoClients
  SlotCount = 1
  Types <- TwoTypes
  MaxSent = 2
  Sends <- Whole
  None = None
SYMMETRY Symmetry
SPECIFICATION Spec
INVARIANTS TypeOK TablesHoldOwnClients NameIsClients
PROPERTY ClosedOnlyIfRemoteQuit
