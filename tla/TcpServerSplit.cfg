\* One server; a client sends one packet in two segments.
CONSTANTS
  A = A
  B = B
  c1 = c1
  c2 = c2
  Servers <- OneServer
  Clients <- TwoClients
  SlotCount = 1
  Types <- TwoTypes
  MaxSent = 2
  Sends <- Split
  None = None
SPECIFICATION Spec
PROPERTY ClosedOnlyIfRemoteQuit
