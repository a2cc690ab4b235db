\* One server with a slot for each client; packets may arrive in halves.
CONSTANTS
  A = A
  B = B
  c1 = c1
  c2 = c2
  Servers <- OneServer
  Clients <- TwoClients
  SlotCount = 2
  Types <- TwoTypes
  MaxSent = 2
  Sends <- Halved
  None = None
SPECIFICATION FairSpec
PROPERTIES HungUpIsFreed UnreadIsRead
