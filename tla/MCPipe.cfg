SPECIFICATION PipeFairSpec
CONSTANTS
  c1 = c1
  i1 = i1
  i2 = i2
  Requests = {}
  ChosenIds = {c1}
  RandomIds = {i1, i2}
  None = None
  KeepAlive = KeepAlive
  MaxIncoming = 3
INVARIANTS
  NoSilentLoss
  YieldedInOrder
  DisconnectedIsComplete
PROPERTY
  DisconnectIsSeen
