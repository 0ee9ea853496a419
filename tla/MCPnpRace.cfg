SPECIFICATION PnpSpec
CONSTANTS
  alice = alice
  self = self
  pni = pni
  None = None
  s1 = s1
  i1 = i1
  Peers <- MCPeers
  Self = self
  SelfPni = pni
  Devices = {1, 2, 3}
  DEFAULT_DEVICE_ID = 1
  OwnDevice = 1
  Senders = {s1, i1}
  Initializers = {i1}
  Receivers = {}
  Calls <- CallsToSelf
  Starts <- PnpStarts
  MaxChanges = 0
INVARIANT
  NoKeyReuse
