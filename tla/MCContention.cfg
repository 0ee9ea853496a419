SPECIFICATION FairSpec
CONSTANTS
  alice = alice
  bob = bob
  self = self
  pni = pni
  None = None
  s1 = s1
  s2 = s2
  r1 = r1
  Peers <- MCPeers
  Self = self
  SelfPni = pni
  Devices = {1, 2}
  DEFAULT_DEVICE_ID = 1
  OwnDevice = 1
  Senders = {s1, s2}
  Receivers = {r1}
  Calls <- ContentionCalls
  Starts <- ContentionStarts
  MaxChanges = 0
INVARIANTS
  NoKeyReuse
  DeliveryInOrder
PROPERTIES
  SessionsAreAtomic
  EveryCallEnds
