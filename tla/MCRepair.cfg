SPECIFICATION Spec
CONSTANTS
  alice = alice
  bob = bob
  self = self
  pni = pni
  None = None
  s1 = s1
  s2 = s2
  r1 = r1
  Peers <- AllPeers
  Self = self
  SelfPni = pni
  Devices = {1, 2, 3}
  DEFAULT_DEVICE_ID = 1
  OwnDevice = 2
  Senders = {s1}
  Receivers = {}
  Calls <- AnyCalls
  Starts <- AnyStarts
  MaxChanges = 1
INVARIANTS
  RetriesSuffice
  TypeOK
  RepairSticks
  AtMostOnce
  NoSessionWithSelf
  NothingForSelf
