SPECIFICATION Spec
CONSTANTS
  alice = alice
  bob = bob
  self = self
  t1 = t1
  t2 = t2
  d2 = d2
  NoBlob = NoBlob
  Uploads = {t1, t2}
  Tasks = {t1, t2}
  CdnNumbers = {2, 3, 4}
  Brackets = {1, 4}
  Recipients = {alice, bob}
  Self = self
  OtherDevices = {d2}
  Calls <- MCContacts
  MaxLinks = 2
INVARIANT
  UploadedContactsArrive
