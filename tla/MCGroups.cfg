SPECIFICATION Spec
CONSTANTS
  alice = alice
  bob = bob
  carol = carol
  carolPni = carolPni
  dave = dave
  None = None
  Fail = Fail
  Garbled = Garbled
  Acis = {alice, bob, carol, dave}
  Pnis = {carolPni}
  Clients = {alice, bob}
  ForeignEdits <- MCForeignEdits
  Creator = alice
  Candidates0 <- MCCandidates
  Given <- MCGiven
  Intents <- MCIntents
  CredentialDays = 1
  MaxDay = 2
  MaxVersion = 2
  MaxFailures = 1
INVARIANTS
  ViewIsARevision
  EndsExplained
PROPERTIES
  OnlyUnknownsFail
  AuthHolds
