SPECIFICATION FairSpec
CONSTANTS
  None = None
  Identities = {"aci", "pni"}
  Links = {1, 2}
  MediumMax = 40
  Batch = 2
  Minimum = 2
  StartIds = {37}
  MaxFailures = 1
  MaxFetches = 1
  Defects = {"profileKey", "backupKey", "profileKeyLength"}
  MaxScans = 2
  Second = 4
  Total = 13
  PollCap = 2
  Leeway = 1
  Size = 3
  MaxBreaks = 2
CHECK_DEADLOCK FALSE
INVARIANTS
  ServedKeysHeld
  NoNeedlessRefresh
  RegistrationIsTrue
  PollIsPunctual
  ArchiveIsWhole
PROPERTIES
  BundlesSettle
