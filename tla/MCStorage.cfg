SPECIFICATION FairSpec
CONSTANTS
  d1 = d1
  d2 = d2
  d3 = d3
  None = None
  Devices = {d1, d2, d3}
  Records = {1, 2}
  Ikms = {"", "ikm"}
  MaxFailures = 1
INVARIANTS
  IndexComplete
  AckedIsKept
PROPERTIES
  EditsAreAtomic
  EveryEditLands
