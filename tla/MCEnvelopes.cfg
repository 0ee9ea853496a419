SPECIFICATION FairSpec
CONSTANTS
  None = None
  Messages <- MCMessages
  Accounts = {"self", "peer", "other", "otherpni"}
  KnownPnis <- MCKnown
  MaxTransit = 2
  MaxLosses = 1
CHECK_DEADLOCK FALSE
INVARIANTS
  ReadIsEntitled
  PniVerifiedExactly
PROPERTIES
  SenderKeysKept
  EveryMessageRead
