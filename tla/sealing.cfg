SPECIFICATION SealingSpec
CONSTANTS
  Ids = {b1, b2}
  Foreign = Foreign
  None = None
  MaxHeight = 2
INVARIANTS SealingTypeOK HashHasOwner NoBlockLost
PROPERTY LoopGoesOn
CHECK_DEADLOCK FALSE
