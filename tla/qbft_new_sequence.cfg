SPECIFICATION Spec
CONSTANTS
  v1 = v1
  v2 = v2
  v3 = v3
  valSet <- ThreeValidators
  Started = {v1, v2, v3}
  Proposals <- FirstTwoProposers
  Ceil2Nby3Block = 0
  NoAddress = NoAddress
  None = None
  MaxSequence = 2
  MaxRound = 1
INVARIANT RoundChangesCurrent
CHECK_DEADLOCK FALSE
