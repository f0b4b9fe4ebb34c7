SPECIFICATION FairSpec
CONSTANTS
  v1 = v1
  v2 = v2
  v3 = v3
  v4 = v4
  v5 = v5
  v6 = v6
  p1 = p1
  p2 = p2
  NoAddress = NoAddress
  None = None
  valSet <- FourValidators
  Started = {v1, v2, v3}
  Payloads = {p1, p2}
  Proposals <- TwoHeights
  Executable <- TwoHeights
  MaxSequence = 2
  MaxRound = 0
  Restartable = {}
  Importing = {v3}
PROPERTIES ImplementsLedger EveryHeightCommitted
CHECK_DEADLOCK FALSE
