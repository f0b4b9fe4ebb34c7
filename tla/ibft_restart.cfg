SPECIFICATION Spec
SYMMETRY SamePayloads
CONSTANTS
  v1 = v1
  v2 = v2
  v3 = v3
  v4 = v4
  v5 = v5
  v6 = v6
  p1 = p1
  p2 = p2
  NoAddress = NoAddress
  None = None
  valSet <- FourValidators
  Started = {v1, v2, v3}
  Payloads = {p1, p2}
  Proposals <- TwoSealed
  Executable <- NoBlock
  MaxSequence = 1
  MaxRound = 0
  Restartable = {v2}
  Importing = {v1, v2, v3}
INVARIANTS Agreement PrepareOnce
CHECK_DEADLOCK FALSE
