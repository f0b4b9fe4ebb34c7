SPECIFICATION Spec
CONSTANTS
  v1 = v1
  v2 = v2
  v3 = v3
  v4 = v4
  v5 = v5
  v6 = v6
  p1 = p1
  p2 = p2
  NoAddress = NoAddress
  None = None
  valSet <- FourValidators
  Started = {v1, v2, v3}
  Payloads = {p1, p2}
  Proposals <- TwoProposers
  Executable <- SecondProposer
  MaxSequence = 1
  MaxRound = 1
  Restartable = {}
  Importing = {v1, v2, v3}
INVARIANTS TypeOK CommitOnce CommitStaysLocked LockHasQuorum Agreement
  RoundHasQuorum QuorumStartsRound ProposalAtHand
PROPERTY ViewsGrow
CHECK_DEADLOCK FALSE
