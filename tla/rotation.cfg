SPECIFICATION RotationSpec
CONSTANTS
  v1 = v1
  v2 = v2
  v3 = v3
  v4 = v4
  NoAddress = NoAddress
  Validators = {v1, v2, v3, v4}
  ValSets <- UpToFourValidators
  MaxRound = 8
INVARIANTS EveryoneGetsATurn AuthorMovesOn
