SPECIFICATION Spec
CONSTANTS
  s1 = s1
  s2 = s2
  s3 = s3
  Stakers = {s1, s2}
  Balance <- EqualPledges
  Coefficient <- FullCoefficients
  FullCoefficient = 70
  EmptyDifficulty = 2
  Normal = Normal
  None = None
  MaxHeight = 2
INVARIANTS TypeOK EmptyBlocksVoted
PROPERTY OnlyEmptyBlocksUndo
SYMMETRY Interchangeable
CHECK_DEADLOCK FALSE
