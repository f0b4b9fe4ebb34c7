SPECIFICATION MinerSpec
CONSTANT MaxBlocks = 3
INVARIANTS MinerTypeOK StopIsUndone
PROPERTIES MiningResumes EmptyPhaseEnds HeadsHandled
CHECK_DEADLOCK FALSE
