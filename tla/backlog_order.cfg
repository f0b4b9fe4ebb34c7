SPECIFICATION Spec
CONSTANTS
  FirstSequence = 33554
  LastSequence = 33555
  Rounds = {0, 1, 99}
  Messages <- SomeMessages
INVARIANTS NothingLost NoCurrentWaits
CHECK_DEADLOCK FALSE
