SPECIFICATION Spec
CONSTANTS
  a = a
  b = b
  c = c
  NoProxy = NoProxy
  Accounts = {a, b, c}
  Proxies = {NoProxy, b}
  Amounts = {0, 1, 2, 4}
  GenesisFunds <- ThreeFunds
  GenesisPledge <- OneValidator
  StakerBase = 2
  ValidatorBase = 4
  FullCoefficient = 3
  EmptyBlockPenalty = 1
  PointPrice = 1
  CancelInterval = 1
  BlockReward = 5
  ValidatorPercent = 7
  MaxBlock = 2
  BlockCalls = 2
PROPERTY FailedCallChangesNothing
CHECK_DEADLOCK FALSE
