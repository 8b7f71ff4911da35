SPECIFICATION ChainSpec
CONSTANTS
  Blocks <- Attempts
  Plain = {}
  FirstMid = 0
  MidModulus = 32
  MaxTries = 2
  MaxPings = 1
  MaxMsg = 2
  NULL = NULL
CHECK_DEADLOCK FALSE
INVARIANT SuccessIsReceipt
CONSTRAINT FewUnderWay
