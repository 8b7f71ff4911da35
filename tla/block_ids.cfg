SPECIFICATION Spec
CONSTANTS
  Blocks <- OneOneTwoFour
  Plain = {2}
  FirstMid = 0
  MidModulus = 4
  MaxTries = 2
  MaxPings = 2
  NULL = NULL
CHECK_DEADLOCK FALSE
INVARIANTS BlocksAscend HandedOnceInOrder
CONSTRAINT FewUnderWay
