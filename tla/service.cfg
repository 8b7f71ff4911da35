SPECIFICATION FairSpec
CONSTANT NHooks = 3
CHECK_DEADLOCK FALSE
INVARIANTS TypeOK RunUnderHooks HooksNested EndedIsClean
PROPERTY StopReturns
