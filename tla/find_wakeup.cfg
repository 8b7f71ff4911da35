SPECIFICATION FairSpec
CONSTANT NHooks = 2
CHECK_DEADLOCK FALSE
PROPERTY StartUnblocks
