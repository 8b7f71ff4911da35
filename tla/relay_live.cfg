SPECIFICATION FairSpec
CONSTANTS
  NLines = 1
  Addr = {a1, a2}
  MaxMsg = 2
  MaxStarts = 1
  NULL = NULL
  Dangling = Dangling
  Junk = Junk
  Ping = Ping
CHECK_DEADLOCK FALSE
INVARIANT PendingIsOutstanding
PROPERTY EventuallySettled
