SPECIFICATION Spec
CONSTANTS
  NLines = 2
  Addr = {a1, a2}
  MaxMsg = 1
  MaxStarts = 1
  NULL = NULL
  Dangling = Dangling
  Junk = Junk
  Ping = Ping
CHECK_DEADLOCK FALSE
INVARIANT EveryMessageIntoAllSessions
