SPECIFICATION Spec
CONSTANTS
  NLines = 1
  Addr = {a1, a2}
  MaxMsg = 2
  MaxStarts = 2
  NULL = NULL
  Dangling = Dangling
  Junk = Junk
  Ping = Ping
CHECK_DEADLOCK FALSE
SYMMETRY Symmetry
INVARIANTS TypeOK StopAndWait UpstreamInOrder
PROPERTY ImplementsOutbox
