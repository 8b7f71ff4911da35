SPECIFICATION Spec
CONSTANTS
  NLines = 2
  Addr = {a1, a2}
  MaxMsg = 2
  MaxStarts = 1
  NULL = NULL
  Dangling = Dangling
  Junk = Junk
  Ping = Ping
CHECK_DEADLOCK FALSE
SYMMETRY Symmetry
CONSTRAINT MixUps
INVARIANT SendsInOrder
