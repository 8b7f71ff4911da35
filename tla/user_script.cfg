SPECIFICATION Spec
CONSTANTS
  Packs <- SomePacks
  Garbled = Garbled
  MaxCalls = 3
  NULL = NULL
CHECK_DEADLOCK FALSE
INVARIANTS TypeOK WrittenIsMeant DbIsNamed
