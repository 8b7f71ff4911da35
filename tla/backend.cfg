SPECIFICATION FairSpec
CONSTANTS
  ConfigFile <- Lines
  MaxContexts = 4
  NULL = NULL
CHECK_DEADLOCK FALSE
INVARIANTS TypeOK IOOnLiveContext ContextsOwned BoundIsOwned QueueOutlivesUsers ScriptIsAlive
PROPERTY EndsWhenAsked
