CONSTANTS
  MaxConsole = 4
  MaxTimers = 2
SPECIFICATION Spec
INVARIANTS TypeOK ReadsLikeOneRead
PROPERTIES CatchesUp
CHECK_DEADLOCK FALSE
