CONSTANTS
  Clicks = {}
  MaxSignals = 1
  MaxMarks = 0
  Skipped = {}
  Guests = {TRUE}
  MayFail = FALSE
SPECIFICATION Spec
INVARIANTS ShutdownIsClean
CHECK_DEADLOCK FALSE
