CONSTANTS
  Clicks = {c1, c2}
  MaxSignals = 0
  MaxMarks = 0
  Skipped = {}
  Guests = {TRUE}
  MayFail = FALSE
SPECIFICATION Spec
PROPERTIES HardStopOnlyUnanswered
CHECK_DEADLOCK FALSE
