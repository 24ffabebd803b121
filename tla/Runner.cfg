CONSTANTS
  Clicks = {c1}
  MaxSignals = 2
  MaxMarks = 2
  Skipped = {}
  Guests = {TRUE, FALSE}
  MayFail = TRUE
SPECIFICATION Spec
INVARIANTS TypeOK ClosingBracket
PROPERTIES StopEndsRunner SignalEndsRunner RebootRestarts HardStopOnlyUnanswered
CHECK_DEADLOCK FALSE
