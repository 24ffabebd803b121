CONSTANTS
  VM = v1
  Starts = {1, 2}
  Pids = {p1}
  Absent = Absent
  Empty = Empty
  NoPid = NoPid
  ReusePids = TRUE
  MaxSignals = 1
  MaxMarks = 1
  Guests = {TRUE}
  MayFail = TRUE
SPECIFICATION Spec
INVARIANTS TypeOK ExitIsLastWord BracketCloses
PROPERTIES StopIsReported
CHECK_DEADLOCK FALSE
