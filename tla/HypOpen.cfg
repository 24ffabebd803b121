CONSTANTS
  VMs = {v1, v2}
  Starts = {1, 2}
  Pids = {p1, p2}
  Absent = Absent
  Empty = Empty
  NoPid = NoPid
  Disciplined = FALSE
  WriteMayFail = TRUE
  MayExit = TRUE
  ReusePids = TRUE
SPECIFICATION Spec
INVARIANTS PidFileNamesRun SignalsGoHome
PROPERTIES ExitReported
CHECK_DEADLOCK FALSE
