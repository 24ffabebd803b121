CONSTANTS
  VMs = {v1}
  Starts = {1}
  Pids = {p1}
  Absent = Absent
  Empty = Empty
  NoPid = NoPid
  Disciplined = TRUE
  WriteMayFail = FALSE
  MayExit = TRUE
  ReusePids = FALSE
SPECIFICATION Spec
PROPERTIES ExitClearsPidFile
CHECK_DEADLOCK FALSE
