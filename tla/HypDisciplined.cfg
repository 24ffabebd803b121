CONSTANTS
  VMs = {v1}
  Starts = {1, 2, 3}
  Pids = {p1, p2}
  Absent = Absent
  Empty = Empty
  NoPid = NoPid
  Disciplined = TRUE
  WriteMayFail = FALSE
  MayExit = FALSE
  ReusePids = TRUE
SPECIFICATION Spec
INVARIANTS TypeOK SingleRunner StartedIsStoppable LiveRunnerKeepsDirectory
PROPERTIES ImplementsSlot TruncationIsTransient
CHECK_DEADLOCK FALSE
