CONSTANTS
  VMs = {v1, v2}
  Images = {i1}
  Files = {f1, f2, f3}
  Absent = Absent
  Blank = Blank
  Partial = Partial
  MayFail = TRUE
  RemoveMayFail = FALSE
SYMMETRY Symmetry
VIEW View
SPECIFICATION Spec
INVARIANTS TypeOK PlacedIsWhole
PROPERTIES OnlyGuestsWrite CopyIsPrivate
CHECK_DEADLOCK FALSE
