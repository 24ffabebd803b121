CONSTANTS
  Absent = Absent
  Partial = Partial
  New = New
  Tagless = Tagless
  GiB = 2
  Word = 16
  Asked <- SomeAsked
  Calls = {c1, c2, c3}
  Kinds = {"create", "provision", "attach", "detach", "delete"}
  Joins <- SomeJoins
  MayFail = TRUE
  MayCrash = TRUE
SYMMETRY CallSymmetry
SPECIFICATION Spec
INVARIANTS TypeOK ProvisionIsWhole
PROPERTIES IdentityNeverReplaced DataNeverReplaced SameMachineAcrossBoots
CHECK_DEADLOCK FALSE
