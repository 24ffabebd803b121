CONSTANTS
  Absent = Absent
  Partial = Partial
  New = New
  Tagless = Tagless
  GiB = 2
  Word = 16
  Asked = {}
  Calls = {c1, c2}
  Kinds = {"create"}
  Joins = {}
  MayFail = TRUE
  MayCrash = FALSE
SPECIFICATION Spec
PROPERTIES CreatedMeansIdentity
CHECK_DEADLOCK FALSE
