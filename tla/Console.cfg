CONSTANTS
  P1 = P1
  P2 = P2
  Words = {x}
  NL = NL
  BufLen = 3
  MaxConsole = 6
SPECIFICATION Spec
INVARIANTS TypeOK ReadsLikeOneChunk
PROPERTIES MarksRecorded
CHECK_DEADLOCK FALSE
