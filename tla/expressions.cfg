CONSTANTS
  Bits <- FewBits
  BigEndian = TRUE
  Statements <- Assignments
SPECIFICATION Spec
CHECK_DEADLOCK FALSE
INVARIANTS CodeCorrect RefusalsExplained
