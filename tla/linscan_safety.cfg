SPECIFICATION Spec
CONSTANTS
  NumDRs = 2
  NumARs = 1
  NumIntervals = 4
  MaxIndex = 3
  PreRegs = {1}
  Tables <- MCTables
CHECK_DEADLOCK FALSE
INVARIANTS Consistent NoSharedRegister SpillCandidateExists
PROPERTIES SpillsFurthest
