SPECIFICATION BuildSpec
CONSTANTS
  Programs <- BuildPrograms
  Plans <- MCPlans
  Debug = TRUE
  BranchReach = 40
  BigEndianHost = TRUE
  Radix = 64
  MAX_NUM_HUNKS = 8
  SegmentSpace = 150
CHECK_DEADLOCK FALSE
INVARIANTS ReferencesResolved DebugInfoFound CodeAssembled ReadsGiveLiterals Explained
