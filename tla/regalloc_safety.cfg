CONSTANTS
  NumDRs = 2
  NumARs = 1
  MaxCases = 2
  MaxExprs = 2
  Deep = 3
  Wanted = "all"
  Inputs = {0, 1, 2}
  Junk = {0, 3}
  Sources <- MCSources
  Tables = {}
SPECIFICATION AllSpec
CHECK_DEADLOCK FALSE
INVARIANTS CodeFits RunsAsWritten
PROPERTIES ComesToEnd
