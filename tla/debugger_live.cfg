SPECIFICATION UserSpec
CONSTANTS
  NumLines = 1
  Bases = {10}
  Procs = {1, 2}
  MaxBp = 1
  MaxVersion = 1
  MaxOut = 2
  Commands = {"c", "s", "e"}
  CanQuit = TRUE
  Faulting = {}
  ExitHandlerFails = FALSE
CHECK_DEADLOCK FALSE
INVARIANTS OutputInOrder
PROPERTIES OutputAnswered ExitTerminates FairSessionImplemented
