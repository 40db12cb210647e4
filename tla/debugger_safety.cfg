SPECIFICATION Spec
CONSTANTS
  NumLines = 2
  Bases = {10}
  Procs = {1, 2}
  MaxBp = 2
  MaxVersion = 2
  MaxOut = 1
  Commands = {"c", "s", "e"}
  CanQuit = TRUE
  Faulting = {2}
  ExitHandlerFails = TRUE
CHECK_DEADLOCK FALSE
INVARIANTS Consistent StoppedMeansGone ProgramGuarded EditorBreakpointsInserted
PROPERTIES SessionImplemented BreakpointsHold
