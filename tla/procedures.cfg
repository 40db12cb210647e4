SPECIFICATION Spec
CONSTANTS
  Programs <- MCPrograms
  TypeOfName <- MCTypeOfName
  Radix = 16
  StackTop = 256
  Rubbish = 10922
CHECK_DEADLOCK FALSE
INVARIANTS CallsCorrect RefusalsExplained
