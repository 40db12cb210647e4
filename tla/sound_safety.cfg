SPECIFICATION Spec
CONSTANTS
 NUM_CHANNELS = 2
 NUM_IO = 3
 MaxStatements = 5
CHECK_DEADLOCK FALSE
INVARIANTS Consistent ClosedWhenQuiet
PROPERTIES StatementsEnd
