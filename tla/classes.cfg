SPECIFICATION Spec
CONSTANTS
 Names <- ThreeTypes
 Declarations <- AllKinds
 MaxInterfaces = 2
 MaxMembers = 3
 MaxBases = 2
 MaxConversions = 2
CHECK_DEADLOCK FALSE
INVARIANTS Consistent CallsReachOverrider
PROPERTIES ImportedAsDeclared
