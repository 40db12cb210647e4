SPECIFICATION FairSpec
CONSTANTS
 NumTimers = 2
 NumWindows = 1
 Bits = {1,2,3}
 MAXKEYBUF = 2
 MainOps = {"ON TIMER CALL","TIMER ON","TIMER OFF","WINDOW","WINDOW CLOSE","ON WINDOW CLOSE CALL","INKEY$"}
 CallbackOps = {"TIMER OFF","SLEEP","VWAIT","SYSTEM"}
 MaxStatements = 3
 MaxEvents = 2
 MaxDepth = 3
 MaxClicks = 1
CHECK_DEADLOCK FALSE
INVARIANTS Consistent TickInOnePlace
PROPERTIES TicksAnswered
