------------------------- MODULE DebuggerRefinement -------------------------
(***************************************************************************)
(* The debugger implements DebugSession: the child process and the IDE's   *)
(* idea of its state give the phase, the console is the screen.            *)
(***************************************************************************)
EXTENDS Debugger

Phase == IF dbgState = "Stopped" /\ idePc # "launch" THEN "idle"
         ELSE IF cpc = "gone" THEN "ended"
         ELSE IF Frozen THEN "suspended"
         ELSE "running"

Session == INSTANCE DebugSession WITH phase <- Phase, screen <- console

\* Programs run one at a time, all that they print is shown in order before they
\* are over, and only one that is not suspended prints or ends: the protocol of
\* debug.c with the runtime's _DEBUG_PUTS, _freeze_myself and _autil_exit.
SessionImplemented == Session!SessionSpec

\* The same, with the promises that output appears and the end is noticed,
\* which the scheduling of the two tasks is enough for as long as the window is
\* not closed and no program gets the Process structure of an earlier help
\* viewer, for whose reply its end would be taken.
FairSessionImplemented ==
  []~quitting /\ [](dbgState # "Stopped" => dbgProc # helpProc) => Session!Prompt
=============================================================================
