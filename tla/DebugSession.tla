---------------------------- MODULE DebugSession ----------------------------
(***************************************************************************)
(* What the user of the debugger sees of the programs he runs: they run    *)
(* one after the other, each may be suspended and resumed, and what they   *)
(* print appears on the screen, in order, before the program is over.      *)
(***************************************************************************)
EXTENDS Integers, Sequences

VARIABLES
  phase,    (* of the program: idle, running, suspended or ended             *)
  printed,  (* number of messages the programs printed                       *)
  screen    (* the messages shown                                            *)

sessionVars == <<phase, printed, screen>>

SessionInit == phase = "idle" /\ printed = 0 /\ screen = <<>>

Start   == phase = "idle" /\ phase' = "running" /\ UNCHANGED <<printed, screen>>

(* One message at a time; a single step may end with it.                     *)
Output  == /\ phase = "running" /\ printed = Len(screen)
           /\ printed' = printed + 1
           /\ phase' \in {"running", "suspended"}
           /\ UNCHANGED screen

Show    == /\ phase \in {"running", "suspended"} /\ printed > Len(screen)
           /\ screen' = Append(screen, printed)
           /\ UNCHANGED <<phase, printed>>

Suspend == phase = "running" /\ phase' = "suspended" /\ UNCHANGED <<printed, screen>>
Resume  == phase = "suspended" /\ phase' = "running" /\ UNCHANGED <<printed, screen>>

(* A program is over only when everything it printed is on the screen.       *)
End     == /\ phase = "running" /\ printed = Len(screen)
           /\ phase' = "ended" /\ UNCHANGED <<printed, screen>>
Notice  == phase = "ended" /\ phase' = "idle" /\ UNCHANGED <<printed, screen>>

SessionNext == Start \/ Output \/ Show \/ Suspend \/ Resume \/ End \/ Notice

SessionSpec == SessionInit /\ [][SessionNext]_sessionVars

(* Output appears and the end is noticed without the program's or the user's *)
(* help.                                                                     *)
Prompt == WF_sessionVars(Show) /\ WF_sessionVars(Notice)
=============================================================================
