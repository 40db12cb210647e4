------------------------------ MODULE Debugger ------------------------------
(***************************************************************************)
(* The source level debugger of the AQB IDE: the IDE task (ide.c,          *)
(* ui_amiga.c, debug.c), the program it runs as a child process (the       *)
(* runtime's startup.S, cstartup.c and autil.c) and the help viewer it     *)
(* runs beside it.  They share one message port, g_debugPort, the table    *)
(* g_bpCodes of instructions replaced by ILLEGAL, and the child's memory.  *)
(*                                                                         *)
(* A program is a set of source lines.  Line l of the program loaded at b  *)
(* is the instruction at Start(b, l), which its source map entry names and *)
(* a breakpoint replaces, and the rest of its code at the next address.    *)
(***************************************************************************)
EXTENDS Integers, Sequences, FiniteSets

CONSTANTS
  NumLines,          (* source lines that own an entry of the source map     *)
  Bases,             (* addresses the segment loader may load a program at   *)
  Procs,             (* addresses exec may give to a Process structure       *)
  MaxBp,             (* MAX_NUM_BREAKPOINTS                                  *)
  MaxVersion,        (* bound: number of different programs compiled         *)
  MaxOut,            (* bound: number of messages the programs print         *)
  Commands,          (* commands the user types at the debugger's prompt     *)
  CanQuit,           (* may the user close the IDE's window?                 *)
  Faulting,          (* lines whose instruction raises an ACCESS FAULT       *)
  ExitHandlerFails   (* may an ON EXIT handler raise a runtime error?        *)

Lines == 1..NumLines

ASSUME DebuggerAssumption ==
  /\ NumLines \in Nat \ {0}
  /\ Bases \subseteq Nat \ {0}
  /\ Procs \subseteq Nat \ {0}
  /\ MaxBp \in Nat /\ MaxVersion \in Nat \ {0} /\ MaxOut \in Nat
  /\ Commands \subseteq {"c", "s", "e"}
  /\ Faulting \subseteq Lines
  /\ {CanQuit, ExitHandlerFails} \subseteq BOOLEAN

VARIABLES
  idePc,       (* where the IDE task is: event loop, launching, debugger     *)
               (* prompt, waiting for the child's end, or done               *)
  view,        (* g_active_view                                              *)
  quitting,    (* UI_run has returned, atexit runs IDE_deinit                *)
  dbgState,    (* g_dbgEnv.state                                             *)
  dbgProc,     (* g_dbgEnv.childProc                                         *)
  helpState,   (* g_helpEnv.state                                            *)
  helpProc,    (* g_helpEnv.childProc                                        *)
  bps,         (* lines with IDE_line.bp set                                 *)
  bpCodes,     (* g_bpCodes: slot -> [addr, code], addr 0 is a free slot     *)
  mem,         (* opcode at every address                                    *)
  applied,     (* history: lines whose breakpoint _launch_process found room *)
               (* for in the program                                         *)
  base,        (* load address of the child's program                        *)
  version,     (* which program that is: its opcodes                         *)
  cpc,         (* the child process: not there, booting, live, gone          *)
  at,          (* address the child executes next (g_dbgPC when frozen)      *)
  trace,       (* trace bit of the child's SR (g_dbgSR when frozen)          *)
  waiting,     (* the child is in _DEBUG_PUTS, waiting for the reply         *)
  breakStatus, (* the runtime's _break_status                                *)
  helpAlive,   (* the help viewer runs                                       *)
  trapCode,    (* g_trapCode                                                 *)
  startMsg,    (* where g_dbgEnv.u.dbg.msg is                                *)
  trapMsg,     (* where the _dbgMsg of _freeze_myself is                     *)
  outMsg,      (* where the _dbgOutputMsg of _DEBUG_PUTS is                  *)
  debugPort,   (* g_debugPort's list of messages                             *)
  printed,     (* history: number of messages the programs printed           *)
  console,     (* history: what the IDE's console shows of them              *)
  exitForced,  (* history: e was typed in this run                           *)
  fault        (* undefined behaviour reached (a freed task signalled, a     *)
               (* message sent while linked in another list, an opcode that  *)
               (* is not the program's executed)                             *)

ideVars   == <<idePc, view, quitting, dbgState, dbgProc, helpState, helpProc>>
bpVars    == <<bps, bpCodes, mem, applied, base, version>>
childVars == <<cpc, at, trace, waiting, breakStatus>>
msgVars   == <<startMsg, trapMsg, outMsg, debugPort>>
outVars   == <<printed, console>>
vars == <<ideVars, bpVars, childVars, helpAlive, trapCode, msgVars, outVars,
          exitForced, fault>>

-----------------------------------------------------------------------------
(* Addresses and opcodes.                                                    *)

FREE    == 0                 (* no program is loaded at the address          *)
ILLEGAL == -1                (* OPCODE_ILLEGAL                               *)
EXIT    == -2                (* debug_exitFn: entry of _autil_exit           *)
HANDLER == -3                (* inside _c_atexit                             *)
NoProc  == 0

Start(b, l)  == b + 2 * l
StartsOf(b)  == {Start(b, l) : l \in Lines}
CodeOf(b)    == StartsOf(b) \cup {a + 1 : a \in StartsOf(b)}
Memory       == UNION {CodeOf(b) : b \in Bases}
Starts       == IF base = 0 THEN {} ELSE StartsOf(base)
Code         == IF base = 0 THEN {} ELSE CodeOf(base)
Slots        == 1..MaxBp
FreeSlot     == [addr |-> 0, code |-> FREE]

(* trap codes of exec: access fault, ILLEGAL, trace, and TRAP #0 .. TRAP #3  *)
(* (CTRL-C, BREAK, failed assertion, runtime error), of which the IDE shows   *)
(* different texts and nothing else: one code stands for the four.           *)
AccessFault == 2
IllegalInstr == 4
TraceStep   == 9
SoftTrap    == 32
TrapCodes   == {0, AccessFault, IllegalInstr, TraceStep, SoftTrap}

(* messages: the DebugMsg.port field and the command.  Only the start        *)
(* messages have their port field set.                                       *)
StartReply(p) == [cmd |-> "START", port |-> p, out |-> 0]
HelpReply(p)  == [cmd |-> "WB", port |-> p, out |-> 0]
Puts(n)       == [cmd |-> "PUTS", port |-> NoProc, out |-> n]
TrapMessage   == [cmd |-> "TRAP", port |-> NoProc, out |-> 0]

Message == [cmd : {"START", "WB", "PUTS", "TRAP"}, port : Procs \cup {NoProc},
            out : Nat]

Frozen      == trapMsg # "idle"
ChildExists == cpc \in {"boot", "live"}
Running     == cpc = "live" /\ ~Frozen

-----------------------------------------------------------------------------
Init ==
  /\ idePc = "ui" /\ view = "editor" /\ quitting = FALSE
  /\ dbgState = "Stopped" /\ dbgProc = NoProc
  /\ helpState = "Stopped" /\ helpProc = NoProc /\ helpAlive = FALSE
  /\ bps = {} /\ bpCodes = [i \in Slots |-> FreeSlot]
  /\ mem = [a \in Memory |-> FREE] /\ applied = {} /\ base = 0 /\ version = 0
  /\ cpc = "none" /\ at = 0 /\ trace = FALSE
  /\ waiting = FALSE /\ breakStatus = FALSE
  /\ trapCode = 0
  /\ startMsg = "idle" /\ trapMsg = "idle" /\ outMsg = "idle"
  /\ debugPort = <<>>
  /\ printed = 0 /\ console = <<>>
  /\ exitForced = FALSE
  /\ fault = "none"

-----------------------------------------------------------------------------
(* The IDE: editor view.                                                     *)

InEditor == idePc = "ui" /\ view = "editor"

(* F9 *)
ToggleBreakPoint(l) ==
  /\ InEditor
  /\ bps' = IF l \in bps THEN bps \ {l} ELSE bps \cup {l}
  /\ UNCHANGED <<ideVars, bpCodes, mem, applied, base, version, childVars,
                 helpAlive, trapCode, msgVars, outVars, exitForced, fault>>

(* F5, up to CreateNewProc: the program is compiled (v is a new program when *)
(* the source was edited), loaded at b, and process p is created for it.     *)
(* Both may be where those of an earlier program were.                       *)
CreateChild(b, v, p) ==
  /\ InEditor
  /\ dbgState = "Stopped"
  /\ v \in {version, version + 1} \cap (1..MaxVersion)
  /\ ~(helpAlive /\ p = helpProc)
  /\ idePc' = "launch" /\ view' = "console" /\ dbgProc' = p
  /\ base' = b /\ version' = v
  /\ mem' = [a \in Memory |-> IF a \in CodeOf(b) THEN v ELSE mem[a]]
  /\ cpc' = "boot" /\ at' = 0 /\ trace' = FALSE
  /\ waiting' = FALSE /\ breakStatus' = FALSE
  /\ startMsg' = "idle" /\ trapMsg' = "idle" /\ outMsg' = "idle"
  /\ exitForced' = FALSE
  /\ UNCHANGED <<quitting, dbgState, helpState, helpProc, bps, bpCodes, applied,
                 helpAlive, trapCode, debugPort, outVars, fault>>

(* The breakpoints go, in line order, to the first free slots of the table;  *)
(* one that finds no free slot is dropped without a word.                    *)
UsedSlots == {i \in Slots : bpCodes[i].addr # 0}
\* Mutant: slots are counted from 0.
SlotFromZero(l) == Cardinality(UsedSlots) + Cardinality({m \in bps : m < l})
SlotOf(l) == Cardinality(UsedSlots) + 1 + Cardinality({m \in bps : m < l})
Inserted  == {l \in bps : SlotOf(l) \in Slots}

(* F5, the rest of _launch_process: insert the editor's breakpoints and send *)
(* the start message, the child's permission to run.                         *)
InsertAndStart ==
  /\ idePc = "launch"
  /\ bpCodes' = [i \in Slots |->
       IF \E l \in Inserted : SlotOf(l) = i
       THEN LET l == CHOOSE l \in Inserted : SlotOf(l) = i
            IN [addr |-> Start(base, l), code |-> mem[Start(base, l)]]
       ELSE bpCodes[i]]
  /\ mem' = [a \in Memory |->
       IF \E l \in Inserted : a = Start(base, l) THEN ILLEGAL ELSE mem[a]]
  /\ applied' = Inserted
  /\ startMsg' = "sent"
  /\ dbgState' = "Running"
  /\ idePc' = "ui"
  /\ UNCHANGED <<view, quitting, dbgProc, helpState, helpProc, bps, base, version,
                 childVars, helpAlive, trapCode, trapMsg, outMsg, debugPort,
                 outVars, exitForced, fault>>

(* F1: DEBUG_help starts MultiView unless it already runs.                   *)
Help(p) ==
  /\ InEditor
  /\ helpState = "Stopped"
  /\ helpState' = "Running" /\ helpProc' = p /\ helpAlive' = TRUE
  /\ UNCHANGED <<idePc, view, quitting, dbgState, dbgProc, bpVars, childVars,
                 trapCode, msgVars, outVars, exitForced, fault>>

-----------------------------------------------------------------------------
\* Mutant: the reply is forgotten.
NoReply == UNCHANGED <<trapMsg, fault>>

(* ReplyMsg of the trap message: it must be the IDE's to reply.              *)
ReplyTrap ==
  IF trapMsg = "ide" THEN trapMsg' = "replied" /\ UNCHANGED fault
                     ELSE fault' = "trapReply" /\ UNCHANGED trapMsg

(* The window's close gadget: UI_run returns and IDE_deinit calls            *)
(* DEBUG_break(TRUE), by the state of the child the IDE believes in.         *)
QuitStopped ==
  /\ CanQuit /\ idePc = "ui" /\ dbgState = "Stopped"
  /\ idePc' = "done" /\ quitting' = TRUE
  /\ UNCHANGED <<view, dbgState, dbgProc, helpState, helpProc, bpVars, childVars,
                 helpAlive, trapCode, msgVars, outVars, exitForced, fault>>

\* Mutant: the IDE does not wait for the child it signals.
QuitWithoutWaiting ==
  /\ CanQuit /\ idePc = "ui" /\ dbgState \in {"Running", "Continuing"}
  /\ idePc' = "done" /\ quitting' = TRUE
  /\ UNCHANGED <<view, dbgState, dbgProc, helpState, helpProc, bpVars, childVars,
                 helpAlive, trapCode, msgVars, outVars, exitForced, fault>>

(* SIGBREAKF_CTRL_C: a child that boots clears the signal in _cstartup; one  *)
(* that is gone has had its Process freed.                                   *)
QuitRunning ==
  /\ CanQuit /\ idePc = "ui" /\ dbgState \in {"Running", "Continuing"}
  /\ idePc' = "wait" /\ quitting' = TRUE
  /\ breakStatus' = IF cpc = "live" THEN TRUE ELSE breakStatus
  /\ fault' = IF ChildExists THEN fault ELSE "signal"
  /\ UNCHANGED <<view, dbgState, dbgProc, helpState, helpProc, bpVars, cpc, at,
                 trace, waiting, helpAlive, trapCode, msgVars, outVars, exitForced>>

QuitTrapped ==
  /\ CanQuit /\ idePc = "ui" /\ dbgState = "Trapped"
  /\ idePc' = "wait" /\ quitting' = TRUE
  /\ at' = EXIT
  /\ ReplyTrap
  /\ UNCHANGED <<view, dbgState, dbgProc, helpState, helpProc, bpVars, cpc,
                 trace, waiting, breakStatus, helpAlive, trapCode, startMsg,
                 outMsg, debugPort, outVars, exitForced>>

-----------------------------------------------------------------------------
(* DEBUG_handleMessages: one action per message, called from the event loop, *)
(* from UI_waitDebugTerm and, nested, from the debugger prompt's IDE_readline.*)

InLoop(cmd) == /\ idePc \in {"ui", "prompt", "wait"}
               /\ debugPort # <<>>
               /\ Head(debugPort).cmd \in cmd
\* Mutant: every reply is taken for the help viewer's once there was one.
AnyFromHelp == helpProc # NoProc
FromHelp    == helpProc # NoProc /\ Head(debugPort).port = helpProc

\* Mutant: the wrong environment is stopped.
HandleHelpWrongEnv ==
  /\ InLoop({"WB", "START"})
  /\ FromHelp
  /\ debugPort' = Tail(debugPort)
  /\ dbgState' = "Stopped"
  /\ UNCHANGED <<idePc, view, quitting, helpState, dbgProc, helpProc, bpVars,
                 childVars, helpAlive, trapCode, startMsg, trapMsg, outMsg,
                 outVars, exitForced, fault>>

(* Any message whose port field is the help viewer's counts as its reply.    *)
HandleHelp ==
  /\ InLoop({"WB", "START"})
  /\ FromHelp
  /\ debugPort' = Tail(debugPort)
  /\ helpState' = "Stopped"
  /\ UNCHANGED <<idePc, view, quitting, dbgState, dbgProc, helpProc, bpVars,
                 childVars, helpAlive, trapCode, startMsg, trapMsg, outMsg,
                 outVars, exitForced, fault>>

(* The child's end: its memory is freed and KEY_STOPPED goes to whoever      *)
(* waits for a key.                                                          *)
HandleStart ==
  /\ InLoop({"START"})
  /\ ~FromHelp
  /\ Head(debugPort).port = dbgProc
  /\ debugPort' = Tail(debugPort)
  /\ dbgState' = "Stopped"
  /\ startMsg' = "idle"
  /\ mem' = [a \in Memory |-> IF a \in Code THEN FREE ELSE mem[a]]
  /\ applied' = {} /\ base' = 0
  /\ idePc' = IF idePc = "wait" THEN "done" ELSE idePc
  /\ view' = IF idePc = "ui" THEN "editor" ELSE view
  /\ UNCHANGED <<quitting, dbgProc, helpState, helpProc, bps, bpCodes, version,
                 childVars, helpAlive, trapCode, trapMsg, outMsg, outVars,
                 exitForced, fault>>

\* Mutant: the program is not answered.
HandlePutsNoReply ==
  /\ InLoop({"PUTS"})
  /\ console' = Append(console, Head(debugPort).out)
  /\ debugPort' = Tail(debugPort)
  /\ UNCHANGED <<ideVars, bpVars, childVars, helpAlive, trapCode, startMsg,
                 trapMsg, outMsg, printed, exitForced, fault>>

HandlePuts ==
  /\ InLoop({"PUTS"})
  /\ console' = Append(console, Head(debugPort).out)
  /\ debugPort' = Tail(debugPort)
  /\ outMsg' = "replied"
  /\ UNCHANGED <<ideVars, bpVars, childVars, helpAlive, trapCode, startMsg,
                 trapMsg, printed, exitForced, fault>>

(* The trap that ends the single step of a continue: every ILLEGAL of the    *)
(* table is written back and the child goes on.                              *)
RestoreBreakpoints ==
  /\ InLoop({"TRAP"})
  /\ dbgState = "Continuing" /\ trapCode = TraceStep
  /\ mem' = [a \in Memory |->
       IF \E i \in Slots : bpCodes[i].addr = a THEN ILLEGAL ELSE mem[a]]
  /\ dbgState' = "Running"
  /\ trace' = FALSE
  /\ trapMsg' = "replied"
  /\ debugPort' = Tail(debugPort)
  /\ UNCHANGED <<idePc, view, quitting, dbgProc, helpState, helpProc, bps, bpCodes,
                 applied, base, version, cpc, at, waiting, breakStatus, helpAlive,
                 trapCode, startMsg, outMsg, outVars, exitForced, fault>>

(* Every other trap: the debugger's prompt.                                  *)
HandleTrap ==
  /\ InLoop({"TRAP"})
  /\ ~(dbgState = "Continuing" /\ trapCode = TraceStep)
  /\ dbgState' = "Trapped"
  /\ idePc' = "prompt"
  /\ trapMsg' = "ide"
  /\ debugPort' = Tail(debugPort)
  /\ UNCHANGED <<view, quitting, dbgProc, helpState, helpProc, bpVars, childVars,
                 helpAlive, trapCode, startMsg, outMsg, outVars, exitForced, fault>>

-----------------------------------------------------------------------------
(* The debugger's prompt: _debug.  The other commands change no state.       *)

Command(c) == /\ idePc = "prompt" /\ c \in Commands
              /\ ReplyTrap
              /\ idePc' = IF quitting THEN "wait" ELSE "ui"
              /\ UNCHANGED <<view, quitting, dbgProc, helpState, helpProc, bps,
                             bpCodes, applied, base, version, cpc, breakStatus,
                             helpAlive, trapCode, startMsg, outMsg, debugPort,
                             outVars>>

\* Mutant: the program goes on where it stopped.
CmdExitKeepsPC ==
  /\ Command("e")
  /\ trace' = FALSE /\ exitForced' = TRUE
  /\ UNCHANGED <<dbgState, mem, at, waiting>>

(* e: the state stays Trapped.                                               *)
CmdExit ==
  /\ Command("e")
  /\ at' = EXIT /\ trace' = FALSE /\ waiting' = FALSE
  /\ exitForced' = TRUE
  /\ UNCHANGED <<dbgState, mem>>

(* c: at an editor breakpoint the first slot with the trap's address gives   *)
(* the instruction back, and the child single-steps over it.                 *)
Matches == {i \in Slots : bpCodes[i].addr = at}
\* Mutant: no single step, so nothing writes the ILLEGAL back.
CmdContinueNoStep ==
  /\ Command("c")
  /\ UNCHANGED <<at, waiting, exitForced>>
  /\ dbgState' = "Running" /\ trace' = FALSE
  /\ mem' = IF trapCode # IllegalInstr \/ Matches = {} THEN mem
            ELSE [mem EXCEPT ![at] = bpCodes[CHOOSE i \in Matches : TRUE].code]

CmdContinue ==
  /\ Command("c")
  /\ UNCHANGED <<at, waiting, exitForced>>
  /\ IF trapCode = IllegalInstr
     THEN /\ dbgState' = "Continuing"
          /\ trace' = TRUE
          /\ \/ Matches = {} /\ UNCHANGED mem
             \/ \E i \in Matches : /\ \A j \in Matches : i <= j
                                  /\ mem' = [mem EXCEPT ![at] = bpCodes[i].code]
     ELSE /\ dbgState' = "Running"
          /\ trace' = FALSE
          /\ UNCHANGED mem

(* s: the instruction under an ILLEGAL is not given back.                    *)
CmdStep ==
  /\ Command("s")
  /\ dbgState' = "Running"
  /\ trace' = TRUE
  /\ UNCHANGED <<at, waiting, mem, exitForced>>

-----------------------------------------------------------------------------
(* The child process.                                                        *)

(* startup.S and _cstartup: nothing runs before the start message is there.  *)
TakeStartup ==
  /\ cpc = "boot" /\ startMsg = "sent"
  /\ cpc' = "live" /\ startMsg' = "child"
  /\ at' = Start(base, 1)
  /\ UNCHANGED <<ideVars, bpVars, trace, waiting, breakStatus, helpAlive, trapCode,
                 trapMsg, outMsg, debugPort, outVars, exitForced, fault>>

(* A trap: the handler saves code, PC and SR and sends the child to          *)
(* _freeze_myself, whose message joins those already in port.                *)
Trap(code, port) ==
  /\ trapCode' = code
  /\ trapMsg' = "queued"
  /\ debugPort' = Append(port, TrapMessage)

(* The end of an instruction: with the trace bit set it traps.               *)
EndOfInstr(port) ==
  \/ trace /\ Trap(TraceStep, port)
  \/ ~trace /\ debugPort' = port /\ UNCHANGED <<trapCode, trapMsg>>

InProgram == Running /\ ~waiting /\ at \in Code
Faults    == at \in {Start(base, l) : l \in Faulting}
CanExec   == InProgram /\ mem[at] = version /\ ~Faults
InRest    == CanExec /\ at \notin Starts

(* Where a line's rest goes: forward, to the program's end, or back in a     *)
(* loop, whose head checks _break_status.                                    *)
Forward == {n \in Starts : n > at} \cup {EXIT}
Back    == {n \in Starts : n <= at}
GoTo(n) == /\ at' = n
           /\ UNCHANGED <<ideVars, bpVars, cpc, trace, helpAlive, startMsg, exitForced>>

ExecPlain(n) ==
  /\ CanExec
  /\ IF at \in Starts THEN n = at + 1
                      ELSE n \in Forward \/ (n \in Back /\ ~breakStatus)
  /\ GoTo(n)
  /\ EndOfInstr(debugPort)
  /\ UNCHANGED <<waiting, breakStatus, outMsg, outVars, fault>>

(* __handle_break: a break handler may RESUME, else TRAP #0.                 *)
ExecBreak(n) ==
  /\ InRest
  /\ n \in Back /\ breakStatus
  /\ GoTo(n)
  /\ breakStatus' = FALSE
  /\ EndOfInstr(debugPort) \/ Trap(SoftTrap, debugPort)
  /\ UNCHANGED <<waiting, outMsg, outVars, fault>>

(* BREAK, a failed assertion, a runtime error, in the program or in an exit  *)
(* handler.                                                                  *)
ExecSoftTrap(n) ==
  /\ \/ InRest /\ n \in Forward
     \/ Running /\ ~waiting /\ at = HANDLER /\ n = HANDLER /\ ExitHandlerFails
  /\ GoTo(n)
  /\ Trap(SoftTrap, debugPort)
  /\ UNCHANGED <<waiting, breakStatus, outMsg, outVars, fault>>

(* _DEBUG_PUTS up to PutMsg; a message still linked in g_dbgPort is not free.*)
ExecPuts(n) ==
  /\ \/ InRest /\ n \in Forward
     \/ Running /\ ~waiting /\ at = HANDLER /\ n = HANDLER
  /\ printed < MaxOut
  /\ IF outMsg = "idle"
     THEN /\ GoTo(n)
          /\ printed' = printed + 1
          /\ outMsg' = "queued" /\ waiting' = TRUE
          /\ EndOfInstr(Append(debugPort, Puts(printed + 1)))
          /\ UNCHANGED <<breakStatus, console, fault>>
     ELSE /\ fault' = "outMsg"
          /\ UNCHANGED <<ideVars, bpVars, childVars, helpAlive, trapCode, msgVars,
                         outVars, exitForced>>

\* Mutant: the program does not wait for the reply.
TakeReplyEarly ==
  /\ Running /\ waiting
  /\ waiting' = FALSE /\ outMsg' = "idle"
  /\ EndOfInstr(debugPort)
  /\ UNCHANGED <<ideVars, bpVars, cpc, at, trace, breakStatus, helpAlive, startMsg,
                 outVars, exitForced, fault>>

(* _DEBUG_PUTS from WaitPort on.                                             *)
TakeReply ==
  /\ Running /\ waiting /\ outMsg = "replied"
  /\ waiting' = FALSE /\ outMsg' = "idle"
  /\ EndOfInstr(debugPort)
  /\ UNCHANGED <<ideVars, bpVars, cpc, at, trace, breakStatus, helpAlive, startMsg,
                 outVars, exitForced, fault>>

FetchTrap ==
  /\ InProgram
  /\ \/ mem[at] = ILLEGAL /\ Trap(IllegalInstr, debugPort)
     \/ mem[at] = version /\ Faults /\ Trap(AccessFault, debugPort)
  /\ UNCHANGED <<ideVars, bpVars, childVars, helpAlive, startMsg, outMsg, outVars,
                 exitForced, fault>>

(* An opcode that a continue took from an entry of another program: what it  *)
(* does among the words of this one is anything.                             *)
ExecForeign ==
  /\ InProgram /\ mem[at] \notin {version, ILLEGAL}
  /\ fault' = "opcode"
  /\ UNCHANGED <<ideVars, bpVars, childVars, helpAlive, trapCode, msgVars, outVars,
                 exitForced>>

(* _freeze_myself returns: PC and SR as the IDE left them.                   *)
Unfreeze ==
  /\ trapMsg = "replied"
  /\ trapMsg' = "idle"
  /\ UNCHANGED <<ideVars, bpVars, childVars, helpAlive, trapCode,
                 startMsg, outMsg, debugPort, outVars, exitForced, fault>>

(* _autil_exit: _c_atexit starts with the last exit handler, ...             *)
EnterExit ==
  /\ Running /\ at = EXIT
  /\ at' = HANDLER
  /\ EndOfInstr(debugPort)
  /\ UNCHANGED <<ideVars, bpVars, cpc, trace, waiting, breakStatus, helpAlive,
                 startMsg, outMsg, outVars, exitForced, fault>>

(* ... and ends with the reply to the start message, after which exec frees  *)
(* the process.                                                              *)
FinishExit ==
  /\ Running /\ ~waiting /\ at = HANDLER
  /\ cpc' = "gone"
  /\ startMsg' = "replied"
  /\ debugPort' = Append(debugPort, StartReply(dbgProc))
  /\ UNCHANGED <<ideVars, bpVars, at, trace, waiting, breakStatus, helpAlive,
                 trapCode, trapMsg, outMsg, outVars, exitForced, fault>>

(* CTRL-C, seen by the runtime's input handler whatever window is active.    *)
CtrlC ==
  /\ cpc = "live" /\ ~breakStatus
  /\ breakStatus' = TRUE
  /\ UNCHANGED <<ideVars, bpVars, cpc, at, trace, waiting, helpAlive, trapCode,
                 msgVars, outVars, exitForced, fault>>

(* The help viewer ends and replies its WBStartup message.                   *)
HelpExit ==
  /\ helpAlive
  /\ helpAlive' = FALSE
  /\ IF idePc = "done"
     THEN fault' = "deadPort" /\ UNCHANGED debugPort
     ELSE debugPort' = Append(debugPort, HelpReply(helpProc)) /\ UNCHANGED fault
  /\ UNCHANGED <<ideVars, bpVars, childVars, trapCode, startMsg, trapMsg, outMsg,
                 outVars, exitForced>>

-----------------------------------------------------------------------------
Editor  == \/ \E l \in Lines : ToggleBreakPoint(l)
           \/ \E b \in Bases, v \in 1..MaxVersion, p \in Procs : CreateChild(b, v, p)
           \/ \E p \in Procs : Help(p)
Quit    == QuitStopped \/ QuitRunning \/ QuitTrapped
Handle  == HandleHelp \/ HandleStart \/ HandlePuts \/ RestoreBreakpoints \/ HandleTrap
Prompt  == CmdExit \/ CmdContinue \/ CmdStep
Child   == \/ TakeStartup \/ TakeReply \/ FetchTrap \/ ExecForeign \/ Unfreeze
           \/ EnterExit \/ FinishExit
           \/ \E n \in Memory \cup {EXIT, HANDLER} :
                ExecPlain(n) \/ ExecBreak(n) \/ ExecPuts(n) \/ ExecSoftTrap(n)

(* Nothing is known of a run after undefined behaviour.                      *)
Defined == fault = "none"

Next == /\ Defined
        /\ \/ Editor \/ InsertAndStart \/ Quit \/ Handle \/ Prompt
           \/ Child \/ CtrlC \/ HelpExit

Spec == Init /\ [][Next]_vars

(* exec schedules both tasks: the IDE finishes a launch and takes messages   *)
(* from its port, the child and the help viewer go on.  The user owes        *)
(* nothing, except in UserSpec an answer at the debugger's prompt.           *)
Fairness == /\ WF_vars(Defined /\ InsertAndStart)
            /\ WF_vars(Defined /\ Handle)
            /\ WF_vars(Defined /\ Child)
FairSpec == Spec /\ Fairness
UserSpec == FairSpec /\ WF_vars(Defined /\ Prompt)

-----------------------------------------------------------------------------
(* Properties.                                                               *)

TypeIde ==
  /\ idePc \in {"ui", "launch", "prompt", "wait", "done"}
  /\ view \in {"editor", "console"} /\ quitting \in BOOLEAN
  /\ dbgState \in {"Stopped", "Running", "Trapped", "Continuing"}
  /\ helpState \in {"Stopped", "Running"} /\ helpAlive \in BOOLEAN
  /\ dbgProc \in Procs \cup {NoProc} /\ helpProc \in Procs \cup {NoProc}
  /\ exitForced \in BOOLEAN
  /\ fault \in {"none", "trapReply", "outMsg", "signal", "deadPort", "opcode"}
TypeProgram ==
  /\ bps \subseteq Lines
  /\ bpCodes \in [Slots -> [addr : Memory \cup {0}, code : Int]]
  /\ mem \in [Memory -> Int] /\ applied \subseteq Lines
  /\ base \in Bases \cup {0} /\ version \in 0..MaxVersion
TypeChild ==
  /\ cpc \in {"none", "boot", "live", "gone"}
  /\ at \in Memory \cup {0, EXIT, HANDLER}
  /\ trace \in BOOLEAN /\ waiting \in BOOLEAN /\ breakStatus \in BOOLEAN
TypeMessages ==
  /\ trapCode \in TrapCodes
  /\ startMsg \in {"idle", "sent", "child", "replied"}
  /\ trapMsg \in {"idle", "queued", "ide", "replied"}
  /\ outMsg \in {"idle", "queued", "replied"}
  /\ debugPort \in Seq(Message)
  /\ printed \in 0..MaxOut /\ console \in Seq(Nat)

\* Every variable has a value the C type and the code's assignments allow.
TypeOK == TypeIde /\ TypeProgram /\ TypeChild /\ TypeMessages

Carries(port, n) == \A i \in DOMAIN port : port[i].cmd = "PUTS" => port[i].out = n

\* The console shows what the program printed, in order, nothing lost and
\* nothing twice, and never lags by more than the one message the program is
\* waiting for: the contract of the synchronous _DEBUG_PUTS and
\* DEBUG_handleMessages.
OutputInOrder ==
  /\ console = [i \in 1..Len(console) |-> i]
  /\ printed = IF outMsg = "queued" THEN Len(console) + 1 ELSE Len(console)
  /\ Carries(debugPort, printed)

\* The two sides agree on who holds the trap message: the prompt is open
\* exactly while the IDE owes the frozen child a reply (_freeze_myself against
\* _debug).
PromptOwnsTrap ==
  /\ idePc = "prompt" <=> trapMsg = "ide"
  /\ idePc = "prompt" => dbgState = "Trapped"

Has(port, cmd) == \E i \in DOMAIN port : port[i].cmd = cmd
Orderly(port)  == \A i, j \in DOMAIN port :
  /\ port[i].cmd = port[j].cmd => i = j \/ port[i].cmd = "WB"
  /\ port[i].cmd = "PUTS" /\ port[j].cmd = "TRAP" => i < j

\* Each of the child's three messages is in one place, and where its owner
\* believes it is: at most once in the IDE's port, the output before the trap
\* that suspends its sender, and nothing from a child that replied its start
\* message.
OneOwner ==
  /\ Orderly(debugPort)
  /\ Has(debugPort, "TRAP") <=> trapMsg = "queued"
  /\ Has(debugPort, "PUTS") <=> outMsg = "queued"
  /\ Has(debugPort, "START") => startMsg = "replied"
  /\ startMsg = "replied" => cpc = "gone"
  /\ Frozen => cpc = "live"
  /\ outMsg = "queued" => cpc = "live" /\ waiting /\ trapMsg \in {"idle", "queued"}

\* The protocol's state: the types, and who owns which message, in the IDE, in
\* the runtime of the program and in the port between them.
Consistent == TypeOK /\ PromptOwnsTrap /\ OneOwner

\* The IDE believes the child stopped only when there is no child left: only
\* then may _compileAndRun reset the child's memory pool and start another.
StoppedMeansGone ==
  /\ base = 0 <=> dbgState = "Stopped" /\ idePc # "launch"
  /\ base = 0 => ~ChildExists /\ startMsg = "idle"
  /\ idePc = "launch" => dbgState = "Stopped" /\ cpc = "boot" /\ startMsg = "idle"

\* The editor takes keys only while nothing is being debugged: the branch of
\* _compileAndRun that breaks a running child is never taken, and no line is
\* edited under a program whose breakpoints refer to it.
EditorMeansStopped == view = "editor" => dbgState = "Stopped"

\* The IDE frees its port and exits only after the child it runs is gone
\* (IDE_deinit, UI_waitDebugTerm).
ExitWaitsForChild == idePc = "done" => ~ChildExists

\* A message is replied or sent while it is linked in a list only in a run the
\* user ended with the prompt's e: every other way through the protocol keeps
\* to one owner per message.
ListsBreakOnlyAfterExit == fault \in {"trapReply", "outMsg"} => exitForced

\* What the IDE may not do while there is a program: edit its lines, end, or
\* link a message that is in a list already.
ProgramGuarded == EditorMeansStopped /\ ExitWaitsForChild /\ ListsBreakOnlyAfterExit

\* Where _launch_process put breakpoints into the program; what is missing of
\* them now, but for lines that cannot be stepped over because they fault; and
\* the addresses g_bpCodes names, those of earlier programs among them.
Applied     == {Start(base, l) : l \in applied}
Out         == {a \in Applied : mem[a] # ILLEGAL} \ {Start(base, l) : l \in Faulting}
Entered(a)  == \E i \in Slots : bpCodes[i].addr = a
FromTable(a) == \E i \in Slots : bpCodes[i] = [addr |-> a, code |-> mem[a]]

\* The loaded program is made of its own instructions, and of ILLEGAL where the
\* table has an entry: every breakpoint that was put into it is there, the one
\* apart that a continue is stepping over, which is replaced again before
\* anything else runs ("restore breakpoints").  An instruction that is not the
\* program's own comes from the table of an earlier program, and only as the
\* next one to be executed.
CodeIntact ==
  /\ \A a \in Code :
       /\ mem[a] \notin {version, ILLEGAL} =>
            a = at /\ trace /\ dbgState = "Continuing" /\ FromTable(a)
       /\ mem[a] = ILLEGAL => Entered(a)
  /\ Out # {} => dbgState = "Continuing"
  /\ \A a, b \in Out : a = b

\* A line with a breakpoint is executed only as the single step of a continue
\* from that breakpoint, never without having stopped there.
BreakpointNotSkipped ==
  at \in Applied /\ at' # at /\ Running => dbgState = "Continuing" /\ trace

\* Breakpoints hold: the code is the program's own around them, and they are
\* not passed unseen, whatever earlier programs left in g_bpCodes (_debug's
\* continue, _freeze_myself).
BreakpointsHold == [][CodeIntact' /\ BreakpointNotSkipped]_vars

\* From the start of a program to its end every breakpoint set in the editor is
\* in its code, but for the one that is stepped over and those of lines that
\* fault (F9, _launch_process).  Only when g_bpCodes, which is never cleared, is
\* full were some not put there: those of the last lines.
EditorBreakpointsInserted ==
  startMsg \in {"sent", "child"} =>
    \A l \in bps :
      \/ mem[Start(base, l)] = ILLEGAL
      \/ l \in applied /\ (l \in Faulting \/ (dbgState = "Continuing" /\ Out = {Start(base, l)}))
      \/ l \notin applied /\ UsedSlots = Slots /\ \A m \in applied : m < l

\* A program that waits for its output to be shown is answered, whatever else
\* the IDE does, unless the user keeps the debugger's prompt open.
OutputAnswered == waiting ~> ~waiting \/ idePc = "prompt" \/ ~Defined

\* e ends the program ("e - exit (terminate program)").  What says so is the
\* reply to the start message, which a child whose Process structure is where
\* the help viewer's was cannot get through (DEBUG_handleMessages).
ExitTerminates ==
  exitForced ~> dbgState = "Stopped" \/ dbgProc = helpProc \/ ~Defined

\* No program is run with instructions that are not its own: what a continue
\* puts back is the instruction the breakpoint replaced ("re-insert original
\* instruction").
OwnInstructions == fault # "opcode"

\* Every breakpoint set in the editor is put into the program that is started
\* ("apply editor breakpoints").
AllApplied == startMsg = "sent" => bps \subseteq applied

\* The program's reply to its start message is known for what it is: once it
\* was taken from the port the program counts as stopped ("is this our dbg
\* process or the help window ?").
RepliesToldApart ==
  [][Has(debugPort, "START") /\ ~Has(debugPort', "START") => dbgState' = "Stopped"]_vars
=============================================================================
