-------------------------- MODULE BreakpointProofs --------------------------
(***************************************************************************)
(* Breakpoints hold, in every program of every size, wherever programs are *)
(* loaded one after the other, whatever their instructions raise and       *)
(* whatever earlier ones left in g_bpCodes: the code in memory is the      *)
(* program's own around the ILLEGALs of the table, but for the one         *)
(* instruction that a continue took from an entry of an earlier program,   *)
(* and no line with a breakpoint is passed unseen.  A breakpoint of the    *)
(* editor is missing only when the table is full.                          *)
(***************************************************************************)
EXTENDS DebuggerProofs, FiniteSetTheorems

USE DebuggerAssumption DEF DebuggerAssumption

(* Instructions that are not the program's own; nothing out of place.        *)
Foreign == {a \in Code : mem[a] \notin {version, ILLEGAL}}
Settled == Foreign = {} /\ Out = {}

TableOK   == \A i \in Slots : bpCodes[i].addr # 0 => bpCodes[i].code # ILLEGAL
Loaded    == idePc = "launch" => \A a \in Code : mem[a] = version
VersionOK == base # 0 => version >= 1
Cells     == \A a \in Code : mem[a] = ILLEGAL => Entered(a)
AppliedOK == /\ base = 0 \/ idePc = "launch" => applied = {}
             /\ \A a \in Applied : Entered(a)
Program   == TableOK /\ Loaded /\ VersionOK /\ Cells /\ AppliedOK

Calm == dbgState # "Continuing" => Settled

(* Between a continue and the writing back of the ILLEGALs: the child is     *)
(* about to execute the instruction given back, or the trap after it is on   *)
(* its way, which leaves nothing out if it is not the trace trap.            *)
AboutToStep ==
  /\ trapMsg \in {"replied", "idle"} /\ cpc = "live" /\ trace /\ ~waiting
  /\ at \in Code /\ mem[at] # ILLEGAL
  /\ Foreign \subseteq {at} /\ Out \subseteq {at}
  /\ mem[at] # version => FromTable(at)
Stepped ==
  /\ trapMsg = "queued"
  /\ Foreign = {} /\ \E a : Out \subseteq {a}
  /\ trapCode # TraceStep => Out = {}
Stepping == dbgState = "Continuing" => AboutToStep \/ Stepped

AtIllegal == trapMsg \in {"queued", "ide"} /\ trapCode = IllegalInstr
               => at \in Code /\ mem[at] = ILLEGAL /\ ~waiting

Breakpoints == Program /\ Calm /\ Stepping /\ AtIllegal

-----------------------------------------------------------------------------
(* Addresses and slots.                                                      *)

LEMMA Addresses ==
  ASSUME IInv
  PROVE  /\ Starts \subseteq Code /\ Code \subseteq Memory
         /\ EXIT \notin Code /\ HANDLER \notin Code /\ 0 \notin Code
         /\ base = 0 => Code = {}
         /\ base # 0 => base \in Bases /\ base \in Nat \ {0} /\ Starts = StartsOf(base)
         /\ applied \subseteq Lines /\ bps \subseteq Lines
         /\ AppliedOK => Applied \subseteq Starts
  <1>1. base \in Bases \cup {0} /\ applied \subseteq Lines /\ bps \subseteq Lines
    BY DEF IInv, TypeOK, TypeProgram
  <1>2. CASE base = 0
    BY <1>1, <1>2 DEF Starts, Code, AppliedOK, Applied
  <1>3. CASE base # 0
    <2>1. base \in Bases /\ base \in Nat \ {0}
      BY <1>1, <1>3
    <2>2. /\ Starts \subseteq Code /\ Code \subseteq Memory
          /\ Starts = StartsOf(base) /\ Applied \subseteq Starts
      BY <1>1, <2>1 DEF Starts, Code, Applied, StartsOf, CodeOf, Memory
    <2>3. \A a \in Code : a \in Nat \ {0}
      BY <2>1 DEF Code, CodeOf, StartsOf, Start, Lines
    <2> QED
      BY <1>1, <1>3, <2>1, <2>2, <2>3 DEF EXIT, HANDLER
  <1> QED
    BY <1>2, <1>3

LEMMA SlotsOrdered ==
  ASSUME IInv, NEW x \in bps, NEW y \in bps
  PROVE  /\ SlotOf(x) \in Nat
         /\ x < y => SlotOf(x) < SlotOf(y)
  <1> DEFINE A == {m \in bps : m < x}
             B == {m \in bps : m < y}
  <1>1. /\ bps \subseteq 1..NumLines /\ bps \subseteq Nat
        /\ IsFiniteSet(1..NumLines) /\ IsFiniteSet(Slots)
    <2>1. bps \subseteq 1..NumLines /\ bps \subseteq Nat
      BY DEF IInv, TypeOK, TypeProgram, Lines
    <2>2. NumLines \in Int /\ MaxBp \in Int /\ 1 \in Int
      OBVIOUS
    <2> QED
      BY <2>1, <2>2, FS_Interval DEF Slots
  <1>2. IsFiniteSet(bps) /\ IsFiniteSet(UsedSlots)
    BY <1>1, FS_Subset DEF UsedSlots
  <1>3. Cardinality(UsedSlots) \in Nat
    BY <1>2, FS_CardinalityType
  <1>4. IsFiniteSet(A) /\ IsFiniteSet(B) /\ Cardinality(A) \in Nat /\ Cardinality(B) \in Nat
    <2>1. A \subseteq bps /\ B \subseteq bps
      OBVIOUS
    <2> HIDE DEF A, B
    <2> QED
      BY <1>2, <2>1, FS_Subset, FS_CardinalityType
  <1>5. SlotOf(x) = Cardinality(UsedSlots) + 1 + Cardinality(A)
        /\ SlotOf(y) = Cardinality(UsedSlots) + 1 + Cardinality(B)
    BY DEF SlotOf
  <1>6. ASSUME x < y PROVE Cardinality(A) < Cardinality(B)
    <2>0. x \in Nat /\ y \in Nat
      BY <1>1
    <2>1. A \subseteq B /\ x \in B /\ x \notin A
      <3>1. ASSUME NEW m \in A PROVE m \in B
        <4>1. m \in Nat /\ m \in bps /\ m < x
          BY <1>1
        <4> QED
          BY <1>6, <2>0, <4>1
      <3>2. x \in B /\ x \notin A
        BY <1>6, <2>0
      <3> QED
        BY <3>1, <3>2
    <2>2. Cardinality(A) <= Cardinality(B) /\ (Cardinality(A) = Cardinality(B) => A = B)
      <3> HIDE DEF A, B
      <3> QED
        BY <1>4, <2>1, FS_Subset
    <2> HIDE DEF A, B
    <2> QED
      BY <1>4, <2>1, <2>2
  <1> HIDE DEF A, B
  <1> QED
    BY <1>3, <1>4, <1>5, <1>6

LEMMA SlotsApart ==
  ASSUME IInv, NEW l \in bps, NEW k \in bps, SlotOf(l) = SlotOf(k)
  PROVE  l = k
  <1>1. l \in Nat /\ k \in Nat
    BY DEF IInv, TypeOK, TypeProgram, Lines
  <1>2. SlotOf(l) \in Nat /\ ~(l < k) /\ ~(k < l)
    BY SlotsOrdered
  <1> QED
    BY <1>1, <1>2

-----------------------------------------------------------------------------
(* Steps that leave the program and the table alone.                         *)

LEMMA SameCode ==
  ASSUME UNCHANGED <<bpCodes, mem, base, version, applied>>
  PROVE  /\ UNCHANGED <<Code, Starts, Applied, Out, Foreign, Settled>>
         /\ \A a : Entered(a)' <=> Entered(a)
         /\ \A a : FromTable(a)' <=> FromTable(a)
  <1>1. UNCHANGED <<Code, Starts, Applied>>
    BY DEF Code, Starts, Applied
  <1>2. UNCHANGED <<Out, Foreign>>
    BY <1>1 DEF Out, Foreign
  <1>3. UNCHANGED Settled
    BY <1>2 DEF Settled
  <1> QED
    BY <1>1, <1>2, <1>3 DEF Entered, FromTable

LEMMA SameProgram ==
  ASSUME Program, UNCHANGED <<bpCodes, mem, base, version, applied>>,
         idePc' = "launch" <=> idePc = "launch"
  PROVE  Program'
  BY SameCode DEF Program, TableOK, Loaded, VersionOK, Cells, AppliedOK

LEMMA SameStop ==
  ASSUME Breakpoints,
         UNCHANGED <<bpCodes, mem, base, version, applied, at, trace, waiting, trapMsg,
                     trapCode, dbgState>>,
         cpc' = cpc \/ dbgState # "Continuing"
  PROVE  Calm' /\ Stepping' /\ AtIllegal'
  <1>1. Calm' /\ AtIllegal'
    BY SameCode DEF Breakpoints, Calm, AtIllegal
  <1>2. Stepping'
    BY SameCode DEF Breakpoints, Stepping, AboutToStep, Stepped
  <1> QED
    BY <1>1, <1>2

LEMMA IdeBreakpoints ==
  ASSUME IInv, Guarded, Breakpoints,
         \/ \E l \in Lines : ToggleBreakPoint(l)
         \/ \E q \in Procs : Help(q)
         \/ Quit \/ HelpExit \/ CtrlC
  PROVE  Breakpoints'
  <1> USE DEF ideVars, bpVars, childVars, msgVars, outVars
  <1>0. Program
    BY DEF Breakpoints
  <1>1. ASSUME NEW l \in Lines, ToggleBreakPoint(l) PROVE Breakpoints'
    BY <1>0, <1>1, SameProgram, SameStop DEF ToggleBreakPoint, Breakpoints
  <1>2. ASSUME NEW q \in Procs, Help(q) PROVE Breakpoints'
    BY <1>0, <1>2, SameProgram, SameStop DEF Help, Breakpoints
  <1>3. ASSUME QuitStopped \/ QuitRunning PROVE Breakpoints'
    BY <1>0, <1>3, SameProgram, SameStop DEF QuitStopped, QuitRunning, Breakpoints
  <1>4. ASSUME QuitTrapped PROVE Breakpoints'
    <2>1. /\ trapMsg # "ide" /\ at \in {EXIT, HANDLER} /\ at' = EXIT
          /\ dbgState = "Trapped" /\ idePc = "ui" /\ idePc' = "wait"
          /\ UNCHANGED <<trapMsg, trapCode, dbgState, bpVars>>
      BY <1>4 DEF QuitTrapped, ReplyTrap, IInv, Protocol, PromptOwnsTrap, Guarded, Forced
    <2>2. Program'
      BY <1>0, <2>1, SameProgram
    <2>3. Calm' /\ Stepping'
      BY <2>1, SameCode DEF Calm, Stepping, Breakpoints
    <2>4. AtIllegal'
      BY <2>1, Addresses DEF AtIllegal, Breakpoints
    <2> QED
      BY <2>2, <2>3, <2>4 DEF Breakpoints
  <1>5. ASSUME HelpExit PROVE Breakpoints'
    BY <1>0, <1>5, SameProgram, SameStop DEF HelpExit, Breakpoints
  <1>6. ASSUME CtrlC PROVE Breakpoints'
    BY <1>0, <1>6, SameProgram, SameStop DEF CtrlC, Breakpoints
  <1> QED
    BY <1>1, <1>2, <1>3, <1>4, <1>5, <1>6 DEF Quit

-----------------------------------------------------------------------------
(* Loading a program, and setting its breakpoints.                           *)

LEMMA CreateBreakpoints ==
  ASSUME IInv, Breakpoints,
         NEW b \in Bases, NEW v \in 1..MaxVersion, NEW q \in Procs, CreateChild(b, v, q)
  PROVE  Breakpoints'
  <1>1. /\ base' = b /\ b # 0 /\ version' = v /\ v >= 1 /\ idePc' = "launch"
        /\ trapMsg' = "idle" /\ dbgState' = "Stopped" /\ UNCHANGED <<bpCodes, applied>>
        /\ mem' = [a \in Memory |-> IF a \in CodeOf(b) THEN v ELSE mem[a]]
    BY DEF CreateChild
  <1>2. applied = {}
    <2>1. base = 0
      BY DEF CreateChild, InEditor, IInv, Protocol, StoppedMeansGone
    <2> QED
      BY <2>1 DEF Breakpoints, Program, AppliedOK
  <1>3. Code' = CodeOf(b) /\ CodeOf(b) \subseteq Memory
    <2>1. Code' = CodeOf(b)
      BY <1>1 DEF Code
    <2>2. CodeOf(b) \subseteq Memory
      BY DEF Memory
    <2> QED
      BY <2>1, <2>2
  <1>4. \A a \in Code' : mem'[a] = v
    BY <1>1, <1>3
  <1>5. TableOK' /\ Loaded' /\ VersionOK'
    BY <1>1, <1>3, <1>4 DEF TableOK, Loaded, VersionOK, Breakpoints, Program
  <1>6. v # ILLEGAL
    BY DEF ILLEGAL
  <1>7. Cells' /\ Foreign' = {}
    BY <1>1, <1>4, <1>6 DEF Cells, Foreign
  <1>8. AppliedOK' /\ Out' = {}
    BY <1>1, <1>2 DEF AppliedOK, Applied, Out
  <1> QED
    BY <1>1, <1>5, <1>7, <1>8
    DEF Breakpoints, Program, Calm, Settled, Stepping, AtIllegal

(* What _launch_process leaves in the slot of a breakpoint it inserts.       *)
LEMMA InsertedSlot ==
  ASSUME IInv, InsertAndStart, NEW l \in Inserted
  PROVE  /\ SlotOf(l) \in Slots
         /\ bpCodes'[SlotOf(l)] = [addr |-> Start(base, l), code |-> mem[Start(base, l)]]
  <1> DEFINE k == CHOOSE m \in Inserted : SlotOf(m) = SlotOf(l)
  <1>1. k \in Inserted /\ SlotOf(k) = SlotOf(l) /\ Inserted \subseteq bps
    BY DEF Inserted
  <1>2. k = l
    <2> HIDE DEF k
    <2> QED
      BY <1>1, SlotsApart
  <1>3. SlotOf(l) \in Slots
    BY DEF Inserted
  <1>4. bpCodes'[SlotOf(l)] = [addr |-> Start(base, k), code |-> mem[Start(base, k)]]
    BY <1>3 DEF InsertAndStart
  <1> HIDE DEF k
  <1> QED
    BY <1>2, <1>3, <1>4

LEMMA InsertBreakpoints ==
  ASSUME IInv, Breakpoints, InsertAndStart
  PROVE  Breakpoints'
  <1> DEFINE Here(i) == \E l \in Inserted : SlotOf(l) = i
  <1>1. /\ idePc = "launch" /\ idePc' = "ui" /\ dbgState' = "Running"
        /\ UNCHANGED <<base, version, trapMsg, cpc>> /\ applied' = Inserted
        /\ mem' = [a \in Memory |->
             IF \E l \in Inserted : a = Start(base, l) THEN ILLEGAL ELSE mem[a]]
        /\ Inserted \subseteq bps /\ Inserted \subseteq Lines
    BY DEF InsertAndStart, childVars, Inserted, IInv, TypeOK, TypeProgram
  <1>2. base # 0 /\ base \in Bases /\ trapMsg = "idle"
    BY <1>1 DEF IInv, TypeOK, TypeProgram, Protocol, StoppedMeansGone, OneOwner, Frozen
  <1>3. UNCHANGED <<Starts, Code>> /\ Starts = StartsOf(base)
    BY <1>1, <1>2 DEF Starts, Code
  <1>4. \A a \in Code : mem[a] = version /\ version # ILLEGAL
    BY <1>1, <1>2 DEF Breakpoints, Program, Loaded, VersionOK, ILLEGAL, IInv, TypeOK, TypeProgram
  <1>5. \A l \in Inserted : Start(base, l) \in Code /\ Start(base, l) \in Memory
    BY <1>1, <1>3, Addresses DEF StartsOf
  <1>6. ASSUME NEW l \in Inserted
        PROVE  /\ SlotOf(l) \in Slots
               /\ bpCodes'[SlotOf(l)] = [addr |-> Start(base, l), code |-> version]
    BY <1>4, <1>5, InsertedSlot
  <1>7. ASSUME NEW i \in Slots, ~Here(i) PROVE bpCodes'[i] = bpCodes[i]
    BY <1>7 DEF InsertAndStart
  <1>8. TableOK'
    <2> SUFFICES ASSUME NEW i \in Slots, bpCodes'[i].addr # 0
                 PROVE  bpCodes'[i].code # ILLEGAL
      BY DEF TableOK
    <2>1. CASE Here(i)
      <3>1. PICK l \in Inserted : SlotOf(l) = i
        BY <2>1
      <3>2. bpCodes'[i] = [addr |-> Start(base, l), code |-> version]
        BY <1>6, <3>1
      <3> QED
        BY <1>4, <1>5, <3>2
    <2>2. CASE ~Here(i)
      BY <1>7, <2>2 DEF Breakpoints, Program, TableOK
    <2> QED
      BY <2>1, <2>2
  <1>9. ASSUME NEW l \in Inserted PROVE \A a : a = Start(base, l) => Entered(a)'
    <2>1. /\ SlotOf(l) \in Slots
          /\ bpCodes'[SlotOf(l)] = [addr |-> Start(base, l), code |-> version]
      BY <1>6
    <2>2. bpCodes'[SlotOf(l)].addr = Start(base, l)
      BY <2>1
    <2> QED
      BY <2>1, <2>2 DEF Entered
  <1>10. Cells'
    <2> SUFFICES ASSUME NEW a \in Code, mem'[a] = ILLEGAL PROVE Entered(a)'
      BY <1>3 DEF Cells
    <2>1. a \in Memory /\ mem[a] # ILLEGAL
      BY <1>4, Addresses
    <2>2. PICK l \in Inserted : a = Start(base, l)
      BY <1>1, <2>1
    <2> QED
      BY <1>9, <2>2
  <1>11. AppliedOK'
    BY <1>1, <1>2, <1>9 DEF AppliedOK, Applied
  <1>12. Settled'
    <2>1. Foreign' = {}
      BY <1>1, <1>3, <1>4, Addresses DEF Foreign
    <2>2. Out' = {}
      BY <1>1, <1>5 DEF Out, Applied
    <2> QED
      BY <2>1, <2>2 DEF Settled
  <1>13. Loaded' /\ VersionOK' /\ Calm' /\ Stepping' /\ AtIllegal'
    BY <1>1, <1>2, <1>12
    DEF Loaded, VersionOK, Calm, Stepping, AtIllegal, Breakpoints, Program
  <1> QED
    BY <1>8, <1>10, <1>11, <1>13 DEF Breakpoints, Program

-----------------------------------------------------------------------------
(* DEBUG_handleMessages and the prompt.                                      *)

LEMMA RestoreHolds ==
  ASSUME IInv, Breakpoints, RestoreBreakpoints
  PROVE  Breakpoints'
  <1>1. /\ idePc \in {"ui", "prompt", "wait"} /\ idePc' = idePc
        /\ dbgState = "Continuing" /\ dbgState' = "Running"
        /\ trapMsg = "queued" /\ trapMsg' = "replied"
        /\ UNCHANGED <<base, bpCodes, version, applied>>
        /\ mem' = [a \in Memory |->
             IF \E i \in Slots : bpCodes[i].addr = a THEN ILLEGAL ELSE mem[a]]
    BY InLoopFacts DEF RestoreBreakpoints, InLoop, IInv, Protocol, OneOwner
  <1>2. UNCHANGED <<Starts, Code, Applied>> /\ \A a : Entered(a)' <=> Entered(a)
    BY <1>1 DEF Starts, Code, Applied, Entered
  <1>3. Foreign = {} /\ AppliedOK
    BY <1>1 DEF Breakpoints, Program, Stepping, AboutToStep, Stepped
  <1>4. TableOK' /\ Loaded' /\ VersionOK' /\ AppliedOK'
    BY <1>1, <1>2 DEF TableOK, Loaded, VersionOK, AppliedOK, Breakpoints, Program
  <1>5. \A a \in Memory : mem'[a] = IF Entered(a) THEN ILLEGAL ELSE mem[a]
    BY <1>1 DEF Entered
  <1>6. Code \subseteq Memory /\ Applied \subseteq Memory
    BY <1>3, Addresses
  <1>7. Cells' /\ Foreign' = {}
    <2>1. \A a \in Code : mem[a] \in {version, ILLEGAL} /\ (mem[a] = ILLEGAL => Entered(a))
      BY <1>3 DEF Foreign, Breakpoints, Program, Cells
    <2> QED
      BY <1>1, <1>2, <1>5, <1>6, <2>1 DEF Cells, Foreign
  <1>8. Out' = {}
    <2>1. \A a \in Applied : mem'[a] = ILLEGAL
      BY <1>3, <1>5, <1>6 DEF AppliedOK
    <2> QED
      BY <1>2, <2>1 DEF Out
  <1> QED
    BY <1>1, <1>4, <1>7, <1>8
    DEF Breakpoints, Program, Calm, Settled, Stepping, AtIllegal

LEMMA MessageBreakpoints ==
  ASSUME IInv, Guarded, Breakpoints, Handle
  PROVE  Breakpoints'
  <1> USE DEF ideVars, bpVars, childVars, msgVars, outVars
  <1>0. Program
    BY DEF Breakpoints
  <1>1. ASSUME HandleHelp PROVE Breakpoints'
    BY <1>0, <1>1, SameProgram, SameStop DEF HandleHelp, Breakpoints
  <1>2. ASSUME HandlePuts PROVE Breakpoints'
    BY <1>0, <1>2, SameProgram, SameStop DEF HandlePuts, Breakpoints
  <1>3. ASSUME HandleStart PROVE Breakpoints'
    <2>1. cpc = "gone" /\ trapMsg = "idle" /\ idePc # "launch"
      BY <1>3, InLoopFacts DEF HandleStart, InLoop, IInv, Protocol, OneOwner, Frozen
    <2>2. /\ dbgState' = "Stopped" /\ base' = 0 /\ trapMsg' = "idle" /\ idePc' # "launch"
          /\ applied' = {} /\ UNCHANGED bpCodes
      BY <1>3, <2>1 DEF HandleStart
    <2>3. Code' = {} /\ Applied' = {}
      BY <2>2 DEF Code, Applied
    <2>4. Foreign' = {} /\ Out' = {}
      BY <2>3 DEF Foreign, Out
    <2>5. TableOK'
      BY <1>0, <2>2 DEF Program, TableOK
    <2> QED
      BY <2>2, <2>3, <2>4, <2>5
      DEF Breakpoints, Program, Loaded, VersionOK, Cells, AppliedOK, Calm, Settled,
          Stepping, AtIllegal
  <1>4. ASSUME HandleTrap PROVE Breakpoints'
    <2>1. trapMsg = "queued" /\ idePc # "launch"
      BY <1>4, InLoopFacts DEF HandleTrap, InLoop, IInv, Protocol, OneOwner
    <2>2. Settled
      BY <1>4, <2>1 DEF HandleTrap, Breakpoints, Calm, Stepping, AboutToStep, Stepped, Settled
    <2>3. /\ dbgState' = "Trapped" /\ idePc' = "prompt"
          /\ UNCHANGED <<bpCodes, mem, base, version, applied, at, trapCode, waiting>>
      BY <1>4 DEF HandleTrap
    <2>4. Program'
      BY <1>0, <2>1, <2>3, SameProgram
    <2>5. Calm' /\ Stepping' /\ AtIllegal'
      BY <2>1, <2>2, <2>3, SameCode DEF Breakpoints, Calm, Stepping, AtIllegal
    <2> QED
      BY <2>4, <2>5 DEF Breakpoints
  <1> QED
    BY <1>1, <1>2, <1>3, <1>4, RestoreHolds DEF Handle

LEMMA CommandBreakpoints ==
  ASSUME IInv, Breakpoints, Prompt
  PROVE  Breakpoints'
  <1>1. PICK c \in {"c", "s", "e"} : Command(c)
    BY DEF Prompt, CmdExit, CmdContinue, CmdStep
  <1>2. /\ idePc = "prompt" /\ trapMsg = "ide" /\ trapMsg' = "replied"
        /\ idePc' \in {"ui", "wait"} /\ dbgState = "Trapped" /\ cpc = "live"
        /\ UNCHANGED <<bps, bpCodes, applied, base, version, cpc, trapCode>>
    BY <1>1 DEF Command, ReplyTrap, IInv, Protocol, PromptOwnsTrap, OneOwner, Frozen
  <1>3. UNCHANGED <<Starts, Code, Applied>> /\ \A a : Entered(a)' <=> Entered(a)
    BY <1>2 DEF Starts, Code, Applied, Entered
  <1>4. TableOK' /\ Loaded' /\ VersionOK' /\ AppliedOK' /\ AtIllegal'
    BY <1>2, <1>3
    DEF TableOK, Loaded, VersionOK, AppliedOK, AtIllegal, Breakpoints, Program
  <1>5. Settled /\ Cells
    BY <1>2 DEF Breakpoints, Program, Calm
  <1>6. ASSUME UNCHANGED mem, dbgState' # "Continuing" PROVE Breakpoints'
    <2>1. Program' /\ Calm'
      BY <1>2, <1>5, <1>6, SameCode, SameProgram DEF Calm, Breakpoints
    <2> QED
      BY <1>4, <1>6, <2>1 DEF Breakpoints, Stepping
  <1>7. ASSUME CmdContinue, trapCode = IllegalInstr PROVE Breakpoints'
    <2>1. at \in Code /\ mem[at] = ILLEGAL /\ ~waiting /\ base # 0 /\ at \in Memory
      BY <1>2, <1>7, Addresses DEF Breakpoints, AtIllegal
    <2>2. Matches # {}
      BY <1>5, <2>1 DEF Matches, Cells, Entered
    <2>3. PICK i \in Matches : mem' = [mem EXCEPT ![at] = bpCodes[i].code]
      BY <1>7, <2>2 DEF CmdContinue
    <2>4. mem \in [Memory -> Int] /\ bpCodes[i] \in [addr : Memory \cup {0}, code : Int]
      BY <2>3 DEF IInv, TypeOK, TypeProgram, Matches
    <2>5. /\ mem'[at] = bpCodes[i].code /\ bpCodes[i].addr = at /\ i \in Slots
          /\ \A a : a # at => mem'[a] = mem[a]
      BY <2>1, <2>3, <2>4 DEF Matches
    <2>6. mem'[at] # ILLEGAL
      BY <2>1, <2>5, Addresses DEF Breakpoints, Program, TableOK
    <2>7. dbgState' = "Continuing" /\ trace' = TRUE /\ at' = at /\ waiting' = FALSE
      BY <1>7, <2>1 DEF CmdContinue
    <2>8. bpCodes[i] = [addr |-> at, code |-> mem'[at]]
      BY <2>4, <2>5
    <2>9. FromTable(at)'
      BY <1>2, <2>5, <2>7, <2>8 DEF FromTable
    <2>10. Cells'
      BY <1>3, <1>5, <2>5, <2>6 DEF Cells
    <2>11. Foreign' \subseteq {at}
      BY <1>2, <1>3, <1>5, <2>5 DEF Foreign, Settled
    <2>12. Out' \subseteq {at}
      BY <1>2, <1>3, <1>5, <2>5 DEF Out, Settled
    <2>13. AboutToStep'
      BY <1>2, <1>3, <2>1, <2>6, <2>7, <2>9, <2>11, <2>12 DEF AboutToStep
    <2> QED
      BY <1>4, <2>7, <2>10, <2>13 DEF Breakpoints, Program, Calm, Stepping
  <1>8. CASE CmdContinue
    <2>1. CASE trapCode = IllegalInstr
      BY <1>7, <1>8, <2>1
    <2>2. CASE trapCode # IllegalInstr
      BY <1>6, <1>8, <2>2 DEF CmdContinue
    <2> QED
      BY <2>1, <2>2
  <1>9. CASE CmdExit \/ CmdStep
    BY <1>2, <1>6, <1>9 DEF CmdExit, CmdStep
  <1> QED
    BY <1>8, <1>9 DEF Prompt

-----------------------------------------------------------------------------
(* The child.                                                                *)

(* A running child that is continued is about to take its one step; if it    *)
(* takes it, the instruction is the program's own.                           *)
LEMMA Executes ==
  ASSUME IInv, Breakpoints, Running, dbgState = "Continuing"
  PROVE  /\ AboutToStep
         /\ mem[at] = version => Foreign = {}
         /\ Out # {} => at \in Starts /\ ~Faults
  <1>1. AboutToStep
    BY DEF Breakpoints, Stepping, Stepped, Running, Frozen
  <1>2. mem[at] = version => Foreign = {}
    BY <1>1 DEF AboutToStep, Foreign
  <1>3. Out # {} => at \in Out
    BY <1>1 DEF AboutToStep
  <1>4. at \in Out => at \in Starts /\ ~Faults
    <2>1. Out \subseteq Starts
      BY Addresses DEF Out, Breakpoints, Program
    <2> QED
      BY <2>1 DEF Out, Faults
  <1> QED
    BY <1>1, <1>2, <1>3, <1>4

(* The end of an instruction.                                                *)
LEMMA InstrBreakpoints ==
  ASSUME IInv, Breakpoints, Running, NEW port, NEW code,
         UNCHANGED <<ideVars, bpVars, cpc, trace>>,
         \/ /\ EndOfInstr(port)
            /\ dbgState = "Continuing" => mem[at] = version
         \/ /\ Trap(code, port)
            /\ dbgState = "Continuing" => Settled
            /\ code = IllegalInstr => at' \in Code /\ mem[at'] = ILLEGAL /\ ~waiting'
  PROVE  Breakpoints'
  <1> USE DEF ideVars, bpVars
  <1>1. /\ Program' /\ UNCHANGED <<Code, Out, Foreign, Settled>>
        /\ UNCHANGED <<dbgState, mem>>
    BY SameProgram, SameCode DEF Breakpoints
  <1>2. Calm'
    BY <1>1 DEF Breakpoints, Calm
  <1>3. trapMsg = "idle" /\ TraceStep # IllegalInstr
    BY DEF Running, Frozen, TraceStep, IllegalInstr
  <1>4. CASE trace /\ Trap(TraceStep, port) /\ (dbgState = "Continuing" => mem[at] = version)
    <2>1. Stepping'
      BY <1>1, <1>4, Executes DEF Trap, Stepping, AboutToStep, Stepped
    <2> QED
      BY <1>1, <1>2, <1>3, <1>4, <2>1 DEF Trap, Breakpoints, AtIllegal
  <1>5. CASE ~trace /\ UNCHANGED <<trapCode, trapMsg>>
    <2>1. dbgState # "Continuing"
      BY <1>5, Executes DEF AboutToStep
    <2> QED
      BY <1>1, <1>2, <1>3, <1>5, <2>1 DEF Breakpoints, Stepping, AtIllegal
  <1>6. CASE /\ Trap(code, port)
             /\ dbgState = "Continuing" => Settled
             /\ code = IllegalInstr => at' \in Code /\ mem[at'] = ILLEGAL /\ ~waiting'
    <2>1. Stepping'
      BY <1>1, <1>6 DEF Trap, Stepping, Stepped, Settled
    <2> QED
      BY <1>1, <1>2, <1>6, <2>1 DEF Trap, Breakpoints, AtIllegal
  <1> QED
    BY <1>4, <1>5, <1>6 DEF EndOfInstr

LEMMA ChildBreakpoints ==
  ASSUME IInv, Guarded, Breakpoints, Child
  PROVE  Breakpoints'
  <1> USE DEF ideVars, bpVars, childVars, msgVars, outVars
  <1>0. Program /\ HANDLER \notin Code /\ EXIT \notin Code
    BY Addresses DEF Breakpoints
  <1>a. ASSUME Running, at \in {HANDLER, EXIT} \/ waiting PROVE dbgState # "Continuing"
    BY <1>0, <1>a, Executes DEF AboutToStep
  <1>b. ASSUME InRest PROVE dbgState = "Continuing" => Settled
    BY <1>b, Executes DEF InRest, CanExec, InProgram, Settled
  <1>1. ASSUME NEW n \in Targets, ExecPlain(n) PROVE Breakpoints'
    BY <1>1, InstrBreakpoints DEF ExecPlain, CanExec, InProgram, GoTo
  <1>2. ASSUME NEW n \in Targets, ExecBreak(n) PROVE Breakpoints'
    <2>1. Running /\ mem[at] = version /\ (dbgState = "Continuing" => Settled)
      BY <1>2, <1>b DEF ExecBreak, InRest, CanExec, InProgram
    <2>2. SoftTrap # IllegalInstr
      BY DEF SoftTrap, IllegalInstr
    <2> QED
      BY <1>2, <2>1, <2>2, InstrBreakpoints DEF ExecBreak, GoTo
  <1>3. ASSUME NEW n \in Targets, ExecSoftTrap(n) PROVE Breakpoints'
    <2>1. Running /\ (dbgState = "Continuing" => Settled)
      BY <1>3, <1>a, <1>b DEF ExecSoftTrap, InRest, CanExec, InProgram
    <2>2. SoftTrap # IllegalInstr
      BY DEF SoftTrap, IllegalInstr
    <2> QED
      BY <1>3, <2>1, <2>2, InstrBreakpoints DEF ExecSoftTrap, GoTo
  <1>4. ASSUME NEW n \in Targets, ExecPuts(n) PROVE Breakpoints'
    <2>1. Running /\ (dbgState = "Continuing" => mem[at] = version)
      BY <1>4, <1>a DEF ExecPuts, InRest, CanExec, InProgram
    <2>2. CASE outMsg = "idle"
      <3>1. /\ UNCHANGED <<ideVars, bpVars, cpc, trace>>
            /\ EndOfInstr(Append(debugPort, Puts(printed + 1)))
        BY <1>4, <2>2 DEF ExecPuts, GoTo
      <3> QED
        BY <2>1, <3>1, InstrBreakpoints
    <2>3. CASE outMsg # "idle"
      BY <1>0, <1>4, <2>3, SameProgram, SameStop DEF ExecPuts, Breakpoints
    <2> QED
      BY <2>2, <2>3
  <1>5. ASSUME TakeReply PROVE Breakpoints'
    BY <1>5, <1>a, InstrBreakpoints DEF TakeReply
  <1>6. ASSUME FetchTrap PROVE Breakpoints'
    <2>1. Running /\ ~waiting /\ at \in Code
      BY <1>6 DEF FetchTrap, InProgram
    <2>2. CASE mem[at] = ILLEGAL /\ Trap(IllegalInstr, debugPort)
      <3>1. dbgState # "Continuing"
        BY <2>1, <2>2, Executes DEF AboutToStep
      <3> QED
        BY <1>6, <2>1, <2>2, <3>1, InstrBreakpoints DEF FetchTrap
    <2>3. CASE mem[at] = version /\ Faults /\ Trap(AccessFault, debugPort)
      <3>1. dbgState = "Continuing" => Settled
        BY <2>1, <2>3, Executes DEF Settled
      <3>2. AccessFault # IllegalInstr
        BY DEF AccessFault, IllegalInstr
      <3> QED
        BY <1>6, <2>1, <2>3, <3>1, <3>2, InstrBreakpoints DEF FetchTrap
    <2> QED
      BY <1>6, <2>2, <2>3 DEF FetchTrap
  <1>7. ASSUME EnterExit PROVE Breakpoints'
    BY <1>7, <1>a, InstrBreakpoints DEF EnterExit
  <1>8. ASSUME FinishExit PROVE Breakpoints'
    <2>1. dbgState # "Continuing"
      BY <1>8, <1>a DEF FinishExit
    <2> QED
      BY <1>0, <1>8, <2>1, SameProgram, SameStop DEF FinishExit, Breakpoints
  <1>9. ASSUME Unfreeze PROVE Breakpoints'
    <2>1. /\ trapMsg = "replied" /\ trapMsg' = "idle"
          /\ UNCHANGED <<ideVars, bpVars, childVars, trapCode>>
      BY <1>9 DEF Unfreeze
    <2>2. Program'
      BY <1>0, <2>1, SameProgram
    <2>3. Calm' /\ AtIllegal'
      BY <2>1, SameCode DEF Breakpoints, Calm, AtIllegal
    <2>4. Stepping'
      BY <2>1, SameCode DEF Breakpoints, Stepping, AboutToStep, Stepped
    <2> QED
      BY <2>2, <2>3, <2>4 DEF Breakpoints
  <1>10. ASSUME TakeStartup PROVE Breakpoints'
    <2>1. trapMsg = "idle" /\ dbgState # "Continuing"
      BY <1>10 DEF TakeStartup, IInv, Protocol, OneOwner, Frozen, Breakpoints, Stepping,
                   AboutToStep, Stepped
    <2>2. UNCHANGED <<ideVars, bpVars, trapMsg>>
      BY <1>10 DEF TakeStartup
    <2>3. Program' /\ Calm'
      BY <1>0, <2>2, SameProgram, SameCode DEF Breakpoints, Calm
    <2> QED
      BY <2>1, <2>2, <2>3 DEF Breakpoints, Stepping, AtIllegal
  <1>11. ASSUME ExecForeign PROVE Breakpoints'
    BY <1>0, <1>11, SameProgram, SameStop DEF ExecForeign, Breakpoints
  <1> QED
    BY <1>1, <1>2, <1>3, <1>4, <1>5, <1>6, <1>7, <1>8, <1>9, <1>10, <1>11
    DEF Child, Targets

-----------------------------------------------------------------------------
(* A step from a line with a breakpoint is the single step of a continue.    *)
LEMMA NotSkipped ==
  ASSUME IInv, Guarded, Breakpoints, Next
  PROVE  BreakpointNotSkipped
  <1> SUFFICES ASSUME at \in Applied, at' # at, Running
               PROVE  dbgState = "Continuing" /\ trace
    BY DEF BreakpointNotSkipped
  <1> USE DEF ideVars, bpVars, childVars, msgVars, outVars
  <1>1. at \in Code /\ at \notin {EXIT, HANDLER} /\ base # 0
    BY Addresses DEF Breakpoints, Program
  <1>2. idePc # "launch" /\ trapMsg = "idle" /\ cpc = "live"
    BY DEF Running, Frozen, IInv, Protocol, StoppedMeansGone
  <1>3. CASE dbgState = "Continuing"
    BY <1>3, Executes DEF AboutToStep
  <1>4. ASSUME dbgState # "Continuing" PROVE FALSE
    <2>0. mem[at] = ILLEGAL \/ Faults
      BY <1>4 DEF Breakpoints, Calm, Settled, Out, Faults
    <2>1. ~CanExec /\ ~InRest
      <3>1. version # ILLEGAL
        BY <1>1 DEF ILLEGAL, Breakpoints, Program, VersionOK, IInv, TypeOK, TypeProgram
      <3> QED
        BY <2>0, <3>1 DEF CanExec, InRest
    <2>2. ~Child
      BY <1>1, <1>2, <2>1
      DEF Child, TakeStartup, TakeReply, FetchTrap, ExecForeign, Unfreeze, EnterExit,
          FinishExit, ExecPlain, ExecBreak, ExecPuts, ExecSoftTrap
    <2>3. ~Prompt
      BY <1>2 DEF Prompt, CmdExit, CmdContinue, CmdStep, Command, IInv, Protocol, PromptOwnsTrap
    <2>4. ~Editor
      BY <1>1, <1>2 DEF Editor, ToggleBreakPoint, CreateChild, Help, InEditor,
                        IInv, Protocol, StoppedMeansGone
    <2>5. ~Quit
      BY <1>1, <1>2 DEF Quit, QuitStopped, QuitRunning, QuitTrapped, Guarded, Forced
    <2>6. ~Handle
      BY DEF Handle, HandleHelp, HandleStart, HandlePuts, HandleTrap, RestoreBreakpoints
    <2> QED
      BY <2>2, <2>3, <2>4, <2>5, <2>6 DEF Next, InsertAndStart, CtrlC, HelpExit
  <1> QED
    BY <1>3, <1>4

LEMMA Intact == ASSUME IInv, Breakpoints PROVE CodeIntact
  <1>1. ASSUME NEW a \in Code, mem[a] = ILLEGAL PROVE Entered(a)
    BY <1>1 DEF Breakpoints, Program, Cells
  <1>2. ASSUME NEW a \in Code, mem[a] \notin {version, ILLEGAL}
        PROVE  a = at /\ trace /\ dbgState = "Continuing" /\ FromTable(a)
    BY <1>2 DEF Breakpoints, Calm, Settled, Stepping, AboutToStep, Stepped, Foreign
  <1>3. Out # {} => dbgState = "Continuing"
    BY DEF Breakpoints, Calm, Settled
  <1>4. ASSUME NEW a \in Out, NEW b \in Out PROVE a = b
    BY <1>3 DEF Breakpoints, Stepping, AboutToStep, Stepped
  <1> QED
    BY <1>1, <1>2, <1>3, <1>4 DEF CodeIntact

LEMMA InitBreakpoints == Init => Guarded /\ Breakpoints
  <1> SUFFICES ASSUME Init PROVE Guarded /\ Breakpoints
    OBVIOUS
  <1>1. Guarded
    BY DEF Init, Guarded, Editing, EditorMeansStopped, ExitWaitsForChild, ChildExists,
           ListsBreakOnlyAfterExit, Forced, Unlinked
  <1>2. Code = {} /\ Applied = {}
    BY DEF Init, Code, Applied
  <1>3. Settled
    BY <1>2 DEF Settled, Foreign, Out
  <1>4. Program
    BY <1>2 DEF Init, Program, TableOK, Loaded, VersionOK, Cells, AppliedOK, FreeSlot
  <1> QED
    BY <1>1, <1>3, <1>4 DEF Init, Breakpoints, Calm, Stepping, AtIllegal

LEMMA StepBreakpoints ==
  ASSUME IInv, Guarded, Breakpoints, [Next]_vars
  PROVE  Guarded' /\ Breakpoints'
  <1>1. ASSUME Next PROVE Guarded' /\ Breakpoints'
    <2>1. Guarded'
      BY <1>1, IdeGuarded, MessageGuarded, ChildGuarded DEF Next
    <2>2. Breakpoints'
      BY <1>1, IdeBreakpoints, CreateBreakpoints, InsertBreakpoints, MessageBreakpoints,
         CommandBreakpoints, ChildBreakpoints DEF Next, Editor
    <2> QED
      BY <2>1, <2>2
  <1>2. ASSUME UNCHANGED vars PROVE Guarded' /\ Breakpoints'
    <2> USE <1>2 DEF vars, ideVars, bpVars, childVars, msgVars, outVars
    <2>1. Guarded'
      BY DEF Guarded, Editing, EditorMeansStopped, ExitWaitsForChild, ChildExists,
             ListsBreakOnlyAfterExit, Forced, Unlinked
    <2>2. Breakpoints'
      BY SameProgram, SameStop DEF Breakpoints
    <2> QED
      BY <2>1, <2>2
  <1> QED
    BY <1>1, <1>2

LEMMA BreakpointsInvariant == Spec => [](IInv /\ Guarded /\ Breakpoints)
  <1>1. IInv /\ Guarded /\ Breakpoints /\ [Next]_vars => Guarded' /\ Breakpoints'
    BY StepBreakpoints
  <1> QED
    BY <1>1, InitBreakpoints, Inductive, PTL DEF Spec

\* After every step a program has its own code around its breakpoints, all of
\* which are in place but the one stepped over, and no line with a breakpoint is
\* passed unseen, wherever programs are loaded and whatever they raise: what
\* _launch_process, _debug's continue and the trace trap after it do to memory.
THEOREM BreakpointsHoldHolds == Spec => BreakpointsHold
  <1>1. IInv' /\ Breakpoints' => CodeIntact'
    <2>1. IInv /\ Breakpoints => CodeIntact
      BY Intact
    <2> QED
      BY <2>1, PTL
  <1>2. IInv /\ Guarded /\ Breakpoints /\ Next => BreakpointNotSkipped
    BY NotSkipped
  <1>3. IInv /\ Guarded /\ Breakpoints /\ IInv' /\ Breakpoints' /\ [Next]_vars
          => [CodeIntact' /\ BreakpointNotSkipped]_vars
    BY <1>1, <1>2
  <1> QED
    BY <1>3, BreakpointsInvariant, PTL DEF Spec, BreakpointsHold

-----------------------------------------------------------------------------
(* The table fills from the front.  When it is full, breakpoints are dropped *)
(* without a word, the last lines first.                                     *)

Filled == \E n \in Nat : UsedSlots = 1..n
Missing == startMsg \in {"sent", "child"}
             => \A l \in bps \ applied : UsedSlots = Slots /\ \A m \in applied : m < l
Table  == Filled /\ Missing

LEMMA SameSize ==
  ASSUME NEW S, IsFiniteSet(S), NEW f, f = [x \in S |-> f[x]],
         \A x, y \in S : f[x] = f[y] => x = y
  PROVE  /\ IsFiniteSet({f[x] : x \in S})
         /\ Cardinality({f[x] : x \in S}) = Cardinality(S)
  <1> DEFINE T == {f[x] : x \in S}
  <1>1. f \in Bijection(S, T)
    BY DEF Bijection, Injection, Surjection, IsInjective
  <1>2. ExistsBijection(S, T)
    BY <1>1 DEF ExistsBijection
  <1> HIDE DEF T
  <1>3. IsFiniteSet(T) /\ Cardinality(T) = Cardinality(S)
    BY <1>2, FS_Bijection
  <1> QED
    BY <1>3 DEF T

(* The breakpoints of the editor go to the slots behind the used ones, one   *)
(* to each.                                                                  *)
LEMMA SlotsTaken ==
  ASSUME IInv
  PROVE  /\ Cardinality(UsedSlots) \in Nat /\ Cardinality(bps) \in Nat
         /\ {SlotOf(l) : l \in bps}
              = (Cardinality(UsedSlots) + 1)..(Cardinality(UsedSlots) + Cardinality(bps))
  <1> DEFINE k     == Cardinality(UsedSlots)
             n     == Cardinality(bps)
             slot  == [l \in bps |-> SlotOf(l)]
             Taken == {slot[l] : l \in bps}
             Next1 == (k + 1)..(k + n)
  <1>1. /\ bps \subseteq 1..NumLines /\ bps \subseteq Nat
        /\ IsFiniteSet(1..NumLines) /\ IsFiniteSet(Slots)
    <2>1. bps \subseteq 1..NumLines /\ bps \subseteq Nat
      BY DEF IInv, TypeOK, TypeProgram, Lines
    <2>2. NumLines \in Int /\ MaxBp \in Int /\ 1 \in Int
      OBVIOUS
    <2> QED
      BY <2>1, <2>2, FS_Interval DEF Slots
  <1>2. IsFiniteSet(bps) /\ IsFiniteSet(UsedSlots)
    BY <1>1, FS_Subset DEF UsedSlots
  <1>3. k \in Nat /\ n \in Nat
    BY <1>2, FS_CardinalityType
  <1>4. IsFiniteSet(Taken) /\ Cardinality(Taken) = n
    <2>1. \A x, y \in bps : slot[x] = slot[y] => x = y
      BY SlotsApart
    <2>2. slot = [l \in bps |-> slot[l]]
      OBVIOUS
    <2> HIDE DEF slot
    <2> QED
      BY <1>2, <2>1, <2>2, SameSize
  <1>5. Taken \subseteq Next1
    <2> SUFFICES ASSUME NEW l \in bps PROVE SlotOf(l) \in Next1
      OBVIOUS
    <2> DEFINE before == {m \in bps : m < l}
    <2>1. before \subseteq bps /\ l \notin before /\ l \in bps
      BY <1>1
    <2>2. SlotOf(l) = k + 1 + Cardinality(before)
      BY DEF SlotOf
    <2>3. IsFiniteSet(before) /\ Cardinality(before) \in Nat /\ Cardinality(before) < n
      <3> HIDE DEF before
      <3>1. IsFiniteSet(before) /\ Cardinality(before) <= n
            /\ (Cardinality(before) = n => before = bps)
        BY <1>2, <2>1, FS_Subset
      <3>2. Cardinality(before) \in Nat
        BY <3>1, FS_CardinalityType
      <3> QED
        BY <1>3, <2>1, <3>1, <3>2
    <2> HIDE DEF before, k, n
    <2> QED
      BY <1>3, <2>2, <2>3
  <1>6. IsFiniteSet(Next1) /\ Cardinality(Next1) = n
    <2> HIDE DEF k, n
    <2>1. k + 1 \in Int /\ k + n \in Int
      BY <1>3
    <2> QED
      BY <1>3, <2>1, FS_Interval
  <1>7. Taken = Next1
    <2> HIDE DEF Taken, Next1, n
    <2> QED
      BY <1>4, <1>5, <1>6, FS_Subset
  <1> QED
    BY <1>3, <1>7

LEMMA InsertTable ==
  ASSUME IInv, Breakpoints, Filled, InsertAndStart
  PROVE  Table'
  <1> DEFINE k == Cardinality(UsedSlots)
             n == Cardinality(bps)
  <1>1. /\ idePc = "launch" /\ UNCHANGED <<bps, base>> /\ applied' = Inserted
        /\ Inserted = {l \in bps : SlotOf(l) \in Slots}
    BY DEF InsertAndStart, Inserted
  <1>2. base # 0 /\ base \in Nat /\ bps \subseteq Nat
    BY <1>1, Addresses DEF IInv, Protocol, StoppedMeansGone, Lines
  <1>3. k \in Nat /\ n \in Nat /\ {SlotOf(l) : l \in bps} = (k + 1)..(k + n)
    BY SlotsTaken
  <1>4. UsedSlots = 1..k
    <2>1. PICK c \in Nat : UsedSlots = 1..c
      BY DEF Filled
    <2>2. Cardinality(1..c) = c
      BY <2>1, FS_Interval
    <2> QED
      BY <2>1, <2>2
  <1> HIDE DEF k, n
  <1>5. ASSUME NEW l \in Inserted
        PROVE  SlotOf(l) \in Slots /\ bpCodes'[SlotOf(l)].addr # 0
    <2>1. /\ SlotOf(l) \in Slots
          /\ bpCodes'[SlotOf(l)] = [addr |-> Start(base, l), code |-> mem[Start(base, l)]]
      BY InsertedSlot
    <2>2. Start(base, l) # 0
      BY <1>1, <1>2 DEF Start
    <2> QED
      BY <2>1, <2>2
  <1>6. \A i \in Slots : i \in UsedSlots' <=> i \in UsedSlots \/ \E l \in bps : SlotOf(l) = i
    <2> SUFFICES ASSUME NEW i \in Slots
                 PROVE  bpCodes'[i].addr # 0
                          <=> bpCodes[i].addr # 0 \/ \E l \in bps : SlotOf(l) = i
      BY DEF UsedSlots
    <2>1. CASE \E l \in bps : SlotOf(l) = i
      BY <1>1, <1>5, <2>1
    <2>2. CASE ~\E l \in bps : SlotOf(l) = i
      <3>1. bpCodes'[i] = bpCodes[i]
        BY <1>1, <2>2 DEF InsertAndStart
      <3> QED
        BY <2>2, <3>1
    <2> QED
      BY <2>1, <2>2
  <1>7. \A i \in Slots : i \in UsedSlots' <=> i <= k + n
    BY <1>3, <1>4, <1>6 DEF Slots
  <1>8. \A i : i \in UsedSlots' <=> i \in Slots /\ i <= k + n
    <2>1. \A i : i \in UsedSlots' => i \in Slots
      BY DEF UsedSlots
    <2> QED
      BY <1>7, <2>1
  <1>9. Filled'
    <2>1. CASE k + n <= MaxBp
      <3>1. UsedSlots' = 1..(k + n)
        <4>1. ASSUME NEW i PROVE i \in UsedSlots' <=> i \in 1..(k + n)
          BY <1>3, <1>8, <2>1 DEF Slots
        <4> QED
          BY <4>1
      <3> QED
        BY <1>3, <3>1 DEF Filled
    <2>2. CASE k + n > MaxBp
      <3>1. UsedSlots' = 1..MaxBp
        <4>1. ASSUME NEW i PROVE i \in UsedSlots' <=> i \in 1..MaxBp
          BY <1>3, <1>8, <2>2 DEF Slots
        <4> QED
          BY <4>1
      <3> QED
        BY <3>1 DEF Filled
    <2> QED
      BY <1>3, <2>1, <2>2
  <1>10. Missing'
    <2> SUFFICES ASSUME NEW l \in bps, l \notin Inserted
                 PROVE  UsedSlots' = Slots /\ \A m \in Inserted : m < l
      BY <1>1 DEF Missing
    <2>1. SlotOf(l) \in (k + 1)..(k + n) /\ SlotOf(l) \notin Slots
      BY <1>1, <1>3
    <2>2. SlotOf(l) > MaxBp /\ SlotOf(l) \in Nat /\ k + n > MaxBp
      BY <1>3, <2>1 DEF Slots
    <2>3. UsedSlots' = Slots
      <3>1. ASSUME NEW i PROVE i \in UsedSlots' <=> i \in Slots
        BY <1>3, <1>8, <2>2 DEF Slots
      <3> QED
        BY <3>1
    <2>4. ASSUME NEW m \in Inserted PROVE m < l
      <3>1. m \in bps /\ SlotOf(m) < SlotOf(l)
        BY <1>1, <2>2 DEF Slots
      <3>2. ~(l < m) /\ l # m
        BY <2>2, <3>1, SlotsOrdered
      <3> QED
        BY <1>2, <3>1, <3>2
    <2> QED
      BY <2>3, <2>4
  <1> QED
    BY <1>9, <1>10 DEF Table

(* Every other step keeps the table, and the breakpoints while there is a    *)
(* program.                                                                  *)
LEMMA SameTable ==
  ASSUME Table, UNCHANGED bpCodes,
         \/ /\ UNCHANGED <<bps, applied>>
            /\ startMsg' \in {"sent", "child"} => startMsg \in {"sent", "child"}
         \/ startMsg' \notin {"sent", "child"}
  PROVE  Table'
  <1>1. UNCHANGED UsedSlots
    BY DEF UsedSlots
  <1> QED
    BY <1>1 DEF Table, Filled, Missing

LEMMA StepTable ==
  ASSUME IInv, Guarded, Breakpoints, Table, [Next]_vars
  PROVE  Table'
  <1> USE DEF vars, ideVars, bpVars, childVars, msgVars, outVars
  <1>1. ASSUME NEW l \in Lines, ToggleBreakPoint(l) PROVE Table'
    <2>1. startMsg = "idle"
      BY <1>1 DEF ToggleBreakPoint, InEditor, Guarded, Editing, EditorMeansStopped,
                  IInv, Protocol, StoppedMeansGone
    <2> QED
      BY <1>1, <2>1, SameTable DEF ToggleBreakPoint
  <1>2. ASSUME \/ \E b \in Bases, v \in 1..MaxVersion, q \in Procs : CreateChild(b, v, q)
               \/ \E q \in Procs : Help(q)
               \/ Quit \/ Handle
        PROVE  Table'
    BY <1>2, SameTable
    DEF CreateChild, Help, Quit, QuitStopped, QuitRunning, QuitTrapped,
        Handle, HandleHelp, HandleStart, HandlePuts, RestoreBreakpoints, HandleTrap
  <1>3. ASSUME InsertAndStart PROVE Table'
    BY <1>3, InsertTable DEF Table
  <1>4. ASSUME Prompt PROVE Table'
    <2>1. PICK c \in {"c", "s", "e"} : Command(c)
      BY <1>4 DEF Prompt, CmdExit, CmdContinue, CmdStep
    <2> QED
      BY <2>1, SameTable DEF Command
  <1>5. ASSUME Child PROVE Table'
    <2>1. ASSUME TakeStartup PROVE Table'
      BY <2>1, SameTable DEF TakeStartup
    <2>2. ASSUME FinishExit PROVE Table'
      BY <2>2, SameTable DEF FinishExit
    <2>3. ASSUME \/ TakeReply \/ FetchTrap \/ ExecForeign \/ Unfreeze \/ EnterExit PROVE Table'
      BY <2>3, SameTable DEF TakeReply, FetchTrap, ExecForeign, Unfreeze, EnterExit
    <2>4. ASSUME NEW n \in Targets,
                 ExecPlain(n) \/ ExecBreak(n) \/ ExecPuts(n) \/ ExecSoftTrap(n)
          PROVE  Table'
      <3>1. UNCHANGED <<bpVars, startMsg>>
        BY <2>4 DEF ExecPlain, ExecBreak, ExecPuts, ExecSoftTrap, GoTo
      <3> QED
        BY <3>1, SameTable
    <2> QED
      BY <1>5, <2>1, <2>2, <2>3, <2>4 DEF Child, Targets
  <1>6. ASSUME CtrlC \/ HelpExit \/ UNCHANGED vars PROVE Table'
    BY <1>6, SameTable DEF CtrlC, HelpExit
  <1> QED
    BY <1>1, <1>2, <1>3, <1>4, <1>5, <1>6 DEF Next, Editor

\* While a program runs every breakpoint set in the editor is in its code, or
\* the one that is stepped over; those of the last lines are missing when the
\* table was full, and only then: F9's lines against _launch_process's loop over
\* g_bpCodes.
THEOREM EditorBreakpointsInsertedHolds == Spec => []EditorBreakpointsInserted
  <1>1. Init => Table
    <2> SUFFICES ASSUME Init PROVE Table
      OBVIOUS
    <2>1. UsedSlots = 1..0
      BY DEF Init, UsedSlots, FreeSlot
    <2> QED
      BY <2>1 DEF Init, Table, Filled, Missing
  <1>2. IInv /\ Guarded /\ Breakpoints /\ Table /\ [Next]_vars => Table'
    BY StepTable
  <1>3. IInv /\ Breakpoints /\ Table => EditorBreakpointsInserted
    <2> SUFFICES ASSUME IInv, Breakpoints, Table, startMsg \in {"sent", "child"},
                        NEW l \in bps
                 PROVE  \/ mem[Start(base, l)] = ILLEGAL
                        \/ /\ l \in applied
                           /\ \/ l \in Faulting
                              \/ dbgState = "Continuing" /\ Out = {Start(base, l)}
                        \/ /\ l \notin applied /\ UsedSlots = Slots
                           /\ \A m \in applied : m < l
      BY DEF EditorBreakpointsInserted
    <2>1. CASE l \notin applied
      BY <2>1 DEF Table, Missing
    <2>2. CASE l \in applied /\ l \notin Faulting /\ mem[Start(base, l)] # ILLEGAL
      <3>1. base \in Nat /\ l \in Nat /\ Faulting \subseteq Nat
        BY Addresses DEF Lines, IInv, Protocol, StoppedMeansGone
      <3>2. ASSUME NEW f \in Faulting PROVE Start(base, l) # Start(base, f)
        <4>1. f \in Nat /\ f # l
          BY <2>2, <3>1
        <4> QED
          BY <3>1, <4>1 DEF Start
      <3>3. Start(base, l) \in Out
        BY <2>2, <3>2 DEF Out, Applied
      <3> QED
        BY <2>2, <3>3, Intact DEF CodeIntact
    <2> QED
      BY <2>1, <2>2
  <1> QED
    BY <1>1, <1>2, <1>3, BreakpointsInvariant, PTL DEF Spec
=============================================================================
