--------------------------- MODULE DebuggerProofs ---------------------------
(***************************************************************************)
(* The debugger's message protocol is safe for every number of lines,      *)
(* breakpoints, programs and messages.  The invariant is proved in two     *)
(* stages: Types alone, then the protocol.                                 *)
(***************************************************************************)
EXTENDS DebuggerRefinement, TLAPS

Protocol == OneOwner /\ OutputInOrder /\ PromptOwnsTrap /\ StoppedMeansGone
IInv     == TypeOK /\ Protocol

USE DebuggerAssumption DEF DebuggerAssumption

LEMMA InMemory == ASSUME NEW b \in Bases, NEW l \in Lines
                  PROVE  Start(b, l) \in Memory /\ Start(b, l) # 0
  BY DEF Start, StartsOf, CodeOf, Memory, Lines

(* What taking a message and putting one does to the port.                   *)

LEMMA TakeMessage ==
  ASSUME NEW s \in Seq(Message), s # <<>>, Orderly(s)
  PROVE  /\ Tail(s) \in Seq(Message) /\ Head(s) \in Message
         /\ Orderly(Tail(s))
         /\ Has(s, Head(s).cmd)
         /\ \A c \in {"START", "PUTS", "TRAP"} :
              Has(Tail(s), c) <=> Has(s, c) /\ Head(s).cmd # c
         /\ Head(s).cmd = "TRAP" => ~Has(s, "PUTS")
         /\ \A n : Carries(s, n) => /\ Carries(Tail(s), n)
                                    /\ Head(s).cmd = "PUTS" => Head(s).out = n
  <1>1. /\ Tail(s) \in Seq(Message) /\ Head(s) \in Message /\ Head(s) = s[1]
        /\ Len(s) \in Nat \ {0} /\ DOMAIN s = 1..Len(s)
        /\ DOMAIN Tail(s) = 1..(Len(s) - 1)
        /\ \A i \in 1..(Len(s) - 1) : Tail(s)[i] = s[i + 1]
    OBVIOUS
  <1>2. Orderly(Tail(s))
    BY <1>1 DEF Orderly
  <1>3. ASSUME NEW c \in {"START", "PUTS", "TRAP"}
        PROVE  Has(Tail(s), c) <=> Has(s, c) /\ Head(s).cmd # c
    <2>1. ASSUME Has(Tail(s), c) PROVE Has(s, c) /\ Head(s).cmd # c
      BY <1>1, <2>1 DEF Has, Orderly
    <2>2. ASSUME Has(s, c), Head(s).cmd # c PROVE Has(Tail(s), c)
      <3>1. PICK i \in 1..Len(s) : s[i].cmd = c
        BY <1>1, <2>2 DEF Has
      <3>2. i - 1 \in 1..(Len(s) - 1) /\ Tail(s)[i - 1] = s[i]
        BY <1>1, <2>2, <3>1
      <3> QED
        BY <1>1, <3>1, <3>2 DEF Has
    <2> QED
      BY <2>1, <2>2
  <1>4. Head(s).cmd = "TRAP" => ~Has(s, "PUTS")
    BY <1>1 DEF Has, Orderly
  <1>5. ASSUME NEW n, Carries(s, n)
        PROVE  Carries(Tail(s), n) /\ (Head(s).cmd = "PUTS" => Head(s).out = n)
    BY <1>1, <1>5 DEF Carries
  <1>6. Has(s, Head(s).cmd)
    BY <1>1 DEF Has
  <1> QED
    BY <1>1, <1>2, <1>3, <1>4, <1>5, <1>6

LEMMA PutMessage ==
  ASSUME NEW s \in Seq(Message), NEW m \in Message, Orderly(s),
         m.cmd = "WB" \/ ~Has(s, m.cmd), m.cmd = "PUTS" => ~Has(s, "TRAP")
  PROVE  /\ Append(s, m) \in Seq(Message)
         /\ Orderly(Append(s, m))
         /\ \A c : Has(Append(s, m), c) <=> Has(s, c) \/ m.cmd = c
         /\ \A n : (~Has(s, "PUTS") \/ Carries(s, n)) /\ (m.cmd = "PUTS" => m.out = n)
                     => Carries(Append(s, m), n)
  <1>1. /\ Append(s, m) \in Seq(Message)
        /\ Len(s) \in Nat /\ DOMAIN s = 1..Len(s)
        /\ DOMAIN Append(s, m) = 1..(Len(s) + 1)
        /\ \A i \in 1..Len(s) : Append(s, m)[i] = s[i]
        /\ Append(s, m)[Len(s) + 1] = m
    OBVIOUS
  <1>2. \A i \in 1..(Len(s) + 1) : i \in 1..Len(s) \/ i = Len(s) + 1
    BY <1>1
  <1>3. Orderly(Append(s, m))
    <2> SUFFICES ASSUME NEW i \in 1..(Len(s) + 1), NEW j \in 1..(Len(s) + 1)
                 PROVE  LET p == Append(s, m) IN
                        /\ p[i].cmd = p[j].cmd => i = j \/ p[i].cmd = "WB"
                        /\ p[i].cmd = "PUTS" /\ p[j].cmd = "TRAP" => i < j
      BY <1>1 DEF Orderly
    <2>1. CASE i \in 1..Len(s) /\ j \in 1..Len(s)
      BY <1>1, <2>1 DEF Orderly
    <2>2. CASE i = Len(s) + 1 /\ j \in 1..Len(s)
      BY <1>1, <2>2 DEF Has
    <2>3. CASE i \in 1..Len(s) /\ j = Len(s) + 1
      BY <1>1, <2>3 DEF Has
    <2> QED
      BY <1>2, <2>1, <2>2, <2>3
  <1>4. ASSUME NEW c PROVE Has(Append(s, m), c) <=> Has(s, c) \/ m.cmd = c
    BY <1>1, <1>2 DEF Has
  <1>5. ASSUME NEW n, ~Has(s, "PUTS") \/ Carries(s, n), m.cmd = "PUTS" => m.out = n
        PROVE  Carries(Append(s, m), n)
    BY <1>1, <1>2, <1>5 DEF Carries, Has
  <1> QED
    BY <1>1, <1>3, <1>4, <1>5

LEMMA InitInv == Init => IInv
  <1> SUFFICES ASSUME Init PROVE IInv
    OBVIOUS
  <1> USE DEF Init
  <1>1. TypeIde
    BY DEF TypeIde
  <1>2. TypeProgram
    BY DEF TypeProgram, FreeSlot, FREE
  <1>3. TypeChild
    BY DEF TypeChild
  <1>4. TypeMessages
    BY DEF TypeMessages, TrapCodes
  <1>5. Protocol
    BY DEF Protocol, OneOwner, OutputInOrder, PromptOwnsTrap, StoppedMeansGone,
           Has, Orderly, Carries, Frozen, ChildExists
  <1> QED
    BY <1>1, <1>2, <1>3, <1>4, <1>5 DEF IInv, TypeOK

LEMMA HandlePutsInv == IInv /\ HandlePuts => IInv'
  <1> SUFFICES ASSUME IInv, HandlePuts PROVE IInv'
    OBVIOUS
  <1> USE DEF IInv, TypeOK, Protocol, HandlePuts, InLoop
  <1>a. /\ debugPort \in Seq(Message) /\ debugPort # <<>> /\ Orderly(debugPort)
        /\ Carries(debugPort, printed)
    BY DEF TypeMessages, OneOwner, OutputInOrder
  <1>b. Head(debugPort).out = printed /\ Head(debugPort) \in Message
    BY <1>a, TakeMessage
  <1>1. TypeIde' /\ TypeProgram' /\ TypeChild'
    BY DEF TypeIde, TypeProgram, TypeChild, ideVars, bpVars, childVars
  <1>2. TypeMessages'
    BY <1>a, <1>b, TakeMessage DEF TypeMessages, Message
  <1>3. OneOwner'
    BY <1>a, TakeMessage DEF OneOwner, Frozen, childVars
  <1>4. OutputInOrder'
    <2>1. outMsg = "queued" /\ printed = Len(console) + 1
      BY <1>a, TakeMessage DEF OneOwner, OutputInOrder
    <2>2. Carries(debugPort', printed')
      BY <1>a, TakeMessage
    <2>3. console \in Seq(Nat) /\ console = [i \in 1..Len(console) |-> i]
          /\ console' = Append(console, Len(console) + 1)
      BY <1>b, <2>1 DEF TypeMessages, OutputInOrder
    <2>4. console' = [i \in 1..Len(console') |-> i] /\ Len(console') = Len(console) + 1
      BY <2>3
    <2> QED
      BY <2>1, <2>2, <2>4 DEF OutputInOrder
  <1>5. PromptOwnsTrap' /\ StoppedMeansGone'
    BY DEF PromptOwnsTrap, StoppedMeansGone, ChildExists, ideVars, bpVars, childVars
  <1> QED
    BY <1>1, <1>2, <1>3, <1>4, <1>5

(* The IDE's own steps, which leave the port alone.                          *)

LEMMA EditorInv ==
  ASSUME IInv, \/ \E l \in Lines : ToggleBreakPoint(l)
               \/ \E q \in Procs : Help(q)
               \/ QuitStopped \/ QuitRunning \/ QuitTrapped
  PROVE  IInv'
  <1> USE DEF IInv, Protocol, InEditor, ideVars, bpVars, childVars, msgVars, outVars
  <1>1. ASSUME NEW l \in Lines, ToggleBreakPoint(l) PROVE IInv'
    <2>1. TypeOK'
      BY <1>1 DEF ToggleBreakPoint, TypeOK, TypeIde, TypeProgram, TypeChild, TypeMessages
    <2>2. OneOwner' /\ OutputInOrder'
      BY <1>1 DEF ToggleBreakPoint, OneOwner, OutputInOrder, Frozen
    <2>3. PromptOwnsTrap' /\ StoppedMeansGone'
      BY <1>1 DEF ToggleBreakPoint, PromptOwnsTrap, StoppedMeansGone, ChildExists
    <2> QED
      BY <2>1, <2>2, <2>3
  <1>2. ASSUME NEW q \in Procs, Help(q) PROVE IInv'
    <2>1. TypeOK'
      BY <1>2 DEF Help, TypeOK, TypeIde, TypeProgram, TypeChild, TypeMessages
    <2>2. OneOwner' /\ OutputInOrder'
      BY <1>2 DEF Help, OneOwner, OutputInOrder, Frozen
    <2>3. PromptOwnsTrap' /\ StoppedMeansGone'
      BY <1>2 DEF Help, PromptOwnsTrap, StoppedMeansGone, ChildExists
    <2> QED
      BY <2>1, <2>2, <2>3
  <1>3. CASE QuitStopped
    <2>1. TypeOK'
      BY <1>3 DEF QuitStopped, TypeOK, TypeIde, TypeProgram, TypeChild, TypeMessages
    <2>2. OneOwner' /\ OutputInOrder'
      BY <1>3 DEF QuitStopped, OneOwner, OutputInOrder, Frozen
    <2>3. PromptOwnsTrap' /\ StoppedMeansGone'
      BY <1>3 DEF QuitStopped, PromptOwnsTrap, StoppedMeansGone, ChildExists
    <2> QED
      BY <2>1, <2>2, <2>3
  <1>4. CASE QuitRunning
    <2>0. TypeIde' /\ TypeChild'
      <3>1. fault' \in {fault, "signal"}
        BY <1>4 DEF QuitRunning
      <3>2. breakStatus' \in {breakStatus, TRUE}
        BY <1>4 DEF QuitRunning
      <3>3. TypeIde'
        BY <1>4, <3>1 DEF QuitRunning, TypeOK, TypeIde
      <3>4. TypeChild'
        BY <1>4, <3>2 DEF QuitRunning, TypeOK, TypeChild
      <3> QED
        BY <3>3, <3>4
    <2>1. TypeOK'
      BY <1>4, <2>0 DEF QuitRunning, TypeOK, TypeProgram, TypeMessages
    <2>2. OneOwner' /\ OutputInOrder'
      BY <1>4 DEF QuitRunning, OneOwner, OutputInOrder, Frozen
    <2>3. PromptOwnsTrap' /\ StoppedMeansGone'
      BY <1>4 DEF QuitRunning, PromptOwnsTrap, StoppedMeansGone, ChildExists
    <2> QED
      BY <2>1, <2>2, <2>3
  <1>5. CASE QuitTrapped
    <2>1. trapMsg # "ide" /\ fault' = "trapReply" /\ UNCHANGED trapMsg
      BY <1>5 DEF QuitTrapped, ReplyTrap, PromptOwnsTrap
    <2>2. TypeOK'
      BY <1>5, <2>1 DEF QuitTrapped, TypeOK, TypeIde, TypeProgram, TypeChild, TypeMessages
    <2>3. OneOwner' /\ OutputInOrder'
      BY <1>5, <2>1 DEF QuitTrapped, OneOwner, OutputInOrder, Frozen
    <2>4. PromptOwnsTrap' /\ StoppedMeansGone'
      BY <1>5, <2>1 DEF QuitTrapped, PromptOwnsTrap, StoppedMeansGone, ChildExists
    <2> QED
      BY <2>2, <2>3, <2>4
  <1> QED
    BY <1>1, <1>2, <1>3, <1>4, <1>5

LEMMA CreateChildInv ==
  ASSUME IInv, NEW b \in Bases, NEW v \in 1..MaxVersion, NEW q \in Procs,
         CreateChild(b, v, q)
  PROVE  IInv'
  <1> USE DEF IInv, Protocol, CreateChild, InEditor, outVars
  <1>1. /\ cpc \in {"none", "gone"} /\ trapMsg = "idle" /\ outMsg # "queued"
        /\ startMsg = "idle" /\ b # 0
    BY DEF TypeOK, TypeChild, OneOwner, StoppedMeansGone, ChildExists, Frozen
  <1>2. TypeIde' /\ TypeChild' /\ TypeMessages'
    BY DEF TypeOK, TypeIde, TypeChild, TypeMessages
  <1>3. TypeProgram'
    BY DEF TypeOK, TypeProgram
  <1>4. OneOwner'
    BY <1>1 DEF OneOwner, Frozen
  <1>5. OutputInOrder' /\ PromptOwnsTrap' /\ StoppedMeansGone'
    BY <1>1 DEF OutputInOrder, PromptOwnsTrap, StoppedMeansGone, ChildExists
  <1> QED
    BY <1>2, <1>3, <1>4, <1>5 DEF TypeOK

LEMMA InsertAndStartInv == IInv /\ InsertAndStart => IInv'
  <1> SUFFICES ASSUME IInv, InsertAndStart PROVE IInv'
    OBVIOUS
  <1> USE DEF IInv, Protocol, InsertAndStart, childVars, outVars
  <1>1. base \in Bases
    BY DEF TypeOK, TypeIde, TypeProgram, StoppedMeansGone
  <1>2. TypeIde' /\ TypeChild' /\ TypeMessages'
    BY DEF TypeOK, TypeIde, TypeChild, TypeMessages
  <1>3. bpCodes' \in [Slots -> [addr : Memory \cup {0}, code : Int]]
    <2> SUFFICES ASSUME NEW i \in Slots, \E l \in Inserted : SlotOf(l) = i
                 PROVE  bpCodes'[i] \in [addr : Memory \cup {0}, code : Int]
      BY DEF TypeOK, TypeProgram
    <2>1. PICK l \in Lines :
            bpCodes'[i] = [addr |-> Start(base, l), code |-> mem[Start(base, l)]]
      <3> DEFINE m == CHOOSE l \in Inserted : SlotOf(l) = i
      <3>1. m \in Lines
        BY DEF Inserted, TypeOK, TypeProgram
      <3> QED
        BY <3>1
    <2> QED
      BY <1>1, <2>1, InMemory DEF TypeOK, TypeProgram
  <1>4. TypeProgram'
    <2>1. Inserted \subseteq Lines
      BY DEF Inserted, TypeOK, TypeProgram
    <2> QED
      BY <1>3, <2>1 DEF TypeOK, TypeProgram, ILLEGAL
  <1>5. OneOwner' /\ OutputInOrder'
    BY DEF OneOwner, OutputInOrder, Frozen, StoppedMeansGone
  <1>6. PromptOwnsTrap' /\ StoppedMeansGone'
    BY DEF PromptOwnsTrap, StoppedMeansGone, ChildExists
  <1> QED
    BY <1>2, <1>4, <1>5, <1>6 DEF TypeOK

-----------------------------------------------------------------------------
(* DEBUG_handleMessages.                                                     *)

LEMMA InLoopFacts ==
  ASSUME IInv, NEW c, InLoop(c)
  PROVE  /\ debugPort \in Seq(Message) /\ debugPort # <<>> /\ Orderly(debugPort)
         /\ Tail(debugPort) \in Seq(Message) /\ Head(debugPort) \in Message
         /\ Orderly(Tail(debugPort))
         /\ Has(debugPort, Head(debugPort).cmd)
         /\ \A x \in {"START", "PUTS", "TRAP"} :
              Has(Tail(debugPort), x) <=> Has(debugPort, x) /\ Head(debugPort).cmd # x
         /\ Head(debugPort).cmd = "TRAP" => ~Has(debugPort, "PUTS")
         /\ Carries(Tail(debugPort), printed)
         /\ Head(debugPort).cmd = "PUTS" => Head(debugPort).out = printed
  <1>1. /\ debugPort \in Seq(Message) /\ debugPort # <<>> /\ Orderly(debugPort)
        /\ Carries(debugPort, printed)
    BY DEF InLoop, IInv, TypeOK, TypeMessages, Protocol, OneOwner, OutputInOrder
  <1> QED
    BY <1>1, TakeMessage

LEMMA HandleHelpInv == IInv /\ HandleHelp => IInv'
  <1> SUFFICES ASSUME IInv, HandleHelp PROVE IInv'
    OBVIOUS
  <1> USE DEF IInv, Protocol, HandleHelp, childVars, bpVars, outVars
  <1>1. InLoop({"WB", "START"}) /\ Head(debugPort).cmd \in {"WB", "START"}
    BY DEF InLoop
  <1>2. TypeOK'
    BY <1>1, InLoopFacts DEF TypeOK, TypeIde, TypeProgram, TypeChild, TypeMessages
  <1>3. OneOwner' /\ OutputInOrder'
    BY <1>1, InLoopFacts DEF OneOwner, OutputInOrder, Frozen
  <1>4. PromptOwnsTrap' /\ StoppedMeansGone'
    BY DEF PromptOwnsTrap, StoppedMeansGone, ChildExists
  <1> QED
    BY <1>2, <1>3, <1>4

LEMMA HandleStartInv == IInv /\ HandleStart => IInv'
  <1> SUFFICES ASSUME IInv, HandleStart PROVE IInv'
    OBVIOUS
  <1> USE DEF IInv, Protocol, HandleStart, childVars, outVars
  <1>1. InLoop({"START"}) /\ Head(debugPort).cmd = "START"
    BY DEF InLoop
  <1>2. cpc = "gone" /\ trapMsg = "idle"
    BY <1>1, InLoopFacts DEF OneOwner, Frozen
  <1>3. TypeOK'
    BY <1>1, InLoopFacts DEF TypeOK, TypeIde, TypeProgram, TypeChild, TypeMessages, FREE
  <1>4. OneOwner' /\ OutputInOrder'
    BY <1>1, <1>2, InLoopFacts DEF OneOwner, OutputInOrder, Frozen
  <1>5. PromptOwnsTrap' /\ StoppedMeansGone'
    BY <1>1, <1>2 DEF PromptOwnsTrap, StoppedMeansGone, ChildExists, InLoop
  <1> QED
    BY <1>3, <1>4, <1>5

LEMMA HandleTrapInv == IInv /\ (HandleTrap \/ RestoreBreakpoints) => IInv'
  <1> SUFFICES ASSUME IInv, HandleTrap \/ RestoreBreakpoints PROVE IInv'
    OBVIOUS
  <1> USE DEF IInv, Protocol, childVars, bpVars, outVars
  <1>1. InLoop({"TRAP"}) /\ Head(debugPort).cmd = "TRAP" /\ Has(debugPort, "TRAP")
    BY InLoopFacts DEF InLoop, HandleTrap, RestoreBreakpoints
  <1>2. trapMsg = "queued" /\ outMsg # "queued" /\ cpc = "live"
        /\ idePc \in {"ui", "wait"} /\ base # 0
    BY <1>1, InLoopFacts DEF InLoop, OneOwner, Frozen, PromptOwnsTrap,
                             StoppedMeansGone, ChildExists
  <1>3. CASE HandleTrap
    <2> USE <1>3 DEF HandleTrap
    <2>1. TypeOK'
      BY <1>1, InLoopFacts DEF TypeOK, TypeIde, TypeProgram, TypeChild, TypeMessages
    <2>2. OneOwner' /\ OutputInOrder'
      BY <1>1, <1>2, InLoopFacts DEF OneOwner, OutputInOrder, Frozen
    <2>3. PromptOwnsTrap' /\ StoppedMeansGone'
      BY <1>1, <1>2 DEF PromptOwnsTrap, StoppedMeansGone, ChildExists
    <2> QED
      BY <2>1, <2>2, <2>3
  <1>4. CASE RestoreBreakpoints
    <2> USE <1>4 DEF RestoreBreakpoints
    <2>0. mem' \in [Memory -> Int]
      BY DEF TypeOK, TypeProgram, ILLEGAL
    <2>1. TypeOK'
      <3>1. TypeIde' /\ TypeProgram'
        BY <2>0 DEF TypeOK, TypeIde, TypeProgram
      <3>2. TypeChild' /\ TypeMessages'
        BY ZenonT(30), <1>1, InLoopFacts DEF TypeOK, TypeChild, TypeMessages
      <3> QED
        BY <3>1, <3>2 DEF TypeOK
    <2>2. OneOwner' /\ OutputInOrder'
      BY <1>1, <1>2, InLoopFacts DEF OneOwner, OutputInOrder, Frozen
    <2>3. PromptOwnsTrap' /\ StoppedMeansGone'
      BY <1>1, <1>2 DEF PromptOwnsTrap, StoppedMeansGone, ChildExists
    <2> QED
      BY <2>1, <2>2, <2>3
  <1> QED
    BY <1>3, <1>4

(* _debug: a command ends the prompt and replies the trap message.           *)
LEMMA CommandInv == IInv /\ Prompt => IInv'
  <1> SUFFICES ASSUME IInv, Prompt PROVE IInv'
    OBVIOUS
  <1> USE DEF IInv, Protocol, outVars
  <1>1. PICK c \in {"c", "s", "e"} : Command(c)
    BY DEF Prompt, CmdExit, CmdContinue, CmdStep
  <1>2. /\ idePc = "prompt" /\ trapMsg = "ide" /\ trapMsg' = "replied"
        /\ UNCHANGED fault /\ idePc' \in {"ui", "wait"} /\ dbgState = "Trapped"
        /\ cpc = "live" /\ outMsg # "queued" /\ base # 0
    BY <1>1 DEF Command, ReplyTrap, PromptOwnsTrap, OneOwner, Frozen, StoppedMeansGone
  <1>3. /\ at' \in {at, EXIT} /\ trace' \in BOOLEAN /\ exitForced' \in BOOLEAN
        /\ waiting' \in {waiting, FALSE}
        /\ dbgState' \in {"Trapped", "Running", "Continuing"}
    BY <1>2 DEF Prompt, CmdExit, CmdContinue, CmdStep, TypeOK, TypeIde, TypeChild
  <1>4. mem' \in [Memory -> Int]
    <2>1. mem' = mem \/ \E i \in Slots : mem' = [mem EXCEPT ![at] = bpCodes[i].code]
      BY DEF Prompt, CmdExit, CmdContinue, CmdStep, Matches
    <2> QED
      BY <2>1 DEF TypeOK, TypeProgram
  <1>5. TypeOK'
    <2>1. TypeIde' /\ TypeProgram'
      BY <1>1, <1>2, <1>3, <1>4 DEF Command, TypeOK, TypeIde, TypeProgram
    <2>2. TypeChild' /\ TypeMessages'
      BY <1>1, <1>2, <1>3 DEF Command, TypeOK, TypeChild, TypeMessages
    <2> QED
      BY <2>1, <2>2 DEF TypeOK
  <1>6. OneOwner' /\ OutputInOrder'
    BY <1>1, <1>2 DEF Command, OneOwner, OutputInOrder, Frozen
  <1>7. PromptOwnsTrap' /\ StoppedMeansGone'
    BY <1>1, <1>2, <1>3 DEF Command, PromptOwnsTrap, StoppedMeansGone, ChildExists
  <1> QED
    BY <1>5, <1>6, <1>7

-----------------------------------------------------------------------------
(* The child process.                                                        *)

Targets == Memory \cup {EXIT, HANDLER}

LEMMA EndPort ==
  ASSUME IInv, Running, NEW port \in Seq(Message), Orderly(port), ~Has(port, "TRAP"),
         NEW code \in TrapCodes, EndOfInstr(port) \/ Trap(code, port)
  PROVE  /\ debugPort' \in Seq(Message) /\ Orderly(debugPort')
         /\ trapCode' \in TrapCodes /\ trapMsg' \in {"idle", "queued"}
         /\ Has(debugPort', "TRAP") <=> trapMsg' = "queued"
         /\ \A c \in {"START", "PUTS"} : Has(debugPort', c) <=> Has(port, c)
         /\ \A n : Carries(port, n) => Carries(debugPort', n)
  <1>1. TrapMessage \in Message /\ TrapMessage.cmd = "TRAP" /\ trapMsg = "idle"
    BY DEF TrapMessage, Message, NoProc, Running, Frozen
  <1>2. TraceStep \in TrapCodes
    BY DEF TrapCodes
  <1>3. CASE \E x \in TrapCodes : Trap(x, port)
    <2>1. PICK x \in TrapCodes : Trap(x, port)
      BY <1>3
    <2>2. debugPort' = Append(port, TrapMessage) /\ trapMsg' = "queued" /\ trapCode' = x
      BY <2>1 DEF Trap
    <2>3. /\ Append(port, TrapMessage) \in Seq(Message)
          /\ Orderly(Append(port, TrapMessage))
          /\ \A c : Has(Append(port, TrapMessage), c) <=> Has(port, c) \/ TrapMessage.cmd = c
          /\ \A n : Carries(port, n) => Carries(Append(port, TrapMessage), n)
      BY <1>1, PutMessage
    <2> QED
      BY <1>1, <2>2, <2>3
  <1>4. CASE debugPort' = port /\ UNCHANGED <<trapCode, trapMsg>>
    BY <1>1, <1>4 DEF IInv, TypeOK, TypeMessages
  <1> QED
    BY <1>2, <1>3, <1>4 DEF EndOfInstr

(* An instruction that ends in a trap or not, or the end of _DEBUG_PUTS.     *)
LEMMA InstrInv ==
  ASSUME IInv, Running,
         NEW code \in TrapCodes, EndOfInstr(debugPort) \/ Trap(code, debugPort),
         UNCHANGED <<ideVars, bpVars, cpc, trace, helpAlive, startMsg, outVars,
                     exitForced, fault>>,
         at' \in Targets \cup {at}, breakStatus' \in BOOLEAN,
         \/ outMsg' = outMsg /\ waiting' = waiting
         \/ outMsg = "replied" /\ outMsg' = "idle" /\ waiting' = FALSE
  PROVE  IInv'
  <1> USE DEF IInv, Protocol
  <1>1. /\ debugPort \in Seq(Message) /\ Orderly(debugPort) /\ ~Has(debugPort, "TRAP")
        /\ trapMsg = "idle" /\ cpc = "live"
    BY DEF TypeOK, TypeMessages, OneOwner, Running, Frozen
  <1>2. /\ debugPort' \in Seq(Message) /\ Orderly(debugPort')
        /\ trapCode' \in TrapCodes /\ trapMsg' \in {"idle", "queued"}
        /\ Has(debugPort', "TRAP") <=> trapMsg' = "queued"
        /\ Has(debugPort', "START") <=> Has(debugPort, "START")
        /\ Has(debugPort', "PUTS") <=> Has(debugPort, "PUTS")
        /\ Carries(debugPort', printed)
    BY <1>1, EndPort DEF OutputInOrder
  <1>3. TypeIde' /\ TypeProgram'
    BY DEF TypeOK, TypeIde, TypeProgram, ideVars, bpVars
  <1>4. TypeChild' /\ TypeMessages'
    BY <1>2 DEF TypeOK, TypeChild, TypeMessages, Targets, outVars
  <1>5. OneOwner'
    BY <1>1, <1>2 DEF OneOwner, Frozen
  <1>6. OutputInOrder'
    BY <1>2 DEF OutputInOrder, outVars
  <1>7. PromptOwnsTrap' /\ StoppedMeansGone'
    BY <1>1, <1>2 DEF PromptOwnsTrap, StoppedMeansGone, ChildExists, ideVars, bpVars
  <1> QED
    BY <1>3, <1>4, <1>5, <1>6, <1>7 DEF TypeOK

LEMMA ExecInv ==
  ASSUME IInv, NEW n \in Targets,
         \/ ExecPlain(n) \/ ExecBreak(n) \/ ExecSoftTrap(n)
         \/ TakeReply \/ FetchTrap \/ EnterExit
  PROVE  IInv'
  <1>1. {0, SoftTrap, IllegalInstr, AccessFault} \subseteq TrapCodes
    BY DEF TrapCodes
  <1>2. breakStatus \in BOOLEAN
    BY DEF IInv, TypeOK, TypeChild
  <1>3. CASE ExecPlain(n)
    BY <1>1, <1>2, <1>3, InstrInv DEF ExecPlain, CanExec, InProgram, GoTo
  <1>4. CASE ExecBreak(n)
    BY <1>1, <1>4, InstrInv DEF ExecBreak, InRest, CanExec, InProgram, GoTo
  <1>5. CASE ExecSoftTrap(n)
    BY <1>1, <1>2, <1>5, InstrInv DEF ExecSoftTrap, InRest, CanExec, InProgram, GoTo
  <1>6. CASE TakeReply
    BY <1>1, <1>2, <1>6, InstrInv DEF TakeReply
  <1>7. CASE FetchTrap
    BY <1>1, <1>2, <1>7, InstrInv DEF FetchTrap, InProgram, childVars
  <1>8. CASE EnterExit
    BY <1>1, <1>2, <1>8, InstrInv DEF EnterExit, Targets
  <1> QED
    BY <1>3, <1>4, <1>5, <1>6, <1>7, <1>8

LEMMA ExecPutsInv == ASSUME IInv, NEW n \in Targets, ExecPuts(n) PROVE IInv'
  <1> USE DEF IInv, Protocol
  <1>1. CASE outMsg # "idle"
    <2>1. /\ UNCHANGED <<ideVars, bpVars, childVars, helpAlive, trapCode, msgVars,
                         outVars, exitForced>>
          /\ fault' = "outMsg"
      BY <1>1 DEF ExecPuts
    <2>2. TypeOK'
      BY <2>1 DEF TypeOK, TypeIde, TypeProgram, TypeChild, TypeMessages,
                  ideVars, bpVars, childVars, msgVars, outVars
    <2>3. Protocol'
      BY <2>1 DEF OneOwner, OutputInOrder, PromptOwnsTrap, StoppedMeansGone, Frozen,
                  ChildExists, ideVars, bpVars, childVars, msgVars, outVars
    <2> QED
      BY <2>2, <2>3
  <1>2. CASE outMsg = "idle"
    <2> DEFINE m    == Puts(printed + 1)
               port == Append(debugPort, m)
    <2>1. /\ Running /\ ~waiting /\ printed < MaxOut /\ printed' = printed + 1
          /\ outMsg' = "queued" /\ waiting' = TRUE /\ EndOfInstr(port)
          /\ UNCHANGED <<ideVars, bpVars, cpc, trace, helpAlive, startMsg, exitForced,
                         breakStatus, console, fault>>
          /\ at' = n
      BY <1>2 DEF ExecPuts, GoTo, InRest, CanExec, InProgram
    <2>2. /\ debugPort \in Seq(Message) /\ Orderly(debugPort)
          /\ ~Has(debugPort, "TRAP") /\ ~Has(debugPort, "PUTS")
          /\ trapMsg = "idle" /\ cpc = "live" /\ printed \in Nat
      BY <1>2, <2>1 DEF TypeOK, TypeMessages, OneOwner, Running, Frozen
    <2>3. m \in Message /\ m.cmd = "PUTS" /\ m.out = printed + 1
      BY <2>2 DEF Puts, Message, NoProc
    <2>4. /\ port \in Seq(Message) /\ Orderly(port)
          /\ ~Has(port, "TRAP") /\ Has(port, "PUTS")
          /\ Has(port, "START") <=> Has(debugPort, "START")
          /\ Carries(port, printed + 1)
      <3> HIDE DEF m
      <3> QED
        BY <2>2, <2>3, PutMessage
    <2>5. /\ debugPort' \in Seq(Message) /\ Orderly(debugPort')
          /\ trapCode' \in TrapCodes /\ trapMsg' \in {"idle", "queued"}
          /\ Has(debugPort', "TRAP") <=> trapMsg' = "queued"
          /\ Has(debugPort', "START") <=> Has(debugPort, "START")
          /\ Has(debugPort', "PUTS")
          /\ Carries(debugPort', printed')
      <3> HIDE DEF port
      <3>1. 0 \in TrapCodes
        BY DEF TrapCodes
      <3> QED
        BY <2>1, <2>4, <3>1, EndPort
    <2> HIDE DEF port, m
    <2>6. TypeIde' /\ TypeProgram'
      BY <2>1 DEF TypeOK, TypeIde, TypeProgram, ideVars, bpVars
    <2>7. TypeChild' /\ TypeMessages'
      BY <2>1, <2>5 DEF TypeOK, TypeChild, TypeMessages, Targets
    <2>8. OneOwner'
      BY <2>1, <2>2, <2>5 DEF OneOwner, Frozen
    <2>9. OutputInOrder'
      BY <1>2, <2>1, <2>5 DEF OutputInOrder
    <2>10. PromptOwnsTrap' /\ StoppedMeansGone'
      BY <2>1, <2>2, <2>5 DEF PromptOwnsTrap, StoppedMeansGone, ChildExists, ideVars, bpVars
    <2> QED
      BY <2>6, <2>7, <2>8, <2>9, <2>10 DEF TypeOK
  <1> QED
    BY <1>1, <1>2

LEMMA LifeInv == IInv /\ (TakeStartup \/ Unfreeze \/ CtrlC \/ ExecForeign) => IInv'
  <1> SUFFICES ASSUME IInv, TakeStartup \/ Unfreeze \/ CtrlC \/ ExecForeign PROVE IInv'
    OBVIOUS
  <1> USE DEF IInv, Protocol, ideVars, bpVars, outVars
  <1>1. CASE TakeStartup
    <2> USE <1>1 DEF TakeStartup
    <2>1. base \in Bases /\ 1 \in Lines
      BY DEF TypeOK, TypeProgram, StoppedMeansGone, ChildExists, Lines
    <2>2. at' \in Memory
      BY <2>1, InMemory
    <2>3. TypeOK'
      BY <2>2 DEF TypeOK, TypeIde, TypeProgram, TypeChild, TypeMessages
    <2>4. OneOwner' /\ OutputInOrder'
      BY DEF OneOwner, OutputInOrder, Frozen
    <2>5. PromptOwnsTrap' /\ StoppedMeansGone'
      BY DEF PromptOwnsTrap, StoppedMeansGone, ChildExists
    <2> QED
      BY <2>3, <2>4, <2>5
  <1>2. CASE Unfreeze
    <2> USE <1>2 DEF Unfreeze, childVars
    <2>1. TypeOK'
      BY DEF TypeOK, TypeIde, TypeProgram, TypeChild, TypeMessages
    <2>2. OneOwner' /\ OutputInOrder'
      BY DEF OneOwner, OutputInOrder, Frozen
    <2>3. PromptOwnsTrap' /\ StoppedMeansGone'
      BY DEF PromptOwnsTrap, StoppedMeansGone, ChildExists
    <2> QED
      BY <2>1, <2>2, <2>3
  <1>3. CASE CtrlC
    <2> USE <1>3 DEF CtrlC, msgVars
    <2>1. TypeOK'
      BY DEF TypeOK, TypeIde, TypeProgram, TypeChild, TypeMessages
    <2>2. OneOwner' /\ OutputInOrder'
      BY DEF OneOwner, OutputInOrder, Frozen
    <2>3. PromptOwnsTrap' /\ StoppedMeansGone'
      BY DEF PromptOwnsTrap, StoppedMeansGone, ChildExists
    <2> QED
      BY <2>1, <2>2, <2>3
  <1>4. CASE ExecForeign
    <2> USE <1>4 DEF ExecForeign, childVars, msgVars
    <2>1. TypeOK'
      BY DEF TypeOK, TypeIde, TypeProgram, TypeChild, TypeMessages
    <2>2. OneOwner' /\ OutputInOrder'
      BY DEF OneOwner, OutputInOrder, Frozen
    <2>3. PromptOwnsTrap' /\ StoppedMeansGone'
      BY DEF PromptOwnsTrap, StoppedMeansGone, ChildExists
    <2> QED
      BY <2>1, <2>2, <2>3
  <1> QED
    BY <1>1, <1>2, <1>3, <1>4

LEMMA FinishExitInv == IInv /\ FinishExit => IInv'
  <1> SUFFICES ASSUME IInv, FinishExit PROVE IInv'
    OBVIOUS
  <1> USE DEF IInv, Protocol, FinishExit, ideVars, bpVars, outVars
  <1>1. /\ debugPort \in Seq(Message) /\ Orderly(debugPort)
        /\ ~Has(debugPort, "START") /\ outMsg # "queued" /\ trapMsg = "idle"
        /\ cpc = "live" /\ base # 0
    BY DEF TypeOK, TypeMessages, OneOwner, Running, Frozen, StoppedMeansGone, ChildExists
  <1>2. StartReply(dbgProc) \in Message /\ StartReply(dbgProc).cmd = "START"
    BY DEF StartReply, Message, TypeOK, TypeIde
  <1>3. /\ debugPort' \in Seq(Message) /\ Orderly(debugPort')
        /\ \A c \in {"TRAP", "PUTS"} : Has(debugPort', c) <=> Has(debugPort, c)
        /\ Carries(debugPort', printed)
    BY <1>1, <1>2, PutMessage DEF OutputInOrder
  <1>4. TypeOK'
    BY <1>3 DEF TypeOK, TypeIde, TypeProgram, TypeChild, TypeMessages
  <1>5. OneOwner' /\ OutputInOrder'
    BY <1>1, <1>3 DEF OneOwner, OutputInOrder, Frozen
  <1>6. PromptOwnsTrap' /\ StoppedMeansGone'
    BY <1>1 DEF PromptOwnsTrap, StoppedMeansGone, ChildExists
  <1> QED
    BY <1>4, <1>5, <1>6

LEMMA HelpExitInv == IInv /\ HelpExit => IInv'
  <1> SUFFICES ASSUME IInv, HelpExit PROVE IInv'
    OBVIOUS
  <1> USE DEF IInv, Protocol, HelpExit, ideVars, bpVars, childVars, outVars
  <1>1. /\ debugPort \in Seq(Message) /\ Orderly(debugPort) /\ Carries(debugPort, printed)
    BY DEF TypeOK, TypeMessages, OneOwner, OutputInOrder
  <1>2. HelpReply(helpProc) \in Message /\ HelpReply(helpProc).cmd = "WB"
    BY DEF HelpReply, Message, TypeOK, TypeIde
  <1>3. /\ debugPort' \in Seq(Message) /\ Orderly(debugPort')
        /\ \A c \in {"START", "TRAP", "PUTS"} : Has(debugPort', c) <=> Has(debugPort, c)
        /\ Carries(debugPort', printed)
    <2>1. debugPort' = debugPort \/ debugPort' = Append(debugPort, HelpReply(helpProc))
      OBVIOUS
    <2>2. CASE debugPort' = debugPort
      BY <1>1, <2>2
    <2>3. CASE debugPort' = Append(debugPort, HelpReply(helpProc))
      <3> HIDE DEF HelpExit
      <3> QED
        BY <1>1, <1>2, <2>3, PutMessage
    <2> QED
      BY <2>1, <2>2, <2>3
  <1>4. fault' \in {fault, "deadPort"} /\ helpAlive' = FALSE
        /\ UNCHANGED <<idePc, view, quitting, dbgState, dbgProc, helpState, helpProc,
                      exitForced, bpVars>>
    OBVIOUS
  <1>5. TypeIde' /\ TypeProgram'
    <2> HIDE DEF HelpExit
    <2>1. TypeIde
      BY DEF TypeOK
    <2>2. fault' \in {"none", "trapReply", "outMsg", "signal", "deadPort", "opcode"}
          /\ helpAlive' \in BOOLEAN
      BY <1>4, <2>1 DEF TypeIde
    <2>3. TypeIde'
      <3> HIDE DEF IInv
      <3> QED
        BY <1>4, <2>1, <2>2 DEF TypeIde
    <2>4. TypeProgram'
      BY <1>4 DEF TypeOK, TypeProgram
    <2> QED
      BY <2>3, <2>4
  <1>6. TypeChild' /\ TypeMessages'
    BY <1>3 DEF TypeOK, TypeChild, TypeMessages
  <1>7. OneOwner' /\ OutputInOrder'
    BY <1>3 DEF OneOwner, OutputInOrder, Frozen
  <1>8. PromptOwnsTrap' /\ StoppedMeansGone'
    BY DEF PromptOwnsTrap, StoppedMeansGone, ChildExists
  <1> QED
    BY <1>5, <1>6, <1>7, <1>8 DEF TypeOK

-----------------------------------------------------------------------------
LEMMA StutterInv == IInv /\ UNCHANGED vars => IInv'
  <1> SUFFICES ASSUME IInv, UNCHANGED vars PROVE IInv'
    OBVIOUS
  <1> USE DEF IInv, vars, ideVars, bpVars, childVars, msgVars, outVars
  <1>1. TypeIde' /\ TypeProgram'
    BY DEF TypeOK, TypeIde, TypeProgram
  <1>2. TypeChild' /\ TypeMessages'
    BY DEF TypeOK, TypeChild, TypeMessages
  <1>3. OneOwner' /\ OutputInOrder'
    BY DEF Protocol, OneOwner, OutputInOrder, Frozen
  <1>4. PromptOwnsTrap' /\ StoppedMeansGone'
    BY DEF Protocol, PromptOwnsTrap, StoppedMeansGone, ChildExists
  <1> QED
    BY <1>1, <1>2, <1>3, <1>4 DEF TypeOK, Protocol

\* Every step of the IDE, the program and the help viewer keeps the protocol's
\* invariant.
THEOREM Inductive == Spec => []IInv
  <1>1. IInv /\ Next => IInv'
    <2> SUFFICES ASSUME IInv, Next PROVE IInv'
      OBVIOUS
    <2>1. ASSUME Editor PROVE IInv'
      BY <2>1, EditorInv, CreateChildInv DEF Editor
    <2>2. ASSUME Child PROVE IInv'
      BY <2>2, ExecInv, ExecPutsInv, LifeInv, FinishExitInv DEF Child, Targets
    <2>3. ASSUME Handle PROVE IInv'
      BY <2>3, HandleHelpInv, HandleStartInv, HandlePutsInv, HandleTrapInv DEF Handle
    <2> QED
      BY <2>1, <2>2, <2>3, EditorInv, InsertAndStartInv, CommandInv, LifeInv, HelpExitInv
      DEF Next, Quit
  <1> QED
    BY <1>1, InitInv, StutterInv, PTL DEF Spec

\* The variables keep their types.
THEOREM TypesHold == Spec => []TypeOK
  BY Inductive, PTL DEF IInv

\* No message of the child is ever in two places or lost: _DEBUG_PUTS,
\* _freeze_myself and the start message against DEBUG_handleMessages.
THEOREM OneOwnerHolds == Spec => []OneOwner
  BY Inductive, PTL DEF IInv, Protocol

\* All that the programs print is shown once and in order.
THEOREM OutputInOrderHolds == Spec => []OutputInOrder
  BY Inductive, PTL DEF IInv, Protocol

\* The debugger's prompt is open exactly while a frozen program waits for it.
THEOREM PromptOwnsTrapHolds == Spec => []PromptOwnsTrap
  BY Inductive, PTL DEF IInv, Protocol

\* Types, prompt and messages together, in every reachable state.
THEOREM ConsistentHolds == Spec => []Consistent
  BY TypesHold, OneOwnerHolds, PromptOwnsTrapHolds, PTL DEF Consistent

\* _compileAndRun never starts a program beside a live one.
THEOREM StoppedMeansGoneHolds == Spec => []StoppedMeansGone
  BY Inductive, PTL DEF IInv, Protocol

-----------------------------------------------------------------------------
(* What the IDE may not do while there is a program.                         *)

Editing   == EditorMeansStopped /\ (idePc = "launch" => view = "console")
Forced    == dbgState = "Trapped"
               => /\ cpc # "boot"
                  /\ idePc # "prompt" => exitForced /\ at \in {EXIT, HANDLER}
Unlinked  == outMsg # "idle" => waiting \/ exitForced
Guarded   == Editing /\ ExitWaitsForChild /\ ListsBreakOnlyAfterExit /\ Forced /\ Unlinked

LEMMA IdeGuarded ==
  ASSUME IInv, Guarded, Defined,
         Editor \/ InsertAndStart \/ Quit \/ HelpExit \/ CtrlC
  PROVE  Guarded'
  <1> USE DEF Guarded, Editing, EditorMeansStopped, ExitWaitsForChild, Forced, Unlinked,
              ListsBreakOnlyAfterExit, Defined, ChildExists, InEditor,
              ideVars, bpVars, childVars, msgVars, outVars
  <1>1. ASSUME NEW l \in Lines, ToggleBreakPoint(l) PROVE Guarded'
    BY <1>1 DEF ToggleBreakPoint
  <1>2. ASSUME NEW q \in Procs, Help(q) PROVE Guarded'
    BY <1>2 DEF Help
  <1>3. ASSUME NEW b \in Bases, NEW v \in 1..MaxVersion, NEW q \in Procs,
               CreateChild(b, v, q)
        PROVE  Guarded'
    BY <1>3 DEF CreateChild
  <1>4. ASSUME InsertAndStart PROVE Guarded'
    BY <1>4 DEF InsertAndStart
  <1>5. ASSUME QuitStopped PROVE Guarded'
    BY <1>5 DEF QuitStopped, IInv, Protocol, StoppedMeansGone
  <1>6. ASSUME QuitRunning PROVE Guarded'
    <2>1. fault' \in {"none", "signal"}
      BY <1>6 DEF QuitRunning
    <2> QED
      BY <1>6, <2>1 DEF QuitRunning
  <1>7. ASSUME QuitTrapped PROVE Guarded'
    <2>1. /\ exitForced /\ UNCHANGED exitForced /\ at' = EXIT /\ idePc' = "wait"
          /\ UNCHANGED <<view, dbgState, outMsg, waiting, cpc>>
      BY <1>7 DEF QuitTrapped
    <2> QED
      BY <2>1
  <1>8. ASSUME HelpExit PROVE Guarded'
    <2>1. fault' \in {"none", "deadPort"}
      BY <1>8 DEF HelpExit
    <2> QED
      BY <1>8, <2>1 DEF HelpExit
  <1>9. ASSUME CtrlC PROVE Guarded'
    BY <1>9 DEF CtrlC
  <1> QED
    BY <1>1, <1>2, <1>3, <1>4, <1>5, <1>6, <1>7, <1>8, <1>9 DEF Editor, Quit

LEMMA MessageGuarded ==
  ASSUME IInv, Guarded, Defined, Handle \/ Prompt
  PROVE  Guarded'
  <1> USE DEF Guarded, Editing, EditorMeansStopped, ExitWaitsForChild, Forced, Unlinked,
              ListsBreakOnlyAfterExit, Defined, ChildExists,
              ideVars, bpVars, childVars, msgVars, outVars
  <1>1. ASSUME HandleHelp PROVE Guarded'
    BY <1>1 DEF HandleHelp
  <1>2. ASSUME HandleStart PROVE Guarded'
    <2>1. cpc = "gone" /\ idePc # "launch"
      BY <1>2, InLoopFacts DEF HandleStart, InLoop, IInv, Protocol, OneOwner
    <2> QED
      BY <1>2, <2>1 DEF HandleStart
  <1>3. ASSUME HandlePuts PROVE Guarded'
    <2>1. outMsg = "queued"
      BY <1>3, InLoopFacts DEF HandlePuts, InLoop, IInv, Protocol, OneOwner
    <2> QED
      BY <1>3, <2>1 DEF HandlePuts
  <1>4. ASSUME RestoreBreakpoints PROVE Guarded'
    BY <1>4 DEF RestoreBreakpoints
  <1>5. ASSUME HandleTrap PROVE Guarded'
    <2>1. cpc = "live" /\ idePc \in {"ui", "wait", "prompt"}
      BY <1>5, InLoopFacts DEF HandleTrap, InLoop, IInv, Protocol, OneOwner, Frozen
    <2>2. dbgState # "Stopped"
      BY <2>1 DEF IInv, Protocol, StoppedMeansGone
    <2> QED
      BY <1>5, <2>1, <2>2 DEF HandleTrap
  <1>6. ASSUME Prompt PROVE Guarded'
    <2>1. PICK c \in {"c", "s", "e"} : Command(c)
      BY <1>6 DEF Prompt, CmdExit, CmdContinue, CmdStep
    <2>2. /\ idePc = "prompt" /\ fault' = "none" /\ dbgState = "Trapped" /\ cpc = "live"
          /\ idePc' \in {"ui", "wait"} /\ UNCHANGED <<view, cpc, outMsg>>
      BY <2>1 DEF Command, ReplyTrap, IInv, Protocol, PromptOwnsTrap, OneOwner, Frozen
    <2>3. \/ dbgState' = "Trapped" /\ exitForced' /\ at' = EXIT
          \/ dbgState' \in {"Running", "Continuing"} /\ UNCHANGED <<exitForced, waiting>>
      BY <1>6, <2>2 DEF Prompt, CmdExit, CmdContinue, CmdStep
    <2> QED
      BY <2>2, <2>3
  <1> QED
    BY <1>1, <1>2, <1>3, <1>4, <1>5, <1>6 DEF Handle

LEMMA ChildGuarded == ASSUME IInv, Guarded, Defined, Child PROVE Guarded'
  <1> USE DEF Guarded, Editing, EditorMeansStopped, ExitWaitsForChild, Forced, Unlinked,
              ListsBreakOnlyAfterExit, Defined, ChildExists,
              ideVars, bpVars, childVars, msgVars, outVars
  <1>0. EXIT \notin Code /\ HANDLER \notin Code
    BY DEF EXIT, HANDLER, Code, CodeOf, StartsOf, Start, Lines, IInv, TypeOK, TypeProgram
  <1>1. ASSUME NEW n \in Targets, ExecPlain(n) PROVE Guarded'
    BY <1>0, <1>1 DEF ExecPlain, CanExec, InProgram, Running, GoTo
  <1>2. ASSUME NEW n \in Targets, ExecBreak(n) PROVE Guarded'
    BY <1>0, <1>2 DEF ExecBreak, InRest, CanExec, InProgram, Running, GoTo
  <1>3. ASSUME NEW n \in Targets, ExecSoftTrap(n) PROVE Guarded'
    BY <1>0, <1>3 DEF ExecSoftTrap, InRest, CanExec, InProgram, Running, GoTo
  <1>4. ASSUME NEW n \in Targets, ExecPuts(n) PROVE Guarded'
    <2>1. ~waiting /\ (at \in Code \/ n = HANDLER) /\ cpc = "live"
      BY <1>4 DEF ExecPuts, InRest, CanExec, InProgram, Running
    <2>2. CASE outMsg = "idle"
      BY <1>0, <1>4, <2>1, <2>2 DEF ExecPuts, GoTo
    <2>3. CASE outMsg # "idle"
      BY <1>4, <2>1, <2>3 DEF ExecPuts
    <2> QED
      BY <2>2, <2>3
  <1>5. ASSUME TakeReply PROVE Guarded'
    BY <1>5 DEF TakeReply, Running
  <1>6. ASSUME FetchTrap PROVE Guarded'
    BY <1>6 DEF FetchTrap
  <1>7. ASSUME EnterExit PROVE Guarded'
    BY <1>7 DEF EnterExit, Running
  <1>8. ASSUME FinishExit PROVE Guarded'
    BY <1>8 DEF FinishExit
  <1>9. ASSUME Unfreeze PROVE Guarded'
    BY <1>9 DEF Unfreeze
  <1>10. ASSUME TakeStartup PROVE Guarded'
    BY <1>10 DEF TakeStartup
  <1>11. ASSUME ExecForeign PROVE Guarded'
    BY <1>11 DEF ExecForeign
  <1> QED
    BY <1>1, <1>2, <1>3, <1>4, <1>5, <1>6, <1>7, <1>8, <1>9, <1>10, <1>11
    DEF Child, Targets

\* The IDE edits no line of a program that is debugged, does not end before it,
\* and links no message twice unless the user ended the program with e: the
\* guards of ide.c's key handling and of IDE_deinit against DEBUG_handleMessages.
THEOREM ProgramGuardedHolds == Spec => []ProgramGuarded
  <1>1. Init => Guarded
    BY DEF Init, Guarded, Editing, EditorMeansStopped, ExitWaitsForChild, ChildExists,
           ListsBreakOnlyAfterExit, Forced, Unlinked
  <1>2. IInv /\ Guarded /\ Next => Guarded'
    BY IdeGuarded, MessageGuarded, ChildGuarded DEF Next
  <1>3. Guarded /\ UNCHANGED vars => Guarded'
    BY DEF vars, ideVars, bpVars, childVars, msgVars, outVars, Guarded, Editing,
           EditorMeansStopped, ExitWaitsForChild, ChildExists,
           ListsBreakOnlyAfterExit, Forced, Unlinked
  <1>4. Guarded => ProgramGuarded
    BY DEF Guarded, Editing, ProgramGuarded
  <1> QED
    BY <1>1, <1>2, <1>3, <1>4, Inductive, PTL DEF Spec

-----------------------------------------------------------------------------
(* The refinement: every step is one of the session's or leaves it alone.    *)

SameSession == UNCHANGED <<Phase, printed, console>>
SessionStep == Session!SessionNext \/ SameSession

(* Whether the program is suspended, and where it is between Start and       *)
(* Notice, is told by four variables.                                        *)
LEMMA SamePhase ==
  ASSUME UNCHANGED <<dbgState, idePc, cpc, trapMsg>>
  PROVE  Phase' = Phase
  BY DEF Phase, Frozen

LEMMA AliveMeansLoaded ==
  ASSUME IInv, ChildExists
  PROVE  /\ ~(dbgState = "Stopped" /\ idePc # "launch")
         /\ Phase = IF Frozen THEN "suspended" ELSE "running"
  BY DEF IInv, Protocol, StoppedMeansGone, ChildExists, Phase

LEMMA IdeSession ==
  ASSUME IInv,
         \/ Editor \/ InsertAndStart \/ Quit \/ HandleHelp \/ HelpExit \/ CtrlC
  PROVE  SessionStep
  <1> USE DEF SessionStep, SameSession, ideVars, bpVars, childVars, msgVars, outVars
  <1>1. ASSUME NEW l \in Lines, ToggleBreakPoint(l) PROVE SessionStep
    BY <1>1, SamePhase DEF ToggleBreakPoint
  <1>2. ASSUME NEW q \in Procs, Help(q) PROVE SessionStep
    BY <1>2, SamePhase DEF Help
  <1>3. ASSUME NEW b \in Bases, NEW v \in 1..MaxVersion, NEW q \in Procs,
               CreateChild(b, v, q)
        PROVE  SessionStep
    <2>1. Phase = "idle" /\ Phase' = "running"
      BY <1>3 DEF CreateChild, InEditor, Phase, Frozen
    <2> QED
      BY <1>3, <2>1 DEF CreateChild, Session!SessionNext, Session!Start
  <1>4. ASSUME InsertAndStart PROVE SessionStep
    <2>1. ChildExists /\ ~Frozen
      BY <1>4 DEF IInv, Protocol, StoppedMeansGone, OneOwner, InsertAndStart, ChildExists
    <2>2. Phase = "running" /\ Phase' = "running"
      BY <1>4, <2>1 DEF InsertAndStart, Phase, ChildExists, Frozen
    <2> QED
      BY <1>4, <2>2 DEF InsertAndStart
  <1>5. ASSUME QuitStopped PROVE SessionStep
    BY <1>5 DEF QuitStopped, Phase
  <1>6. ASSUME QuitRunning PROVE SessionStep
    BY <1>6 DEF QuitRunning, Phase, Frozen
  <1>7. ASSUME QuitTrapped PROVE SessionStep
    <2>1. UNCHANGED trapMsg
      BY <1>7 DEF QuitTrapped, ReplyTrap, IInv, Protocol, PromptOwnsTrap
    <2> QED
      BY <1>7, <2>1 DEF QuitTrapped, Phase, Frozen
  <1>8. ASSUME HandleHelp \/ HelpExit \/ CtrlC PROVE SessionStep
    BY <1>8, SamePhase DEF HandleHelp, HelpExit, CtrlC
  <1> QED
    BY <1>1, <1>2, <1>3, <1>4, <1>5, <1>6, <1>7, <1>8 DEF Editor, Quit

LEMMA MessageSession ==
  ASSUME IInv, \/ HandleStart \/ HandlePuts \/ RestoreBreakpoints \/ HandleTrap \/ Prompt
  PROVE  SessionStep
  <1> USE DEF SessionStep, SameSession, ideVars, bpVars, childVars, outVars
  <1>1. ASSUME HandleStart PROVE SessionStep
    <2>1. startMsg = "replied" /\ cpc = "gone" /\ idePc # "launch"
      BY <1>1, InLoopFacts DEF HandleStart, InLoop, IInv, Protocol, OneOwner
    <2>2. Phase = "ended" /\ Phase' = "idle"
      BY <1>1, <2>1 DEF HandleStart, InLoop, IInv, Protocol, StoppedMeansGone, Phase
    <2> QED
      BY <1>1, <2>2 DEF HandleStart, Session!SessionNext, Session!Notice
  <1>2. ASSUME HandlePuts PROVE SessionStep
    <2>1. /\ outMsg = "queued" /\ cpc = "live" /\ Head(debugPort).out = printed
      BY <1>2, InLoopFacts DEF HandlePuts, InLoop, IInv, Protocol, OneOwner
    <2>2. printed > Len(console) /\ Phase \in {"running", "suspended"}
      BY <2>1, AliveMeansLoaded DEF IInv, TypeOK, TypeMessages, Protocol, OutputInOrder,
                                    ChildExists
    <2>3. Phase' = Phase
      BY <1>2, SamePhase DEF HandlePuts
    <2> QED
      BY <1>2, <2>1, <2>2, <2>3 DEF HandlePuts, Session!SessionNext, Session!Show
  <1>3. ASSUME RestoreBreakpoints \/ HandleTrap PROVE SessionStep
    <2>1. trapMsg = "queued" /\ cpc = "live" /\ idePc # "launch" /\ Frozen
      BY <1>3, InLoopFacts DEF RestoreBreakpoints, HandleTrap, InLoop, IInv, Protocol,
                               OneOwner, Frozen
    <2>2. Phase = "suspended"
      BY <2>1, AliveMeansLoaded DEF ChildExists
    <2>3. Phase' = "suspended"
      BY <1>3, <2>1 DEF RestoreBreakpoints, HandleTrap, Phase, Frozen
    <2> QED
      BY <1>3, <2>2, <2>3 DEF RestoreBreakpoints, HandleTrap
  <1>4. ASSUME Prompt PROVE SessionStep
    <2>1. PICK c \in {"c", "s", "e"} : Command(c)
      BY <1>4 DEF Prompt, CmdExit, CmdContinue, CmdStep
    <2>2. /\ idePc = "prompt" /\ trapMsg = "ide" /\ trapMsg' = "replied"
          /\ dbgState = "Trapped" /\ dbgState' # "Stopped" /\ cpc = "live"
      BY <1>4, <2>1 DEF Command, ReplyTrap, Prompt, CmdExit, CmdContinue, CmdStep,
                        IInv, Protocol, PromptOwnsTrap, OneOwner, Frozen
    <2>3. Phase' = Phase
      BY <2>1, <2>2 DEF Command, Phase, Frozen
    <2> QED
      BY <2>1, <2>3 DEF Command
  <1> QED
    BY <1>1, <1>2, <1>3, <1>4

LEMMA ChildSession == ASSUME IInv, Child PROVE SessionStep
  <1> USE DEF SessionStep, SameSession, ideVars, bpVars, childVars, outVars
  <1>1. ASSUME Running, UNCHANGED <<dbgState, idePc, cpc, printed, console>>,
               trapMsg' \in {trapMsg, "queued"}
        PROVE  SessionStep
    <2>1. Phase = "running" /\ Phase' \in {"running", "suspended"}
      BY <1>1, AliveMeansLoaded DEF Running, ChildExists, Phase, Frozen
    <2> QED
      BY <1>1, <2>1 DEF Session!SessionNext, Session!Suspend
  <1>2. ASSUME NEW n \in Targets, ExecPlain(n) PROVE SessionStep
    BY <1>1, <1>2 DEF ExecPlain, CanExec, InProgram, GoTo, EndOfInstr, Trap
  <1>3. ASSUME NEW n \in Targets, ExecBreak(n) PROVE SessionStep
    BY <1>1, <1>3 DEF ExecBreak, InRest, CanExec, InProgram, GoTo, EndOfInstr, Trap
  <1>4. ASSUME NEW n \in Targets, ExecSoftTrap(n) PROVE SessionStep
    BY <1>1, <1>4 DEF ExecSoftTrap, InRest, CanExec, InProgram, GoTo, Trap
  <1>5. ASSUME TakeReply PROVE SessionStep
    BY <1>1, <1>5 DEF TakeReply, EndOfInstr, Trap
  <1>6. ASSUME FetchTrap PROVE SessionStep
    BY <1>1, <1>6 DEF FetchTrap, InProgram, Trap
  <1>7. ASSUME EnterExit PROVE SessionStep
    BY <1>1, <1>7 DEF EnterExit, EndOfInstr, Trap
  <1>8. ASSUME NEW n \in Targets, ExecPuts(n) PROVE SessionStep
    <2>1. CASE outMsg # "idle"
      BY <1>8, <2>1, SamePhase DEF ExecPuts, msgVars
    <2>2. CASE outMsg = "idle"
      <3>1. /\ Running /\ printed' = printed + 1 /\ trapMsg' \in {trapMsg, "queued"}
            /\ UNCHANGED <<dbgState, idePc, cpc, console>>
        BY <1>8, <2>2 DEF ExecPuts, InRest, CanExec, InProgram, GoTo, EndOfInstr, Trap
      <3>2. Phase = "running" /\ Phase' \in {"running", "suspended"}
        BY <3>1, AliveMeansLoaded DEF Running, ChildExists, Phase, Frozen
      <3>3. printed = Len(console)
        BY <2>2 DEF IInv, Protocol, OutputInOrder
      <3> QED
        BY <3>1, <3>2, <3>3 DEF Session!SessionNext, Session!Output
    <2> QED
      BY <2>1, <2>2
  <1>9. ASSUME FinishExit PROVE SessionStep
    <2>1. Phase = "running" /\ Phase' = "ended"
      BY <1>9, AliveMeansLoaded DEF FinishExit, Running, ChildExists, Phase
    <2>2. printed = Len(console)
      BY <1>9 DEF FinishExit, IInv, Protocol, OneOwner, OutputInOrder
    <2> QED
      BY <1>9, <2>1, <2>2 DEF FinishExit, Session!SessionNext, Session!End
  <1>10. ASSUME TakeStartup PROVE SessionStep
    <2>1. Phase = "running" /\ Phase' = "running"
      BY <1>10, AliveMeansLoaded DEF TakeStartup, ChildExists, Phase, Frozen,
                                     IInv, Protocol, OneOwner
    <2> QED
      BY <1>10, <2>1 DEF TakeStartup
  <1>11. ASSUME Unfreeze PROVE SessionStep
    <2>1. Phase = "suspended" /\ Phase' = "running"
      BY <1>11, AliveMeansLoaded DEF Unfreeze, ChildExists, Phase, Frozen,
                                     IInv, Protocol, OneOwner
    <2> QED
      BY <1>11, <2>1 DEF Unfreeze, Session!SessionNext, Session!Resume
  <1>12. ASSUME ExecForeign PROVE SessionStep
    BY <1>12, SamePhase DEF ExecForeign, msgVars
  <1> QED
    BY <1>2, <1>3, <1>4, <1>5, <1>6, <1>7, <1>8, <1>9, <1>10, <1>11, <1>12
    DEF Child, Targets

\* The IDE, its message port and the program's runtime together implement the
\* session a user sees: one program at a time, suspended and resumed, everything
\* it prints shown in order before it is over.
THEOREM SessionHolds == Spec => SessionImplemented
  <1>1. Init => Session!SessionInit
    BY DEF Init, Phase, Session!SessionInit
  <1>2. IInv /\ [Next]_vars => [Session!SessionNext]_(Session!sessionVars)
    <2>1. ASSUME IInv, Next PROVE SessionStep
      BY <2>1, IdeSession, MessageSession, ChildSession DEF Next, Handle
    <2>2. ASSUME UNCHANGED vars PROVE SameSession
      BY <2>2, SamePhase DEF SameSession, vars, ideVars, childVars, msgVars, outVars
    <2> QED
      BY <2>1, <2>2 DEF SessionStep, SameSession, Session!sessionVars
  <1> QED
    BY <1>1, <1>2, Inductive, PTL DEF Spec, SessionImplemented, Session!SessionSpec
=============================================================================
