---------------------------- MODULE EventsProofs ----------------------------
(***************************************************************************)
(* The event loop loses no tick, no click and no key, for every number of  *)
(* timers, windows and signal bits, every size of the key buffer and every *)
(* depth of SUBs that sleep in SUBs.                                       *)
(***************************************************************************)
EXTENDS Events, SequenceTheorems, TLAPS

USE EventsAssumption DEF EventsAssumption

(* An activation has come to a timer or a window there is.                 *)
Placed(act) ==
  /\ act.pc = "timers" => act.i \in Nat \ {0}
  /\ act.pc = "rearm" => act.i \in Timers
  /\ act.pc \in {"messages", "reply"} => act.i \in Windows
ActivationsPlaced == \A d \in 1..Len(stack) : Placed(stack[d])

TimersKept ==
  \A t \in Timers : IF timerport[t] = Closed THEN sent[t] = 0 ELSE t \in cb /\ timerport[t] \in tmask
WindowsKept ==
  \A w \in Windows : IF win[w] = Closed THEN port[w] = <<>> ELSE win[w] \in wmask

(* No two ports that exist own the same signal bit.                        *)
BitsApart ==
  /\ \A t, u \in Timers : timerport[t] = timerport[u] => t = u \/ timerport[t] = Closed
  /\ \A v, w \in Windows : win[v] = win[w] => v = w \/ win[v] = Closed
  /\ \A t \in Timers, w \in Windows : timerport[t] = win[w] => win[w] = Closed

(* The messages at a port are younger than what was read, oldest first.    *)
PortsInOrder ==
  \A w \in Windows :
    /\ lastRead[w] <= events
    /\ \A j \in 1..Len(port[w]) :
         /\ lastRead[w] < port[w][j].key /\ port[w][j].key <= events
         /\ \A i \in 1..j-1 : port[w][i].key < port[w][j].key

KeysPast == \A n \in 1..keybufLen : Buffered[n].key <= events
InOrder == PortsInOrder /\ KeysInOrder /\ KeysPast

Basics == TypeOK /\ ActivationsPlaced /\ TimersKept /\ WindowsKept
-----------------------------------------------------------------------------
(* The constants and the sets.                                             *)

LEMMA ClosedNoBit == Closed \notin Bits
  BY DEF Closed

LEMMA AllocatedBit ==
  ASSUME NEW b \in AllocSignal
  PROVE  /\ b \in Bits /\ b # Closed
         /\ \A t \in Timers : timerport[t] # b
         /\ \A w \in Windows : win[w] # b
  BY ClosedNoBit DEF AllocSignal, FreeBits, UsedBits

PCs == {"program", "wait", "timers", "rearm", "messages", "reply"}
LEMMA NewActivation ==
  /\ Program \in Activation /\ Program.pc = "program"
  /\ \A signals \in SUBSET Bits :
       LET act == Timing(signals) IN
         act \in Activation /\ act.pc = "timers" /\ act.i = 1 /\ act.signals = signals
  BY DEF Activation, Program, Timing

(* Places in the key buffer wrap round.                                    *)
LEMMA Wraps ==
  ASSUME NEW n \in 0..2 * MAXKEYBUF - 1
  PROVE  /\ n % MAXKEYBUF = IF n < MAXKEYBUF THEN n ELSE n - MAXKEYBUF
         /\ n % MAXKEYBUF \in 0..MAXKEYBUF-1
  <1>1. CASE n < MAXKEYBUF
    BY <1>1
  <1>2. CASE n >= MAXKEYBUF
    BY <1>2
  <1> QED
    BY <1>1, <1>2

(* What the loop does to the stack: another activation on top, one more    *)
(* above it, or one less.                                                  *)
Replaced(act) ==
  /\ Len(stack') = Len(stack) /\ stack'[Len(stack)] = act
  /\ \A d \in 1..Len(stack) - 1 : stack'[d] = stack[d]
Called(act) ==
  /\ Len(stack') = Len(stack) + 1
  /\ stack'[Len(stack)] = act /\ stack'[Len(stack) + 1] = Program
  /\ \A d \in 1..Len(stack) - 1 : stack'[d] = stack[d]
Entered(act) ==
  /\ Len(stack') = Len(stack) + 1 /\ stack'[Len(stack) + 1] = act
  /\ \A d \in 1..Len(stack) : stack'[d] = stack[d]
Returned ==
  /\ Len(stack') = Len(stack) - 1
  /\ \A d \in 1..Len(stack) - 1 : stack'[d] = stack[d]

LEMMA GotoStack ==
  ASSUME stack \in Seq(Activation), stack # <<>>, NEW act \in Activation, Goto(act)
  PROVE  stack' \in Seq(Activation) /\ Replaced(act)
  BY DEF Goto, Depth, Replaced

LEMMA CallStack ==
  ASSUME stack \in Seq(Activation), stack # <<>>, NEW act \in Activation, Call(act)
  PROVE  stack' \in Seq(Activation) /\ Called(act)
  <1> DEFINE s == [stack EXCEPT ![Depth] = act]
  <1>1. /\ s \in Seq(Activation) /\ Len(s) = Len(stack) /\ s[Len(stack)] = act
        /\ \A d \in 1..Len(stack) - 1 : s[d] = stack[d]
    BY DEF Depth
  <1>2. stack' = Append(s, Program)
    BY DEF Call
  <1> HIDE DEF s
  <1>3. Program \in Activation
    BY NewActivation
  <1> QED
    BY <1>1, <1>2, <1>3, AppendProperties DEF Called

LEMMA EnterStack ==
  ASSUME stack \in Seq(Activation), NEW act \in Activation, Enter(act)
  PROVE  stack' \in Seq(Activation) /\ Entered(act)
  BY DEF Enter, Entered

LEMMA ReturnStack ==
  ASSUME stack \in Seq(Activation), stack # <<>>, Return
  PROVE  stack' \in Seq(Activation) /\ Returned
  <1> DEFINE n == Len(stack) - 1
  <1>1. n \in Nat /\ \A i \in 1..n : stack[i] \in Activation
    OBVIOUS
  <1>2. stack' = SubSeq(stack, 1, n)
    BY DEF Return, Front
  <1> HIDE DEF n
  <1>3. /\ SubSeq(stack, 1, n) \in Seq(Activation)
        /\ Len(SubSeq(stack, 1, n)) = IF 1 <= n THEN n - 1 + 1 ELSE 0
        /\ \A i \in 1..n - 1 + 1 : SubSeq(stack, 1, n)[i] = stack[1 + i - 1]
    BY <1>1, SubSeqProperties
  <1>4. Len(stack') = n /\ \A i \in 1..n : stack'[i] = stack[i]
    BY <1>1, <1>2, <1>3
  <1> QED
    BY <1>2, <1>3, <1>4 DEF n, Returned

(* The activation that runs.                                               *)
LEMMA TopPlaced ==
  ASSUME Basics, NEW pc, At(pc)
  PROVE  /\ stack \in Seq(Activation) /\ stack # <<>> /\ Len(stack) \in Nat \ {0}
         /\ Top \in Activation /\ Top.pc = pc /\ Placed(Top) /\ Top = stack[Len(stack)]
  BY SMTT(30) DEF Basics, TypeOK, ActivationsPlaced, At, Top, Depth
-----------------------------------------------------------------------------
(* Types, and where each activation is.  The steps of the devices and the  *)
(* statements leave the stack alone; the loop's change little else.        *)

StackOK == stack \in Seq(Activation) /\ ActivationsPlaced
RestOK ==
  /\ cb \subseteq Timers
  /\ timerport \in [Timers -> Bits \cup {Closed}]
  /\ sent \in [Timers -> Nat]
  /\ win \in [Windows -> Bits \cup {Closed}]
  /\ closeCb \subseteq Windows
  /\ port \in [Windows -> Seq(Messages)]
  /\ {received, tmask, wmask} \subseteq SUBSET Bits
  /\ keybuf \in [0..MAXKEYBUF-1 -> Characters]
  /\ {keybufStart, keybufEnd} \subseteq 0..MAXKEYBUF-1 /\ keybufLen \in 0..MAXKEYBUF
  /\ lastRead \in [Windows -> -1..MaxEvents]
  /\ statements \in 0..MaxStatements /\ events \in 0..MaxEvents /\ clicks \in 0..MaxClicks

LEMMA TypeParts == TypeOK <=> RestOK /\ stack \in Seq(Activation)
  BY DEF TypeOK, RestOK

LEMMA ExecutesTypes ==
  ASSUME RestOK, NEW op, Executes(op)
  PROVE  statements' \in 0..MaxStatements
  BY DEF RestOK, Executes

LEMMA TimerOffTypes ==
  ASSUME Basics, NEW t \in Timers, TimerOff(t)
  PROVE  /\ timerport' \in [Timers -> Bits \cup {Closed}]
         /\ sent' \in [Timers -> Nat] /\ received' \subseteq Bits
         /\ timerport'[t] = Closed /\ sent'[t] = 0
         /\ \A u \in Timers : u # t => timerport'[u] = timerport[u] /\ sent'[u] = sent[u]
         /\ received \subseteq received'
         /\ \A b \in received' : b \in received \/ (b = timerport[t] /\ b # Closed)
  <1>1. sent[t] > 0 => timerport[t] # Closed
    BY DEF Basics, TimersKept
  <1> QED
    BY <1>1 DEF Basics, TypeOK, TimerOff

LEMMA StatementTypes ==
  ASSUME Basics, Statement
  PROVE  RestOK' /\ TimersKept' /\ WindowsKept'
  <1>0. RestOK /\ TimersKept /\ WindowsKept
    BY TypeParts DEF Basics
  <1>1. ASSUME NEW t \in Timers, TIMER_OFF(t)
        PROVE  RestOK' /\ TimersKept' /\ WindowsKept'
    BY <1>0, <1>1, TimerOffTypes, ExecutesTypes
       DEF TIMER_OFF, RestOK, TimersKept, WindowsKept, windowVars, keyVars, user
  <1>2. ASSUME NEW t \in Timers, ON_TIMER_CALL(t)
        PROVE  RestOK' /\ TimersKept' /\ WindowsKept'
    BY <1>0, <1>2, TimerOffTypes, ExecutesTypes
       DEF ON_TIMER_CALL, RestOK, TimersKept, WindowsKept, windowVars, keyVars, user
  <1>3. ASSUME NEW t \in Timers, TIMER_ON(t)
        PROVE  RestOK' /\ TimersKept' /\ WindowsKept'
    <2>1. CASE timerport[t] # Closed
      BY <1>0, <1>3, <2>1, ExecutesTypes
         DEF TIMER_ON, RestOK, TimersKept, WindowsKept, windowVars, keyVars, user
    <2>2. CASE timerport[t] = Closed
      <3>1. PICK b \in AllocSignal :
              /\ timerport' = [timerport EXCEPT ![t] = b] /\ sent' = [sent EXCEPT ![t] = 1]
              /\ tmask' = tmask \cup {b} /\ received' = received \ {b}
        BY <1>3, <2>2 DEF TIMER_ON
      <3>2. b \in Bits /\ b # Closed /\ t \in cb
        BY <1>3, AllocatedBit DEF TIMER_ON
      <3>3. statements' \in 0..MaxStatements
        BY <1>0, <1>3, ExecutesTypes DEF TIMER_ON
      <3>4. UNCHANGED <<cb, windowVars, stack, keyVars, user>>
        BY <1>3 DEF TIMER_ON
      <3>5. RestOK'
        BY <1>0, <3>1, <3>2, <3>3, <3>4 DEF RestOK, windowVars, keyVars, user
      <3>6. TimersKept'
        BY <1>0, <3>1, <3>2, <3>4 DEF RestOK, TimersKept
      <3>7. WindowsKept'
        BY <1>0, <3>4 DEF WindowsKept, windowVars
      <3> QED
        BY <3>5, <3>6, <3>7
    <2> QED
      BY <2>1, <2>2
  <1>4. ASSUME NEW w \in Windows, WINDOW(w)
        PROVE  RestOK' /\ TimersKept' /\ WindowsKept'
    <2>1. PICK b \in AllocSignal :
            win' = [win EXCEPT ![w] = b] /\ wmask' = wmask \cup {b} /\ received' = received \ {b}
      BY <1>4 DEF WINDOW
    <2>2. b \in Bits /\ b # Closed /\ win[w] = Closed
      BY <1>4, AllocatedBit DEF WINDOW
    <2>3. statements' \in 0..MaxStatements
      BY <1>0, <1>4, ExecutesTypes DEF WINDOW, RestOK
    <2>4. UNCHANGED <<timerVars, closeCb, port, stack, keyVars, user>>
      BY <1>4 DEF WINDOW
    <2>5. RestOK'
      BY <1>0, <2>1, <2>2, <2>3, <2>4 DEF RestOK, timerVars, keyVars, user
    <2>6. TimersKept'
      BY <1>0, <2>4 DEF TimersKept, timerVars
    <2>7. WindowsKept'
      BY <1>0, <2>1, <2>2, <2>4 DEF RestOK, WindowsKept
    <2> QED
      BY <2>5, <2>6, <2>7
  <1>5. ASSUME NEW w \in Windows, WINDOW_CLOSE(w) \/ ON_WINDOW_CLOSE_CALL(w)
        PROVE  RestOK' /\ TimersKept' /\ WindowsKept'
    <2>1. CASE WINDOW_CLOSE(w)
      <3>1. WindowsKept'
        BY <1>0, <2>1 DEF WINDOW_CLOSE, RestOK, WindowsKept
      <3>2. statements' \in 0..MaxStatements
        BY <1>0, <2>1, ExecutesTypes DEF WINDOW_CLOSE
      <3>3. <<>> \in Seq(Messages)
        OBVIOUS
      <3> QED
        BY <1>0, <2>1, <3>1, <3>2, <3>3 DEF WINDOW_CLOSE, RestOK, TimersKept, timerVars, keyVars, user
    <2>2. CASE ON_WINDOW_CLOSE_CALL(w)
      BY <1>0, <2>2, ExecutesTypes
         DEF ON_WINDOW_CLOSE_CALL, RestOK, TimersKept, WindowsKept, timerVars, keyVars, user
    <2> QED
      BY <1>5, <2>1, <2>2
  <1>6. ASSUME VWAIT
        PROVE  RestOK' /\ TimersKept' /\ WindowsKept'
    BY <1>0, <1>6, ExecutesTypes DEF VWAIT, RestOK, TimersKept, WindowsKept, timerVars, windowVars, keyVars, user
  <1>7. ASSUME INKEY
        PROVE  RestOK' /\ TimersKept' /\ WindowsKept'
    <2>1. keybuf[keybufStart] \in Characters
      BY <1>0 DEF RestOK
    <2>2. lastRead' \in [Windows -> -1..MaxEvents]
      <3> DEFINE c == keybuf[keybufStart]
      <3>1. c.window \in Windows /\ c.key \in -1..MaxEvents
        BY <2>1 DEF Characters, Keys
      <3>2. lastRead' = [lastRead EXCEPT ![c.window] = c.key]
        BY <1>7 DEF INKEY
      <3>3. lastRead \in [Windows -> -1..MaxEvents]
        BY <1>0 DEF RestOK
      <3> HIDE DEF c
      <3> QED
        BY <3>1, <3>2, <3>3
    <2>3. keybufStart' \in 0..MAXKEYBUF-1 /\ keybufLen' \in 0..MAXKEYBUF
      <3>1. keybufStart \in 0..MAXKEYBUF-1 /\ keybufLen \in 0..MAXKEYBUF
        BY <1>0 DEF RestOK
      <3>2. keybufStart' = (keybufStart + 1) % MAXKEYBUF /\ keybufLen > 0 /\ keybufLen' = keybufLen - 1
        BY <1>7 DEF INKEY
      <3>3. PICK n \in 0..2 * MAXKEYBUF - 1 : n = keybufStart + 1
        BY <3>1
      <3>4. n % MAXKEYBUF \in 0..MAXKEYBUF-1
        BY Wraps
      <3> QED
        BY <3>1, <3>2, <3>3, <3>4
    <2> QED
      BY <1>0, <1>7, <2>2, <2>3
         DEF INKEY, RestOK, TimersKept, WindowsKept, timerVars, windowVars, user
  <1>8. ASSUME SYSTEM
        PROVE  RestOK' /\ TimersKept' /\ WindowsKept'
    BY SMTT(30), <1>0, <1>8 DEF SYSTEM, RestOK, TimersKept, WindowsKept, keyVars, user
  <1> QED
    BY <1>1, <1>2, <1>3, <1>4, <1>5, <1>6, <1>7, <1>8 DEF Statement

LEMMA DeviceTypes ==
  ASSUME Basics, Devices
  PROVE  RestOK' /\ TimersKept' /\ WindowsKept'
  <1>0. RestOK /\ TimersKept /\ WindowsKept
    BY TypeParts DEF Basics
  <1>1. ASSUME NEW t \in Timers, Elapse(t)
        PROVE  RestOK' /\ TimersKept' /\ WindowsKept'
    <2>1. timerport[t] \in Bits /\ timerport[t] # Closed /\ sent[t] - 1 \in Nat
      BY SMTT(30), <1>0, <1>1 DEF Elapse, RestOK, TimersKept
    <2>2. /\ sent' \in [Timers -> Nat] /\ received' \subseteq Bits
      BY <1>0, <1>1, <2>1 DEF Elapse, RestOK
    <2>3. TimersKept'
      BY <1>0, <1>1, <2>1 DEF Elapse, RestOK, TimersKept
    <2> QED
      BY <1>0, <1>1, <2>2, <2>3 DEF Elapse, RestOK, WindowsKept, windowVars, keyVars, user
  <1>2. ASSUME NEW w \in Windows, NEW class \in {"CLOSEWINDOW", "RAWKEY"}, UserEvent(w, class)
        PROVE  RestOK' /\ TimersKept' /\ WindowsKept'
    <2> DEFINE msg == [class |-> class, key |-> events + 1]
    <2>1. msg \in Messages /\ events' \in 0..MaxEvents
      BY SMTT(30), <1>0, <1>2 DEF UserEvent, RestOK, Messages, Keys
    <2>2. port' = [port EXCEPT ![w] = Append(@, msg)]
      BY <1>2 DEF UserEvent
    <2>3. clicks' \in 0..MaxClicks
      BY SMTT(30), <1>0, <1>2 DEF UserEvent, RestOK
    <2> HIDE DEF msg
    <2>4. port' \in [Windows -> Seq(Messages)]
      BY <1>0, <2>1, <2>2 DEF RestOK
    <2>5. win[w] \in Bits
      BY <1>0, <1>2 DEF UserEvent, RestOK
    <2>6. WindowsKept'
      BY <1>0, <1>2, <2>2 DEF UserEvent, RestOK, WindowsKept
    <2> QED
      BY <1>0, <1>2, <2>1, <2>3, <2>4, <2>5, <2>6
         DEF UserEvent, RestOK, TimersKept, timerVars, keyVars
  <1> QED
    BY <1>1, <1>2 DEF Devices

LEMMA StoreKeyTypes ==
  ASSUME RestOK, NEW w \in Windows, NEW k \in Keys, StoreKey(w, k)
  PROVE  /\ keybuf' \in [0..MAXKEYBUF-1 -> Characters]
         /\ {keybufStart', keybufEnd'} \subseteq 0..MAXKEYBUF-1 /\ keybufLen' \in 0..MAXKEYBUF
         /\ lastRead' = lastRead
  <1>1. [window |-> w, key |-> k] \in Characters
    BY DEF Characters
  <1>2. CASE keybufLen < MAXKEYBUF
    <2>1. keybufEnd \in 0..MAXKEYBUF-1 /\ keybufLen \in 0..MAXKEYBUF
      BY DEF RestOK
    <2>2. (keybufEnd + 1) % MAXKEYBUF \in 0..MAXKEYBUF-1
      <3>1. keybufEnd + 1 \in 0..2 * MAXKEYBUF - 1
        BY <2>1
      <3> QED
        BY <3>1, Wraps
    <2> QED
      <3>1. /\ keybuf' = [keybuf EXCEPT ![keybufEnd] = [window |-> w, key |-> k]]
            /\ keybufEnd' = (keybufEnd + 1) % MAXKEYBUF /\ keybufLen' = keybufLen + 1
            /\ UNCHANGED <<keybufStart, lastRead>>
        BY <1>2 DEF StoreKey
      <3>2. keybuf' \in [0..MAXKEYBUF-1 -> Characters]
        BY <1>1, <2>1, <3>1 DEF RestOK
      <3>3. keybufLen' \in 0..MAXKEYBUF
        BY <1>2, <2>1, <3>1
      <3> QED
        BY <2>2, <3>1, <3>2, <3>3 DEF RestOK
  <1>3. CASE ~(keybufLen < MAXKEYBUF)
    BY <1>3 DEF RestOK, StoreKey, keyVars
  <1> QED
    BY <1>2, <1>3

LEMMA LoopTypes ==
  ASSUME Basics, Loop
  PROVE  RestOK' /\ TimersKept' /\ WindowsKept'
  <1>0. RestOK /\ TimersKept /\ WindowsKept
    BY TypeParts DEF Basics
  <1>1. ASSUME SLEEP
        PROVE  RestOK' /\ TimersKept' /\ WindowsKept'
    BY <1>0, <1>1, ExecutesTypes DEF SLEEP, RestOK, TimersKept, WindowsKept, timerVars, windowVars, keyVars, user
  <1>2. ASSUME Wake
        PROVE  RestOK' /\ TimersKept' /\ WindowsKept'
    BY <1>0, <1>2 DEF Wake, RestOK, TimersKept, WindowsKept, timerVars, windowVars, keyVars, user
  <1>3. ASSUME CallTimer \/ TimersDone \/ Reply \/ MessagesDone \/ EndSub
        PROVE  RestOK' /\ TimersKept' /\ WindowsKept'
    <2>1. UNCHANGED <<timerVars, windowVars, received, keyVars, statements, user>>
      BY <1>3 DEF CallTimer, TimersDone, Reply, MessagesDone, EndSub
    <2> QED
      BY <1>0, <2>1 DEF RestOK, TimersKept, WindowsKept, timerVars, windowVars, keyVars, user
  <1>4. ASSUME Rearm
        PROVE  RestOK' /\ TimersKept' /\ WindowsKept'
    <2>1. Top.i \in Timers
      BY <1>4, TopPlaced DEF Rearm, Placed
    <2>2. sent' \in [Timers -> Nat]
      <3> DEFINE t == Top.i
      <3>1. sent \in [Timers -> Nat] /\ t \in Timers
        BY <1>0, <2>1 DEF RestOK
      <3>2. \/ sent' = [sent EXCEPT ![t] = @ + 1]
            \/ sent' = [sent EXCEPT ![t] = @]
        BY <1>4 DEF Rearm
      <3> HIDE DEF t
      <3> QED
        BY <3>1, <3>2
    <2>3. TimersKept'
      BY <1>0, <1>4, <2>1 DEF Rearm, RestOK, TimersKept
    <2> QED
      BY <1>0, <1>4, <2>2, <2>3 DEF Rearm, RestOK, WindowsKept, windowVars, keyVars, user
  <1>5. ASSUME TakeMessage
        PROVE  RestOK' /\ TimersKept' /\ WindowsKept'
    <2>1. PICK w \in Windows : w = Top.i
      BY <1>5, TopPlaced DEF TakeMessage, Placed
    <2>2. port[w] \in Seq(Messages) /\ port[w] # <<>> /\ port' = [port EXCEPT ![w] = Tail(@)]
      BY <1>0, <1>5, <2>1 DEF TakeMessage, RestOK
    <2>3. Tail(port[w]) \in Seq(Messages) /\ Head(port[w]) \in Messages
      BY <2>2
    <2>4. StoreKey(w, Head(port[w]).key) \/ UNCHANGED keyVars
      BY <1>5, <2>1 DEF TakeMessage
    <2>5. Head(port[w]).key \in Keys
      BY <2>3 DEF Messages
    <2>6. /\ keybuf' \in [0..MAXKEYBUF-1 -> Characters]
          /\ {keybufStart', keybufEnd'} \subseteq 0..MAXKEYBUF-1 /\ keybufLen' \in 0..MAXKEYBUF
          /\ lastRead' = lastRead
      BY <1>0, <2>4, <2>5, StoreKeyTypes DEF RestOK, keyVars
    <2>7. port' \in [Windows -> Seq(Messages)]
      BY <1>0, <2>2, <2>3 DEF RestOK
    <2>8. UNCHANGED <<timerVars, win, closeCb, wmask, received, statements, user>>
      BY <1>5 DEF TakeMessage
    <2>9. win[w] # Closed
      BY <1>0, <2>2 DEF WindowsKept
    <2>10. WindowsKept'
      BY <1>0, <2>2, <2>8, <2>9 DEF WindowsKept, RestOK
    <2> QED
      BY <1>0, <2>6, <2>7, <2>8, <2>10 DEF RestOK, TimersKept, timerVars, user
  <1> QED
    BY <1>1, <1>2, <1>3, <1>4, <1>5 DEF Loop

(* Where the loop goes on with the windows.                                *)
LEMMA TopMoves ==
  ASSUME Basics, NEW at, At(at), NEW pc \in PCs, NEW i \in Nat
  PROVE  /\ [Top EXCEPT !.pc = pc, !.i = i] \in Activation
         /\ [Top EXCEPT !.pc = pc, !.i = i].pc = pc
         /\ [Top EXCEPT !.pc = pc, !.i = i].i = i
         /\ [Top EXCEPT !.pc = pc, !.i = i].signals = Top.signals
  <1>1. PICK act \in Activation : act = Top
    BY TopPlaced
  <1> QED
    BY <1>1 DEF Activation, PCs

LEMMA TopHandles ==
  ASSUME Basics, NEW at, At(at), NEW pc \in PCs, NEW msg \in Messages \cup {NoMessage}
  PROVE  /\ [Top EXCEPT !.pc = pc, !.msg = msg] \in Activation
         /\ [Top EXCEPT !.pc = pc, !.msg = msg].pc = pc
         /\ [Top EXCEPT !.pc = pc, !.msg = msg].i = Top.i
         /\ [Top EXCEPT !.pc = pc, !.msg = msg].signals = Top.signals
  <1>1. PICK act \in Activation : act = Top
    BY TopPlaced
  <1> QED
    BY <1>1 DEF Activation, PCs

LEMMA WindowsFromStack ==
  ASSUME Basics, NEW pc \in {"timers", "messages"}, At(pc), NEW w \in Nat \ {0}, WindowsFrom(w)
  PROVE  \/ \E v \in Windows :
               /\ v >= w /\ Signalled(v, Top.signals)
               /\ \A u \in w..v-1 : ~Signalled(u, Top.signals)
               /\ Goto([Top EXCEPT !.pc = "messages", !.i = v])
         \/ /\ \A u \in w..NumWindows : ~Signalled(u, Top.signals)
            /\ Return
  <1>1. \A v \in w..NumWindows : v \in Windows /\ v >= w
    BY DEF Windows
  <1>2. CASE \E v \in w..NumWindows : Signalled(v, Top.signals)
    BY <1>1, <1>2, Zenon DEF WindowsFrom
  <1>3. CASE ~\E v \in w..NumWindows : Signalled(v, Top.signals)
    BY <1>3, Zenon DEF WindowsFrom
  <1> QED
    BY <1>2, <1>3

(* The stack after each step of the loop.                                  *)
Becomes(act, pc, i, signals) ==
  act \in Activation /\ act.pc = pc /\ act.i = i /\ act.signals = signals

LEMMA WaitStack ==
  ASSUME Basics, SLEEP
  PROVE  stack' \in Seq(Activation) /\ \E act \in Activation : Entered(act) /\ act.pc = "wait"
  <1> DEFINE act == [Program EXCEPT !.pc = "wait"]
  <1>1. act \in Activation /\ act.pc = "wait"
    BY DEF Program, Activation
  <1>2. Enter(act) /\ stack \in Seq(Activation)
    BY DEF SLEEP, Basics, TypeOK
  <1> HIDE DEF act
  <1> QED
    BY <1>1, <1>2, EnterStack

LEMMA TakeSignalsStack ==
  ASSUME Basics, VWAIT
  PROVE  stack' \in Seq(Activation) /\ \E act : Entered(act) /\ Becomes(act, "timers", 1, received)
  <1> DEFINE act == Timing(received)
  <1>1. Becomes(act, "timers", 1, received)
    <2>1. received \in SUBSET Bits
      BY DEF Basics, TypeOK
    <2> QED
      BY <2>1, NewActivation DEF Becomes
  <1>2. Enter(act) /\ stack \in Seq(Activation)
    BY DEF VWAIT, Basics, TypeOK
  <1> HIDE DEF act
  <1> QED
    BY <1>1, <1>2, EnterStack DEF Becomes

LEMMA WakeStack ==
  ASSUME Basics, Wake
  PROVE  stack' \in Seq(Activation) /\ \E act : Replaced(act) /\ Becomes(act, "timers", 1, received \cap Masks)
  <1> DEFINE act == Timing(received \cap Masks)
  <1>1. Becomes(act, "timers", 1, received \cap Masks)
    <2>1. received \cap Masks \in SUBSET Bits
      BY DEF Basics, TypeOK
    <2> QED
      BY <2>1, NewActivation DEF Becomes
  <1>2. Goto(act) /\ stack \in Seq(Activation) /\ stack # <<>>
    BY DEF Wake, At, Basics, TypeOK
  <1> HIDE DEF act
  <1> QED
    BY <1>1, <1>2, GotoStack DEF Becomes

LEMMA CallTimerStack ==
  ASSUME Basics, CallTimer
  PROVE  /\ stack' \in Seq(Activation)
         /\ \E t \in Timers : \E act :
              /\ Called(act) /\ Becomes(act, "rearm", t, Top.signals)
              /\ t >= Top.i /\ Due(t, Top.signals)
              /\ \A u \in Top.i..t-1 : ~Due(u, Top.signals)
  <1>1. PICK t \in Top.i..NumTimers :
          /\ Due(t, Top.signals)
          /\ \A u \in Top.i..t-1 : ~Due(u, Top.signals)
          /\ Call([Top EXCEPT !.pc = "rearm", !.i = t])
    BY DEF CallTimer
  <1>2. At("timers") /\ stack \in Seq(Activation) /\ stack # <<>> /\ "rearm" \in PCs
    BY DEF CallTimer, At, Basics, TypeOK, PCs
  <1>3. t \in Timers /\ t >= Top.i /\ t \in Nat
    BY <1>2, TopPlaced DEF Timers, Placed
  <1> DEFINE act == [Top EXCEPT !.pc = "rearm", !.i = t]
  <1>4. Becomes(act, "rearm", t, Top.signals)
    BY <1>2, <1>3, TopMoves DEF Becomes
  <1>5. Call(act)
    BY <1>1
  <1> HIDE DEF act
  <1>6. stack' \in Seq(Activation) /\ Called(act)
    BY <1>2, <1>4, <1>5, CallStack DEF Becomes
  <1> QED
    BY <1>1, <1>3, <1>4, <1>6

LEMMA RearmStack ==
  ASSUME Basics, Rearm
  PROVE  stack' \in Seq(Activation) /\ \E act : Replaced(act) /\ Becomes(act, "timers", Top.i + 1, Top.signals)
  <1>1. At("rearm") /\ stack \in Seq(Activation) /\ stack # <<>> /\ "timers" \in PCs
    BY DEF Rearm, At, Basics, TypeOK, PCs
  <1>2. PICK n \in Nat : n = Top.i + 1
    BY <1>1, TopPlaced DEF Placed, Timers
  <1> DEFINE act == [Top EXCEPT !.pc = "timers", !.i = n]
  <1>3. Becomes(act, "timers", n, Top.signals)
    <2>1. n \in Nat
      OBVIOUS
    <2> QED
      BY <1>1, <2>1, TopMoves DEF Becomes
  <1>4. Goto(act)
    BY <1>2 DEF Rearm
  <1> HIDE DEF act
  <1> QED
    BY <1>1, <1>2, <1>3, <1>4, GotoStack DEF Becomes

LEMMA WindowStack ==
  ASSUME Basics, NEW pc \in {"timers", "messages"}, At(pc), NEW w \in Nat \ {0}, WindowsFrom(w)
  PROVE  /\ stack' \in Seq(Activation)
         /\ \/ \E v \in Windows : \E act :
                  /\ v >= w /\ \A u \in w..v-1 : ~Signalled(u, Top.signals)
                  /\ Replaced(act) /\ Becomes(act, "messages", v, Top.signals)
            \/ (\A u \in w..NumWindows : ~Signalled(u, Top.signals)) /\ Returned
  <1>1. stack \in Seq(Activation) /\ stack # <<>> /\ "messages" \in PCs
    BY DEF At, Basics, TypeOK, PCs
  <1>2. CASE Return /\ \A u \in w..NumWindows : ~Signalled(u, Top.signals)
    BY <1>1, <1>2, ReturnStack
  <1>3. ASSUME NEW v \in Windows, v >= w, \A u \in w..v-1 : ~Signalled(u, Top.signals),
               Goto([Top EXCEPT !.pc = "messages", !.i = v])
        PROVE  stack' \in Seq(Activation) /\ \E act : Replaced(act) /\ Becomes(act, "messages", v, Top.signals)
    <2> DEFINE act == [Top EXCEPT !.pc = "messages", !.i = v]
    <2>1. v \in Nat
      BY DEF Windows
    <2>2. Becomes(act, "messages", v, Top.signals)
      BY <1>1, <2>1, TopMoves DEF Becomes
    <2>3. Goto(act)
      BY <1>3
    <2> HIDE DEF act
    <2> QED
      BY <1>1, <2>2, <2>3, GotoStack DEF Becomes
  <1> QED
    BY <1>2, <1>3, WindowsFromStack

LEMMA TakeMessageStack ==
  ASSUME Basics, TakeMessage
  PROVE  \/ UNCHANGED stack
         \/ /\ stack' \in Seq(Activation)
            /\ \E act : Called(act) /\ Becomes(act, "reply", Top.i, Top.signals)
  <1>1. /\ At("messages") /\ stack \in Seq(Activation) /\ stack # <<>> /\ "reply" \in PCs
        /\ Top.i \in Windows /\ port[Top.i] # <<>>
    BY TopPlaced DEF TakeMessage, At, Basics, TypeOK, PCs, Placed
  <1>2. port[Top.i] \in Seq(Messages)
    BY <1>1 DEF Basics, TypeOK
  <1>3. PICK msg \in Messages \cup {NoMessage} : msg = Head(port[Top.i])
    BY <1>1, <1>2
  <1>4. CASE Call([Top EXCEPT !.pc = "reply", !.msg = msg])
    <2> DEFINE act == [Top EXCEPT !.pc = "reply", !.msg = msg]
    <2>1. Becomes(act, "reply", Top.i, Top.signals)
      BY <1>1, TopHandles DEF Becomes
    <2>2. Call(act)
      BY <1>4
    <2> HIDE DEF act
    <2> QED
      BY <1>1, <2>1, <2>2, CallStack DEF Becomes
  <1> QED
    BY <1>3, <1>4 DEF TakeMessage

LEMMA ReplyStack ==
  ASSUME Basics, Reply
  PROVE  stack' \in Seq(Activation) /\ \E act : Replaced(act) /\ Becomes(act, "messages", Top.i, Top.signals)
  <1>1. /\ At("reply") /\ stack \in Seq(Activation) /\ stack # <<>> /\ "messages" \in PCs
        /\ NoMessage \in Messages \cup {NoMessage}
    BY DEF Reply, At, Basics, TypeOK, PCs
  <1> DEFINE act == [Top EXCEPT !.pc = "messages", !.msg = NoMessage]
  <1>2. Becomes(act, "messages", Top.i, Top.signals)
    BY <1>1, TopHandles DEF Becomes
  <1>3. Goto(act)
    BY DEF Reply
  <1> HIDE DEF act
  <1> QED
    BY <1>1, <1>2, <1>3, GotoStack DEF Becomes

(* Any of these leaves every activation where it may be.                   *)
LEMMA PlacedStack ==
  ASSUME Basics, stack # <<>>, stack' \in Seq(Activation),
         Returned \/ \E act : Placed(act) /\ (Replaced(act) \/ Called(act) \/ Entered(act))
  PROVE  StackOK'
  <1>1. Len(stack) \in Nat \ {0} /\ ActivationsPlaced
    BY DEF Basics, TypeOK
  <1>2. Placed(Program)
    BY DEF Placed, Program
  <1>3. \A d \in 1..Len(stack) : d = Len(stack) \/ d \in 1..Len(stack) - 1
    BY <1>1
  <1>4. CASE Returned
    BY SMTT(30), <1>1, <1>4 DEF StackOK, ActivationsPlaced, Returned
  <1>5. ASSUME NEW act, Placed(act), Replaced(act)
        PROVE  StackOK'
    BY <1>1, <1>3, <1>5 DEF StackOK, ActivationsPlaced, Replaced
  <1>6. ASSUME NEW act, Placed(act), Called(act)
        PROVE  StackOK'
    BY SMTT(30), <1>1, <1>2, <1>3, <1>6 DEF StackOK, ActivationsPlaced, Called
  <1>7. ASSUME NEW act, Placed(act), Entered(act)
        PROVE  StackOK'
    BY SMTT(30), <1>1, <1>7 DEF StackOK, ActivationsPlaced, Entered
  <1> QED
    BY <1>4, <1>5, <1>6, <1>7

LEMMA LoopStack ==
  ASSUME Basics, Loop
  PROVE  StackOK'
  <1>0. StackOK
    BY DEF Basics, TypeOK, StackOK
  <1>1. stack # <<>>
    BY DEF Loop, SLEEP, InMain, May, Executes, Wake, CallTimer, Rearm, TimersDone, TakeMessage, Reply, MessagesDone, EndSub, At
  <1>2. CASE SLEEP
    BY <1>1, <1>2, WaitStack, PlacedStack DEF Placed
  <1>3. CASE Wake
    BY <1>1, <1>3, WakeStack, PlacedStack DEF Placed, Becomes
  <1>4. CASE CallTimer
    BY <1>1, <1>4, CallTimerStack, PlacedStack DEF Placed, Becomes
  <1>5. CASE Rearm
    <2>1. Top.i + 1 \in Nat \ {0}
      BY <1>5, TopPlaced DEF Rearm, Placed, Timers
    <2> QED
      BY <1>1, <1>5, <2>1, RearmStack, PlacedStack DEF Placed, Becomes
  <1>6. CASE TimersDone
    <2>1. At("timers") /\ WindowsFrom(1) /\ 1 \in Nat \ {0}
      BY <1>6 DEF TimersDone
    <2> QED
      BY <1>1, <2>1, WindowStack, PlacedStack DEF Placed, Becomes
  <1>7. CASE MessagesDone
    <2>1. At("messages") /\ WindowsFrom(Top.i + 1)
      BY <1>7 DEF MessagesDone
    <2>2. PICK n \in Nat \ {0} : n = Top.i + 1
      BY <2>1, TopPlaced DEF Placed, Windows
    <2> QED
      BY <1>1, <2>1, <2>2, WindowStack, PlacedStack DEF Placed, Becomes
  <1>8. CASE TakeMessage
    <2>1. Top.i \in Windows
      BY <1>8, TopPlaced DEF TakeMessage, Placed
    <2>2. CASE UNCHANGED stack
      BY <1>0, <2>2 DEF StackOK, ActivationsPlaced
    <2> QED
      BY <1>1, <1>8, <2>1, <2>2, TakeMessageStack, PlacedStack DEF Placed, Becomes
  <1>9. CASE Reply
    <2>1. Top.i \in Windows
      BY <1>9, TopPlaced DEF Reply, Placed
    <2> QED
      BY <1>1, <1>9, <2>1, ReplyStack, PlacedStack DEF Placed, Becomes
  <1>10. CASE EndSub
    <2>1. Return /\ stack \in Seq(Activation)
      BY <1>10 DEF EndSub, Basics, TypeOK
    <2> QED
      BY <1>1, <2>1, ReturnStack, PlacedStack
  <1> QED
    BY <1>2, <1>3, <1>4, <1>5, <1>6, <1>7, <1>8, <1>9, <1>10 DEF Loop

LEMMA StatementStack ==
  ASSUME Basics, Statement
  PROVE  StackOK'
  <1>0. StackOK
    BY DEF Basics, TypeOK, StackOK
  <1>1. CASE UNCHANGED stack
    BY <1>0, <1>1 DEF StackOK, ActivationsPlaced
  <1>2. CASE VWAIT
    <2>1. stack # <<>>
      BY <1>2 DEF VWAIT, Executes, May, At
    <2> QED
      BY <1>2, <2>1, TakeSignalsStack, PlacedStack DEF Placed, Becomes
  <1>3. CASE SYSTEM
    <2>1. stack' = <<>> /\ Len(<<>>) = 0 /\ <<>> \in Seq(Activation)
      BY <1>3 DEF SYSTEM
    <2> QED
      BY <2>1 DEF StackOK, ActivationsPlaced
  <1> QED
    BY <1>1, <1>2, <1>3
       DEF Statement, ON_TIMER_CALL, TIMER_ON, TIMER_OFF, WINDOW, WINDOW_CLOSE, ON_WINDOW_CLOSE_CALL, INKEY

LEMMA BasicsStep == Basics /\ [Next]_vars => Basics'
  <1> SUFFICES ASSUME Basics, [Next]_vars
               PROVE  Basics'
    OBVIOUS
  <1>1. ASSUME RestOK', TimersKept', WindowsKept', StackOK'
        PROVE  Basics'
    BY <1>1 DEF Basics, StackOK, TypeOK, RestOK
  <1>2. CASE Statement
    BY <1>1, <1>2, StatementTypes, StatementStack
  <1>3. CASE Loop
    BY <1>1, <1>3, LoopTypes, LoopStack
  <1>4. CASE Devices
    <2>1. UNCHANGED stack
      BY <1>4 DEF Devices, Elapse, UserEvent
    <2>2. StackOK'
      BY <2>1 DEF Basics, TypeOK, StackOK, ActivationsPlaced
    <2> QED
      BY <1>1, <1>4, <2>2, DeviceTypes
  <1>5. CASE UNCHANGED vars
    BY <1>5 DEF vars, timerVars, windowVars, keyVars, user, Basics, TypeOK, ActivationsPlaced, TimersKept, WindowsKept
  <1> QED
    BY <1>2, <1>3, <1>4, <1>5 DEF Next
-----------------------------------------------------------------------------
(* Signal bits.                                                            *)

LEMMA BitsApartStep ==
  ASSUME Basics, BitsApart, [Next]_vars
  PROVE  BitsApart'
  <1>0. /\ timerport \in [Timers -> Bits \cup {Closed}] /\ win \in [Windows -> Bits \cup {Closed}]
    BY DEF Basics, TypeOK
  <1>1. CASE UNCHANGED <<timerport, win>>
    BY <1>1 DEF BitsApart
  <1>2. ASSUME NEW t \in Timers, timerport' = [timerport EXCEPT ![t] = Closed], UNCHANGED win
        PROVE  BitsApart'
    BY <1>0, <1>2 DEF BitsApart
  <1>3. ASSUME NEW t \in Timers, TIMER_ON(t)
        PROVE  BitsApart'
    <2>1. CASE UNCHANGED timerport
      BY <1>1, <1>3, <2>1 DEF TIMER_ON, windowVars
    <2>2. ASSUME NEW b \in AllocSignal, timerport' = [timerport EXCEPT ![t] = b]
          PROVE  BitsApart'
      BY <1>0, <1>3, <2>2, AllocatedBit DEF TIMER_ON, windowVars, BitsApart
    <2> QED
      BY <1>3, <2>1, <2>2 DEF TIMER_ON
  <1>4. ASSUME NEW w \in Windows, WINDOW(w)
        PROVE  BitsApart'
    <2>1. PICK b \in AllocSignal : win' = [win EXCEPT ![w] = b]
      BY <1>4 DEF WINDOW
    <2> QED
      BY <1>0, <1>4, <2>1, AllocatedBit DEF WINDOW, timerVars, BitsApart
  <1>5. ASSUME NEW w \in Windows, WINDOW_CLOSE(w)
        PROVE  BitsApart'
    BY <1>0, <1>5 DEF WINDOW_CLOSE, timerVars, BitsApart
  <1>6. CASE SYSTEM
    BY <1>6 DEF SYSTEM, BitsApart
  <1>7. CASE Statement
    BY <1>1, <1>2, <1>3, <1>4, <1>5, <1>6, <1>7
       DEF Statement, ON_TIMER_CALL, TIMER_OFF, TimerOff, ON_WINDOW_CLOSE_CALL, VWAIT, INKEY, timerVars, windowVars
  <1>8. CASE Loop
    BY <1>1, <1>8
       DEF Loop, SLEEP, Wake, CallTimer, Rearm, TimersDone, TakeMessage, Reply, MessagesDone, EndSub,
           timerVars, windowVars
  <1>9. CASE Devices \/ UNCHANGED vars
    BY <1>1, <1>9 DEF Devices, Elapse, UserEvent, vars, timerVars, windowVars
  <1> QED
    BY <1>7, <1>8, <1>9 DEF Next
-----------------------------------------------------------------------------
(* Messages are announced.                                                 *)

(* The message at window w's port, if any, is announced.                   *)
Announced(w) ==
  \/ win[w] \in received \cap wmask
  \/ \E d \in 1..Len(stack) : Awaits(stack[d], w)

LEMMA AnnouncedKept ==
  ASSUME Basics, NEW w \in Windows, Announced(w), UNCHANGED <<win, wmask, stack>>, win[w] \in received => win[w] \in received'
  PROVE  Announced(w)'
  BY DEF Announced, Awaits

LEMMA MessagesAnnouncedStatement ==
  ASSUME Basics, BitsApart, MessagesAnnounced, Statement
  PROVE  MessagesAnnounced'
  <1>1. SUFFICES ASSUME NEW w \in Windows, win'[w] # Closed, port'[w] # <<>>
                 PROVE  Announced(w)'
    BY DEF MessagesAnnounced, Announced
  <1>0. /\ timerport \in [Timers -> Bits \cup {Closed}] /\ win \in [Windows -> Bits \cup {Closed}]
        /\ port \in [Windows -> Seq(Messages)]
        /\ stack \in Seq(Activation) /\ received \subseteq Bits /\ wmask \subseteq Bits
    BY DEF Basics, TypeOK
  <1>2. CASE SYSTEM
    BY <1>1, <1>2 DEF SYSTEM
  <1>3. ASSUME NEW v \in Windows, WINDOW(v)
        PROVE  Announced(w)'
    <2>1. PICK b \in AllocSignal :
            win' = [win EXCEPT ![v] = b] /\ wmask' = wmask \cup {b} /\ received' = received \ {b}
      BY <1>3 DEF WINDOW
    <2>2. w # v
      BY <1>0, <1>1, <1>3 DEF WINDOW, Basics, WindowsKept
    <2>3. win'[w] = win[w] /\ win[w] # b /\ win[w] # Closed /\ port[w] # <<>>
      BY <1>0, <1>1, <1>3, <2>1, <2>2, AllocatedBit DEF WINDOW
    <2>4. Announced(w)
      BY <2>3 DEF MessagesAnnounced, Announced
    <2>5. UNCHANGED stack
      BY <1>3 DEF WINDOW
    <2> QED
      BY <2>1, <2>3, <2>4, <2>5 DEF Announced, Awaits
  <1>4. ASSUME NEW v \in Windows, WINDOW_CLOSE(v)
        PROVE  Announced(w)'
    <2>1. w # v /\ UNCHANGED <<wmask, received, stack>> /\ win' = [win EXCEPT ![v] = Closed]
          /\ port' = [port EXCEPT ![v] = <<>>]
      BY <1>0, <1>1, <1>4 DEF WINDOW_CLOSE
    <2>2. win'[w] = win[w] /\ port[w] # <<>>
      BY <1>0, <1>1, <2>1
    <2>3. Announced(w)
      BY <1>1, <2>2 DEF MessagesAnnounced, Announced
    <2> QED
      BY <2>1, <2>2, <2>3 DEF Announced, Awaits
  <1>5. CASE VWAIT
    <2>1. UNCHANGED windowVars
      BY <1>5 DEF VWAIT
    <2>2. Announced(w)
      BY <1>1, <2>1 DEF MessagesAnnounced, Announced, windowVars
    <2>3. PICK act : Entered(act) /\ Becomes(act, "timers", 1, received)
      BY <1>5, TakeSignalsStack
    <2>4. /\ Len(stack') = Len(stack) + 1 /\ stack'[Len(stack) + 1] = act
          /\ \A d \in 1..Len(stack) : stack'[d] = stack[d]
      BY <2>3 DEF Entered
    <2>5. Len(stack) \in Nat
      BY <1>0
    <2>6. CASE win[w] \in received \cap wmask
      BY <2>1, <2>3, <2>4, <2>5, <2>6 DEF Announced, Awaits, windowVars, Becomes
    <2>7. CASE \E d \in 1..Len(stack) : Awaits(stack[d], w)
      BY <2>1, <2>4, <2>5, <2>7 DEF Announced, Awaits, windowVars
    <2> QED
      BY <2>2, <2>6, <2>7 DEF Announced
  <1>6. ASSUME UNCHANGED <<win, port, wmask, stack>>, received \subseteq received'
        PROVE  Announced(w)'
    BY <1>1, <1>6, AnnouncedKept DEF MessagesAnnounced, Announced
  <1>7. ASSUME NEW t \in Timers, TIMER_ON(t)
        PROVE  Announced(w)'
    <2>1. UNCHANGED <<win, port, wmask, stack>>
      BY <1>7 DEF TIMER_ON, windowVars
    <2>2. CASE UNCHANGED received
      BY <1>6, <2>1, <2>2
    <2>3. ASSUME NEW b \in AllocSignal, received' = received \ {b}
          PROVE  Announced(w)'
      BY <1>1, <2>1, <2>3, AllocatedBit, AnnouncedKept DEF MessagesAnnounced, Announced
    <2> QED
      BY <1>7, <2>2, <2>3 DEF TIMER_ON
  <1>8. ASSUME NEW t \in Timers, TIMER_OFF(t) \/ ON_TIMER_CALL(t)
        PROVE  Announced(w)'
    BY <1>6, <1>8 DEF TIMER_OFF, ON_TIMER_CALL, TimerOff, windowVars
  <1>9. CASE INKEY \/ \E v \in Windows : ON_WINDOW_CLOSE_CALL(v)
    BY <1>6, <1>9 DEF INKEY, ON_WINDOW_CLOSE_CALL, windowVars
  <1> QED
    BY <1>2, <1>3, <1>4, <1>5, <1>7, <1>8, <1>9 DEF Statement

(* Every step of the loop but the taking of signals: the activation on top *)
(* still awaits what it awaited.                                           *)
LEMMA AnnouncedStack ==
  ASSUME Basics, stack # <<>>, NEW w \in Windows, Announced(w), UNCHANGED <<win, wmask, received>>,
         \/ Returned /\ ~Awaits(Top, w)
         \/ \E act : Entered(act)
         \/ \E act : (Replaced(act) \/ Called(act)) /\ (Awaits(Top, w) => Awaits(act, w))
  PROVE  Announced(w)'
  <1>1. Len(stack) \in Nat \ {0} /\ Top = stack[Len(stack)]
    BY DEF Basics, TypeOK, Top, Depth
  <1>2. CASE win[w] \in received \cap wmask
    BY <1>2 DEF Announced
  <1>3. ASSUME NEW d \in 1..Len(stack), Awaits(stack[d], w)
        PROVE  Announced(w)'
    <2>1. SUFFICES \E e \in 1..Len(stack') : Awaits(stack'[e], w)
      BY DEF Announced, Awaits
    <2>2. d = Len(stack) \/ d \in 1..Len(stack) - 1
      BY <1>1
    <2>3. CASE Returned /\ ~Awaits(Top, w)
      BY <1>1, <1>3, <2>2, <2>3 DEF Returned
    <2>4. ASSUME NEW act, Entered(act)
          PROVE  \E e \in 1..Len(stack') : Awaits(stack'[e], w)
      BY <1>1, <1>3, <2>4 DEF Entered
    <2>5. ASSUME NEW act, Replaced(act), Awaits(Top, w) => Awaits(act, w)
          PROVE  \E e \in 1..Len(stack') : Awaits(stack'[e], w)
      BY <1>1, <1>3, <2>2, <2>5 DEF Replaced
    <2>6. ASSUME NEW act, Called(act), Awaits(Top, w) => Awaits(act, w)
          PROVE  \E e \in 1..Len(stack') : Awaits(stack'[e], w)
      BY <1>1, <1>3, <2>2, <2>6 DEF Called
    <2> QED
      BY <2>3, <2>4, <2>5, <2>6
  <1> QED
    BY <1>2, <1>3 DEF Announced

LEMMA MessagesAnnouncedLoop ==
  ASSUME Basics, MessagesAnnounced, Loop
  PROVE  MessagesAnnounced'
  <1>1. SUFFICES ASSUME NEW w \in Windows, win'[w] # Closed, port'[w] # <<>>
                 PROVE  Announced(w)'
    BY DEF MessagesAnnounced, Announced
  <1>0. /\ win \in [Windows -> Bits \cup {Closed}] /\ port \in [Windows -> Seq(Messages)]
        /\ stack \in Seq(Activation) /\ received \subseteq Bits /\ wmask \subseteq Bits
    BY DEF Basics, TypeOK
  <1>2. UNCHANGED <<win, wmask>> /\ stack # <<>>
    BY DEF Loop, SLEEP, InMain, May, Executes, Wake, CallTimer, Rearm, TimersDone, TakeMessage, Reply, MessagesDone, EndSub, At,
           windowVars
  <1>3. port[w] # <<>>
    <2>1. CASE UNCHANGED port
      BY <1>1, <2>1
    <2>2. CASE TakeMessage
      <3>1. Top.i \in Windows /\ port[Top.i] # <<>> /\ port' = [port EXCEPT ![Top.i] = Tail(@)]
        BY <2>2, TopPlaced DEF TakeMessage, Placed
      <3> QED
        BY <1>0, <1>1, <3>1
    <2> QED
      BY <2>1, <2>2
         DEF Loop, SLEEP, Wake, CallTimer, Rearm, TimersDone, Reply, MessagesDone, EndSub, windowVars
  <1>4. Announced(w)
    BY <1>1, <1>2, <1>3 DEF MessagesAnnounced, Announced
  <1>5. CASE SLEEP
    BY <1>2, <1>4, <1>5, WaitStack, AnnouncedStack DEF SLEEP
  <1>6. CASE Wake
    <2>1. PICK act : Replaced(act) /\ Becomes(act, "timers", 1, received \cap Masks)
      BY <1>6, WakeStack
    <2>2. /\ Len(stack') = Len(stack) /\ stack'[Len(stack)] = act /\ Len(stack) \in Nat \ {0}
          /\ \A d \in 1..Len(stack) - 1 : stack'[d] = stack[d]
      BY <1>0, <1>2, <2>1 DEF Replaced
    <2>3. CASE win[w] \in received \cap wmask
      <3>1. Awaits(act, w)
        BY <2>1, <2>3 DEF Becomes, Awaits, Masks
      <3> QED
        BY <1>2, <2>2, <3>1 DEF Announced, Awaits
    <2>4. ASSUME NEW d \in 1..Len(stack), Awaits(stack[d], w)
          PROVE  Announced(w)'
      <3>1. d # Len(stack)
        BY <1>6, <2>4 DEF Wake, At, Top, Depth, Awaits
      <3>2. d \in 1..Len(stack) - 1
        BY <2>2, <3>1
      <3> QED
        BY <1>2, <2>2, <2>4, <3>2 DEF Announced, Awaits
    <2> QED
      BY <1>4, <2>3, <2>4 DEF Announced
  <1>7. CASE CallTimer
    <2>1. PICK t, act : Called(act) /\ Becomes(act, "rearm", t, Top.signals)
      BY <1>7, CallTimerStack
    <2>2. Top.pc = "timers" /\ UNCHANGED received
      BY <1>7 DEF CallTimer, At
    <2>3. Awaits(Top, w) => Awaits(act, w)
      BY <2>1, <2>2 DEF Becomes, Awaits
    <2> QED
      BY <1>2, <1>4, <2>1, <2>2, <2>3, AnnouncedStack
  <1>8. CASE Rearm
    <2>1. PICK act : Replaced(act) /\ Becomes(act, "timers", Top.i + 1, Top.signals)
      BY <1>8, RearmStack
    <2>2. Top.pc = "rearm" /\ UNCHANGED received
      BY <1>8 DEF Rearm, At
    <2>3. Awaits(Top, w) => Awaits(act, w)
      BY <2>1, <2>2 DEF Becomes, Awaits
    <2> QED
      BY <1>2, <1>4, <2>1, <2>2, <2>3, AnnouncedStack
  <1>9. ASSUME NEW pc \in {"timers", "messages"}, At(pc), NEW n \in Nat \ {0}, WindowsFrom(n), UNCHANGED received,
               Awaits(Top, w) => w >= n /\ Signalled(w, Top.signals)
        PROVE  Announced(w)'
    <2>1. w \in Nat /\ w <= NumWindows
      BY DEF Windows
    <2>2. CASE Returned /\ \A u \in n..NumWindows : ~Signalled(u, Top.signals)
      <3>1. ~Awaits(Top, w)
        BY <1>9, <2>1, <2>2
      <3> QED
        BY <1>2, <1>4, <1>9, <2>2, <3>1, AnnouncedStack
    <2>3. ASSUME NEW v \in Windows, NEW act, v >= n, \A u \in n..v-1 : ~Signalled(u, Top.signals),
                 Replaced(act), Becomes(act, "messages", v, Top.signals)
          PROVE  Announced(w)'
      <3>1. Awaits(Top, w) => v <= w /\ win[w] \in Top.signals
        BY <1>9, <2>1, <2>3 DEF Windows, Signalled
      <3>2. Awaits(Top, w) => Awaits(act, w)
        BY <2>1, <2>3, <3>1 DEF Becomes, Awaits, Windows
      <3> QED
        BY <1>2, <1>4, <1>9, <2>3, <3>2, AnnouncedStack
    <2> QED
      BY <1>9, <2>2, <2>3, WindowStack
  <1>10. CASE TimersDone
    <2>1. At("timers") /\ WindowsFrom(1) /\ UNCHANGED received
      BY <1>10 DEF TimersDone
    <2>2. Awaits(Top, w) => w >= 1 /\ Signalled(w, Top.signals)
      BY <2>1 DEF At, Awaits, Signalled, Windows
    <2> QED
      BY <1>9, <2>1, <2>2
  <1>11. CASE MessagesDone
    <2>1. At("messages") /\ WindowsFrom(Top.i + 1) /\ UNCHANGED received /\ port[Top.i] = <<>>
      BY <1>11 DEF MessagesDone
    <2>2. Top.i \in Windows /\ Top.pc = "messages"
      BY <2>1, TopPlaced DEF Placed
    <2>3. PICK n \in Nat \ {0} : n = Top.i + 1
      BY <2>2 DEF Windows
    <2>4. Awaits(Top, w) => w >= n /\ Signalled(w, Top.signals)
      BY SMTT(30), <1>3, <2>1, <2>2, <2>3 DEF Awaits, Signalled, Windows
    <2> QED
      BY <1>9, <2>1, <2>3, <2>4
  <1>12. CASE TakeMessage
    <2>1. Top.pc = "messages" /\ UNCHANGED received
      BY <1>12 DEF TakeMessage, At
    <2>2. CASE UNCHANGED stack
      BY <1>2, <1>4, <2>1, <2>2, AnnouncedKept
    <2>3. ASSUME NEW act, Called(act), Becomes(act, "reply", Top.i, Top.signals)
          PROVE  Announced(w)'
      <3>1. Awaits(Top, w) => Awaits(act, w)
        BY <2>1, <2>3 DEF Becomes, Awaits
      <3> QED
        BY <1>2, <1>4, <2>1, <2>3, <3>1, AnnouncedStack
    <2> QED
      BY <1>12, <2>2, <2>3, TakeMessageStack
  <1>13. CASE Reply
    <2>1. PICK act : Replaced(act) /\ Becomes(act, "messages", Top.i, Top.signals)
      BY <1>13, ReplyStack
    <2>2. Top.pc = "reply" /\ UNCHANGED received
      BY <1>13 DEF Reply, At
    <2>3. Awaits(Top, w) => Awaits(act, w)
      BY <2>1, <2>2 DEF Becomes, Awaits
    <2> QED
      BY <1>2, <1>4, <2>1, <2>2, <2>3, AnnouncedStack
  <1>14. CASE EndSub
    <2>1. At("program") /\ Returned /\ UNCHANGED received
      BY <1>0, <1>2, <1>14, ReturnStack DEF EndSub
    <2>2. ~Awaits(Top, w)
      BY <2>1 DEF At, Awaits
    <2> QED
      BY <1>2, <1>4, <2>1, <2>2, AnnouncedStack
  <1> QED
    BY <1>5, <1>6, <1>7, <1>8, <1>10, <1>11, <1>12, <1>13, <1>14 DEF Loop

LEMMA MessagesAnnouncedDevices ==
  ASSUME Basics, MessagesAnnounced, Devices
  PROVE  MessagesAnnounced'
  <1>1. SUFFICES ASSUME NEW w \in Windows, win'[w] # Closed, port'[w] # <<>>
                 PROVE  Announced(w)'
    BY DEF MessagesAnnounced, Announced
  <1>2. ASSUME NEW t \in Timers, Elapse(t)
        PROVE  Announced(w)'
    <2>1. UNCHANGED <<win, port, wmask, stack>> /\ received \subseteq received'
      BY <1>2 DEF Elapse, windowVars
    <2> QED
      BY <1>1, <2>1, AnnouncedKept DEF MessagesAnnounced, Announced
  <1>3. ASSUME NEW v \in Windows, NEW class \in {"CLOSEWINDOW", "RAWKEY"}, UserEvent(v, class)
        PROVE  Announced(w)'
    <2>1. /\ UNCHANGED <<win, wmask, stack>> /\ received' = received \cup {win[v]}
          /\ \A u \in Windows : u # v => port'[u] = port[u]
      BY <1>3 DEF UserEvent, Basics, TypeOK
    <2>2. CASE w = v
      <3>1. win[w] \in wmask
        BY <1>1, <2>1 DEF Basics, WindowsKept
      <3> QED
        BY <2>1, <2>2, <3>1 DEF Announced
    <2>3. CASE w # v
      BY <1>1, <2>1, <2>3, AnnouncedKept DEF MessagesAnnounced, Announced
    <2> QED
      BY <2>2, <2>3
  <1> QED
    BY <1>2, <1>3 DEF Devices
-----------------------------------------------------------------------------
(* Keys come in order.                                                     *)

LEMMA NextPlace ==
  ASSUME NEW s \in 0..MAXKEYBUF-1, NEW n \in 1..MAXKEYBUF
  PROVE  /\ (s + 1) % MAXKEYBUF \in 0..MAXKEYBUF-1
         /\ (((s + 1) % MAXKEYBUF) + n - 1) % MAXKEYBUF = (s + n) % MAXKEYBUF
  <1>1. s + 1 \in 0..2 * MAXKEYBUF - 1 /\ s + n \in 0..2 * MAXKEYBUF - 1
    OBVIOUS
  <1>2. CASE s + 1 < MAXKEYBUF
    <2>1. (s + 1) % MAXKEYBUF = s + 1
      BY <1>1, <1>2, Wraps
    <2> QED
      BY <1>2, <2>1
  <1>3. CASE s + 1 = MAXKEYBUF
    <2>1. (s + 1) % MAXKEYBUF = 0
      BY <1>1, <1>3, Wraps
    <2>2. n - 1 \in 0..2 * MAXKEYBUF - 1 /\ n - 1 < MAXKEYBUF
      OBVIOUS
    <2>3. (n - 1) % MAXKEYBUF = n - 1
      BY <2>2, Wraps
    <2>4. (s + n) % MAXKEYBUF = n - 1
      BY <1>1, <1>3, Wraps
    <2> QED
      BY <2>1, <2>3, <2>4
  <1> QED
    BY <1>2, <1>3

LEMMA PlacesApart ==
  ASSUME NEW s \in 0..MAXKEYBUF-1, NEW k \in 0..MAXKEYBUF-1, NEW n \in 0..k-1
  PROVE  (s + n) % MAXKEYBUF # (s + k) % MAXKEYBUF
  <1>1. PICK a \in 0..2 * MAXKEYBUF - 1, b \in 0..2 * MAXKEYBUF - 1 : a = s + n /\ b = s + k
    OBVIOUS
  <1>2. a % MAXKEYBUF = IF a < MAXKEYBUF THEN a ELSE a - MAXKEYBUF
    BY Wraps
  <1>3. b % MAXKEYBUF = IF b < MAXKEYBUF THEN b ELSE b - MAXKEYBUF
    BY Wraps
  <1> QED
    BY <1>1, <1>2, <1>3

LEMMA BufferedTypes ==
  ASSUME RestOK, NEW n \in 1..keybufLen
  PROVE  Buffered[n] \in Characters /\ Buffered[n].window \in Windows /\ Buffered[n].key \in Nat
  <1>1. PICK s \in 0..MAXKEYBUF-1 : s = keybufStart
    BY DEF RestOK
  <1>2. n \in 1..MAXKEYBUF
    BY DEF RestOK
  <1>3. PICK a \in 0..2 * MAXKEYBUF - 1 : a = s + n - 1
    BY <1>2
  <1>4. a % MAXKEYBUF \in 0..MAXKEYBUF-1
    BY Wraps
  <1>5. Buffered[n] = keybuf[a % MAXKEYBUF]
    BY <1>1, <1>3 DEF Buffered
  <1>6. Buffered[n] \in Characters
    BY <1>4, <1>5 DEF RestOK
  <1> QED
    BY <1>6 DEF Characters, Keys

(* A port may lose its oldest messages.                                    *)
Shrunk(w) ==
  \E k \in 0..Len(port[w]) :
    /\ Len(port'[w]) = Len(port[w]) - k
    /\ \A j \in 1..Len(port'[w]) : port'[w][j] = port[w][j + k]

LEMMA ShrinksTo ==
  ASSUME Basics, NEW w \in Windows,
         port'[w] = port[w] \/ port'[w] = <<>> \/ (port[w] # <<>> /\ port'[w] = Tail(port[w]))
  PROVE  Shrunk(w)
  <1>1. port[w] \in Seq(Messages) /\ Len(port[w]) \in Nat
    BY DEF Basics, TypeOK
  <1>2. CASE port'[w] = port[w]
    <2>1. 0 \in 0..Len(port[w]) /\ \A j \in 1..Len(port[w]) : j + 0 = j
      BY <1>1
    <2> QED
      BY <1>1, <1>2, <2>1 DEF Shrunk
  <1>3. CASE port'[w] = <<>>
    <2>1. Len(port[w]) \in 0..Len(port[w]) /\ Len(port'[w]) = Len(port[w]) - Len(port[w])
      BY <1>1, <1>3
    <2>2. \A j \in 1..Len(port'[w]) : FALSE
      BY <1>3
    <2> QED
      BY <2>1, <2>2 DEF Shrunk
  <1>4. CASE port[w] # <<>> /\ port'[w] = Tail(port[w])
    <2>1. /\ 1 \in 0..Len(port[w]) /\ Len(port'[w]) = Len(port[w]) - 1
          /\ \A j \in 1..Len(port'[w]) : port'[w][j] = port[w][j + 1]
      BY <1>1, <1>4
    <2> QED
      BY <2>1 DEF Shrunk
  <1> QED
    BY <1>2, <1>3, <1>4

(* Messages taken from the ports leave the rest in order.                  *)
LEMMA PortsShrink ==
  ASSUME Basics, PortsInOrder, UNCHANGED <<lastRead, events>>, \A w \in Windows : Shrunk(w)
  PROVE  PortsInOrder'
  <1>1. SUFFICES ASSUME NEW w \in Windows
                 PROVE  /\ lastRead[w] <= events
                        /\ \A j \in 1..Len(port'[w]) :
                             /\ lastRead[w] < port'[w][j].key /\ port'[w][j].key <= events
                             /\ \A i \in 1..j-1 : port'[w][i].key < port'[w][j].key
    BY DEF PortsInOrder
  <1>2. PICK k \in 0..Len(port[w]) :
          /\ Len(port'[w]) = Len(port[w]) - k
          /\ \A j \in 1..Len(port'[w]) : port'[w][j] = port[w][j + k]
    BY DEF Shrunk
  <1>3. PICK m \in Nat : m = Len(port[w])
    BY DEF Basics, TypeOK
  <1>4. lastRead[w] <= events
    BY DEF PortsInOrder
  <1>5. ASSUME NEW j \in 1..Len(port'[w])
        PROVE  /\ lastRead[w] < port'[w][j].key /\ port'[w][j].key <= events
               /\ \A i \in 1..j-1 : port'[w][i].key < port'[w][j].key
    <2>0. j \in 1..m - k /\ k \in 0..m
      BY <1>2, <1>3
    <2>1. port'[w][j] = port[w][j + k] /\ j + k \in 1..Len(port[w])
      <3>1. j + k \in 1..m
        BY <2>0
      <3> QED
        BY <1>2, <1>3, <3>1
    <2>2. /\ lastRead[w] < port[w][j + k].key /\ port[w][j + k].key <= events
          /\ \A i \in 1..j + k - 1 : port[w][i].key < port[w][j + k].key
      BY <2>1 DEF PortsInOrder
    <2>3. ASSUME NEW i \in 1..j-1
          PROVE  port'[w][i].key < port'[w][j].key
      <3>0. j \in Int /\ i \in Int /\ 1 <= i /\ i <= j - 1 /\ j <= m - k /\ k \in Nat
        BY <2>0
      <3>1. i \in 1..m - k /\ i + k \in 1..j + k - 1
        BY <3>0
      <3> QED
        BY <1>2, <1>3, <2>1, <2>2, <3>1
    <2> QED
      BY <2>1, <2>2, <2>3
  <1> QED
    BY <1>4, <1>5

LEMMA KeysKept ==
  ASSUME Basics, InOrder, UNCHANGED <<keyVars, events>>, \A w \in Windows : Shrunk(w)
  PROVE  InOrder'
  <1>1. PortsInOrder'
    BY PortsShrink DEF InOrder, keyVars
  <1>2. Buffered' = Buffered /\ UNCHANGED <<keybufStart, keybufEnd, keybufLen, lastRead, events>>
    BY DEF Buffered, keyVars
  <1>3. ASSUME NEW n \in 1..keybufLen, NEW j \in 1..Len(port'[Buffered[n].window])
        PROVE  Buffered[n].key < port'[Buffered[n].window][j].key
    <2>1. PICK w \in Windows : w = Buffered[n].window
      BY BufferedTypes, TypeParts DEF Basics
    <2>2. PICK k \in 0..Len(port[w]) :
            /\ Len(port'[w]) = Len(port[w]) - k
            /\ \A i \in 1..Len(port'[w]) : port'[w][i] = port[w][i + k]
      BY DEF Shrunk
    <2>3. PICK m \in Nat : m = Len(port[w])
      BY DEF Basics, TypeOK
    <2>4. j \in 1..m - k /\ k \in 0..m
      BY <2>1, <2>2, <2>3
    <2>5. j + k \in 1..m
      BY <2>4
    <2>6. port'[w][j] = port[w][j + k]
      BY <2>1, <2>2
    <2> QED
      BY <2>1, <2>3, <2>5, <2>6 DEF InOrder, KeysInOrder
  <1>4. KeysInOrder'
    BY <1>2, <1>3 DEF InOrder, KeysInOrder
  <1>5. KeysPast'
    BY <1>2 DEF InOrder, KeysPast
  <1> QED
    BY <1>1, <1>4, <1>5 DEF InOrder

LEMMA BufferedAt ==
  ASSUME NEW s \in 0..MAXKEYBUF-1, s = keybufStart, NEW n \in 1..keybufLen
  PROVE  Buffered[n] = keybuf[(s + n - 1) % MAXKEYBUF]
  BY DEF Buffered

LEMMA KeysRead ==
  ASSUME Basics, InOrder, INKEY
  PROVE  InOrder'
  <1>0. RestOK
    BY TypeParts DEF Basics
  <1>1. PICK s \in 0..MAXKEYBUF-1 : s = keybufStart
    BY <1>0 DEF RestOK
  <1>2. PICK len \in 1..MAXKEYBUF : len = keybufLen
    BY <1>0 DEF INKEY, RestOK
  <1>3. PICK c \in Characters : c = keybuf[s]
    BY <1>0, <1>1 DEF RestOK
  <1>4. c.window \in Windows /\ c.key \in Nat
    BY DEF Characters, Keys
  <1>5. Buffered[1] = c
    <2>1. 1 \in 1..keybufLen /\ s + 1 - 1 = s /\ s \in 0..2 * MAXKEYBUF - 1 /\ s < MAXKEYBUF
      BY <1>2
    <2>2. s % MAXKEYBUF = s
      BY <2>1, Wraps
    <2> QED
      BY <1>1, <1>3, <2>1, <2>2, BufferedAt
  <1>6. /\ lastRead' = [lastRead EXCEPT ![c.window] = c.key]
        /\ keybufStart' = (s + 1) % MAXKEYBUF /\ keybufLen' = len - 1
        /\ UNCHANGED <<keybuf, keybufEnd, port, events>>
    BY <1>1, <1>2, <1>3 DEF INKEY, windowVars, user
  <1>7. ASSUME NEW n \in 1..len - 1
        PROVE  n + 1 \in 1..len /\ Buffered'[n] = Buffered[n + 1]
    <2>1. n \in 1..MAXKEYBUF /\ n + 1 \in 1..len /\ n + 1 \in 1..keybufLen /\ s + n = s + (n + 1) - 1
      BY <1>2
    <2>2. Buffered'[n] = keybuf[(((s + 1) % MAXKEYBUF) + n - 1) % MAXKEYBUF]
      BY <1>6 DEF Buffered
    <2>3. Buffered'[n] = keybuf[(s + n) % MAXKEYBUF]
      BY <2>1, <2>2, NextPlace
    <2>4. Buffered[n + 1] = keybuf[(s + (n + 1) - 1) % MAXKEYBUF]
      BY <1>1, <2>1, BufferedAt
    <2> QED
      BY <2>1, <2>3, <2>4
  <1>8. (keybufStart' + keybufLen') % MAXKEYBUF = keybufEnd'
    <2>1. (((s + 1) % MAXKEYBUF) + len - 1) % MAXKEYBUF = (s + len) % MAXKEYBUF
      BY NextPlace
    <2>2. PICK a \in 0..MAXKEYBUF-1 : a = (s + 1) % MAXKEYBUF
      BY NextPlace
    <2>3. a + len - 1 = a + (len - 1)
      OBVIOUS
    <2>4. (s + len) % MAXKEYBUF = keybufEnd
      BY <1>1, <1>2 DEF InOrder, KeysInOrder
    <2> QED
      BY <1>6, <2>1, <2>2, <2>3, <2>4
  <1>9. /\ lastRead[c.window] < c.key /\ c.key <= events
        /\ \A j \in 1..Len(port[c.window]) : c.key < port[c.window][j].key
    <2>1. 1 \in 1..keybufLen
      BY <1>2
    <2> QED
      BY <1>5, <2>1 DEF InOrder, KeysInOrder, KeysPast
  <1>10. lastRead \in [Windows -> -1..MaxEvents]
    BY <1>0 DEF RestOK
  <1>11. PortsInOrder'
    BY <1>4, <1>6, <1>9, <1>10 DEF InOrder, PortsInOrder
  <1>12. ASSUME NEW n \in 1..len - 1
         PROVE  /\ lastRead'[Buffered'[n].window] < Buffered'[n].key /\ Buffered'[n].key <= events
                /\ \A m \in 1..n-1 : Buffered'[m].window = Buffered'[n].window => Buffered'[m].key < Buffered'[n].key
                /\ \A j \in 1..Len(port[Buffered'[n].window]) : Buffered'[n].key < port[Buffered'[n].window][j].key
    <2>1. PICK p \in 1..keybufLen : p = n + 1
      BY <1>2
    <2>2. PICK d \in Characters : d = Buffered[p]
      BY <1>0, BufferedTypes
    <2>3. Buffered'[n] = d /\ d.window \in Windows
      BY <1>7, <2>1, <2>2 DEF Characters
    <2>4. /\ lastRead[d.window] < d.key /\ d.key <= events
          /\ \A m \in 1..p-1 : Buffered[m].window = d.window => Buffered[m].key < d.key
          /\ \A j \in 1..Len(port[d.window]) : d.key < port[d.window][j].key
      BY <2>2 DEF InOrder, KeysInOrder, KeysPast
    <2>5. lastRead'[d.window] < d.key
      <3>1. 1 \in 1..p-1
        BY <2>1
      <3> QED
        BY <1>4, <1>5, <1>6, <1>10, <2>3, <2>4, <3>1
    <2>6. ASSUME NEW m \in 1..n-1, Buffered'[m].window = d.window
          PROVE  Buffered'[m].key < d.key
      <3>1. m \in 1..len - 1 /\ m + 1 \in 1..p-1
        BY <2>1
      <3>2. Buffered'[m] = Buffered[m + 1]
        BY <1>7, <3>1
      <3> QED
        BY <2>4, <2>6, <3>1, <3>2
    <2> QED
      BY <2>3, <2>4, <2>5, <2>6
  <1>13. KeysInOrder'
    BY <1>6, <1>8, <1>12 DEF KeysInOrder
  <1>14. KeysPast'
    BY <1>6, <1>12 DEF KeysPast
  <1> QED
    BY <1>11, <1>13, <1>14 DEF InOrder

(* A key of window w, older than what is left at its port, is stored.      *)
LEMMA KeysStored ==
  ASSUME Basics, InOrder, NEW w \in Windows, NEW k \in Keys, StoreKey(w, k), keybufLen < MAXKEYBUF, UNCHANGED events,
         lastRead[w] < k, k <= events,
         \A n \in 1..keybufLen : Buffered[n].window = w => Buffered[n].key < k,
         \A v \in Windows : Shrunk(v), \A j \in 1..Len(port'[w]) : k < port'[w][j].key
  PROVE  InOrder'
  <1>0. RestOK
    BY TypeParts DEF Basics
  <1>1. PICK s \in 0..MAXKEYBUF-1 : s = keybufStart
    BY <1>0 DEF RestOK
  <1>2. PICK len \in 0..MAXKEYBUF-1 : len = keybufLen
    BY SMTT(30), <1>0 DEF RestOK
  <1>3. PICK end \in 0..MAXKEYBUF-1 : end = keybufEnd
    BY <1>0 DEF RestOK
  <1>4. PICK c \in Characters : c.window = w /\ c.key = k /\ c = [window |-> w, key |-> k]
    BY DEF Characters
  <1>5. /\ keybuf' = [keybuf EXCEPT ![end] = c]
        /\ keybufEnd' = (end + 1) % MAXKEYBUF /\ keybufLen' = len + 1
        /\ UNCHANGED <<keybufStart, lastRead>>
    BY <1>2, <1>3, <1>4 DEF StoreKey
  <1>6. end = (s + len) % MAXKEYBUF
    BY <1>1, <1>2, <1>3 DEF InOrder, KeysInOrder
  <1>7. keybuf \in [0..MAXKEYBUF-1 -> Characters]
    BY <1>0 DEF RestOK
  <1>8. Buffered'[len + 1] = c
    <2>1. len + 1 \in 1..len + 1 /\ s + (len + 1) - 1 = s + len
      OBVIOUS
    <2>2. Buffered'[len + 1] = keybuf'[(s + (len + 1) - 1) % MAXKEYBUF]
      BY <1>1, <1>5, <2>1 DEF Buffered
    <2> QED
      BY <1>5, <1>6, <1>7, <2>1, <2>2
  <1>9. ASSUME NEW n \in 1..len
        PROVE  Buffered'[n] = Buffered[n]
    <2>1. n \in 1..len + 1 /\ n \in 1..keybufLen /\ n - 1 \in 0..len - 1 /\ s + n - 1 = s + (n - 1)
      BY <1>2
    <2>2. (s + (n - 1)) % MAXKEYBUF # end
      BY <1>6, <2>1, PlacesApart
    <2>3. Buffered'[n] = keybuf'[(s + n - 1) % MAXKEYBUF]
      BY <1>1, <1>5, <2>1 DEF Buffered
    <2>4. Buffered[n] = keybuf[(s + n - 1) % MAXKEYBUF]
      BY <1>1, <2>1, BufferedAt
    <2>5. (s + (n - 1)) % MAXKEYBUF \in 0..MAXKEYBUF-1
      <3>1. PICK a \in 0..2 * MAXKEYBUF - 1 : a = s + (n - 1)
        BY SMTT(30), <2>1
      <3> QED
        BY <3>1, Wraps
    <2> QED
      BY <1>5, <1>7, <2>1, <2>2, <2>3, <2>4, <2>5
  <1>10. (keybufStart' + keybufLen') % MAXKEYBUF = keybufEnd'
    <2>1. PICK a \in 0..2 * MAXKEYBUF - 1 : a = s + len /\ a + 1 \in 0..2 * MAXKEYBUF - 1
      <3>1. s + len \in 0..2 * MAXKEYBUF - 1 /\ s + len + 1 \in 0..2 * MAXKEYBUF - 1
        BY SMTT(30)
      <3> QED
        BY <3>1
    <2>2. end = IF a < MAXKEYBUF THEN a ELSE a - MAXKEYBUF
      BY <1>6, <2>1, Wraps
    <2>3. PICK b \in 0..2 * MAXKEYBUF - 1 : b = end + 1
      BY SMTT(30)
    <2>4. b % MAXKEYBUF = IF b < MAXKEYBUF THEN b ELSE b - MAXKEYBUF
      BY Wraps
    <2>5. PICK e \in 0..2 * MAXKEYBUF - 1 : e = a + 1
      BY <2>1
    <2>6. e % MAXKEYBUF = IF e < MAXKEYBUF THEN e ELSE e - MAXKEYBUF
      BY Wraps
    <2>7. s + (len + 1) = e
      BY <2>1, <2>5
    <2>8. e % MAXKEYBUF = b % MAXKEYBUF
      <3>1. CASE a < MAXKEYBUF
        BY <2>2, <2>3, <2>5, <3>1
      <3>2. CASE a >= MAXKEYBUF
        <4>1. ~(a < MAXKEYBUF) /\ a \in Int /\ e \in Int /\ a + 1 < 2 * MAXKEYBUF /\ MAXKEYBUF \in Nat
          BY SMTT(30), <2>1, <3>2
        <4>2. end = a - MAXKEYBUF
          BY <2>2, <4>1
        <4>3. b = e - MAXKEYBUF /\ b < MAXKEYBUF /\ e >= MAXKEYBUF
          BY <2>3, <2>5, <3>2, <4>1, <4>2
        <4> QED
          BY SMTT(30), <2>4, <2>6, <4>3
      <3> QED
        BY <3>1, <3>2
    <2> QED
      BY <1>1, <1>5, <2>3, <2>7, <2>8
  <1>11. PortsInOrder'
    BY <1>5, PortsShrink DEF InOrder
  <1>12. ASSUME NEW n \in 1..len
         PROVE  /\ lastRead[Buffered[n].window] < Buffered[n].key /\ Buffered[n].key <= events
                /\ \A m \in 1..n-1 : Buffered'[m].window = Buffered[n].window => Buffered'[m].key < Buffered[n].key
                /\ \A j \in 1..Len(port'[Buffered[n].window]) : Buffered[n].key < port'[Buffered[n].window][j].key
    <2>1. n \in 1..keybufLen
      BY <1>2
    <2>2. /\ lastRead[Buffered[n].window] < Buffered[n].key /\ Buffered[n].key <= events
          /\ \A m \in 1..n-1 : Buffered[m].window = Buffered[n].window => Buffered[m].key < Buffered[n].key
          /\ \A j \in 1..Len(port[Buffered[n].window]) : Buffered[n].key < port[Buffered[n].window][j].key
      BY <2>1 DEF InOrder, KeysInOrder, KeysPast
    <2>3. \A m \in 1..n-1 : Buffered'[m] = Buffered[m]
      BY SMTT(30), <1>9
    <2>4. PICK v \in Windows : v = Buffered[n].window
      BY <1>0, <2>1, BufferedTypes
    <2>5. PICK x \in Nat : x = Buffered[n].key
      BY <1>0, <2>1, BufferedTypes
    <2>6. ASSUME NEW j \in 1..Len(port'[v])
          PROVE  x < port'[v][j].key
      <3>1. PICK l \in 0..Len(port[v]) :
              /\ Len(port'[v]) = Len(port[v]) - l
              /\ \A i \in 1..Len(port'[v]) : port'[v][i] = port[v][i + l]
        BY DEF Shrunk
      <3>2. PICK m \in Nat : m = Len(port[v])
        BY DEF Basics, TypeOK
      <3>3. j \in 1..m - l /\ l \in 0..m
        BY <3>1, <3>2
      <3>4. j + l \in 1..m
        BY <3>3
      <3>5. port'[v][j] = port[v][j + l]
        BY <3>1
      <3> QED
        BY <2>2, <2>4, <2>5, <3>2, <3>4, <3>5
    <2> QED
      BY <2>2, <2>3, <2>4, <2>5, <2>6
  <1>13. \A n \in 1..len + 1 : n \in 1..len \/ n = len + 1
    OBVIOUS
  <1>14. \A m \in 1..len : Buffered'[m].window = w => Buffered'[m].key < k
    BY <1>2, <1>9
  <1>15. ASSUME NEW n \in 1..len + 1
         PROVE  /\ lastRead[Buffered'[n].window] < Buffered'[n].key /\ Buffered'[n].key <= events
                /\ \A m \in 1..n-1 : Buffered'[m].window = Buffered'[n].window => Buffered'[m].key < Buffered'[n].key
                /\ \A j \in 1..Len(port'[Buffered'[n].window]) : Buffered'[n].key < port'[Buffered'[n].window][j].key
    <2>1. CASE n \in 1..len
      BY <1>9, <1>12, <2>1
    <2>2. CASE n = len + 1
      <3>1. n - 1 = len /\ Buffered'[n] = c
        BY <1>8, <2>2
      <3> QED
        BY <1>4, <1>14, <3>1
    <2> QED
      BY <1>13, <2>1, <2>2
  <1>16. KeysInOrder'
    BY <1>5, <1>10, <1>15 DEF KeysInOrder
  <1>17. KeysPast'
    BY <1>5, <1>15 DEF KeysPast
  <1> QED
    BY <1>11, <1>16, <1>17 DEF InOrder

LEMMA KeysTaken ==
  ASSUME Basics, InOrder, TakeMessage
  PROVE  InOrder'
  <1>0. RestOK
    BY TypeParts DEF Basics
  <1>1. PICK w \in Windows : w = Top.i
    BY TopPlaced DEF TakeMessage, Placed
  <1>2. /\ port[w] # <<>> /\ port' = [port EXCEPT ![w] = Tail(@)] /\ port \in [Windows -> Seq(Messages)]
        /\ UNCHANGED events
    BY <1>0, <1>1 DEF TakeMessage, RestOK, user
  <1>3. PICK msg \in Messages : msg = Head(port[w])
    BY <1>2
  <1>4. msg = port[w][1] /\ 1 \in 1..Len(port[w]) /\ msg.key \in Keys
    BY <1>2, <1>3 DEF Messages
  <1>5. \A v \in Windows : Shrunk(v)
    BY <1>2, ShrinksTo
  <1>6. UNCHANGED keyVars \/ (StoreKey(w, msg.key) /\ keybufLen < MAXKEYBUF)
    BY <1>1, <1>3 DEF TakeMessage, StoreKey
  <1>7. CASE UNCHANGED keyVars
    BY <1>2, <1>5, <1>7, KeysKept
  <1>8. CASE StoreKey(w, msg.key) /\ keybufLen < MAXKEYBUF
    <2>1. PICK k \in Keys : k = msg.key
      BY <1>4
    <2>2. lastRead[w] < k /\ k <= events
      BY <1>4, <2>1 DEF InOrder, PortsInOrder
    <2>3. \A n \in 1..keybufLen : Buffered[n].window = w => Buffered[n].key < k
      BY <1>4, <2>1 DEF InOrder, KeysInOrder
    <2>4. ASSUME NEW j \in 1..Len(port'[w])
          PROVE  k < port'[w][j].key
      <3>1. PICK m \in Nat : m = Len(port[w])
        BY <1>2
      <3>2. j \in 1..m - 1 /\ port'[w][j] = port[w][j + 1]
        BY <1>2, <3>1
      <3>3. j + 1 \in 1..m /\ 1 \in 1..(j + 1) - 1
        BY <3>2
      <3> QED
        BY <1>4, <2>1, <3>1, <3>2, <3>3 DEF InOrder, PortsInOrder
    <2> QED
      BY <1>2, <1>5, <1>8, <2>1, <2>2, <2>3, <2>4, KeysStored
  <1> QED
    BY <1>6, <1>7, <1>8

LEMMA KeysTyped ==
  ASSUME Basics, InOrder, NEW w \in Windows, NEW class \in {"CLOSEWINDOW", "RAWKEY"}, UserEvent(w, class)
  PROVE  InOrder'
  <1>0. RestOK
    BY TypeParts DEF Basics
  <1>1. PICK e \in Nat : e = events
    BY <1>0 DEF RestOK
  <1> DEFINE event == [class |-> class, key |-> e + 1]
  <1>2. event \in Messages /\ event.key = e + 1
    <2>1. e + 1 \in Keys
      BY SMTT(30), <1>0, <1>1 DEF UserEvent, RestOK, Keys
    <2> QED
      BY <2>1 DEF Messages
  <1> HIDE DEF event
  <1>13. PICK msg \in Messages : msg = event /\ msg.key = e + 1
    BY <1>2
  <1>3. /\ port' = [port EXCEPT ![w] = Append(@, msg)] /\ events' = e + 1
        /\ UNCHANGED keyVars /\ port \in [Windows -> Seq(Messages)]
    BY <1>0, <1>1, <1>13 DEF UserEvent, RestOK, event
  <1>4. /\ Len(port'[w]) = Len(port[w]) + 1 /\ Len(port[w]) \in Nat
        /\ port'[w][Len(port[w]) + 1] = msg
        /\ \A j \in 1..Len(port[w]) : port'[w][j] = port[w][j]
        /\ \A v \in Windows : v # w => port'[v] = port[v]
    BY <1>3
  <1>5. \A v \in Windows : \A j \in 1..Len(port'[v]) :
          \/ j \in 1..Len(port[v]) /\ port'[v][j] = port[v][j]
          \/ v = w /\ j = Len(port[w]) + 1 /\ port'[v][j] = msg
    <2>1. ASSUME NEW j \in 1..Len(port'[w])
          PROVE  \/ j \in 1..Len(port[w]) /\ port'[w][j] = port[w][j]
                 \/ j = Len(port[w]) + 1 /\ port'[w][j] = msg
      <3>1. PICK l \in Nat : l = Len(port[w])
        BY <1>4
      <3>2. j \in 1..l + 1
        BY <1>4, <3>1
      <3>3. j \in 1..l \/ j = l + 1
        BY <3>2
      <3> QED
        BY <1>4, <3>1, <3>3
    <2> QED
      BY <1>4, <2>1
  <1>6. Buffered' = Buffered /\ UNCHANGED <<keybufStart, keybufEnd, keybufLen, lastRead>>
    BY <1>3 DEF Buffered, keyVars
  <1>7. lastRead \in [Windows -> -1..MaxEvents]
    BY <1>0 DEF RestOK
  <1>8. ASSUME NEW v \in Windows
        PROVE  /\ lastRead[v] <= e + 1
               /\ \A j \in 1..Len(port'[v]) :
                    /\ lastRead[v] < port'[v][j].key /\ port'[v][j].key <= e + 1
                    /\ \A i \in 1..j-1 : port'[v][i].key < port'[v][j].key
    <2>1. lastRead[v] \in Int /\ lastRead[v] <= e
      BY <1>1, <1>7 DEF InOrder, PortsInOrder
    <2>2. ASSUME NEW j \in 1..Len(port[v])
          PROVE  /\ port[v][j].key \in Nat /\ lastRead[v] < port[v][j].key /\ port[v][j].key <= e
                 /\ \A i \in 1..j-1 : port[v][i].key < port[v][j].key
      <3>1. port[v][j] \in Messages
        BY <1>3
      <3> QED
        BY SMTT(30), <1>1, <3>1 DEF InOrder, PortsInOrder, Messages, Keys
    <2>3. ASSUME NEW j \in 1..Len(port'[v])
          PROVE  /\ lastRead[v] < port'[v][j].key /\ port'[v][j].key <= e + 1
                 /\ \A i \in 1..j-1 : port'[v][i].key < port'[v][j].key
      <3>1. Len(port[v]) \in Nat
        BY <1>3
      <3>2. CASE j \in 1..Len(port[v]) /\ port'[v][j] = port[v][j]
        <4>1. ASSUME NEW i \in 1..j-1
              PROVE  port'[v][i] = port[v][i]
          <5>1. i \in 1..Len(port[v]) /\ i # Len(port[v]) + 1
            BY <3>1, <3>2
          <5> QED
            BY <1>4, <5>1
        <4>2. /\ port[v][j].key \in Nat /\ lastRead[v] < port[v][j].key /\ port[v][j].key <= e
              /\ \A i \in 1..j-1 : port[v][i].key < port[v][j].key
          BY <2>2, <3>2
        <4>3. port'[v][j].key <= e + 1
          BY <3>2, <4>2
        <4> QED
          BY <3>2, <4>1, <4>2, <4>3
      <3>3. CASE v = w /\ j = Len(port[w]) + 1 /\ port'[v][j] = msg
        <4>1. ASSUME NEW i \in 1..j-1
              PROVE  port'[v][i].key < e + 1
          <5>1. i \in 1..Len(port[v])
            BY <3>1, <3>3
          <5>2. port[v][i].key \in Nat /\ port[v][i].key <= e
            BY <2>2, <5>1
          <5>3. port'[v][i] = port[v][i]
            BY <1>4, <3>3, <5>1
          <5> QED
            BY SMTT(30), <5>2, <5>3
        <4> QED
          BY SMTT(30), <1>13, <2>1, <3>3, <4>1
      <3> QED
        BY <1>5, <3>2, <3>3
    <2>4. lastRead[v] <= e + 1
      BY <2>1
    <2> QED
      BY <2>3, <2>4, Zenon
  <1>9. PortsInOrder'
    BY <1>3, <1>6, <1>8 DEF PortsInOrder
  <1>10. ASSUME NEW n \in 1..keybufLen
         PROVE  /\ Buffered[n].key <= e + 1
                /\ \A j \in 1..Len(port'[Buffered[n].window]) : Buffered[n].key < port'[Buffered[n].window][j].key
    <2>1. PICK v \in Windows, k \in Nat : v = Buffered[n].window /\ k = Buffered[n].key
      BY <1>0, BufferedTypes
    <2>2. k <= e /\ \A j \in 1..Len(port[v]) : k < port[v][j].key
      BY <1>1, <2>1 DEF InOrder, KeysInOrder, KeysPast
    <2>3. ASSUME NEW j \in 1..Len(port'[v])
          PROVE  k < port'[v][j].key
      <3>1. CASE j \in 1..Len(port[v]) /\ port'[v][j] = port[v][j]
        BY <2>2, <3>1
      <3>2. CASE port'[v][j] = msg
        BY <1>13, <2>2, <3>2
      <3> QED
        BY <1>5, <3>1, <3>2
    <2>4. k <= e + 1
      BY <2>2
    <2> QED
      BY <2>1, <2>3, <2>4
  <1>11. KeysInOrder'
    BY <1>6, <1>10 DEF InOrder, KeysInOrder
  <1>12. KeysPast'
    BY <1>3, <1>6, <1>10 DEF KeysPast
  <1> QED
    BY <1>9, <1>11, <1>12 DEF InOrder

LEMMA InOrderStep ==
  ASSUME Basics, InOrder, [Next]_vars
  PROVE  InOrder'
  <1>1. ASSUME UNCHANGED <<keyVars, events>>, \A w \in Windows : port'[w] = port[w] \/ port'[w] = <<>>
        PROVE  InOrder'
    BY <1>1, KeysKept, ShrinksTo
  <1>2. CASE UNCHANGED <<keyVars, events, port>>
    BY <1>1, <1>2
  <1>3. ASSUME NEW w \in Windows, WINDOW_CLOSE(w)
        PROVE  InOrder'
    <2>1. UNCHANGED <<keyVars, events>> /\ port' = [port EXCEPT ![w] = <<>>] /\ port \in [Windows -> Seq(Messages)]
      BY <1>3 DEF WINDOW_CLOSE, user, Basics, TypeOK
    <2> QED
      BY <1>1, <2>1
  <1>4. CASE SYSTEM
    BY <1>1, <1>4 DEF SYSTEM, user
  <1>5. CASE Statement
    BY <1>2, <1>3, <1>4, <1>5, KeysRead
       DEF Statement, ON_TIMER_CALL, TIMER_ON, TIMER_OFF, WINDOW, ON_WINDOW_CLOSE_CALL, VWAIT, windowVars, user
  <1>6. CASE Loop
    BY <1>2, <1>6, KeysTaken
       DEF Loop, SLEEP, Wake, CallTimer, Rearm, TimersDone, Reply, MessagesDone, EndSub, windowVars, user
  <1>7. CASE Devices
    <2>1. ASSUME NEW t \in Timers, Elapse(t)
          PROVE  InOrder'
      BY <1>2, <2>1 DEF Elapse, windowVars, user
    <2> QED
      BY <1>7, <2>1, KeysTyped DEF Devices
  <1>8. CASE UNCHANGED vars
    BY <1>2, <1>8 DEF vars, windowVars, user
  <1> QED
    BY <1>5, <1>6, <1>7, <1>8 DEF Next
-----------------------------------------------------------------------------
(* Every tick is in one place.                                             *)

Holds(act, t) == Pending(act, t) \/ Running(act, t)
NobodyHolds(t) == \A d \in 1..Len(stack) : ~Holds(stack[d], t)
OneHolds(t) == \E d \in 1..Len(stack) : Holds(stack[d], t) /\ \A e \in 1..Len(stack) : Holds(stack[e], t) => e = d
OnePlace(t) ==
  \/ sent[t] = 1 /\ timerport[t] \notin received /\ NobodyHolds(t)
  \/ sent[t] = 0 /\ timerport[t] \in received /\ NobodyHolds(t)
  \/ sent[t] = 0 /\ timerport[t] \notin received /\ OneHolds(t)
TicksPlaced == \A t \in Timers : timerport[t] # Closed => OnePlace(t)

LEMMA PlaceKept ==
  ASSUME Basics, NEW t \in Timers, OnePlace(t), UNCHANGED stack, timerport'[t] = timerport[t], sent'[t] = sent[t],
         timerport[t] \in received <=> timerport[t] \in received'
  PROVE  OnePlace(t)'
  BY DEF OnePlace, NobodyHolds, OneHolds, Holds, Pending, Running

(* The stack changes; who held the tick holds it still.                    *)
LEMMA HolderKept ==
  ASSUME Basics, stack # <<>>, NEW t \in Timers, UNCHANGED <<timerport, received>>, OnePlace(t), sent'[t] = sent[t],
         \/ Returned /\ ~Holds(Top, t)
         \/ \E act : Entered(act) /\ ~Holds(act, t)
         \/ \E act : (Replaced(act) \/ Called(act)) /\ (Holds(act, t) <=> Holds(Top, t))
  PROVE  OnePlace(t)'
  <1>1. Len(stack) \in Nat \ {0} /\ Top = stack[Len(stack)]
    BY DEF Basics, TypeOK, Top, Depth
  <1>2. /\ NobodyHolds(t)' <=> \A e \in 1..Len(stack') : ~Holds(stack'[e], t)
        /\ OneHolds(t)' <=> \E d \in 1..Len(stack') : Holds(stack'[d], t) /\ \A e \in 1..Len(stack') : Holds(stack'[e], t) => e = d
    BY DEF NobodyHolds, OneHolds, Holds, Pending, Running
  <1>3. /\ \A e \in 1..Len(stack') : Holds(stack'[e], t) => e \in 1..Len(stack) /\ Holds(stack[e], t)
        /\ \A e \in 1..Len(stack) : Holds(stack[e], t) => e \in 1..Len(stack') /\ Holds(stack'[e], t)
    <2>1. \A e \in 1..Len(stack) : e = Len(stack) \/ e \in 1..Len(stack) - 1
      BY <1>1
    <2>2. CASE Returned /\ ~Holds(Top, t)
      BY <1>1, <2>1, <2>2 DEF Returned
    <2>3. ASSUME NEW act, Entered(act), ~Holds(act, t)
          PROVE  /\ \A e \in 1..Len(stack') : Holds(stack'[e], t) => e \in 1..Len(stack) /\ Holds(stack[e], t)
                 /\ \A e \in 1..Len(stack) : Holds(stack[e], t) => e \in 1..Len(stack') /\ Holds(stack'[e], t)
      <3>1. \A e \in 1..Len(stack') : e = Len(stack) + 1 \/ e \in 1..Len(stack)
        BY <1>1, <2>3 DEF Entered
      <3> QED
        BY <1>1, <2>3, <3>1 DEF Entered
    <2>4. ASSUME NEW act, Replaced(act), Holds(act, t) <=> Holds(Top, t)
          PROVE  /\ \A e \in 1..Len(stack') : Holds(stack'[e], t) => e \in 1..Len(stack) /\ Holds(stack[e], t)
                 /\ \A e \in 1..Len(stack) : Holds(stack[e], t) => e \in 1..Len(stack') /\ Holds(stack'[e], t)
      BY <1>1, <2>1, <2>4 DEF Replaced
    <2>5. ASSUME NEW act, Called(act), Holds(act, t) <=> Holds(Top, t)
          PROVE  /\ \A e \in 1..Len(stack') : Holds(stack'[e], t) => e \in 1..Len(stack) /\ Holds(stack[e], t)
                 /\ \A e \in 1..Len(stack) : Holds(stack[e], t) => e \in 1..Len(stack') /\ Holds(stack'[e], t)
      <3>1. ~Holds(Program, t)
        BY DEF Holds, Pending, Running, Program
      <3>2. \A e \in 1..Len(stack') : e = Len(stack) + 1 \/ e = Len(stack) \/ e \in 1..Len(stack) - 1
        BY <1>1, <2>5 DEF Called
      <3>3. \A e \in 1..Len(stack) : e \in 1..Len(stack')
        BY <1>1, <2>5 DEF Called
      <3>4. \A e \in 1..Len(stack) - 1 : stack'[e] = stack[e] /\ e \in 1..Len(stack)
        BY <1>1, <2>5 DEF Called
      <3>5. /\ Len(stack) \in 1..Len(stack) /\ stack'[Len(stack)] = act
            /\ stack'[Len(stack) + 1] = Program /\ stack[Len(stack)] = Top
        BY <1>1, <2>5 DEF Called
      <3> QED
        BY <2>1, <2>5, <3>1, <3>2, <3>3, <3>4, <3>5
    <2> QED
      BY <2>2, <2>3, <2>4, <2>5
  <1>4. CASE NobodyHolds(t)
    <2>1. NobodyHolds(t)'
      BY <1>2, <1>3, <1>4 DEF NobodyHolds
    <2> QED
      BY <1>4, <2>1 DEF OnePlace, NobodyHolds, OneHolds
  <1>5. CASE OneHolds(t)
    <2>1. PICK d \in 1..Len(stack) : Holds(stack[d], t) /\ \A e \in 1..Len(stack) : Holds(stack[e], t) => e = d
      BY <1>5 DEF OneHolds
    <2>2. OneHolds(t)'
      BY <1>2, <1>3, <2>1
    <2>3. ~NobodyHolds(t)
      BY <2>1 DEF NobodyHolds
    <2> QED
      BY <2>2, <2>3 DEF OnePlace
  <1> QED
    BY <1>4, <1>5 DEF OnePlace

(* An activation takes all signals of the masks.                           *)
LEMMA SignalsTaken ==
  ASSUME Basics, stack # <<>>, NEW t \in Timers, timerport[t] # Closed, OnePlace(t), UNCHANGED <<timerport, sent>>,
         received' = received \ Masks, NEW signals, received \cap Masks \subseteq signals, signals \subseteq received,
         NEW act, Becomes(act, "timers", 1, signals),
         Entered(act) \/ (Replaced(act) /\ Top.pc = "wait")
  PROVE  OnePlace(t)'
  <1>1. Len(stack) \in Nat \ {0} /\ Top = stack[Len(stack)]
    BY DEF Basics, TypeOK, Top, Depth
  <1>2. /\ NobodyHolds(t)' <=> \A e \in 1..Len(stack') : ~Holds(stack'[e], t)
        /\ OneHolds(t)' <=> \E d \in 1..Len(stack') : Holds(stack'[d], t) /\ \A e \in 1..Len(stack') : Holds(stack'[e], t) => e = d
    BY DEF NobodyHolds, OneHolds, Holds, Pending, Running
  <1>3. timerport[t] \in Masks
    BY DEF Basics, TimersKept, Masks
  <1>4. timerport'[t] \notin received'
    BY <1>3
  <1>5. Holds(act, t) <=> timerport[t] \in received
    BY <1>3 DEF Holds, Pending, Running, Becomes, Timers
  <1>6. PICK n \in 1..Len(stack') :
          /\ stack'[n] = act
          /\ \A e \in 1..Len(stack') : e # n => e \in 1..Len(stack) /\ stack'[e] = stack[e]
          /\ \A e \in 1..Len(stack) : Holds(stack[e], t) => e # n /\ e \in 1..Len(stack') /\ stack'[e] = stack[e]
    <2>1. CASE Entered(act)
      <3>1. Len(stack) + 1 \in 1..Len(stack') /\ \A e \in 1..Len(stack') : e = Len(stack) + 1 \/ e \in 1..Len(stack)
        BY <1>1, <2>1 DEF Entered
      <3> QED
        BY <1>1, <2>1, <3>1 DEF Entered
    <2>2. CASE Replaced(act) /\ Top.pc = "wait"
      <3>1. \A e \in 1..Len(stack) : e = Len(stack) \/ e \in 1..Len(stack) - 1
        BY <1>1
      <3>2. ~Holds(Top, t)
        BY <2>2 DEF Holds, Pending, Running
      <3>3. /\ Len(stack') = Len(stack) /\ stack'[Len(stack)] = act /\ Len(stack) \in 1..Len(stack')
            /\ \A e \in 1..Len(stack) - 1 : stack'[e] = stack[e] /\ e \in 1..Len(stack)
        BY <1>1, <2>2 DEF Replaced
      <3>4. \A e \in 1..Len(stack) : Holds(stack[e], t) => e # Len(stack)
        BY <1>1, <3>2
      <3> QED
        BY <3>1, <3>3, <3>4
    <2> QED
      BY <2>1, <2>2
  <1>7. CASE timerport[t] \in received
    <2>1. sent[t] = 0 /\ NobodyHolds(t)
      BY <1>7 DEF OnePlace
    <2>2. OneHolds(t)'
      BY <1>2, <1>5, <1>6, <1>7, <2>1 DEF NobodyHolds
    <2> QED
      BY <1>4, <2>1, <2>2 DEF OnePlace
  <1>8. CASE timerport[t] \notin received /\ NobodyHolds(t)
    <2>1. NobodyHolds(t)'
      BY <1>2, <1>5, <1>6, <1>8 DEF NobodyHolds
    <2>2. sent[t] = 1
      BY <1>8 DEF OnePlace, NobodyHolds, OneHolds
    <2> QED
      BY <1>4, <2>1, <2>2 DEF OnePlace
  <1>9. CASE timerport[t] \notin received /\ OneHolds(t)
    <2>1. PICK d \in 1..Len(stack) : Holds(stack[d], t) /\ \A e \in 1..Len(stack) : Holds(stack[e], t) => e = d
      BY <1>9 DEF OneHolds
    <2>2. OneHolds(t)'
      BY <1>2, <1>5, <1>6, <1>9, <2>1
    <2>3. sent[t] = 0
      BY <2>1 DEF OnePlace, NobodyHolds
    <2> QED
      BY <1>4, <2>2, <2>3 DEF OnePlace
  <1> QED
    BY <1>7, <1>8, <1>9 DEF OnePlace

(* The statements; a callback starts no timer.                             *)
OnlyMainStarts == "TIMER ON" \notin CallbackOps

LEMMA TicksStatement ==
  ASSUME OnlyMainStarts, Basics, BitsApart, TicksPlaced, Statement
  PROVE  TicksPlaced'
  <1>1. SUFFICES ASSUME NEW t \in Timers, timerport'[t] # Closed
                 PROVE  OnePlace(t)'
    BY DEF TicksPlaced
  <1>0. /\ timerport \in [Timers -> Bits \cup {Closed}] /\ sent \in [Timers -> Nat]
        /\ stack \in Seq(Activation)
    BY DEF Basics, TypeOK
  <1>2. CASE UNCHANGED <<timerport, sent, received, stack>>
    BY <1>1, <1>2, PlaceKept DEF TicksPlaced
  <1>3. ASSUME NEW u \in Timers, TimerOff(u), UNCHANGED stack
        PROVE  OnePlace(t)'
    <2>1. t # u
      BY <1>0, <1>1, <1>3 DEF TimerOff
    <2>2. timerport'[t] = timerport[t] /\ sent'[t] = sent[t] /\ timerport[t] # Closed
      BY <1>0, <1>1, <1>3, <2>1 DEF TimerOff
    <2>3. timerport[u] # timerport[t]
      BY <2>1, <2>2 DEF BitsApart
    <2>4. timerport[t] \in received <=> timerport[t] \in received'
      BY <1>3, <2>3 DEF TimerOff
    <2> QED
      BY <1>3, <2>2, <2>4, PlaceKept DEF TicksPlaced
  <1>4. ASSUME NEW u \in Timers, ON_TIMER_CALL(u)
        PROVE  OnePlace(t)'
    <2>1. CASE u \in cb
      BY <1>3, <1>4, <2>1 DEF ON_TIMER_CALL
    <2>2. CASE u \notin cb
      <3>1. UNCHANGED <<sent, received, stack>> /\ timerport' = [timerport EXCEPT ![u] = Closed]
        BY <1>4, <2>2 DEF ON_TIMER_CALL
      <3>2. timerport'[t] = timerport[t]
        BY <1>0, <1>1, <3>1
      <3> QED
        BY <1>1, <3>1, <3>2, PlaceKept DEF TicksPlaced
    <2> QED
      BY <2>1, <2>2
  <1>5. ASSUME NEW u \in Timers, TIMER_ON(u), timerport[u] = Closed
        PROVE  OnePlace(t)'
    <2>1. PICK b \in AllocSignal :
            /\ timerport' = [timerport EXCEPT ![u] = b] /\ sent' = [sent EXCEPT ![u] = 1]
            /\ received' = received \ {b}
      BY <1>5 DEF TIMER_ON
    <2>2. UNCHANGED stack /\ At("program") /\ Depth = 1
      BY <1>5 DEF TIMER_ON, Executes, May, InMain, OnlyMainStarts
    <2>3. CASE t = u
      <3>1. timerport'[t] = b /\ sent'[t] = 1 /\ timerport'[t] \notin received'
        BY <1>0, <2>1, <2>3
      <3>2. \A d \in 1..Len(stack') : stack'[d].pc = "program"
        BY <2>2 DEF At, Top, Depth
      <3>3. NobodyHolds(t)'
        BY <3>2 DEF NobodyHolds, Holds, Pending, Running
      <3> QED
        BY <3>1, <3>3 DEF OnePlace
    <2>4. CASE t # u
      <3>1. timerport'[t] = timerport[t] /\ sent'[t] = sent[t]
        BY <1>0, <2>1, <2>4
      <3>2. timerport[t] # b
        BY AllocatedBit
      <3> QED
        BY <1>1, <2>1, <2>2, <3>1, <3>2, PlaceKept DEF TicksPlaced
    <2> QED
      BY <2>3, <2>4
  <1>6. ASSUME NEW u \in Timers, TIMER_ON(u), timerport[u] # Closed
        PROVE  OnePlace(t)'
    BY <1>2, <1>6 DEF TIMER_ON
  <1>7. ASSUME NEW w \in Windows, WINDOW(w)
        PROVE  OnePlace(t)'
    <2>1. PICK b \in AllocSignal : received' = received \ {b}
      BY <1>7 DEF WINDOW
    <2>2. UNCHANGED <<timerport, sent, stack>> /\ timerport[t] # b
      BY <1>7, AllocatedBit DEF WINDOW, timerVars
    <2> QED
      BY <1>1, <2>1, <2>2, PlaceKept DEF TicksPlaced
  <1>8. CASE VWAIT
    <2>1. stack # <<>> /\ UNCHANGED <<timerport, sent>> /\ received' = received \ Masks
      BY <1>8 DEF VWAIT, Executes, May, At, timerVars
    <2>2. PICK act : Entered(act) /\ Becomes(act, "timers", 1, received)
      BY <1>8, TakeSignalsStack
    <2>3. OnePlace(t) /\ timerport[t] # Closed
      BY <1>1, <2>1 DEF TicksPlaced
    <2>4. received \cap Masks \subseteq received /\ received \subseteq received
      OBVIOUS
    <2> QED
      BY <2>1, <2>2, <2>3, <2>4, SignalsTaken
  <1>9. CASE SYSTEM
    BY <1>1, <1>9 DEF SYSTEM
  <1> QED
    BY <1>2, <1>3, <1>4, <1>5, <1>6, <1>7, <1>8, <1>9
       DEF Statement, TIMER_OFF, WINDOW_CLOSE, ON_WINDOW_CLOSE_CALL, INKEY, timerVars

LEMMA TicksLoop ==
  ASSUME Basics, BitsApart, TicksPlaced, Loop
  PROVE  TicksPlaced'
  <1>1. SUFFICES ASSUME NEW t \in Timers, timerport'[t] # Closed
                 PROVE  OnePlace(t)'
    BY DEF TicksPlaced
  <1>2. UNCHANGED timerport /\ stack # <<>>
    BY DEF Loop, SLEEP, InMain, May, Executes, Wake, CallTimer, Rearm, TimersDone, TakeMessage, Reply, MessagesDone, EndSub, At,
           timerVars
  <1>3. OnePlace(t) /\ timerport[t] # Closed /\ t \in cb
    BY <1>1, <1>2 DEF TicksPlaced, Basics, TimersKept
  <1>4. CASE SLEEP
    <2>1. UNCHANGED <<received, sent>>
      BY <1>4 DEF SLEEP, timerVars
    <2>2. PICK act \in Activation : Entered(act) /\ act.pc = "wait"
      BY <1>4, WaitStack
    <2>3. ~Holds(act, t)
      BY <2>2 DEF Holds, Pending, Running
    <2> QED
      BY <1>2, <1>3, <2>1, <2>2, <2>3, HolderKept
  <1>5. CASE Wake
    <2>1. UNCHANGED sent /\ received' = received \ Masks /\ Top.pc = "wait"
      BY <1>5 DEF Wake, At, timerVars
    <2>2. PICK act : Replaced(act) /\ Becomes(act, "timers", 1, received \cap Masks)
      BY <1>5, WakeStack
    <2>3. received \cap Masks \subseteq received \cap Masks /\ received \cap Masks \subseteq received
      OBVIOUS
    <2> QED
      BY <1>2, <1>3, <2>1, <2>2, <2>3, SignalsTaken
  <1>6. CASE CallTimer
    <2>1. UNCHANGED <<received, sent>> /\ Top.pc = "timers" /\ At("timers")
      BY <1>6 DEF CallTimer, At, timerVars
    <2>2. PICK u \in Timers : \E act :
            /\ Called(act) /\ Becomes(act, "rearm", u, Top.signals)
            /\ u >= Top.i /\ Due(u, Top.signals)
            /\ \A x \in Top.i..u-1 : ~Due(x, Top.signals)
      BY <1>6, CallTimerStack
    <2>2a. PICK act :
             /\ Called(act) /\ Becomes(act, "rearm", u, Top.signals)
             /\ u >= Top.i /\ Due(u, Top.signals)
             /\ \A x \in Top.i..u-1 : ~Due(x, Top.signals)
      BY <2>2
    <2>3. Top.i \in Nat /\ t \in Nat /\ u \in Nat
      BY <2>1, TopPlaced DEF Placed, Timers
    <2>4. Holds(Top, t) <=> timerport[t] \in Top.signals /\ Top.i <= t
      BY <2>1 DEF Holds, Pending, Running
    <2>5. Holds(act, t) <=> (timerport[t] \in Top.signals /\ u < t) \/ u = t
      BY <2>2a DEF Holds, Pending, Running, Becomes
    <2>6. timerport[t] \in Top.signals /\ Top.i <= t => u <= t
      BY <1>3, <2>2a, <2>3 DEF Due
    <2>7. u = t => timerport[t] \in Top.signals /\ Top.i <= t
      BY <2>2a, <2>3 DEF Due
    <2>8. Holds(act, t) <=> Holds(Top, t)
      BY <2>2a, <2>3, <2>4, <2>5, <2>6, <2>7
    <2> QED
      BY <1>2, <1>3, <2>1, <2>2a, <2>8, HolderKept
  <1>7. CASE Rearm
    <2>1. UNCHANGED received /\ Top.pc = "rearm" /\ At("rearm")
      BY <1>7 DEF Rearm, At
    <2>2. PICK act : Replaced(act) /\ Becomes(act, "timers", Top.i + 1, Top.signals)
      BY <1>7, RearmStack
    <2>3. PICK u \in Timers : u = Top.i
      BY <2>1, TopPlaced DEF Placed
    <2>4. sent' = [sent EXCEPT ![u] = IF timerport[u] # Closed THEN @ + 1 ELSE @] /\ sent \in [Timers -> Nat]
      BY <1>7, <2>3 DEF Rearm, Basics, TypeOK
    <2>5. Holds(Top, t) <=> (timerport[t] \in Top.signals /\ u < t) \/ u = t
      BY <2>1, <2>3 DEF Holds, Pending, Running
    <2>6. Holds(act, t) <=> timerport[t] \in Top.signals /\ u + 1 <= t
      BY <2>2, <2>3 DEF Holds, Pending, Running, Becomes
    <2>7. CASE u # t
      <3>1. Holds(act, t) <=> Holds(Top, t)
        BY <2>5, <2>6, <2>7 DEF Timers
      <3>2. sent'[t] = sent[t]
        BY <2>4, <2>7
      <3> QED
        BY <1>2, <1>3, <2>1, <2>2, <3>1, <3>2, HolderKept
    <2>8. CASE u = t
      <3>1. Len(stack) \in 1..Len(stack) /\ Top = stack[Len(stack)] /\ Len(stack) \in Nat
        BY <2>1, TopPlaced
      <3>2. sent[t] = 0 /\ timerport[t] \notin received /\ OneHolds(t) /\ Holds(Top, t)
        BY <1>3, <2>5, <2>8, <3>1 DEF OnePlace, NobodyHolds
      <3>3. \A e \in 1..Len(stack) - 1 : ~Holds(stack[e], t)
        BY <3>1, <3>2 DEF OneHolds
      <3>4. ~Holds(act, t)
        BY <2>6, <2>8 DEF Timers
      <3>5. \A e \in 1..Len(stack') : ~Holds(stack'[e], t)
        <4>1. \A e \in 1..Len(stack') : e = Len(stack) \/ e \in 1..Len(stack) - 1
          BY <2>2, <3>1 DEF Replaced
        <4> QED
          BY <2>2, <3>3, <3>4, <4>1 DEF Replaced
      <3>6. NobodyHolds(t)'
        BY <1>2, <3>5 DEF NobodyHolds, Holds, Pending, Running
      <3>7. sent'[t] = 1
        BY <1>3, <2>4, <2>8, <3>2
      <3> QED
        BY <1>2, <2>1, <3>2, <3>6, <3>7 DEF OnePlace
    <2> QED
      BY <2>7, <2>8
  <1>8. ASSUME NEW pc \in {"timers", "messages"}, At(pc), NEW n \in Nat \ {0}, WindowsFrom(n),
               UNCHANGED <<received, sent>>, ~Holds(Top, t)
        PROVE  OnePlace(t)'
    <2>1. CASE Returned
      BY <1>2, <1>3, <1>8, <2>1, HolderKept
    <2>2. ASSUME NEW v, NEW act, Replaced(act), Becomes(act, "messages", v, Top.signals)
          PROVE  OnePlace(t)'
      <3>1. ~Holds(act, t)
        BY <2>2 DEF Becomes, Holds, Pending, Running
      <3> QED
        BY <1>2, <1>3, <1>8, <2>2, <3>1, HolderKept
    <2> QED
      BY <1>8, <2>1, <2>2, WindowStack
  <1>9. CASE TimersDone
    <2>1. /\ At("timers") /\ WindowsFrom(1) /\ UNCHANGED <<received, sent>> /\ Top.pc = "timers"
          /\ \A u \in Top.i..NumTimers : ~Due(u, Top.signals)
      BY <1>9 DEF TimersDone, At, timerVars
    <2>2. Top.i \in Nat /\ t \in Nat /\ t <= NumTimers
      BY <2>1, TopPlaced DEF Placed, Timers
    <2>3. ~Holds(Top, t)
      BY <1>3, <2>1, <2>2 DEF Holds, Pending, Running, Due
    <2> QED
      BY <1>8, <2>1, <2>3
  <1>10. CASE MessagesDone
    <2>1. /\ At("messages") /\ WindowsFrom(Top.i + 1) /\ UNCHANGED <<received, sent>> /\ Top.pc = "messages"
      BY <1>10 DEF MessagesDone, At, timerVars
    <2>2. PICK n \in Nat \ {0} : n = Top.i + 1
      BY <2>1, TopPlaced DEF Placed, Windows
    <2>3. ~Holds(Top, t)
      BY <2>1 DEF Holds, Pending, Running
    <2> QED
      BY <1>8, <2>1, <2>2, <2>3
  <1>11. CASE TakeMessage
    <2>1. UNCHANGED <<received, sent>> /\ Top.pc = "messages"
      BY <1>11 DEF TakeMessage, At, timerVars
    <2>2. CASE UNCHANGED stack
      BY <1>2, <1>3, <2>1, <2>2, PlaceKept
    <2>3. ASSUME NEW act, Called(act), Becomes(act, "reply", Top.i, Top.signals)
          PROVE  OnePlace(t)'
      <3>1. Holds(act, t) <=> Holds(Top, t)
        BY <2>1, <2>3 DEF Becomes, Holds, Pending, Running
      <3> QED
        BY <1>2, <1>3, <2>1, <2>3, <3>1, HolderKept
    <2> QED
      BY <1>11, <2>2, <2>3, TakeMessageStack
  <1>12. CASE Reply
    <2>1. UNCHANGED <<received, sent>> /\ Top.pc = "reply"
      BY <1>12 DEF Reply, At, timerVars
    <2>2. PICK act : Replaced(act) /\ Becomes(act, "messages", Top.i, Top.signals)
      BY <1>12, ReplyStack
    <2>3. Holds(act, t) <=> Holds(Top, t)
      BY <2>1, <2>2 DEF Becomes, Holds, Pending, Running
    <2> QED
      BY <1>2, <1>3, <2>1, <2>2, <2>3, HolderKept
  <1>13. CASE EndSub
    <2>1. UNCHANGED <<received, sent>> /\ Top.pc = "program" /\ Return /\ stack \in Seq(Activation)
      BY <1>13 DEF EndSub, At, timerVars, Basics, TypeOK
    <2>2. Returned /\ ~Holds(Top, t)
      BY <1>2, <2>1, ReturnStack DEF Holds, Pending, Running
    <2> QED
      BY <1>2, <1>3, <2>1, <2>2, HolderKept
  <1> QED
    BY <1>4, <1>5, <1>6, <1>7, <1>9, <1>10, <1>11, <1>12, <1>13 DEF Loop

LEMMA TicksDevices ==
  ASSUME Basics, BitsApart, TicksPlaced, Devices
  PROVE  TicksPlaced'
  <1>1. SUFFICES ASSUME NEW t \in Timers, timerport'[t] # Closed
                 PROVE  OnePlace(t)'
    BY DEF TicksPlaced
  <1>2. ASSUME NEW u \in Timers, Elapse(u)
        PROVE  OnePlace(t)'
    <2>1. /\ UNCHANGED <<timerport, stack>> /\ sent' = [sent EXCEPT ![u] = @ - 1]
          /\ received' = received \cup {timerport[u]} /\ sent[u] > 0 /\ sent \in [Timers -> Nat]
      BY <1>2 DEF Elapse, Basics, TypeOK
    <2>2. CASE u = t
      <3>1. sent[t] = 1 /\ NobodyHolds(t)
        BY <1>1, <2>1, <2>2 DEF TicksPlaced, OnePlace
      <3>2. sent'[t] = 0 /\ timerport'[t] \in received'
        BY <2>1, <2>2, <3>1
      <3>3. NobodyHolds(t)'
        BY <2>1, <3>1 DEF NobodyHolds, Holds, Pending, Running
      <3> QED
        BY <3>2, <3>3 DEF OnePlace
    <2>3. CASE u # t
      <3>1. timerport[u] # timerport[t] /\ sent'[t] = sent[t]
        BY <1>1, <2>1, <2>3 DEF BitsApart
      <3> QED
        BY <1>1, <2>1, <3>1, PlaceKept DEF TicksPlaced
    <2> QED
      BY <2>2, <2>3
  <1>3. ASSUME NEW w \in Windows, NEW class \in {"CLOSEWINDOW", "RAWKEY"}, UserEvent(w, class)
        PROVE  OnePlace(t)'
    <2>1. UNCHANGED <<timerport, sent, stack>> /\ received' = received \cup {win[w]} /\ win[w] # Closed
      BY <1>3 DEF UserEvent, timerVars
    <2>2. win[w] # timerport[t]
      BY <2>1 DEF BitsApart
    <2> QED
      BY <1>1, <2>1, <2>2, PlaceKept DEF TicksPlaced
  <1> QED
    BY <1>2, <1>3 DEF Devices
-----------------------------------------------------------------------------
(* The theorems.                                                           *)

IInv == Basics /\ BitsApart /\ MessagesAnnounced /\ InOrder

LEMMA InitHolds == Init => IInv /\ TicksPlaced
  <1> SUFFICES ASSUME Init
               PROVE  IInv /\ TicksPlaced
    OBVIOUS
  <1>1. Basics
    <2>1. Program \in Activation /\ Program.pc = "program"
      BY NewActivation
    <2>2. [window |-> 1, key |-> 0] \in Characters
      BY DEF Characters, Windows, Keys
    <2>3. RestOK
      BY <2>2 DEF Init, RestOK
    <2>4. stack \in Seq(Activation) /\ ActivationsPlaced
      BY <2>1 DEF Init, ActivationsPlaced, Placed
    <2>5. TimersKept /\ WindowsKept
      BY DEF Init, TimersKept, WindowsKept
    <2> QED
      BY <2>3, <2>4, <2>5, TypeParts DEF Basics
  <1>2. BitsApart /\ MessagesAnnounced /\ TicksPlaced
    BY DEF Init, BitsApart, MessagesAnnounced, TicksPlaced
  <1>3. PortsInOrder
    BY DEF Init, PortsInOrder
  <1>4. ASSUME NEW n \in 1..keybufLen
        PROVE  n = 1 /\ Buffered[n] = [window |-> 1, key |-> 0]
    <2>1. n = 1 /\ keybufStart + n - 1 = MAXKEYBUF - 1 /\ MAXKEYBUF - 1 \in 0..2 * MAXKEYBUF - 1
      BY DEF Init
    <2>2. (MAXKEYBUF - 1) % MAXKEYBUF = MAXKEYBUF - 1
      BY <2>1, Wraps
    <2> QED
      BY <2>1, <2>2 DEF Init, Buffered
  <1>5. KeysPast
    BY <1>4 DEF Init, KeysPast
  <1>6. (keybufStart + keybufLen) % MAXKEYBUF = keybufEnd
    <2>1. MAXKEYBUF \in 0..2 * MAXKEYBUF - 1 /\ (MAXKEYBUF - 1) + 1 = MAXKEYBUF
      OBVIOUS
    <2>2. MAXKEYBUF % MAXKEYBUF = 0
      BY <2>1, Wraps
    <2> QED
      BY <2>1, <2>2 DEF Init
  <1>7. KeysInOrder
    BY <1>4, <1>6 DEF Init, KeysInOrder, Windows
  <1> QED
    BY <1>1, <1>2, <1>3, <1>5, <1>7 DEF IInv, InOrder

LEMMA StepHolds == IInv /\ [Next]_vars => IInv'
  <1> SUFFICES ASSUME IInv, [Next]_vars
               PROVE  IInv'
    OBVIOUS
  <1>1. Basics' /\ BitsApart' /\ InOrder'
    BY BasicsStep, BitsApartStep, InOrderStep DEF IInv
  <1>2. ASSUME UNCHANGED vars
        PROVE  MessagesAnnounced'
    BY <1>2 DEF IInv, MessagesAnnounced, Awaits, vars, windowVars
  <1>3. MessagesAnnounced'
    BY <1>2, MessagesAnnouncedStatement, MessagesAnnouncedLoop, MessagesAnnouncedDevices DEF IInv, Next
  <1> QED
    BY <1>1, <1>3 DEF IInv

LEMMA TicksStep == OnlyMainStarts /\ IInv /\ TicksPlaced /\ [Next]_vars => TicksPlaced'
  <1> SUFFICES ASSUME OnlyMainStarts, IInv, TicksPlaced, [Next]_vars
               PROVE  TicksPlaced'
    OBVIOUS
  <1>1. CASE UNCHANGED vars
    BY <1>1 DEF TicksPlaced, OnePlace, NobodyHolds, OneHolds, Holds, Pending, Running, vars, timerVars
  <1> QED
    BY <1>1, TicksStatement, TicksLoop, TicksDevices DEF IInv, Next

(* The invariant that carries the others.  A port's signal bit is its own, *)
(* an open port has its bit in a mask, the loop of an activation stands at *)
(* a timer or a window there is, and what is at a port is younger than     *)
(* what is in the buffer (atimer.c, awindow.c).                            *)
THEOREM Inductive == Spec => []IInv
  <1>1. Init => IInv
    BY InitHolds
  <1> QED
    BY <1>1, StepHolds, PTL DEF Spec

(* No click and no key is left at a port unannounced, and INKEY$ gets the  *)
(* keys of a window in the order they were typed, whatever SUBs are called *)
(* back and sleep in one another (awindow.c _handleSignals, INKEY_).       *)
THEOREM ConsistentHolds == Spec => []Consistent
  <1>1. IInv => Consistent
    BY DEF IInv, Basics, InOrder, Consistent
  <1> QED
    BY <1>1, Inductive, PTL

LEMMA PlaceIsOne ==
  ASSUME Basics, NEW t \in Timers, OnePlace(t)
  PROVE  \E p \in Places(t) : Places(t) = {p}
  <1> DEFINE device == {<<"device", n>> : n \in 1..sent[t]}
             signal == {<<"signal", b>> : b \in received \cap {timerport[t]}}
             loop == {<<"loop", d>> : d \in {e \in 1..Len(stack) : Pending(stack[e], t) \/ Running(stack[e], t)}}
  <1>1. Places(t) = device \cup signal \cup loop
    BY DEF Places
  <1>2. NobodyHolds(t) => loop = {}
    BY DEF NobodyHolds, Holds
  <1>3. OneHolds(t) => \E d : loop = {<<"loop", d>>}
    <2> SUFFICES ASSUME OneHolds(t)
                 PROVE  \E d : loop = {<<"loop", d>>}
      OBVIOUS
    <2>1. PICK d \in 1..Len(stack) : Holds(stack[d], t) /\ \A e \in 1..Len(stack) : Holds(stack[e], t) => e = d
      BY DEF OneHolds
    <2>2. {e \in 1..Len(stack) : Pending(stack[e], t) \/ Running(stack[e], t)} = {d}
      BY <2>1 DEF Holds
    <2> QED
      BY ZenonT(30), <2>2
  <1>4. sent[t] = 0 => device = {}
    OBVIOUS
  <1>5. sent[t] = 1 => device = {<<"device", 1>>}
    <2> SUFFICES ASSUME sent[t] = 1
                 PROVE  device = {<<"device", 1>>}
      OBVIOUS
    <2>1. 1..sent[t] = {1}
      OBVIOUS
    <2> QED
      BY <2>1
  <1>6. timerport[t] \notin received => signal = {}
    OBVIOUS
  <1>7. timerport[t] \in received => signal = {<<"signal", timerport[t]>>}
    OBVIOUS
  <1> HIDE DEF device, signal, loop
  <1> QED
    BY <1>1, <1>2, <1>3, <1>4, <1>5, <1>6, <1>7 DEF OnePlace

(* No timer stops for good and none's request is linked twice, if the SUBs *)
(* called back turn no timer on: one that turns its own timer off and on   *)
(* has the loop send its request again behind it (atimer.c                 *)
(* _atimer_process_signals, TIMER_ON).                                     *)
THEOREM TickInOnePlaceHolds ==
  ASSUME OnlyMainStarts
  PROVE  Spec => []TickInOnePlace
  <1>1. Init => IInv /\ TicksPlaced
    BY InitHolds
  <1>2. IInv /\ TicksPlaced /\ [Next]_vars => (IInv /\ TicksPlaced)'
    BY StepHolds, TicksStep
  <1>3. IInv /\ TicksPlaced => TickInOnePlace
    BY PlaceIsOne DEF IInv, TicksPlaced, TickInOnePlace
  <1> QED
    BY <1>1, <1>2, <1>3, PTL DEF Spec
=============================================================================
