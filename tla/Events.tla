------------------------------- MODULE Events -------------------------------
(***************************************************************************)
(* The event loop of a running BASIC program (src/lib/_aqb): the timers of *)
(* atimer.c and the windows, the key buffer and _handleSignals of          *)
(* awindow.c, all run by the one task of the program.  timer.device and    *)
(* Intuition answer through message ports, each of which owns one signal   *)
(* bit of the task.  A SUB called back from the loop may sleep itself, so  *)
(* the loop is a stack of activations, each with its own copy of the       *)
(* signals it took from the task.                                          *)
(***************************************************************************)
EXTENDS Integers, Sequences, SequencesExt

CONSTANTS
  NumTimers,     (* MAX_NUM_TIMERS                                           *)
  NumWindows,    (* MAX_NUM_WINDOWS                                          *)
  Bits,          (* signal bits AllocSignal can hand out                     *)
  MAXKEYBUF,     (* characters the key buffer holds                          *)
  MainOps,       (* statements the main program executes                     *)
  CallbackOps,   (* statements the SUBs called back execute                  *)
  MaxStatements, (* bound: statements executed, but for the main program's   *)
                 (* SLEEP, the first WINDOW and INKEY$                       *)
  MaxEvents,     (* bound: things the user does                              *)
  MaxClicks,     (* bound: those of them that are clicks on a close gadget   *)
  MaxDepth       (* bound: activations on the stack when a SUB sleeps         *)

Statements == {"ON TIMER CALL", "TIMER ON", "TIMER OFF", "WINDOW", "WINDOW CLOSE",
               "ON WINDOW CLOSE CALL", "SLEEP", "VWAIT", "INKEY$", "SYSTEM"}

ASSUME EventsAssumption ==
  /\ {NumTimers, NumWindows, MAXKEYBUF, MaxDepth} \subseteq Nat \ {0}
  /\ {MaxStatements, MaxEvents, MaxClicks} \subseteq Nat
  /\ Bits \subseteq Nat
  /\ MainOps \subseteq Statements /\ CallbackOps \subseteq Statements

Timers == 1..NumTimers
Windows == 1..NumWindows
Keys == 0..MaxEvents      (* numbered in the order the user does things; 0 is  *)
                          (* what was typed before                             *)
Closed == -1              (* no port: a pointer that is NULL                 *)
Characters == [window : Windows, key : Keys]
Messages == [class : {"CLOSEWINDOW", "RAWKEY"}, key : Keys]
NoMessage == [class |-> "none", key |-> 0]

VARIABLES
  cb,         (* g_timers[].cb: timers a SUB has been given for              *)
  timerport,  (* g_timers[].timerport: its signal bit, or Closed             *)
  sent,       (* how often g_timers[].timer_io is linked in timer.device     *)
  win,        (* _g_winlist[].win: the bit of its UserPort, or Closed        *)
  closeCb,    (* windows with an aqb_close_cb                                *)
  port,       (* messages at the UserPort of every window                    *)
  received,   (* tc_SigRecvd of the task                                     *)
  tmask,      (* _g_signalmask_atimer                                        *)
  wmask,      (* _g_signalmask_awindow                                       *)
  stack,      (* activations, the main program first                         *)
  keybuf, keybufStart, keybufEnd, keybufLen,
  lastRead,   (* the last key INKEY$ has returned of those of a window       *)
  statements, (* executed so far, of those that are bounded                  *)
  events,     (* things the user has done so far                             *)
  clicks      (* those of them that are clicks on a close gadget             *)

timerVars == <<cb, timerport, sent, tmask>>
windowVars == <<win, closeCb, port, wmask>>
keyVars == <<keybuf, keybufStart, keybufEnd, keybufLen, lastRead>>
user == <<events, clicks>>
vars == <<timerVars, windowVars, received, stack, keyVars, statements, user>>

(* An activation: where it is, the signals it took, the timer or window    *)
(* its loop has come to and the message it handles.                        *)
Activation == [pc : {"program", "wait", "timers", "rearm", "messages", "reply"},
               signals : SUBSET Bits, i : Nat, msg : Messages \cup {NoMessage}]
Program == [pc |-> "program", signals |-> {}, i |-> 0, msg |-> NoMessage]

TypeOK ==
  /\ cb \subseteq Timers
  /\ timerport \in [Timers -> Bits \cup {Closed}]
  /\ sent \in [Timers -> Nat]
  /\ win \in [Windows -> Bits \cup {Closed}]
  /\ closeCb \subseteq Windows
  /\ port \in [Windows -> Seq(Messages)]
  /\ {received, tmask, wmask} \subseteq SUBSET Bits
  /\ stack \in Seq(Activation)
  /\ keybuf \in [0..MAXKEYBUF-1 -> Characters]
  /\ {keybufStart, keybufEnd} \subseteq 0..MAXKEYBUF-1 /\ keybufLen \in 0..MAXKEYBUF
  /\ lastRead \in [Windows -> -1..MaxEvents]
  /\ statements \in 0..MaxStatements /\ events \in 0..MaxEvents /\ clicks \in 0..MaxClicks
(* The program before or behind its registrations: it has named no SUB, or *)
(* one for every timer and every window's close gadget.  One character     *)
(* is left of what was typed into window 1 before it was closed, in the    *)
(* last place of the buffer.                                               *)
Init ==
  /\ \/ cb = Timers /\ closeCb = Windows
     \/ cb = {} /\ closeCb = {}
  /\ timerport = [t \in Timers |-> Closed] /\ sent = [t \in Timers |-> 0]
  /\ win = [w \in Windows |-> Closed] /\ port = [w \in Windows |-> <<>>]
  /\ received = {} /\ tmask = {} /\ wmask = {}
  /\ stack = <<Program>>
  /\ keybuf = [n \in 0..MAXKEYBUF-1 |-> [window |-> 1, key |-> 0]]
  /\ keybufStart = MAXKEYBUF - 1 /\ keybufEnd = 0 /\ keybufLen = 1
  /\ lastRead = [w \in Windows |-> -1]
  /\ statements = 0 /\ events = 0 /\ clicks = 0
-----------------------------------------------------------------------------
(* Signal bits: a port that exists owns one.                               *)
UsedBits == ({timerport[t] : t \in Timers} \cup {win[w] : w \in Windows}) \ {Closed}
FreeBits == Bits \ UsedBits
(* exec searches in one direction, so a bit given back is handed out again *)
(* as soon as it is the first that is free.                                *)
AllocSignal == {b \in FreeBits : \A c \in FreeBits : b <= c}

Depth == Len(stack)
Top == stack[Depth]
At(pc) == stack # <<>> /\ Top.pc = pc
Goto(act) == stack' = [stack EXCEPT ![Depth] = act]
Call(act) == stack' = Append([stack EXCEPT ![Depth] = act], Program)
Return == stack' = Front(stack)

InMain == At("program") /\ Depth = 1
May(op) == At("program") /\ op \in (IF InMain THEN MainOps ELSE CallbackOps)
Executes(op) ==
  /\ May(op)
  /\ statements < MaxStatements
  /\ statements' = statements + 1
-----------------------------------------------------------------------------
(* TIMER_OFF's part behind its range check.  AbortIO makes timer.device    *)
(* return the request if it still has it, which signals the port; then     *)
(* request, port and bit are given back.                                   *)
TimerOff(t) ==
  /\ sent' = [sent EXCEPT ![t] = 0]
  /\ received' = received \cup (IF sent[t] > 0 THEN {timerport[t]} ELSE {})
  /\ timerport' = [timerport EXCEPT ![t] = Closed]

TIMER_OFF(t) ==
  /\ Executes("TIMER OFF")
  /\ TimerOff(t)
  /\ UNCHANGED <<cb, tmask, windowVars, stack, keyVars, user>>

ON_TIMER_CALL(t) ==
  /\ Executes("ON TIMER CALL")
  /\ cb' = cb \cup {t}
  /\ IF t \in cb THEN TimerOff(t)
     ELSE /\ timerport' = [timerport EXCEPT ![t] = Closed]
          /\ UNCHANGED <<sent, received>>
  /\ UNCHANGED <<tmask, windowVars, stack, keyVars, user>>

\* Mutant: no test whether the timer is on already.
TIMER_ON_Again(t) ==
  /\ Executes("TIMER ON")
  /\ t \in cb
  /\ \E b \in AllocSignal :
       /\ timerport' = [timerport EXCEPT ![t] = b]
       /\ sent' = [sent EXCEPT ![t] = @ + 1]
       /\ tmask' = tmask \cup {b}
       /\ received' = received \ {b}
  /\ UNCHANGED <<cb, windowVars, stack, keyVars, user>>

(* A timer that is already on is left alone; AllocSignal clears the bit it *)
(* hands out.                                                              *)
TIMER_ON(t) ==
  /\ Executes("TIMER ON")
  /\ t \in cb
  /\ IF timerport[t] # Closed
     THEN UNCHANGED <<timerport, sent, tmask, received>>
     ELSE \E b \in AllocSignal :
            /\ timerport' = [timerport EXCEPT ![t] = b]
            /\ sent' = [sent EXCEPT ![t] = 1]
            /\ tmask' = tmask \cup {b}
            /\ received' = received \ {b}
  /\ UNCHANGED <<cb, windowVars, stack, keyVars, user>>

(* timer.device: the time is over.                                         *)
Elapse(t) ==
  /\ sent[t] > 0
  /\ sent' = [sent EXCEPT ![t] = @ - 1]
  /\ received' = received \cup {timerport[t]}
  /\ UNCHANGED <<cb, timerport, tmask, windowVars, stack, keyVars, statements, user>>
-----------------------------------------------------------------------------
WINDOW(w) ==
  /\ \/ May("WINDOW") /\ wmask = {} /\ UNCHANGED statements
     \/ Executes("WINDOW") /\ wmask # {}
  /\ win[w] = Closed
  /\ \E b \in AllocSignal :
       /\ win' = [win EXCEPT ![w] = b]
       /\ wmask' = wmask \cup {b}
       /\ received' = received \ {b}
  /\ UNCHANGED <<timerVars, closeCb, port, stack, keyVars, user>>

WINDOW_CLOSE(w) ==
  /\ Executes("WINDOW CLOSE")
  /\ win[w] # Closed
  /\ win' = [win EXCEPT ![w] = Closed]
  /\ port' = [port EXCEPT ![w] = <<>>]
  /\ UNCHANGED <<timerVars, closeCb, wmask, received, stack, keyVars, user>>

ON_WINDOW_CLOSE_CALL(w) ==
  /\ Executes("ON WINDOW CLOSE CALL")
  /\ closeCb' = closeCb \cup {w}
  /\ UNCHANGED <<timerVars, win, port, wmask, received, stack, keyVars, user>>

(* A statement whose check fails: no SUB given for the timer, a window open *)
(* or not open, no signal bit left.                                        *)
Fails ==
  \/ May("TIMER ON") /\ \E t \in Timers : t \notin cb \/ (timerport[t] = Closed /\ FreeBits = {})
  \/ May("WINDOW") /\ \E w \in Windows : win[w] # Closed \/ FreeBits = {}
  \/ May("WINDOW CLOSE") /\ \E w \in Windows : win[w] = Closed

(* SYSTEM, and ERROR when no ON ERROR handler resumes (one that does       *)
(* leaves everything as it is).  _aqb_shutdown turns every timer off and   *)
(* closes every window, whatever activations are left on the stack.        *)
SYSTEM ==
  /\ May("SYSTEM") \/ Fails
  /\ sent' = [t \in Timers |-> 0]
  /\ timerport' = [t \in Timers |-> Closed]
  /\ received' = received \cup {timerport[t] : t \in {x \in Timers : sent[x] > 0}}
  /\ win' = [w \in Windows |-> Closed]
  /\ port' = [w \in Windows |-> <<>>]
  /\ stack' = <<>>
  /\ UNCHANGED <<cb, tmask, closeCb, wmask, keyVars, statements, user>>
-----------------------------------------------------------------------------
(* _handleSignals.  SLEEP waits for a signal; VWAIT and SLEEP FOR take what *)
(* is there (SetSignal clears only the bits of the masks).                 *)
Masks == tmask \cup wmask

(* The test of the timers' mask saves nothing but time.                    *)
Timing(signals) == [pc |-> "timers", signals |-> signals, i |-> 1, msg |-> NoMessage]

Enter(act) == stack' = Append(stack, act)

SLEEP ==
  /\ \/ InMain /\ UNCHANGED statements
     \/ ~InMain /\ Executes("SLEEP") /\ Depth <= MaxDepth
  /\ Enter([Program EXCEPT !.pc = "wait"])
  /\ UNCHANGED <<timerVars, windowVars, received, keyVars, user>>

Wake ==
  /\ At("wait")
  /\ received \cap Masks # {}
  /\ Goto(Timing(received \cap Masks))
  /\ received' = received \ Masks
  /\ UNCHANGED <<timerVars, windowVars, keyVars, statements, user>>

VWAIT ==
  /\ Executes("VWAIT")
  /\ InMain \/ Depth <= MaxDepth
  /\ Enter(Timing(received))
  /\ received' = received \ Masks
  /\ UNCHANGED <<timerVars, windowVars, keyVars, user>>

(* _atimer_process_signals: the timers whose port's bit is among the       *)
(* signals, in order.  Every round looks at the timer as it is by then.    *)
Due(t, signals) == t \in cb /\ timerport[t] \in signals

CallTimer ==
  /\ At("timers")
  /\ \E t \in Top.i..NumTimers :
       /\ Due(t, Top.signals)
       /\ \A u \in Top.i..t-1 : ~Due(u, Top.signals)
       /\ Call([Top EXCEPT !.pc = "rearm", !.i = t])
  /\ UNCHANGED <<timerVars, windowVars, received, keyVars, statements, user>>

\* Mutant: the request is not sent again.
RearmForgotten ==
  /\ At("rearm")
  /\ Goto([Top EXCEPT !.pc = "timers", !.i = @ + 1])
  /\ UNCHANGED <<timerVars, windowVars, received, keyVars, statements, user>>

(* Behind the callback: a timer that is on is sent again.                  *)
Rearm ==
  /\ At("rearm")
  /\ sent' = [sent EXCEPT ![Top.i] = IF timerport[Top.i] # Closed THEN @ + 1 ELSE @]
  /\ Goto([Top EXCEPT !.pc = "timers", !.i = @ + 1])
  /\ UNCHANGED <<cb, timerport, tmask, windowVars, received, keyVars, statements, user>>

(* On to the windows: of those whose UserPort's bit is among the signals,  *)
(* the next one, all of whose messages come before those of the one after. *)
Signalled(w, signals) == win[w] \in signals
WindowsFrom(w) ==
  IF \E v \in w..NumWindows : Signalled(v, Top.signals)
  THEN \E v \in w..NumWindows :
         /\ Signalled(v, Top.signals)
         /\ \A u \in w..v-1 : ~Signalled(u, Top.signals)
         /\ Goto([Top EXCEPT !.pc = "messages", !.i = v])
  ELSE Return

TimersDone ==
  /\ At("timers")
  /\ \A t \in Top.i..NumTimers : ~Due(t, Top.signals)
  /\ WindowsFrom(1)
  /\ UNCHANGED <<timerVars, windowVars, received, keyVars, statements, user>>

\* Mutant: no test for room in the buffer.
StoreKeyAlways(w, k) ==
  /\ keybuf' = [keybuf EXCEPT ![keybufEnd] = [window |-> w, key |-> k]]
  /\ keybufEnd' = (keybufEnd + 1) % MAXKEYBUF
  /\ keybufLen' = keybufLen + 1
  /\ UNCHANGED <<keybufStart, lastRead>>
(* The RAWKEY case: a character goes to the buffer if there is room.       *)
StoreKey(w, k) ==
  IF keybufLen < MAXKEYBUF
  THEN /\ keybuf' = [keybuf EXCEPT ![keybufEnd] = [window |-> w, key |-> k]]
       /\ keybufEnd' = (keybufEnd + 1) % MAXKEYBUF
       /\ keybufLen' = keybufLen + 1
       /\ UNCHANGED <<keybufStart, lastRead>>
  ELSE UNCHANGED keyVars

TakeMessage ==
  /\ At("messages")
  /\ port[Top.i] # <<>>
  /\ port' = [port EXCEPT ![Top.i] = Tail(@)]
  /\ LET w == Top.i
         msg == Head(port[w])
     IN  CASE msg.class = "RAWKEY" -> StoreKey(w, msg.key) /\ UNCHANGED stack
           [] msg.class = "CLOSEWINDOW" /\ w \in closeCb ->
                Call([Top EXCEPT !.pc = "reply", !.msg = msg]) /\ UNCHANGED keyVars
           [] OTHER -> UNCHANGED <<stack, keyVars>>
  /\ UNCHANGED <<timerVars, win, closeCb, wmask, received, statements, user>>

Reply ==
  /\ At("reply")
  /\ Goto([Top EXCEPT !.pc = "messages", !.msg = NoMessage])
  /\ UNCHANGED <<timerVars, windowVars, received, keyVars, statements, user>>

MessagesDone ==
  /\ At("messages")
  /\ port[Top.i] = <<>>
  /\ WindowsFrom(Top.i + 1)
  /\ UNCHANGED <<timerVars, windowVars, received, keyVars, statements, user>>

(* A SUB that was called back ends.                                        *)
EndSub ==
  /\ At("program") /\ Depth > 1
  /\ Return
  /\ UNCHANGED <<timerVars, windowVars, received, keyVars, statements, user>>

(* INKEY$ with a window open: the oldest character.  (Without one it       *)
(* returns the empty string and changes nothing.)                          *)
INKEY ==
  /\ May("INKEY$")
  /\ keybufLen > 0
  /\ LET c == keybuf[keybufStart] IN lastRead' = [lastRead EXCEPT ![c.window] = c.key]
  /\ keybufStart' = (keybufStart + 1) % MAXKEYBUF
  /\ keybufLen' = keybufLen - 1
  /\ UNCHANGED <<keybuf, keybufEnd, timerVars, windowVars, received, stack, statements, user>>

(* Intuition: the user types into a window or clicks its close gadget.     *)
UserEvent(w, class) ==
  /\ win[w] # Closed
  /\ events < MaxEvents
  /\ class = "CLOSEWINDOW" => clicks < MaxClicks
  /\ clicks' = clicks + (IF class = "CLOSEWINDOW" THEN 1 ELSE 0)
  /\ events' = events + 1
  /\ port' = [port EXCEPT ![w] = Append(@, [class |-> class, key |-> events + 1])]
  /\ received' = received \cup {win[w]}
  /\ UNCHANGED <<timerVars, win, closeCb, wmask, stack, keyVars, statements>>

Statement ==
  \/ \E t \in Timers : ON_TIMER_CALL(t) \/ TIMER_ON(t) \/ TIMER_OFF(t)
  \/ \E w \in Windows : WINDOW(w) \/ WINDOW_CLOSE(w) \/ ON_WINDOW_CLOSE_CALL(w)
  \/ VWAIT \/ INKEY \/ SYSTEM

Loop ==
  \/ SLEEP \/ Wake \/ CallTimer \/ Rearm \/ TimersDone
  \/ TakeMessage \/ Reply \/ MessagesDone \/ EndSub

Devices == (\E t \in Timers : Elapse(t)) \/ (\E w \in Windows : \E c \in {"CLOSEWINDOW", "RAWKEY"} : UserEvent(w, c))

Next == Statement \/ Loop \/ Devices

(* The task runs whenever it is not waiting, a SUB called back comes to    *)
(* its end, and timer.device answers in time.                              *)
Fairness ==
  /\ WF_vars(Loop)
  /\ WF_vars(EndSub)
  /\ \A t \in Timers : WF_vars(Elapse(t))

Spec == Init /\ [][Next]_vars
FairSpec == Spec /\ Fairness
-----------------------------------------------------------------------------
(* An activation that timer t's bit still waits in to be looked at, or     *)
(* that has called t's SUB.                                                *)
Pending(act, t) ==
  /\ timerport[t] \in act.signals
  /\ (act.pc = "timers" /\ act.i <= t) \/ (act.pc = "rearm" /\ act.i < t)
Running(act, t) == act.pc = "rearm" /\ act.i = t

(* Where timer t's request is: linked in timer.device so many times, or    *)
(* answered and announced by the task's signal, or taken up by the loop.   *)
Places(t) ==
  {<<"device", n>> : n \in 1..sent[t]}
    \cup {<<"signal", b>> : b \in received \cap {timerport[t]}}
    \cup {<<"loop", d>> : d \in {e \in 1..Len(stack) : Pending(stack[e], t) \/ Running(stack[e], t)}}

(* The request of a timer that is on is in exactly one place: with         *)
(* timer.device, announced by the task's signal, announced by the copy of  *)
(* the signals one activation of the loop took, or waiting for the timer's *)
(* callback to end.  Otherwise the timer would stop for good, or its       *)
(* request be linked twice into the device's list (atimer.c                *)
(* _atimer_process_signals and TIMER_OFF).                                 *)
TickInOnePlace ==
  \A t \in Timers : timerport[t] # Closed => \E p \in Places(t) : Places(t) = {p}

(* A timer's request is sent to timer.device again only after it came back, *)
(* so that its SUB is called once in the time that was given (RefAmiga.md: *)
(* "call sub every t seconds"; _atimer_process_signals and TIMER ON).      *)
SentOnce == \A t \in Timers : sent[t] <= 1

(* A message at the port of a window is announced by the task's signal or  *)
(* by the signals of an activation whose loop has not passed the window:   *)
(* no click and no key waits until the next one arrives (awindow.c         *)
(* _handleSignals).                                                        *)
Awaits(act, w) ==
  \/ act.pc \in {"timers", "rearm"} /\ win[w] \in act.signals
  \/ act.pc \in {"messages", "reply"} /\ (act.i = w \/ (act.i < w /\ win[w] \in act.signals))
MessagesAnnounced ==
  \A w \in Windows : win[w] # Closed /\ port[w] # <<>> =>
    \/ win[w] \in received \cap wmask
    \/ \E d \in 1..Len(stack) : Awaits(stack[d], w)

(* INKEY$ gets the characters of one window in the order they were typed,  *)
(* each once, and the buffer's length and its two ends agree (awindow.c    *)
(* keybuf, INKEY_).                                                        *)
Buffered == [n \in 1..keybufLen |-> keybuf[(keybufStart + n - 1) % MAXKEYBUF]]
KeysInOrder ==
  /\ (keybufStart + keybufLen) % MAXKEYBUF = keybufEnd
  /\ \A n \in 1..keybufLen : LET c == Buffered[n] IN
       /\ lastRead[c.window] < c.key
       /\ \A m \in 1..n-1 : Buffered[m].window = c.window => Buffered[m].key < c.key
       /\ \A j \in 1..Len(port[c.window]) : c.key < port[c.window][j].key

(* The program's own state: types, and what windows were told against what *)
(* it has taken (awindow.c: _handleSignals).                               *)
Consistent == TypeOK /\ MessagesAnnounced /\ KeysInOrder

(* A timer that has run out is answered: its callback has been called and  *)
(* the timer is running again, or it has been turned off.  The one way to  *)
(* keep it waiting is a SUB that sleeps, inside a callback, for something  *)
(* else (atimer.c _atimer_process_signals, awindow.c SLEEP).               *)
SleepsInCallback == At("wait") /\ Depth > 2
TicksAnswered ==
  \A t \in Timers :
    (timerport[t] # Closed /\ sent[t] = 0)
      ~> (timerport[t] = Closed \/ sent[t] > 0 \/ SleepsInCallback)
=============================================================================
