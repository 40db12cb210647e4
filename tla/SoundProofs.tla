---------------------------- MODULE SoundProofs -----------------------------
(***************************************************************************)
(* The sound queue hands no request out twice and closes no device that    *)
(* still holds one, for every number of channels and of requests.          *)
(***************************************************************************)
EXTENDS Sound, FiniteSetTheorems, TLAPS

USE SoundAssumption DEF SoundAssumption

(* The requests go round: of those that are out the last one handed out is *)
(* the one before g_ion, and so on back to the first.                      *)
Back(i, k) == IF i - k < 0 THEN i - k + NUM_IO ELSE i - k
InOrder(s, i) ==
  /\ Len(s) <= NUM_IO
  /\ \A k \in 1..Len(s) : s[k] = Back(i, Len(s) + 1 - k)

Closing(c) == Call("close", c, NUM_IO) \in todo
Waiting == {"_chan_wait", "close"}

(* What the counting of RequestsAccounted rests on: the order of the       *)
(* requests, and that whatever waits for one of a channel's requests or    *)
(* closes its device waits for every request that is taken to be out.      *)
GoRound == \A c \in Channels : InOrder(Out(c), ion[c])
Counted ==
  \A c \in Channels : /\ Cardinality(ioActive[c]) = Len(Out(c))
                      /\ ~Awaited(c) => ioActive[c] = Range(Out(c))
Covered ==
  \A c \in Channels : Awaited(c) \/ Closing(c) =>
    \A io \in ioActive[c] : Call("_chan_wait", c, io) \in todo
WaitingOnly == \A d, e \in todo : d.call \in Waiting => e.call \in Waiting
Ending ==
  /\ running => \A d \in todo : d.call # "close"
  /\ ~running => /\ \A d \in todo : d.call \in Waiting
                 /\ \A c \in deviceOpen : Closing(c)

IInv == TypeOK /\ GoRound /\ Counted /\ Covered /\ WaitingOnly /\ Ending
-----------------------------------------------------------------------------
(* Lemmas about requests in their order.                                   *)

LEMMA Successor ==
  ASSUME NEW i \in Requests
  PROVE  /\ (i + 1) % NUM_IO = IF i = NUM_IO - 1 THEN 0 ELSE i + 1
         /\ (i + 1) % NUM_IO \in Requests
  <1>1. CASE i = NUM_IO - 1
    BY <1>1 DEF Requests
  <1>2. CASE i # NUM_IO - 1
    BY <1>2 DEF Requests
  <1> QED
    BY <1>1, <1>2

LEMMA InOrderDiffer ==
  ASSUME NEW s \in Seq(Requests), NEW i \in Requests, InOrder(s, i)
  PROVE  /\ IsInjective(s)
         /\ \A k \in 1..Len(s) : s[k] = i <=> k = 1 /\ Len(s) = NUM_IO
  <1>1. Len(s) \in Nat /\ Len(s) <= NUM_IO /\ DOMAIN s = 1..Len(s)
    BY DEF InOrder
  <1>2. ASSUME NEW a \in 1..Len(s), NEW b \in 1..Len(s), s[a] = s[b]
        PROVE  a = b
    BY SMTT(30), <1>1, <1>2 DEF InOrder, Back, Requests
  <1>3. ASSUME NEW k \in 1..Len(s)
        PROVE  s[k] = i <=> k = 1 /\ Len(s) = NUM_IO
    BY <1>1 DEF InOrder, Back, Requests
  <1> QED
    BY <1>1, <1>2, <1>3 DEF IsInjective

LEMMA InOrderTail ==
  ASSUME NEW s \in Seq(Requests), NEW i \in Requests, InOrder(s, i), s # <<>>
  PROVE  InOrder(Tail(s), i)
  <1>1. /\ Len(s) \in Nat \ {0} /\ Len(Tail(s)) = Len(s) - 1
        /\ \A k \in 1..Len(s) - 1 : Tail(s)[k] = s[k + 1]
    OBVIOUS
  <1> QED
    BY <1>1 DEF InOrder

LEMMA InOrderAppend ==
  ASSUME NEW s \in Seq(Requests), NEW i \in Requests, InOrder(s, i), Len(s) < NUM_IO
  PROVE  InOrder(Append(s, i), (i + 1) % NUM_IO)
  <1>1. /\ Len(s) \in Nat /\ Len(Append(s, i)) = Len(s) + 1
        /\ \A k \in 1..Len(s) : Append(s, i)[k] = s[k]
        /\ Append(s, i)[Len(s) + 1] = i
    OBVIOUS
  <1> DEFINE next == IF i = NUM_IO - 1 THEN 0 ELSE i + 1
  <1>2. InOrder(Append(s, i), next)
    <2>1. \A k \in 1..Len(s) : Back(next, Len(s) + 2 - k) = Back(i, Len(s) + 1 - k)
      BY SMTT(30), <1>1 DEF Back, Requests
    <2>2. Back(next, 1) = i
      BY DEF Back, Requests
    <2> HIDE DEF next
    <2> QED
      BY <1>1, <2>1, <2>2 DEF InOrder
  <1> QED
    BY <1>2, Successor

(* The range of a sequence that gets or loses an element.                  *)
LEMMA RangeAppend ==
  ASSUME NEW s \in Seq(Requests), NEW x \in Requests
  PROVE  Range(Append(s, x)) = Range(s) \cup {x}
  <1>1. /\ Len(s) \in Nat /\ DOMAIN s = 1..Len(s)
        /\ DOMAIN Append(s, x) = 1..Len(s) + 1
        /\ \A k \in 1..Len(s) : Append(s, x)[k] = s[k]
        /\ Append(s, x)[Len(s) + 1] = x
    OBVIOUS
  <1>2. 1..Len(s) + 1 = (1..Len(s)) \cup {Len(s) + 1}
    BY <1>1
  <1> QED
    BY SMTT(30), <1>1, <1>2, Zenon DEF Range

LEMMA RangeTail ==
  ASSUME NEW s \in Seq(Requests), s # <<>>
  PROVE  Range(s) = {Head(s)} \cup Range(Tail(s))
  <1>1. /\ Len(s) \in Nat \ {0} /\ DOMAIN s = 1..Len(s) /\ Head(s) = s[1]
        /\ DOMAIN Tail(s) = 1..Len(s) - 1
        /\ \A k \in 1..Len(s) - 1 : Tail(s)[k] = s[k + 1]
    OBVIOUS
  <1>2. ASSUME NEW x \in Range(s) PROVE x = Head(s) \/ x \in Range(Tail(s))
    <2>1. PICK k \in 1..Len(s) : x = s[k]
      BY <1>1 DEF Range
    <2>2. k = 1 \/ (k - 1 \in 1..Len(s) - 1 /\ s[k] = Tail(s)[k - 1])
      BY <1>1
    <2> QED
      BY <1>1, <2>1, <2>2 DEF Range
  <1>3. ASSUME NEW x \in Range(Tail(s)) PROVE x \in Range(s)
    <2>1. PICK k \in 1..Len(s) - 1 : x = Tail(s)[k]
      BY <1>1 DEF Range
    <2>2. k + 1 \in 1..Len(s) /\ x = s[k + 1]
      BY <1>1, <2>1
    <2> QED
      BY <1>1, <2>2 DEF Range
  <1>4. Head(s) \in Range(s)
    BY <1>1 DEF Range
  <1> QED
    BY <1>2, <1>3, <1>4

(* What a step of a channel does to the requests that are out.             *)
LEMMA ConcatTail ==
  ASSUME NEW s \in Seq(Requests), NEW t \in Seq(Requests), s # <<>>
  PROVE  Tail(s) \o t = Tail(s \o t) /\ s \o t # <<>>
  OBVIOUS

LEMMA ConcatAppend ==
  ASSUME NEW s \in Seq(Requests), NEW t \in Seq(Requests), NEW x \in Requests
  PROVE  s \o Append(t, x) = Append(s \o t, x)
  OBVIOUS

LEMMA ConcatMove ==
  ASSUME NEW s \in Seq(Requests), NEW t \in Seq(Requests), t # <<>>
  PROVE  Append(s, Head(t)) \o Tail(t) = s \o t
  OBVIOUS
-----------------------------------------------------------------------------
(* Lemmas about the state.                                                 *)

LEMMA OutType ==
  ASSUME TypeOK, NEW c \in Channels
  PROVE  /\ Out(c) \in Seq(Requests)
         /\ audioMP[c] \in Seq(Requests) /\ queue[c] \in Seq(Requests)
         /\ Len(Out(c)) \in Nat
         /\ IsFiniteSet(ioActive[c]) /\ Cardinality(ioActive[c]) \in Nat
  <1>1. audioMP[c] \in Seq(Requests) /\ queue[c] \in Seq(Requests)
    BY DEF TypeOK
  <1>2. ioActive[c] \in SUBSET (0..NUM_IO-1)
    BY DEF TypeOK, Requests
  <1>3. IsFiniteSet(0..NUM_IO-1)
    BY FS_Interval
  <1>4. IsFiniteSet(ioActive[c])
    BY <1>2, <1>3, FS_Subset
  <1>5. Cardinality(ioActive[c]) \in Nat
    BY <1>4, FS_CardinalityType
  <1>6. Out(c) \in Seq(Requests)
    BY <1>1 DEF Out
  <1> QED
    BY <1>1, <1>4, <1>5, <1>6

(* Nothing is out of a channel none of whose requests is taken to be out.  *)
LEMMA NothingOut ==
  ASSUME IInv, NEW c \in Channels, ioActive[c] = {}
  PROVE  Out(c) = <<>>
  <1>1. Cardinality(ioActive[c]) = 0
    BY FS_EmptySet
  <1>2. Len(Out(c)) = 0
    BY <1>1 DEF IInv, Counted
  <1> QED
    BY <1>2, OutType DEF IInv

LEMMA CallFields ==
  \A name, c, n : LET d == Call(name, c, n) IN d.call = name /\ d.channel = c /\ d.n = n
  BY DEF Call

(* The calls about a channel come in the order of their numbers.           *)
LEMMA DueIsFirst ==
  ASSUME TypeOK, NEW d, Due(d), NEW e \in todo, e.channel = d.channel
  PROVE  e = d \/ d.n < e.n
  BY DEF Due, Before, TypeOK, Calls, Channels

(* A statement begins: every request stays where it is, and so far nothing *)
(* is waited for.                                                          *)
LEMMA Begins ==
  ASSUME IInv, TypeOK', UNCHANGED <<ioActive, ion, queue, audioMP>>, todo = {},
         Covered', WaitingOnly', Ending'
  PROVE  IInv'
  <1>1. \A c : Out(c)' = Out(c)
    BY DEF Out
  <1>2. GoRound'
    BY <1>1 DEF IInv, GoRound
  <1>3. \A c \in Channels : ~Awaited(c)
    BY DEF Awaited
  <1>4. Counted'
    BY <1>1, <1>3 DEF IInv, Counted
  <1> QED
    BY <1>2, <1>4 DEF IInv

(* A statement that waits for nothing.                                     *)
LEMMA BeginsNoWait ==
  ASSUME IInv, TypeOK', UNCHANGED <<ioActive, ion, queue, audioMP, running>>, todo = {}, running,
         \A d \in todo' : d.call \notin Waiting
  PROVE  IInv'
  <1>1. Covered'
    BY CallFields DEF Covered, Awaited, Closing, Waiting
  <1>2. WaitingOnly' /\ Ending'
    BY DEF WaitingOnly, Ending, Waiting
  <1> QED
    BY <1>1, <1>2, Begins

LEMMA WaitsCover ==
  ASSUME NEW channel \in Channels \cup {All}, NEW c \in Named(channel), NEW io \in Requests
  PROVE  Call("_chan_wait", c, io) \in Waits(channel)
  BY DEF Waits
-----------------------------------------------------------------------------
(* Types.                                                                  *)

LEMMA InitAudioDeviceTypes ==
  ASSUME TypeOK, NEW c \in Channels, InitAudioDevice(c) \/ InitAudioDeviceFails(c)
  PROVE  deviceOpen' \subseteq Channels /\ wave' \in [Channels -> Waves]
  <1>1. {"repeat"} \in Waves
    BY DEF Waves
  <1> QED
    BY <1>1 DEF TypeOK, InitAudioDevice, InitAudioDeviceFails

LEMMA ExecuteTypes ==
  ASSUME TypeOK, NEW calls \in SUBSET Calls, Execute(calls)
  PROVE  todo' \subseteq Calls /\ statements' \in 0..MaxStatements
  BY DEF TypeOK, Execute

LEMMA StatementTypes ==
  ASSUME TypeOK, Statement
  PROVE  TypeOK'
  <1>1. ASSUME NEW c \in Channels, NEW short \in BOOLEAN, SOUND(c, short)
        PROVE  TypeOK'
    <2>1. {Call("_queueSound", c, n) : n \in Parts(wave'[c], short)} \subseteq Calls
      BY DEF Call, Calls, Parts
    <2> QED
      BY <1>1, <2>1, InitAudioDeviceTypes, ExecuteTypes DEF SOUND, TypeOK
  <1>2. ASSUME NEW c \in Channels, SOUND_fails(c)
        PROVE  TypeOK'
    BY <1>2, InitAudioDeviceTypes, ExecuteTypes DEF SOUND_fails, TypeOK
  <1>3. ASSUME NEW c \in Channels, NEW w \in Waves, WAVE(c, w)
        PROVE  TypeOK'
    BY <1>3, ExecuteTypes DEF WAVE, TypeOK
  <1>4. ASSUME NEW channel \in Channels \cup {All}
        PROVE  /\ Named(channel) \subseteq Channels
               /\ Waits(channel) \subseteq Calls
               /\ {Call("CMD_STOP", c, 0) : c \in Named(channel)} \subseteq Calls
               /\ {Call("CMD_START", c, 0) : c \in Named(channel)} \subseteq Calls
    <2>1. Named(channel) \subseteq Channels
      BY DEF Named
    <2> QED
      BY <2>1 DEF Waits, Call, Calls
  <1>5. ASSUME NEW channel \in Channels \cup {All},
               SOUND_WAIT(channel) \/ SOUND_STOP(channel) \/ SOUND_START(channel)
        PROVE  TypeOK'
    BY <1>4, <1>5, ExecuteTypes DEF SOUND_WAIT, SOUND_STOP, SOUND_START, TypeOK
  <1>6. ASSUME Shutdown
        PROVE  TypeOK'
    <2>1. {Call("close", c, NUM_IO) : c \in Channels} \subseteq Calls
      BY DEF Call, Calls
    <2> QED
      BY <1>4, <1>6, <2>1 DEF Shutdown, TypeOK
  <1> QED
    BY <1>1, <1>2, <1>3, <1>5, <1>6 DEF Statement

LEMMA LibraryTypes ==
  ASSUME TypeOK, NEW d \in todo,
         QueueSound(d) \/ ChanWait(d) \/ Cmd(d) \/ CloseChannel(d)
  PROVE  TypeOK'
  <1>1. d.channel \in Channels /\ (Finish(d) => todo' \subseteq Calls)
    BY DEF TypeOK, Calls, Finish
  <1>2. CASE QueueSound(d)
    <2>1. ion[d.channel] \in Requests
      BY <1>1 DEF TypeOK
    <2> QED
      BY <1>1, <1>2, <2>1, Successor DEF QueueSound, TypeOK
  <1>3. CASE ChanWait(d)
    <2>1. CASE d.n \in ioActive[d.channel]
      <3>1. audioMP[d.channel] \in Seq(Requests) /\ audioMP[d.channel] # <<>>
        BY <1>1, <1>3, <2>1 DEF ChanWait, TypeOK
      <3>2. Tail(audioMP[d.channel]) \in Seq(Requests)
        BY <3>1
      <3>3. audioMP' \in [Channels -> Seq(Requests)]
        BY <1>1, <1>3, <2>1, <3>2 DEF ChanWait, TypeOK
      <3>4. ioActive' \in [Channels -> SUBSET Requests]
        <4> DEFINE c == d.channel
                   n == d.n
        <4>1. c \in Channels /\ ioActive \in [Channels -> SUBSET Requests]
          BY <1>1 DEF TypeOK
        <4>2. ioActive' = [ioActive EXCEPT ![c] = @ \ {n}]
          BY <1>3, <2>1 DEF ChanWait
        <4> HIDE DEF c, n
        <4> QED
          BY <4>1, <4>2
      <3> QED
        BY <1>1, <1>3, <3>3, <3>4 DEF ChanWait, TypeOK
    <2>2. CASE d.n \notin ioActive[d.channel]
      BY <1>1, <1>3, <2>2 DEF ChanWait, TypeOK
    <2> QED
      BY <2>1, <2>2
  <1>4. CASE Cmd(d)
    <2>1. stopped' \subseteq Channels
      BY <1>1, <1>4 DEF Cmd, TypeOK
    <2>2. deviceOpen' \subseteq Channels /\ wave' \in [Channels -> Waves]
      BY <1>1, <1>4, InitAudioDeviceTypes DEF Cmd
    <2> QED
      BY <1>1, <1>4, <2>1, <2>2 DEF Cmd, TypeOK
  <1>5. CASE CloseChannel(d)
    BY <1>1, <1>5 DEF CloseChannel, TypeOK
  <1> QED
    BY <1>2, <1>3, <1>4, <1>5

LEMMA Types == TypeOK /\ [Next]_vars => TypeOK'
  <1> SUFFICES ASSUME TypeOK, [Next]_vars
               PROVE  TypeOK'
    OBVIOUS
  <1>1. CASE Library
    BY <1>1, LibraryTypes DEF Library
  <1>2. ASSUME NEW c \in Channels, Played(c)
        PROVE  TypeOK'
    BY <1>2 DEF Played, TypeOK
  <1>3. CASE UNCHANGED vars
    BY <1>3 DEF vars, TypeOK
  <1> QED
    BY <1>1, <1>2, <1>3, StatementTypes DEF Next, Done
-----------------------------------------------------------------------------
(* The invariant.                                                          *)

LEMMA InitIInv == Init => IInv
  <1> SUFFICES ASSUME Init
               PROVE  IInv
    OBVIOUS
  <1>1. None \in Waves /\ 0 \in Requests
    BY DEF Waves, Requests
  <1>2. TypeOK
    BY <1>1 DEF Init, TypeOK
  <1>3. \A c \in Channels : Out(c) = <<>> /\ ioActive[c] = {}
    BY DEF Init, Out
  <1>4. GoRound
    BY <1>3 DEF GoRound, InOrder
  <1>5. Range(<<>>) = {}
    BY DEF Range
  <1>6. Counted
    BY <1>3, <1>5, FS_EmptySet DEF Counted
  <1> QED
    BY <1>2, <1>3, <1>4, <1>6 DEF Init, IInv, Covered, WaitingOnly, Ending

LEMMA StatementStep ==
  ASSUME IInv, TypeOK', Statement
  PROVE  IInv'
  <1>1. ASSUME NEW c \in Channels, NEW short \in BOOLEAN, SOUND(c, short)
        PROVE  IInv'
    BY <1>1, BeginsNoWait, CallFields DEF SOUND, Execute, Waiting
  <1>2. ASSUME NEW c \in Channels, SOUND_fails(c)
        PROVE  IInv'
    BY <1>2, BeginsNoWait DEF SOUND_fails, Execute
  <1>3. ASSUME NEW c \in Channels, NEW w \in Waves, WAVE(c, w)
        PROVE  IInv'
    BY <1>3, BeginsNoWait DEF WAVE, Execute
  <1>4. ASSUME NEW channel \in Channels \cup {All}, SOUND_WAIT(channel)
        PROVE  IInv'
    <2>1. \A d \in todo' : d.call = "_chan_wait" /\ d.channel \in Named(channel)
      BY <1>4, CallFields DEF SOUND_WAIT, Execute, Waits
    <2>2. Covered'
      BY SMTT(30), <1>4, <2>1, WaitsCover, CallFields
         DEF SOUND_WAIT, Execute, Covered, Awaited, Closing, TypeOK
    <2>3. WaitingOnly' /\ Ending'
      BY <1>4, <2>1 DEF SOUND_WAIT, Execute, WaitingOnly, Ending, Waiting
    <2> QED
      BY <1>4, <2>2, <2>3, Begins DEF SOUND_WAIT, Execute
  <1>5. ASSUME NEW channel \in Channels \cup {All}, SOUND_STOP(channel) \/ SOUND_START(channel)
        PROVE  IInv'
    BY <1>5, BeginsNoWait, CallFields DEF SOUND_STOP, SOUND_START, Execute, Waiting
  <1>6. ASSUME Shutdown
        PROVE  IInv'
    <2>1. \A d \in todo' : d.call \in Waiting
      BY <1>6, CallFields DEF Shutdown, Waits, Waiting
    <2>2. Covered'
      <3>1. \A c \in Channels, io \in Requests : Call("_chan_wait", c, io) \in todo'
        BY <1>6, WaitsCover DEF Shutdown, Named
      <3> QED
        BY <3>1 DEF Covered, TypeOK
    <2>3. WaitingOnly' /\ Ending'
      BY <1>6, <2>1 DEF Shutdown, WaitingOnly, Ending, Closing, TypeOK
    <2> QED
      BY <1>6, <2>2, <2>3, Begins DEF Shutdown
  <1> QED
    BY <1>1, <1>2, <1>3, <1>4, <1>5, <1>6 DEF Statement

(* A call that waits for nothing is done.                                  *)
LEMMA FinishStep ==
  ASSUME IInv, NEW d \in todo, Finish(d), d.call \notin Waiting, UNCHANGED running
  PROVE  Covered' /\ WaitingOnly' /\ Ending' /\ running
         /\ \A c \in Channels : ~Awaited(c) /\ ~Awaited(c)'
  <1>1. \A e \in todo : e.call \notin Waiting
    BY DEF IInv, WaitingOnly
  <1>2. running
    BY DEF IInv, Ending, TypeOK
  <1>3. \A e \in todo' : e.call \notin Waiting
    BY <1>1 DEF Finish
  <1>4. \A c \in Channels : ~Awaited(c) /\ ~Awaited(c)' /\ ~Closing(c)'
    BY <1>1, <1>3, CallFields DEF Awaited, Closing, Waiting
  <1>5. Covered'
    BY <1>4 DEF Covered
  <1> QED
    BY <1>2, <1>3, <1>4, <1>5 DEF WaitingOnly, Ending, Waiting

LEMMA QueueSoundStep ==
  ASSUME IInv, TypeOK', NEW d \in todo, QueueSound(d)
  PROVE  IInv'
  <1>0. PICK c \in Channels, io \in Requests : c = d.channel /\ io = ion[c]
    BY DEF IInv, TypeOK, Calls
  <1>1. TypeOK
    BY DEF IInv
  <1>2. /\ Covered' /\ WaitingOnly' /\ Ending'
        /\ \A b \in Channels : ~Awaited(b) /\ ~Awaited(b)'
    BY FinishStep DEF QueueSound, Waiting
  <1>3. /\ InOrder(Out(c), io) /\ Cardinality(ioActive[c]) = Len(Out(c))
        /\ ioActive[c] = Range(Out(c))
    BY <1>0, <1>2 DEF IInv, GoRound, Counted
  <1>4. ASSUME NEW b \in Channels, b # c
        PROVE  Out(b)' = Out(b) /\ ion'[b] = ion[b] /\ ioActive'[b] = ioActive[b]
    BY <1>0, <1>1, <1>4 DEF QueueSound, Out, TypeOK
  <1>5. /\ ion'[c] = (io + 1) % NUM_IO
        /\ ioActive'[c] = ioActive[c] \cup {io}
        /\ queue'[c] = Append(queue[c], io)
    BY <1>0, <1>1 DEF QueueSound, TypeOK
  <1>6. /\ Out(c) \in Seq(Requests) /\ Len(Out(c)) \in Nat
        /\ audioMP[c] \in Seq(Requests) /\ queue[c] \in Seq(Requests)
        /\ IsFiniteSet(ioActive[c])
        /\ DOMAIN Out(c) = 1..Len(Out(c))
    BY <1>1, OutType
  <1>7. CASE io \in ioActive[c]
    <2>1. audioMP[c] # <<>> /\ audioMP'[c] = Tail(audioMP[c])
      BY <1>1, <1>0, <1>7 DEF QueueSound, TypeOK
    <2>2. Tail(audioMP[c]) \o queue[c] = Tail(Out(c)) /\ Out(c) # <<>>
      BY <1>6, <2>1, ConcatTail DEF Out
    <2>3. Out(c)' = Append(Tail(Out(c)), io)
      <3>1. Tail(audioMP[c]) \in Seq(Requests)
        BY <1>6, <2>1
      <3>2. Tail(audioMP[c]) \o Append(queue[c], io) = Append(Tail(audioMP[c]) \o queue[c], io)
        BY <1>6, <3>1, ConcatAppend
      <3>3. Out(c)' = Tail(audioMP[c]) \o Append(queue[c], io)
        BY <1>5, <2>1 DEF Out
      <3> QED
        BY <2>2, <3>2, <3>3
    <2>4. PICK k \in 1..Len(Out(c)) : Out(c)[k] = io
      BY <1>3, <1>6, <1>7 DEF Range
    <2>5. Len(Out(c)) = NUM_IO /\ Out(c)[1] = io
      BY <1>1, <1>3, <1>6, <2>4, InOrderDiffer
    <2>6. /\ Tail(Out(c)) \in Seq(Requests) /\ Len(Tail(Out(c))) = NUM_IO - 1
          /\ Head(Out(c)) = io
      BY <1>6, <2>2, <2>5
    <2>7. InOrder(Out(c)', ion'[c])
      <3>1. InOrder(Tail(Out(c)), io)
        BY <1>3, <1>6, <2>2, InOrderTail
      <3>2. InOrder(Append(Tail(Out(c)), io), (io + 1) % NUM_IO)
        <4>1. Len(Tail(Out(c))) < NUM_IO
          BY <2>6
        <4> QED
          BY <2>6, <3>1, <4>1, InOrderAppend
      <3> QED
        BY <1>5, <2>3, <3>2
    <2>8. Range(Out(c)') = Range(Out(c)) /\ Len(Out(c)') = Len(Out(c))
      <3>1. Range(Out(c)) = {io} \cup Range(Tail(Out(c)))
        BY <1>6, <2>2, <2>6, RangeTail
      <3>2. Range(Out(c)') = Range(Tail(Out(c))) \cup {io}
        <4>1. Range(Append(Tail(Out(c)), io)) = Range(Tail(Out(c))) \cup {io}
          BY <2>6, RangeAppend
        <4> QED
          BY <2>3, <4>1
      <3>3. Len(Out(c)') = Len(Out(c))
        BY <1>1, <2>3, <2>5, <2>6
      <3> QED
        BY <3>1, <3>2, <3>3
    <2>9. ioActive'[c] = ioActive[c]
      BY <1>5, <1>7
    <2> QED
      BY <1>1, <1>2, <1>3, <1>4, <2>7, <2>8, <2>9 DEF IInv, GoRound, Counted
  <1>8. CASE io \notin ioActive[c]
    <2>1. audioMP'[c] = audioMP[c]
      BY <1>1, <1>0, <1>8 DEF QueueSound, TypeOK
    <2>2. Out(c)' = Append(Out(c), io)
      <3>1. audioMP[c] \o Append(queue[c], io) = Append(Out(c), io)
        BY <1>6, ConcatAppend DEF Out
      <3>2. Out(c)' = audioMP[c] \o Append(queue[c], io)
        BY <1>5, <2>1 DEF Out
      <3> QED
        BY <3>1, <3>2
    <2>3. Len(Out(c)) < NUM_IO
      <3>1. Len(Out(c)) <= NUM_IO
        BY <1>3 DEF InOrder
      <3>2. \A k \in 1..Len(Out(c)) : Out(c)[k] # io
        BY <1>3, <1>6, <1>8 DEF Range
      <3> QED
        BY <1>1, <1>3, <1>6, <3>1, <3>2, InOrderDiffer
    <2>4. InOrder(Out(c)', ion'[c])
      BY <1>1, <1>3, <1>5, <1>6, <2>2, <2>3, InOrderAppend
    <2>5. Range(Out(c)') = Range(Out(c)) \cup {io} /\ Len(Out(c)') = Len(Out(c)) + 1
      BY <1>1, <1>6, <2>2, RangeAppend
    <2>6. Cardinality(ioActive'[c]) = Cardinality(ioActive[c]) + 1
      BY <1>5, <1>6, <1>8, FS_AddElement
    <2> QED
      BY <1>1, <1>2, <1>3, <1>4, <1>5, <2>4, <2>5, <2>6 DEF IInv, GoRound, Counted
  <1> QED
    BY <1>7, <1>8

(* The due wait for a request of a channel: the ones that follow cover     *)
(* what is still taken to be out, and none follows only if nothing is.     *)
LEMMA ChanWaitStep ==
  ASSUME IInv, TypeOK', NEW d \in todo, ChanWait(d)
  PROVE  IInv'
  <1>0. PICK c \in Channels, io \in Requests : c = d.channel /\ io = d.n /\ d = Call("_chan_wait", c, io)
    <2>1. d \in [call : {"_chan_wait"}, channel : Channels, n : Requests]
      BY DEF IInv, TypeOK, Calls, ChanWait
    <2> QED
      BY <2>1 DEF Call
  <1>1. TypeOK
    BY DEF IInv
  <1>2. /\ Out(c) \in Seq(Requests) /\ Len(Out(c)) \in Nat
        /\ audioMP[c] \in Seq(Requests) /\ queue[c] \in Seq(Requests)
        /\ IsFiniteSet(ioActive[c])
    BY <1>1, OutType
  <1>3. ASSUME NEW b \in Channels, b # c
        PROVE  /\ Out(b)' = Out(b) /\ ioActive'[b] = ioActive[b]
               /\ Awaited(b)' <=> Awaited(b)
               /\ \A i : Call("_chan_wait", b, i) \in todo' <=> Call("_chan_wait", b, i) \in todo
    <2>1. Out(b)' = Out(b) /\ ioActive'[b] = ioActive[b]
      BY <1>0, <1>1, <1>3 DEF ChanWait, Out, TypeOK
    <2>2. \A e \in todo : e.channel = b => e \in todo'
      BY <1>0, <1>3 DEF ChanWait, Finish
    <2>3. todo' \subseteq todo
      BY DEF ChanWait, Finish
    <2>4. Awaited(b)' <=> Awaited(b)
      BY <2>2, <2>3 DEF Awaited
    <2> QED
      BY <2>1, <2>2, <2>3, <2>4, CallFields
  <1>4. \A b \in Channels : Closing(b)' <=> Closing(b)
    BY CallFields DEF ChanWait, Finish, Closing
  <1>5. /\ InOrder(Out(c), ion[c]) /\ Cardinality(ioActive[c]) = Len(Out(c))
        /\ \A i \in ioActive[c] : Call("_chan_wait", c, i) \in todo
    BY <1>0, CallFields DEF IInv, GoRound, Counted, Covered, Awaited
  <1>6. /\ InOrder(Out(c)', ion'[c]) /\ Cardinality(ioActive'[c]) = Len(Out(c)')
        /\ ioActive'[c] = ioActive[c] \ {io}
    <2>1. CASE io \in ioActive[c]
      <3>1. /\ audioMP[c] # <<>> /\ audioMP'[c] = Tail(audioMP[c])
            /\ queue'[c] = queue[c] /\ ioActive'[c] = ioActive[c] \ {io}
            /\ ion' = ion
        BY <1>0, <1>1, <2>1 DEF ChanWait, TypeOK
      <3>2. Tail(audioMP[c]) \o queue[c] = Tail(Out(c)) /\ Out(c) # <<>>
        BY <1>2, <3>1, ConcatTail DEF Out
      <3>3. Out(c)' = Tail(Out(c))
        BY <3>1, <3>2 DEF Out
      <3>4. Len(Out(c)') = Len(Out(c)) - 1
        BY <1>2, <3>2, <3>3
      <3>5. Cardinality(ioActive'[c]) = Cardinality(ioActive[c]) - 1
        <4>1. Cardinality(ioActive[c] \ {io}) = Cardinality(ioActive[c]) - 1
          BY <1>2, <2>1, FS_RemoveElement
        <4> QED
          BY <3>1, <4>1
      <3>6. ion[c] \in Requests
        BY <1>1 DEF TypeOK
      <3>7. InOrder(Out(c)', ion'[c])
        BY <1>2, <1>5, <3>1, <3>2, <3>3, <3>6, InOrderTail
      <3> QED
        BY <1>5, <3>1, <3>4, <3>5, <3>7
    <2>2. CASE io \notin ioActive[c]
      <3>1. UNCHANGED <<ioActive, ion, queue, audioMP>>
        BY <1>0, <2>2 DEF ChanWait
      <3>2. Out(c)' = Out(c)
        BY <3>1 DEF Out
      <3> QED
        BY <1>5, <2>2, <3>1, <3>2
    <2> QED
      BY <2>1, <2>2
  <1>7. \A i \in ioActive'[c] : Call("_chan_wait", c, i) \in todo'
    BY <1>0, <1>5, <1>6, CallFields DEF ChanWait, Finish
  <1>8. ASSUME ~Awaited(c)'
        PROVE  ioActive'[c] = Range(Out(c)')
    <2>1. ioActive'[c] = {}
      BY <1>7, <1>8, CallFields DEF Awaited
    <2>2. Len(Out(c)') = 0
      BY <1>6, <2>1, FS_EmptySet
    <2>3. Out(c)' \in Seq(Requests)
      <3>1. audioMP'[c] \in Seq(Requests) /\ queue'[c] \in Seq(Requests)
        BY DEF TypeOK
      <3> QED
        BY <3>1 DEF Out
    <2>4. Out(c)' = <<>>
      BY <2>2, <2>3
    <2> QED
      BY <2>1, <2>4 DEF Range
  <1>9. GoRound'
    BY <1>3, <1>6 DEF IInv, GoRound, ChanWait
  <1>10. Counted'
    BY <1>3, <1>6, <1>8 DEF IInv, Counted
  <1>11. Covered'
    BY <1>3, <1>4, <1>7 DEF IInv, Covered
  <1>12. WaitingOnly' /\ Ending'
    BY <1>4 DEF IInv, WaitingOnly, Ending, ChanWait, Finish, TypeOK
  <1> QED
    BY <1>9, <1>10, <1>11, <1>12 DEF IInv

LEMMA CmdStep ==
  ASSUME IInv, TypeOK', NEW d \in todo, Cmd(d)
  PROVE  IInv'
  <1>1. /\ Covered' /\ WaitingOnly' /\ Ending'
        /\ \A b \in Channels : ~Awaited(b) /\ ~Awaited(b)'
    BY FinishStep DEF Cmd, Waiting
  <1>2. UNCHANGED <<ioActive, ion>> /\ \A c : Out(c)' = Out(c)
    BY DEF Cmd, Out
  <1> QED
    BY <1>1, <1>2 DEF IInv, GoRound, Counted

(* When a channel's device comes to be closed, no wait for it is left.     *)
LEMMA DueClose ==
  ASSUME IInv, NEW d \in todo, Due(d), d.call = "close"
  PROVE  /\ d.channel \in Channels /\ d = Call("close", d.channel, NUM_IO)
         /\ ioActive[d.channel] = {}
         /\ ~Awaited(d.channel)
  <1>1. d.channel \in Channels /\ d = Call("close", d.channel, NUM_IO)
    <2>1. d \in [call : {"close"}, channel : Channels, n : {NUM_IO}]
      BY DEF IInv, TypeOK, Calls
    <2> QED
      BY <2>1 DEF Call
  <1>2. ASSUME NEW io \in Requests, Call("_chan_wait", d.channel, io) \in todo
        PROVE  FALSE
    <2>1. NUM_IO < io
      BY <1>1, <1>2, CallFields, DueIsFirst DEF IInv
    <2> QED
      BY <2>1 DEF Requests
  <1>3. ioActive[d.channel] \subseteq Requests
    BY <1>1 DEF IInv, TypeOK
  <1>4. \A io \in ioActive[d.channel] : Call("_chan_wait", d.channel, io) \in todo
    BY <1>1 DEF IInv, Covered, Closing
  <1>5. ~Awaited(d.channel)
    <2>1. SUFFICES ASSUME NEW e \in todo, e.call = "_chan_wait", e.channel = d.channel
                   PROVE  FALSE
      BY DEF Awaited
    <2>2. e \in [call : {"_chan_wait"}, channel : Channels, n : Requests]
      BY <2>1 DEF IInv, TypeOK, Calls
    <2>3. e = Call("_chan_wait", d.channel, e.n) /\ e.n \in Requests
      BY <2>1, <2>2 DEF Call
    <2> QED
      BY <1>2, <2>1, <2>3
  <1> QED
    BY <1>1, <1>2, <1>3, <1>4, <1>5

LEMMA CloseChannelStep ==
  ASSUME IInv, TypeOK', NEW d \in todo, CloseChannel(d)
  PROVE  IInv'
  <1>0. PICK c \in Channels : c = d.channel /\ d = Call("close", c, NUM_IO)
    BY DueClose DEF CloseChannel
  <1>1. ioActive[c] = {}
    BY <1>0, DueClose DEF CloseChannel
  <1>2. UNCHANGED <<ioActive, ion>> /\ \A b : Out(b)' = Out(b)
    BY DEF CloseChannel, Out
  <1>3. \A b \in Channels : \A io : Call("_chan_wait", b, io) \in todo' <=> Call("_chan_wait", b, io) \in todo
    BY CallFields DEF CloseChannel, Finish
  <1>4. \A b \in Channels : Awaited(b)' <=> Awaited(b)
    BY DEF CloseChannel, Finish, Awaited
  <1>5. \A b \in Channels : b # c => (Closing(b)' <=> Closing(b))
    BY <1>0, CallFields DEF CloseChannel, Finish, Closing
  <1>6. GoRound' /\ Counted'
    BY <1>2, <1>4 DEF IInv, GoRound, Counted
  <1>7. Covered'
    BY <1>1, <1>2, <1>3, <1>4, <1>5 DEF IInv, Covered
  <1>8. WaitingOnly'
    BY DEF IInv, WaitingOnly, CloseChannel, Finish
  <1>9. Ending'
    BY <1>0, <1>5 DEF IInv, Ending, CloseChannel, Finish, TypeOK
  <1> QED
    BY <1>6, <1>7, <1>8, <1>9 DEF IInv

LEMMA PlayedStep ==
  ASSUME IInv, TypeOK', NEW c \in Channels, Played(c)
  PROVE  IInv'
  <1>1. audioMP[c] \in Seq(Requests) /\ queue[c] \in Seq(Requests) /\ queue[c] # <<>>
    BY DEF IInv, TypeOK, Played
  <1>2. Out(c)' = Out(c)
    <2>1. Append(audioMP[c], Head(queue[c])) \o Tail(queue[c]) = Out(c)
      BY <1>1, ConcatMove DEF Out
    <2>2. audioMP'[c] = Append(audioMP[c], Head(queue[c])) /\ queue'[c] = Tail(queue[c])
      BY DEF Played, IInv, TypeOK
    <2> QED
      BY <2>1, <2>2 DEF Out
  <1>3. \A b \in Channels : Out(b)' = Out(b)
    BY <1>2 DEF Played, IInv, TypeOK, Out
  <1> QED
    BY <1>3 DEF IInv, Played, GoRound, Counted, Covered, Awaited, Closing, WaitingOnly, Ending

LEMMA IInvStep == IInv /\ [Next]_vars => IInv'
  <1> SUFFICES ASSUME IInv, [Next]_vars
               PROVE  IInv'
    OBVIOUS
  <1>1. TypeOK'
    BY Types DEF IInv
  <1>2. CASE Library
    BY <1>1, <1>2, QueueSoundStep, ChanWaitStep, CmdStep, CloseChannelStep DEF Library
  <1>3. CASE UNCHANGED vars
    BY <1>3 DEF vars, IInv, TypeOK, GoRound, Counted, Covered, Awaited, Closing, WaitingOnly, Ending, Out
  <1> QED
    BY <1>1, <1>2, <1>3, StatementStep, PlayedStep DEF Next, Done

(* The inductive invariant: the requests of a channel go round, so that a  *)
(* reply, whichever it is, frees the one SOUND uses next.                  *)
THEOREM Inductive == Spec => []IInv
  <1> QED
    BY InitIInv, IInvStep, PTL DEF Spec

(* No request is with audio.device, or on its way back, twice, and as many *)
(* are out as are taken to be (asound.c _queueSound, _chan_wait).          *)
THEOREM ConsistentHolds == Spec => []Consistent
  <1>1. IInv => Consistent
    <2> SUFFICES ASSUME IInv
                 PROVE  Consistent
      OBVIOUS
    <2>1. ASSUME NEW c \in Channels
          PROVE  IsInjective(Out(c))
      BY OutType, InOrderDiffer DEF IInv, GoRound, TypeOK
    <2> QED
      BY <2>1 DEF IInv, Counted, Consistent, RequestsAccounted
  <1> QED
    BY <1>1, Inductive, PTL

(* A device is closed, and its port deleted, when none of its requests is  *)
(* out, and at the end every device is closed (asound.c _asound_shutdown). *)
THEOREM ClosedWhenQuietHolds == Spec => []ClosedWhenQuiet
  <1>1. IInv => ClosedWhenQuiet
    <2> SUFFICES ASSUME IInv
                 PROVE  ClosedWhenQuiet
      OBVIOUS
    <2>1. ASSUME NEW d \in todo, Due(d), d.call = "close"
          PROVE  Out(d.channel) = <<>>
      BY <2>1, DueClose, NothingOut
    <2>2. ~running /\ todo = {} => deviceOpen = {}
      BY DEF IInv, Ending, Closing
    <2> QED
      BY <2>1, <2>2 DEF ClosedWhenQuiet
  <1> QED
    BY <1>1, Inductive, PTL
=============================================================================
