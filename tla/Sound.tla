-------------------------------- MODULE Sound -------------------------------
(***************************************************************************)
(* The sound queue of a running BASIC program (src/lib/_aqb/asound.c).     *)
(* Every channel has NUM_IO requests, which SOUND hands to audio.device in *)
(* turn, and one message port at which they come back.  The program is     *)
(* blocked in WaitPort when a request it needs is still out; audio.device  *)
(* plays the requests of a channel one after the other, unless the channel *)
(* is stopped.                                                             *)
(***************************************************************************)
EXTENDS Integers, Sequences, Functions, FiniteSets

CONSTANTS
  NUM_CHANNELS,
  NUM_IO,
  MaxStatements   (* bound: statements the program executes                  *)

ASSUME SoundAssumption ==
  /\ {NUM_CHANNELS, NUM_IO} \subseteq Nat \ {0}
  /\ MaxStatements \in Nat

Channels == 1..NUM_CHANNELS
Requests == 0..NUM_IO-1
All == -1                  (* the channel argument that means every channel   *)

VARIABLES
  deviceOpen,  (* channels for which OpenDevice has succeeded                *)
  ioActive,    (* g_ioActive: the requests taken to be out, per channel      *)
  ion,         (* g_ion: the request SOUND uses next                         *)
  wave,        (* g_wave: the parts the channel's wave is played in, or None *)
  queue,       (* requests audio.device holds, the one it plays first        *)
  audioMP,     (* requests that have come back and wait at the port          *)
  stopped,     (* channels halted by CMD_STOP                                *)
  todo,        (* what is left to do of the statement being executed         *)
  running,     (* the program, or the rest of its shutdown, still runs       *)
  statements   (* executed so far                                            *)

vars == <<deviceOpen, ioActive, ion, wave, queue, audioMP, stopped, todo, running, statements>>

None == {}
Waves == {None, {"repeat"}, {"oneShot"}, {"oneShot", "repeat"}}

(* The calls a statement consists of: _queueSound, _chan_wait, _cmd, and   *)
(* the part of _asound_shutdown that follows the _chan_waits of a channel. *)
(* n is the part of the wave that is queued, the request waited for.       *)
Calls == [call : {"_queueSound"}, channel : Channels, n : {0, 1}]
           \cup [call : {"_chan_wait"}, channel : Channels, n : Requests]
           \cup [call : {"CMD_STOP", "CMD_START"}, channel : Channels, n : {0}]
           \cup [call : {"close"}, channel : Channels, n : {NUM_IO}]

TypeOK ==
  /\ deviceOpen \subseteq Channels
  /\ ioActive \in [Channels -> SUBSET Requests]
  /\ ion \in [Channels -> Requests]
  /\ wave \in [Channels -> Waves]
  /\ queue \in [Channels -> Seq(Requests)] /\ audioMP \in [Channels -> Seq(Requests)]
  /\ stopped \subseteq Channels
  /\ todo \subseteq Calls
  /\ running \in BOOLEAN
  /\ statements \in 0..MaxStatements

(* _asound_init.                                                           *)
Init ==
  /\ deviceOpen = {}
  /\ ioActive = [c \in Channels |-> {}]
  /\ ion = [c \in Channels |-> 0]
  /\ wave = [c \in Channels |-> None]
  /\ queue = [c \in Channels |-> <<>>] /\ audioMP = [c \in Channels |-> <<>>]
  /\ stopped = {}
  /\ todo = {}
  /\ running = TRUE
  /\ statements = 0
-----------------------------------------------------------------------------
Call(name, c, n) == [call |-> name, channel |-> c, n |-> n]
Named(channel) == IF channel = All THEN Channels ELSE {channel}

Execute(calls) ==
  /\ running /\ todo = {}
  /\ statements < MaxStatements
  /\ statements' = statements + 1
  /\ todo' = calls

(* The statements that name every channel take them in turn, and for each  *)
(* the requests in turn.                                                   *)
Before(d, e) == d.channel < e.channel \/ (d.channel = e.channel /\ d.n < e.n)
Due(d) == d \in todo /\ \A e \in todo \ {d} : Before(d, e)
Finish(d) == todo' = todo \ {d}

(* _init_audio_device, when it succeeds: the device is open afterwards and *)
(* the channel has at least the default wave, which is all repeat.         *)
InitAudioDevice(c) ==
  /\ deviceOpen' = deviceOpen \cup {c}
  /\ wave' = [wave EXCEPT ![c] = IF c \notin deviceOpen /\ @ = None THEN {"repeat"} ELSE @]

(* It fails when memory, signal bits or the channel cannot be had: ERROR   *)
(* returns when the program's handler has said RESUME NEXT, and the caller *)
(* gives up; without one the program ends (Shutdown).                      *)
InitAudioDeviceFails(c) ==
  /\ c \notin deviceOpen
  /\ wave' = [wave EXCEPT ![c] = IF @ = None THEN {"repeat"} ELSE @]
  /\ UNCHANGED deviceOpen

(* SOUND: the part of the wave played once, then the part repeated for the *)
(* rest of the duration; of a duration shorter than the first part only    *)
(* as much as is asked for.                                                *)
Parts(w, short) == (IF "oneShot" \in w THEN {0} ELSE {}) \cup (IF "repeat" \in w /\ ~short THEN {1} ELSE {})
SOUND(c, short) ==
  /\ InitAudioDevice(c)
  /\ short => "oneShot" \in wave'[c]
  /\ Execute({Call("_queueSound", c, n) : n \in Parts(wave'[c], short)})
  /\ UNCHANGED <<ioActive, ion, queue, audioMP, stopped, running>>

SOUND_fails(c) ==
  /\ Execute({})
  /\ InitAudioDeviceFails(c)
  /\ UNCHANGED <<ioActive, ion, queue, audioMP, stopped, running>>

WAVE(c, w) ==
  /\ Execute({})
  /\ w # None /\ wave' = [wave EXCEPT ![c] = w]
  /\ UNCHANGED <<deviceOpen, ioActive, ion, queue, audioMP, stopped, running>>

Waits(channel) == {Call("_chan_wait", c, io) : c \in Named(channel), io \in Requests}
SOUND_WAIT(channel) ==
  /\ Execute(Waits(channel))
  /\ UNCHANGED <<deviceOpen, ioActive, ion, wave, queue, audioMP, stopped, running>>

SOUND_STOP(channel) ==
  /\ Execute({Call("CMD_STOP", c, 0) : c \in Named(channel)})
  /\ UNCHANGED <<deviceOpen, ioActive, ion, wave, queue, audioMP, stopped, running>>

SOUND_START(channel) ==
  /\ Execute({Call("CMD_START", c, 0) : c \in Named(channel)})
  /\ UNCHANGED <<deviceOpen, ioActive, ion, wave, queue, audioMP, stopped, running>>
-----------------------------------------------------------------------------
\* Mutant: the requests are not waited for.
QueueSoundAtOnce(d) ==
  /\ Due(d) /\ d.call = "_queueSound"
  /\ LET c == d.channel IN
       /\ queue' = [queue EXCEPT ![c] = Append(@, ion[c])]
       /\ ioActive' = [ioActive EXCEPT ![c] = @ \cup {ion[c]}]
       /\ ion' = [ion EXCEPT ![c] = (@ + 1) % NUM_IO]
  /\ Finish(d)
  /\ UNCHANGED <<deviceOpen, wave, audioMP, stopped, running, statements>>

(* _queueSound: the next request in turn.  If it is taken to be out, wait  *)
(* for a reply, whichever it is, and take it for this request's.           *)
QueueSound(d) ==
  /\ Due(d) /\ d.call = "_queueSound"
  /\ LET c == d.channel
         io == ion[c]
         wait == io \in ioActive[c]
     IN  /\ wait => audioMP[c] # <<>>
         /\ audioMP' = [audioMP EXCEPT ![c] = IF wait THEN Tail(@) ELSE @]
         /\ queue' = [queue EXCEPT ![c] = Append(@, io)]
         /\ ioActive' = [ioActive EXCEPT ![c] = @ \cup {io}]
         /\ ion' = [ion EXCEPT ![c] = (@ + 1) % NUM_IO]
  /\ Finish(d)
  /\ UNCHANGED <<deviceOpen, wave, stopped, running, statements>>

\* Mutant: no test whether the request is out.
ChanWaitAlways(d) ==
  /\ Due(d) /\ d.call = "_chan_wait"
  /\ LET c == d.channel IN
       /\ audioMP[c] # <<>>
       /\ audioMP' = [audioMP EXCEPT ![c] = Tail(@)]
       /\ ioActive' = [ioActive EXCEPT ![c] = @ \ {d.n}]
  /\ Finish(d)
  /\ UNCHANGED <<deviceOpen, ion, wave, queue, stopped, running, statements>>

(* _chan_wait, called by SOUND WAIT and at the end of the program.         *)
ChanWait(d) ==
  /\ Due(d) /\ d.call = "_chan_wait"
  /\ LET c == d.channel IN
       IF d.n \in ioActive[c]
       THEN /\ audioMP[c] # <<>>
            /\ audioMP' = [audioMP EXCEPT ![c] = Tail(@)]
            /\ ioActive' = [ioActive EXCEPT ![c] = @ \ {d.n}]
       ELSE UNCHANGED <<audioMP, ioActive>>
  /\ Finish(d)
  /\ UNCHANGED <<deviceOpen, ion, wave, queue, stopped, running, statements>>

(* _cmd: audio.device executes these at once, out of turn.                 *)
Cmd(d) ==
  /\ Due(d) /\ d.call \in {"CMD_STOP", "CMD_START"}
  /\ \/ /\ InitAudioDevice(d.channel)
        /\ stopped' = IF d.call = "CMD_STOP" THEN stopped \cup {d.channel} ELSE stopped \ {d.channel}
     \/ InitAudioDeviceFails(d.channel) /\ UNCHANGED stopped
  /\ Finish(d)
  /\ UNCHANGED <<ioActive, ion, queue, audioMP, running, statements>>

\* Mutant: the shutdown waits for the request that is next in turn only.
ShutdownInHaste ==
  /\ running /\ todo = {}
  /\ running' = FALSE
  /\ todo' = UNION {{Call("_chan_wait", c, ion[c]), Call("close", c, NUM_IO)} : c \in Channels}
  /\ UNCHANGED <<deviceOpen, ioActive, ion, wave, queue, audioMP, stopped, statements>>

(* _asound_shutdown: what is queued is played to its end.                  *)
Shutdown ==
  /\ running /\ todo = {}
  /\ running' = FALSE
  /\ todo' = Waits(All) \cup {Call("close", c, NUM_IO) : c \in Channels}
  /\ UNCHANGED <<deviceOpen, ioActive, ion, wave, queue, audioMP, stopped, statements>>

CloseChannel(d) ==
  /\ Due(d) /\ d.call = "close"
  /\ deviceOpen' = deviceOpen \ {d.channel}
  /\ Finish(d)
  /\ UNCHANGED <<ioActive, ion, wave, queue, audioMP, stopped, running, statements>>

(* audio.device: the request it plays is done and goes back.               *)
Played(c) ==
  /\ c \notin stopped
  /\ queue[c] # <<>>
  /\ audioMP' = [audioMP EXCEPT ![c] = Append(@, Head(queue[c]))]
  /\ queue' = [queue EXCEPT ![c] = Tail(@)]
  /\ UNCHANGED <<deviceOpen, ioActive, ion, wave, stopped, todo, running, statements>>

Statement ==
  \/ \E c \in Channels : (\E short \in BOOLEAN : SOUND(c, short)) \/ SOUND_fails(c)
  \/ \E c \in Channels, w \in Waves : WAVE(c, w)
  \/ \E channel \in Channels \cup {All} : SOUND_WAIT(channel) \/ SOUND_STOP(channel) \/ SOUND_START(channel)
  \/ Shutdown
Library == \E d \in todo : QueueSound(d) \/ ChanWait(d) \/ Cmd(d) \/ CloseChannel(d)

(* The program has ended; nothing is left to do.                           *)
Done == ~running /\ todo = {} /\ UNCHANGED vars

Next == Statement \/ Library \/ (\E c \in Channels : Played(c)) \/ Done

(* The task runs when it is not blocked; audio.device plays on.            *)
Fairness == WF_vars(Library) /\ \A c \in Channels : WF_vars(Played(c))
Spec == Init /\ [][Next]_vars /\ Fairness
-----------------------------------------------------------------------------
(* The requests of a channel that are out, in the order they were handed  *)
(* out.                                                                    *)
Out(c) == audioMP[c] \o queue[c]
Awaited(c) == \E d \in todo : d.call = "_chan_wait" /\ d.channel = c

(* No request is with audio.device, or on its way back, twice, and there   *)
(* are as many of them as are taken to be out.  The waits of SOUND WAIT    *)
(* take any reply for that of the request they wait for; but when a        *)
(* request is handed out again, those taken to be out are the ones that    *)
(* are (asound.c _chan_wait, _queueSound).                                 *)
RequestsAccounted ==
  \A c \in Channels :
    /\ IsInjective(Out(c))
    /\ Cardinality(ioActive[c]) = Len(Out(c))
    /\ ~Awaited(c) => ioActive[c] = Range(Out(c))

(* The state of the queue: types, and where each request is.               *)
Consistent == TypeOK /\ RequestsAccounted

(* When the device of a channel is closed, and the port its requests come  *)
(* back to is deleted, none of them is out (asound.c _asound_shutdown).    *)
ClosedWhenQuiet ==
  /\ \A d \in todo : Due(d) /\ d.call = "close" => Out(d.channel) = <<>>
  /\ ~running /\ todo = {} => deviceOpen = {}

(* Every statement ends, SOUND on a full queue, SOUND WAIT and the end of  *)
(* the program among them, unless it waits for a channel that is stopped:  *)
(* then nothing but the program itself, which is blocked, could start it.  *)
StatementsEnd ==
  todo # {} ~> \/ todo = {}
               \/ \E d \in todo : Due(d) /\ d.call \in {"_queueSound", "_chan_wait"} /\ d.channel \in stopped
=============================================================================
