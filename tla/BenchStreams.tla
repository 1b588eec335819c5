---------------------------- MODULE BenchStreams ----------------------------
(***************************************************************************)
(* The streams of the simulated musicians (jamodio-bench/src/server.rs and *)
(* endpoint.rs, remote.rs): each is a transport that waits for the keys of *)
(* the Audio Engine and for its first packet (the punch, through the relay *)
(* when there is one), then a sending thread plays its schedule -- one     *)
(* thread for each stream, or one for all -- and counts what it sent in a  *)
(* window that the readings of the bench empty.  A musician who leaves     *)
(* retires their stream.                                                   *)
(*                                                                         *)
(* The threads, the bench's own task and the network interleave.  A packet *)
(* is sent, then counted under the window's lock: two steps.               *)
(***************************************************************************)
EXTENDS Naturals, FiniteSets

LOCAL INSTANCE FiniteSetsExt

CONSTANTS
  Streams,
  Modes,       \* values of per_stream to consider
  Relays,      \* with a relay, without
  MaxFrames    \* bound: frames of each stream's schedule

StreamsConstants == IsFiniteSet(Streams) /\ Modes \subseteq BOOLEAN /\ Relays \subseteq BOOLEAN /\ MaxFrames \in Nat

VARIABLES
  per_stream, relayed,
  stage,      \* of each stream, as the bench's task goes
  keyed,      \* the keys of the Audio Engine are known
  addressed,  \* its address is known
  learned,    \* the relay knows its address
  punch,      \* a punch on its way: to the relay, to the bench, none
  retired,    \* Downlink.retired
  asked,      \* streams in the channel of their thread
  active,     \* streams of its loop
  loop,       \* where it is
  todo,       \* streams left in this pass
  holding,    \* sent and not yet counted
  stop,
  due,        \* frames of the schedule whose time came
  done,       \* frames sent
  window,     \* of each thread
  kept,       \* Senders.retired
  read,       \* handed out by take_window
  quota,      \* frames that were due when the pass began
  lost, late, \* history: counted in a window that was dropped; counted once its stream was retired
  left_at     \* history: quota when the stream was gone

linkVars   == <<stage, keyed, addressed, learned, punch, retired>>
loopVars   == <<asked, active, loop, todo, holding, stop>>
countVars  == <<due, done, quota, window, kept, read, lost, late, left_at>>
vars == <<per_stream, relayed, linkVars, loopVars, countVars>>

Shared == [all |-> TRUE]
Threads == Streams \cup {Shared}
Thread(s) == IF per_stream THEN s ELSE Shared
Zero(S) == [x \in S |-> 0]

Init ==
  /\ per_stream \in Modes /\ relayed \in Relays
  /\ stage = [s \in Streams |-> "none"] /\ keyed = {} /\ addressed = {} /\ learned = {}
  /\ punch = [s \in Streams |-> "none"] /\ retired = {}
  /\ asked = [t \in Threads |-> {}] /\ active = [t \in Threads |-> {}]
  /\ loop = [t \in Threads |-> IF t = Shared /\ ~per_stream THEN "top" ELSE "off"]
  /\ todo = [t \in Threads |-> {}] /\ holding = [t \in Threads |-> {}] /\ stop = {}
  /\ due = Zero(Streams) /\ done = Zero(Streams) /\ quota = Zero(Streams) /\ left_at = Zero(Streams)
  /\ window = Zero(Threads)
  /\ kept = 0 /\ read = 0 /\ lost = 0 /\ late = 0

(* The bench's task. *)

Retiring == \E s \in Streams : stage[s] \in {"flagged", "taken"}
Open  == \A s \in Streams : stage[s] # "closed"
Free  == Open /\ ~Retiring

\* The port of the transport, or the relay's, is given to the Audio Engine, which
\* begins to punch.
OpenDownlink(s) ==
  /\ Free /\ stage[s] = "none"
  /\ stage' = [stage EXCEPT ![s] = "open"]
  /\ UNCHANGED <<per_stream, relayed, keyed, addressed, learned, punch, retired, loopVars, countVars>>

\* set_agent_keys, then the stream goes to its thread.
StartDownlink(s) ==
  /\ Free /\ stage[s] = "open"
  /\ stage' = [stage EXCEPT ![s] = "started"]
  /\ keyed' = keyed \cup {s}
  /\ asked' = [asked EXCEPT ![Thread(s)] = @ \cup {s}]
  /\ loop' = IF per_stream THEN [loop EXCEPT ![s] = "top"] ELSE loop
  /\ UNCHANGED <<per_stream, relayed, addressed, learned, punch, retired, active, todo, holding, stop, countVars>>

\* retire: the link is marked; then, if it has a thread of its own, what it measured is
\* taken, and the thread is dropped.
Retire(s) ==
  /\ Free /\ stage[s] = "started"
  /\ stage' = [stage EXCEPT ![s] = IF per_stream THEN "flagged" ELSE "gone"]
  /\ retired' = retired \cup {s}
  /\ left_at' = [left_at EXCEPT ![s] = quota[s]]
  /\ UNCHANGED <<per_stream, relayed, keyed, addressed, learned, punch, loopVars, due, done, quota, window,
                 kept, read, lost, late>>
TakeLast(s) ==
  /\ stage[s] = "flagged"
  /\ stage' = [stage EXCEPT ![s] = "taken"]
  /\ kept' = kept + window[s] /\ window' = [window EXCEPT ![s] = 0]
  /\ stop' = stop \cup {s}
  /\ UNCHANGED <<per_stream, relayed, keyed, addressed, learned, punch, retired, asked, active, loop, todo,
                 holding, due, done, quota, read, lost, late, left_at>>
Joined(s) ==
  /\ stage[s] = "taken" /\ loop[s] = "over"
  /\ stage' = [stage EXCEPT ![s] = "gone"]
  /\ lost' = lost + window[s] /\ window' = [window EXCEPT ![s] = 0]
  /\ left_at' = [left_at EXCEPT ![s] = quota[s]]
  /\ UNCHANGED <<per_stream, relayed, keyed, addressed, learned, punch, retired, loopVars, due, done, quota,
                 kept, read, late>>

\* Wrong: the windows are read and not emptied.
TakeWindowKeeping ==
  /\ Free
  /\ read' = read + kept + MapThenSumSet(LAMBDA t : window[t], {t \in Threads : t = Shared \/ stage[t] = "started"})
  /\ kept' = 0
  /\ UNCHANGED <<per_stream, relayed, linkVars, loopVars, window, due, done, quota, lost, late, left_at>>
\* The windows of the threads that are not retired, one lock at a time: what matters is
\* that each is emptied as it is read.
TakeWindow ==
  /\ Free
  /\ LET mine == {t \in Threads : t = Shared \/ stage[t] = "started"} IN
       /\ read' = read + kept + MapThenSumSet(LAMBDA t : window[t], mine)
       /\ window' = [t \in Threads |-> IF t \in mine THEN 0 ELSE window[t]]
  /\ kept' = 0
  /\ UNCHANGED <<per_stream, relayed, linkVars, loopVars, due, done, quota, lost, late, left_at>>

\* The end of the campaign: every thread is stopped and joined.
Shutdown ==
  /\ Free
  /\ stage' = [s \in Streams |-> "closed"] /\ stop' = Threads
  /\ UNCHANGED <<per_stream, relayed, keyed, addressed, learned, punch, retired, asked, active, loop, todo,
                 holding, countVars>>

(* The punch: sent again until the Audio Engine is answered, lost at any moment. *)

Punch(s) ==
  /\ stage[s] # "none" /\ punch[s] = "none" /\ s \notin addressed
  /\ punch' = [punch EXCEPT ![s] = IF relayed THEN "relay" ELSE "bench"]
  /\ UNCHANGED <<per_stream, relayed, stage, keyed, addressed, learned, retired, loopVars, countVars>>
LosePunch(s) ==
  /\ punch[s] # "none"
  /\ punch' = [punch EXCEPT ![s] = "none"]
  /\ UNCHANGED <<per_stream, relayed, stage, keyed, addressed, learned, retired, loopVars, countVars>>
\* forward(): what does not come from the bench comes from the Audio Engine.
Relay(s) ==
  /\ punch[s] = "relay"
  /\ learned' = learned \cup {s} /\ punch' = [punch EXCEPT ![s] = "bench"]
  /\ UNCHANGED <<per_stream, relayed, stage, keyed, addressed, retired, loopVars, countVars>>
\* listen_punch: while the stream is there and its thread not stopped.
Learn(s) ==
  /\ punch[s] = "bench" /\ stage[s] = "started" /\ s \notin retired
  /\ addressed' = addressed \cup {s} /\ punch' = [punch EXCEPT ![s] = "none"]
  /\ UNCHANGED <<per_stream, relayed, stage, keyed, learned, retired, loopVars, countVars>>

(* The sending thread. *)

\* New streams come in, retired ones go out, and a pass begins.
Pass(t) ==
  /\ loop[t] = "top" /\ t \notin stop
  /\ LET mine == (active[t] \cup asked[t]) \ retired IN
       /\ active' = [active EXCEPT ![t] = mine]
       /\ todo' = [todo EXCEPT ![t] = mine \cap keyed \cap addressed]
  /\ asked' = [asked EXCEPT ![t] = {}]
  /\ loop' = [loop EXCEPT ![t] = "pass"]
  /\ quota' = [s \in Streams |-> IF s \in todo'[t] THEN due[s] ELSE quota[s]]
  /\ UNCHANGED <<per_stream, relayed, linkVars, holding, stop, due, done, window, kept, read, lost, late,
                 left_at>>

\* A frame whose time came is sent: all those of a stream, then the next stream's.
Send(t, s) ==
  /\ loop[t] = "pass" /\ s \in todo[t] /\ holding[t] = {} /\ done[s] < quota[s]
  /\ done' = [done EXCEPT ![s] = @ + 1]
  /\ holding' = [holding EXCEPT ![t] = {s}]
  /\ UNCHANGED <<per_stream, relayed, linkVars, asked, active, loop, todo, stop, due, quota, window, kept,
                 read, lost, late, left_at>>
Count(t) ==
  /\ holding[t] # {}
  /\ holding' = [holding EXCEPT ![t] = {}]
  /\ window' = [window EXCEPT ![t] = @ + 1]
  /\ late' = IF holding[t] \subseteq retired THEN late + 1 ELSE late
  /\ UNCHANGED <<per_stream, relayed, linkVars, asked, active, loop, todo, stop, due, done, quota, kept,
                 read, lost, left_at>>
\* All that was due when the pass began is sent.
NextStream(t, s) ==
  /\ loop[t] = "pass" /\ s \in todo[t] /\ holding[t] = {} /\ done[s] = quota[s]
  /\ todo' = [todo EXCEPT ![t] = @ \ {s}]
  /\ UNCHANGED <<per_stream, relayed, linkVars, asked, active, loop, holding, stop, countVars>>
EndPass(t) ==
  /\ loop[t] = "pass" /\ todo[t] = {} /\ holding[t] = {}
  /\ loop' = [loop EXCEPT ![t] = "top"]
  /\ UNCHANGED <<per_stream, relayed, linkVars, asked, active, todo, holding, stop, countVars>>
End(t) ==
  /\ loop[t] = "top" /\ t \in stop
  /\ loop' = [loop EXCEPT ![t] = "over"]
  /\ UNCHANGED <<per_stream, relayed, linkVars, asked, active, todo, holding, stop, countVars>>

\* Its schedule starts with the first pass it is ready in.
FrameDue(s) ==
  /\ s \in keyed \cap addressed /\ due[s] < MaxFrames
  /\ \E t \in Threads : s \in active[t]
  /\ due' = [due EXCEPT ![s] = @ + 1]
  /\ UNCHANGED <<per_stream, relayed, linkVars, loopVars, done, quota, window, kept, read, lost, late, left_at>>

Loop(t) == Pass(t) \/ Count(t) \/ EndPass(t) \/ End(t) \/ \E s \in Streams : Send(t, s) \/ NextStream(t, s)
Bench == \/ \E s \in Streams : \/ OpenDownlink(s) \/ StartDownlink(s) \/ Retire(s) \/ TakeLast(s) \/ Joined(s)
         \/ TakeWindow \/ Shutdown
Network == \E s \in Streams : Punch(s) \/ LosePunch(s) \/ Relay(s) \/ Learn(s) \/ FrameDue(s)
Next == Bench \/ Network \/ \E t \in Threads : Loop(t)
Fairness == /\ \A t \in Threads : WF_vars(Loop(t))
            /\ WF_vars(\E s \in Streams : TakeLast(s) \/ Joined(s))
Spec == Init /\ [][Next]_vars /\ Fairness

(* What the streams promise. *)

\* server.rs:383 "ses dernières mesures sont gardées": every packet is counted in one
\* reading at most, and only one that was being counted while its
\* stream was retired in none.
CountedOnce ==
  LET Total(f, S) == MapThenSumSet(LAMBDA x : f[x], S) IN
    /\ read + kept + Total(window, Threads) + lost + Cardinality({t \in Threads : holding[t] # {}})
         = Total(done, Streams)
    /\ lost <= late

\* server.rs:114 "Le musicien part : plus aucun paquet de ce flux": once a stream is gone no
\* pass takes it again, and the thread it had alone is over.
NothingAfterLeaving ==
  \A s \in Streams : stage[s] = "gone" => quota[s] = left_at[s] /\ (per_stream => loop[s] = "over")

\* relay.rs:257: the relay never has to drop a packet of the bench because the Audio Engine
\* has not punched yet: whoever the bench knows, the relay knew first.
RelayKnows == relayed => addressed \subseteq learned

\* A stream that is retired is soon gone, and a shutdown leaves no thread behind.
ThreadsEnd ==
  /\ []<>~Retiring
  /\ []<>(Open \/ \A t \in Threads : loop[t] \in {"off", "over"})
=============================================================================
