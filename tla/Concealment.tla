----------------------------- MODULE Concealment -----------------------------
(***************************************************************************)
(* The receive thread's core (RxCore in jamodio-agent/src/pipeline.rs):    *)
(* packets are decoded and pushed to the buffer of their stream, and at    *)
(* the deadline of a packet that did not come a frame is invented if the   *)
(* buffer would run dry (jamodio-audio-core/src/mixer/conceal.rs).  Before *)
(* deciding, the thread reads again the sockets of the streams that are    *)
(* due (conceal_pass in pipeline/recv_thread.rs), while packets arrive,    *)
(* the output callback pulls and time passes.                              *)
(*                                                                         *)
(* Instants are kept relative to the present, in ticks.  The verdict on a  *)
(* packet is any SeqTracker may give; a jitter buffer is its fill, its     *)
(* priming and its untold hole, under a fixed target.                      *)
(***************************************************************************)
EXTENDS Integers

CONSTANTS
  Streams,
  None,
  FRAME,            \* ticks in a frame
  STALE,            \* lateness beyond which a stream has dried up (STALE_MS)
  MAX_CONSECUTIVE,  \* invented frames in a row
  PLC_MAX_GAP,      \* longest gap filled when the next packet arrives
  Tails,            \* jitter tails once the estimator is warm (the grace)
  BLOCK,            \* what the output pulls at once
  WAKE_SLACK,       \* what the buffer must hold beyond a block
  TARGET, CAPACITY, \* of the jitter buffer
  MaxGap,           \* bound: packets missing before one
  MaxPackets,       \* bound: packets sent on a stream
  DecodeMayFail     \* Opus may refuse a packet or a loss

ConcealConstants ==
  /\ FRAME \in Nat \ {0} /\ BLOCK \in Nat \ {0}
  /\ STALE \in Nat /\ MAX_CONSECUTIVE \in Nat /\ PLC_MAX_GAP \in Nat /\ WAKE_SLACK \in Nat
  /\ Tails \subseteq Nat \ {0}
  /\ TARGET \in Nat \ {0} /\ CAPACITY \in Nat /\ TARGET =< CAPACITY
  /\ MaxGap \in Nat /\ MaxPackets \in Nat /\ DecodeMayFail \in BOOLEAN
  /\ None \notin Int /\ None \notin Streams

VARIABLES
  socket,       \* packets waiting in the stream's socket
  sent,         \* packets that arrived so far
  started,      \* the tracker has met a first packet
  deadline,     \* next_deadline
  check,        \* next_check
  consecutive,  \* consecutive_concealed
  tail,         \* jitter_tail_ms of a warm estimator, None before
  pending,      \* DecodeState.pending_hole is Some
  fill, primed, \* the jitter buffer
  hole,         \* JitterBuffer.pending_hole is Some
  pc,           \* the thread: "network", "reread" or "examine"
  ready,        \* "reread": sockets not yet empty
  left,         \* "examine": streams not yet examined
  inventing,    \* "examine": the stream a frame is being invented for, or None
  run,          \* history variable: invented frames pushed since the last packet put in place
  longest,      \* history variable: the longest run so far
  untold        \* history variable: holes met and not yet classified

threadVars == <<pc, ready, left, inventing>>
bufferVars == <<fill, primed, hole>>
decodeVars == <<started, deadline, check, consecutive, tail, pending, run, longest>>
vars == <<socket, sent, decodeVars, bufferVars, threadVars, untold>>

Least(a, b) == IF a < b THEN a ELSE b
Most(a, b) == IF a > b THEN a ELSE b
Minus(a, b) == IF a > b THEN a - b ELSE 0
Count(flag) == IF flag THEN 1 ELSE 0

Init ==
  /\ socket = [s \in Streams |-> 0] /\ sent = [s \in Streams |-> 0]
  /\ started = [s \in Streams |-> FALSE]
  /\ deadline = [s \in Streams |-> None] /\ check = [s \in Streams |-> None]
  /\ consecutive = [s \in Streams |-> 0]
  /\ tail = [s \in Streams |-> None]
  /\ pending = [s \in Streams |-> FALSE]
  /\ fill = [s \in Streams |-> 0] /\ primed = [s \in Streams |-> FALSE]
  /\ hole = [s \in Streams |-> FALSE]
  /\ pc = "network" /\ ready = {} /\ left = {} /\ inventing = None
  /\ run = [s \in Streams |-> 0] /\ longest = [s \in Streams |-> 0]
  /\ untold = [s \in Streams |-> 0]

-----------------------------------------------------------------------------
\* The network, the clock and the output callback.

Arrive(s) ==
  /\ sent[s] < MaxPackets
  /\ sent' = [sent EXCEPT ![s] = @ + 1]
  /\ socket' = [socket EXCEPT ![s] = @ + 1]
  /\ UNCHANGED <<decodeVars, bufferVars, threadVars, untold>>

\* A tick.  Lateness beyond STALE and checks overdue need not be told apart.  The
\* examination of the streams works on one instant, read when it starts.
Tick ==
  /\ pc # "examine"
  /\ deadline' = [s \in Streams |->
       IF deadline[s] \in {None, -STALE - 1} THEN deadline[s] ELSE deadline[s] - 1]
  /\ check' = [s \in Streams |-> IF check[s] \in {None, 0} THEN check[s] ELSE check[s] - 1]
  /\ UNCHANGED <<socket, sent, started, consecutive, tail, pending, run, longest, bufferVars,
                 threadVars, untold>>

\* JitterBuffer::is_playing
Playing(s) == primed[s] \/ fill[s] >= TARGET

\* JitterBuffer::pull under a fixed target (JitterBuffer models it whole).
Pull(s) ==
  /\ Playing(s)
  /\ IF fill[s] >= BLOCK
     THEN /\ fill' = [fill EXCEPT ![s] = @ - BLOCK]
          /\ primed' = [primed EXCEPT ![s] = TRUE]
          /\ UNCHANGED <<hole, untold>>
     ELSE /\ fill' = [fill EXCEPT ![s] = 0]
          /\ primed' = [primed EXCEPT ![s] = FALSE]
          /\ hole' = [hole EXCEPT ![s] = TRUE]
          /\ untold' = [untold EXCEPT ![s] = @ + 1]
  /\ UNCHANGED <<socket, sent, decodeVars, threadVars>>

\* mixer.push_samples of n frames: the first one takes the untold hole.
Pushed(s, n) ==
  /\ fill' = [fill EXCEPT ![s] = Least(@ + n * FRAME, CAPACITY)]
  /\ hole' = [hole EXCEPT ![s] = IF n > 0 THEN FALSE ELSE @]
  /\ UNCHANGED primed

-----------------------------------------------------------------------------
\* The receive thread: a packet.

\* A wrong form of the budget below: what the deadline took of it is forgotten.
OwnBudget(s) == MAX_CONSECUTIVE

\* Frames the arrival may fill: a short gap, on what the deadline left of the
\* budget they share.
Budget(s) == Minus(MAX_CONSECUTIVE, consecutive[s])
FilledOnArrival(s, missing) ==
  IF missing \in 1 .. PLC_MAX_GAP THEN Least(missing, Budget(s)) ELSE 0

\* note_push with the packet that accompanies it: every hole known is classified.
Classified(s) == Count(pending[s]) + Count(hole[s])

\* decode_one_packet, the packet being played: the deadline is armed, the budget
\* of inventions is new, the gap and then the packet are pushed.  A pull between
\* these pushes is taken before them: each push classifies what it finds.
Play(s, missing) ==
  /\ started' = [started EXCEPT ![s] = TRUE]
  /\ deadline' = [deadline EXCEPT ![s] = FRAME]
  /\ check' = [check EXCEPT ![s] = None]
  /\ consecutive' = [consecutive EXCEPT ![s] = 0]
  /\ \E t \in Tails \cup ({None} \cap {tail[s]}) : tail' = [tail EXCEPT ![s] = t]
  /\ \E filled \in IF DecodeMayFail THEN 0 .. FilledOnArrival(s, missing)
                                    ELSE {FilledOnArrival(s, missing)},
        real \in IF DecodeMayFail THEN 0 .. 1 ELSE {1} :
       /\ Pushed(s, filled + real)
       /\ IF filled + real > 0
          THEN /\ pending' = [pending EXCEPT ![s] = FALSE]
               /\ untold' = [untold EXCEPT ![s] = @ - Classified(s)]
          ELSE UNCHANGED <<pending, untold>>
       /\ run' = [run EXCEPT ![s] = 0]
       /\ longest' = [longest EXCEPT ![s] = Most(@, run[s] + filled)]

\* A late, duplicate or jumping packet is not played: neither the deadline nor the
\* buffer hears of it.
Discard == UNCHANGED <<decodeVars, bufferVars, untold>>

\* read_one: a packet of the socket, with any verdict SeqTracker may give it.
Read(s) ==
  /\ socket[s] > 0
  /\ socket' = [socket EXCEPT ![s] = @ - 1]
  /\ \/ Play(s, 0)                                         \* Start, or Next in order
     \/ started[s] /\ \E missing \in 1 .. MaxGap : Play(s, missing)
     \/ started[s] /\ Discard
  /\ UNCHANGED <<sent, threadVars>>

-----------------------------------------------------------------------------
\* The receive thread: the end of a turn.

\* examined_at
Due(s) == /\ deadline[s] # None /\ deadline[s] =< 0
          /\ check[s] = None \/ check[s] =< 0

\* recv_loop, reading what the system signalled.
ReadNetwork(s) == pc = "network" /\ Read(s)

\* conceal_pass: the streams that are due are selected...
Select ==
  /\ pc = "network"
  /\ pc' = "reread"
  /\ ready' = {s \in Streams : Due(s)}
  /\ UNCHANGED <<socket, sent, decodeVars, bufferVars, left, inventing, untold>>

\* ...their sockets are read until they are empty...
ReadAgain(s) == pc = "reread" /\ s \in ready /\ Read(s)
WouldBlock(s) ==
  /\ pc = "reread" /\ s \in ready /\ socket[s] = 0
  /\ ready' = ready \ {s}
  /\ UNCHANGED <<socket, sent, decodeVars, bufferVars, pc, left, inventing, untold>>

\* ...and every stream is examined, at the instant that follows.
BeginConceal ==
  /\ pc = "reread" /\ ready = {}
  /\ pc' = "examine"
  /\ left' = Streams
  /\ UNCHANGED <<socket, sent, decodeVars, bufferVars, ready, inventing, untold>>
EndConceal ==
  /\ pc = "examine" /\ left = {} /\ inventing = None
  /\ pc' = "network"
  /\ UNCHANGED <<socket, sent, decodeVars, bufferVars, ready, left, inventing, untold>>

Late(s) == -deadline[s]

\* decide, after the check that the buffer is playing.
Survives(s) == fill[s] >= BLOCK + WAKE_SLACK
Decision(s) ==
  CASE ~Playing(s)                        -> "Repriming"
    [] Playing(s) /\ tail[s] = None       -> "LinkUnknown"
    [] Playing(s) /\ tail[s] # None /\ Late(s) < tail[s] -> "WithinGrace"
    [] Playing(s) /\ tail[s] # None /\ Late(s) >= tail[s] /\ Survives(s) -> "BufferHolds"
    [] OTHER -> IF consecutive[s] >= MAX_CONSECUTIVE THEN "FadeToSilence" ELSE "Frame"

\* recheck_in_ms
Recheck(s, why) ==
  CASE why = "LinkUnknown" -> FRAME
    [] why = "WithinGrace" -> tail[s] - Late(s)
    [] why = "BufferHolds" -> Minus(fill[s], BLOCK + WAKE_SLACK + BLOCK)

Disarm(s) ==
  /\ deadline' = [deadline EXCEPT ![s] = None]
  /\ check' = [check EXCEPT ![s] = None]
  /\ UNCHANGED <<started, consecutive, tail, pending, run, longest, bufferVars, untold>>

\* A wrong form of the test below: waiting has no end.
NeverStale(s) == FALSE
IsStale(s) == Late(s) > STALE

\* The deadline stands, the stream is looked at again when the reason to wait may
\* have changed; a stream that dried up no longer wakes the thread.
Wait(s, why) ==
  IF IsStale(s) THEN Disarm(s)
  ELSE /\ check' = [check EXCEPT ![s] = Recheck(s, why)]
       /\ UNCHANGED <<started, deadline, consecutive, tail, pending, run, longest, bufferVars, untold>>


\* note_push without a packet: the hole told waits for the packet that explains it.
Kept(s, ok) == pending[s] \/ (ok = 1 /\ hole[s])

\* One turn of conceal_due_streams: the decision, on what the buffer holds now...
Examine(s) ==
  /\ pc = "examine" /\ s \in left /\ inventing = None
  /\ left' = left \ {s}
  /\ LET d == Decision(s)
     IN /\ inventing' = IF Due(s) /\ d = "Frame" THEN s ELSE None
        /\ CASE ~Due(s) \/ d = "Frame" -> UNCHANGED <<decodeVars, bufferVars, untold>>
             [] Due(s) /\ d \in {"Repriming", "FadeToSilence"} -> Disarm(s)
             [] Due(s) /\ d \in {"LinkUnknown", "WithinGrace", "BufferHolds"} -> Wait(s, d)
  /\ UNCHANGED <<socket, sent, pc, ready>>

\* ...and the frame, decoded and pushed while the output goes on: what the decision
\* was made on may be gone.  A failure of the decoder counts as a frame: it must
\* not loop.
Invent(s) ==
  /\ inventing = s
  /\ inventing' = None
  /\ \E ok \in IF DecodeMayFail THEN 0 .. 1 ELSE {1} :
       /\ Pushed(s, ok)
       /\ pending' = [pending EXCEPT ![s] = Kept(s, ok)]
       /\ untold' = [untold EXCEPT ![s] = @ - Count(ok = 1 /\ hole[s] /\ pending[s])]
       /\ run' = [run EXCEPT ![s] = @ + ok]
       /\ longest' = [longest EXCEPT ![s] = Most(@, run[s] + ok)]
  /\ consecutive' = [consecutive EXCEPT ![s] = @ + 1]
  /\ deadline' = [deadline EXCEPT ![s] = IF @ + FRAME > 0 THEN @ + FRAME ELSE FRAME]
  /\ check' = [check EXCEPT ![s] = None]
  /\ UNCHANGED <<socket, sent, started, tail, pc, ready, left>>

Thread ==
  \/ \E s \in Streams : ReadNetwork(s) \/ ReadAgain(s) \/ WouldBlock(s) \/ Examine(s) \/ Invent(s)
  \/ Select \/ BeginConceal \/ EndConceal

Next ==
  \/ \E s \in Streams : Arrive(s) \/ Pull(s)
  \/ Tick
  \/ Thread

Spec == Init /\ [][Next]_vars

\* The thread is scheduled and reads what is signalled; time passes in spite of the
\* examinations, which take none here.  The output need not run: its device may be
\* gone.
FairSpec ==
  /\ Spec
  /\ SF_vars(Tick)
  /\ \A s \in Streams : WF_vars(ReadAgain(s)) /\ WF_vars(WouldBlock(s))
  /\ \A s \in Streams : WF_vars(Examine(s)) /\ WF_vars(Invent(s))
  /\ WF_vars(Select) /\ WF_vars(BeginConceal) /\ WF_vars(EndConceal)

-----------------------------------------------------------------------------
\* Every variable has its type; an armed deadline is at most one frame away and a
\* check never comes without a deadline.
TypeOK ==
  /\ socket \in [Streams -> Nat] /\ sent \in [Streams -> 0 .. MaxPackets]
  /\ started \in [Streams -> BOOLEAN]
  /\ deadline \in [Streams -> (-STALE - 1 .. FRAME) \cup {None}]
  /\ check \in [Streams -> Nat \cup {None}]
  /\ \A s \in Streams : check[s] # None => deadline[s] # None
  /\ consecutive \in [Streams -> Nat]
  /\ tail \in [Streams -> Tails \cup {None}]
  /\ pending \in [Streams -> BOOLEAN]
  /\ fill \in [Streams -> 0 .. CAPACITY]
  /\ primed \in [Streams -> BOOLEAN] /\ hole \in [Streams -> BOOLEAN]
  /\ pc \in {"network", "reread", "examine"}
  /\ ready \subseteq Streams /\ left \subseteq Streams
  /\ inventing \in Streams \cup {None}
  /\ run \in [Streams -> Nat] /\ longest \in [Streams -> Nat] /\ untold \in [Streams -> Nat]

\* Whatever fills a gap, the deadlines that precede a packet or its arrival, at most
\* MAX_CONSECUTIVE frames are invented before that packet takes its place ("les
\* 7,5 ms promises", pipeline.rs:6130): the two share one budget, also when the
\* decoder refuses some of the frames.
InventionBounded == \A s \in Streams : longest[s] =< MAX_CONSECUTIVE

\* Every hole of the output is classified once: it is in the buffer until the next
\* push, then with the stream until the next real packet, and nowhere twice.
HolesAccounted == \A s \in Streams : untold[s] = Count(hole[s]) + Count(pending[s])

\* A stream that went silent (talkback cut, peer gone) stops waking the thread,
\* whatever the state of its buffer, of its decoder and of the output.
SilentStreamSleeps ==
  \A s \in Streams : <>[](socket[s] = 0) => <>[](deadline[s] = None)
=============================================================================
