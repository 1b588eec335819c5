---------------------------- MODULE BenchSchedule ----------------------------
(***************************************************************************)
(* The schedule of a simulated musician's stream                           *)
(* (jamodio-bench/src/profile.rs): frame after frame of their clock, the   *)
(* losses, the delay, the link that holds everything back, the queue's     *)
(* order and the disorder; for talkback, the turns of speech.              *)
(*                                                                         *)
(* Time is in small units (FRAME_US is Frame).  Drawn numbers are choices. *)
(* Names of links, laws of delay and the clock's drift are left out.       *)
(***************************************************************************)
EXTENDS Naturals, Sequences, FiniteSets

LOCAL INSTANCE SequencesExt
LOCAL INSTANCE FiniteSetsExt

CONSTANTS
  Timeline,    \* links in turn: from when, losses, longest delay, burst, spike, depth, base
  Offset,      \* place of the stream in its musician's timeline
  Frame,       \* FRAME_US
  Lookback,    \* SPIKE_LOOKBACK_US
  MaxGap,      \* bound: time from a spike to the next
  MaxTurn,     \* frames of the longest turn of speech or silence
  Speech,      \* kinds of stream: "instrument" (or who always speaks), "bursts"
  MaxFrames    \* bound: frames of the clock

ScheduleConstants ==
  /\ Timeline # <<>> /\ Timeline[1].from = 0 /\ Offset \in Nat /\ Frame \in Nat \ {0}
  /\ \A k \in DOMAIN Timeline : Timeline[k].base + Timeline[k].delay <= Lookback
  /\ Speech \subseteq {"instrument", "bursts"} /\ MaxFrames \in Nat

VARIABLES
  speech, seg, next_index, last_send,
  burst_bad, burst_left, burst_just_ended,
  windows, cursor,        \* SpikeTrain: spikes drawn, where to draw on (Never: no more)
  out, deferred,
  talking, period_end,
  sent,                   \* what next() returned
  fate                    \* history: index -> what became of the frame

burstVars == <<burst_bad, burst_left, burst_just_ended>>
spikeVars == <<windows, cursor>>
voiceVars == <<talking, period_end>>
vars == <<speech, seg, next_index, last_send, burstVars, spikeVars, out, deferred, voiceVars, sent, fate>>

Never == 1000000

Init ==
  /\ speech \in Speech /\ seg = 1 /\ next_index = 0 /\ last_send = 0
  /\ burst_bad = FALSE /\ burst_left = 0 /\ burst_just_ended = FALSE
  /\ windows = <<>> /\ cursor = 0
  /\ out = <<>> /\ deferred = {}
  /\ talking = (speech # "bursts")
  /\ period_end \in IF speech = "bursts" THEN {Frame * n : n \in 0..MaxTurn} ELSE {Never}
  /\ sent = <<>> /\ fate = <<>>

SegmentAt(t) == Max({1} \cup {k \in DOMAIN Timeline : Timeline[k].from <= t})
NextChange(k) == IF k < Len(Timeline) THEN Timeline[k + 1].from ELSE Never

(* Losses in bursts. *)

\* A fixed burst loses exactly its length, then lets a packet pass.
FixedBurst(len, lost) ==
  /\ UNCHANGED burst_bad
  /\ IF burst_left > 0
     THEN lost /\ burst_left' = burst_left - 1 /\ burst_just_ended' = (burst_left = 1)
     ELSE IF burst_just_ended
          THEN ~lost /\ burst_just_ended' = FALSE /\ UNCHANGED burst_left
          ELSE \/ lost /\ burst_left' = len - 1 /\ burst_just_ended' = (len = 1)
               \/ ~lost /\ UNCHANGED <<burst_left, burst_just_ended>>

Burst(link, lost) ==
  CASE link.burst = "none"   -> /\ ~lost /\ burst_bad' = FALSE /\ burst_left' = 0
                                /\ burst_just_ended' = FALSE
    [] link.burst = "random" -> burst_bad' = lost /\ UNCHANGED <<burst_left, burst_just_ended>>
    [] OTHER                 -> FixedBurst(link.len, lost)

(* Spikes. *)

\* extend_to(): the spikes that may be drawn up to t, each with where to draw on.
Drawn[c \in 0..Never, t \in Nat] ==
  IF c > t THEN {[windows |-> <<>>, cursor |-> c]}
  ELSE LET k    == SegmentAt(c)
           hold == Timeline[k].hold
           Drawing(w, n) == {[windows |-> w \o d.windows, cursor |-> d.cursor] : d \in Drawn[n, t]}
       IN IF hold = 0 THEN Drawing(<<>>, NextChange(k))
          ELSE UNION {IF c + g >= NextChange(k) THEN Drawing(<<>>, NextChange(k))
                      ELSE Drawing(<<[from |-> c + g, to |-> c + g + hold]>>, c + g + hold) :
                        g \in 1..MaxGap}

\* release(): when a packet due at t gets through.
Kept(ws, t)     == SelectSeq(ws, LAMBDA w : w.to + Lookback >= t)
Holding(ws, t)  == SelectSeq(ws, LAMBDA w : w.from <= t /\ t < w.to)
Released(ws, t) == IF Holding(ws, t) = <<>> THEN t ELSE Holding(ws, t)[1].to

(* A frame of the clock. *)

Later(a, b) == IF a >= b THEN a ELSE b
\* Wrong: only the frames put aside for this very place.
DueHere(index) == SetToSortSeq({d.index : d \in {x \in deferred : x.after = index}}, <)
\* Frames put aside whose turn has come leave right behind this one, in order.
Due(index) == SetToSortSeq({d.index : d \in {x \in deferred : x.after <= index}}, <)
Batch(index, at) ==
  LET is == <<index>> \o Due(index) IN [i \in 1..Len(is) |-> [at |-> at, index |-> is[i]]]

Produce ==
  /\ out = <<>> /\ next_index < MaxFrames
  /\ next_index' = next_index + 1
  /\ LET index == next_index
         at == Offset + index * Frame
         here == CHOOSE k \in seg..Len(Timeline) :
                   (k = Len(Timeline) \/ Timeline[k + 1].from > at) /\ \A j \in seg..(k - 1) : Timeline[j + 1].from <= at
         link == Timeline[here]
     IN
     /\ seg' = here
     /\ \E lost \in {FALSE, link.losses}, burst \in BOOLEAN, delay \in 0..link.delay, depth \in 0..link.depth :
        /\ Burst(link, burst)
        /\ IF lost \/ burst
           THEN /\ delay = 0 /\ depth = 0
                /\ fate' = Append(fate, [lost |-> TRUE, burst |-> burst, seg |-> here, depth |-> 0])
                /\ UNCHANGED <<last_send, out, deferred, spikeVars>>
           ELSE /\ fate' = Append(fate, [lost |-> FALSE, burst |-> FALSE, seg |-> here, depth |-> depth])
                /\ \E d \in Drawn[cursor, at + link.base + delay] :
                   LET due == at + link.base + delay
                       ws == Kept(windows \o d.windows, due)
                       send == Later(Released(ws, due) - Offset, last_send)
                   IN /\ windows' = ws /\ cursor' = d.cursor
                      /\ IF depth > 0
                         THEN /\ deferred' = deferred \cup {[after |-> index + depth, index |-> index]}
                              /\ UNCHANGED <<last_send, out>>
                         ELSE /\ last_send' = send /\ out' = Batch(index, send)
                              /\ deferred' = {x \in deferred : x.after > index}
  /\ UNCHANGED <<speech, voiceVars, sent>>

(* next(). *)

\* Turns of speech until the frame's own: at least a frame each.
Turns[n \in Nat, e \in Nat, t \in BOOLEAN] ==
  IF n < e THEN {<<e, t>>} ELSE UNION {Turns[n, e + Frame * k, ~t] : k \in 1..MaxTurn}

Next1 ==
  /\ out # <<>> /\ out' = Tail(out)
  /\ \E p \in Turns[Head(out).index * Frame, period_end, talking] :
       /\ period_end' = p[1] /\ talking' = p[2]
       /\ sent' = IF p[2] THEN Append(sent, Head(out)) ELSE sent
  /\ UNCHANGED <<speech, seg, next_index, last_send, burstVars, spikeVars, deferred, fate>>

Next == Produce \/ Next1
Spec == Init /\ [][Next]_vars

(* What the schedule promises. *)

SentOrOut == sent \o out
Numbers   == {SentOrOut[i].index : i \in DOMAIN SentOrOut}
Frames    == 0..(next_index - 1)
Lost(n)   == fate[n + 1].lost

\* profile.rs:596 "Les trames sortent dans l'ordre d'envoi", each once, and only those
\* that were not lost; without turns of speech each of these is sent or put aside.
EachOnceInTime ==
  /\ \A i, j \in DOMAIN SentOrOut : i < j =>
       SentOrOut[i].at <= SentOrOut[j].at /\ SentOrOut[i].index # SentOrOut[j].index
  /\ \A n \in Numbers : ~Lost(n)
  /\ speech # "bursts" => {n \in Frames : ~Lost(n)} = Numbers \cup {d.index : d \in deferred}

\* A frame out of place leaves with the first packet in its place sent after the frames it
\* lets pass, and delays none of them.
RightBehind ==
  speech # "bursts" =>
  \A n \in Frames : fate[n + 1].depth > 0 =>
    LET passed == {m \in Frames : m >= n + fate[n + 1].depth /\ ~Lost(m) /\ fate[m + 1].depth = 0}
    IN IF passed = {} THEN n \notin Numbers
       ELSE \E i, j \in DOMAIN SentOrOut :
              /\ SentOrOut[i].index = n /\ SentOrOut[j].index = Min(passed) /\ j < i
              /\ SentOrOut[i].at = SentOrOut[j].at
              /\ \A k \in j..i : fate[SentOrOut[k].index + 1].depth = 0 => k = j

\* profile.rs:138 "Chaque rafale fait EXACTEMENT `mean_packets` paquets": on one link, from
\* its start, and two bursts never touch.
FixedBurstsExact ==
  \A a \in Frames :
    LET link == Timeline[fate[a + 1].seg]
        In(n) == n \in Frames /\ fate[n + 1].burst
        same  == {n \in Frames : n >= a /\ fate[n + 1].seg = fate[a + 1].seg}
        end   == a + link.len
    IN link.burst = "fixed" /\ In(a) /\ (a = 0 \/ (~In(a - 1) /\ fate[a].seg = fate[a + 1].seg)) =>
         \A n \in same : (n < end => In(n)) /\ (n = end => ~In(n))

\* profile.rs:169 "le lien retient TOUT": nothing is sent inside a spike.
HeldBack ==
  \A i \in DOMAIN windows, j \in DOMAIN out :
    LET t == Offset + out[j].at IN ~(windows[i].from <= t /\ t < windows[i].to)
==============================================================================
