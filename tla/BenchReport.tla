----------------------------- MODULE BenchReport -----------------------------
(***************************************************************************)
(* What the bench writes each second of a run and what it concludes from   *)
(* it (jamodio-bench/src/run.rs, report.rs, analysis.rs): the rows of the  *)
(* streams and of the machine, the steps, the increase of a counter that   *)
(* starts again when a musician returns, and the first criterion (no hole  *)
(* of local cause).  The same figures are found again from the CSV files   *)
(* when a campaign is analysed later.                                      *)
(*                                                                         *)
(* Kept of a row: its time, its step, its stream and its count of holes of *)
(* local cause.  Targets, causes and clock drift follow the same path and  *)
(* are left out.  Time is in seconds; a reading may come late.             *)
(***************************************************************************)
EXTENDS Integers, Sequences, FiniteSets

LOCAL INSTANCE SequencesExt
LOCAL INSTANCE FiniteSetsExt

CONSTANTS
  From, To,    \* from_musicians, to_musicians
  StepSecs,    \* step_secs
  Warmup,      \* warmup_secs
  Away,        \* musicians whose profile has one absence
  MaxHoles,    \* bound: holes of a run
  MaxDeaf,     \* bound: seconds without a perf-stats
  MaxDelay     \* bound: seconds a musician takes to arrive or return

ReportConstants ==
  /\ From \in Nat /\ To \in Nat /\ 2 <= From /\ From <= To
  /\ StepSecs \in Nat \ {0} /\ Warmup \in Nat /\ Away \subseteq 2..To
  /\ MaxHoles \in Nat /\ MaxDeaf \in Nat /\ MaxDelay \in Nat

VARIABLES
  t,            \* seconds since t0
  musicians,    \* of the present step
  steps,        \* musicians, start, end of each step so far
  step_end,     \* when the present step ends; 0 between steps
  playing,      \* streams of the Audio Engine (one per musician)
  gone,         \* absences begun
  count,        \* stream -> holes the Audio Engine counts, from 0 at each return
  truth,        \* history: stream -> holes of the run
  life,         \* history: stream -> its arrivals
  measures,     \* the Audio Engine counts the holes by their cause
  peer_rows, machine_rows,
  deaf, over

vars == <<t, musicians, steps, step_end, playing, gone, count, truth, life, measures,
          peer_rows, machine_rows, deaf, over>>

Peers == 2..To

Init ==
  /\ t = 0 /\ musicians = From - 1 /\ steps = <<>> /\ step_end = 0
  /\ playing = {} /\ gone = {}
  /\ count = [s \in Peers |-> 0] /\ truth = count /\ life = count
  /\ measures \in BOOLEAN /\ peer_rows = <<>> /\ machine_rows = <<>>
  /\ deaf = 0 /\ over = FALSE

Arrive(ss) ==
  /\ playing' = playing \cup ss
  /\ count' = [s \in Peers |-> IF s \in ss THEN 0 ELSE count[s]]
  /\ life' = [s \in Peers |-> IF s \in ss THEN life[s] + 1 ELSE life[s]]

\* The musicians of the step arrive; it starts once they are there.
NextStep ==
  /\ ~over /\ step_end = 0 /\ musicians < To
  /\ musicians' = musicians + 1
  /\ Arrive(2..musicians' \ {m \in Peers : life[m] > 0})
  /\ \E d \in 0..MaxDelay :
       /\ t' = t + d
       /\ steps' = Append(steps, [n |-> musicians', start |-> t + d, end |-> t + d])
       /\ step_end' = t + d + StepSecs
  /\ UNCHANGED <<gone, truth, measures, peer_rows, machine_rows, deaf, over>>

Hole(s) ==
  /\ ~over /\ s \in playing /\ MapThenSumSet(LAMBDA x : truth[x], Peers) < MaxHoles
  /\ count' = [count EXCEPT ![s] = @ + 1] /\ truth' = [truth EXCEPT ![s] = @ + 1]
  /\ UNCHANGED <<t, musicians, steps, step_end, playing, gone, life, measures, peer_rows, machine_rows, deaf, over>>

Leave(m) ==
  /\ step_end > t /\ ~over /\ m \in playing \cap (Away \ gone)
  /\ playing' = playing \ {m} /\ gone' = gone \cup {m}
  /\ UNCHANGED <<t, musicians, steps, step_end, count, truth, life, measures, peer_rows, machine_rows, deaf, over>>

\* The return waits for the Audio Engine: the next reading comes late.
Return(m) ==
  /\ step_end > t /\ ~over /\ m \in gone \ playing
  /\ Arrive({m}) /\ \E d \in 0..MaxDelay : t' = t + d
  /\ UNCHANGED <<musicians, steps, step_end, gone, truth, measures, peer_rows, machine_rows, deaf, over>>

PeerRows(now) ==
  LET s == SetToSortSeq(playing, <)
  IN [i \in 1..Len(s) |-> [t |-> now, n |-> musicians, s |-> s[i], v |-> count[s[i]],
                           x |-> truth[s[i]], life |-> life[s[i]]]]

\* The readings of a second; the perf-stats may be missing.
Read ==
  /\ ~over /\ step_end > t
  /\ t' = t + 1
  /\ machine_rows' = Append(machine_rows, [t |-> t + 1, n |-> musicians])
  /\ \/ peer_rows' = peer_rows \o PeerRows(t + 1) /\ UNCHANGED deaf
     \/ deaf < MaxDeaf /\ deaf' = deaf + 1 /\ UNCHANGED peer_rows
  /\ steps' = [steps EXCEPT ![Len(steps)].end = t + 1]
  /\ UNCHANGED <<musicians, step_end, playing, gone, count, truth, life, measures>>
  /\ \/ UNCHANGED over
     \/ over' = TRUE                      \* an error, Ctrl-C

EndStep ==
  /\ ~over /\ step_end > 0 /\ step_end <= t
  /\ step_end' = 0 /\ over' = (musicians = To)
  /\ UNCHANGED <<t, musicians, steps, playing, gone, count, truth, life, measures, peer_rows, machine_rows, deaf>>

Next == NextStep \/ Read \/ EndStep \/ \E s \in Peers : Hole(s) \/ Leave(s) \/ Return(s)
Spec == Init /\ [][Next]_vars

(* The analysis. *)

\* Steps without their warm-up; one no longer than it is not measured.
Measured(ss) ==
  {[n |-> p.n, from |-> p.start + Warmup, to |-> p.end] :
     p \in {q \in ToSet(ss) : q.end - q.start > Warmup}}

InstrumentRows(w, s) ==
  SelectSeq(peer_rows, LAMBDA r : r.s = s /\ r.n = w.n /\ r.t >= w.from /\ r.t <= w.to)

\* A counter that goes back was reset: count from the reset, keep what was before.
Gain(a, b) == IF b >= a THEN b - a ELSE b
\* Wrong: what was counted before a return is forgotten.
IncreaseOfEnds(rs) == IF rs = <<>> THEN 0 ELSE Gain(rs[1].v, Last(rs).v)
Increase(rs) == MapThenSumSet(LAMBDA i : Gain(rs[i].v, rs[i + 1].v), 1..(Len(rs) - 1))

\* A stream's count is unknown once one of its rows has it unknown.
Unknown(ws) == ~measures /\ \E w \in ws, s \in Peers : InstrumentRows(w, s) # <<>>
LocalHoles(ws) ==
  MapThenSumSet(LAMBDA w : MapThenSumSet(LAMBDA s : Increase(InstrumentRows(w, s)), Peers), ws)

Criterion(ws) ==
  IF ws = {} \/ Unknown(ws) THEN "not applicable"
  ELSE IF LocalHoles(ws) = 0 THEN "holds" ELSE "fails"

\* Steps found again in the machine's rows.
StepsFromRows ==
  FoldLeft(LAMBDA ss, r :
             IF ss # <<>> /\ Last(ss).n = r.n THEN [ss EXCEPT ![Len(ss)].end = r.t]
             ELSE Append(ss, [n |-> r.n, start |-> r.t - 1, end |-> r.t]),
           <<>>, machine_rows)

(* What the figures promise. *)

\* report.rs:388 "ce qui précédait reste compté": the increase of a stream over a step is
\* never more than its holes, and is exactly them as long as it did not start again.
CountIsHonest ==
  \A w \in Measured(steps), s \in Peers :
    LET rs == InstrumentRows(w, s)
        holes == Last(rs).x - rs[1].x
    IN Len(rs) >= 2 =>
         /\ Increase(rs) <= holes
         /\ rs[1].life = Last(rs).life => Increase(rs) = holes

\* A criterion that holds: no stream counted a hole from one reading to the next of a
\* measured step.
CriterionEarned ==
  Criterion(Measured(steps)) = "holds" =>
    \A w \in Measured(steps), s \in Peers :
      LET rs == InstrumentRows(w, s)
      IN \A i \in 1..(Len(rs) - 1) : rs[i].life = rs[i + 1].life => rs[i].x = rs[i + 1].x

\* run.rs:279 "la même analyse que celle d'un échantillon relu plus tard": the steps that
\* had a reading are found again, with their end, and start at most as late as a return.
SameStepsLater ==
  LET read == SelectSeq(steps, LAMBDA p : p.end > p.start)
      ss   == StepsFromRows
  IN /\ Len(ss) = Len(read)
     /\ \A i \in 1..Len(ss) :
          /\ ss[i].n = read[i].n /\ ss[i].end = read[i].end
          /\ ss[i].start - read[i].start \in 0..MaxDelay * Cardinality(Away)

==============================================================================
