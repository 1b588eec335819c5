----------------------------- MODULE JitterBuffer -----------------------------
(***************************************************************************)
(* The adaptive jitter buffer of one stream                                *)
(* (jamodio-audio-core/src/mixer/ring_buffer.rs).  Three threads share it  *)
(* under its lock, so each operation is one action: the receive thread     *)
(* pushes and feeds the target, the output callback pulls, the control     *)
(* thread sets a target or resets the buffer after an audio rebuild.       *)
(*                                                                         *)
(* Amounts of sound are counted in units instead of samples; which samples *)
(* they are, the fades and the interpolation do not change the control     *)
(* flow.  Clocks are abstracted to "the interval has elapsed".             *)
(***************************************************************************)
EXTENDS Integers

CONSTANTS
  CAPACITY,            \* of the ring
  MIN_TARGET, MAX_TARGET, INITIAL_TARGET,
  LOCAL_MIN_TARGET, LOCAL_MAX_TARGET, SELF_MONITOR_TARGET,
  DRIFT_DRAIN_FACTOR,
  GROW,                \* reactive margin per hole (5 ms)
  LOCAL_SHRINK,        \* reactive margin given back per calm interval (2,5 ms)
  GLITCH_STEP, GLITCH_MAX, GLITCH_CALM_PULLS,
  LATE_STEP, LATE_MAX,
  PRESSURE_STEP, PRESSURE_MAX, PRESSURE_CALM,
  PRESSURE_LEAK,       \* each full pull divides the pressure by this
  RECOVER_PULLS,       \* calm pulls that give one unit of reactive margin back
  Frames,              \* amounts pushed
  Slack,               \* resampling writes this much more or less
  Blocks,              \* amounts the output pulls
  Floors,              \* floors the measured jitter leads to, before the clamp
  Choices,             \* targets the user may choose
  HeldPulls            \* bound of the history variable quiet

ASSUME BufferConstants ==
  /\ {CAPACITY, MIN_TARGET, MAX_TARGET, INITIAL_TARGET, LOCAL_MIN_TARGET, LOCAL_MAX_TARGET,
      SELF_MONITOR_TARGET, DRIFT_DRAIN_FACTOR, GROW, LOCAL_SHRINK, GLITCH_STEP, GLITCH_MAX,
      GLITCH_CALM_PULLS, LATE_STEP, LATE_MAX, PRESSURE_STEP, PRESSURE_MAX, PRESSURE_CALM,
      RECOVER_PULLS, Slack, HeldPulls} \subseteq Nat
  /\ PRESSURE_LEAK \in Nat /\ 1 < PRESSURE_LEAK
  /\ Frames \subseteq Nat /\ Blocks \subseteq Nat \ {0}
  /\ \A n \in Frames : Slack < n
  /\ Floors \subseteq Nat /\ Choices \subseteq Nat
  /\ 0 < MIN_TARGET /\ MIN_TARGET =< INITIAL_TARGET /\ INITIAL_TARGET =< MAX_TARGET
  /\ 0 < LOCAL_MIN_TARGET /\ LOCAL_MIN_TARGET =< INITIAL_TARGET
  /\ INITIAL_TARGET =< LOCAL_MAX_TARGET
  /\ LOCAL_MIN_TARGET =< SELF_MONITOR_TARGET /\ SELF_MONITOR_TARGET =< LOCAL_MAX_TARGET
  /\ LOCAL_MAX_TARGET =< MAX_TARGET
  /\ MAX_TARGET < CAPACITY

VARIABLES
  local,     \* local_mode: the self-monitor (TRUE) or a network stream (FALSE)
  fill,      \* units in the ring
  target,    \* target_samples
  floor,     \* floor_samples
  glitch,    \* glitch_floor_samples
  reactive,  \* reactive_extra_samples
  late,      \* late_floor_ms
  auto,      \* jitter_auto
  primed,
  pressure,  \* underrun_pressure
  calm,      \* glitch_calm_pulls
  accum,     \* shrink_accum, in pulls
  pending,   \* pending_hole is Some
  waited,    \* the interval since the last late step (network) or since last_adapt
             \* (self-monitor) has elapsed
  holes,     \* history variable: holes since the last push
  quiet      \* history variable: full pulls since the last hole, up to HeldPulls

vars == <<local, fill, target, floor, glitch, reactive, late, auto, primed, pressure, calm,
          accum, pending, waited, holes, quiet>>

-----------------------------------------------------------------------------
Least(a, b) == IF a < b THEN a ELSE b
Minus(a, b) == IF a > b THEN a - b ELSE 0          \* saturating_sub
Within(x, low, high) == IF x < low THEN low ELSE IF x > high THEN high ELSE x

Lowest == IF local THEN LOCAL_MIN_TARGET ELSE MIN_TARGET
Cap    == IF local THEN LOCAL_MAX_TARGET ELSE MAX_TARGET

\* A wrong form of recompute_target: a margin forgotten.
TargetWithoutLate(f, g, l, r) == Within(f + g + r, Lowest, Cap)

\* recompute_target
Target(f, g, l, r) == Within(f + g + l + r, Lowest, Cap)

\* new (a network stream) and StreamCell::new_local (the self-monitor).
Init ==
  /\ local \in BOOLEAN
  /\ fill = 0
  /\ floor = IF local THEN SELF_MONITOR_TARGET ELSE INITIAL_TARGET
  /\ target = floor
  /\ glitch = 0 /\ reactive = 0 /\ late = 0
  /\ auto = ~local
  /\ primed = FALSE
  /\ pressure = 0 /\ calm = 0 /\ accum = 0
  /\ pending = FALSE
  /\ waited = ~local
  /\ holes = 0 /\ quiet = 0

-----------------------------------------------------------------------------
\* The receive thread.

\* push: a decoded frame is written, the oldest sound making room for it, and the
\* hole met since the previous push is told.  A playing network stream is
\* resampled on the way.
Push(n) ==
  /\ \E written \in IF ~local /\ primed THEN n - Slack .. n + Slack ELSE {n} :
       fill' = Least(fill + written, CAPACITY)
  /\ pending' = FALSE
  /\ holes' = 0
  /\ UNCHANGED <<target, floor, glitch, reactive, late, auto, primed, pressure, calm, accum,
                 waited, quiet, local>>

\* settle_late_floor: the learnt margin goes down with the time elapsed.
Settled == 0 .. late

\* observe_jitter: nothing under a target chosen by hand.
ObserveJitter(measured) ==
  /\ auto
  /\ floor' = Within(measured, MIN_TARGET, MAX_TARGET)
  /\ late' \in Settled
  /\ target' = Target(floor', glitch, late', reactive)
  /\ UNCHANGED <<fill, glitch, reactive, auto, primed, pressure, calm, accum, pending, waited,
                 holes, quiet, local>>

\* note_late_arrival: at most one step per interval.
NoteLateArrival ==
  /\ ~local /\ auto
  /\ \E settled \in Settled :
       IF waited
       THEN /\ waited' = FALSE
            /\ late' = Least(settled + LATE_STEP, LATE_MAX)
            /\ target' = Target(floor, glitch, late', reactive)
       ELSE late' = settled /\ UNCHANGED <<waited, target>>
  /\ UNCHANGED <<fill, floor, glitch, reactive, auto, primed, pressure, calm, accum, pending,
                 holes, quiet, local>>

\* refresh_late_floor: the stream starts again after a silence.
RefreshLateFloor ==
  /\ ~local /\ auto
  /\ late' \in Settled
  /\ target' = Target(floor, glitch, late', reactive)
  /\ UNCHANGED <<fill, floor, glitch, reactive, auto, primed, pressure, calm, accum, pending,
                 waited, holes, quiet, local>>

-----------------------------------------------------------------------------
\* The output callback.

\* Wrong forms of the helpers below: no pre-fill, no leak.
PlayingAtOnce == TRUE

\* is_playing: the buffer is primed, or will be at this pull.
IsPlaying == primed \/ fill >= target

\* pull, the buffer being filled up to its target: silence, and nothing changes.
Silence == ~IsPlaying /\ UNCHANGED vars

\* What the drift drain leaves to pull from.
Drained == IF fill > DRIFT_DRAIN_FACTOR * target THEN target ELSE fill

\* adapt_down: the self-monitor gives margin back after a calm interval.
AdaptDown ==
  /\ IF waited
     THEN /\ reactive' = Minus(reactive, LOCAL_SHRINK)
          /\ target' = Target(floor, glitch, late, reactive')
          /\ waited' = FALSE
     ELSE UNCHANGED <<reactive, target, waited>>
  /\ UNCHANGED <<glitch, calm, accum>>

\* The pressure leaks at every full pull; below a threshold the stream is calm.
Leaked == pressure \div PRESSURE_LEAK
IsCalm == pressure' < PRESSURE_CALM

\* The network branch of recover_after_full_pull: once the pressure has leaked
\* away, the glitch floor decays very slowly and the reactive margin steadily.
Recover ==
  LET decays == glitch > 0 /\ calm + 1 >= GLITCH_CALM_PULLS
      drains == reactive > 0 /\ accum + 1 >= RECOVER_PULLS
  IN /\ IF ~IsCalm
        THEN UNCHANGED <<glitch, calm, reactive, accum, target>>
        ELSE /\ glitch' = IF decays THEN glitch - 1 ELSE glitch
             /\ calm' = IF glitch = 0 THEN calm ELSE IF decays THEN 0 ELSE calm + 1
             /\ reactive' = IF drains THEN reactive - 1 ELSE reactive
             /\ accum' = IF reactive = 0 \/ drains THEN 0 ELSE accum + 1
             /\ target' = IF decays \/ drains THEN Target(floor, glitch', late, reactive')
                                              ELSE target
     /\ UNCHANGED waited

\* pull, the buffer holds the block: the sound flows.
Full(n) ==
  /\ IsPlaying
  /\ Drained >= n
  /\ fill' = Drained - n
  /\ primed' = TRUE
  /\ pressure' = Leaked
  /\ IF local THEN AdaptDown ELSE Recover
  /\ quiet' = Least(quiet + 1, HeldPulls)
  /\ UNCHANGED <<floor, late, auto, pending, holes, local>>

\* adapt_up: the glitch floor first, then what room it leaves to the reactive
\* margin under the cap.
AdaptUp ==
  /\ IF local
     THEN UNCHANGED <<glitch, calm>> /\ waited' = FALSE
     ELSE /\ glitch' = Least(glitch + GLITCH_STEP, Least(GLITCH_MAX, Minus(Cap, Lowest)))
          /\ calm' = 0
          /\ UNCHANGED waited
  /\ reactive' = Least(reactive + GROW, Minus(Cap, floor + glitch' + late))
  /\ target' = Target(floor, glitch', late, reactive')

\* pull, the buffer runs dry: what is left is played, the hole is recorded for the
\* next push and the buffer fills up again.
Hole(n) ==
  /\ IsPlaying
  /\ Drained < n
  /\ fill' = 0
  /\ pending' = (pending \/ ~local)
  /\ AdaptUp
  /\ pressure' = Least(pressure + PRESSURE_STEP, PRESSURE_MAX)
  /\ primed' = FALSE
  /\ holes' = holes + 1
  /\ quiet' = 0
  /\ UNCHANGED <<floor, late, auto, accum, local>>

Pull(n) == Silence \/ Full(n) \/ Hole(n)

-----------------------------------------------------------------------------
\* The control thread and the clock.

\* set_target_ms, which the self-monitor only meets when it is created.
SetTarget(choice) ==
  /\ ~local
  /\ auto' = FALSE
  /\ floor' = Within(choice, Lowest, MAX_TARGET)
  /\ reactive' = 0 /\ late' = 0
  /\ target' = Target(floor', glitch, late', reactive')
  /\ primed' = FALSE
  /\ waited' = TRUE
  /\ UNCHANGED <<fill, glitch, pressure, calm, accum, pending, holes, quiet, local>>

\* reset_for_recovery, after the audio streams were rebuilt.
ResetForRecovery ==
  /\ fill' = 0
  /\ pending' = FALSE
  /\ primed' = FALSE
  /\ reactive' = 0 /\ glitch' = 0 /\ late' = 0
  /\ pressure' = 0 /\ accum' = 0 /\ calm' = 0
  /\ floor' = INITIAL_TARGET /\ target' = INITIAL_TARGET
  /\ waited' = ~local
  /\ holes' = 0
  /\ UNCHANGED <<auto, quiet, local>>

\* Time passes: the interval the mode waits for is over.
Elapse ==
  /\ ~waited
  /\ waited' = TRUE
  /\ UNCHANGED <<fill, target, floor, glitch, reactive, late, auto, primed, pressure, calm, accum,
                 pending, holes, quiet, local>>

Next ==
  \/ \E n \in Frames : Push(n)
  \/ \E measured \in Floors : ObserveJitter(measured)
  \/ NoteLateArrival
  \/ RefreshLateFloor
  \/ \E n \in Blocks : Pull(n)
  \/ \E choice \in Choices : SetTarget(choice)
  \/ ResetForRecovery
  \/ Elapse

Spec == Init /\ [][Next]_vars

\* The stream flows, the output callback runs and time passes.
FairSpec ==
  /\ Spec
  /\ WF_vars(\E n \in Frames : Push(n))
  /\ \A n \in Blocks : WF_vars(Pull(n))
  /\ WF_vars(Elapse)

-----------------------------------------------------------------------------
\* Every variable has its type; the target never leaves the bounds of its mode.
TypeOK ==
  /\ fill \in 0 .. CAPACITY
  /\ target \in Lowest .. Cap
  /\ floor \in Nat /\ reactive \in Nat /\ late \in 0 .. LATE_MAX
  /\ glitch \in 0 .. GLITCH_MAX
  /\ local \in BOOLEAN /\ auto \in BOOLEAN /\ primed \in BOOLEAN
  /\ pending \in BOOLEAN /\ waited \in BOOLEAN
  /\ pressure \in 0 .. PRESSURE_MAX
  /\ calm \in Nat /\ accum \in Nat
  /\ holes \in Nat /\ quiet \in 0 .. HeldPulls

\* "Un seul à la fois" (the field pending_hole): whatever the order of pushes,
\* pulls, target changes and resets, a network stream has at most one hole between
\* two pushes, it is the one the next push tells, and the buffer is then empty and
\* filling up.  No hole is lost and none is told twice.
OneHoleAtATime ==
  /\ holes =< 1
  /\ pending <=> holes = 1 /\ ~local
  /\ holes = 1 => fill = 0 /\ ~primed

\* The target the pulls obey covers every margin learnt: no path changes a part of
\* it and forgets recompute_target in the direction that causes holes.
TargetCovers == target >= Within(floor + glitch + late + reactive, Lowest, Cap)

\* A burst does not stay in the buffer: after a pull that found its block, no more
\* sound is left than the drift drain allows.
BurstIsDrained == [][\A n \in Blocks : Full(n) => fill' + n =< DRIFT_DRAIN_FACTOR * target]_vars

\* "on ne récupère donc qu'après un calme RÉELLEMENT installé": while the sound
\* flows, a network stream gives no latency back within HeldPulls pulls of a hole.
HeldAfterHole ==
  [][\A n \in Blocks : Full(n) /\ ~local /\ target' < target
                         => quiet' = HeldPulls]_vars

\* The latency bought against holes is given back: once there are no more holes,
\* the reactive margin and the glitch floor return to zero.
Returned == <>[](quiet > 0) => <>[](reactive = 0 /\ glitch = 0)

\* The three together: the latency is given back, after a calm and never in the
\* middle of holes, and what a burst adds to it does not stay.
LatencyReturns == BurstIsDrained /\ HeldAfterHole /\ Returned
=============================================================================
