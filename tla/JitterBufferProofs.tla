-------------------------- MODULE JitterBufferProofs --------------------------
(***************************************************************************)
(* Proofs about the jitter buffer: its type invariant with the bounds of   *)
(* the target, the accounting of the holes, and the target that covers     *)
(* every margin learnt, for all sizes and calibrations.                    *)
(***************************************************************************)
EXTENDS MCReceive, Sequences, TLAPS

USE DEF Least, Minus

\* The assumptions on the constants, one by one.
LEMMA Sizes ==
  /\ CAPACITY \in Nat /\ MIN_TARGET \in Nat /\ MAX_TARGET \in Nat /\ INITIAL_TARGET \in Nat
  /\ LOCAL_MIN_TARGET \in Nat /\ LOCAL_MAX_TARGET \in Nat /\ SELF_MONITOR_TARGET \in Nat
  /\ DRIFT_DRAIN_FACTOR \in Nat /\ GROW \in Nat /\ LOCAL_SHRINK \in Nat
  /\ GLITCH_STEP \in Nat /\ GLITCH_MAX \in Nat /\ GLITCH_CALM_PULLS \in Nat
  /\ LATE_STEP \in Nat /\ LATE_MAX \in Nat /\ PRESSURE_STEP \in Nat /\ PRESSURE_MAX \in Nat
  /\ PRESSURE_CALM \in Nat /\ RECOVER_PULLS \in Nat /\ Slack \in Nat /\ HeldPulls \in Nat
BY BufferConstants

\* The order of the bounds of the target, in either mode.
LEMMA Bounds ==
  /\ Lowest \in Nat /\ Cap \in Nat /\ 0 < Lowest
  /\ Lowest =< INITIAL_TARGET /\ INITIAL_TARGET =< Cap
  /\ Cap < CAPACITY
BY Sizes, BufferConstants DEF Lowest, Cap

\* A buffer keeps its mode, and with it the bounds of its target.
LEMMA ModeFixed == [Next]_vars => local' = local /\ Lowest' = Lowest /\ Cap' = Cap
<1> SUFFICES ASSUME [Next]_vars PROVE local' = local
  BY DEF Lowest, Cap
<1> QED
  BY DEF Next, vars, Push, ObserveJitter, NoteLateArrival, RefreshLateFloor, Pull, Silence,
         Full, Hole, SetTarget, ResetForRecovery, Elapse

\* What is pushed, pulled, measured and chosen.
LEMMA Amounts ==
  /\ \A n \in Frames : n \in Nat /\ Slack < n
  /\ \A n \in Blocks : n \in Nat /\ 0 < n
  /\ \A n \in Floors \cup Choices : n \in Nat
BY BufferConstants

\* The target is within the bounds of the mode, whatever its parts.
LEMMA TargetBounds ==
  ASSUME NEW f \in Nat, NEW g \in Nat, NEW l \in Nat, NEW r \in Nat
  PROVE  Target(f, g, l, r) \in Lowest .. Cap
BY Sizes, Bounds DEF Target, Within

\* A smaller late margin never makes a larger target.
LEMMA TargetMonotone ==
  ASSUME NEW f \in Nat, NEW g \in Nat, NEW l \in Nat, NEW r \in Nat, NEW m \in 0 .. l
  PROVE  Target(f, g, l, r) >= Target(f, g, m, r)
BY Sizes, Bounds DEF Target, Within

\* The leak keeps the pressure a natural number and never raises it.
LEMMA LeakBounds ==
  ASSUME NEW p \in Nat
  PROVE  p \div PRESSURE_LEAK \in 0 .. p
BY BufferConstants, SMTT(30)

LEMMA InitType == Init => TypeOK
<1> SUFFICES ASSUME Init PROVE TypeOK
  OBVIOUS
<1>1. floor \in Lowest .. Cap
  BY BufferConstants DEF Init, Lowest, Cap
<1>2. /\ local \in BOOLEAN /\ auto \in BOOLEAN /\ waited \in BOOLEAN
      /\ primed \in BOOLEAN /\ pending \in BOOLEAN
  BY DEF Init
<1>3. /\ fill = 0 /\ target = floor /\ glitch = 0 /\ reactive = 0 /\ late = 0 /\ pressure = 0
      /\ calm = 0 /\ accum = 0 /\ holes = 0 /\ quiet = 0
  BY DEF Init
<1> QED
  BY <1>1, <1>2, <1>3, Sizes, Bounds DEF TypeOK

\* Every operation keeps the types and the bounds.
LEMMA NextType == TypeOK /\ [Next]_vars => TypeOK'
<1> SUFFICES ASSUME TypeOK, [Next]_vars PROVE TypeOK'
  OBVIOUS
<1>0. local' = local /\ Lowest' = Lowest /\ Cap' = Cap
  BY ModeFixed
<1> USE <1>0, Sizes, Bounds, Amounts
<1>1. ASSUME NEW n \in Frames, Push(n) PROVE TypeOK'
  <2>1. PICK w \in Nat : fill' = Least(fill + w, CAPACITY)
    BY <1>1 DEF Push
  <2>2. fill' \in 0 .. CAPACITY
    BY <2>1 DEF TypeOK
  <2>3. pending' \in BOOLEAN /\ holes' \in Nat
    BY <1>1 DEF Push
  <2> QED
    BY <1>1, <2>2, <2>3 DEF Push, TypeOK
<1>2. ASSUME NEW m \in Floors, ObserveJitter(m) PROVE TypeOK'
  <2>1. floor' \in Nat /\ late' \in 0 .. LATE_MAX
    BY <1>2 DEF ObserveJitter, TypeOK, Within, Settled
  <2>2. target' \in Lowest .. Cap
    <3>1. glitch \in Nat /\ reactive \in Nat /\ late' \in Nat
      BY <2>1 DEF TypeOK
    <3> QED
      BY <1>2, <2>1, <3>1, TargetBounds DEF ObserveJitter
  <2> QED
    BY <1>2, <2>1, <2>2 DEF ObserveJitter, TypeOK
<1>3. ASSUME NoteLateArrival PROVE TypeOK'
  <2>a. PICK settled \in Settled :
          late' = IF waited THEN Least(settled + LATE_STEP, LATE_MAX) ELSE settled
    BY <1>3 DEF NoteLateArrival
  <2>b. late' \in 0 .. LATE_MAX
    BY <2>a DEF TypeOK, Settled
  <2>c. waited' \in BOOLEAN
    BY <1>3 DEF NoteLateArrival, TypeOK
  <2>1. late' \in 0 .. LATE_MAX /\ waited' \in BOOLEAN
    BY <2>b, <2>c
  <2>2. target' \in Lowest .. Cap
    <3>1. floor \in Nat /\ glitch \in Nat /\ reactive \in Nat /\ late' \in Nat
      BY <2>1 DEF TypeOK
    <3>2. Target(floor, glitch, late', reactive) \in Lowest .. Cap
      BY <3>1, TargetBounds
    <3> QED
      BY <1>3, <3>2 DEF NoteLateArrival, TypeOK
  <2> QED
    BY <1>3, <2>1, <2>2 DEF NoteLateArrival, TypeOK
<1>4. ASSUME RefreshLateFloor PROVE TypeOK'
  <2>1. late' \in 0 .. LATE_MAX
    BY <1>4 DEF RefreshLateFloor, TypeOK, Settled
  <2>2. target' \in Lowest .. Cap
    <3>1. floor \in Nat /\ glitch \in Nat /\ reactive \in Nat /\ late' \in Nat
      BY <2>1 DEF TypeOK
    <3> QED
      BY <1>4, <3>1, TargetBounds DEF RefreshLateFloor
  <2> QED
    BY <1>4, <2>1, <2>2 DEF RefreshLateFloor, TypeOK
<1>5. ASSUME NEW n \in Blocks, Full(n) PROVE TypeOK'
  <2>1. pressure' \in 0 .. PRESSURE_MAX
    BY <1>5, LeakBounds DEF Full, Leaked, TypeOK
  <2>2. glitch' \in 0 .. GLITCH_MAX /\ reactive' \in Nat /\ calm' \in Nat /\ accum' \in Nat
    BY <1>5 DEF Full, AdaptDown, Recover, TypeOK
  <2>3. target' \in Lowest .. Cap
    <3>1. /\ floor \in Nat /\ glitch \in Nat /\ late \in Nat
          /\ glitch' \in Nat /\ reactive' \in Nat
      BY <2>2 DEF TypeOK
    <3>2. /\ Target(floor, glitch', late, reactive') \in Lowest .. Cap
          /\ Target(floor, glitch, late, reactive') \in Lowest .. Cap
      BY <3>1, TargetBounds
    <3>3. target \in Lowest .. Cap
      BY DEF TypeOK
    <3>4. \/ target' = target
          \/ target' = Target(floor, glitch', late, reactive')
          \/ target' = Target(floor, glitch, late, reactive')
      BY <1>5 DEF Full, AdaptDown, Recover
    <3> QED
      BY <3>2, <3>3, <3>4
  <2>4. waited' \in BOOLEAN
    BY <1>5 DEF Full, AdaptDown, Recover, TypeOK
  <2>5. fill' \in 0 .. CAPACITY
    BY <1>5 DEF Full, Drained, TypeOK
  <2>6. quiet' \in 0 .. HeldPulls
    BY <1>5 DEF Full, TypeOK
  <2> QED
    BY <1>5, <2>1, <2>2, <2>3, <2>4, <2>5, <2>6 DEF Full, TypeOK
<1>6. ASSUME NEW n \in Blocks, Hole(n) PROVE TypeOK'
  <2>1. glitch' \in 0 .. GLITCH_MAX /\ reactive' \in Nat /\ calm' \in Nat /\ accum' \in Nat
    BY <1>6 DEF Hole, AdaptUp, TypeOK
  <2>2. target' \in Lowest .. Cap
    <3>1. floor \in Nat /\ glitch' \in Nat /\ late \in Nat /\ reactive' \in Nat
      BY <2>1 DEF TypeOK
    <3>2. Target(floor, glitch', late, reactive') \in Lowest .. Cap
      BY <3>1, TargetBounds
    <3> QED
      BY <1>6, <3>2 DEF Hole, AdaptUp
  <2>3. waited' \in BOOLEAN /\ pending' \in BOOLEAN
    BY <1>6 DEF Hole, AdaptUp, TypeOK
  <2>4. pressure' \in 0 .. PRESSURE_MAX
    BY <1>6 DEF Hole, TypeOK
  <2>5. primed' \in BOOLEAN /\ UNCHANGED <<floor, late, auto, accum, local>>
    BY <1>6 DEF Hole
  <2>6. fill' = 0 /\ holes' = holes + 1 /\ quiet' = 0
    BY <1>6 DEF Hole
  <2> QED
    BY <2>1, <2>2, <2>3, <2>4, <2>5, <2>6 DEF TypeOK
<1>7. ASSUME NEW c \in Choices, SetTarget(c) PROVE TypeOK'
  <2>1. floor' \in Nat
    BY <1>7 DEF SetTarget, Within
  <2>2. target' \in Lowest .. Cap
    <3>1. glitch \in Nat /\ late' \in Nat /\ reactive' \in Nat
      BY <1>7 DEF SetTarget, TypeOK
    <3> QED
      BY <1>7, <2>1, <3>1, TargetBounds DEF SetTarget
  <2>3. auto' \in BOOLEAN /\ primed' \in BOOLEAN /\ waited' \in BOOLEAN
    BY <1>7 DEF SetTarget
  <2>4. reactive' = 0 /\ late' = 0
    BY <1>7 DEF SetTarget
  <2>5. UNCHANGED <<fill, glitch, pressure, calm, accum, pending, holes, quiet, local>>
    BY <1>7 DEF SetTarget
  <2> QED
    BY <2>1, <2>2, <2>3, <2>4, <2>5 DEF TypeOK
<1>8. ASSUME ResetForRecovery PROVE TypeOK'
  <2>1. primed' \in BOOLEAN /\ waited' \in BOOLEAN /\ pending' \in BOOLEAN
    BY <1>8 DEF ResetForRecovery
  <2>2. /\ fill' = 0 /\ reactive' = 0 /\ glitch' = 0 /\ late' = 0 /\ pressure' = 0
        /\ accum' = 0 /\ calm' = 0 /\ holes' = 0
        /\ floor' = INITIAL_TARGET /\ target' = INITIAL_TARGET
    BY <1>8 DEF ResetForRecovery
  <2>3. UNCHANGED <<auto, quiet, local>>
    BY <1>8 DEF ResetForRecovery
  <2> QED
    BY <2>1, <2>2, <2>3 DEF TypeOK
<1>9. ASSUME Elapse PROVE TypeOK'
  BY <1>9 DEF Elapse, TypeOK
<1>10. CASE UNCHANGED vars
  BY <1>10 DEF vars, TypeOK
<1> QED
  BY <1>1, <1>2, <1>3, <1>4, <1>5, <1>6, <1>7, <1>8, <1>9, <1>10
  DEF Next, Pull, Silence

\* The types and the bounds of the target hold in every reachable state.
THEOREM BufferTypeCorrect == Spec => []TypeOK
BY InitType, NextType, PTL DEF Spec

\* A hole empties the buffer and stops the playback, and nothing is pulled until a
\* push has filled it again: the next hole comes after the next push.
LEMMA NextHole == TypeOK /\ OneHoleAtATime /\ [Next]_vars => OneHoleAtATime'
<1> SUFFICES ASSUME TypeOK, OneHoleAtATime, [Next]_vars PROVE OneHoleAtATime'
  OBVIOUS
<1> USE Sizes, Bounds, Amounts
<1>1. ASSUME NEW n \in Frames, Push(n) PROVE OneHoleAtATime'
  BY <1>1 DEF Push, OneHoleAtATime
<1>2. ASSUME NEW m \in Floors, ObserveJitter(m) PROVE OneHoleAtATime'
  BY <1>2 DEF ObserveJitter, OneHoleAtATime
<1>3. ASSUME NoteLateArrival PROVE OneHoleAtATime'
  BY <1>3 DEF NoteLateArrival, OneHoleAtATime
<1>4. ASSUME RefreshLateFloor PROVE OneHoleAtATime'
  BY <1>4 DEF RefreshLateFloor, OneHoleAtATime
<1>5. ASSUME IsPlaying PROVE holes = 0
  BY <1>5 DEF IsPlaying, OneHoleAtATime, TypeOK
<1>6. ASSUME NEW n \in Blocks, Full(n) PROVE OneHoleAtATime'
  BY <1>5, <1>6 DEF Full, OneHoleAtATime
<1>7. ASSUME NEW n \in Blocks, Hole(n) PROVE OneHoleAtATime'
  <2>1. holes' = 1 /\ fill' = 0 /\ ~primed'
    BY <1>5, <1>7 DEF Hole
  <2>2. pending' <=> ~local'
    BY <1>5, <1>7 DEF Hole, OneHoleAtATime
  <2> QED
    BY <2>1, <2>2 DEF OneHoleAtATime
<1>8. ASSUME NEW c \in Choices, SetTarget(c) PROVE OneHoleAtATime'
  BY <1>8 DEF SetTarget, OneHoleAtATime
<1>9. ASSUME ResetForRecovery PROVE OneHoleAtATime'
  BY <1>9 DEF ResetForRecovery, OneHoleAtATime
<1>10. ASSUME Elapse PROVE OneHoleAtATime'
  BY <1>10 DEF Elapse, OneHoleAtATime
<1>11. CASE UNCHANGED vars
  BY <1>11 DEF vars, OneHoleAtATime
<1> QED
  BY <1>1, <1>2, <1>3, <1>4, <1>6, <1>7, <1>8, <1>9, <1>10, <1>11
  DEF Next, Pull, Silence

\* No hole is lost and none is told twice ("un seul à la fois", field pending_hole).
THEOREM HolesToldOnce == Spec => []OneHoleAtATime
<1>1. Init => OneHoleAtATime
  BY DEF Init, OneHoleAtATime
<1> QED
  BY <1>1, InitType, NextType, NextHole, PTL DEF Spec

\* The target covers the margins after every operation that changes one of them.
LEMMA NextCovers == TypeOK /\ TargetCovers /\ [Next]_vars => TargetCovers'
<1> SUFFICES ASSUME TypeOK, TargetCovers, [Next]_vars PROVE TargetCovers'
  OBVIOUS
<1>0. local' = local /\ Lowest' = Lowest /\ Cap' = Cap
  BY ModeFixed
<1> USE <1>0, Sizes, Bounds, Amounts DEF TargetCovers
<1>1. target >= Target(floor, glitch, late, reactive)
  BY DEF Target
<1>2. TypeOK'
  BY NextType
<1>3. SUFFICES target' >= Target(floor', glitch', late', reactive')
  BY DEF Target
<1>a. Target(floor', glitch', late', reactive') \in Nat
  <2>1. floor' \in Nat /\ glitch' \in Nat /\ late' \in Nat /\ reactive' \in Nat
    BY <1>2 DEF TypeOK
  <2>2. Target(floor', glitch', late', reactive') \in Lowest .. Cap
    BY <2>1, TargetBounds
  <2> QED
    BY <2>2
<1>4. ASSUME NEW n \in Frames, Push(n) PROVE target' >= Target(floor', glitch', late', reactive')
  BY <1>1, <1>4 DEF Push
<1>5. ASSUME NEW m \in Floors, ObserveJitter(m)
      PROVE  target' >= Target(floor', glitch', late', reactive')
  BY <1>5, <1>a DEF ObserveJitter
<1>6. ASSUME NoteLateArrival PROVE target' >= Target(floor', glitch', late', reactive')
  <2>1. CASE waited
    BY <1>6, <2>1, <1>a DEF NoteLateArrival
  <2>2. CASE ~waited
    <3>1. late' \in 0 .. late /\ target' = target
      BY <1>6, <2>2 DEF NoteLateArrival, Settled
    <3>2. Target(floor, glitch, late, reactive) >= Target(floor, glitch, late', reactive)
      BY <3>1, TargetMonotone DEF TypeOK
    <3>3. Target(floor, glitch, late, reactive) \in Nat
      <4>1. floor \in Nat /\ glitch \in Nat /\ late \in Nat /\ reactive \in Nat
        BY DEF TypeOK
      <4>2. Target(floor, glitch, late, reactive) \in Lowest .. Cap
        BY <4>1, TargetBounds
      <4> QED
        BY <4>2
    <3>4. target' >= Target(floor, glitch, late', reactive)
      BY <1>1, <1>2, <1>6, <1>a, <3>1, <3>2, <3>3 DEF TypeOK, NoteLateArrival
    <3> QED
      BY <1>6, <3>4 DEF NoteLateArrival
  <2> QED
    BY <2>1, <2>2
<1>7. ASSUME RefreshLateFloor PROVE target' >= Target(floor', glitch', late', reactive')
  BY <1>7, <1>a DEF RefreshLateFloor
<1>8. ASSUME NEW n \in Blocks, Full(n) PROVE target' >= Target(floor', glitch', late', reactive')
  <2>1. CASE local
    BY <1>1, <1>8, <1>a, <2>1 DEF Full, AdaptDown
  <2>2. CASE ~local
    BY <1>1, <1>8, <1>a, <2>2 DEF Full, Recover
  <2> QED
    BY <2>1, <2>2
<1>9. ASSUME NEW n \in Blocks, Hole(n) PROVE target' >= Target(floor', glitch', late', reactive')
  BY <1>9, <1>a DEF Hole, AdaptUp
<1>10. ASSUME NEW c \in Choices, SetTarget(c)
       PROVE  target' >= Target(floor', glitch', late', reactive')
  BY <1>10, <1>a DEF SetTarget
<1>11. ASSUME ResetForRecovery PROVE target' >= Target(floor', glitch', late', reactive')
  BY <1>11 DEF ResetForRecovery, Target, Within
<1>12. ASSUME Elapse PROVE target' >= Target(floor', glitch', late', reactive')
  BY <1>1, <1>12 DEF Elapse
<1>13. CASE UNCHANGED vars
  BY <1>1, <1>13 DEF vars
<1> QED
  BY <1>4, <1>5, <1>6, <1>7, <1>8, <1>9, <1>10, <1>11, <1>12, <1>13
  DEF Next, Pull, Silence

\* The target covers every margin learnt, in every reachable state.
THEOREM CoversMargins == Spec => []TargetCovers
<1>1. ASSUME Init PROVE TargetCovers
  <2>1. floor \in Lowest .. Cap
    BY <1>1, BufferConstants DEF Init, Lowest, Cap
  <2>2. target = floor /\ glitch = 0 /\ reactive = 0 /\ late = 0
    BY <1>1 DEF Init
  <2> QED
    BY <2>1, <2>2, Bounds DEF TargetCovers, Within
<1> QED
  BY <1>1, InitType, NextType, NextCovers, PTL DEF Spec

-----------------------------------------------------------------------------
(* The life of the receive thread (RecvThread): no ghost in the mixer.     *)

\* The types of the control thread's side, and of the receive thread's.
LifeControl ==
  /\ epoch \in 0 .. MaxEpoch /\ registered \in [Producers -> 0 .. epoch]
  /\ handle \in BOOLEAN /\ closed \in BOOLEAN
  /\ job \in {<<"idle">>, <<"teardown">>, <<"join">>} \cup {<<"add", p>> : p \in Producers}
  /\ \A p \in Producers : job = <<"add", p>> => registered[p] = 0 /\ epoch < MaxEpoch
LifeThread ==
  /\ alive \in BOOLEAN /\ loop_pc \in {"poll", "read", "commands", "retry", "conceal"}
  /\ live \subseteq Life!Stream /\ reading \subseteq live /\ paused \subseteq live
  /\ armed \subseteq live /\ signalled \subseteq live
  /\ loop_pc \in {"poll", "commands"} => reading = {}
LifeSystem ==
  /\ queue \in Seq(Life!Command)
  /\ errors \in [Life!Epochs -> Nat] /\ inbox \in [Life!Epochs -> Nat]
  /\ packets \in 0 .. MaxSent /\ faults \in 0 .. MaxErrors

\* The thread has a handle; a thread that is over holds nothing.
Handled ==
  /\ alive => handle
  /\ ~alive => queue = <<>> /\ live = {} /\ states = Life!Nobody /\ mixer = Life!Nobody

\* What is decoded is received, and what is in the mixer is decoded.
Decoded ==
  /\ states \in [Producers -> 0 .. MaxEpoch] /\ mixer \in [Producers -> 0 .. MaxEpoch]
  /\ \A p \in Producers :
       /\ states[p] # 0 => [producer |-> p, epoch |-> states[p]] \in live
       /\ mixer[p] # 0 => mixer[p] = states[p]

\* Of one producer, an older stream is removed before a newer one is added.
IsAdd(q, i) == q[i].cmd = "Add"
Between(q, i, j, s) == \E k \in DOMAIN q : i < k /\ k < j /\ q[k] = Life!Remove(s)
InTurn(q) ==
  \A i, j \in DOMAIN q :
    i < j /\ IsAdd(q, i) /\ IsAdd(q, j) /\ q[i].stream.producer = q[j].stream.producer
      => Between(q, i, j, q[i].stream)
AfterLive(q, S) ==
  \A s \in S, j \in DOMAIN q :
    IsAdd(q, j) /\ s.producer = q[j].stream.producer => Between(q, 0, j, s)

\* A stream that is to be received is the one registered, or its removal follows.
Asked(q, S, reg) ==
  /\ \A s \in S : reg[s.producer] = s.epoch \/ \E k \in DOMAIN q : q[k] = Life!Remove(s)
  /\ \A i \in DOMAIN q : IsAdd(q, i) =>
       \/ reg[q[i].stream.producer] = q[i].stream.epoch
       \/ \E k \in DOMAIN q : i < k /\ q[k] = Life!Remove(q[i].stream)

LifeInv ==
  /\ LifeControl /\ LifeThread /\ LifeSystem /\ Handled /\ Decoded /\ Life!OneGeneration
  /\ InTurn(queue) /\ AfterLive(queue, live) /\ Asked(queue, live, registered)

LEMMA LifeConstants ==
  /\ MAX_RECV_STREAMS \in Nat \ {0} /\ MaxEpoch \in Nat \ {0} /\ MaxSent \in Nat /\ MaxErrors \in Nat
BY ReceiveConstants DEF Life!RecvConstants

\* What a command is.
LEMMA Commands ==
  /\ \A s \in Life!Stream : /\ Life!Add(s) \in Life!Command /\ Life!Remove(s) \in Life!Command
                            /\ Life!Add(s).cmd = "Add" /\ Life!Add(s).stream = s
                            /\ Life!Remove(s).cmd = "Remove" /\ Life!Remove(s).stream = s
  /\ \A c \in Life!Command : /\ c.stream \in Life!Stream
                             /\ c.cmd = "Add" \/ (c.cmd = "Remove" /\ c = Life!Remove(c.stream))
<1>1. \A s \in Life!Stream : /\ Life!Add(s) \in Life!Command /\ Life!Remove(s) \in Life!Command
  BY Zenon DEF Life!Command
<1>2. \A s : /\ Life!Add(s).cmd = "Add" /\ Life!Add(s).stream = s
             /\ Life!Remove(s).cmd = "Remove" /\ Life!Remove(s).stream = s
  BY DEF Life!Add, Life!Remove
<1>3. \A c \in Life!Command : \E s \in Life!Stream : c = Life!Add(s) \/ c = Life!Remove(s)
  BY Zenon DEF Life!Command
<1> QED
  BY <1>1, <1>2, <1>3

\* A stream is its producer and its generation.
LEMMA StreamFields ==
  /\ \A s \in Life!Stream : /\ s.producer \in Producers /\ s.epoch \in Life!Epochs
                            /\ s = [producer |-> s.producer, epoch |-> s.epoch]
  /\ \A p \in Producers, e \in Life!Epochs :
       /\ [producer |-> p, epoch |-> e] \in Life!Stream
       /\ [producer |-> p, epoch |-> e].producer = p /\ [producer |-> p, epoch |-> e].epoch = e
BY DEF Life!Stream

\* A removal at the end of the queue leaves its order.
LEMMA RemovalSent ==
  ASSUME NEW q \in Seq(Life!Command), NEW s \in Life!Stream, NEW S,
         InTurn(q), AfterLive(q, S)
  PROVE  LET r == Append(q, Life!Remove(s))
         IN /\ r \in Seq(Life!Command) /\ InTurn(r) /\ AfterLive(r, S)
            /\ \A k \in DOMAIN q : k \in DOMAIN r /\ r[k] = q[k] /\ k < Len(q) + 1
            /\ Len(q) + 1 \in DOMAIN r /\ r[Len(q) + 1] = Life!Remove(s)
            /\ \A k \in DOMAIN r : IsAdd(r, k) => k \in DOMAIN q /\ IsAdd(q, k)
<1> DEFINE r == Append(q, Life!Remove(s))
<1>1. /\ r \in Seq(Life!Command) /\ DOMAIN r = 1 .. Len(q) + 1 /\ DOMAIN q = 1 .. Len(q) /\ Len(q) \in Nat
      /\ \A k \in DOMAIN q : r[k] = q[k]
      /\ r[Len(q) + 1] = Life!Remove(s) /\ ~IsAdd(r, Len(q) + 1)
  BY Commands DEF IsAdd
<1> HIDE DEF r
<1>2. \A i, j, t : Between(q, i, j, t) => Between(r, i, j, t)
  BY <1>1 DEF Between
<1>3. \A i \in DOMAIN r : IsAdd(r, i) => i \in DOMAIN q /\ IsAdd(q, i)
  BY <1>1 DEF IsAdd
<1>4. InTurn(r)
  BY <1>1, <1>2, <1>3 DEF InTurn
<1>5. AfterLive(r, S)
  BY <1>1, <1>2, <1>3 DEF AfterLive
<1> QED
  BY <1>1, <1>3, <1>4, <1>5 DEF r

\* An added stream at the end of the queue comes after the removals of all that is there of its
\* producer.
LEMMA AdditionSent ==
  ASSUME NEW q \in Seq(Life!Command), NEW s \in Life!Stream, NEW S, InTurn(q), AfterLive(q, S),
         \A i \in DOMAIN q : IsAdd(q, i) /\ q[i].stream.producer = s.producer
                               => \E k \in DOMAIN q : i < k /\ q[k] = Life!Remove(q[i].stream),
         \A t \in S : t.producer = s.producer => \E k \in DOMAIN q : q[k] = Life!Remove(t)
  PROVE  LET r == Append(q, Life!Add(s))
         IN /\ r \in Seq(Life!Command) /\ InTurn(r) /\ AfterLive(r, S)
            /\ \A k \in DOMAIN q : k \in DOMAIN r /\ r[k] = q[k]
            /\ \A k \in DOMAIN r : k \in DOMAIN q \/ r[k].stream = s
<1> DEFINE r == Append(q, Life!Add(s))
           n == Len(q) + 1
<1>1. /\ r \in Seq(Life!Command) /\ DOMAIN r = 1 .. n /\ DOMAIN q = 1 .. Len(q) /\ Len(q) \in Nat
      /\ \A k \in DOMAIN q : r[k] = q[k] /\ 0 < k /\ k < n
      /\ r[n] = Life!Add(s) /\ r[n].stream = s /\ n \in Nat
  BY Commands
<1> HIDE DEF r, n
<1>2. \A i, j, t : Between(q, i, j, t) => Between(r, i, j, t)
  BY <1>1 DEF Between
<1>3. \A i \in DOMAIN r : i = n \/ (i \in DOMAIN q /\ (IsAdd(r, i) => IsAdd(q, i)))
  BY <1>1 DEF IsAdd, n
<1>4. InTurn(r)
  <2> SUFFICES ASSUME NEW i \in DOMAIN r, NEW j \in DOMAIN r, i < j, IsAdd(r, i), IsAdd(r, j),
                      r[i].stream.producer = r[j].stream.producer
               PROVE  Between(r, i, j, r[i].stream)
    BY DEF InTurn
  <2>1. i \in DOMAIN q /\ IsAdd(q, i) /\ r[i] = q[i]
    BY <1>1, <1>3 DEF n
  <2>2. CASE j \in DOMAIN q
    BY <2>1, <2>2, <1>1, <1>2, <1>3 DEF InTurn, IsAdd
  <2>3. CASE j = n
    BY <2>1, <2>3, <1>1 DEF Between
  <2> QED
    BY <2>2, <2>3, <1>3
<1>5. AfterLive(r, S)
  <2> SUFFICES ASSUME NEW t \in S, NEW j \in DOMAIN r, IsAdd(r, j), t.producer = r[j].stream.producer
               PROVE  Between(r, 0, j, t)
    BY DEF AfterLive
  <2>1. CASE j \in DOMAIN q
    BY <2>1, <1>1, <1>2, <1>3 DEF AfterLive, IsAdd
  <2>2. CASE j = n
    BY <2>2, <1>1 DEF Between
  <2> QED
    BY <2>1, <2>2, <1>3
<1>6. \A k \in DOMAIN r : k \in DOMAIN q \/ r[k].stream = s
  BY <1>1, <1>3
<1> QED
  BY <1>1, <1>4, <1>5, <1>6 DEF r, n

\* The queue without its first command: what it orders of the others.
LEMMA Received ==
  ASSUME NEW q \in Seq(Life!Command), q # <<>>, NEW S, InTurn(q), AfterLive(q, S), NEW T,
         \/ T = S /\ (q[1].cmd = "Remove" => q[1].stream \notin S)
         \/ q[1].cmd = "Add" /\ T = S \cup {q[1].stream}
         \/ q[1].cmd = "Remove" /\ T = S \ {q[1].stream}
  PROVE  /\ Tail(q) \in Seq(Life!Command) /\ InTurn(Tail(q)) /\ AfterLive(Tail(q), T)
         /\ \A k \in DOMAIN Tail(q) : k + 1 \in DOMAIN q /\ Tail(q)[k] = q[k + 1]
         /\ \A k \in DOMAIN q : k = 1 \/ (k - 1 \in DOMAIN Tail(q) /\ Tail(q)[k - 1] = q[k])
         /\ q[1] \in Life!Command /\ 1 \in DOMAIN q /\ Head(q) = q[1]
<1> DEFINE r == Tail(q)
<1>1. /\ r \in Seq(Life!Command) /\ DOMAIN r \subseteq Nat /\ DOMAIN q \subseteq Nat \ {0}
      /\ q[1] \in Life!Command /\ 1 \in DOMAIN q /\ Head(q) = q[1]
      /\ \A k \in DOMAIN r : k + 1 \in DOMAIN q /\ r[k] = q[k + 1] /\ 0 < k
      /\ \A k \in DOMAIN q : k = 1 \/ (k - 1 \in DOMAIN r /\ r[k - 1] = q[k])
  OBVIOUS
<1> HIDE DEF r
<1>2. \A i \in DOMAIN r : IsAdd(r, i) => IsAdd(q, i + 1) /\ r[i].stream = q[i + 1].stream
  BY <1>1 DEF IsAdd
<1>3. ASSUME NEW i \in Nat, NEW j \in DOMAIN r, NEW t, Between(q, i + 1, j + 1, t)
      PROVE  Between(r, i, j, t)
  <2>1. PICK k \in DOMAIN q : i + 1 < k /\ k < j + 1 /\ q[k] = Life!Remove(t)
    BY <1>3 DEF Between
  <2>2. k - 1 \in DOMAIN r /\ i < k - 1 /\ k - 1 < j /\ r[k - 1] = Life!Remove(t)
    BY <1>1, <2>1
  <2> QED
    BY <2>2 DEF Between
<1>4. InTurn(r)
  <2> SUFFICES ASSUME NEW i \in DOMAIN r, NEW j \in DOMAIN r, i < j, IsAdd(r, i), IsAdd(r, j),
                      r[i].stream.producer = r[j].stream.producer
               PROVE  Between(r, i, j, r[i].stream)
    BY DEF InTurn
  <2>1. /\ i + 1 \in DOMAIN q /\ j + 1 \in DOMAIN q /\ i + 1 < j + 1
        /\ IsAdd(q, i + 1) /\ IsAdd(q, j + 1)
        /\ q[i + 1].stream.producer = q[j + 1].stream.producer
    BY <1>1, <1>2
  <2>2. Between(q, i + 1, j + 1, q[i + 1].stream)
    BY <2>1 DEF InTurn
  <2> QED
    BY <2>2, <1>1, <1>2, <1>3
<1>5. AfterLive(r, T)
  <2> SUFFICES ASSUME NEW t \in T, NEW j \in DOMAIN r, IsAdd(r, j), t.producer = r[j].stream.producer
               PROVE  Between(r, 0, j, t)
    BY DEF AfterLive
  <2>1. j + 1 \in DOMAIN q /\ IsAdd(q, j + 1) /\ t.producer = q[j + 1].stream.producer
    BY <1>1, <1>2
  <2>2. CASE t \in S /\ q[1] # Life!Remove(t)
    <3>1. PICK k \in DOMAIN q : 0 < k /\ k < j + 1 /\ q[k] = Life!Remove(t)
      BY <2>1, <2>2 DEF AfterLive, Between
    <3>2. 0 + 1 < k
      BY <3>1, <2>2, <1>1
    <3> QED
      BY <3>1, <3>2, <1>3 DEF Between
  <2>3. CASE q[1].cmd = "Add" /\ t = q[1].stream
    <3>1. Between(q, 1, j + 1, t)
      BY <2>1, <2>3, <1>1 DEF InTurn, IsAdd
    <3> QED
      BY <3>1, <1>3
  <2>4. t \in S => q[1] # Life!Remove(t)
    BY <1>1, Commands DEF Life!Remove
  <2> QED
    BY <2>2, <2>3, <2>4
<1> QED
  BY <1>1, <1>4, <1>5 DEF r


-----------------------------------------------------------------------------
\* unregister: the thread is told of the removal if it is there.
LEMMA Unregistered ==
  ASSUME LifeInv, NEW p \in Producers, Life!Unregister(p)
  PROVE  /\ registered' \in [Producers -> 0 .. epoch]
         /\ \A o \in Producers : registered'[o] = IF o = p THEN 0 ELSE registered[o]
         /\ queue' \in Seq(Life!Command) /\ InTurn(queue') /\ AfterLive(queue', live)
         /\ Asked(queue', live, registered')
         /\ ~alive => queue' = <<>>
<1> USE DEF LifeInv
<1>1. registered' = [registered EXCEPT ![p] = 0] /\ registered \in [Producers -> 0 .. epoch] /\ epoch \in 0 .. MaxEpoch
  BY DEF Life!Unregister, LifeControl
<1>2. /\ \A s \in live : s \in Life!Stream
      /\ \A i \in DOMAIN queue : queue[i] \in Life!Command /\ queue[i].stream \in Life!Stream
  BY Commands DEF LifeThread, LifeSystem
<1>3. CASE registered[p] # 0 /\ handle /\ alive
  <2> DEFINE w == Life!Wanted(p)
             r == Append(queue, Life!Remove(w))
  <2>1. queue' = r
    BY <1>3 DEF Life!Unregister, Life!Sent
  <2>2. w \in Life!Stream /\ w = [producer |-> p, epoch |-> registered[p]]
    BY <1>1, <1>3, StreamFields, LifeConstants DEF Life!Wanted, Life!Epochs
  <2>3. /\ r \in Seq(Life!Command) /\ InTurn(r) /\ AfterLive(r, live)
        /\ \A k \in DOMAIN queue : k \in DOMAIN r /\ r[k] = queue[k] /\ k < Len(queue) + 1
        /\ Len(queue) + 1 \in DOMAIN r /\ r[Len(queue) + 1] = Life!Remove(w)
        /\ \A k \in DOMAIN r : IsAdd(r, k) => k \in DOMAIN queue /\ IsAdd(queue, k)
    BY <2>2, RemovalSent DEF LifeSystem
  <2> HIDE DEF r, w
  <2>4. \A s \in Life!Stream : registered[s.producer] = s.epoch => s = w \/ registered'[s.producer] = s.epoch
    BY <1>1, <2>2, StreamFields
  <2>5. ASSUME NEW s \in live
        PROVE  registered'[s.producer] = s.epoch \/ \E k \in DOMAIN r : r[k] = Life!Remove(s)
    BY <2>3, <2>4, <1>2 DEF Asked
  <2>6. ASSUME NEW i \in DOMAIN r, IsAdd(r, i)
        PROVE  \/ registered'[r[i].stream.producer] = r[i].stream.epoch
               \/ \E k \in DOMAIN r : i < k /\ r[k] = Life!Remove(r[i].stream)
    <3>1. i \in DOMAIN queue /\ IsAdd(queue, i) /\ r[i] = queue[i] /\ queue[i].stream \in Life!Stream
      BY <1>2, <2>3, <2>6
    <3>2. CASE registered[queue[i].stream.producer] = queue[i].stream.epoch
      BY <3>1, <3>2, <2>3, <2>4
    <3>3. CASE \E k \in DOMAIN queue : i < k /\ queue[k] = Life!Remove(queue[i].stream)
      BY <3>1, <3>3, <2>3
    <3> QED
      BY <3>1, <3>2, <3>3 DEF Asked
  <2>7. Asked(r, live, registered')
    BY <2>5, <2>6 DEF Asked
  <2> QED
    BY <2>1, <2>3, <2>7, <1>1, <1>3
<1>4. CASE ~(registered[p] # 0 /\ handle /\ alive)
  <2>1. queue' = queue
    BY <1>4 DEF Life!Unregister, Life!Sent
  <2>2. CASE ~alive
    BY <2>1, <2>2, <1>1 DEF Handled, InTurn, AfterLive, Asked, LifeSystem
  <2>3. CASE registered[p] = 0
    <3>1. registered' = registered
      BY <1>1, <2>3
    <3> QED
      BY <2>1, <3>1, <1>1, <2>3 DEF LifeSystem, Handled
  <2> QED
    BY <2>2, <2>3, <1>4 DEF Handled
<1> QED
  BY <1>3, <1>4

\* The control thread: removals, and the first half of an addition.
LEMMA RemovalKeeps ==
  ASSUME LifeInv, NEW p \in Producers,
         Life!RemoveStream(p) \/ Life!BeginAdd(p) \/ Life!TeardownStream(p)
  PROVE  LifeInv'
<1> USE DEF LifeInv
<1>1. /\ Life!Unregister(p) /\ UNCHANGED <<epoch, handle, closed, Life!loopVars, Life!coreVars, Life!systemVars>>
      /\ job' = job \/ (job' = <<"add", p>> /\ epoch < MaxEpoch)
      /\ job # <<"add", p>> \/ registered[p] = 0
  BY DEF Life!RemoveStream, Life!BeginAdd, Life!TeardownStream, LifeControl
<1>2. /\ registered' \in [Producers -> 0 .. epoch]
      /\ \A o \in Producers : registered'[o] = IF o = p THEN 0 ELSE registered[o]
      /\ queue' \in Seq(Life!Command) /\ InTurn(queue') /\ AfterLive(queue', live)
      /\ Asked(queue', live, registered')
      /\ ~alive => queue' = <<>>
  BY <1>1, Unregistered
<1>3. LifeControl'
  <2>1. \A o \in Producers : job' = <<"add", o>> => registered'[o] = 0 /\ epoch' < MaxEpoch
    BY <1>1, <1>2 DEF LifeControl
  <2>2. job' \in {<<"idle">>, <<"teardown">>, <<"join">>} \cup {<<"add", o>> : o \in Producers}
    BY <1>1 DEF LifeControl
  <2> QED
    BY <2>1, <2>2, <1>1, <1>2 DEF LifeControl
<1>4. UNCHANGED <<alive, loop_pc, reading, live, paused, errors, states, mixer, inbox, armed, signalled, packets, faults, epoch, handle>>
  BY <1>1 DEF Life!loopVars, Life!coreVars, Life!systemVars
<1> HIDE DEF LifeInv
<1>5. LifeThread' /\ Decoded' /\ Life!OneGeneration'
  BY <1>4 DEF LifeInv, LifeThread, Decoded, Life!OneGeneration
<1>6. LifeSystem' /\ Handled'
  BY <1>2, <1>4 DEF LifeInv, LifeSystem, Handled
<1> QED
  BY <1>2, <1>3, <1>4, <1>5, <1>6 DEF LifeInv

\* An addition that is accepted: the former stream of the producer is gone or on its way out.
LEMMA AdditionKeeps ==
  ASSUME LifeInv, NEW p \in Producers, Life!FinishAdd(p)
  PROVE  LifeInv'
<1> USE DEF LifeInv
<1> DEFINE s == [producer |-> p, epoch |-> epoch + 1]
<1>1. /\ registered \in [Producers -> 0 .. epoch] /\ epoch \in 0 .. MaxEpoch /\ registered[p] = 0 /\ epoch < MaxEpoch
      /\ job' = <<"idle">> /\ epoch' = epoch + 1 /\ registered' = [registered EXCEPT ![p] = epoch + 1]
      /\ UNCHANGED <<closed, reading, live, paused, errors, states, mixer, inbox, armed, signalled, packets, faults>>
      /\ handle /\ alive => queue' = Append(queue, Life!Add(s)) /\ UNCHANGED <<handle, alive, loop_pc>>
      /\ handle /\ ~alive => queue' = queue /\ UNCHANGED <<handle, alive, loop_pc>>
      /\ ~handle => handle' = TRUE /\ alive' = TRUE /\ loop_pc' = "poll" /\ queue' = <<Life!Add(s)>>
  BY DEF Life!FinishAdd, LifeControl, Life!Sent, Life!coreVars, Life!systemVars
<1>2. s \in Life!Stream /\ s.producer = p /\ s.epoch = epoch + 1
  BY <1>1, LifeConstants, StreamFields DEF Life!Epochs
<1> HIDE DEF s
<1>3. /\ \A t \in live : t \in Life!Stream
      /\ \A i \in DOMAIN queue : queue[i] \in Life!Command /\ queue[i].stream \in Life!Stream
      /\ \A t \in Life!Stream : t.epoch # 0 /\ t.producer \in Producers
  BY Commands, StreamFields DEF LifeThread, LifeSystem, Life!Epochs
<1>4. LifeControl' /\ Decoded' /\ Life!OneGeneration'
  <2>1. epoch' \in 0 .. MaxEpoch /\ registered' \in [Producers -> 0 .. epoch']
    BY <1>1, LifeConstants
  <2>2. handle' \in BOOLEAN /\ closed' \in BOOLEAN
    BY <1>1 DEF LifeControl
  <2>3. \A o \in Producers : job' # <<"add", o>>
    BY <1>1
  <2>4. LifeControl'
    BY <2>1, <2>2, <2>3, <1>1 DEF LifeControl
  <2> QED
    BY <2>4, <1>1 DEF Decoded, Life!OneGeneration
<1>5. CASE handle /\ alive
  <2> DEFINE r == Append(queue, Life!Add(s))
  <2>1. /\ \A i \in DOMAIN queue : IsAdd(queue, i) /\ queue[i].stream.producer = p
               => \E k \in DOMAIN queue : i < k /\ queue[k] = Life!Remove(queue[i].stream)
        /\ \A t \in live : t.producer = p => \E k \in DOMAIN queue : queue[k] = Life!Remove(t)
    BY <1>1, <1>3 DEF Asked
  <2>2. /\ r \in Seq(Life!Command) /\ InTurn(r) /\ AfterLive(r, live)
        /\ \A k \in DOMAIN queue : k \in DOMAIN r /\ r[k] = queue[k]
        /\ \A k \in DOMAIN r : k \in DOMAIN queue \/ r[k].stream = s
    BY <1>2, <2>1, AdditionSent DEF LifeSystem
  <2> HIDE DEF r
  <2>3. ASSUME NEW t \in Life!Stream, registered[t.producer] = t.epoch
        PROVE  registered'[t.producer] = t.epoch
    BY <1>1, <1>3, <2>3
  <2>4. ASSUME NEW t \in live
        PROVE  registered'[t.producer] = t.epoch \/ \E k \in DOMAIN r : r[k] = Life!Remove(t)
    BY <1>3, <2>2, <2>3 DEF Asked
  <2>5. ASSUME NEW i \in DOMAIN r, IsAdd(r, i)
        PROVE  \/ registered'[r[i].stream.producer] = r[i].stream.epoch
               \/ \E k \in DOMAIN r : i < k /\ r[k] = Life!Remove(r[i].stream)
    <3>1. CASE r[i].stream = s
      BY <3>1, <1>1, <1>2
    <3>2. CASE i \in DOMAIN queue
      <4>1. IsAdd(queue, i) /\ r[i] = queue[i]
        BY <2>2, <2>5, <3>2 DEF IsAdd
      <4> QED
        BY <4>1, <3>2, <1>3, <2>2, <2>3 DEF Asked
    <3> QED
      BY <3>1, <3>2, <2>2
  <2>6. Asked(r, live, registered')
    BY <2>4, <2>5 DEF Asked
  <2>7. queue' = r /\ UNCHANGED <<handle, alive, loop_pc>>
    BY <1>1, <1>5 DEF r
  <2> QED
    BY <2>2, <2>6, <2>7, <1>1, <1>4, <1>5 DEF LifeThread, LifeSystem, Handled
<1>6. CASE handle /\ ~alive
  BY <1>1, <1>4, <1>6 DEF LifeThread, LifeSystem, Handled, Asked, AfterLive, InTurn
<1>7. CASE ~handle
  <2>1. live = {} /\ queue' = <<Life!Add(s)>> /\ handle' = TRUE /\ alive' = TRUE /\ loop_pc' = "poll"
        /\ live' = {} /\ reading' = {} /\ paused' = {} /\ armed' = {} /\ signalled' = {}
    BY <1>1, <1>7 DEF Handled, LifeThread
  <2>2. /\ queue' \in Seq(Life!Command) /\ DOMAIN queue' = {1} /\ queue'[1].stream = s
    BY <2>1, <1>2, Commands
  <2>3. registered'[s.producer] = s.epoch
    BY <1>1, <1>2
  <2>4. Asked(queue', live', registered') /\ InTurn(queue') /\ AfterLive(queue', live')
    BY <2>1, <2>2, <2>3 DEF Asked, InTurn, AfterLive
  <2>5. LifeThread' /\ LifeSystem' /\ Handled'
    BY <2>1, <2>2, <1>1 DEF LifeThread, LifeSystem, Handled
  <2> QED
    BY <2>4, <2>5, <1>4
<1> QED
  BY <1>5, <1>6, <1>7

\* The other steps of the control thread.
LEMMA ControlKeeps ==
  ASSUME LifeInv, Life!RefuseAdd \/ Life!BeginTeardown \/ Life!CloseQueue \/ Life!Join
  PROVE  LifeInv'
<1> USE DEF LifeInv
<1>1. /\ job' \in {<<"idle">>, <<"teardown">>, <<"join">>} /\ closed' \in BOOLEAN /\ handle' \in BOOLEAN
      /\ alive => handle'
      /\ UNCHANGED <<registered, epoch, queue, alive, loop_pc, reading, live, paused, errors, states,
                     mixer, inbox, armed, signalled, packets, faults>>
  BY DEF Life!RefuseAdd, Life!BeginTeardown, Life!CloseQueue, Life!Join, Life!loopVars,
         Life!coreVars, Life!systemVars, LifeControl, Handled
<1>2. LifeControl'
  BY <1>1 DEF LifeControl
<1> HIDE DEF LifeInv
<1>3. LifeThread' /\ LifeSystem' /\ Handled' /\ Decoded' /\ Life!OneGeneration'
  BY <1>1 DEF LifeInv, LifeThread, LifeSystem, Handled, Decoded, Life!OneGeneration
<1> QED
  BY <1>1, <1>2, <1>3 DEF LifeInv

-----------------------------------------------------------------------------
\* The steps of the receive thread that only move it in its loop, the packets, the reads.
LEMMA LoopKeeps ==
  ASSUME LifeInv,
         \/ Life!Wake \/ Life!BeginCommands \/ Life!EndTurn
         \/ \E over \in SUBSET paused : Life!Retry(over)
         \/ \E due \in SUBSET live : Life!Reread(due)
  PROVE  LifeInv'
<1> USE DEF LifeInv
<1>1. /\ reading' \subseteq live /\ paused' \subseteq live /\ signalled' \subseteq live
      /\ loop_pc' \in {"poll", "read", "commands", "retry", "conceal"}
      /\ loop_pc' \in {"poll", "commands"} => reading' = {}
      /\ UNCHANGED <<registered, epoch, handle, job, closed, queue, alive, live, errors, states, mixer,
                     inbox, armed, packets, faults>>
  BY DEF Life!Wake, Life!BeginCommands, Life!EndTurn, Life!Retry, Life!Reread, Life!At, LifeThread,
         Life!controlVars, Life!coreVars, Life!systemVars
<1>2. LifeThread'
  BY <1>1 DEF LifeThread
<1> HIDE DEF LifeInv
<1>3. LifeControl' /\ LifeSystem' /\ Handled' /\ Decoded' /\ Life!OneGeneration'
  BY <1>1 DEF LifeInv, LifeControl, LifeSystem, Handled, Decoded, Life!OneGeneration
<1> QED
  BY <1>1, <1>2, <1>3 DEF LifeInv

LEMMA ArrivalKeeps ==
  ASSUME LifeInv, NEW s \in Life!Bound, Life!Arrive(s)
  PROVE  LifeInv'
<1> USE DEF LifeInv
<1>1. s \in Life!Stream
  <2>1. s \in live \/ \E c \in Life!Queued : s = c.stream
    BY DEF Life!Bound
  <2>2. Life!Queued \subseteq Life!Command
    BY DEF Life!Queued, LifeSystem
  <2> QED
    BY <2>1, <2>2, Commands DEF LifeThread
<1>2. UNCHANGED <<registered, epoch, handle, job, closed, queue, alive, loop_pc, reading, live, paused,
                  errors, states, mixer, faults>>
  BY DEF Life!Arrive, Life!controlVars, Life!loopVars, Life!coreVars
<1>3. packets' \in 0 .. MaxSent /\ inbox' \in [Life!Epochs -> Nat]
  BY <1>1, StreamFields, LifeConstants DEF Life!Arrive, LifeSystem
<1>4. armed' \subseteq live /\ signalled' \subseteq live
  <2>1. armed' \subseteq live
    BY DEF Life!Arrive, LifeThread
  <2>2. CASE s \in armed
    BY <2>2 DEF Life!Arrive, LifeThread
  <2>3. CASE s \notin armed
    BY <2>3 DEF Life!Arrive, LifeThread
  <2> QED
    BY <2>1, <2>2, <2>3
<1>5. LifeThread' /\ LifeSystem'
  BY <1>2, <1>3, <1>4 DEF LifeThread, LifeSystem
<1> HIDE DEF LifeInv
<1>6. LifeControl' /\ Handled' /\ Decoded' /\ Life!OneGeneration'
  BY <1>2 DEF LifeInv, LifeControl, Handled, Decoded, Life!OneGeneration
<1> QED
  BY <1>2, <1>5, <1>6 DEF LifeInv

LEMMA ReadKeeps ==
  ASSUME LifeInv, NEW s \in reading, Life!ReadOne(s)
  PROVE  LifeInv'
<1> USE DEF LifeInv
<1>1. s \in live /\ s \in Life!Stream /\ s.producer \in Producers /\ s.epoch \in 1 .. MaxEpoch
      /\ s = [producer |-> s.producer, epoch |-> s.epoch] /\ alive
  BY StreamFields DEF LifeThread, Life!ReadOne, Life!Epochs
<1>2. UNCHANGED <<registered, epoch, handle, job, closed, queue, alive, loop_pc, live, packets>>
  BY DEF Life!ReadOne, Life!ReadPacket, Life!ReadEmpty, Life!ReadError, Life!controlVars
<1>3. /\ reading' \subseteq reading /\ paused' \subseteq live /\ armed' \subseteq live /\ signalled' = signalled
  BY <1>1 DEF Life!ReadOne, Life!ReadPacket, Life!ReadEmpty, Life!ReadError, Life!Backoff, LifeThread
<1>4. errors' \in [Life!Epochs -> Nat] /\ inbox' \in [Life!Epochs -> Nat] /\ faults' \in 0 .. MaxErrors
  <2> USE LifeConstants DEF LifeSystem, Life!Epochs
  <2>1. CASE Life!ReadPacket(s)
    <3>1. inbox[s.epoch] \in Nat /\ inbox[s.epoch] - 1 \in Nat
      BY <2>1, <1>1 DEF Life!ReadPacket
    <3> QED
      BY <2>1, <3>1, <1>1 DEF Life!ReadPacket
  <2>2. CASE Life!ReadEmpty(s)
    BY <2>2 DEF Life!ReadEmpty
  <2>3. CASE Life!ReadError(s)
    BY <2>3, <1>1 DEF Life!ReadError
  <2> QED
    BY <2>1, <2>2, <2>3 DEF Life!ReadOne
<1>5. Decoded'
  <2> USE DEF Decoded
  <2>1. CASE Life!OnPacket(s)
    <3>1. CASE states' = [states EXCEPT ![s.producer] = s.epoch] /\ mixer' = [mixer EXCEPT ![s.producer] = s.epoch]
      BY <3>1, <1>1, <1>2, LifeConstants
    <3>2. CASE UNCHANGED <<states, mixer>>
      BY <3>2, <1>2
    <3>3. CASE mixer' = [mixer EXCEPT ![s.producer] = 0] /\ states' = states
      BY <3>3, <1>1, <1>2, LifeConstants
    <3>4. states[s.producer] \in Nat /\ s.epoch \in Nat
      BY <1>1, LifeConstants
    <3>5. CASE states[s.producer] >= s.epoch
      <4>1. ~(states[s.producer] < s.epoch)
        BY <3>4, <3>5
      <4>2. UNCHANGED Life!coreVars
        BY <2>1, <3>5, <4>1 DEF Life!OnPacket
      <4> QED
        BY <4>2, <3>2 DEF Life!coreVars
    <3>6. CASE states[s.producer] < s.epoch
      <4>1. ~(states[s.producer] >= s.epoch)
        BY <3>4, <3>6
      <4> QED
        BY <2>1, <3>1, <3>2, <3>3, <3>6, <4>1 DEF Life!OnPacket
    <3> QED
      BY <3>4, <3>5, <3>6
  <2>2. CASE UNCHANGED <<states, mixer>>
    BY <2>2, <1>2
  <2> QED
    BY <2>1, <2>2 DEF Life!ReadOne, Life!ReadPacket, Life!ReadEmpty, Life!ReadError, Life!coreVars
<1>6. LifeThread' /\ LifeSystem' /\ Handled'
  BY <1>1, <1>2, <1>3, <1>4 DEF LifeThread, LifeSystem, Handled
<1> HIDE DEF LifeInv
<1>7. LifeControl' /\ Life!OneGeneration'
  BY <1>2 DEF LifeInv, LifeControl, Life!OneGeneration
<1> QED
  BY <1>2, <1>5, <1>6, <1>7 DEF LifeInv

-----------------------------------------------------------------------------
\* The commands.
LEMMA AddHandled ==
  ASSUME LifeInv, Life!HandleAdd
  PROVE  LifeInv'
<1> USE DEF LifeInv
<1> DEFINE s == queue[1].stream
<1>0. queue \in Seq(Life!Command) /\ queue # <<>> /\ Head(queue) = queue[1] /\ InTurn(queue) /\ AfterLive(queue, live)
      /\ 1 \in DOMAIN queue /\ queue[1] \in Life!Command
  BY DEF Life!HandleAdd, LifeSystem
<1>1. /\ queue[1].cmd = "Add" /\ s \in Life!Stream /\ alive /\ loop_pc = "commands" /\ reading = {}
      /\ queue' = Tail(queue)
      /\ live' = live \cup {s} \/ live' = live
      /\ armed' \subseteq live' /\ signalled' \subseteq live'
      /\ UNCHANGED <<registered, epoch, handle, job, closed, alive, loop_pc, reading, paused, errors, states, mixer,
                     inbox, packets, faults>>
  BY <1>0, Commands DEF Life!HandleAdd, Life!At, LifeThread, Life!controlVars, Life!coreVars
<1>2. /\ Tail(queue) \in Seq(Life!Command) /\ InTurn(Tail(queue)) /\ AfterLive(Tail(queue), live')
      /\ \A k \in DOMAIN Tail(queue) : k + 1 \in DOMAIN queue /\ Tail(queue)[k] = queue[k + 1]
      /\ \A k \in DOMAIN queue : k = 1 \/ (k - 1 \in DOMAIN Tail(queue) /\ Tail(queue)[k - 1] = queue[k])
  BY <1>0, <1>1, Received
<1>3. \A t \in live : t.producer # s.producer
  <2> SUFFICES ASSUME NEW t \in live, t.producer = s.producer PROVE FALSE
    OBVIOUS
  <2>1. Between(queue, 0, 1, t)
    BY <1>0, <1>1 DEF AfterLive, IsAdd
  <2> QED
    BY <2>1, <1>0 DEF Between
<1> HIDE DEF s
<1>4. LifeThread' /\ LifeSystem' /\ Handled'
  BY <1>1, <1>2 DEF LifeThread, LifeSystem, Handled
<1>5. Life!OneGeneration' /\ Decoded'
  BY <1>1, <1>3 DEF Life!OneGeneration, Decoded
<1>6. Asked(queue', live', registered')
  <2> DEFINE r == Tail(queue)
  <2>0. DOMAIN queue \subseteq Nat /\ DOMAIN r \subseteq Nat
    BY <1>0, <1>2
  <2> HIDE DEF r
  <2>1. \A k \in DOMAIN queue, i \in DOMAIN r : \A t : i + 1 < k /\ queue[k] = Life!Remove(t)
           => \E l \in DOMAIN r : i < l /\ r[l] = Life!Remove(t)
    <3> TAKE k \in DOMAIN queue, i \in DOMAIN r
    <3> TAKE t
    <3> HAVE i + 1 < k /\ queue[k] = Life!Remove(t)
    <3>1. k - 1 \in DOMAIN r /\ i < k - 1 /\ r[k - 1] = Life!Remove(t)
      BY <1>2, <2>0 DEF r
    <3> QED
      BY <3>1
  <2>2. \A i \in DOMAIN r : IsAdd(r, i) =>
       \/ registered[r[i].stream.producer] = r[i].stream.epoch
       \/ \E k \in DOMAIN r : i < k /\ r[k] = Life!Remove(r[i].stream)
    <3> SUFFICES ASSUME NEW i \in DOMAIN r, IsAdd(r, i), registered[r[i].stream.producer] # r[i].stream.epoch
                 PROVE  \E k \in DOMAIN r : i < k /\ r[k] = Life!Remove(r[i].stream)
      OBVIOUS
    <3>1. i + 1 \in DOMAIN queue /\ r[i] = queue[i + 1] /\ IsAdd(queue, i + 1)
      BY <1>2 DEF r, IsAdd
    <3>2. PICK k \in DOMAIN queue : i + 1 < k /\ queue[k] = Life!Remove(queue[i + 1].stream)
      BY <3>1 DEF Asked
    <3> QED
      BY <2>1, <3>1, <3>2
  <2>3. \A k \in DOMAIN queue : \A t : queue[k] = Life!Remove(t) => \E l \in DOMAIN r : r[l] = Life!Remove(t)
    <3> TAKE k \in DOMAIN queue
    <3> TAKE t
    <3> HAVE queue[k] = Life!Remove(t)
    <3>1. queue[k].cmd = "Remove"
      BY DEF Life!Remove
    <3>2. k # 1
      BY <1>1, <3>1
    <3> QED
      BY <3>2, <1>2 DEF r
  <2>4. \A t \in live' : registered[t.producer] = t.epoch \/ \E k \in DOMAIN r : r[k] = Life!Remove(t)
    <3> SUFFICES ASSUME NEW t \in live', registered[t.producer] # t.epoch
                 PROVE  \E k \in DOMAIN r : r[k] = Life!Remove(t)
      OBVIOUS
    <3>1. CASE t \in live
      BY <3>1, <2>3 DEF Asked
    <3>2. CASE t = s
      <4>1. PICK k \in DOMAIN queue : queue[k] = Life!Remove(s)
        BY <3>2, <1>0, <1>1 DEF Asked, IsAdd, s
      <4> QED
        BY <4>1, <3>2, <2>3
    <3> QED
      BY <3>1, <3>2, <1>1
  <2> QED
    BY <2>2, <2>4, <1>1 DEF Asked, r
<1>7. LifeControl'
  BY <1>1 DEF LifeControl
<1> QED
  BY <1>1, <1>2, <1>4, <1>5, <1>6, <1>7

LEMMA RemoveHandled ==
  ASSUME LifeInv, Life!HandleRemove
  PROVE  LifeInv'
<1> USE DEF LifeInv
<1> DEFINE s == queue[1].stream
           gone == {s} \cap live
<1>0. queue \in Seq(Life!Command) /\ queue # <<>> /\ Head(queue) = queue[1] /\ InTurn(queue) /\ AfterLive(queue, live)
      /\ 1 \in DOMAIN queue /\ queue[1] \in Life!Command
  BY DEF Life!HandleRemove, LifeSystem
<1>1. /\ queue[1].cmd = "Remove" /\ s \in Life!Stream /\ alive /\ loop_pc = "commands" /\ reading = {}
      /\ queue' = Tail(queue)
      /\ live' = live \ {s} /\ paused' = paused \ gone /\ armed' = armed \ gone /\ signalled' = signalled \ gone
      /\ UNCHANGED <<registered, epoch, handle, job, closed, alive, loop_pc, reading, errors, inbox, packets, faults>>
  BY <1>0, Commands DEF Life!HandleRemove, Life!At, LifeThread, Life!controlVars
<1>2. /\ Tail(queue) \in Seq(Life!Command) /\ InTurn(Tail(queue)) /\ AfterLive(Tail(queue), live')
      /\ \A k \in DOMAIN Tail(queue) : k + 1 \in DOMAIN queue /\ Tail(queue)[k] = queue[k + 1]
      /\ \A k \in DOMAIN queue : k = 1 \/ (k - 1 \in DOMAIN Tail(queue) /\ Tail(queue)[k - 1] = queue[k])
  BY <1>0, <1>1, Received
<1>3. queue[1] = Life!Remove(s) /\ \A t : Life!Remove(t) = queue[1] => t = s
  BY <1>0, <1>1, Commands DEF Life!Remove
<1>4. Life!CoreRemoved(gone)
  BY <1>0 DEF Life!HandleRemove
<1> HIDE DEF s
<1>5. LifeThread' /\ LifeSystem' /\ Handled'
  <2>1. paused' \subseteq live' /\ armed' \subseteq live' /\ signalled' \subseteq live' /\ live' \subseteq live
    BY <1>1 DEF LifeThread
  <2> QED
    BY <2>1, <1>1, <1>2 DEF LifeThread, LifeSystem, Handled
<1>6. Decoded'
  <2>1. ASSUME NEW p \in Producers, [producer |-> p, epoch |-> states[p]] \in gone
        PROVE  states'[p] = 0 /\ mixer'[p] = 0
    BY <1>4, <2>1 DEF Life!CoreRemoved
  <2>2. ASSUME NEW p \in Producers, [producer |-> p, epoch |-> states[p]] \notin gone
        PROVE  states'[p] = states[p] /\ mixer'[p] = mixer[p]
    BY <1>4, <2>2 DEF Life!CoreRemoved
  <2>3. states' \in [Producers -> 0 .. MaxEpoch] /\ mixer' \in [Producers -> 0 .. MaxEpoch]
    BY <1>4, LifeConstants DEF Life!CoreRemoved, Decoded
  <2>4. ASSUME NEW p \in Producers
        PROVE  /\ states'[p] # 0 => [producer |-> p, epoch |-> states'[p]] \in live'
               /\ mixer'[p] # 0 => mixer'[p] = states'[p]
    <3>1. CASE [producer |-> p, epoch |-> states[p]] \in gone
      BY <3>1, <2>1
    <3>2. CASE [producer |-> p, epoch |-> states[p]] \notin gone
      BY <3>2, <2>2, <1>1 DEF Decoded
    <3> QED
      BY <3>1, <3>2
  <2> QED
    BY <2>3, <2>4 DEF Decoded
<1>7. Life!OneGeneration'
  BY <1>1 DEF Life!OneGeneration
<1>8. Asked(queue', live', registered')
  <2> DEFINE r == Tail(queue)
  <2>0. DOMAIN queue \subseteq Nat /\ DOMAIN r \subseteq Nat \ {0}
    BY <1>0, <1>2
  <2> HIDE DEF r
  <2>1. \A i \in DOMAIN r : IsAdd(r, i) =>
       \/ registered[r[i].stream.producer] = r[i].stream.epoch
       \/ \E k \in DOMAIN r : i < k /\ r[k] = Life!Remove(r[i].stream)
    <3> SUFFICES ASSUME NEW i \in DOMAIN r, IsAdd(r, i), registered[r[i].stream.producer] # r[i].stream.epoch
                 PROVE  \E k \in DOMAIN r : i < k /\ r[k] = Life!Remove(r[i].stream)
      OBVIOUS
    <3>1. i + 1 \in DOMAIN queue /\ r[i] = queue[i + 1] /\ IsAdd(queue, i + 1)
      BY <1>2 DEF r, IsAdd
    <3>2. PICK k \in DOMAIN queue : i + 1 < k /\ queue[k] = Life!Remove(queue[i + 1].stream)
      BY <3>1 DEF Asked
    <3>3. k - 1 \in DOMAIN r /\ i < k - 1 /\ r[k - 1] = Life!Remove(r[i].stream)
      BY <1>2, <2>0, <3>1, <3>2 DEF r
    <3> QED
      BY <3>3
  <2>2. \A t \in live' : registered[t.producer] = t.epoch \/ \E k \in DOMAIN r : r[k] = Life!Remove(t)
    <3> SUFFICES ASSUME NEW t \in live', registered[t.producer] # t.epoch
                 PROVE  \E k \in DOMAIN r : r[k] = Life!Remove(t)
      OBVIOUS
    <3>1. t \in live /\ t # s
      BY <1>1
    <3>2. PICK k \in DOMAIN queue : queue[k] = Life!Remove(t)
      BY <3>1 DEF Asked
    <3>3. k # 1
      BY <3>1, <3>2, <1>3
    <3> QED
      BY <3>2, <3>3, <1>2 DEF r
  <2> QED
    BY <2>1, <2>2, <1>1 DEF Asked, r
<1>9. LifeControl'
  BY <1>1 DEF LifeControl
<1> QED
  BY <1>1, <1>2, <1>5, <1>6, <1>7, <1>8, <1>9

LEMMA EndKeeps ==
  ASSUME LifeInv, Life!Stop \/ Life!PollFail
  PROVE  LifeInv'
<1> USE DEF LifeInv
<1>1. Life!Ended
  BY DEF Life!Stop, Life!PollFail
<1>2. /\ alive' = FALSE /\ loop_pc' = "poll" /\ queue' = <<>> /\ states' = Life!Nobody
      /\ reading' = {} /\ live' = {} /\ paused' = {} /\ armed' = {} /\ signalled' = {}
      /\ mixer' = [p \in Producers |-> IF states[p] # 0 THEN 0 ELSE mixer[p]]
      /\ UNCHANGED <<registered, epoch, handle, job, closed, errors, inbox, packets, faults>>
  BY <1>1 DEF Life!Ended, Life!controlVars
<1>3. mixer' = Life!Nobody
  BY <1>2 DEF Decoded, Life!Nobody
<1>4. queue' \in Seq(Life!Command) /\ InTurn(queue') /\ AfterLive(queue', live') /\ Asked(queue', live', registered')
  BY <1>2 DEF InTurn, AfterLive, Asked
<1>5. Decoded'
  BY <1>2, <1>3, LifeConstants DEF Decoded, Life!Nobody
<1>6. LifeThread' /\ LifeSystem' /\ Handled' /\ Life!OneGeneration'
  BY <1>2, <1>3, <1>4 DEF LifeThread, LifeSystem, Handled, Life!OneGeneration
<1>7. LifeControl'
  BY <1>2 DEF LifeControl
<1> QED
  BY <1>4, <1>5, <1>6, <1>7

LEMMA LifeBegins == Life!Init => LifeInv
<1> SUFFICES ASSUME Life!Init PROVE LifeInv
  OBVIOUS
<1> USE DEF Life!Init
<1>1. LifeControl
  <2>1. epoch \in 0 .. MaxEpoch /\ registered \in [Producers -> 0 .. epoch]
    BY LifeConstants DEF Life!Nobody
  <2>2. \A p \in Producers : job # <<"add", p>>
    OBVIOUS
  <2> QED
    BY <2>1, <2>2 DEF LifeControl
<1>2. LifeThread /\ Handled /\ Life!OneGeneration
  BY DEF LifeThread, Handled, Life!OneGeneration
<1>5. LifeSystem
  <2>1. queue \in Seq(Life!Command)
    OBVIOUS
  <2>2. packets \in 0 .. MaxSent /\ faults \in 0 .. MaxErrors
    BY LifeConstants
  <2>3. errors \in [Life!Epochs -> Nat] /\ inbox \in [Life!Epochs -> Nat]
    OBVIOUS
  <2> QED
    BY <2>1, <2>2, <2>3 DEF LifeSystem
<1>3. Decoded
  BY LifeConstants DEF Decoded, Life!Nobody
<1>4. InTurn(queue) /\ AfterLive(queue, live) /\ Asked(queue, live, registered)
  BY DEF InTurn, AfterLive, Asked
<1> QED
  BY <1>1, <1>2, <1>3, <1>4, <1>5 DEF LifeInv

LEMMA LifeGoesOn == LifeInv /\ [Life!Next]_(Life!vars) => LifeInv'
<1> SUFFICES ASSUME LifeInv, [Life!Next]_(Life!vars) PROVE LifeInv'
  OBVIOUS
<1>1. CASE Life!Control
  <2>1. ASSUME NEW p \in Producers,
               Life!RemoveStream(p) \/ Life!BeginAdd(p) \/ Life!FinishAdd(p) \/ Life!TeardownStream(p)
        PROVE  LifeInv'
    BY <2>1, RemovalKeeps, AdditionKeeps
  <2> QED
    BY <1>1, <2>1, ControlKeeps DEF Life!Control
<1>2. CASE Life!Thread
  BY <1>2, LoopKeeps, ReadKeeps, AddHandled, RemoveHandled, EndKeeps DEF Life!Thread
<1>3. CASE Life!PollFail
  BY <1>3, EndKeeps
<1>4. CASE \E s \in Life!Bound : Life!Arrive(s)
  BY <1>4, ArrivalKeeps
<1>5. CASE UNCHANGED Life!vars
  <2>1. UNCHANGED <<registered, epoch, handle, job, closed, queue, alive, loop_pc, reading, live, paused,
                    errors, states, mixer, inbox, armed, signalled, packets, faults>>
    BY <1>5 DEF Life!vars, Life!controlVars, Life!loopVars, Life!coreVars, Life!systemVars
  <2> QED
    BY <2>1 DEF LifeInv, LifeControl, LifeThread, LifeSystem, Handled, Decoded, Life!OneGeneration
<1> QED
  BY <1>1, <1>2, <1>3, <1>4, <1>5 DEF Life!Next

\* What is in the mixer is received, what is received is wanted, and of one producer there is one.
THEOREM NoGhostInTheMixer == Life!Spec => []NoGhost
<1>1. LifeInv => NoGhost
  <2> SUFFICES ASSUME LifeInv PROVE Life!NoGhost
    BY DEF NoGhost
  <2>1. ASSUME NEW p \in Producers, mixer[p] # 0
        PROVE  mixer[p] = states[p] /\ [producer |-> p, epoch |-> mixer[p]] \in live
    BY <2>1 DEF LifeInv, Decoded
  <2>2. ASSUME NEW s \in live PROVE s = Life!Wanted(s.producer) \/ Life!Remove(s) \in Life!Queued
    <3>1. s \in Life!Stream
      BY DEF LifeInv, LifeThread
    <3>2. registered[s.producer] = s.epoch => s = Life!Wanted(s.producer)
      BY <3>1, StreamFields DEF Life!Wanted
    <3> QED
      BY <3>2 DEF LifeInv, Asked, Life!Queued
  <2> QED
    BY <2>1, <2>2 DEF LifeInv, Life!NoGhost
<1> QED
  BY <1>1, LifeBegins, LifeGoesOn, PTL DEF Life!Spec

-----------------------------------------------------------------------------
(* The inventions of the receive thread (Concealment).                     *)

\* The types of what the two claims speak of.
ConcealTypes ==
  /\ held \in [Streams -> Nat] /\ playing \in [Streams -> BOOLEAN] /\ hole \in [Streams -> BOOLEAN]
  /\ unclassified \in [Streams -> BOOLEAN] /\ untold \in [Streams -> Nat]
  /\ consecutive \in [Streams -> Nat] /\ run \in [Streams -> Nat] /\ longest \in [Streams -> Nat]
  /\ inventing \in Streams \cup {None}

\* What was pushed in a row was counted, on a budget that is not exceeded; a frame is
\* being invented only while the streams are examined, when one is left of it.
OnBudget ==
  /\ \A s \in Streams : run[s] =< consecutive[s] /\ consecutive[s] =< MAX_CONSECUTIVE
                        /\ longest[s] =< MAX_CONSECUTIVE
  /\ \A s \in Streams : inventing = s => pc = "examine" /\ consecutive[s] < MAX_CONSECUTIVE

\* A hole that nothing was pushed after: the buffer is empty and does not play, the
\* output cannot meet a second one.
HolesTold ==
  \A s \in Streams : /\ hole[s] => held[s] = 0 /\ ~playing[s]
                     /\ untold[s] = Thread!Count(hole[s]) + Thread!Count(unclassified[s])

ConcealInv == ConcealTypes /\ OnBudget /\ HolesTold

LEMMA ConcealBounds ==
  /\ FRAME \in Nat \ {0} /\ BLOCK \in Nat \ {0} /\ TARGET \in Nat \ {0} /\ STREAM_CAPACITY \in Nat
  /\ MAX_CONSECUTIVE \in Nat /\ PLC_MAX_GAP \in Nat /\ MaxGap \in Nat /\ None \notin Streams
BY ReceiveConstants DEF Thread!ConcealConstants

LEMMA ConcealStarts == Thread!Init => ConcealInv
BY ConcealBounds
   DEF Thread!Init, ConcealInv, ConcealTypes, OnBudget, HolesTold, Thread!Count

\* A step that leaves alone all that the invariant speaks of.
LEMMA ConcealRests ==
  ASSUME ConcealInv,
         UNCHANGED <<consecutive, unclassified, held, playing, hole, pc, inventing, run, longest, untold>>
  PROVE  ConcealInv'
BY DEF ConcealInv, ConcealTypes, OnBudget, HolesTold, Thread!Count

\* What a push of n frames leaves of a buffer.
LEMMA PushedHolds ==
  ASSUME ConcealTypes, NEW s \in Streams, NEW n \in Nat, Thread!Pushed(s, n)
  PROVE  /\ held' \in [Streams -> Nat] /\ hole' \in [Streams -> BOOLEAN] /\ playing' = playing
         /\ \A r \in Streams : r # s => held'[r] = held[r] /\ hole'[r] = hole[r]
         /\ n > 0 => ~hole'[s]
         /\ n = 0 => hole'[s] = hole[s] /\ (held[s] = 0 => held'[s] = 0)
<1>1. n * FRAME \in Nat /\ (n = 0 => n * FRAME = 0)  BY ConcealBounds
<1> DEFINE m == n * FRAME
<1> HIDE DEF m
<1>2. m \in Nat /\ (n = 0 => m = 0)  BY <1>1 DEF m
<1>3. held' = [held EXCEPT ![s] = Thread!Least(held[s] + m, STREAM_CAPACITY)]
  BY DEF Thread!Pushed, m
<1>4. Thread!Least(held[s] + m, STREAM_CAPACITY) \in Nat
      /\ (m = 0 /\ held[s] = 0 => Thread!Least(held[s] + m, STREAM_CAPACITY) = 0)
  BY <1>2, ConcealBounds DEF Thread!Least, ConcealTypes
<1>5. held' \in [Streams -> Nat] /\ held'[s] = Thread!Least(held[s] + m, STREAM_CAPACITY)
      /\ \A r \in Streams : r # s => held'[r] = held[r]
  BY <1>3, <1>4 DEF ConcealTypes
<1>6. /\ hole' \in [Streams -> BOOLEAN] /\ \A r \in Streams : r # s => hole'[r] = hole[r]
      /\ n > 0 => ~hole'[s]
      /\ n = 0 => hole'[s] = hole[s]
  <2>1. hole' = [hole EXCEPT ![s] = IF n > 0 THEN FALSE ELSE @]  BY DEF Thread!Pushed
  <2>2. CASE n > 0
    <3>1. hole' = [hole EXCEPT ![s] = FALSE]  BY <2>1, <2>2
    <3>2. hole \in [Streams -> BOOLEAN]  BY DEF ConcealTypes
    <3>3. hole' \in [Streams -> BOOLEAN] /\ \A r \in Streams : r # s => hole'[r] = hole[r]
      BY <3>1, <3>2
    <3>4. ~hole'[s]  BY <3>1, <3>2
    <3>5. n # 0  BY <2>2
    <3>6. QED  BY <3>3, <3>4, <3>5
  <2>3. CASE ~(n > 0)
    <3>1. hole' = hole  BY <2>1, <2>3 DEF ConcealTypes
    <3>2. QED  BY <2>3, <3>1 DEF ConcealTypes
  <2>4. QED  BY <2>2, <2>3
<1>7. playing' = playing  BY DEF Thread!Pushed
<1>8. n = 0 => (held[s] = 0 => held'[s] = 0)  BY <1>2, <1>4, <1>5
<1>9. QED  BY <1>5, <1>6, <1>7, <1>8

\* The output: a hole is met by a buffer that played, thus that had none untold.
LEMMA PullKeeps ==
  ASSUME ConcealInv, NEW s \in Streams, Thread!Pull(s)
  PROVE  ConcealInv'
<1> USE ConcealBounds
<1>1. UNCHANGED <<consecutive, unclassified, pc, inventing, run, longest>>
  BY DEF Thread!Pull, Thread!decodeVars, Thread!threadVars
<1>2. OnBudget'  BY <1>1 DEF ConcealInv, OnBudget
<1>3. ~hole[s]
  BY DEF Thread!Pull, Thread!Playing, ConcealInv, ConcealTypes, HolesTold
<1>4. CASE held[s] >= BLOCK
  <2>1. /\ held' = [held EXCEPT ![s] = @ - BLOCK] /\ playing' = [playing EXCEPT ![s] = TRUE]
        /\ UNCHANGED <<hole, untold>>
    BY <1>4 DEF Thread!Pull
  <2>2. ConcealTypes'  BY <1>1, <1>4, <2>1 DEF ConcealInv, ConcealTypes
  <2>3. HolesTold'  BY <1>1, <1>3, <2>1 DEF ConcealInv, ConcealTypes, HolesTold, Thread!Count
  <2>4. QED  BY <1>2, <2>2, <2>3 DEF ConcealInv
<1>5. CASE ~(held[s] >= BLOCK)
  <2>1. /\ held' = [held EXCEPT ![s] = 0] /\ playing' = [playing EXCEPT ![s] = FALSE]
        /\ hole' = [hole EXCEPT ![s] = TRUE] /\ untold' = [untold EXCEPT ![s] = @ + 1]
    BY <1>5 DEF Thread!Pull
  <2>2. ConcealTypes'  BY <1>1, <2>1 DEF ConcealInv, ConcealTypes
  <2>3. HolesTold'  BY <1>1, <1>3, <2>1 DEF ConcealInv, ConcealTypes, HolesTold, Thread!Count
  <2>4. QED  BY <1>2, <2>2, <2>3 DEF ConcealInv
<1>6. QED  BY <1>4, <1>5

\* A packet fills its gap on what is left of the budget.
LEMMA PlayKeeps ==
  ASSUME ConcealInv, NEW s \in Streams, NEW missing \in Nat, Thread!Play(s, missing),
         inventing = None, UNCHANGED <<pc, inventing>>
  PROVE  ConcealInv'
<1> USE ConcealBounds
<1> DEFINE most == Thread!FilledOnArrival(s, missing)
<1>1. most \in Nat /\ run[s] + most =< MAX_CONSECUTIVE
  BY DEF Thread!FilledOnArrival, Thread!Least, Thread!Budget, Thread!Minus, ConcealInv, ConcealTypes, OnBudget
<1> HIDE DEF most
<1>2. PICK filled \in IF DecodeMayFail THEN 0 .. most ELSE {most},
           real \in IF DecodeMayFail THEN 0 .. 1 ELSE {1} :
        /\ Thread!Pushed(s, filled + real)
        /\ IF filled + real > 0
           THEN /\ unclassified' = [unclassified EXCEPT ![s] = FALSE]
                /\ untold' = [untold EXCEPT ![s] = @ - Thread!Classified(s)]
           ELSE UNCHANGED <<unclassified, untold>>
        /\ run' = [run EXCEPT ![s] = 0]
        /\ longest' = [longest EXCEPT ![s] = Thread!Most(@, run[s] + filled)]
  BY Zenon DEF Thread!Play, most
<1>3. consecutive' = [consecutive EXCEPT ![s] = 0]  BY DEF Thread!Play
<1>4. filled \in Nat /\ real \in Nat /\ filled + real \in Nat /\ filled =< most  BY <1>1, <1>2
<1>5. ConcealTypes  BY DEF ConcealInv
<1>6. /\ held' \in [Streams -> Nat] /\ hole' \in [Streams -> BOOLEAN] /\ playing' = playing
      /\ \A r \in Streams : r # s => held'[r] = held[r] /\ hole'[r] = hole[r]
      /\ filled + real > 0 => ~hole'[s]
      /\ filled + real = 0 => hole'[s] = hole[s] /\ (held[s] = 0 => held'[s] = 0)
  BY <1>2, <1>4, <1>5, PushedHolds
<1>7. Thread!Most(longest[s], run[s] + filled) \in Nat
      /\ Thread!Most(longest[s], run[s] + filled) =< MAX_CONSECUTIVE
  BY <1>1, <1>4 DEF Thread!Most, ConcealInv, ConcealTypes, OnBudget
<1>8. /\ consecutive' \in [Streams -> Nat] /\ run' \in [Streams -> Nat] /\ longest' \in [Streams -> Nat]
      /\ consecutive'[s] = 0 /\ run'[s] = 0 /\ longest'[s] =< MAX_CONSECUTIVE
      /\ \A r \in Streams : r # s => /\ consecutive'[r] = consecutive[r] /\ run'[r] = run[r]
                                     /\ longest'[r] = longest[r]
  BY <1>2, <1>3, <1>5, <1>7 DEF ConcealTypes
<1>9. OnBudget'  BY <1>8 DEF ConcealInv, OnBudget
<1>10. /\ unclassified' \in [Streams -> BOOLEAN] /\ untold' \in [Streams -> Nat]
       /\ HolesTold'
  <2>1. CASE filled + real > 0
    <3>1. /\ unclassified' = [unclassified EXCEPT ![s] = FALSE]
          /\ untold' = [untold EXCEPT ![s] = @ - Thread!Classified(s)]
      BY <1>2, <2>1
    <3>2. untold[s] - Thread!Classified(s) = 0
      BY DEF Thread!Classified, Thread!Count, ConcealInv, ConcealTypes, HolesTold
    <3>3. /\ unclassified' \in [Streams -> BOOLEAN] /\ untold' \in [Streams -> Nat]
          /\ ~unclassified'[s] /\ untold'[s] = 0
          /\ \A r \in Streams : r # s => unclassified'[r] = unclassified[r] /\ untold'[r] = untold[r]
      BY <1>5, <3>1, <3>2 DEF ConcealTypes
    <3>4. QED  BY <1>4, <1>6, <2>1, <3>3 DEF ConcealInv, HolesTold, Thread!Count
  <2>2. CASE filled + real = 0
    <3>1. unclassified' = unclassified /\ untold' = untold  BY <1>2, <2>2
    <3>2. QED  BY <1>5, <1>6, <2>2, <3>1 DEF ConcealInv, ConcealTypes, HolesTold, Thread!Count
  <2>3. QED  BY <1>4, <2>1, <2>2
<1>11. ConcealTypes'  BY <1>5, <1>6, <1>8, <1>10 DEF ConcealTypes
<1>12. QED  BY <1>9, <1>10, <1>11 DEF ConcealInv

\* A frame is invented on the budget, and classifies the hole that awaits its packet.
LEMMA InventKeeps ==
  ASSUME ConcealInv, NEW s \in Streams, Thread!Invent(s)
  PROVE  ConcealInv'
<1> USE ConcealBounds
<1>1. PICK ok \in IF DecodeMayFail THEN 0 .. 1 ELSE {1} :
        /\ Thread!Pushed(s, ok)
        /\ unclassified' = [unclassified EXCEPT ![s] = Thread!Kept(s, ok)]
        /\ untold' = [untold EXCEPT ![s] = @ - Thread!Count(ok = 1 /\ hole[s] /\ unclassified[s])]
        /\ run' = [run EXCEPT ![s] = @ + ok]
        /\ longest' = [longest EXCEPT ![s] = Thread!Most(@, run[s] + ok)]
  BY Zenon DEF Thread!Invent
<1>2. inventing = s /\ inventing' = None /\ consecutive' = [consecutive EXCEPT ![s] = @ + 1] /\ pc' = pc
  BY DEF Thread!Invent
<1>3. ConcealTypes /\ ok \in 0 .. 1  BY <1>1 DEF ConcealInv
<1>4. consecutive[s] < MAX_CONSECUTIVE /\ run[s] =< consecutive[s] /\ longest[s] =< MAX_CONSECUTIVE
  BY <1>2 DEF ConcealInv, OnBudget
<1>5. Thread!Most(longest[s], run[s] + ok) \in Nat
      /\ Thread!Most(longest[s], run[s] + ok) =< MAX_CONSECUTIVE
  BY <1>3, <1>4 DEF Thread!Most, ConcealTypes
<1>6. /\ consecutive' \in [Streams -> Nat] /\ run' \in [Streams -> Nat] /\ longest' \in [Streams -> Nat]
      /\ consecutive'[s] = consecutive[s] + 1 /\ run'[s] = run[s] + ok /\ longest'[s] =< MAX_CONSECUTIVE
      /\ \A r \in Streams : r # s => /\ consecutive'[r] = consecutive[r] /\ run'[r] = run[r]
                                     /\ longest'[r] = longest[r]
  BY <1>1, <1>2, <1>3, <1>5 DEF ConcealTypes
<1>7. /\ run'[s] =< consecutive'[s] /\ consecutive'[s] =< MAX_CONSECUTIVE
  BY <1>3, <1>4, <1>6 DEF ConcealTypes
<1>8. OnBudget'  BY <1>2, <1>6, <1>7 DEF ConcealInv, OnBudget
<1>9. /\ held' \in [Streams -> Nat] /\ hole' \in [Streams -> BOOLEAN] /\ playing' = playing
      /\ \A r \in Streams : r # s => held'[r] = held[r] /\ hole'[r] = hole[r]
      /\ ok > 0 => ~hole'[s]
      /\ ok = 0 => hole'[s] = hole[s] /\ (held[s] = 0 => held'[s] = 0)
  BY <1>1, <1>3, PushedHolds
<1>10. Thread!Kept(s, ok) \in BOOLEAN /\ hole[s] \in BOOLEAN /\ unclassified[s] \in BOOLEAN
  BY <1>3 DEF Thread!Kept, ConcealTypes
<1>11. /\ unclassified' \in [Streams -> BOOLEAN] /\ unclassified'[s] = Thread!Kept(s, ok)
       /\ \A r \in Streams : r # s => unclassified'[r] = unclassified[r]
  BY <1>1, <1>3, <1>10 DEF ConcealTypes
<1>12. untold[s] \in Nat /\ untold[s] = Thread!Count(hole[s]) + Thread!Count(unclassified[s])
  BY DEF ConcealInv, ConcealTypes, HolesTold
<1> DEFINE rest == untold[s] - Thread!Count(ok = 1 /\ hole[s] /\ unclassified[s])
<1>13. rest \in Nat /\ rest = Thread!Count(hole'[s]) + Thread!Count(Thread!Kept(s, ok))
  <2>1. CASE ok = 0
    BY <1>9, <1>10, <1>12, <2>1 DEF Thread!Count, Thread!Kept
  <2>2. CASE ok = 1
    <3>1. ~hole'[s]  BY <1>9, <2>2
    <3>2. CASE hole[s]  BY <1>12, <2>2, <3>1, <3>2 DEF Thread!Count, Thread!Kept
    <3>3. CASE ~hole[s]  BY <1>12, <2>2, <3>1, <3>3 DEF Thread!Count, Thread!Kept
    <3>4. QED  BY <3>2, <3>3
  <2>3. QED  BY <2>1, <2>2
<1> HIDE DEF rest
<1>14. untold' = [untold EXCEPT ![s] = rest]  BY <1>1 DEF rest
<1>15. /\ untold' \in [Streams -> Nat] /\ untold'[s] = rest
       /\ \A r \in Streams : r # s => untold'[r] = untold[r]
  BY <1>3, <1>13, <1>14 DEF ConcealTypes
<1>16. ConcealTypes'  BY <1>2, <1>3, <1>6, <1>9, <1>11, <1>15 DEF ConcealTypes
<1>17. HolesTold'
  <2> SUFFICES ASSUME NEW r \in Streams
               PROVE  /\ hole'[r] => held'[r] = 0 /\ ~playing'[r]
                      /\ untold'[r] = Thread!Count(hole'[r]) + Thread!Count(unclassified'[r])
    BY DEF HolesTold, Thread!Count
  <2>1. CASE r = s
    <3>1. untold'[s] = Thread!Count(hole'[s]) + Thread!Count(unclassified'[s])
      BY <1>11, <1>13, <1>15
    <3>2. hole'[s] => held'[s] = 0 /\ ~playing'[s]
      <4>1. hole[s] => held[s] = 0 /\ ~playing[s]  BY DEF ConcealInv, HolesTold
      <4>2. CASE ok = 1  BY <1>9, <4>2
      <4>3. CASE ok = 0
        <5>1. (hole'[s] <=> hole[s]) /\ (held[s] = 0 => held'[s] = 0) /\ playing' = playing
          BY <1>9, <4>3
        <5>2. QED  BY <4>1, <5>1
      <4>4. QED  BY <1>3, <4>2, <4>3
    <3>3. QED  BY <2>1, <3>1, <3>2
  <2>2. CASE r # s
    BY <1>9, <1>11, <1>15, <2>2 DEF ConcealInv, HolesTold
  <2>3. QED  BY <2>1, <2>2
<1>18. QED  BY <1>8, <1>16, <1>17 DEF ConcealInv

\* A frame is decided on when one is left of the budget.
LEMMA Decisions ==
  ASSUME ConcealTypes, NEW s \in Streams
  PROVE  /\ Thread!Decision(s) \in {"Repriming", "LinkUnknown", "WithinGrace", "BufferHolds",
                                    "FadeToSilence", "Frame"}
         /\ Thread!Decision(s) = "Frame" => consecutive[s] < MAX_CONSECUTIVE
BY ConcealBounds DEF Thread!Decision, ConcealTypes

LEMMA ExamineKeeps ==
  ASSUME ConcealInv, NEW s \in Streams, Thread!Examine(s)
  PROVE  ConcealInv'
<1> DEFINE d == Thread!Decision(s)
<1>1. d \in {"Repriming", "LinkUnknown", "WithinGrace", "BufferHolds", "FadeToSilence", "Frame"}
      /\ (d = "Frame" => consecutive[s] < MAX_CONSECUTIVE)
  BY Decisions DEF ConcealInv
<1>2. /\ pc = "examine" /\ pc' = pc /\ inventing' = (IF Thread!Due(s) /\ d = "Frame" THEN s ELSE None)
      /\ CASE ~Thread!Due(s) \/ d = "Frame" ->
                UNCHANGED <<Thread!decodeVars, Thread!bufferVars, untold>>
           [] Thread!Due(s) /\ d \in {"Repriming", "FadeToSilence"} -> Thread!Disarm(s)
           [] Thread!Due(s) /\ d \in {"LinkUnknown", "WithinGrace", "BufferHolds"} -> Thread!Wait(s, d)
  BY DEF Thread!Examine
<1> HIDE DEF d
<1>3. UNCHANGED <<consecutive, unclassified, held, playing, hole, run, longest, untold>>
  <2>1. CASE ~Thread!Due(s) \/ d = "Frame"
    BY <1>2, <2>1 DEF Thread!decodeVars, Thread!bufferVars
  <2>2. CASE Thread!Due(s) /\ d \in {"Repriming", "FadeToSilence"}
    BY <1>2, <2>2 DEF Thread!Disarm, Thread!bufferVars
  <2>3. CASE Thread!Due(s) /\ d \in {"LinkUnknown", "WithinGrace", "BufferHolds"}
    <3>1. Thread!Wait(s, d)  BY <1>2, <2>3
    <3>2. QED  BY <3>1 DEF Thread!Wait, Thread!Disarm, Thread!bufferVars
  <2>4. QED  BY <1>1, <2>1, <2>2, <2>3
<1>4. CASE Thread!Due(s) /\ d = "Frame"
  BY <1>1, <1>2, <1>3, <1>4 DEF ConcealInv, ConcealTypes, OnBudget, HolesTold, Thread!Count
<1>5. CASE ~(Thread!Due(s) /\ d = "Frame")
  BY <1>2, <1>3, <1>5, ConcealBounds DEF ConcealInv, ConcealTypes, OnBudget, HolesTold, Thread!Count
<1>6. QED  BY <1>4, <1>5

\* A read happens while no frame is being invented.
LEMMA PacketReadKeeps ==
  ASSUME ConcealInv, NEW s \in Streams, Thread!Read(s), pc # "examine"
  PROVE  ConcealInv'
<1>1. UNCHANGED <<pc, inventing>>  BY DEF Thread!Read, Thread!threadVars
<1>2. inventing = None  BY DEF ConcealInv, ConcealTypes, OnBudget
<1>3. CASE Thread!Play(s, 0)  BY <1>1, <1>2, <1>3, PlayKeeps
<1>4. CASE \E missing \in 1 .. MaxGap : Thread!Play(s, missing)
  <2>1. PICK missing \in 1 .. MaxGap : Thread!Play(s, missing)  BY <1>4
  <2>2. missing \in Nat  BY <2>1, ConcealBounds
  <2>3. QED  BY <1>1, <1>2, <2>1, <2>2, PlayKeeps
<1>5. CASE Thread!Discard
  BY <1>1, <1>5, ConcealRests DEF Thread!Discard, Thread!decodeVars, Thread!bufferVars
<1>6. QED  BY <1>3, <1>4, <1>5 DEF Thread!Read

LEMMA ConcealSteps == ConcealInv /\ [Thread!Next]_Thread!vars => ConcealInv'
<1> SUFFICES ASSUME ConcealInv, [Thread!Next]_Thread!vars  PROVE ConcealInv'
  OBVIOUS
<1> USE ConcealRests DEF Thread!decodeVars, Thread!bufferVars, Thread!threadVars
<1>1. CASE \E s \in Streams : Thread!Arrive(s)  BY <1>1 DEF Thread!Arrive
<1>2. CASE \E s \in Streams : Thread!Pull(s)  BY <1>2, PullKeeps
<1>3. CASE Thread!Tick  BY <1>3 DEF Thread!Tick
<1>4. CASE \E s \in Streams : Thread!ReadNetwork(s)
  BY <1>4, PacketReadKeeps DEF Thread!ReadNetwork
<1>5. CASE \E s \in Streams : Thread!ReadAgain(s)
  BY <1>5, PacketReadKeeps DEF Thread!ReadAgain
<1>6. CASE \E s \in Streams : Thread!WouldBlock(s)  BY <1>6 DEF Thread!WouldBlock
<1>7. CASE \E s \in Streams : Thread!Examine(s)  BY <1>7, ExamineKeeps
<1>8. CASE \E s \in Streams : Thread!Invent(s)  BY <1>8, InventKeeps
<1>9. CASE Thread!Select
  <2>1. inventing' = inventing /\ pc = "network"  BY <1>9 DEF Thread!Select
  <2>2. \A s \in Streams : inventing # s  BY <2>1 DEF ConcealInv, OnBudget
  <2>3. QED  BY <1>9, <2>1, <2>2 DEF Thread!Select, ConcealInv, ConcealTypes, OnBudget, HolesTold, Thread!Count
<1>10. CASE Thread!BeginConceal
  BY <1>10 DEF Thread!BeginConceal, ConcealInv, ConcealTypes, OnBudget, HolesTold, Thread!Count
<1>11. CASE Thread!EndConceal
  BY <1>11, ConcealBounds DEF Thread!EndConceal, ConcealInv, ConcealTypes, OnBudget, HolesTold, Thread!Count
<1>12. CASE UNCHANGED Thread!vars  BY <1>12 DEF Thread!vars
<1>13. QED
  BY <1>1, <1>2, <1>3, <1>4, <1>5, <1>6, <1>7, <1>8, <1>9, <1>10, <1>11, <1>12
     DEF Thread!Next, Thread!Thread

\* At most MAX_CONSECUTIVE frames are invented before a packet takes its place, whatever
\* fills the gap (conceal.rs, the budget of RxCore), and every hole is classified once.
THEOREM InventionIsBounded == Thread!Spec => []Concealed
<1>1. ConcealInv => Concealed
  BY DEF ConcealInv, OnBudget, HolesTold, Concealed, Thread!InventionBounded, Thread!HolesAccounted
<1>2. QED  BY ConcealStarts, ConcealSteps, <1>1, PTL DEF Thread!Spec
=============================================================================
