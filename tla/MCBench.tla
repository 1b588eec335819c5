------------------------------- MODULE MCBench -------------------------------
(***************************************************************************)
(* The measuring bench in one run.  At work: the run itself and its link   *)
(* to the Audio Engine (BenchRun), the threads that send the streams of    *)
(* the simulated musicians (BenchStreams), the second machine of a bench   *)
(* on two (BenchCalls).  What it measures and says: the schedule of a      *)
(* simulated musician (BenchSchedule), the rows of a run and what is       *)
(* concluded from them (BenchReport), the campaigns and their verdicts     *)
(* (BenchCampaign).  The run knows of the streams that they are opened,    *)
(* started and retired, a campaign knows of a run the metrics it left:     *)
(* each is explored while the others rest, every interleaving within it    *)
(* included.  Campaigns are explored twice, over a series of two scenarios *)
(* with changes of devices, library and bench, and over one scenario with  *)
(* a noise campaign of two runs.                                           *)
(***************************************************************************)
EXTENDS BenchSeries

CONSTANTS Streams, Modes, Relays, MaxFrames
VARIABLES per_stream, relayed, stage, keyed, addressed, learned, punch, retired, asked, active, loop,
          todo, holding, stop, due, done, window, kept, read, quota, lost, late, left_at
CONSTANTS RowSecs, Warmup, Away, MaxHoles, MaxDeaf, MaxDelay
VARIABLES t, present, steps, step_end, playing, gone, count, truth, life, counts, peer_rows,
          machine_rows, deaf, over
CONSTANTS Offset, Frame, Lookback, MaxGap, MaxTurn, Speech, MaxSent
VARIABLES speech, seg, next_index, last_send, burst_bad, burst_left, burst_just_ended, windows, cursor,
          emitted, deferred, talking, period_end, frames_sent, fate

streamVars == <<per_stream, relayed, stage, keyed, addressed, learned, punch, retired, asked, active,
                loop, todo, holding, stop, due, done, window, kept, read, quota, lost, late, left_at>>
reportVars == <<t, present, steps, step_end, playing, gone, count, truth, life, counts, peer_rows,
                machine_rows, deaf, over>>
scheduleVars == <<speech, seg, next_index, last_send, burst_bad, burst_left, burst_just_ended, windows,
                  cursor, emitted, deferred, talking, period_end, frames_sent, fate>>

\* A link that loses, holds back and disorders, then one that loses at random.
Segment(from, losses, delay, burst, len, hold, depth, base) ==
  [from |-> from, losses |-> losses, delay |-> delay, burst |-> burst, len |-> len, hold |-> hold,
   depth |-> depth, base |-> base]
Profile == <<Segment(0, TRUE, 2, "fixed", 2, 2, 2, 1), Segment(7, FALSE, 1, "random", 1, 0, 1, 0)>>

Links    == INSTANCE BenchStreams
Figures  == INSTANCE BenchReport WITH measures <- counts, StepSecs <- RowSecs, musicians <- present
Schedule == INSTANCE BenchSchedule WITH Timeline <- Profile, MaxFrames <- MaxSent, out <- emitted,
                                        sent <- frames_sent
ASSUME MeasuringAssumption ==
  Links!StreamsConstants /\ Figures!ReportConstants /\ Schedule!ScheduleConstants

InRun   == part = "run"
InLinks == part = "links"
InCalls == part = "calls"
Parts == {"run", "links", "calls", "figures", "several", "noisy", "schedule"}
\* The choices of the beginning are those of the part explored only.
MCInit ==
  /\ part \in Parts /\ Init /\ Links!Init /\ Calls!Init
  /\ Figures!Init /\ Several!Init /\ Schedule!Init
  /\ ~InLinks => per_stream /\ relayed
  /\ part # "figures" => counts
  /\ part \notin {"several", "noisy"} => measures
  /\ part # "schedule" => speech = "instrument"
AtWork == /\ \/ InRun /\ Next /\ UNCHANGED <<streamVars, callVars>>
             \/ InLinks /\ Links!Next /\ UNCHANGED <<vars, callVars>>
             \/ InCalls /\ Calls!Next /\ UNCHANGED <<vars, streamVars>>
          /\ UNCHANGED <<reportVars, verdictVars, scheduleVars>>
Measuring == /\ \/ part = "figures" /\ Figures!Next /\ UNCHANGED <<verdictVars, scheduleVars>>
                \/ part = "several" /\ Several!Next /\ UNCHANGED <<reportVars, scheduleVars>>
                \/ part = "noisy" /\ Noisy!Next /\ UNCHANGED <<reportVars, scheduleVars>>
                \/ part = "schedule" /\ Schedule!Next /\ UNCHANGED <<reportVars, verdictVars>>
             /\ UNCHANGED <<vars, streamVars, callVars>>
MCNext == (AtWork \/ Measuring) /\ UNCHANGED part
mcVars == <<vars, streamVars, callVars, reportVars, verdictVars, scheduleVars, part>>

\* The fairness of each, where it is explored.
Fairness ==
  /\ WF_vars(InRun /\ Bench)
  /\ \A x \in Links!Threads : WF_streamVars(InLinks /\ Links!Loop(x))
  /\ WF_streamVars(InLinks /\ \E s \in Streams : Links!TakeLast(s) \/ Links!Joined(s))
  /\ WF_callVars(InCalls /\ Calls!Server)
  /\ \A c \in Campaigns : WF_callVars(InCalls /\ Calls!Campaign(c))
MCSpec == MCInit /\ [][MCNext]_mcVars /\ Fairness

\* Of the streams (server.rs:383, :114, relay.rs:257): each packet is counted in one
\* reading at most and lost to none but while its stream is retired; a stream that is
\* gone sends nothing more; the relay knows an address before the bench does.
StreamsAccounted == Links!CountedOnce /\ Links!NothingAfterLeaving /\ Links!RelayKnows
\* Whatever the Audio Engine answers or does not, the run ends, the threads of what it
\* retires and shuts down too, and the second machine lets go of a campaign that closed.
BenchEnds == (InRun => RunEnds) /\ Links!ThreadsEnd /\ Calls!MachineFreed
\* Of the rows (report.rs:388, run.rs:279): the increase of a count is never more than
\* the holes there were and exactly them unless the stream started again, a criterion
\* that holds saw none of them, and the steps found again in the files are those of the
\* run.
FiguresAreTrue == Figures!CountIsHonest /\ Figures!CriterionEarned /\ Figures!SameStepsLater
\* Of the schedule (profile.rs:138, :169, :596): the frames leave in the order of their
\* time, each once, none that was lost, one out of place right behind those it lets pass;
\* a fixed burst has exactly its length and two never touch; nothing is sent while the
\* link holds everything back.
ScheduleIsKept == /\ Schedule!EachOnceInTime /\ Schedule!RightBehind
                  /\ Schedule!FixedBurstsExact /\ Schedule!HeldBack
==============================================================================
