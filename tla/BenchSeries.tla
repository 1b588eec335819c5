----------------------------- MODULE BenchSeries -----------------------------
(***************************************************************************)
(* A series of the bench, of what its conclusions rest on: the run itself  *)
(* and its link to the Audio Engine (BenchRun), the second machine of a    *)
(* bench on two (BenchCalls), the campaigns and their verdicts             *)
(* (BenchCampaign).  A campaign knows of a run the metrics it left, and    *)
(* the second machine knows of neither: each is explored by itself         *)
(* (MCBench).  Campaigns are explored twice, over a series of two          *)
(* scenarios with changes of devices, library and bench, and over one      *)
(* scenario with a noise campaign of two runs.                             *)
(***************************************************************************)
EXTENDS BenchRun

CONSTANTS Campaigns, NoCampaign, MaxCalls, MayVanish
VARIABLES client, calls, waiting, answers, requests, replies, backlog, serving, opened
CONSTANTS Series, NoiseRuns, Results, MaxCampaigns, MaxChanges, Floor, Margin
VARIABLES campaigns, running, reference, tolerances, said, setup, library, measures, changes
VARIABLE part  \* the one that is explored

callVars    == <<client, calls, waiting, answers, requests, replies, backlog, serving, opened>>
verdictVars == <<campaigns, running, reference, tolerances, said, setup, library, measures, changes>>

\* How a scenario may end.
Ending(status, holes, fails, precise) ==
  [status |-> status, streams |-> [s \in {"stream"} |-> holes], fails |-> fails, precise |-> precise]
Good    == Ending("complete", 0, FALSE, TRUE)
Holes   == Ending("complete", 2, FALSE, TRUE)
Blurred == Ending("complete", 0, TRUE, FALSE)
Stopped == Ending("stopped", 0, FALSE, TRUE)
Broken  == [status |-> "failed", streams |-> <<>>, fails |-> FALSE, precise |-> FALSE]

\* Two scenarios, and the ends each may have.
TwoScenarios == <<"x", "y">>
TheirEnds    == [x |-> {Good, Holes, Blurred, Stopped}, y |-> {Good, Broken}]

Calls   == INSTANCE BenchCalls
Several == INSTANCE BenchCampaign
Noisy   == INSTANCE BenchCampaign
             WITH Series <- <<"x">>, NoiseRuns <- 2, MaxCampaigns <- 3, MaxChanges <- 0,
                  Results <- [x |-> {Good, Holes, Stopped}]
ASSUME BenchAssumption ==
  /\ BenchConstants /\ Calls!CallsConstants
  /\ Several!CampaignConstants /\ Noisy!CampaignConstants

\* Of the second machine (remote.rs:97): each answer is to the command just sent, and
\* nothing of a campaign is served within another's.
CampaignServed == Calls!AnswersMatch /\ Calls!OneCampaign
\* Of the campaigns (campaign.rs:483): "no regression" is written only of what was run,
\* under the conditions of the reference, and compared.
VerdictIsEarned == IF part = "noisy" THEN Noisy!VerdictIsEarned ELSE Several!VerdictIsEarned
=============================================================================
