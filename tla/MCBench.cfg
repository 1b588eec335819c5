\* Two to three musicians, one with a voice, one who leaves and returns; two streams, on a
\* thread each or on one, with a relay or without; two campaigns of the second machine.
\* Rows: steps of two and three musicians and three seconds, one musician who leaves and
\* returns, one hole; tolerance of one hole or twice the noise; two links, five frames, spikes at most
\* two units apart.
SPECIFICATION MCSpec
CONSTANTS
  From = 2
  To = 3
  StepSecs = 2
  Voiced = {3}
  Absent = {2}
  SendsVoice = TRUE
  MaxLists = 2
  MaxReports = 1
  Streams = {s1, s2}
  Modes = {TRUE, FALSE}
  Relays = {TRUE, FALSE}
  MaxFrames = 2
  Campaigns = {c1, c2}
  NoCampaign = NoCampaign
  MaxCalls = 3
  MayVanish = TRUE
  RowSecs = 3
  Warmup = 1
  Away = {2}
  MaxHoles = 1
  MaxDeaf = 1
  MaxDelay = 1
  Series <- TwoScenarios
  NoiseRuns = 1
  Results <- TheirEnds
  MaxCampaigns = 2
  MaxChanges = 1
  Floor = 1
  Margin = 2
  Offset = 1
  Frame = 2
  Lookback = 4
  MaxGap = 2
  MaxTurn = 1
  Speech = {"instrument", "bursts"}
  MaxSent = 5
INVARIANTS RunIsTrue StreamsAccounted CampaignServed FiguresAreTrue VerdictIsEarned ScheduleIsKept
PROPERTY BenchEnds
\* A run, the campaigns and a schedule end.
CHECK_DEADLOCK FALSE
