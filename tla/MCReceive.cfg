\* A network stream or the self-monitor under every interleaving of the three threads;
\* one stream of the receive thread, with a decoder that may fail, falling silent after
\* its last packet; two streams and two generations under commands, errors, pauses and a
\* wait that may fail.
SPECIFICATION MCSpec
CONSTANTS
  CAPACITY = 14
  MIN_TARGET = 1
  MAX_TARGET = 4
  INITIAL_TARGET = 2
  LOCAL_MIN_TARGET = 1
  LOCAL_MAX_TARGET = 3
  SELF_MONITOR_TARGET = 1
  DRIFT_DRAIN_FACTOR = 3
  GROW = 2
  LOCAL_SHRINK = 1
  GLITCH_STEP = 1
  GLITCH_MAX = 2
  GLITCH_CALM_PULLS = 2
  LATE_STEP = 1
  LATE_MAX = 2
  PRESSURE_STEP = 4
  PRESSURE_MAX = 8
  PRESSURE_CALM = 2
  PRESSURE_LEAK = 2
  RECOVER_PULLS = 2
  Frames = {2}
  Slack = 1
  Blocks = {1, 3}
  Floors = {1, 4}
  Choices = {1, 4}
  HeldPulls = 2
  Streams = {s1}
  None = None
  FRAME = 2
  STALE = 4
  MAX_CONSECUTIVE = 2
  PLC_MAX_GAP = 3
  Tails = {1}
  BLOCK = 1
  WAKE_SLACK = 1
  TARGET = 3
  STREAM_CAPACITY = 6
  MaxGap = 4
  MaxPackets = 4
  DecodeMayFail = TRUE
  Producers = {p1, p2}
  MAX_RECV_STREAMS = 2
  PollMayFail = TRUE
  MaxEpoch = 2
  MaxSent = 2
  MaxErrors = 2
INVARIANTS OneHoleAtATime TargetCovers Concealed NoGhost
PROPERTY AllServed
\* What is sent and added to the thread is bounded.
CHECK_DEADLOCK FALSE
