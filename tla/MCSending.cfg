\* Two captures and two blocks over a channel of two, with and without ASIO; two
\* talkbacks, a tap of one block; two recordings of two stems, four blocks, frames of two.
SPECIFICATION MCSpec
CONSTANTS
  Hosts = {TRUE, FALSE}
  CHANNEL_CAPACITY = 2
  STAGE_CHANNEL_CAPACITY = 1
  MaxCaptures = 2
  MaxBlocks = 2
  VOICE_TAP_MAX = 1
  CTRL = 2
  MaxVoices = 2
  NumRecordings = 2
  Stems = {"self", "mix"}
  QueueSize = 2
  FrameBlocks = 2
  PACKETS_PER_PAGE = 2
  MaxSegments = 3
  Sizes = {1, 2}
  MaxTaken = 4
INVARIANTS SentInOrder FreshSound OneVoice FilesAreWhole
PROPERTY AllFlows
CHECK_DEADLOCK FALSE
