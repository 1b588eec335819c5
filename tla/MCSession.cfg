\* Two browsers, three messages and turns of their supervisors in all, on both kinds
\* of audio host; three losses, freezes and returns of devices, two tries of a repair.
SPECIFICATION MCSpec
CONSTANTS
  Connections = {c1, c2}
  Internal = {}
  None = None
  Messages = {"Hello", "StartCapture", "AddStream", "RemoveStream", "StartVoice", "StopVoice", "StartRecording", "Stop"}
  Hosts = {TRUE, FALSE}
  MaxMessages = 3
  MaxTurns = 2
  MaxSteps = 3
  SILENT_REBUILD_LIMIT = 2
  Attempts = 2
  MaxEvents = 3
CHECK_DEADLOCK FALSE
INVARIANTS OneClient EmptyHouse ToldTruth
PROPERTIES SessionLeftAlone NothingIsLost
