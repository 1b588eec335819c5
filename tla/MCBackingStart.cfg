\* A file of six frames, started six blocks ahead.
SPECIFICATION Spec
CONSTANTS
  BLOCK = 2
  BACKING_SNAP_FRAMES = 3
  FADE = 3
  CHUNK = 3
  MaxChunks = 2
  Lead = 12
INVARIANT StartsOnTime
