\* Two peers and two settings of each kind; three cells of the musician's own strip,
\* one block in each.  Two tempi, two figures, blocks of three frames against beats of
\* four; a file of six frames, started up to six frames ahead.
SPECIFICATION MCSpec
CONSTANTS
  Peers = {p1, p2}
  Volumes = {v0, v1}
  Unity = v1
  Targets = {t1, t2}
  None = None
  MaxCells = 3
  MaxBlocks = 1
  Tempos = {0, 4}
  Figures = {1, 2}
  BLOCK = 3
  DURATION = 4
  Drift = 1
  MaxConfigs = 2
  MaxMoves = 2
  MaxFrames = 12
  BACKING_SNAP_FRAMES = 3
  FADE = 3
  CHUNK = 3
  MaxChunks = 2
  Lead = 6
INVARIANTS LostOnlyAtBirth NothingSecretWritten BeatsAndTrack
SYMMETRY Symmetry
