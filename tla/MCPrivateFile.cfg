\* What the buffer still holds when private is left.
SPECIFICATION Spec
CONSTANTS
  MaxCells = 3
  MaxBlocks = 1
INVARIANT NothingPrivateMixed
