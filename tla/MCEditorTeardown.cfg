\* Two instances and three windows.
SPECIFICATION Spec
CONSTANTS
  RemovedPumps = FALSE
  MaxInstances = 2
  MaxWindows = 3
INVARIANT RemovedBeforeTerminate
CHECK_DEADLOCK FALSE
