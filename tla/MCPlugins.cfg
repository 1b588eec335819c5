\* Two plugins, three scans, one update, one failure nobody caused; two connections
\* and two requests over a slot that may hold a plugin; two instances and three windows;
\* two Audio Units tried, three openings, two closings.
SPECIFICATION MCSpec
CONSTANTS
  Items = {a, b}
  MAX_SESSIONS = 2
  MaxScans = 3
  MaxUpdates = 1
  MaxFailures = 1
  MaxConns = 2
  MaxAsked = 2
  RemovedPumps = FALSE
  MaxInstances = 2
  MaxWindows = 3
  MaxEntries = 2
  MaxOpened = 3
  MaxClosed = 2
  MayTimeOut = TRUE
CHECK_DEADLOCK FALSE
INVARIANTS SlotIsTrue TornDownSafely WindowIsTrue Condemned
PROPERTIES CrashIsRemembered KeepsPromise
