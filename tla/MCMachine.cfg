\* Two attempts of a repair; two windows under pressure, two clients and two openings that
\* fail; two loops of measures and one operation on the plugin.
SPECIFICATION MCSpec
CONSTANTS
  Attempts = 2
  EscalateAt = 2
  MaxConnections = 2
  MaxFailures = 2
  Loops = {c1, c2}
  MaxOps = 1
INVARIANTS DriverHandled HostIsTrue JudgedFresh
PROPERTIES MachineServes
\* The clients, the operations and the attempts end.
CHECK_DEADLOCK FALSE
