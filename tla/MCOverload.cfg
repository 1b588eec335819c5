\* A cooldown of two seconds, nine seconds in all.
SPECIFICATION Spec
CONSTANTS
  PIPELINE_OVERLOAD_COOLDOWN = 2
  MaxClock = 9
INVARIANT OverloadTold
CHECK_DEADLOCK FALSE
