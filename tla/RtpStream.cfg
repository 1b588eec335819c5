SPECIFICATION Spec
CONSTANTS
  SeqMod = 16
  MAX_DROPOUT = 6
  MAX_MISORDER = 4
  HISTORY_BITS = 5
  None = None
  FirstSlots = {13}
  Gaps = {1, 6, 12}
  Displacement = 2
  MAX_CONSECUTIVE = 1
  MaxSends = 6
  MaxCopies = 1
INVARIANTS NoSlotFilledTwice LossNeverOverstated FlowIsHeard
PROPERTIES PlayedInOrder VerdictExact
\* The run ends when its bounds on what is sent and added are spent.
CHECK_DEADLOCK FALSE
