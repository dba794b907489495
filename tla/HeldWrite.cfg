SPECIFICATION Spec
CONSTANTS
  Depth = 2
  Count = 4
  MaxGap = 2
  MaxStall = 2
  DrainLimit = 7
  IdleCycles = 4
  EarlyKernel = FALSE
  HoldsWrite = TRUE
INVARIANT HeldBeatsMoveOnce
CHECK_DEADLOCK FALSE
