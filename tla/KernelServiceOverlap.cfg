SPECIFICATION ServiceSpec
CONSTANTS
  NInst = 2
  Depth = 1
  Want = 1
  Sequential = FALSE
INVARIANTS
  AbortIsJustified
CHECK_DEADLOCK FALSE
