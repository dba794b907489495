SPECIFICATION MCSpec
CONSTANTS
  p1 = p1
  p2 = p2
  Procs = {p1, p2}
  None = None
  Packages <- MCPackages
  Sessions <- MCSessions
  MaxDepth = 3
  Setups <- MCResumeReadWrite
  Images <- MCImages
  Bindings <- MCBindings
  Values <- MCValues
  Window = 16
  Align = 4
  MaxDevices = 2
  MaxExec = 2
INVARIANT HostGetsResults
CHECK_DEADLOCK FALSE
