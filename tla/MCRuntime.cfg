SPECIFICATION MCSpec
CONSTANTS
  p1 = p1
  p2 = p2
  Procs = {p1, p2}
  None = None
  Packages <- MCPackages
  Sessions <- MCSessions
  MaxDepth = 3
  Setups <- MCSetups
  Images <- MCImages
  Bindings <- MCBindings
  Values <- MCValues
  Window = 16
  Align = 4
  MaxDevices = 2
  MaxExec = 2
INVARIANTS KernelGetsItsArguments SegmentsAreAccountedFor RtlIsFaithful
  RunEndsTruthfully ResourcesOutliveUse GraphStartsOver LaunchSeesArguments AnswersAreTrue
PROPERTIES EveryBuildEnds NoCopyWhileLive InstanceReturns
CHECK_DEADLOCK FALSE
