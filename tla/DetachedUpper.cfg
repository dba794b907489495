SPECIFICATION MCSpec
CONSTANTS
  upper = upper
  leaf = leaf
  child = child
  server = server
  stage0 = stage0
  switch = switch
  Main = Main
  None = None
  Task <- MCTaskD
  Parent <- MCParentD
  Detached <- MCDetachedD
  Server <- MCServerD
  NWorker = 2
  MaxYield = 1
  NInst = 1
  Depth = 1
  Want = 1
  Sequential = TRUE
PROPERTY SchedulerCompletes
CHECK_DEADLOCK FALSE
