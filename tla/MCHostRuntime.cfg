SPECIFICATION MCSpec
CONSTANTS
  upper = upper
  leaf = leaf
  child = child
  server = server
  stage0 = stage0
  switch = switch
  Main = Main
  None = None
  Task <- MCTask
  Parent <- MCParent
  Detached <- MCDetached
  Server <- MCServer
  NWorker = 2
  MaxYield = 1
  NInst = 2
  Depth = 1
  Want = 2
  Sequential = TRUE
INVARIANTS
  WaitCoversDescendants
  NoTaskStranded
  AbortIsJustified
PROPERTIES
  SchedulerProgress
  HostIsAnswered
CHECK_DEADLOCK FALSE
