SPECIFICATION MCSpec
CONSTANTS
  RingDepth = 2
  MaxPush = 4
  Words = {"lo", "hi"}
  Depth = 2
  Count = 4
  MaxGap = 2
  MaxStall = 2
  DrainLimit = 7
  IdleCycles = 4
  EarlyKernel = FALSE
  HoldsWrite = FALSE
  BeatDepth = 2
  StreamDepth = 1
  Want = 4
INVARIANTS
  PopsInOrder
  NoRace
  BeatsDelivered
  DrainedAtExit
  TokensDelivered
  ForwarderIsFaithful
PROPERTIES
  PromisesKept
  ImplementsFifo
  BenchDelivers
  ReaderIsAnswered
