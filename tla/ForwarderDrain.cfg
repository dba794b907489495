SPECIFICATION ForwarderSpec
CONSTANTS
  BeatDepth = 2
  StreamDepth = 1
  Want = 4
INVARIANT QueueDrained
CHECK_DEADLOCK FALSE
