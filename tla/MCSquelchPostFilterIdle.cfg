SPECIFICATION Spec
CONSTANTS
  OpenDelay = 4
  CloseDelay = 4
  LowSignalAbort = 2
  BufferSize = 3
  RecentSampleSize = 5
  FlapOpensThreshold = 2
  FastWindow = 2
  SlowWindow = 5
PROPERTY PostFilterIdle
