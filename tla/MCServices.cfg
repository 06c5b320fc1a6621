SPECIFICATION ServicesSpec
CONSTANTS
  BufSize = 12
  Step = 2
  Window = 4
  Chunks = {3, 5}
  MaxWritten = 30
  PipeDevices = 2
  MaxBatches = 2
  FreqCount = 2
  TagQueueLen = 3
  OffLimit = 1
  MaxTags = 8
  FileModes <- MCFileModes
  Second = 2
  Hour = 4
  split_min_file_time = 2
  split_max_file_time = 3
  split_max_idle_time = 1
  LastTick = 8
  MaxToggles = 3
  MaxLosses = 2
  Streams = {"s1", "s2"}
  TagValues = {"a", "b", ""}
  NoTitle = ""
  TagDelay = 2
  MaxTagChanges = 3
  QueueDepth = 2
  MaxRetries = 1
  MaxJobs = 4
  SocketQueue = 2
  MaxPackets = 4
  MaxRestarts = 2
  Files <- MCFiles
  MaxPpm = 2
  WaveRate = 1
INVARIANTS
  ServicesTypeOK
  WindowIntact
  FilesSound
PROPERTIES
  PipelineSound
  MetadataFollows
  IcecastSound
  TagsSound
  UploadsSound
  RemoteSound
  ConfigSound
CHECK_DEADLOCK FALSE
