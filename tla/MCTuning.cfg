SPECIFICATION TuningSpec
CONSTANTS
  None = None
  DeviceCount = 2
  Drivers <- MCDrivers
  Tunable = {0}
  Freqs = {100, 200}
  Rates = {24, 32}
  StartFreq = 100
  StartRate = 24
  MaxChannels = 2
  MaxRequests = 2
  MaxFaults = 2
  MaxLate = 1
  Voters = {"a", "b"}
  Needs <- MCNeeds
  max_ppm = 6
  max_step = 3
  min_voters = 1
  HardLimit = 6
  Corrections <- MCCorrections
  NoOrder = NoOrder
  MaxPpmEvents = 1
INVARIANTS
  TuningTypeOK
  BinsMatchHardware
  HandleSafe
PROPERTIES
  ClientToldTruth
  ExitsWhenAllFailed
  AutoPpmSound
CHECK_DEADLOCK FALSE
