\* Batches, requests and a remote input: one channel and one sender, no reserve, one output thread for all.
SPECIFICATION FairSpec
CONSTANTS
  c1 = c1
  NoChan = NoChan
  Remote = Remote
  Chan = {c1}
  StartChan = {c1}
  Remotes = 1
  ReserveInputs = 0
  Requests = {0, 1}
  MultipleOutputThreads = FALSE
PROPERTIES InputEventuallyTaken MixerKeepsEmitting BatchEventuallyDelivered
CHECK_DEADLOCK FALSE
