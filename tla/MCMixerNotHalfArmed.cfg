SPECIFICATION Spec
CONSTANTS
  c1 = c1
  NoChan = NoChan
  Remote = Remote
  Chan = {c1}
  StartChan = {c1}
  Remotes = 1
  ReserveInputs = 0
  Requests = {0, 1}
  MultipleOutputThreads = TRUE
INVARIANT NotHalfArmed
CHECK_DEADLOCK FALSE
