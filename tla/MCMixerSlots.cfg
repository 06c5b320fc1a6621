\* Slot reuse, growth and the all-inputs-died race: two channels, one of them appended live.
SPECIFICATION Spec
CONSTANTS
  c1 = c1
  c2 = c2
  NoChan = NoChan
  Remote = Remote
  Chan = {c1, c2}
  StartChan = {c1}
  Remotes = 0
  ReserveInputs = 1
  Requests = {}
  MultipleOutputThreads = TRUE
INVARIANTS TypeOK SlotSafety NoForeignAudio NoLostContribution SlotsNotBurned
PROPERTY NoTornBatch
\* Every slot may be leaked and every channel removed: then nothing is left to do.
CHECK_DEADLOCK FALSE
