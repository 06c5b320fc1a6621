SPECIFICATION FairSpec
CONSTANTS
  a = a
  b = b
  x = x
  y = y
  None = None
  Capacity = 2
  Good = {a, b}
  Bad = {x}
  Legacy = {y}
  Files <- MCFiles
  StartFile <- MCStart
  MaxBlock = 4
  Reader = {"stats"}
  MaxTimeOut = 1
INVARIANTS TypeOK EncoderPresentOnTime NoReadAfterFreeOnTime FreedOnceOnTime PublishedIsParsed
PROPERTIES RemovedWhenTornDown ReloadConverges RequestsServed
\* A behaviour may use up MaxBlock and MaxTimeOut.
CHECK_DEADLOCK FALSE
