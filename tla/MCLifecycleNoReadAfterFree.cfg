SPECIFICATION Spec
CONSTANTS
  a = a
  b = b
  x = x
  y = y
  None = None
  Capacity = 2
  Good = {a, b}
  Bad = {x}
  Legacy = {y}
  Files <- MCFiles
  StartFile <- MCStart
  MaxBlock = 4
  Reader = {"stats"}
  MaxTimeOut = 1
INVARIANT NoReadAfterFree
CHECK_DEADLOCK FALSE
