SPECIFICATION Spec
CONSTANTS
  CR = CR
  LF = LF
  ESC = ESC
  Query = Query
  X = X
  Streams <- WithOneQuery
  StreamLen = 4
  OutMax = 3
  InMax = 2
  BlockSize = 2
  SendLen = 1
  MaxKeys = 1
INVARIANT DisplayedInOrder
CHECK_DEADLOCK FALSE
