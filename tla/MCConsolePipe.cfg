SPECIFICATION FairSpec
CONSTANTS
  CR = CR
  LF = LF
  ESC = ESC
  Query = Query
  X = X
  Streams <- TextThenQuery
  StreamLen = 3
  OutMax = 3
  InMax = 2
  BlockSize = 2
  SendLen = 3
  MaxKeys = 1
INVARIANT TypeOK
INVARIANT DisplayedInOrder
INVARIANT NoBareLineEnds
INVARIANT InputConserved
PROPERTY AllDelivered
CHECK_DEADLOCK FALSE
