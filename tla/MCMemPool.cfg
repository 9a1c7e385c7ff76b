SPECIFICATION Spec
CONSTANTS
  H = 2
  PoolSize = 11
  Wanted = {1, 2, 4, 10, 14}
  MaxPools = 2
INVARIANT TypeOK
INVARIANT BlocksTile
INVARIANT FreeListIsTidy
INVARIANT AssertsHold
