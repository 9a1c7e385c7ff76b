SPECIFICATION Spec
CONSTANTS
  MaxSess = 2
  Ports = {0, 1, 2}
  MaxOpens = 2
  MaxEnds = 1
  May <- Anything
CHECK_DEADLOCK FALSE
INVARIANT TypeOK
INVARIANT ThreadIsOwn
INVARIANT NestingBounded
