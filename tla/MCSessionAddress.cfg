SPECIFICATION Spec
CONSTANTS
  MaxSess = 1
  Ports = {0}
  MaxOpens = 2
  MaxEnds = 0
  May = {"name", "cancel"}
CHECK_DEADLOCK FALSE
INVARIANT HostGetsItsAddress
