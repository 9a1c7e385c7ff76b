SPECIFICATION Spec
CONSTANTS
  MaxSess = 2
  Ports = {0, 1}
  MaxOpens = 3
  MaxEnds = 1
  May = {"dotted", "name"}
CHECK_DEADLOCK FALSE
INVARIANT PortsDistinct
