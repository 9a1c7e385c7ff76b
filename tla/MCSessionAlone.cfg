SPECIFICATION FairSpec
CONSTANTS
  MaxSess = 1
  Ports = {0, 1}
  MaxOpens = 3
  MaxEnds = 2
  May = {"dotted", "close", "name", "dns", "stream", "thread", "context", "dialog", "corpse"}
CHECK_DEADLOCK FALSE
INVARIANT WindowsCounted
INVARIANT NoOrphan
INVARIANT StreamsMatch
PROPERTY CallsReturn
PROPERTY SessionsClose
