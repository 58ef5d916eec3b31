\* Two hosts whose nodes both use the default port 8080 never discover each other.
CONSTANTS
  n1 = n1  n2 = n2  n3 = n3
  Nodes = {n1, n2}
  Host <- MCHost
  Port <- MCPortDefault
  Interval = 5
  Timeout = 30
  Faults = {}
SPECIFICATION Spec
PROPERTY EveryLivePeerListed
CHECK_DEADLOCK FALSE
