\* A peer seen before main registers the discovered callback is listed but never reported.
CONSTANTS
  n1 = n1  n2 = n2  n3 = n3
  Nodes = {n1, n2}
  Host <- MCHost
  Port <- MCPort
  Interval = 5
  Timeout = 30
  Faults = {}
SPECIFICATION Spec
INVARIANT DiscoveredPeersReported
CHECK_DEADLOCK FALSE
