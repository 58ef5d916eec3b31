\* Eviction, the self-echo guard and mutual discovery under datagram loss, two nodes on one host.
CONSTANTS
  n1 = n1  n2 = n2  n3 = n3
  Nodes = {n1, n3}
  Host <- MCHost
  Port <- MCPort
  Interval = 5
  Timeout = 30
  Faults = {"loss"}
SPECIFICATION Spec
INVARIANT TypeOK NoSelfDiscovery StaleEntriesEvicted
PROPERTY EveryLivePeerListed DirectoryRefined
CHECK_DEADLOCK FALSE
