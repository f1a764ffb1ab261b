CONSTANTS
  k1 = k1
  k2 = k2
  t1 = t1
  t2 = t2
  h1 = h1
  h2 = h2
  Keys <- OneKey
  Threads <- MCThreads
  Hosts <- TwoHosts
  HostOf <- OnTwoHosts
  NoThread = NoThread
  MaxFaults = 1
  MaxRef = 1
  MaxCrashes = 1
SPECIFICATION Spec
INVARIANTS
  BadBodyIsNegative
CHECK_DEADLOCK FALSE
