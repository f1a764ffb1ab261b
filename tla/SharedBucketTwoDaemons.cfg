CONSTANTS
  k1 = k1
  k2 = k2
  t1 = t1
  t2 = t2
  h1 = h1
  h2 = h2
  Keys <- OneKey
  Threads <- MCThreads
  Hosts <- TwoHosts
  HostOf <- OnTwoHosts
  NoThread = NoThread
  MaxFaults = 0
  MaxRef = 2
  MaxCrashes = 0
SPECIFICATION Spec
INVARIANT CountIsReferencesHeld
CHECK_DEADLOCK FALSE
