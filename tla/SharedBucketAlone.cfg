CONSTANTS
  k1 = k1
  k2 = k2
  t1 = t1
  t2 = t2
  h1 = h1
  h2 = h2
  Keys <- TwoKeys
  Threads <- MCThreads
  Hosts <- OneHost
  HostOf <- OnOneHost
  NoThread = NoThread
  MaxFaults = 0
  MaxRef = 2
  MaxCrashes = 1
SPECIFICATION Spec
INVARIANTS
  CountReadIsCurrent
  CountIsReferencesHeld
PROPERTY ContractSpec
CHECK_DEADLOCK FALSE
