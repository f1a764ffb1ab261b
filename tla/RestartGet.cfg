CONSTANTS
  k1 = k1
  k2 = k2
  t1 = t1
  t2 = t2
  Keys <- OneKey
  Threads <- TwoThreads
  t3 = t3
  NoThread = NoThread
  Daemon = Daemon
  DiskFull = FALSE
  MaxFaults = 0
  MaxCrashes = 1
  MaxRef = 1
SPECIFICATION Spec
INVARIANT ReferencedBlockIsFound
CHECK_DEADLOCK FALSE
