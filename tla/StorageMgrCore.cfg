CONSTANTS
  k1 = k1
  k2 = k2
  t1 = t1
  t2 = t2
  Keys <- TwoKeys
  Threads <- TwoThreads
  t3 = t3
  NoThread = NoThread
  Daemon = Daemon
  DiskFull = FALSE
  MaxFaults = 0
  MaxCrashes = 0
  MaxRef = 2
SPECIFICATION FairSpec
INVARIANTS
  TiersAgree
  NoAssertFails
  ReferencedBlockIsFound
PROPERTY LockIsReleased
