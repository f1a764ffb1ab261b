CONSTANTS
  k1 = k1
  k2 = k2
  t1 = t1
  t2 = t2
  Keys <- OneKey
  Threads <- ThreeThreads
  t3 = t3
  NoThread = NoThread
  Daemon = Daemon
  DiskFull = TRUE
  MaxFaults = 1
  MaxCrashes = 2
  MaxRef = 2
SPECIFICATION Spec
INVARIANTS
  IInv
  MemNotAhead
  DiskDereferenceSafe
  DriftBounded
  BlocksSurvive
PROPERTIES
  StoreSpec
  TiersSpec
SYMMETRY Symmetry
CHECK_DEADLOCK FALSE
