CONSTANTS
  t1 = t1
  t2 = t2
  t3 = t3
  t4 = t4
  k1 = k1
  k2 = k2
  Threads <- MCThreads
  Keys <- MCKeys
  NoThread = NoThread
  MaxRef = 3
SPECIFICATION MemorySpec
INVARIANTS
  OwnerIsNotOutside
  NoDeadEntry
PROPERTY ContractSpec
