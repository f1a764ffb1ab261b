CONSTANTS
  k1 = k1
  k2 = k2
  t1 = t1
  t2 = t2
  Keys <- MCKeys
  Threads <- MCThreads
  NoThread = NoThread
  DiskFull = TRUE
  MaxRef = 3
SPECIFICATION Spec
INVARIANTS
  IInv
  CountsPositive
PROPERTIES
  OnlyItsCreatorCompletesAFile
  ContractSpec
