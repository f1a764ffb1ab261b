CONSTANTS
  k1 = k1
  k2 = k2
  t1 = t1
  t2 = t2
  Keys <- OneKey
  Threads <- MCThreads
  NoThread = NoThread
  DiskFull = FALSE
  MaxRef = 2
SPECIFICATION Spec
INVARIANT FilesAreReadable
