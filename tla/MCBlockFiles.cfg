SPECIFICATION FairSpec
CONSTANTS
  t1 = t1  t2 = t2  t3 = t3  d1 = d1  d2 = d2
  Threads <- MCThreads
  Daemons <- MCDaemons
  DaemonOf <- MCDaemonOf
  LocksFail = TRUE
  Small = 1
  BlockSize = 2
  Slots = 3
  MaxSize = 5
  Calls <- MCCalls
INVARIANTS NothingLeftBehind IInv
PROPERTIES UpdatesAreCurrent ReadsAndWritesEnd HandlersMoveOn ShrinkEndsInDeath
