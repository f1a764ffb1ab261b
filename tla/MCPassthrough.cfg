CONSTANTS
  a = a
  b = b
  x = x
  y = y
  i1 = i1
  i2 = i2
  i3 = i3
  h1 = h1
  h2 = h2
  t1 = t1
  t2 = t2
  d1 = d1
  Names <- MCNames
  Hidden <- MCHidden
  Inodes <- MCInodes
  NoInode = NoInode
  Data <- MCData
  Blank = Blank
  Handles <- MCHandles
  Threads <- MCThreads
  NoName = NoName
  NoHandle = NoHandle
SPECIFICATION Spec
INVARIANTS
  IInv
  HandlesReachTheirFiles
  DescriptorsAreOfRunningHandlers
PROPERTY OpenFilesSpec
SYMMETRY Symmetry
