CONSTANTS
  BlockSize = 4
  LengthSize = 2
  Word = 32
  Bytes <- MCBytes
  MaxBytes = 7
  MaxBlocks = 3
  ChunkBlocks = 2
  CtxMaxBytes = 40
  Messages <- MCMessages
  Known <- MCKnown
SPECIFICATION MCSpec
INVARIANTS
  DigestIsOfMessage
  CountIsExact
  ContextDigestIsOfMessage
  BufferNotOverrun
  BytesAccounted
  SameRegisters
  KnownDigest
PROPERTY DigestIsFrozen
CHECK_DEADLOCK FALSE
