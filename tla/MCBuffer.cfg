CONSTANTS
  CheapPrepend = 2
  InitialSize = 1
  Byte = {0, 1}
  MaxChunk = 3
  Chunks <- MCChunks
  Lossy <- MCLossy
  MaxReadable = 3
SPECIFICATION Spec
INVARIANTS
  TypeOK
  AssertsHold
PROPERTIES
  ImplementsQueue
