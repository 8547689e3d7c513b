\* One stream over two nodes, blocks of two bytes or two children.
SPECIFICATION Spec
CONSTANTS
  Nodes <- MCNodes
  Level <- MCLevel
  Size <- MCSize
  PageMax = 2
  MaxCount = 2
  UintMax = 63
  Streams = {s1}
  Counts <- MCCounts
  Offsets <- MCOffsets
  PageNums <- MCPageNums
  MayFail <- MCMayFail
  Careful = TRUE
  Lost = Lost
  Stray = Stray
  None = None
  big = big
  empty = empty
INVARIANTS
  TypeOK
  BufferInStep
PROPERTIES
  IsByteStore
  Answered
