\* The program reads on where a failed seek has left the stream.
SPECIFICATION Spec
CONSTANTS
  Nodes <- MCNodes
  Level <- MCLevel
  Size <- MCSize
  PageMax = 2
  MaxCount = 2
  UintMax = 63
  Streams = {s1}
  Counts <- MCCounts
  Offsets <- MCOffsets
  PageNums <- MCPageNums
  MayFail <- MCMayFail
  Careful = FALSE
  Lost = Lost
  Stray = Stray
  None = None
  big = big
  empty = empty
INVARIANTS
  AssertedOffset
