\* The tables, the bag and the heap of MCPropertyStreams.
SPECIFICATION PSSpec
CONSTANTS
  PageMap <- MCPageMap
  PageMax = 100
  Subnodes <- MCSubnodes
  SubnodeSize <- MCSubnodeSize
  SubnodeAt <- MCSubnodeAt
  UintMax = 127
  None = None
  BagProps <- MCBagProps
  Tables <- MCTables
  Columns <- MCColumns
  ExistsStart = 23
  RowSize = 25
  RowPage = 55
  Props <- MCProps
  RowIds <- MCRowIds
  Stale = 170
  Asks <- MCAsks
  Asked <- MCAsked
  Beyond <- MCBeyond
  Streams = {s1}
  Counts <- MCCounts
  Offsets <- MCOffsets
  Lost = Lost
INVARIANTS
  AnswersRight
  SizeRight
PROPERTIES
  IsByteStore
