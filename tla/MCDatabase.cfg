SPECIFICATION Spec
CONSTANTS
  Builds = {"NONE", "WEAK", "FULL"}
  Stores <- MCStores
  Roots <- MCRoots
  PageAt <- MCPageAt
  BlockAt <- MCBlockAt
  Bids <- MCBids
  Absent = 44
  Header = Header
  Eof <- MCEof
  Elsewhere <- MCElsewhere
  Rotten = Rotten
  None = None
INVARIANTS
  TypeOK
  OpensRight
  CachedRight
  AnswersRight
