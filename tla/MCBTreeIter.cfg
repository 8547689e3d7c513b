\* Two iterators, trees of at most three levels and seven keys.
SPECIFICATION Spec
CONSTANTS
  Nodes <- MCNodes
  Roots <- MCRoots
  Leaves <- MCLeaves
  Key <- MCKey
  Kid <- MCKid
  Under <- MCUnder
  UintMax = 7
  Iters = {i1, i2}
  NULL = NULL
  End = End
  None = None
INVARIANTS
  TypeOK
  Linked
  EqualIffSamePosition
PROPERTIES
  IsCursor
