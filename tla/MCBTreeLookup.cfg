\* Nodes of up to seven keys, positions of four bits.
SPECIFICATION LookupSpec
CONSTANTS
  Nodes <- MCNodes
  Roots <- MCRoots
  Leaves <- MCLeaves
  Key <- MCKey
  Kid <- MCKid
  Under <- MCUnder
  UintMax = 15
  Asked <- MCAsked
  None = None
INVARIANTS
  LookupTypeOK
  Window
  Floor
  OnPath
PROPERTIES
  AnswersRight
  Answered
