SPECIFICATION Spec
CONSTANTS
  Rows <- MCRows
  Props <- MCProps
  Works <- MCWorks
  Names = {"a", "b"}
  IsPst = TRUE
  Slots = {s1, s2}
  Loops = {l1}
  Ids = {1, 2, 3, 4}
  UlongMax = 15
  MaxFaults = 1
  None = None
INVARIANTS
  TypeOK
  CachedRight
  LoopsRight
  LoopsComplete
  AnswersRight
PROPERTIES
  LoopsEnd
