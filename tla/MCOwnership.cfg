SPECIFICATION Spec
CONSTANTS
  Ids = {o1, o2, o3, o4, o5, o6, o7, o8}
  Vars = {v1, v2}
  Tops = {"heap", "bag", "table"}
  None = None
  Expired = Expired
  Dangling = Dangling
SYMMETRY Symmetry
INVARIANTS
  TypeOK
  NothingLeaks
  IndependantObjectsWork
  IteratorsStayValid
