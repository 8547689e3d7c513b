SPECIFICATION Spec
CONSTANTS
  Builds = {"NONE", "WEAK"}
  Store <- MCStore
  Slots = {s1}
  Sizes <- MCSizes
  None = None
INVARIANTS
  LevelsRight
  OpenedRight
  AnswersRight
