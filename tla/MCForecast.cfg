SPECIFICATION Spec
CONSTANTS
  Pages = {p1, p2}
  Params = {a, b}
  NoParams = NoParams
  Retained = 1
  MaxRuns = 3
  Deletable = {p2}
  Screens = {p1}
  PageStep = 1
  MaxLimit = 2
SYMMETRY ScenarioSymmetry
INVARIANTS
  NewestRunsStay
  RetentionHolds
  ResultIsItsRun
  ScreenExplained
  
