SPECIFICATION Spec
CONSTANTS
  NoUser = NoUser
  Users = {u1}
  Roles = {"SUPERADMIN"}
  Callers = {c1, c2, c3}
  Managers = {}
  MaxTokens = 3
  MaxManaged = 0
  MaxAborts = 1
SYMMETRY CallerSymmetry
INVARIANTS
  TypeOK
  OneLivePerFamily
  ReplayRecognised
  FamilyTraceable
  OrphanOnlyAfterPrune
PROPERTIES
  ImplementsLineage
