SPECIFICATION Spec
CONSTANTS
  NoUser = NoUser
  Users = {u1, u2}
  Roles = {"SUPERADMIN", "ADMIN"}
  Callers = {c1}
  Managers = {m1}
  MaxTokens = 2
  MaxManaged = 3
  MaxAborts = 1
SYMMETRY AccountSymmetry
INVARIANTS
  StaleSessionsExplained
  
