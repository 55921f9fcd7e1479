SPECIFICATION FairSpec
CONSTANTS
  NoUser = NoUser
  Users = {u1}
  Roles = {"SUPERADMIN"}
  Callers = {c1, c2}
  Managers = {m1}
  MaxTokens = 3
  MaxManaged = 1
  MaxAborts = 0
PROPERTIES
  RevocationTakesEffect
