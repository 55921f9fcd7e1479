SPECIFICATION Spec
CONSTANTS
  Names = {x, y}
  Plates = {p, q}
  Blank = Blank
  PageSize = 1
  MaxId = 2
  MaxWrites = 2
  Users = {u1, u2, me}
  Self = me
  NoUser = NoUser
SYMMETRY AdminSymmetry
INVARIANTS
  
  
  PasswordExplained

  
