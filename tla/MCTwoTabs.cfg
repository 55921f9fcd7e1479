SPECIFICATION Spec
CONSTANTS
  NoUser = NoUser
  Tabs = {w1, w2}
  Calls = {i1}
  Users = {u1}
  MaxTokens = 3
  MaxLost = 0
  MaxLogouts = 0
  MaxLoads = 2
  MaxStale = 0
SYMMETRY PageSymmetry
INVARIANTS
  TabsAreNoThieves
