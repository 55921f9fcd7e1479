SPECIFICATION FairSpec
CONSTANTS
  NoUser = NoUser
  Tabs = {w1}
  Calls = {i1, i2}
  Users = {u1, u2}
  MaxTokens = 3
  MaxLost = 1
  MaxLogouts = 1
  MaxLoads = 1
  MaxStale = 1

  
  
PROPERTIES
  Settles
