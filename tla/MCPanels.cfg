SPECIFICATION FairSpec
CONSTANTS
  readiness = readiness
  undecorated = undecorated
  m1 = m1
  m2 = m2
  cost = cost
  sales = sales
  p1 = p1
  p2 = p2
  branch = branch
  product = product
  None = None
  Routes <- MCRoutes
  Health = readiness
  Undecorated = undecorated
  ReadRoles = {viewer}
  Users = {viewer, "none"}
  Limit = 1
  Metrics = {m1, m2}
  Kinds = {cost, sales}
  CostMap = cost
  Periods = {p1, p2}
  Products = {product}
  Branches = {branch}
  PageSize = 1
  TotalOf <- MCTotal
  MaxChanges = 2
  MaxFetches = 2
INVARIANTS
  PanelShowsItsControls
  RefusalIsFinal
  
PROPERTIES
  FetchSettles
CHECK_DEADLOCK FALSE
