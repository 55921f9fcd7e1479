SPECIFICATION Spec
CONSTANTS
  ApiTables = {"region", "city"}
  Retention = 1
  MaxDays = 2
INVARIANTS
  WipeBlockedExplained
  SeedStartsClean
  LastGoodStays
  RecentDumpsKept
  DumpsComplete
  
