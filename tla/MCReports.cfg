SPECIFICATION SalesSpec
CONSTANTS
  Branches = {1, 2, 3}
  Cashiers = {1, 2, 3}
  Customers = {1, 2, 3, 4}
  Products = {1, 2, 3}
  Years = {0, 1, 2}
  CityOf <- ShopCityOf
  RegionOf <- ShopRegionOf
  BrandOf <- ShopBrandOf
  CategoryOf <- ShopCategoryOf
  UnitPrice <- ShopUnitPrice
  UnitCost <- ShopUnitCost
  Visits <- ShopVisits
  DaysPerMonth = 2
  MonthsPerYear = 2
  DaysPerWeek = 3
  Today = 4
  MaxDay = 6
  MaxReceipts = 3
  MaxLines = 3
  MaxQuantity = 1
  Periods = {1, 2, 3}
  DailyDays = 2
  BasketTiers <- ShopBasketTiers
  VisitTiers <- ShopVisitTiers
  Located = {1, 3}
  Asked <- ShopAsked
  Filters <- ShopFilters
  AbcDays = {2, 4}
  Horizon = 4
  Rows = 2
  MinObservations = 2
  Horizons = {1, 2}
  Fitted <- ShopFitted
  Simulations <- ShopSimulations
INVARIANTS
  
  WindowsPartition
  PagesCoverReceipts
  CatalogFiguresHold
  
  ForecastHolds
CHECK_DEADLOCK FALSE
