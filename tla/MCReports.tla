----------------------------- MODULE MCReports -----------------------------
\* A small shop: three branches in three cities of two regions, three products
\* of which one is sold below its cost, four customers of whom one never
\* comes, months of two days and years of two months.
EXTENDS Reports, DecisionSupport, ForecastModel

ShopCityOf == <<1, 2, 3>>
ShopRegionOf == <<1, 2, 2>>
ShopBrandOf == <<1, 1, 2>>
ShopCategoryOf == <<1, 2, 2>>
ShopUnitPrice == [k \in Products \X Years |-> <<15, 4, 1>>[k[1]] + k[2]]
ShopUnitCost == [k \in Products \X (1..2) \X Years |-> <<9, 3, 2>>[k[1]] + k[2] + k[3]]

Visit(b, k, c, d, h) == [branch |-> b, cashier |-> k, customer |-> c, day |-> d, hour |-> h]
ShopVisits == {Visit(1, 1, 1, 0, 9), Visit(1, 1, 3, 3, 9), Visit(2, 2, 2, 4, 9), Visit(3, 3, 1, 5, 10)}

ShopBasketTiers == <<3, 6, 17>>
ShopVisitTiers == <<2, 3, 4>>

ShopAsked == {<<"sales", "orders">>, <<"profit", "cost", "profit">>, <<"quantity">>}
Filter(from, to, b, k, c) ==
  [from |-> from, to |-> to, branch |-> b, cashier |-> k, customer |-> c]
ShopFilters == {Filter(None, None, None, None, None), Filter(3, 4, None, None, None),
                Filter(None, 5, 1, None, None), Filter(0, None, None, None, 1)}

ShopSimulations == {[discount |-> d, cost |-> c, power |-> w] : d \in {0, 9}, c \in {0, 20}, w \in {-9, 0}}
ShopFitted == {[quantity |-> 0, sales |-> 0, cost |-> 0], [quantity |-> 2, sales |-> 30, cost |-> 35]}
=============================================================================
