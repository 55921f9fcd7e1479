----------------------------- MODULE SalesFacts -----------------------------
(***************************************************************************)
(* The sales tables every report reads, as the demo script fills them row  *)
(* by row while the days pass, and the vocabulary the queries share        *)
(* (sales.sql.ts): what a metric, a time bucket and a breakdown are.       *)
(***************************************************************************)
EXTENDS Integers, Sequences, FiniteSets, FiniteSetsExt, SequencesExt

CONSTANTS
  Branches, Cashiers, Customers, Products, Years,  \* the master data, ids
  CityOf, RegionOf,      \* branch -> city, city -> region
  BrandOf, CategoryOf,   \* product -> brand, category (of its subcategory)
  UnitPrice, UnitCost,   \* <<product, year>>, <<product, region, year>> -> money
  Visits,                \* bound: the receipts that may be written
  DaysPerMonth, MonthsPerYear, DaysPerWeek,  \* a small calendar
  Today,                 \* the first day
  MaxDay, MaxReceipts, MaxLines, MaxQuantity  \* bounds

VARIABLES
  today,     \* CURRENT_DATE, a day number
  prices,    \* <<product, year>> rows of product_prices; their cost rows with them
  receipts,  \* sequence: the id of a receipt is its place
  lines      \* rows of receipt_items

salesVars == <<today, prices, receipts, lines>>

Cities  == {CityOf[b] : b \in Branches}
Regions == {RegionOf[c] : c \in Cities}
Ids     == 1..Len(receipts)

\* The calendar: months since the epoch, and the columns EXTRACT reads.
MonthIndex(year, month) == year * MonthsPerYear + (month - 1)
YearOf(day)  == day \div (DaysPerMonth * MonthsPerYear)
MonthOf(day) == ((day \div DaysPerMonth) % MonthsPerYear) + 1

ASSUME SalesAssumption ==
  /\ \A ids \in {Branches, Cashiers, Customers, Products, Years} : IsFiniteSet(ids)
  /\ CityOf \in [Branches -> Int] /\ RegionOf \in [Cities -> Int] /\ Years \subseteq Nat
  /\ {DaysPerMonth, MonthsPerYear, DaysPerWeek} \subseteq Nat \ {0}
  /\ {MaxReceipts, MaxLines, MaxQuantity} \subseteq Nat /\ {Today, MaxDay} \subseteq Int

\* The demo script prices every product above zero, and dates receipts in the
\* years it prices; the foreign keys of a receipt name rows that exist.
ASSUME CatalogAssumption ==
  /\ UnitPrice \in [Products \X Years -> Nat \ {0}]
  /\ UnitCost \in [Products \X Regions \X Years -> Nat]
  /\ \A v \in Visits :
       /\ v.branch \in Branches /\ v.cashier \in Cashiers /\ v.customer \in Customers
       /\ v.day \in Nat /\ YearOf(v.day) \in Years /\ v.hour \in Int

SalesInit ==
  /\ today = Today /\ prices = {} /\ receipts = <<>> /\ lines = {}

Priced == prices = Products \X Years

\* The catalog: one price row and its regions' cost rows per product and year.
PriceProduct(p, y) ==
  /\ receipts = <<>> /\ <<p, y>> \notin prices
  /\ prices' = prices \cup {<<p, y>>}
  /\ UNCHANGED <<today, receipts, lines>>

\* A receipt is a statement of its own, its lines come after it; a receipt
\* dated in the future is skipped.
NewReceipt(v) ==
  /\ Priced /\ Len(receipts) < MaxReceipts /\ v.day <= today
  /\ receipts' = Append(receipts, v)
  /\ UNCHANGED <<today, prices, lines>>

\* The line takes price and cost from the rows of the receipt's year and
\* region.
CostOf(p, r) == UnitCost[<<p, RegionOf[CityOf[r.branch]], YearOf(r.day)>>]

Line(id, p, quantity) ==
  LET r == receipts[id] price == UnitPrice[<<p, YearOf(r.day)>>] * quantity
      cost == CostOf(p, r) * quantity
  IN [receipt |-> id, product |-> p, quantity |-> quantity,
      price |-> price, cost |-> cost, margin |-> price - cost]

AddLine(p, quantity) ==
  /\ receipts # <<>> /\ Cardinality(lines) < MaxLines
  /\ ~ \E i \in lines : i.receipt = Len(receipts) /\ i.product = p
  /\ lines' = lines \cup {Line(Len(receipts), p, quantity)}
  /\ UNCHANGED <<today, prices, receipts>>

Midnight ==
  /\ today < MaxDay
  /\ today' = today + 1
  /\ UNCHANGED <<prices, receipts, lines>>

SalesNext ==
  \/ \E p \in Products, y \in Years : PriceProduct(p, y)
  \/ \E v \in Visits : NewReceipt(v)
  \/ \E p \in Products, quantity \in 1..MaxQuantity : AddLine(p, quantity)
  \/ Midnight

SalesSpec == SalesInit /\ [][SalesNext]_salesVars

---------------------------------------------------------------------------
(* sales.sql.ts.  A metric over a set of line items.                       *)

Day(i)    == receipts[i.receipt].day
Branch(i) == receipts[i.receipt].branch

Sales(S)    == MapThenSumSet(LAMBDA i : i.price, S)
Cost(S)     == MapThenSumSet(LAMBDA i : i.cost, S)
Profit(S)   == MapThenSumSet(LAMBDA i : i.margin, S)
Quantity(S) == MapThenSumSet(LAMBDA i : i.quantity, S)
\* COUNT(DISTINCT r.id), whatever the number of its lines.
Orders(S)   == Cardinality({i.receipt : i \in S})

Metrics == {"sales", "cost", "profit", "quantity", "orders"}
Metric(m, S) ==
  CASE m = "sales" -> Sales(S) [] m = "cost" -> Cost(S) [] m = "profit" -> Profit(S)
    [] m = "quantity" -> Quantity(S) [] m = "orders" -> Orders(S)

\* date_trunc keeps the year, EXTRACT does not.
Granularities == {"day", "week", "month", "quarter", "year", "weekday", "hour"}
Period(g, i) ==
  CASE g = "day"     -> Day(i)
    [] g = "week"    -> Day(i) \div DaysPerWeek
    [] g = "month"   -> MonthIndex(YearOf(Day(i)), MonthOf(Day(i)))
    [] g = "quarter" -> MonthIndex(YearOf(Day(i)), MonthOf(Day(i))) \div 3
    [] g = "year"    -> YearOf(Day(i))
    [] g = "weekday" -> (Day(i) % DaysPerWeek) + 1
    [] g = "hour"    -> receipts[i.receipt].hour

Dimensions == {"brand", "city", "branch", "region", "category", "cashier", "product"}
Dimension(d, i) ==
  CASE d = "brand"    -> BrandOf[i.product]
    [] d = "city"     -> CityOf[Branch(i)]
    [] d = "branch"   -> Branch(i)
    [] d = "region"   -> RegionOf[CityOf[Branch(i)]]
    [] d = "category" -> CategoryOf[i.product]
    [] d = "cashier"  -> receipts[i.receipt].cashier
    [] d = "product"  -> i.product

\* GROUP BY over the joined facts: a group exists where a line does.
GroupBy(S, key(_), value(_)) ==
  [k \in {key(i) : i \in S} |-> value({i \in S : key(i) = k})]

=============================================================================
