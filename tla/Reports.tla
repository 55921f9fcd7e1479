------------------------------ MODULE Reports ------------------------------
(***************************************************************************)
(* What the dashboard, charts, tables and transactions answer about the    *)
(* sales tables, each query as an operator over SalesFacts, and how the    *)
(* answers of different pages have to agree.                               *)
(***************************************************************************)
EXTENDS SalesFacts

CONSTANTS
  Periods, DailyDays,        \* PERIOD_DAYS; the 30 of the daily summary
  BasketTiers, VisitTiers,   \* upper bounds of the tiers of charts.service.ts
  Located,                   \* branches with a latitude and a longitude
  Asked,                     \* bound: lists of metrics asked of the trend
  Filters                    \* bound: filters of the receipt list

ASSUME ReportsAssumption ==
  /\ Periods \subseteq Nat \ {0} /\ DailyDays \in Nat /\ Located \subseteq Branches
  /\ {BasketTiers, VisitTiers} \subseteq Seq(Int) /\ Asked \subseteq Seq(Metrics)
  /\ Filters \subseteq [from : Int, to : Int, branch : Branches \cup {-1},
                        cashier : Cashiers \cup {-1}, customer : Customers \cup {-1}]

Total(f) == MapThenSumSet(LAMBDA k : f[k], DOMAIN f)

\* ORDER BY; SortSeq is built in, with no definition the provers could unfold.
Ordered(S, Before(_, _)) ==
  CHOOSE s \in [1..Cardinality(S) -> S] :
    \A n, k \in 1..Cardinality(S) : n < k => Before(s[n], s[k])

---------------------------------------------------------------------------
(* Charts                                                                  *)

\* The query string's list of metrics.  Mutant: repeats are kept.
MetricList_Repeats(asked) == asked
MetricList(asked) == SetToSeq(ToSet(asked))

\* Rows in period order, one column per metric.
Trend(g, metrics) ==
  LET periods == Ordered({Period(g, i) : i \in lines}, <)
  IN [n \in DOMAIN periods |->
        [m \in ToSet(metrics) |-> Metric(m, {i \in lines : Period(g, i) = periods[n]})]]

\* The running total grows once per name in the list.
Cumulative(rows, metrics) ==
  [n \in DOMAIN rows |-> [m \in ToSet(metrics) |->
     MapThenSumSet(LAMBDA j : rows[j][m], 1..n)
       * Cardinality({x \in DOMAIN metrics : metrics[x] = m})]]

ChartRanking(d, m) ==
  GroupBy(lines, LAMBDA i : Dimension(d, i), LAMBDA S : Metric(m, S))

WeekdayHour(m) ==
  GroupBy(lines, LAMBDA i : <<Period("weekday", i), Period("hour", i)>>, LAMBDA S : Metric(m, S))
YearMonth(m) ==
  GroupBy(lines, LAMBDA i : <<YearOf(Day(i)), MonthOf(Day(i))>>, LAMBDA S : Metric(m, S))

\* Tier n ends where tiers[n] begins; the last one is open.
Tier(value, tiers) == Cardinality({n \in DOMAIN tiers : value >= tiers[n]}) + 1

BasketSize ==
  LET basket == GroupBy(lines, LAMBDA i : i.receipt, LAMBDA S : Sales(S))
  IN [t \in 1..(Len(BasketTiers) + 1) |->
        Cardinality({r \in DOMAIN basket : Tier(basket[r], BasketTiers) = t})]

VisitsOf(c) == Cardinality({r \in Ids : receipts[r].customer = c})
CustomerLoyalty ==
  [t \in 1..(Len(VisitTiers) + 1) |->
     Cardinality({c \in {receipts[r].customer : r \in Ids} : Tier(VisitsOf(c), VisitTiers) = t})]

ProfitWaterfall == <<Sales(lines), -Cost(lines), Profit(lines)>>

GeographicSales == [b \in Located |-> Sales({i \in lines : Branch(i) = b})]

---------------------------------------------------------------------------
(* Tables: outward from the entity, so rows without a sale survive.        *)

\* entity is also the column of receipts that names it.
TableRow(entity, e) ==
  LET R == {r \in Ids : receipts[r][entity] = e}
      S == {i \in lines : i.receipt \in R}
  IN [sales |-> Sales(S), profit |-> Profit(S), orders |-> Cardinality(R),
      customers |-> Cardinality({receipts[r].customer : r \in R})]

\* The joins are outer: an entity without a sale has its row.
TableRanking(entity, E) == [e \in E |-> TableRow(entity, e)]

ProductRanking ==
  [p \in Products |-> LET S == {i \in lines : i.product = p}
                      IN [sales |-> Sales(S), profit |-> Profit(S), quantity |-> Quantity(S)]]

\* The latest earlier year with a price, not the year before.
PreviousYears(p, y) == {z \in Years : <<p, z>> \in prices /\ z < y}
PreviousPrice(p, y) ==
  IF PreviousYears(p, y) = {} THEN 0 ELSE UnitPrice[<<p, Max(PreviousYears(p, y))>>]

CostRows == {k \in Products \X Regions \X Years : <<k[1], k[3]>> \in prices}
SoldUnder(k) ==
  {i \in lines : <<i.product, RegionOf[CityOf[Branch(i)]], YearOf(Day(i))>> = k}

\* An average is its sum and its count.  Mutant: a cost row counts once for
\* every line sold under it.
AverageCost_PerLine(K) ==
  LET per(k) == Max({1, Cardinality(SoldUnder(k))})
  IN [sum |-> MapThenSumSet(LAMBDA k : UnitCost[k] * per(k), K),
      count |-> MapThenSumSet(LAMBDA k : per(k), K)]
AverageCost(K) ==
  [sum |-> MapThenSumSet(LAMBDA k : UnitCost[k], K), count |-> Cardinality(K)]

RegionCost ==
  GroupBy(CostRows, LAMBDA k : <<k[2], k[1]>>, LAMBDA K :
    [avgCost |-> AverageCost(K),
     sales   |-> MapThenSumSet(LAMBDA k : Sales(SoldUnder(k)), K),
     profit  |-> MapThenSumSet(LAMBDA k : Profit(SoldUnder(k)), K)])

RegionCategory ==
  GroupBy(CostRows, LAMBDA k : <<k[2], CategoryOf[k[1]]>>, AverageCost)

---------------------------------------------------------------------------
(* Dashboard                                                               *)

\* In half days, so that a moment within a day can be told from midnight.
Instant(day) == 2 * day
\* Mutant: the windows end where today begins.
WindowsEnd_Today == Instant(today)
WindowsEnd == Instant(today + 1)

WindowStats(start, end) ==
  LET R == {r \in Ids : start <= Instant(receipts[r].day) /\ Instant(receipts[r].day) < end}
      S == {i \in lines : i.receipt \in R}
  IN [sales |-> Sales(S), profit |-> Profit(S), orders |-> Cardinality(R),
      avgBasket |-> IF R = {} THEN <<0, 1>> ELSE <<Sales(S), Cardinality(R)>>,
      distinctProducts |-> Cardinality({i.product : i \in S})]

Performance(days) ==
  LET currentStart == WindowsEnd - Instant(days)
  IN [current  |-> WindowStats(currentStart, WindowsEnd),
      previous |-> WindowStats(WindowsEnd - Instant(2 * days), currentStart)]

\* A fraction of 1; <<>> is null.
PercentChange(current, previous) ==
  IF previous = 0 THEN <<>> ELSE <<current - previous, previous>>

DailySummary ==
  GroupBy({i \in lines : Day(i) >= today - DailyDays}, Day, Sales)

---------------------------------------------------------------------------
(* Transactions                                                            *)

None == -1

\* Mutant: the day asked as the last one is left out.
UpTo_Before(day, to) == to = None \/ day < to
UpTo(day, to) == to = None \/ day <= to

Matches(r, f) ==
  /\ f.from = None \/ receipts[r].day >= f.from
  /\ UpTo(receipts[r].day, f.to)
  /\ \A column \in {"branch", "cashier", "customer"} :
       f[column] = None \/ receipts[r][column] = f[column]

LinesOf(r) == {i \in lines : i.receipt = r}
Header(r) ==
  [id |-> r, itemCount |-> Cardinality(LinesOf(r)),
   total |-> Sales(LinesOf(r)), margin |-> Profit(LinesOf(r))]

Newer(q, r) ==
  LET key(x) == <<receipts[x].day, receipts[x].hour, x>>
  IN \E n \in 1..3 : key(q)[n] > key(r)[n] /\ \A k \in 1..(n - 1) : key(q)[k] = key(r)[k]

ListReceipts(f, limit, offset) ==
  LET sorted == Ordered({r \in Ids : Matches(r, f)}, Newer)
      page == SubSeq(sorted, offset + 1, Min({offset + limit, Len(sorted)}))
  IN [items |-> [n \in DOMAIN page |-> Header(page[n])],
      total |-> Cardinality({r \in Ids : Matches(r, f)})]

---------------------------------------------------------------------------
RankingMetrics == {"sales", "quantity", "profit"}
Value(f, k) == IF k \in DOMAIN f THEN f[k] ELSE 0

TrendsAddUp ==
  \A g \in Granularities, asked \in Asked :
    LET metrics == MetricList(asked) rows == Cumulative(Trend(g, metrics), metrics)
    IN rows # <<>> => \A m \in ToSet(asked) : Last(rows)[m] = Metric(m, lines)

BreakdownsAddUp ==
  /\ \A m \in RankingMetrics :
       /\ \A d \in Dimensions : Total(ChartRanking(d, m)) = Metric(m, lines)
       /\ Total(WeekdayHour(m)) = Metric(m, lines)
       /\ Total(YearMonth(m)) = Metric(m, lines)
  /\ Total(BasketSize) = Orders(lines)
  /\ Total(CustomerLoyalty) = Cardinality({c \in Customers : VisitsOf(c) > 0})
  /\ ProfitWaterfall[1] + ProfitWaterfall[2] = ProfitWaterfall[3]

RankingsAgree ==
  /\ \A entity \in {"branch", "cashier", "customer"} :
       LET E == CASE entity = "branch" -> Branches [] entity = "cashier" -> Cashiers
                  [] entity = "customer" -> Customers
           table == TableRanking(entity, E)
       IN /\ Total([e \in DOMAIN table |-> table[e].orders]) = Len(receipts)
          /\ entity # "customer" => \A e \in E :
               /\ table[e].sales = Value(ChartRanking(entity, "sales"), e)
               /\ table[e].profit = Value(ChartRanking(entity, "profit"), e)
  /\ \A p \in Products, m \in RankingMetrics :
       ProductRanking[p][m] = Value(ChartRanking("product", m), p)
  /\ \A b \in Located : GeographicSales[b] = Value(ChartRanking("branch", "sales"), b)

\* "a metric that means one thing on /charts/trend and another on
\* /tables/ranking is a reporting bug" (sales.model.ts:12): every trend,
\* running total, breakdown and heatmap adds up to the totals of the
\* dashboard, and the rankings of charts, tables and map name the same
\* figures, rows without a sale and receipts without a line included
\* (ChartsService, TablesService.getRanking, SalesTotalsService.sum).
ReportsAgree == TrendsAddUp /\ BreakdownsAddUp /\ RankingsAgree

\* The two windows of a period split its last 2n days, today included: no
\* receipt is left out or counted twice (DashboardService.getPerformance);
\* the daily list beside them covers one day more than its 30.
WindowsPartition ==
  /\ \A n \in Periods :
       LET both == {i \in lines : today - 2 * n < Day(i) /\ Day(i) <= today}
           now == {i \in both : Day(i) > today - n}
           windows == Performance(n)
       IN /\ windows.current.sales = Sales(now)
          /\ windows.previous.sales = Sales(both \ now)
          /\ windows.current.distinctProducts = Cardinality({i.product : i \in now})
          /\ windows.current.orders + windows.previous.orders =
               Cardinality({r \in Ids : receipts[r].day > today - 2 * n})
          /\ LET change == PercentChange(windows.current.sales, windows.previous.sales)
             IN change = <<>> <=> both \ now = {}
  /\ Total(DailySummary) =
       WindowStats(WindowsEnd - Instant(DailyDays + 1), WindowsEnd).sales

\* Paging through the receipt list under any filter shows every receipt that
\* matches once, newest first, and its totals are those of the lines its
\* detail lists; splitting a range of days at any day splits the receipts
\* (TransactionsService.listReceipts, buildWhere).
PagesCoverReceipts ==
  \A f \in Filters :
    LET matching == {r \in Ids : Matches(r, f)}
        sum == Sales({i \in lines : i.receipt \in matching})
    IN /\ \A limit \in 1..2 :
            LET page(n) == ListReceipts(f, limit, (n - 1) * limit).items
                all == FlattenSeq([n \in 1..(Len(receipts) + 1) |-> page(n)])
            IN /\ Len(all) = ListReceipts(f, limit, 0).total
               /\ {all[n].id : n \in DOMAIN all} = matching
               /\ \A n \in 1..(Len(all) - 1) : receipts[all[n].id].day >= receipts[all[n + 1].id].day
               /\ MapThenSumSet(LAMBDA n : all[n].total, DOMAIN all) = sum
       /\ \A d \in 0..MaxDay :
            (f.from = None \/ f.from <= d) /\ (f.to = None \/ d < f.to) =>
              LET early == {r \in Ids : Matches(r, [f EXCEPT !.to = d])}
                  late  == {r \in Ids : Matches(r, [f EXCEPT !.from = d + 1])}
              IN early \cup late = matching /\ early \cap late = {}

\* "that is what it has to be" (tables.service.ts:183): the average cost of a
\* region's product is that of its cost rows however much was sold under
\* each, every line is under one row and at its cost, and the price a year is
\* compared with is that of the latest earlier year that has one
\* (getRegionCost, getPriceCostHistory).
CatalogFiguresHold ==
  /\ \A k \in DOMAIN RegionCost :
       LET years == {y \in Years : <<k[2], y>> \in prices} cell == RegionCost[k]
       IN cell.avgCost.sum * Cardinality(years) =
            cell.avgCost.count * MapThenSumSet(LAMBDA y : UnitCost[<<k[2], k[1], y>>], years)
  /\ Total([k \in DOMAIN RegionCost |-> RegionCost[k].sales]) = Sales(lines)
  /\ \A k \in CostRows : Cost(SoldUnder(k)) = UnitCost[k] * Quantity(SoldUnder(k))
  /\ \A c \in DOMAIN RegionCategory : RegionCategory[c].count > 0
  /\ \A k \in prices : \A z \in PreviousYears(k[1], k[2]) :
       \/ PreviousPrice(k[1], k[2]) = UnitPrice[<<k[1], z>>]
       \/ \E x \in PreviousYears(k[1], k[2]) : x > z

=============================================================================
