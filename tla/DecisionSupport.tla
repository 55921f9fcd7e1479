-------------------------- MODULE DecisionSupport --------------------------
(***************************************************************************)
(* kds.service.ts: Pareto classes, demand, customer segments and market    *)
(* baskets over the sales tables.  Where a query leaves the order of ties  *)
(* open, every order is considered.                                        *)
(***************************************************************************)
EXTENDS SalesFacts

CONSTANTS
  AbcDays,           \* bound: windows asked of the ABC analysis
  Horizon, Rows      \* 37 days of history, 7 rows in the moving average

ASSUME DecisionAssumption == AbcDays \subseteq Nat /\ Horizon \in Nat /\ Rows \in Nat \ {0}

---------------------------------------------------------------------------
(* ABC analysis                                                            *)

Revenue(days) ==
  [p \in Products |-> Sales({i \in lines : i.product = p /\ Day(i) >= today - days})]

\* ORDER BY revenue DESC
RevenueOrders(revenue) ==
  {s \in SetToSeqs(Products) : \A n \in 1..(Len(s) - 1) : revenue[s[n]] >= revenue[s[n + 1]]}

Running(order, revenue, n) == MapThenSumSet(LAMBDA k : revenue[order[k]], 1..n)

\* share <= 0.8, share <= 0.95, where share is 1 without any revenue.
AbcClass(order, revenue, n) ==
  LET total == Running(order, revenue, Len(order)) running == Running(order, revenue, n)
  IN IF total = 0 THEN "C" ELSE IF 5 * running <= 4 * total THEN "A"
     ELSE IF 20 * running <= 19 * total THEN "B" ELSE "C"

---------------------------------------------------------------------------
(* Demand forecast                                                         *)

DailyQuantity(p) ==
  GroupBy({i \in lines : i.product = p /\ Day(i) >= today - Horizon}, Day, Quantity)

\* ROWS BETWEEN 6 PRECEDING AND CURRENT ROW at the latest day: rows are days
\* with a sale, however far apart.  Mutant: one row too many.
LatestRows_OneMore(days) ==
  {d \in days : Cardinality({e \in days : e > d}) <= Rows}
LatestRows(days) ==
  {d \in days : Cardinality({e \in days : e > d}) < Rows}

ForecastQty(p) ==
  LET daily == DailyQuantity(p) latest == LatestRows(DOMAIN daily)
  IN [sum |-> MapThenSumSet(LAMBDA d : daily[d], latest), count |-> Cardinality(latest)]

---------------------------------------------------------------------------
(* Customer segmentation                                                   *)

ReceiptsOf(c) == {r \in Ids : receipts[r].customer = c}

NeverBought == 999999
Recency(c) ==
  IF ReceiptsOf(c) = {} THEN NeverBought
  ELSE today - Max({receipts[r].day : r \in ReceiptsOf(c)})
Frequency(c) == Cardinality(ReceiptsOf(c))
Monetary(c)  == Sales({i \in lines : i.receipt \in ReceiptsOf(c)})

\* NTILE(4): the first tiles take the remainder.
Tile(place) ==
  LET n == Cardinality(Customers) size == n \div 4 larger == n % 4
  IN IF place <= larger * (size + 1) THEN (place - 1) \div (size + 1) + 1
     ELSE larger + (place - larger * (size + 1) - 1) \div size + 1

\* key ASC, and a customer's place among equals is open.
Scores(c, key(_)) ==
  {Tile(place) : place \in (Cardinality({e \in Customers : key(e) < key(c)}) + 1)
                           ..Cardinality({e \in Customers : key(e) <= key(c)})}

\* A recent purchase ranks high.
RecencyKey(c) == -Recency(c)

Segment(r, f, m) ==
  CASE r >= 3 /\ f >= 3 /\ m >= 3 -> "Champions"
    [] ~(r >= 3 /\ f >= 3 /\ m >= 3) /\ r >= 2 /\ f >= 2 -> "Loyal"
    [] r < 2 /\ f >= 3 -> "AtRisk"
    [] OTHER -> "Lost"

Segments(c) ==
  {Segment(r, f, m) : r \in Scores(c, RecencyKey), f \in Scores(c, Frequency),
                      m \in Scores(c, Monetary)}

---------------------------------------------------------------------------
(* Market basket                                                           *)

With(p) == {i.receipt : i \in {j \in lines : j.product = p}}
CoCount(p, q) == Cardinality({i.receipt : i \in {j \in lines : j.product = q /\ j.receipt \in With(p)}})
CoPurchases(p) == {q \in Products \ {p} : CoCount(p, q) > 0}
\* A fraction of 1; the query divides only where there is a co-purchase.
Confidence(p, q) == <<CoCount(p, q), Cardinality(With(p))>>

---------------------------------------------------------------------------
AbcIsPareto ==
  \A days \in AbcDays :
    LET revenue == Revenue(days) total == MapThenSumSet(LAMBDA p : revenue[p], Products)
    IN \A order \in RevenueOrders(revenue) :
         LET sum(classes) == MapThenSumSet(LAMBDA n : revenue[order[n]],
               {n \in DOMAIN order : AbcClass(order, revenue, n) \in classes})
             next(classes) == {n \in DOMAIN order : AbcClass(order, revenue, n) \notin classes}
         IN total > 0 =>
              /\ 5 * sum({"A"}) <= 4 * total /\ 20 * sum({"A", "B"}) <= 19 * total
              /\ \A n \in next({"A"}) : 5 * (sum({"A"}) + revenue[order[Min(next({"A"}))]]) > 4 * total
              /\ \A p \in Products : revenue[p] = 0 => AbcClass(order, revenue,
                   CHOOSE n \in DOMAIN order : order[n] = p) = "C"

DemandFollowsSales ==
  \A p \in Products :
    LET daily == DailyQuantity(p) days == DOMAIN daily qty == ForecastQty(p)
    IN /\ qty.count = Min({Rows, Cardinality(days)})
       /\ \A d \in days : (\A e \in days : daily[e] <= daily[d]) => qty.sum <= qty.count * daily[d]
       /\ Cardinality(days) > Rows =>
            qty.sum < MapThenSumSet(LAMBDA d : daily[d], days)

Rank == [s \in {"Lost", "AtRisk", "Loyal", "Champions"} |->
           CASE s = "Lost" -> 0 [] s = "AtRisk" -> 1 [] s = "Loyal" -> 2 [] s = "Champions" -> 3]

SegmentsFollowScores ==
  /\ \A c, e \in Customers :
       Recency(c) < Recency(e) /\ Frequency(c) > Frequency(e) /\ Monetary(c) > Monetary(e) =>
         \A s \in Segments(c), t \in Segments(e) : Rank[s] >= Rank[t]
  /\ 2 * Cardinality({c \in Customers : Frequency(c) = 0}) <= Cardinality(Customers) =>
       \A c \in Customers : Frequency(c) = 0 => "Champions" \notin Segments(c)

BasketsAreMutual ==
  \A p \in Products : \A q \in CoPurchases(p) :
    LET c == Confidence(p, q)
    IN p \in CoPurchases(q) /\ 0 < c[1] /\ c[1] <= c[2] /\ Confidence(q, p)[1] = c[1]

\* The decision-support answers mean what the page says of them.  A and B
\* are the largest heads of the revenue ranking within 80% and 95%, and a
\* product without revenue is C; the demand is the mean of the newest days
\* with a sale and of no older one; no customer who is strictly behind
\* another in recency, frequency and money is in a better segment, and none
\* who never bought is a champion while half of them did; two products
\* bought together are so from either side, in at most all receipts of each
\* (KdsService).
DecisionSupportHolds ==
  AbcIsPareto /\ DemandFollowsSales /\ SegmentsFollowScores /\ BasketsAreMutual

=============================================================================
