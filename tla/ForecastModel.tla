--------------------------- MODULE ForecastModel ---------------------------
(***************************************************************************)
(* What a spatial forecast computes from the sales tables: the monthly     *)
(* history per area, the baseline it is compared with, the mean that       *)
(* stands in for a short series, the simulation and the changes.  The      *)
(* regression's floating-point fit is any of Fitted.                       *)
(***************************************************************************)
EXTENDS SalesFacts

CONSTANTS
  MinObservations,   \* MIN_OBSERVATIONS
  Horizons,          \* bound: months asked for
  Fitted,            \* bound: sums a fitted model may predict, none negative
  Simulations        \* bound: [discount, cost, power], percentages in tens

ASSUME ForecastAssumption ==
  /\ MinObservations \in Nat \ {0} /\ Horizons \subseteq Nat \ {0}
  /\ Fitted \subseteq [quantity : Nat, sales : Nat, cost : Nat]
  /\ \A s \in Simulations : s.discount \in 0..9 /\ s.cost \in -9..20 /\ s.power \in -9..20

Zero == [quantity |-> 0, sales |-> 0, cost |-> 0]
BaseMetrics == DOMAIN Zero
SumOf(f, S) == [m \in BaseMetrics |-> MapThenSumSet(LAMBDA k : f[k][m], S)]
\* Profit is always derived.
WithProfit(v) == [m \in BaseMetrics \cup {"profit"} |->
                    IF m = "profit" THEN v["sales"] - v["cost"] ELSE v[m]]

---------------------------------------------------------------------------
(* History: whole days before today, by city and month.                    *)

MonthlyHistory ==
  GroupBy({i \in lines : Day(i) < today},
    LAMBDA i : [city |-> CityOf[Branch(i)],
                month |-> MonthIndex(YearOf(Day(i)), MonthOf(Day(i)))],
    LAMBDA S : [quantity |-> Quantity(S), sales |-> Sales(S), cost |-> Cost(S)])

Areas(map) == IF map = "city" THEN Cities ELSE Regions
AreaOf(map, row) == IF map = "city" THEN row.city ELSE RegionOf[row.city]

\* mergeByMonth: the months of an area, the rows of its cities added.
\* Mutant: a month keeps its first row.
Series_FirstRow(map, area) ==
  LET rows == {k \in DOMAIN MonthlyHistory : AreaOf(map, k) = area}
  IN [n \in {k.month : k \in rows} |->
        MonthlyHistory[CHOOSE k \in rows : k.month = n]]
Series(map, area) ==
  LET rows == {k \in DOMAIN MonthlyHistory : AreaOf(map, k) = area}
  IN [n \in {k.month : k \in rows} |-> SumOf(MonthlyHistory, {k \in rows : k.month = n})]

\* rows.slice(-periodMonths): the newest months that have a row.
Baseline(series, months) ==
  WithProfit(SumOf(series, {n \in DOMAIN series :
    Cardinality({o \in DOMAIN series : o > n}) < months}))

---------------------------------------------------------------------------
(* The forecast of one area, its values over a denominator.                *)

MonthsIn(series) == Cardinality(DOMAIN series)

MeanForecast(series, months) ==
  LET all == SumOf(series, DOMAIN series)
  IN [method |-> "mean", den |-> Max({1, MonthsIn(series)}),
      values |-> WithProfit([m \in BaseMetrics |-> all[m] * months])]

Regression(fit) == [method |-> "regression", den |-> 1, values |-> WithProfit(fit)]

\* A long series is fitted, unless its months do not determine the fit.
ForecastArea(series, months) ==
  {MeanForecast(series, months)}
    \cup (IF MonthsIn(series) < MinObservations THEN {} ELSE {Regression(fit) : fit \in Fitted})

\* The calendar months predicted: those after the area's last one.
PredictedMonths(series, months) ==
  [h \in 1..months |-> ((Max(DOMAIN series) + h) % MonthsPerYear) + 1]

---------------------------------------------------------------------------
(* Simulation                                                              *)

\* The share of the revenue a discount touches, a fraction; 0 without sales.
AllDiscounted == <<1, 1>>   \* a discount on every product
DiscountShare(touched(_)) ==
  IF Sales(lines) = 0 THEN <<0, 1>> ELSE <<Sales({i \in lines : touched(i)}), Sales(lines)>>

\* Over the denominator Scale(share): the lift is 3 x discount x share, the
\* loss discount x share; cost follows the volume; power lifts by 0.8.
Scale(share) == (10 * share[2]) * 10 * 100

ApplySimulation(values, s, share) ==
  LET touched == s.discount * share[1]
      volume == 10 * share[2] + 3 * touched
      power == 100 + 8 * s.power
      sales == values["sales"] * (volume - touched) * 10 * power
      cost == values["cost"] * volume * (10 + s.cost) * power
      atLeastZero(x) == Max({0, x})
  IN [quantity |-> atLeastZero(values["quantity"] * volume * 10 * power),
      sales |-> atLeastZero(sales), cost |-> atLeastZero(cost),
      profit |-> atLeastZero(sales) - atLeastZero(cost)]

\* Change against a baseline, a fraction; <<>> is null.
ChangePct(forecast, baseline) ==
  IF baseline = 0 THEN <<>>
  ELSE <<forecast - baseline, IF baseline < 0 THEN -baseline ELSE baseline>>

---------------------------------------------------------------------------
RegionsAreTheirCities ==
  /\ \A m \in BaseMetrics, map \in {"city", "region"} :
       MapThenSumSet(LAMBDA a : SumOf(Series(map, a), DOMAIN Series(map, a))[m], Areas(map))
         = Metric(m, {i \in lines : Day(i) < today})
  /\ \A g \in Regions :
       DOMAIN Series("region", g)
         = UNION {DOMAIN Series("city", c) : c \in {x \in Cities : RegionOf[x] = g}}

MeanRepeatsHistory ==
  \A map \in {"city", "region"} : \A a \in Areas(map) :
    LET series == Series(map, a) n == MonthsIn(series) mean == MeanForecast(series, n)
    IN \A m \in DOMAIN mean.values : mean.values[m] = mean.den * Baseline(series, Max({1, n}))[m]

MonthsFollow ==
  \A a \in Cities : LET series == Series("city", a) IN
    DOMAIN series # {} =>
      LET year == PredictedMonths(series, MonthsPerYear)
      IN ToSet(year) = 1..MonthsPerYear /\ \A i \in lines :
           MonthIndex(YearOf(Day(i)), MonthOf(Day(i))) = Max(DOMAIN series)
             => Last(year) = MonthOf(Day(i))

SharesAddUp ==
  LET share(c) == DiscountShare(LAMBDA i : CategoryOf[i.product] = c)[1]
      part(p) == DiscountShare(LAMBDA i : i.product = p)[1]
      categories == {CategoryOf[p] : p \in Products}
  IN /\ MapThenSumSet(share, categories) = Sales(lines)
     /\ \A c \in categories :
          share(c) = MapThenSumSet(part, {p \in Products : CategoryOf[p] = c})

\* The shares of sales a discount may be given to: all, or one product's.
Shares == {AllDiscounted} \cup {DiscountShare(LAMBDA i : i.product = p) : p \in Products}

\* What a simulated forecast shows against its baseline.
Signed(forecast, baseline, s, share) ==
  LET result == ApplySimulation(forecast.values, s, share)
      scale == Scale(share) * forecast.den
  IN /\ result.profit = result.sales - result.cost
     /\ \A m \in DOMAIN result :
          LET change == ChangePct(result[m], scale * baseline[m])
          IN /\ change = <<>> <=> baseline[m] = 0
             /\ change # <<>> => (change[1] > 0 <=> result[m] > scale * baseline[m])
     /\ s.discount = 0 /\ s.cost = 0 /\ s.power = 0 =>
          \A m \in DOMAIN result : result[m] = Scale(share) * forecast.values[m]
     /\ s.discount > 0 /\ s.power = 0 =>
          result.sales >= Scale(share) * forecast.values["sales"]
ChangesHaveTheirSign ==
  \A a \in Cities, months \in Horizons :
    LET series == Series("city", a) baseline == Baseline(series, months)
    IN \A forecast \in ForecastArea(series, months), s \in Simulations, share \in Shares :
         Signed(forecast, baseline, s, share)

\* The city map and the region map forecast from the same history, and its
\* months are the cities' months, the predicted ones those that follow; a
\* mean over as many months as there are repeats the baseline; the shares of
\* the categories add up to the whole; whatever is simulated, profit stays
\* sales less cost, a change is null only without a baseline and else has
\* the sign of the difference, a loss as the baseline included
\* (SpatialForecastService.run, changePctOf: "Profit stays derived and is
\* allowed to go negative").
ForecastHolds ==
  /\ RegionsAreTheirCities /\ MeanRepeatsHistory /\ MonthsFollow
  /\ SharesAddUp /\ ChangesHaveTheirSign

=============================================================================
