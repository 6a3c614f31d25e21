------------------------------ MODULE AlphaSeries ------------------------------
(***************************************************************************)
(* The indicators of backend/app/indicators/custom over series of bars:    *)
(* sequences of integers, or Missing.  Shares are percent.                 *)
(***************************************************************************)
EXTENDS Integers, Sequences, FiniteSets, FiniteSetsExt

CONSTANT Missing

SignOf(n) == IF n > 0 THEN 1 ELSE IF n < 0 THEN -1 ELSE 0

\* The bars a trailing window at bar i takes in, and the sum of their values;
\* Missing when none has one.
Trailing(i, window) == {j \in 1..i : j > i - Max({1, window})}
RollingSum(series, i, window) ==
  LET held == {j \in Trailing(i, window) : series[j] # Missing}
  IN IF held = {} THEN Missing ELSE MapThenSumSet(LAMBDA j : series[j], held)

\* The change from the bar before.
Diff(series, i) ==
  IF i = 1 \/ series[i] = Missing \/ series[i - 1] = Missing THEN Missing
  ELSE series[i] - series[i - 1]

\* Shorts bought back less longs sold out, where enough of both was liquidated.
LiqCascade(buy, sell, window, threshold) ==
  [i \in DOMAIN buy |->
     LET bought == RollingSum(buy, i, window)
         sold   == RollingSum(sell, i, window)
     IN IF bought = Missing \/ sold = Missing THEN 0
        ELSE IF threshold > 0 /\ bought + sold < threshold THEN 0 ELSE bought - sold]

\* The price's direction where price and open interest move as asked for.
OiDivergence(close, interest, priceDir, oiDir) ==
  LET Way(dir) == IF dir >= 0 THEN 1 ELSE -1
      Moves(series, i, dir) == Diff(series, i) # Missing /\ SignOf(Diff(series, i)) = Way(dir)
  IN [i \in DOMAIN close |->
        IF Moves(close, i, priceDir) /\ Moves(interest, i, oiDir) THEN Way(priceDir) ELSE 0]

\* How far a change stands in the changes so far; the changes are of settlements.
ExpandingPctRank(series, i) ==
  LET known == {j \in 1..i : Diff(series, j) # Missing}
  IN (100 * Cardinality({j \in known : Diff(series, j) <= Diff(series, i)})) \div Cardinality(known)

ExtremeActivation(rates, percentile, dir) ==
  [i \in DOMAIN rates |->
     LET known == Diff(rates, i) # Missing
         high  == known /\ ExpandingPctRank(rates, i) >= percentile
         low   == known /\ ExpandingPctRank(rates, i) <= 100 - percentile
     IN IF high /\ dir >= 0 THEN 1 ELSE IF low /\ dir <= 0 THEN -1 ELSE 0]

\* The flag of the last settlement at or before a bar's opening; settlements are a
\* function from their times, in the order of time, to rates.
FundingExtreme(bars, rates, times, percentile, dir) ==
  LET flags == ExtremeActivation(rates, percentile, dir)
  IN [i \in DOMAIN bars |->
        LET past == {k \in DOMAIN times : times[k] <= bars[i]}
        IN IF past = {} THEN 0 ELSE flags[Max(past)]]

\* The share of a bar's volume that takers bought, from -100 to 100.
PerBarImbalance(taker, volume) ==
  IF taker = Missing \/ volume = Missing \/ volume <= 0 THEN 0
  ELSE (100 * (2 * taker - volume)) \div volume

FlowImbalance(taker, volume, window, threshold, dir) ==
  [i \in DOMAIN taker |->
     LET bars == Trailing(i, window)
         mean == MapThenSumSet(LAMBDA j : PerBarImbalance(taker[j], volume[j]), bars)
                   \div Cardinality(bars)
         weak == threshold > 0 /\ mean < threshold /\ -mean < threshold
     IN IF weak THEN 0 ELSE IF dir < 0 THEN -mean ELSE mean]
==============================================================================
