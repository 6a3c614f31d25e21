-------------------------------- MODULE Metrics --------------------------------
(***************************************************************************)
(* The measures of a backtest (backend/app/backtest/metrics.py) and the    *)
(* probability that its selection overfitted (research/deflation.py).      *)
(* Scores, shares and drawdowns are percent, profit factors and Sharpe     *)
(* ratios hundredths; a set of at most one stands for a value that may be  *)
(* missing.                                                                *)
(***************************************************************************)
EXTENDS Integers, Sequences, FiniteSets, FiniteSetsExt, SequencesExt

Sums(f, S) == MapThenSumSet(LAMBDA x : f[x], S)

-----------------------------------------------------------------------------
(* The equity curve. *)
Peak(equity, i) == Max({equity[j] : j \in 1..i})
FallAt(equity, i) ==
  IF Peak(equity, i) > 0 THEN (100 * (Peak(equity, i) - equity[i])) \div Peak(equity, i) ELSE 0
Underwater(equity, i) == Peak(equity, i) > 0 /\ equity[i] < Peak(equity, i)

MaxDrawdown(equity) ==
  [depth |-> Max({0} \union {FallAt(equity, i) : i \in DOMAIN equity}),
   bars  |-> Max({0} \union {j - i + 1 : <<i, j>> \in
                    {p \in (DOMAIN equity) \X (DOMAIN equity) :
                       p[1] <= p[2] /\ \A k \in p[1]..p[2] : Underwater(equity, k)}})]

(* The trades, by their pnls. *)
Wins(pnls)   == {k \in DOMAIN pnls : pnls[k] > 0}
Losers(pnls) == {k \in DOMAIN pnls : pnls[k] < 0}
WinRate(pnls) == IF pnls = <<>> THEN 0 ELSE (100 * Cardinality(Wins(pnls))) \div Len(pnls)

\* {}, not a number, for gains without a loss.
ProfitFactor(pnls) ==
  LET won == Sums(pnls, Wins(pnls))
      lost == -Sums(pnls, Losers(pnls))
  IN IF lost > 0 THEN {(100 * won) \div lost} ELSE IF won > 0 THEN {} ELSE {0}

Expectancy(pnls) == IF pnls = <<>> THEN 0 ELSE Sums(pnls, DOMAIN pnls) \div Len(pnls)

\* What a run reports of the above; its Sharpe ratio and the squashed expectancy
\* are given.
ComputeMetrics(equity, pnls, sharpe, squashed) ==
  [sharpe |-> sharpe, pf |-> ProfitFactor(pnls), maxDd |-> MaxDrawdown(equity).depth,
   winRate |-> WinRate(pnls), squashed |-> squashed, trades |-> Len(pnls)]

-----------------------------------------------------------------------------
(* The score, and the filters that are reported beside it. *)
Clamp01(n) == Max({0, Min({100, n})})

\* Without a loss the profit factor counts as ten.
PfOf(m) == IF m.pf = {} THEN 1000 ELSE CHOOSE pf \in m.pf : TRUE

CompositeScore(m) ==
  (30 * Clamp01(m.sharpe \div 3) + 25 * Clamp01((PfOf(m) - 100) \div 2)
    + 20 * (100 - Clamp01(2 * m.maxDd)) + 15 * Clamp01(m.winRate) + 10 * Clamp01(m.squashed)) \div 100

PassesHardFilters(m) == m.trades >= 30 /\ m.maxDd <= 25 /\ PfOf(m) >= 100

-----------------------------------------------------------------------------
(***************************************************************************)
(* Combinatorially symmetric cross-validation.  matrix[c] is the series of *)
(* returns of configuration c; the series are cut into an even number of   *)
(* blocks, the first ones a row longer where it does not divide.  A Sharpe *)
(* ratio is compared by its signed square <<numerator, denominator>>.      *)
(***************************************************************************)
Length(rows, splits, b) == (rows \div splits) + (IF b <= rows % splits THEN 1 ELSE 0)
BlockRows(rows, splits, b) ==
  LET before == MapThenSumSet(LAMBDA a : Length(rows, splits, a), 1..(b - 1))
  IN (before + 1)..(before + Length(rows, splits, b))

RowsOf(rows, splits, blocks) == UNION {BlockRows(rows, splits, b) : b \in blocks}

SharpeOn(series, rows) ==
  LET s == Sums(series, rows)
      spread == Cardinality(rows) * MapThenSumSet(LAMBDA t : series[t] * series[t], rows) - s * s
  IN IF Cardinality(rows) <= 1 \/ spread <= 0 THEN <<0, 1>> ELSE <<IF s < 0 THEN -s * s ELSE s * s, spread>>

AtMost(a, b) == a[1] * b[2] <= b[1] * a[2]

\* The first of the best in sample, as the search would take it.
Winner(matrix, rows) ==
  LET Beats(c, d) == ~AtMost(SharpeOn(matrix[c], rows), SharpeOn(matrix[d], rows))
  IN Min({c \in DOMAIN matrix : ~\E d \in DOMAIN matrix : Beats(d, c)})

\* How many are no better than it out of sample, itself included.
RankOf(matrix, c, rows) ==
  Cardinality({d \in DOMAIN matrix : AtMost(SharpeOn(matrix[d], rows), SharpeOn(matrix[c], rows))})

BelowMedian(matrix, rows, splits, inSample) ==
  LET best == Winner(matrix, RowsOf(rows, splits, inSample))
      rank == RankOf(matrix, best, RowsOf(rows, splits, (1..splits) \ inSample))
  IN 2 * rank <= Len(matrix) + 1

Computable(matrix, rows, splits) ==
  Len(matrix) >= 2 /\ splits >= 2 /\ splits % 2 = 0 /\ rows >= splits

PboCscv(matrix, rows, splits) ==
  LET choices == kSubset(splits \div 2, 1..splits)
  IN (100 * Cardinality({ins \in choices : BelowMedian(matrix, rows, splits, ins)}))
       \div Cardinality(choices)
==============================================================================
