------------------------------ MODULE TrackRecord ------------------------------
(***************************************************************************)
(* What the record of a strategy's trades decides: its degradation         *)
(* (strategy/health.py), its promotion (bot/promotion.py), the regime it   *)
(* may run in (strategy/regime.py) and how far live runs from paper        *)
(* (bot/tracking.py).                                                      *)
(*                                                                         *)
(* A trade is [strategy, mode, status, entry, exit, pnl], its pnl Missing  *)
(* when none was booked.  Profit factors and drawdowns are percent.        *)
(***************************************************************************)
EXTENDS Integers, Sequences, FiniteSets, FiniteSetsExt, SequencesExt

CONSTANT Missing

Total(s) == FoldSeq(+, 0, s)

\* Trades in the order of a stamp, "entry" or "exit", and the pnls booked.
InOrder(trades, stamp) == SetToSortSeq(trades, LAMBDA a, b : a[stamp] < b[stamp])
Pnls(trades) ==
  LET booked == SelectSeq(trades, LAMBDA t : t.pnl # Missing)
  IN [k \in DOMAIN booked |-> booked[k].pnl]

Gains(pnls)  == Total([k \in DOMAIN pnls |-> IF pnls[k] > 0 THEN pnls[k] ELSE 0])
Losses(pnls) == Total([k \in DOMAIN pnls |-> IF pnls[k] < 0 THEN -pnls[k] ELSE 0])

\* {} without a loss to divide by: never a failure.
ProfitFactor(pnls) ==
  IF Losses(pnls) = 0 THEN {} ELSE {(100 * Gains(pnls)) \div Losses(pnls)}
PfBelow(pnls, least) == \E pf \in ProfitFactor(pnls) : pf < least

\* One pass: the equity, its peak and the deepest fall from it in basis points.
Fall(peak, equity) == IF peak > 0 THEN (10000 * (peak - equity)) \div peak ELSE 0
Walk(pnls, initialCash) ==
  FoldLeft(LAMBDA at, pnl : LET equity == at.equity + pnl
                                peak   == Max({at.peak, equity})
                            IN [equity |-> equity, peak |-> peak,
                                fall |-> Max({at.fall, Fall(peak, equity)})],
           [equity |-> initialCash, peak |-> initialCash, fall |-> 0], pnls)
RealizedMaxDrawdown(pnls, initialCash) == Walk(pnls, initialCash).fall

ClosedPaper(trades, strategy) ==
  {t \in trades : t.strategy = strategy /\ t.mode = "paper" /\ t.status = "closed"}

-----------------------------------------------------------------------------
(***************************************************************************)
(* Degradation: the last trades of a strategy, whichever version made      *)
(* them, from the initial cash on.  p95 is the drawdown its validation     *)
(* expects, Missing when the report has none.                              *)
(***************************************************************************)
LastClosed(trades, strategy, window) ==
  LET closed == InOrder(ClosedPaper(trades, strategy), "exit")
  IN IF Len(closed) <= window THEN closed
     ELSE SubSeq(closed, Len(closed) - window + 1, Len(closed))

Triggers(pnls, cfg, p95, initialCash) ==
  {trigger \in {"rolling_pf", "mc_drawdown"} :
     /\ pnls # <<>>
     /\ trigger = "rolling_pf"  => Len(pnls) >= cfg.minTrades /\ PfBelow(pnls, cfg.minPf)
     /\ trigger = "mc_drawdown" => /\ p95 # Missing /\ p95 > 0
                                   /\ RealizedMaxDrawdown(pnls, initialCash) > p95}

EvaluateDegradation(trades, strategy, cfg, p95, initialCash) ==
  Triggers(Pnls(LastClosed(trades, strategy, cfg.window)), cfg, p95, initialCash)

-----------------------------------------------------------------------------
(***************************************************************************)
(* The promotion gate: the whole paper record, in the order of the entries.*)
(***************************************************************************)
PaperTrades(trades, strategy) == InOrder(ClosedPaper(trades, strategy), "entry")

FirstEntry(trades) == Min({trades[k].entry : k \in DOMAIN trades})
TooYoung(gate, trades, now) ==
  IF trades = <<>> THEN gate.minTime > 0 ELSE now - FirstEntry(trades) < gate.minTime

Failures(gate, trades, initialCash, now) ==
  LET pnls == Pnls(trades)
  IN {f \in {"trades", "days", "profit factor", "drawdown"} :
        CASE f = "trades"        -> Len(pnls) < gate.minTrades
          [] f = "days"          -> TooYoung(gate, trades, now)
          [] f = "profit factor" -> PfBelow(pnls, gate.minPf)
          [] f = "drawdown"      -> RealizedMaxDrawdown(pnls, initialCash) > gate.maxDrawdown}

\* cash gives each strategy the initial cash of the version it runs; ready says
\* that live trading is switched on and keys are stored.
StrategyGate(gate, trades, strategy, cash, now, ready) ==
  ready /\ Failures(gate, PaperTrades(trades, strategy), cash[strategy], now) = {}

GlobalGate(gate, trades, cash, now, ready) ==
  ready /\ \E s \in DOMAIN cash : Failures(gate, PaperTrades(trades, s), cash[s], now) = {}

\* A strategy's gate without a strategy is the global one.
EvaluateGate(scope, strategy, gate, trades, cash, now, ready) ==
  IF scope = "strategy" /\ strategy # Missing
  THEN StrategyGate(gate, trades, strategy, cash, now, ready)
  ELSE GlobalGate(gate, trades, cash, now, ready)

-----------------------------------------------------------------------------
(***************************************************************************)
(* The regime of a market is a pair <<trend, volatility>>; adx is the      *)
(* value the last bar has, atr the series of the ranges.                   *)
(***************************************************************************)
PercentileRank(values, value) ==
  LET finite == {k \in DOMAIN values : values[k] # Missing}
  IN IF finite = {} \/ value = Missing THEN 0
     ELSE (100 * Cardinality({k \in finite : values[k] <= value})) \div Cardinality(finite)

\* {} when there are too few bars.
ClassifyRegime(adx, atr, cfg) ==
  LET window == IF cfg.lookback \in 1..Len(atr)
                THEN SubSeq(atr, Len(atr) - cfg.lookback + 1, Len(atr)) ELSE atr
      strength == IF adx = Missing THEN 0 ELSE adx
  IN IF Len(atr) < cfg.need THEN {}
     ELSE {<<IF strength >= cfg.trend THEN "trend" ELSE "range",
             IF PercentileRank(window, atr[Len(atr)]) >= cfg.high THEN "high" ELSE "low">>}

\* Only the trend counts, and what is not known matches anything.
RegimeMatches(version, target) ==
  \A v \in version, t \in target : v[1] = t[1]

-----------------------------------------------------------------------------
(***************************************************************************)
(* Live against paper, on the moments both have a snapshot of.  A series   *)
(* is a function from its moments; returns are in permille.  The measure   *)
(* of a series of n differences is n - 1 times n times their variance.     *)
(***************************************************************************)
Returns(equity, moments) ==
  [k \in 1..(Len(moments) - 1) |->
     LET before == equity[moments[k]]
     IN IF before = 0 THEN 0 ELSE (1000 * (equity[moments[k + 1]] - before)) \div before]

Scatter(xs) ==
  Len(xs) * Total([k \in DOMAIN xs |-> xs[k] * xs[k]]) - Total(xs) * Total(xs)

\* {} when fewer than three moments are shared.
TrackingError(live, paper) ==
  LET shared == SetToSortSeq(DOMAIN live \cap DOMAIN paper, <)
      diff == [k \in 1..(Len(shared) - 1) |-> Returns(live, shared)[k] - Returns(paper, shared)[k]]
  IN IF Len(shared) < 3 THEN {} ELSE {<<Scatter(diff), Len(diff) * (Len(diff) - 1)>>}

Side(series, moments) == [t \in DOMAIN series \cap moments |-> series[t]]

Narrowed(live, paper, split) ==
  LET past   == {t \in DOMAIN live : t < split}
      since  == {t \in DOMAIN live : t >= split}
      before == TrackingError(Side(live, past), Side(paper, past))
      after  == TrackingError(Side(live, since), Side(paper, since))
  IN {a[1] * b[2] < b[1] * a[2] : a \in after, b \in before}
==============================================================================
