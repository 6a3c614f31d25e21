------------------------------ MODULE WalkForward ------------------------------
(***************************************************************************)
(* Walk-forward validation and re-optimization (discovery/wfo.py,          *)
(* strategy/reoptimize.py) and the deflation gate behind it                *)
(* (discovery/deflation_gate.py, research/gate.py).                        *)
(*                                                                         *)
(* What a backtest reports for a genome on a window is the function        *)
(* run[params, from, to]: [ok, score, net, trades, filters], where ok is   *)
(* FALSE when the run raised.  Params is a function of the tuned           *)
(* parameters, specs gives each its bounds and step (0 for none); scores   *)
(* and returns are integers, ratios are percent.                           *)
(***************************************************************************)
EXTENDS Integers, FiniteSets, Sequences, SequencesExt

LOCAL Greatest(a, b) == IF a < b THEN b ELSE a
LOCAL Total(s) == FoldSeq(+, 0, s)
LOCAL Mean(s) == IF s = <<>> THEN 0 ELSE Total(s) \div Len(s)

Window(t, train, test) ==
  [trainStart |-> t, trainEnd |-> t + train, testStart |-> t + train, testEnd |-> t + train + test]

RollingWindows(start, end, train, test, step) ==
  LET stride == Greatest(1, step)
      room   == end - start - train - test
  IN IF room < 0 THEN <<>>
     ELSE [k \in 1..(room \div stride + 1) |-> Window(start + (k - 1) * stride, train, test)]

\* Too little data for one window is split 70/30.
SplitAt(start, end) == start + (7 * (end - start)) \div 10
Windows(start, end, train, test, step) ==
  LET rolling == RollingWindows(start, end, train, test, step)
  IN IF rolling # <<>> THEN rolling
     ELSE <<Window(start, SplitAt(start, end) - start, end - SplitAt(start, end))>>

\* query_ohlcv takes both ends of a window.
TrainBars(w) == w.trainStart..w.trainEnd
TestBars(w) == w.testStart..w.testEnd

-----------------------------------------------------------------------------
(***************************************************************************)
(* The plateau: every neighbour of every tuned parameter holds a share of  *)
(* the best score.                                                         *)
(***************************************************************************)
Neighbours(spec, value, steps) ==
  IF spec.step = 0 THEN {}
  ELSE {v \in {value - steps * spec.step, value + steps * spec.step} : v \in (spec.min..spec.max) \ {value}}

Trials(params, specs, steps) ==
  UNION {{[params EXCEPT ![name] = v] : v \in Neighbours(specs[name], params[name], steps)} :
           name \in DOMAIN specs}

Plateau(params, specs, steps, ratio, best, score) ==
  \A trial \in Trials(params, specs, steps) : 100 * score[trial] >= ratio * best

\* A run that raises scores nothing here, and below everything in the search.
ScoreOr(report, failed) == IF report.ok THEN report.score ELSE failed
ScoresOf(run, candidates, from, to, failed) ==
  [p \in candidates |-> ScoreOr(run[<<p, from, to>>], failed)]

-----------------------------------------------------------------------------
(***************************************************************************)
(* The verdicts.                                                           *)
(***************************************************************************)
KeepsScore(oos, inSample, ratio) ==
  IF inSample > 0 THEN 100 * oos >= ratio * inSample ELSE oos > 0

Survives(oos, net, trades, inSample, plateau, filters, ratio, minTrades) ==
  plateau /\ filters /\ net > 0 /\ trades >= minTrades /\ KeepsScore(oos, inSample, ratio)

\* Each window's parameters: the scan's, or found again on its training bars.
ParamsOf(w, tuned, reoptimize, found) ==
  IF reoptimize THEN found[<<w.trainStart, w.trainEnd>>] ELSE tuned

Layers(windows, tuned, reoptimize, found, run) ==
  [k \in DOMAIN windows |->
     LET w == windows[k]
     IN run[<<ParamsOf(w, tuned, reoptimize, found), w.testStart, w.testEnd>>]]

OosScore(layers) == Mean([k \in DOMAIN layers |-> ScoreOr(layers[k], 0)])
OosNet(layers) ==
  LET ran == SelectSeq(layers, LAMBDA report : report.ok)
  IN Mean([k \in DOMAIN ran |-> ran[k].net])
OosTrades(layers) == Total([k \in DOMAIN layers |-> IF layers[k].ok THEN layers[k].trades ELSE 0])

\* Stage 5 of a scan for one optimized combination; best is its in-sample score.
WalkForward(data, cfg, tuned, specs, best, found, run) ==
  LET windows == Windows(data.first, data.last, cfg.train, cfg.test, cfg.step)
      layers  == Layers(windows, tuned, cfg.reoptimize, found, run)
      full    == run[<<tuned, data.first, data.last>>]
      score   == ScoresOf(run, Trials(tuned, specs, cfg.steps), data.first, data.last, 0)
      plateau == Plateau(tuned, specs, cfg.steps, cfg.plateau, ScoreOr(full, 0), score)
  IN IF data.bars < cfg.minBars THEN [survived |-> FALSE, layers |-> <<>>, oos |-> 0]
     ELSE [survived |-> Survives(OosScore(layers), OosNet(layers), OosTrades(layers), best, plateau,
                                 full.ok /\ full.filters, cfg.keep, cfg.minTrades),
           layers |-> windows, oos |-> OosScore(layers)]

-----------------------------------------------------------------------------
(***************************************************************************)
(* Re-optimization of a genome that trades: the parameters that score best *)
(* on the training window, the whole history unless one is asked for, and  *)
(* the same windows over the whole history as their test.                  *)
(***************************************************************************)
FailScore == -1000000

\* The search is bounded: it finds the best of the candidates it tried.
BestTried(score) == CHOOSE p \in DOMAIN score : \A q \in DOMAIN score : score[q] <= score[p]

Reoptimized(current, tried, from, to, run) ==
  IF tried = {} THEN current ELSE BestTried(ScoresOf(run, tried, from, to, FailScore))

SurvivesGenome(oos, plateau, filters) == oos > 0 /\ plateau /\ filters

WalkForwardGenome(data, cfg, params, specs, run) ==
  LET windows == Windows(data.first, data.last, cfg.train, cfg.test, cfg.step)
      layers  == [k \in DOMAIN windows |-> run[<<params, windows[k].testStart, windows[k].testEnd>>]]
      full    == run[<<params, data.first, data.last>>]
      score   == ScoresOf(run, Trials(params, specs, cfg.steps), data.first, data.last, FailScore)
  IN SurvivesGenome(OosScore(layers),
                    Plateau(params, specs, cfg.steps, cfg.plateau, ScoreOr(full, 0), score),
                    full.ok /\ full.filters)

NoWindow == <<>>

\* Too little data proposes nothing; a proposal that does not survive is one too.
Propose(data, cfg, current, specs, tried, window, run) ==
  LET train == IF window = NoWindow THEN <<data.first, data.last>> ELSE window
      found == Reoptimized(current, tried, train[1], train[2], run)
  IN IF data.bars < cfg.minBars THEN {}
     ELSE {[params |-> found, survived |-> WalkForwardGenome(data, cfg, found, specs, run)]}

-----------------------------------------------------------------------------
(***************************************************************************)
(* The deflation gate, over evidence [dsr, pbo, trades, net, hold]; a pbo  *)
(* that could not be computed is NoPbo.  Statistics are percent.           *)
(***************************************************************************)
NoPbo == -1
DsrMin == 95
PboMax == 40
MinOosTrades == 30

PassesGate(evidence) ==
  /\ evidence.dsr >= DsrMin
  /\ evidence.pbo # NoPbo /\ evidence.pbo < PboMax
  /\ evidence.trades >= MinOosTrades
  /\ evidence.net > evidence.hold

\* One pbo per symbol and timeframe; a cohort too small or too short has none.
PboOfCell(series, pbo, splits) ==
  IF Cardinality(series) < 2 \/ \E s \in series : Len(s) < splits THEN NoPbo ELSE pbo

\* Buy and hold over the windows the strategy was tested on.
HoldReturn(close, w) ==
  LET bars == TestBars(w) \cap DOMAIN close
      first == CHOOSE b \in bars : \A c \in bars : b <= c
      last == CHOOSE b \in bars : \A c \in bars : c <= b
  IN IF Cardinality(bars) < 2 THEN <<>> ELSE <<(100 * (close[last] - close[first])) \div close[first]>>

BuyHold(close, windows) ==
  Mean(FoldSeq(LAMBDA w, returns : HoldReturn(close, w) \o returns, <<>>, windows))

\* The gate only demotes.
Gated(entry, evidence) ==
  IF entry.survived /\ ~PassesGate(evidence)
  THEN [entry EXCEPT !.survived = FALSE, !.status = "rejected"] ELSE entry
==============================================================================
