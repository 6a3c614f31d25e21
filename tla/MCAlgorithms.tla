----------------------------- MODULE MCAlgorithms -----------------------------
(***************************************************************************)
(* The pure algorithms against what is expected of them, over bounded      *)
(* inputs.  MCPipeline extends this module, so its run evaluates every     *)
(* assumption here.  A name that begins with Allows states what the code   *)
(* lets happen and a reader may not expect.                                *)
(***************************************************************************)
EXTENDS Integers, Sequences, FiniteSets, FiniteSetsExt, SequencesExt, TLC

CONSTANT Missing

Port   == INSTANCE Portfolio
Wfo    == INSTANCE WalkForward
Sig    == INSTANCE Rules
Slip   == INSTANCE Slippage
Record == INSTANCE TrackRecord
Scan   == INSTANCE Discovery
Size   == INSTANCE Sizing

LOCAL Abs(n) == IF n < 0 THEN -n ELSE n
LOCAL Summed(f) == MapThenSumSet(LAMBDA x : f[x], DOMAIN f)
LOCAL UpTo(n, S) == UNION {[1..k -> S] : k \in 0..n}

-----------------------------------------------------------------------------
(***************************************************************************)
(* Sizing.                                                                 *)
(***************************************************************************)
\* The margin of a position never exceeds the equity, and risk sizing loses at
\* its stop no more than the share of equity it was given.
ASSUME SizeIsCovered ==
  \A equity \in {0, 50, 999}, price \in {1, 7, 40}, leverage \in 1..3,
     risk \in {50, 400}, stop \in 0..3, sizing \in {"atr", "fixed"} :
    LET qty == Size!PositionSize(sizing, equity, price, leverage, risk, stop, 5000)
    IN /\ qty * price <= equity * leverage
       /\ sizing = "atr" => 10000 * qty * stop <= equity * risk

\* A liquidation level is on the losing side of its entry and leaves it some room.
ASSUME LiquidationLoses ==
  \A entry \in {10000, 25000}, side \in {1, -1}, leverage \in 1..20, maintenance \in {40, 500} :
    LET level == Size!LiquidationPrice(entry, side, leverage, maintenance)
    IN level # 0 => side * (entry - level) > 0 /\ Abs(entry - level) * leverage <= entry + leverage

-----------------------------------------------------------------------------
(***************************************************************************)
(* Capital allocation and netting.                                         *)
(***************************************************************************)
Two == {"a", "b"}
Twins == [p \in Two \X Two |-> 100]
Apart == [p \in Two \X Two |-> IF p[1] = p[2] THEN 100 ELSE 0]

\* Shares by inverse volatility never sum past the whole, and the calmer has more.
ASSUME SharesOfTheWhole ==
  \A vol \in [Two -> {0, 2, 5, 12}] :
    LET w == Port!InverseVol(vol)
    IN Summed(w) <= 100 /\ (0 < vol["a"] /\ vol["a"] < vol["b"] => w["a"] >= w["b"])

\* Under equal risk two clones together get the budget one alone would get ...
ASSUME ClonesShareOneBudget ==
  \A vol \in {2, 4, 5}, target \in 1..3 :
    LET both == Port!EqualRisk([s \in Two |-> vol], Twins, target)
        one == Port!EqualRisk([s \in {"a"} |-> vol], Twins, target)
    IN Summed(both) \in one["a"] - 1..one["a"]

\* ... until the cap, which is each one's own: the clones then hold twice as much.
ASSUME AllowsClonesTwoCaps ==
  LET none == [s \in Two |-> 0]
  IN Summed(Port!Allocate("equal_risk", [s \in Two |-> 2], none, none, Twins, 3)) = 50

\* The gate never rewards correlation, and takes two perfect clones out both.
ASSUME GateTakesBoth ==
  /\ \A threshold \in {0, 30, 70}, rho \in 0..99 :
       Port!GateFactor(rho + 1, threshold) <= Port!GateFactor(rho, threshold)
  /\ LET none == [s \in Two |-> 0]
         vol == [s \in Two |-> 3]
         With(corr) == Port!Targets(Two, "inverse_vol", vol, none, none, corr, 1, 70)
     IN Summed(With(Twins)) = 0 /\ Summed(With(Apart)) = 50

Legs == [strategy : Two, side : {1, -1}, notional : {1, 3}]
FewLegs == {legs \in SUBSET Legs : Cardinality(legs) <= 3}

\* What nets out is never more than what was bought and sold, and it is all of it
\* only when nobody is on the other side.
ASSUME NettingSaves ==
  \A legs \in FewLegs :
    /\ Abs(Port!Net(legs)) <= Port!Gross(legs)
    /\ Abs(Port!Net(legs)) = Port!Gross(legs) <=> \A l, m \in legs : l.side = m.side

\* A pnl is handed out whole while something is held net, and not at all when the
\* strategies hedge one another completely.
ASSUME PnlIsHandedOut ==
  \A legs \in FewLegs \ {{}} :
    LET shares == Summed(Port!AttributePnl(420, legs))
    IN IF Port!Net(legs) # 0 THEN shares = 420
       ELSE Port!Denominator(legs) # 0 => shares = 0

-----------------------------------------------------------------------------
(***************************************************************************)
(* Walk-forward.                                                           *)
(***************************************************************************)
\* Windows stay in the data and follow one another by the step, as many as fit.
\* The bounds are inclusive: training and test share the bar between them, and
\* test windows share bars when the step is no longer than the test.
ASSUME WindowsFit ==
  \A end \in 0..11, train \in 1..3, test \in 1..3, step \in 0..3 :
    LET ws == Wfo!Windows(0, end, train, test, step)
        rolling == Wfo!RollingWindows(0, end, train, test, step)
        stride == IF step = 0 THEN 1 ELSE step
    IN /\ \A k \in DOMAIN ws : /\ ws[k].trainStart >= 0 /\ ws[k].testEnd <= end
                               /\ Wfo!TrainBars(ws[k]) \cap Wfo!TestBars(ws[k]) = {ws[k].testStart}
       /\ rolling # <<>> => Last(ws).testEnd + stride > end
       /\ \A k \in 1..(Len(ws) - 1) :
            Wfo!TestBars(ws[k]) \cap Wfo!TestBars(ws[k + 1]) # {} <=> stride <= test

\* A genome of one parameter p, between two neighbours; its two folds and the
\* whole span report one of four outcomes.
Reports == {[ok |-> FALSE, score |-> 0, net |-> 0, trades |-> 0, filters |-> FALSE],
            [ok |-> TRUE, score |-> -2, net |-> -1, trades |-> 4, filters |-> TRUE],
            [ok |-> TRUE, score |-> 3, net |-> -1, trades |-> 4, filters |-> TRUE],
            [ok |-> TRUE, score |-> 4, net |-> 3, trades |-> 4, filters |-> TRUE]}
P(n) == [p |-> n]
Spans == {<<P(1), 0, 4>>, <<P(2), 0, 4>>, <<P(3), 0, 4>>, <<P(2), 2, 3>>, <<P(2), 3, 4>>}
Worlds == [Spans -> Reports]
Data == [first |-> 0, last |-> 4, bars |-> 50]
Cfg == [train |-> 2, test |-> 1, step |-> 1, reoptimize |-> FALSE, steps |-> 1, plateau |-> 70,
        minBars |-> 50, keep |-> 50, minTrades |-> 5]
Specs == [p |-> [min |-> 1, max |-> 3, step |-> 1]]
Tuned == P(2)
InSample(world) == world[<<Tuned, 0, 4>>].score
Verdict(world) ==
  Wfo!WalkForward(Data, Cfg, Tuned, Specs, InSample(world), <<>>, world)
Folds(world) == {world[<<Tuned, 2, 3>>], world[<<Tuned, 3, 4>>]}

\* A survivor earned something out of sample on enough trades, and no neighbour
\* falls below its share of the score.
ASSUME SurvivorsEarnedIt ==
  \A world \in Worlds : Verdict(world).survived =>
    /\ \E fold \in Folds(world) : fold.ok /\ fold.net > 0
    /\ Wfo!OosTrades(<<world[<<Tuned, 2, 3>>], world[<<Tuned, 3, 4>>]>>) >= 5
    /\ \A p \in {1, 3} : 100 * Wfo!ScoreOr(world[<<P(p), 0, 4>>], 0) >= 70 * InSample(world)

\* A fold that lost money does not stop a scan's survivor.
ASSUME AllowsLosingFold ==
  \E world \in Worlds : Verdict(world).survived /\ \E fold \in Folds(world) : fold.net < 0

\* A genome that is tuned again survives on its score alone: it may have lost
\* money in every fold.
ASSUME AllowsLosingReopt ==
  \E world \in Worlds :
    /\ \A fold \in Folds(world) : fold.net < 0
    /\ world[<<Tuned, 0, 4>>].ok
    /\ \A p \in {1, 3} : Wfo!ScoreOr(world[<<P(p), 0, 4>>], -9) < InSample(world)
    /\ Wfo!Propose(Data, Cfg, Tuned, Specs, {P(1), Tuned, P(3)}, Wfo!NoWindow, world)
         = {[params |-> Tuned, survived |-> TRUE]}

\* No evidence is not good evidence: a pbo that could not be computed fails, and
\* nothing the gate sees comes out better than it went in.
ASSUME GateOnlyDemotes ==
  \A dsr \in {90, 99}, pbo \in {Wfo!NoPbo, 0, 40}, trades \in {29, 30}, net \in {1, 2}, survived \in BOOLEAN :
    LET evidence == [dsr |-> dsr, pbo |-> pbo, trades |-> trades, net |-> net, hold |-> 1]
        after == Wfo!Gated([survived |-> survived, status |-> "candidate"], evidence)
    IN after.survived => survived /\ pbo # Wfo!NoPbo /\ net > 1

\* Holding through windows earns what the price did in them.
ASSUME HoldingIsMeasured ==
  LET ws == Wfo!Windows(1, 6, 2, 1, 1)
  IN /\ Wfo!BuyHold([b \in 1..6 |-> 10], ws) = 0
     /\ Wfo!BuyHold([b \in 1..6 |-> 10 * b], ws) = (33 + 25 + 20) \div 3
     /\ Wfo!BuyHold([b \in 1..2 |-> 10], ws) = 0

-----------------------------------------------------------------------------
(***************************************************************************)
(* Rules.                                                                  *)
(***************************************************************************)
Values == {Missing, -1, 0, 2}
Series == [1..3 -> Values]
X == <<"x">>
Y == <<"y">>
Clause(primitive, args) == args @@ [primitive |-> primitive]
LookingBack ==
  {Clause("slope", [x |-> X, lookback |-> n, direction |-> d, eps |-> 0]) :
     n \in 0..2, d \in {"up", "down", "flat"}}
  \union {Clause("threshold_cross", [x |-> X, level |-> 0, direction |-> d]) : d \in {"up", "down", "cross"}}
  \union {Clause("line_cross", [a |-> X, b |-> Y, direction |-> d]) : d \in {"up", "down", "cross"}}
  \union {Clause("band_touch", [price |-> X, upper |-> Y, lower |-> Y, touch |-> t]) :
            t \in {"touch_upper", "touch_lower", "break_upper", "break_lower", "revert_upper", "revert_lower"}}
  \union {Clause("regime", [x |-> X, op |-> o, low |-> 0, high |-> 2]) : o \in {"gt", "ge", "lt", "le", "between"}}
  \union {Clause("pattern", [series |-> X, direction |-> d]) : d \in {"any", "bullish", "bearish"}}
LookingAhead == Clause("slope", [x |-> X, lookback |-> -1, direction |-> "up", eps |-> 0])

Both(x, y) == (X :> x) @@ (Y :> y)
UpToBar(ops, i) == [name \in DOMAIN ops |-> SubSeq(ops[name], 1, i)]

\* What a clause says of a bar it says whatever the later bars hold ...
ASSUME NoClauseLooksAhead ==
  \A clause \in LookingBack, x \in Series, y \in {<<0, 0, 0>>, <<Missing, -1, 0>>, <<2, 0, -1>>}, i \in 1..3 :
    Sig!BuildClause(clause, Both(x, y), i) = Sig!BuildClause(clause, UpToBar(Both(x, y), i), i)

\* ... but for a slope that is given a negative lookback, which nothing refuses.
ASSUME AllowsNegativeLookback ==
  \E x \in Series : Sig!BuildClause(LookingAhead, Both(x, x), 2)
                      # Sig!BuildClause(LookingAhead, UpToBar(Both(x, x), 2), 2)

\* While an indicator has no value no clause that reads it fires, except one
\* that asks for any pattern: it fires all through the warm-up.
ASSUME OnlyAnyPatternFiresOnMissing ==
  {clause \in LookingBack : \E x \in Series, i \in 1..3 :
     x[i] = Missing /\ Sig!BuildClause(clause, Both(x, x), i)}
    = {Clause("pattern", [series |-> X, direction |-> "any"])}

\* The bot at the last bar and a backtest over the same bars read the same rules
\* the same way.
Oscillator == [long_entry  |-> <<Clause("threshold_cross", [x |-> X, level |-> 0, direction |-> "up"]),
                                 Clause("pattern", [series |-> Y, direction |-> "any"])>>,
               long_exit   |-> <<Clause("slope", [x |-> X, lookback |-> 1, direction |-> "down", eps |-> 0])>>,
               short_entry |-> <<Clause("line_cross", [a |-> X, b |-> <<"close">>, direction |-> "down"])>>,
               short_exit  |-> <<>>]
Prices == ("close" :> <<0, 2, 0>>)
Frames(x, y) == [k \in {"x", "y"} |-> [value |-> IF k = "x" THEN x ELSE y]]
ASSUME BotReadsAsBacktest ==
  \A x \in Series, direction \in {"long", "short", "both"} :
    LET signals == Sig!BuildSignals(Oscillator, Sig!ResolveOperands(Prices, Frames(x, <<0, Missing, 2>>)),
                                    direction, 3)
        latest == Sig!EvaluateLatest(Oscillator, direction, Prices, Frames(x, <<0, Missing, 2>>), 3)
    IN /\ \A g \in DOMAIN signals : latest.verdict[g] <=> 3 \in signals[g]
       /\ \A g \in DOMAIN latest.reason : latest.reason[g] # <<>> /\ 3 \in signals[g]

\* Nothing that a clause reads is missing when no operand is unknown.
ASSUME UnknownOperandsAreFound ==
  \A frames \in {Frames(<<0>>, <<0>>), [k \in {"x"} |-> [value |-> <<0>>]],
                  [k \in {"x", "y"} |-> [value |-> <<0>>, hist |-> <<0>>]]} :
    LET ops == Sig!ResolveOperands(("close" :> <<0>>), frames)
    IN Sig!UnknownOperands(Oscillator, ops) = {X, Y, <<"close">>} \ DOMAIN ops

-----------------------------------------------------------------------------
(***************************************************************************)
(* Slippage.                                                               *)
(***************************************************************************)
Row(mode, fill, notional) ==
  [mode |-> mode, symbol |-> "btc", tf |-> "1h", side |-> "buy", expected |-> 1000, fill |-> fill,
   notional |-> notional, atr |-> 3]
SomeRows == {Row(m, f, n) : m \in {"live", "paper"}, f \in {999, 1002}, n \in {500, 5000}}
Learned(rows) == Slip!Reconcile(rows, Slip!AssumedBps, 0, 2, {}).model

\* Half of the fills are no better and half no worse than what is learned.
ASSUME MedianIsInTheMiddle ==
  \A fills \in UpTo(4, -2..2) \ {<<>>} :
    LET m == Slip!Median(fills)
    IN /\ 2 * Cardinality({k \in DOMAIN fills : fills[k] <= m}) >= Len(fills)
       /\ 2 * Cardinality({k \in DOMAIN fills : fills[k] >= m}) >= Len(fills)

\* The model is of the live fills alone, counts each of them once, and does not
\* depend on the order they came in.
ASSUME LiveFillsTeach ==
  \A rows \in UpTo(3, SomeRows) :
    LET report == Slip!Reconcile(rows, Slip!AssumedBps, 0, 2, {})
        live == SelectSeq(rows, LAMBDA r : r.mode = "live")
    IN /\ report.observations = Len(live)
       /\ report.model = Learned(live) /\ report.model = Learned(Reverse(rows))
       /\ \A key \in report.events : report.model[key].samples >= 2 /\ <<key[1], key[2]>> \in report.reran

\* A bucket that costs more than assumed need not reach the backtest asked for
\* again: the backtest looks the slippage up for one size of order.
ASSUME AllowsUnreadBucket ==
  \E rows \in UpTo(2, SomeRows) :
    LET report == Slip!Reconcile(rows, Slip!AssumedBps, 0, 2, {})
        notional == Slip!RepresentativeNotional(10000, 1, "fixed", 95)
    IN /\ report.reran # {}
       /\ Slip!LearnedSlippageSeries(report.model, "btc", "1h",
            Slip!RepresentativeNotional(30000, 1, "fixed", 95), 5, <<1000, 1000>>, <<3, 3>>) = <<5, 5>>
       /\ Slip!LearnedSlippageSeries(report.model, "btc", "1h", notional, 5, <<1000>>, <<3>>) = <<20>>

-----------------------------------------------------------------------------
(***************************************************************************)
(* Track records.                                                          *)
(***************************************************************************)
Equities(pnls) == [k \in 0..Len(pnls) |-> 100 + MapThenSumSet(LAMBDA i : pnls[i], 1..k)]

\* The drawdown is the deepest fall of the equity below an earlier height of it.
ASSUME DrawdownIsTheDeepestFall ==
  \A pnls \in UpTo(4, {-25, -10, 30, 80}) :
    LET e == Equities(pnls)
    IN Record!RealizedMaxDrawdown(pnls, 100)
         = Max({Record!Fall(e[i], e[j]) : <<i, j>> \in {p \in (DOMAIN e) \X (DOMAIN e) : p[1] <= p[2]}})

TradeOf(n, strategy, mode, pnl) ==
  [strategy |-> strategy, mode |-> mode, status |-> "closed", entry |-> n, exit |-> n, pnl |-> pnl]
Histories(n) == {{TradeOf(k, "s", "paper", pnls[k]) : k \in 1..n} : pnls \in [1..n -> {-20, 30, Missing}]}
Health == [window |-> 3, minTrades |-> 3, minPf |-> 100]
Gate == [minTrades |-> 4, minTime |-> 10, minPf |-> 130, maxDrawdown |-> 6000]
Cash == [s \in {"s", "t"} |-> 100]

\* Neither the gate nor the degradation of a strategy depends on another strategy's
\* trades, on live ones or on the order of the records.
ASSUME RecordIsItsOwn ==
  \A trades \in Histories(4), other \in {TradeOf(5, "t", "paper", -90), TradeOf(5, "s", "live", -90)} :
    /\ Record!EvaluateDegradation(trades \union {other}, "s", Health, 3000, 100)
         = Record!EvaluateDegradation(trades, "s", Health, 3000, 100)
    /\ Record!StrategyGate(Gate, trades \union {other}, "s", Cash, 20, TRUE)
         <=> Record!StrategyGate(Gate, trades, "s", Cash, 20, TRUE)

\* The desk may go live exactly when some strategy could and the plumbing is ready.
ASSUME DeskFollowsAStrategy ==
  \A trades \in Histories(4), ready \in BOOLEAN :
    /\ Record!EvaluateGate("strategy", Missing, Gate, trades, Cash, 20, ready)
         <=> \E s \in DOMAIN Cash : Record!EvaluateGate("strategy", s, Gate, trades, Cash, 20, ready)
    /\ ~Record!EvaluateGate("global", Missing, Gate, trades, Cash, 20, FALSE)

\* Degradation looks at the last trades and the gate at all of them: a strategy that
\* was paused for the one may be let through by the other at the same moment.
ASSUME AllowsPromotingTheDegraded ==
  \E pnls \in [1..6 -> {-20, 30}] :
    LET trades == {TradeOf(k, "s", "paper", pnls[k]) : k \in 1..6}
    IN /\ Record!EvaluateDegradation(trades, "s", Health, Missing, 100) # {}
       /\ Record!StrategyGate(Gate, trades, "s", Cash, 20, TRUE)

\* A strategy that never lost is never degraded, however young its record is.
ASSUME WinnersStay ==
  \A trades \in Histories(3) :
    (\A t \in trades : t.pnl # -20) =>
      Record!EvaluateDegradation(trades, "s", Health, 1, 100) = {}

\* The volatility of a market never stops a strategy, and no label stops none.
ASSUME VolatilityStopsNobody ==
  \A adx \in {10, 30}, atr \in UpTo(3, {Missing, 1, 2}), version \in {"trend", "range"} :
    LET market == Record!ClassifyRegime(adx, atr, [lookback |-> 2, need |-> 2, trend |-> 25, high |-> 50])
    IN /\ Record!RegimeMatches({<<version, "low">>}, market)
            <=> (Len(atr) < 2 \/ ((adx >= 25) <=> (version = "trend")))
       /\ Record!RegimeMatches({}, market)

\* Only shared moments count, so a live series that runs with paper shows no error,
\* and two series that share fewer than three moments show nothing.
ASSUME TrackingIsOnSharedMoments ==
  \A live \in [{1, 2, 4, 5} -> {100, 110}], more \in {3, 6} :
    LET paper == [t \in {1, 2, 4, 5} |-> 100]
    IN /\ Record!TrackingError(live, live) = {<<0, 6>>}
       /\ Record!TrackingError(live @@ (more :> 500), paper) = Record!TrackingError(live, paper)
       /\ Record!Narrowed(live, paper, 3) = {}

-----------------------------------------------------------------------------
(***************************************************************************)
(* The scan.                                                               *)
(***************************************************************************)
Ids == 1..3
Items(score) == {[id |-> i, score |-> score[i], vector |-> <<i>>] : i \in Ids}
Pairs == {p \in SUBSET Ids : Cardinality(p) = 2}
Vectors == {<<i>> : i \in Ids}
RhoOf(alike) == [p \in Vectors \X Vectors |-> IF {p[1][1], p[2][1]} \in alike THEN -90 ELSE 10]

\* No two that are kept say the same, and each that was dropped says the same as
\* one that was kept and is at least as good.
ASSUME OneSeatPerCluster ==
  \A score \in [Ids -> {1, 2}], alike \in SUBSET Pairs :
    LET rho == RhoOf(alike)
        kept == Scan!Survivors(Items(score), 70, rho)
    IN /\ \A a \in kept, b \in kept : a # b => ~Scan!Correlated(a, b, 70, rho)
       /\ \A a \in Items(score) \ kept :
            \E b \in kept : b.score >= a.score /\ Scan!Correlated(a, b, 70, rho)

\* Twins whose scans failed on different cells are not compared at all: both stay.
Cells == <<<<"btc", "1h">>, <<"eth", "1h">>>>
ScanOf(id, symbol, category, score) ==
  [id |-> id, category |-> category, symbol |-> symbol, tf |-> "1h", score |-> score, entries |-> <<1, 0>>]
Alike == [p \in {<<1, 0>>, <<1, 0, 1, 0>>} \X {<<1, 0>>, <<1, 0, 1, 0>>} |-> 100]
ASSUME AllowsTwinWithAHole ==
  LET whole == {ScanOf(1, "btc", "momentum", 1), ScanOf(1, "eth", "momentum", 1)}
      Kept(scans) == Scan!Survivors({Scan!Pooled(scans, i, Cells) : i \in 1..2}, 70, Alike)
  IN /\ Cardinality(Kept(whole \union {ScanOf(2, "btc", "momentum", 1), ScanOf(2, "eth", "momentum", 1)})) = 1
     /\ Cardinality(Kept(whole \union {ScanOf(2, "btc", "momentum", 1)})) = 2

\* A combination has one of each role on one cell, none that was left out is better
\* than one that goes on, and everything that was tried is counted.
Scored == {ScanOf(1, "btc", "momentum", 1), ScanOf(2, "btc", "pattern", 2), ScanOf(3, "btc", "trend", 1),
           ScanOf(4, "btc", "volatility", 3), ScanOf(5, "eth", "price", 2), ScanOf(6, "eth", "volume", 2),
           ScanOf(7, "eth", "volatility", 1), ScanOf(8, "btc", "other", 9)}
Ids8 == 1..8
Place == [key \in Ids8 \X Ids8 \X Ids8 \X {"btc", "eth"} \X {"1h"} |-> 64 * key[1] + 8 * key[2] + key[3]]
ASSUME CombosSpanTheRoles ==
  \A pool \in 1..2, top \in 0..3 :
    LET built == Scan!BuildCombos(Scored, ToSet(Cells), pool, top, Place)
        every == Scan!BuildCombos(Scored, ToSet(Cells), pool, 9, Place).kept
    IN /\ \A c \in every : /\ c.trigger.symbol = c.filter.symbol /\ c.filter.symbol = c.exit.symbol
                            /\ Cardinality({c.trigger.category, c.filter.category, c.exit.category}) = 3
       /\ \A c \in built.kept, d \in every \ built.kept : Scan!Score3(c) >= Scan!Score3(d)
       /\ built.tried = pool + 1 /\ Cardinality(built.kept) = Min({top, built.tried})

\* A filter alone never opens a position and never closes one, and a side that is
\* not traded has no clauses at all.
ASSUME FiltersOnlyConfirm ==
  \A category \in Scan!Triggers, oscillator \in BOOLEAN, direction \in {"long", "short", "both"} :
    LET own == Scan!StandaloneRules(category, oscillator, "trig", direction)
        rules == Scan!ComboRules([trigger |-> [category |-> category]], oscillator, direction)
    IN \A g \in DOMAIN rules :
         /\ own[g] = {} <=> rules[g] = {}
         /\ g \in {"long_exit", "short_exit"} => rules[g] = own[g]
         /\ own[g] = {} <=> g \notin Sig!Allowed(direction)

\* The leaderboard ranks all that was validated by what it made out of sample, and
\* only the first few are run again.
ASSUME LeaderboardIsOrdered ==
  \A oos \in [1..2 -> {1, 2}], survived \in [1..2 -> BOOLEAN], topK \in 0..2 :
    LET combos == SetToSeq(Scan!BuildCombos(Scored, ToSet(Cells), 1, 2, Place).kept)
        entries == {[combo |-> combos[k], oos |-> oos[k], survived |-> survived[k]] : k \in 1..2}
        result == Scan!ScanResult(entries, 2, topK, Place, [e \in entries |-> {e.combo}])
    IN /\ ToSet(result.leaderboard) = entries
       /\ result.leaderboard[1].oos >= result.leaderboard[2].oos
       /\ Cardinality(result.candidates) = Cardinality({k \in 1..2 : survived[k]})
       /\ Cardinality(result.alarms) = topK
==============================================================================
