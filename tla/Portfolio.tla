------------------------------- MODULE Portfolio -------------------------------
(***************************************************************************)
(* Capital allocation and netting (backend/app/portfolio: allocation,      *)
(* correlation, netting, service).  Weights and correlations are percent,  *)
(* rounded down; a volatility divides Unit.                                *)
(*                                                                         *)
(* vol, edge and locked are functions of the strategies, corr of the pairs *)
(* of them.  The daily returns they are measured on are left out.          *)
(***************************************************************************)
EXTENDS Integers, FiniteSets, FiniteSetsExt, Functions

LOCAL Least(a, b) == IF a < b THEN a ELSE b
Magnitude(n) == IF n < 0 THEN -n ELSE n
LOCAL Root(n) == CHOOSE r \in 0..n : r * r <= n /\ n < (r + 1) * (r + 1)

Unit == 1200
MaxStrategyWeight == 25
QuarterKelly(edge, vol) == IF vol = 0 THEN 0 ELSE (25 * edge) \div (vol * vol)

OneOver(vol) == IF vol > 0 THEN Unit \div vol ELSE 0

\* Without any volatility every strategy weighs the same, or nothing.
InverseVol(vol) ==
  LET total == SumFunction([s \in DOMAIN vol |-> OneOver(vol[s])])
  IN [s \in DOMAIN vol |-> IF total = 0 THEN 0 ELSE (100 * OneOver(vol[s])) \div total]

UnitInverseVol(vol) ==
  IF \A s \in DOMAIN vol : vol[s] = 0
  THEN [s \in DOMAIN vol |-> 100 \div Cardinality(DOMAIN vol)]
  ELSE InverseVol(vol)

Kelly(edge, vol) ==
  [s \in DOMAIN vol |->
     IF edge[s] < 0 THEN 0 ELSE Least(QuarterKelly(edge[s], vol[s]), MaxStrategyWeight)]

Covariance(vol, corr, s, t) == vol[s] * corr[s, t] * vol[t]

PortfolioVariance(weight, vol, corr) ==
  MapThenSumSet(LAMBDA p : weight[p[1]] * Covariance(vol, corr, p[1], p[2]) * weight[p[2]],
                (DOMAIN vol) \X (DOMAIN vol)) \div 100

\* The direction is scaled to the volatility aimed at.
EqualRisk(vol, corr, targetVol) ==
  LET direction == UnitInverseVol(vol)
      variance  == PortfolioVariance(direction, vol, corr)
  IN IF variance <= 0 THEN direction
     ELSE [s \in DOMAIN vol |-> (100 * direction[s] * targetVol) \div Root(variance)]

Weights(method, vol, edge, locked, corr, targetVol) ==
  CASE method = "manual"      -> locked
    [] method = "kelly"       -> Kelly(edge, vol)
    [] method = "inverse_vol" -> InverseVol(vol)
    [] method = "equal_risk"  -> EqualRisk(vol, corr, targetVol)

Allocate(method, vol, edge, locked, corr, targetVol) ==
  LET weight == Weights(method, vol, edge, locked, corr, targetVol)
  IN [s \in DOMAIN vol |-> Least(weight[s], MaxStrategyWeight)]

-----------------------------------------------------------------------------
(***************************************************************************)
(* The correlation gate and the snapshot.                                  *)
(***************************************************************************)
MaxAbsCorrelation(s, pool, corr) ==
  LET rhos == {Magnitude(corr[s, t]) : t \in pool \ {s}}
  IN IF rhos = {} THEN 0 ELSE CHOOSE r \in rhos : \A q \in rhos : q <= r

GateFactor(rho, threshold) ==
  IF rho <= threshold THEN 100
  ELSE IF rho >= 100 THEN 0 ELSE (100 * (100 - rho)) \div (100 - threshold)

\* Each live strategy against every other one, whichever came first.
Targets(live, method, vol, edge, locked, corr, targetVol, threshold) ==
  LET own(f) == [s \in live |-> f[s]]
      target == Allocate(method, own(vol), own(edge), own(locked), corr, targetVol)
  IN [s \in live |->
        (target[s] * GateFactor(MaxAbsCorrelation(s, live, corr), threshold)) \div 100]

-----------------------------------------------------------------------------
(***************************************************************************)
(* Netting.  A leg is [strategy, side, notional], long 1 and short -1; the *)
(* legs are of one symbol.                                                 *)
(***************************************************************************)
Signed(leg) == leg.side * leg.notional

Net(legs) == MapThenSumSet(Signed, legs)
Gross(legs) == MapThenSumSet(LAMBDA leg : leg.notional, legs)

NetSide(legs) == IF Net(legs) > 0 THEN 1 ELSE IF Net(legs) < 0 THEN -1 ELSE 0

\* What a strategy holds, and how the pnl of a close is shared out.
Held(legs, s) == Net({leg \in legs : leg.strategy = s})
Holders(legs) == {leg.strategy : leg \in legs}

Denominator(legs) ==
  IF Net(legs) # 0 THEN Net(legs)
  ELSE MapThenSumSet(LAMBDA s : Magnitude(Held(legs, s)), Holders(legs))

AttributePnl(pnl, legs) ==
  LET d == Denominator(legs)
      due == IF d > 0 THEN pnl ELSE -pnl
  IN [s \in Holders(legs) |->
        IF d = 0 THEN pnl \div Cardinality(Holders(legs))
        ELSE (due * Held(legs, s)) \div Magnitude(d)]

\* Risk is counted once: the share of equity that is one way.
ConcentrationPct(legs, equity) ==
  (100 * Magnitude(Net(legs))) \div (IF equity > 0 THEN equity ELSE 1)
Concentrated(legs, equity, limit) == ConcentrationPct(legs, equity) > limit
==============================================================================
