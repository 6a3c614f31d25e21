------------------------------- MODULE Slippage --------------------------------
(***************************************************************************)
(* The slippage model learned from live fills (execution/slippage_model,   *)
(* slippage_reconcile) and how a backtest reads it (backtest/runner.py).   *)
(*                                                                         *)
(* The rows recorded are a bag, here a sequence, of records [mode, symbol, *)
(* tf, side, expected, fill, notional, atr].  Prices and notionals are     *)
(* integers, slippage is in basis points.                                  *)
(***************************************************************************)
EXTENDS Integers, Sequences, FiniteSets, FiniteSetsExt, SequencesExt

NotionalEdges == {1000, 10000, 100000, 1000000}
VolEdges == {50, 100, 200, 400}
AssumedBps == 5

\* How many edges a value has reached.
Tier(value, edges) == Cardinality({edge \in edges : edge <= value})

NotionalTier(notional) == Tier(notional, NotionalEdges)
VolTier(atr, price) == IF price <= 0 \/ atr <= 0 THEN 0 ELSE Tier((10000 * atr) \div price, VolEdges)

BucketKey(symbol, tf, notional, atr, price) ==
  <<symbol, tf, NotionalTier(notional), VolTier(atr, price)>>

\* Positive where the fill was worse than the price the order was sent at.
AdverseBps(expected, fill, side) ==
  LET paid == IF side = "buy" THEN fill - expected ELSE expected - fill
  IN IF expected <= 0 THEN 0 ELSE (10000 * paid) \div expected

BucketOf(row) == BucketKey(row.symbol, row.tf, row.notional, row.atr, row.fill)
BpsOf(row) == AdverseBps(row.expected, row.fill, row.side)

\* The middle of the sorted values, or half way between the two in the middle.
Median(values) ==
  LET sorted == SortSeq(values, LAMBDA a, b : a < b)
      n == Len(values)
  IN (sorted[(n + 1) \div 2] + sorted[n \div 2 + 1]) \div 2

\* Only live fills teach.
LiveObservations(rows) == SelectSeq(rows, LAMBDA row : row.mode = "live")

Learn(observations, minSamples) ==
  [key \in {BucketOf(observations[k]) : k \in DOMAIN observations} |->
     LET fills == SelectSeq(observations, LAMBDA row : BucketOf(row) = key)
     IN [bps |-> Median([k \in DOMAIN fills |-> BpsOf(fills[k])]),
         samples |-> Len(fills), trusted |-> Len(fills) >= minSamples]]

\* {} is None: the bucket is unknown or not trusted yet.
LookupBps(model, key) ==
  {model[k].bps : k \in {known \in DOMAIN model : known = key /\ model[known].trusted}}

WorseThanAssumption(model, assumedBps, tolerance) ==
  {key \in DOMAIN model : model[key].trusted /\ model[key].bps > assumedBps + tolerance}

AffectedSymbolTf(worse) == {<<key[1], key[2]>> : key \in worse}

\* A pass learns anew, raises an event for each bucket that is worse, and asks
\* for the runs of its symbols again; those that fail are left out.
Reconcile(rows, assumedBps, tolerance, minSamples, rerunFails) ==
  LET model == Learn(LiveObservations(rows), minSamples)
      worse == WorseThanAssumption(model, assumedBps, tolerance)
  IN [model |-> model, events |-> worse,
      observations |-> MapThenSumSet(LAMBDA k : model[k].samples, DOMAIN model),
      reran |-> AffectedSymbolTf(worse) \ rerunFails]

-----------------------------------------------------------------------------
(***************************************************************************)
(* A backtest prices every bar for one size of order: what its capital can *)
(* buy at the start.  A bar whose bucket is not trusted costs the fallback.*)
(***************************************************************************)
RepresentativeNotional(initialCash, leverage, sizing, sizePct) ==
  (initialCash * (IF leverage < 1 THEN 1 ELSE leverage) * (IF sizing = "fixed" THEN sizePct ELSE 100))
    \div 100

LearnedSlippageSeries(model, symbol, tf, notional, fallback, close, atr) ==
  [i \in DOMAIN close |->
     LET learned == LookupBps(model, BucketKey(symbol, tf, notional, atr[i], close[i]))
     IN IF learned = {} THEN fallback ELSE CHOOSE bps \in learned : TRUE]
==============================================================================
