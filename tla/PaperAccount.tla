---------------------------- MODULE PaperAccount ----------------------------
(***************************************************************************)
(* The paper fill simulator (backend/app/execution/paper.py): cash, one    *)
(* net position per symbol, the marks the account is valued at, and the    *)
(* totals of realized pnl and funding.                                     *)
(*                                                                         *)
(* Prices and money are integers (ticks); rates are in basis points, as in *)
(* the code, and every product with a rate is rounded down.  A position's  *)
(* average entry is kept as its cost = qty * entry, so that averaging in   *)
(* loses nothing; a partial reduce keeps the share of the cost that the    *)
(* remaining quantity has, rounded down (the code rounds to a double).     *)
(* A position's leverage is left out: the simulator never reads it.        *)
(***************************************************************************)
EXTENDS Integers, FiniteSetsExt

CONSTANTS
  Symbols,          \* the symbols traded
  RefPrices,        \* reference prices an order or a mark may carry
  Lots,             \* order quantities
  FundingRates,     \* funding rates, in basis points, of either sign
  SlippageBps,      \* the simulator's slippage (5 in the code)
  CommissionBps,    \* the commission of one side (4 in the code)
  InitialCash,      \* the account's starting cash
  MaxOrders,        \* bound: orders placed
  MaxFunding        \* bound: size of the funding total

ASSUME SymbolsAssumption == IsFiniteSet(Symbols)
ASSUME PricesAssumption == RefPrices \subseteq Nat \ {0}
ASSUME LotsAssumption == Lots \subseteq Nat \ {0}
ASSUME RatesAssumption ==
  /\ FundingRates \subseteq Int
  /\ SlippageBps \in 0 .. 9999
  /\ CommissionBps \in Nat
ASSUME BoundsAssumption == InitialCash \in Int /\ MaxOrders \in Nat /\ MaxFunding \in Nat

VARIABLES
  cash,        \* Int: PaperAdapter._cash
  size,        \* [Symbols -> Int]: side * qty of _positions, 0 when the symbol has none
  cost,        \* [Symbols -> Nat]: qty * entry of the position, 0 when there is none
  mark,        \* [Symbols -> Nat]: _mark, 0 when the symbol was never marked
  realized,    \* Int: realized_pnl
  funding,     \* Int: total_funding
  orderSeq,    \* Nat: _order_seq
  reported,    \* [Symbols -> Int]: history, the realized_pnl of every Fill returned
  commission   \* Nat: history, the commission of every Fill returned

vars == <<cash, size, cost, mark, realized, funding, orderSeq, reported, commission>>

Sides == {1, -1}                               \* 1 buys, -1 sells
Abs(x) == IF x < 0 THEN -x ELSE x
Sign(x) == IF x < 0 THEN -1 ELSE IF x > 0 THEN 1 ELSE 0

(* The price a market order fills at: the reference price moved against it *)
(* by the slippage.  (The mutant moves it the other way.)                  *)
FillPrice_Favourable(side, ref) == ref - side * ((ref * SlippageBps) \div 10000)
FillPrice(side, ref) == ref + side * ((ref * SlippageBps) \div 10000)
FillPrices == {FillPrice(side, ref) : side \in Sides, ref \in RefPrices}

Commission(lot, fill) == (CommissionBps * lot * fill) \div 10000

Unrealized(s) == size[s] * mark[s] - Sign(size[s]) * cost[s]
Equity == cash + MapThenSumSet(Unrealized, Symbols)

TypeOK ==
  /\ cash \in Int
  /\ size \in [Symbols -> Int]
  /\ cost \in [Symbols -> Nat]
  /\ mark \in [Symbols -> Nat]
  /\ realized \in Int
  /\ funding \in Int
  /\ orderSeq \in 0 .. MaxOrders
  /\ reported \in [Symbols -> Int]
  /\ commission \in Nat

Init ==
  /\ cash = InitialCash
  /\ size = [s \in Symbols |-> 0]
  /\ cost = [s \in Symbols |-> 0]
  /\ mark = [s \in Symbols |-> 0]
  /\ realized = 0
  /\ funding = 0
  /\ orderSeq = 0
  /\ reported = [s \in Symbols |-> 0]
  /\ commission = 0
-----------------------------------------------------------------------------
(* The fill q nets into the position: does it only take some of it away?   *)
Reduces(q, now) ==
  now # 0 /\ Sign(now + q) = Sign(now) /\ Abs(now + q) < Abs(now)

(* The fill opens a position, or closes the one there is (and may reverse).*)
Closes(q, now) == now # 0 /\ Sign(now + q) # Sign(now)

(* The cost of the position a fill of q at price f leaves behind.  (The    *)
(* mutant loses the share of a reduce.)                                    *)
CostAfter_Kept(q, f, now, c) ==
  CASE Closes(q, now)  -> Abs(now + q) * f
    [] Reduces(q, now) -> c
    [] OTHER           -> c + Abs(q) * f
CostAfter(q, f, now, c) ==
  CASE Closes(q, now)  -> Abs(now + q) * f
    [] Reduces(q, now) -> (c * Abs(now + q)) \div Abs(now)
    [] OTHER           -> c + Abs(q) * f

(* The pnl the fill realizes on the part of the position it closes.  (The  *)
(* mutant realizes a reversal on the whole fill.)                          *)
Realizes_WholeFill(q, f, now, c) ==
  CASE Closes(q, now)  -> -q * f - Sign(now) * c
    [] Reduces(q, now) -> Sign(now) * (Abs(q) * f - (c - CostAfter(q, f, now, c)))
    [] OTHER           -> 0
Realizes(q, f, now, c) ==
  CASE Closes(q, now)  -> now * f - Sign(now) * c
    [] Reduces(q, now) -> Sign(now) * (Abs(q) * f - (c - CostAfter(q, f, now, c)))
    [] OTHER           -> 0

(* (The mutant forgets the commission.)                                    *)
CashAfter_NoCommission(lot, f, pnl) == cash + pnl
CashAfter(lot, f, pnl) == cash - Commission(lot, f) + pnl

(* place_order with the netting of _apply_fill.  An order without a        *)
(* positive reference price or quantity is rejected and changes nothing,   *)
(* so only the others are actions.                                         *)
PlaceOrder(s, side, lot, ref) ==
  LET f == FillPrice(side, ref)
      q == side * lot
      pnl == Realizes(q, f, size[s], cost[s])
  IN /\ orderSeq < MaxOrders
     /\ orderSeq' = orderSeq + 1
     /\ cash' = CashAfter(lot, f, pnl)
     /\ size' = [size EXCEPT ![s] = @ + q]
     /\ cost' = [cost EXCEPT ![s] = CostAfter(q, f, size[s], @)]
     /\ mark' = [mark EXCEPT ![s] = f]
     /\ realized' = realized + pnl
     /\ reported' = [reported EXCEPT ![s] = @ + pnl]
     /\ commission' = commission + Commission(lot, f)
     /\ UNCHANGED funding

(* mark: the last price used for mark-to-market equity.                    *)
Mark(s, price) ==
  /\ mark' = [mark EXCEPT ![s] = price]
  /\ UNCHANGED <<cash, size, cost, realized, funding, orderSeq, reported, commission>>

(* accrue_funding: one settlement on an open position; a long pays a       *)
(* positive rate, a short receives it, on the notional at entry.           *)
FundingPay(s, rate) == -Sign(size[s]) * ((cost[s] * rate) \div 10000)

AccrueFunding(s, rate) ==
  LET pay == FundingPay(s, rate)
  IN /\ size[s] # 0 /\ rate # 0
     /\ Abs(funding + pay) <= MaxFunding
     /\ cash' = cash + pay
     /\ funding' = funding + pay
     /\ UNCHANGED <<size, cost, mark, realized, orderSeq, reported, commission>>

Next ==
  \/ \E s \in Symbols, side \in Sides, lot \in Lots, ref \in RefPrices :
       PlaceOrder(s, side, lot, ref)
  \/ \E s \in Symbols, price \in RefPrices : Mark(s, price)
  \/ \E s \in Symbols, rate \in FundingRates : AccrueFunding(s, rate)

Spec == Init /\ [][Next]_vars
-----------------------------------------------------------------------------
(* Refinement.  With the fills' reported pnl taken off the cost of the     *)
(* positions, what is left is the money paid: the account, for all its     *)
(* netting and averaging, is the plain ledger of AccountLedger             *)
(* (paper.py:156-190 against the promise of its docstring, "Cash           *)
(* accounting mirrors the backtest engine exactly").                       *)
Ledger == INSTANCE AccountLedger WITH
  holding <- size,
  paid <- [s \in Symbols |-> Sign(size[s]) * cost[s] - reported[s]],
  charges <- commission - funding

ImplementsLedger == Ledger!LedgerSpec

(* Cash is the initial cash, plus the pnl the fills reported to the bot,   *)
(* less their commissions, plus the funding: what the trades table adds up *)
(* to is what the account holds (paper.py:71-73, 123-131, 188-190).        *)
Reported(s) == reported[s]
CashIsBooked ==
  /\ cash = InitialCash + MapThenSumSet(Reported, Symbols) - commission + funding
  /\ realized = MapThenSumSet(Reported, Symbols)

(* However a position was built up, reduced and reversed, its average      *)
(* entry lies between the lowest and the highest price ever fillable, and  *)
(* a symbol without a position carries no cost into the next one           *)
(* (paper.py:156-190).                                                     *)
EntryWithinFills ==
  \A s \in Symbols :
    /\ size[s] = 0 => cost[s] = 0
    /\ size[s] # 0 => /\ \E f \in FillPrices : Abs(size[s]) * f <= cost[s]
                     /\ \E f \in FillPrices : cost[s] <= Abs(size[s]) * f

(* Trading alone never makes money: valued at the reference price of the   *)
(* order, the account is worth no more after the fill than before, whether *)
(* the fill opens, adds, reduces, closes or reverses (paper.py:66-73).     *)
WorthAt(s, price) == cash + size[s] * price - Sign(size[s]) * cost[s]
OrdersOnlyCost ==
  [][\A s \in Symbols, ref \in RefPrices, side \in Sides :
       (/\ orderSeq' # orderSeq
        /\ Sign(size'[s] - size[s]) = side
        /\ mark'[s] = FillPrice(side, ref))
       => WorthAt(s, ref)' <= WorthAt(s, ref)]_vars
=============================================================================
