---------------------------- MODULE BacktestEngine ----------------------------
(***************************************************************************)
(* The lean backtest engine (backend/app/backtest/engine.py): bar by bar,  *)
(* funding on the carried position, exits and then entries at the open,    *)
(* liquidation inside the bar's range, the mark at the close; after the    *)
(* last bar the position is marked out without costs.                      *)
(*                                                                         *)
(* A bar and the signals of the bar before it are any; prices and money    *)
(* are integers, rates basis points, a level that is not set is 0.  The    *)
(* slippage models differ in the size of the adverse move only.            *)
(***************************************************************************)
EXTENDS Integers, FiniteSets, Sizing

CONSTANTS
  BarShapes,       \* the bars there may be: [open, high, low, close]
  Configs,         \* [limit, sizing, leverage, stop, target]: capital, costs and exits
  Atrs,            \* the ATR at a signal bar, 0 in the warm-up
  FundingRates,    \* sums of the rates settled in a bar
  SlipBps, TakerBps, MakerBps, RiskBps, FractionBps, MaintenanceBps,
  InitialCapital,
  LastIndex        \* bound: the bars of a run

\* What the constants stand for.
ASSUME BacktestConstants ==
  /\ BarShapes \subseteq [open : Nat, high : Nat, low : Nat, close : Nat]
  /\ Configs \subseteq [limit : BOOLEAN, sizing : {"fixed", "atr"},
                        leverage : Nat, stop : Nat, target : Nat]
  /\ Atrs \subseteq Nat /\ FundingRates \subseteq Int
  /\ {SlipBps, TakerBps, MakerBps, RiskBps, FractionBps, MaintenanceBps} \subseteq Nat
  /\ InitialCapital \in Nat /\ LastIndex \in Nat

VARIABLES
  config,
  index, moment,    \* the bar being simulated and where in it
  prices, before,   \* this bar; the close of the last one
  signals,          \* the groups that fired at the last bar
  money,            \* cash
  pos, qty, entryFill, entryCommission, tradeFunding,
  stopLevel, targetLevel, liqLevel,
  equity,           \* of the last bar marked
  \* Totals, and history.
  totCommission, totFunding,
  netPnl, tradeCommission, paidFunding \* summed over the trades closed

positionVars == <<pos, qty, entryFill, entryCommission, tradeFunding, stopLevel, targetLevel, liqLevel>>
tradesVars == <<netPnl, tradeCommission, paidFunding>>
backtestVars == <<config, index, moment, prices, before, signals, money, positionVars, equity,
                  totCommission, totFunding, tradesVars>>

Groups == {"long_entry", "long_exit", "short_entry", "short_exit"}

BacktestInit ==
  /\ config \in Configs
  /\ index = 0 /\ moment = "next" /\ before = 0 /\ signals = {}
  /\ prices = [open |-> 0, high |-> 0, low |-> 0, close |-> 0]
  /\ money = InitialCapital /\ equity = InitialCapital
  /\ pos = 0 /\ qty = 0 /\ entryFill = 0 /\ entryCommission = 0 /\ tradeFunding = 0
  /\ stopLevel = 0 /\ targetLevel = 0 /\ liqLevel = 0
  /\ totCommission = 0 /\ totFunding = 0
  /\ netPnl = 0 /\ tradeCommission = 0 /\ paidFunding = 0

Bps(amount, rate) == (amount * rate) \div 10000

\* The next bar, and the groups that fired at the close of the one before it.
NextBar ==
  /\ moment = "next" /\ index < LastIndex
  /\ index' = index + 1 /\ moment' = "funding"
  /\ prices' \in BarShapes /\ before' = prices.close
  /\ signals' \in (IF index = 0 THEN {{}} ELSE SUBSET Groups)
  /\ UNCHANGED <<config, money, positionVars, equity, totCommission, totFunding, tradesVars>>

\* On the position carried into the bar, whatever becomes of it at the open.
Settle ==
  /\ moment = "funding" /\ moment' = "exits"
  /\ \E rate \in (IF pos = 0 THEN {0} ELSE FundingRates) :
       LET pay == -pos * Bps(qty * entryFill, rate)
       IN /\ money' = money + pay
          /\ tradeFunding' = tradeFunding + pay
          /\ totFunding' = totFunding + pay
  /\ UNCHANGED <<config, index, prices, before, signals, pos, qty, entryFill, entryCommission,
                 stopLevel, targetLevel, liqLevel, equity, totCommission, tradesVars>>

-----------------------------------------------------------------------------
\* A fill at the open, against the taker.
FillPrice(reference, side) == reference + side * Bps(reference, SlipBps)

ExitCommission(fill, free) == IF free THEN 0 ELSE Bps(qty * fill, TakerBps)

NetPnl_ExitOnly(gross, commission) == gross - commission + tradeFunding
NetPnl(gross, commission) == gross - (entryCommission + commission) + tradeFunding

\* A liquidation and the final markout fill at the price given, free.
ClosePosition(reference, free) ==
  LET fill == IF free THEN reference ELSE FillPrice(reference, -pos)
      gross == pos * qty * (fill - entryFill)
      commission == ExitCommission(fill, free)
  IN /\ money' = money + gross - commission
     /\ netPnl' = netPnl + NetPnl(gross, commission)
     /\ tradeCommission' = tradeCommission + entryCommission + commission
     /\ paidFunding' = paidFunding + tradeFunding
     /\ totCommission' = totCommission + commission
     /\ pos' = 0 /\ qty' = 0
     /\ stopLevel' = 0 /\ targetLevel' = 0 /\ liqLevel' = 0
     /\ UNCHANGED <<entryFill, entryCommission, tradeFunding, totFunding>>

RiskHit ==
  \/ stopLevel # 0 /\ pos * (before - stopLevel) <= 0
  \/ targetLevel # 0 /\ pos * (before - targetLevel) >= 0

ExitSignalled ==
  IF pos = 1 THEN {"long_exit", "short_entry"} \cap signals # {}
  ELSE {"short_exit", "long_entry"} \cap signals # {}

Exits == pos # 0 /\ (ExitSignalled \/ RiskHit)

Exit ==
  /\ moment = "exits" /\ moment' = "entries"
  /\ Exits
  /\ ClosePosition(prices.open, FALSE)
  /\ UNCHANGED <<config, index, prices, before, signals, equity>>

NoExit ==
  /\ moment = "exits" /\ moment' = "entries"
  /\ ~Exits
  /\ UNCHANGED <<config, index, prices, before, signals, money, positionVars, equity,
                 totCommission, totFunding, tradesVars>>

-----------------------------------------------------------------------------
EntrySide ==
  IF pos # 0 THEN 0
  ELSE IF "long_entry" \in signals THEN 1
  ELSE IF "short_entry" \in signals THEN -1 ELSE 0

\* A limit at the last close fills when the bar trades there.
Maker == config.limit /\ prices.low <= before /\ before <= prices.high

EntryFill(side) == IF Maker THEN before ELSE FillPrice(prices.open, side)

\* The exit's own multiple, or the sizing's default.
StopDistance(atr) == config.stop * atr

EntryQty(side, atr) ==
  PositionSize(config.sizing, money, EntryFill(side), config.leverage, RiskBps,
               StopDistance(atr), FractionBps)

EntryFee(side, atr) == Bps(EntryQty(side, atr) * EntryFill(side), IF Maker THEN MakerBps ELSE TakerBps)

TradeFundingAtEntry_Kept == tradeFunding
TradeFundingAtEntry == 0

Enter ==
  /\ moment = "entries" /\ moment' = "range"
  /\ EntrySide # 0
  /\ \E atr \in Atrs :
       LET fill == EntryFill(EntrySide)
       IN /\ EntryQty(EntrySide, atr) > 0
          /\ pos' = EntrySide /\ qty' = EntryQty(EntrySide, atr)
          /\ entryFill' = fill /\ entryCommission' = EntryFee(EntrySide, atr)
          /\ money' = money - EntryFee(EntrySide, atr)
          /\ totCommission' = totCommission + EntryFee(EntrySide, atr)
          /\ tradeFunding' = TradeFundingAtEntry
          /\ stopLevel' = IF StopDistance(atr) = 0 THEN 0 ELSE fill - EntrySide * StopDistance(atr)
          /\ targetLevel' = IF config.target * atr = 0 THEN 0 ELSE fill + EntrySide * config.target * atr
          /\ liqLevel' = LiquidationPrice(fill, EntrySide, config.leverage, MaintenanceBps)
  /\ UNCHANGED <<config, index, prices, before, signals, equity, totFunding, tradesVars>>

\* No signal, or nothing to size: broke, or no ATR yet.
NoEntry ==
  /\ moment = "entries" /\ moment' = "range"
  /\ EntrySide # 0 => \E atr \in Atrs : EntryQty(EntrySide, atr) = 0
  /\ UNCHANGED <<config, index, prices, before, signals, money, positionVars, equity,
                 totCommission, totFunding, tradesVars>>

Reached == liqLevel # 0 /\ IF pos > 0 THEN prices.low <= liqLevel ELSE prices.high >= liqLevel

Liquidate ==
  /\ moment = "range" /\ moment' = "mark"
  /\ pos # 0 /\ Reached
  /\ ClosePosition(liqLevel, TRUE)
  /\ UNCHANGED <<config, index, prices, before, signals, equity>>

Survive ==
  /\ moment = "range" /\ moment' = "mark"
  /\ ~(pos # 0 /\ Reached)
  /\ UNCHANGED <<config, index, prices, before, signals, money, positionVars, equity,
                 totCommission, totFunding, tradesVars>>

OpenPnl == pos * qty * (prices.close - entryFill)

Mark ==
  /\ moment = "mark" /\ moment' = "next"
  /\ equity' = money + OpenPnl
  /\ signals' = {}
  /\ UNCHANGED <<config, index, prices, before, money, positionVars, totCommission, totFunding,
                 tradesVars>>

MarkOut ==
  /\ moment = "next" /\ index = LastIndex /\ moment' = "done"
  /\ IF pos # 0 THEN ClosePosition(prices.close, TRUE)
     ELSE UNCHANGED <<money, positionVars, totCommission, totFunding, netPnl, tradeCommission, paidFunding>>
  /\ UNCHANGED <<config, index, prices, before, signals, equity>>

BacktestNext == NextBar \/ Settle \/ Exit \/ NoExit \/ Enter \/ NoEntry \/ Liquidate \/ Survive \/ Mark \/ MarkOut

BacktestSpec == BacktestInit /\ [][BacktestNext]_backtestVars

\* A position has a side and a lot, and no liquidation level on its winning side (that of a
\* short may be rounded down to its entry).
BacktestTypeOK ==
  /\ config \in Configs /\ index \in 0..LastIndex
  /\ moment \in {"next", "funding", "exits", "entries", "range", "mark", "done"}
  /\ signals \subseteq Groups
  /\ pos \in {-1, 0, 1} /\ qty >= 0 /\ (pos = 0 <=> qty = 0)
  /\ liqLevel # 0 => pos * (entryFill - liqLevel) >= 0

(***************************************************************************)
(* The equity curve is the trades: between bars it is the initial cash,    *)
(* the net pnl of the trades closed, and what the open one has cost and    *)
(* made; the totals reported are those of the trades; and the last point   *)
(* is what the run is left with.                                           *)
(***************************************************************************)
OfOpen(amount) == IF pos = 0 THEN 0 ELSE amount
EquityIsItsTrades ==
  /\ moment = "next" =>
       equity = InitialCapital + netPnl + OfOpen(OpenPnl - entryCommission + tradeFunding)
  /\ moment \in {"next", "done"} =>
       /\ totCommission = tradeCommission + OfOpen(entryCommission)
       /\ totFunding = paidFunding + OfOpen(tradeFunding)
  /\ moment = "done" => pos = 0 /\ money = equity

(***************************************************************************)
(* "Cash accounting mirrors the backtest engine exactly" (paper.py:5):     *)
(* like the paper account, a backtest is the ledger of AccountLedger, for  *)
(* its one symbol.  What is held and what was paid for it change at fills  *)
(* only, each of one lot at a price this bar gives, and commissions and    *)
(* funding are charged beside them.                                        *)
(***************************************************************************)
RealizedGross == netPnl + tradeCommission - paidFunding
Ledger == INSTANCE AccountLedger WITH
  Symbols <- {"symbol"}, Lots <- Nat \ {0}, FillPrices <- Int,
  holding <- [s \in {"symbol"} |-> pos * qty],
  paid    <- [s \in {"symbol"} |-> pos * qty * entryFill - RealizedGross],
  charges <- totCommission - totFunding

PricesOfBar == {before, prices.close, liqLevel} \cup {FillPrice(prices.open, side) : side \in {1, -1}}
KeepsLedger ==
  /\ Ledger!LedgerInit
  /\ [][\/ Ledger!Settle
        \/ \E lot \in {qty, qty'} \ {0}, f \in PricesOfBar :
             Ledger!Execute("symbol", lot, f) \/ Ledger!Execute("symbol", -lot, f)
       ]_(Ledger!ledgerVars)
==============================================================================
