------------------------------ MODULE RiskWall ------------------------------
(***************************************************************************)
(* The risk layer every order passes (backend/app/execution/risk.py) with  *)
(* the portfolio limits in front of it (backend/app/portfolio/limits.py):  *)
(* what it remembers between two questions - the peak, the day's anchor,   *)
(* the daily halt, the streak of losses and the cooldown - while the       *)
(* market moves the account under it, days pass and the wall is rebuilt.   *)
(*                                                                         *)
(* The account is what the adapter reports, an equity and one net position *)
(* per symbol, in units of notional at the mark.  One wall stands in front *)
(* of the paper account and one in front of the venue: the first loses its *)
(* account with the process and gets back what the open trades say, the    *)
(* second finds it at the venue.  What a position is sized to is a choice  *)
(* (no size at all when it comes out as zero), and so is whether a bar has *)
(* the volume for it.  The bot passes the last price as the reference      *)
(* price, so the price guard has nothing to reject, and the leverage       *)
(* enters the size only: both are left out.  An order is filled at its     *)
(* reference price; the slippage of a paper fill comes on top of it.       *)
(***************************************************************************)
EXTENDS Integers, FiniteSetsExt

CONSTANTS
  Symbols,              \* the symbols traded
  Lots,                 \* notionals an opening order may be sized to
  Equities,             \* equities the adapter may report
  Notionals,            \* notionals a price move may bring a position to
  MaxPositions,         \* max_concurrent_positions
  DrawdownPct,          \* max_total_drawdown_pct
  DailyLossPct,         \* max_daily_loss_pct
  LossStreak,           \* consecutive_losses
  CooldownHours,        \* cooldown_hours
  PortfolioDrawdownPct, \* PortfolioLimits.max_dd_pct
  PortfolioDailyPct,    \* PortfolioLimits.daily_loss_pct
  SymbolPct,            \* max_symbol_exposure_pct
  GrossPct,             \* 100 * gross_leverage_cap
  DirectionPct,         \* direction_concentration_pct
  DayHours,             \* the hours of a day
  Horizon,              \* bound: the last hour
  MaxNotional,          \* bound: the size of a position
  MaxStreak,            \* bound: the losses in a row
  MaxRebuilds           \* bound: how often the wall is built again

ASSUME AccountAssumption ==
  /\ Lots \subseteq Nat \ {0}
  /\ Equities \subseteq Nat \ {0}
  /\ Notionals \subseteq Nat \ {0}
  /\ IsFiniteSet(Symbols)
ASSUME LimitsAssumption ==
  /\ MaxPositions \in Nat /\ LossStreak \in Nat \ {0}
  /\ CooldownHours \in Nat /\ DayHours \in Nat \ {0}
  /\ {DrawdownPct, DailyLossPct, PortfolioDrawdownPct, PortfolioDailyPct} \subseteq 0 .. 100
  /\ {SymbolPct, GrossPct, DirectionPct} \subseteq Nat
ASSUME BoundsAssumption ==
  /\ {Horizon, MaxNotional, MaxStreak, MaxRebuilds} \subseteq Nat
  /\ \A lot \in Lots : lot <= MaxNotional

VARIABLES
  \* The account, as the adapter reports it, and the clock.
  equity,        \* get_balance().equity
  pos,           \* [Symbols -> Int]: get_positions(), 0 when there is none
  now,           \* the hour
  trades,        \* [Symbols -> SUBSET Sides]: the sides a trade is open on
  \* _RiskState.
  peak,          \* peak_equity
  day,           \* day, -1 when it was never set
  dayStart,      \* daily_start_equity
  haltedDay,     \* halted_day, -1 when it was never set
  losses,        \* consecutive_losses
  cooldownUntil, \* cooldown_until
  \* What the last step returned, and history.
  verdict,       \* the decision of the step, "none" when it asked for none
  seen,          \* history: the peaks seeded and the equities met by a decision
  lossDay,       \* history: the last day each limit reported a daily loss
  streak,        \* history: losses in a row since the wall was built
  coolEnd,       \* history: when the cooldown of that streak ends
  coolEver,      \* history: when the longest cooldown ever armed ends
  restored,      \* history: the symbols held after the last restart
  rebuilds       \* the wall was built again so often

account == <<equity, pos, now, trades>>
riskState == <<peak, day, dayStart, haltedDay, losses, cooldownUntil>>
history == <<seen, lossDay, streak, coolEnd, coolEver, restored, rebuilds>>
vars == <<equity, pos, now, trades, peak, day, dayStart, haltedDay, losses, cooldownUntil,
          verdict, seen, lossDay, streak, coolEnd, coolEver, restored, rebuilds>>

Sides == {1, -1}
Abs(x) == IF x < 0 THEN -x ELSE x
Higher(x, y) == IF x < y THEN y ELSE x
Limits == {"strategy", "portfolio"}
Verdicts == {"none", "kill", "rejected", "opened", "closed"}

TypeOK ==
  /\ trades \in [Symbols -> SUBSET Sides]
  /\ restored \in 0 .. Cardinality(Symbols)
  /\ equity \in Equities
  /\ pos \in [Symbols -> -MaxNotional .. MaxNotional]
  /\ now \in 0 .. Horizon
  /\ peak \in Equities \union {0}
  /\ day \in Nat \union {-1}
  /\ dayStart \in Equities \union {0}
  /\ haltedDay \in Nat \union {-1}
  /\ losses \in 0 .. LossStreak - 1
  /\ cooldownUntil \in Nat
  /\ verdict \in Verdicts
  /\ seen \subseteq Equities
  /\ lossDay \in [Limits -> Nat \union {-1}]
  /\ streak \in Nat
  /\ coolEnd \in Nat
  /\ coolEver \in Nat
  /\ rebuilds \in 0 .. MaxRebuilds

(* A fresh _RiskState with the peak a restart or an arming seeds.          *)
Fresh(seed) ==
  /\ peak' = seed
  /\ day' = -1
  /\ dayStart' = 0
  /\ haltedDay' = -1
  /\ losses' = 0
  /\ cooldownUntil' = 0

Init ==
  /\ trades = [s \in Symbols |-> {}]
  /\ restored = 0
  /\ equity \in Equities
  /\ pos = [s \in Symbols |-> 0]
  /\ now = 0
  /\ peak = 0
  /\ day = -1
  /\ dayStart = 0
  /\ haltedDay = -1
  /\ losses = 0
  /\ cooldownUntil = 0
  /\ verdict = "none"
  /\ seen = {}
  /\ lossDay = [l \in Limits |-> -1]
  /\ streak = 0
  /\ coolEnd = 0
  /\ coolEver = 0
  /\ rebuilds = 0
-----------------------------------------------------------------------------
(* What every decision starts with.                                        *)

Today == now \div DayHours

(* _roll_day and the peak.  (The mutant starts the peak with the day.)     *)
PeakNow_Daily == IF day # Today THEN equity ELSE Higher(peak, equity)
PeakNow == Higher(peak, equity)
DayStartNow == IF day # Today THEN equity ELSE dayStart

Asked ==
  /\ peak' = PeakNow
  /\ day' = Today
  /\ dayStart' = DayStartNow
  /\ seen' = seen \union {equity}
  /\ UNCHANGED <<equity, now, restored, rebuilds>>

(* x has fallen by pct percent, or more, from base.                        *)
FallenBy(pct, x, base) == base > 0 /\ 100 * x <= (100 - pct) * base

(* check_drawdown, then the wall's own ceiling: any intent asks for the    *)
(* kill switch.                                                            *)
Drawdown ==
  \/ FallenBy(PortfolioDrawdownPct, equity, PeakNow)
  \/ FallenBy(DrawdownPct, equity, PeakNow)

Held == {s \in Symbols : pos[s] # 0}
Long(s) == IF pos[s] > 0 THEN pos[s] ELSE 0
Short(s) == IF pos[s] < 0 THEN -pos[s] ELSE 0
Gross == MapThenSumSet(Long, Symbols) + MapThenSumSet(Short, Symbols)
Net == MapThenSumSet(Long, Symbols) - MapThenSumSet(Short, Symbols)

(* x is over pct percent of the equity.                                    *)
Over(pct, x) == 100 * x > pct * equity

(* check_open.  The direction is only closed to orders of the side that    *)
(* prevails once they are in.  (The mutant looks at what is held before.)  *)
Exposed_Before(s, q) ==
  \/ Over(SymbolPct, Abs(pos[s]))
  \/ Over(GrossPct, Gross)
  \/ Over(DirectionPct, Abs(Net)) /\ (q > 0 <=> Net >= 0)
Exposed(s, q) ==
  \/ Over(SymbolPct, Abs(pos[s] + q))
  \/ Over(GrossPct, Gross + Abs(q))
  \/ Over(DirectionPct, Abs(Net + q)) /\ (q > 0 <=> Net + q >= 0)

PortfolioDailyLoss == FallenBy(PortfolioDailyPct, equity, DayStartNow)
DailyLoss == FallenBy(DailyLossPct, equity, DayStartNow)

(* No room for one more symbol.  (The mutant lets one too many in.)        *)
Full_OneTooMany(s) == s \notin Held /\ Cardinality(Held) > MaxPositions
Full(s) == s \notin Held /\ Cardinality(Held) >= MaxPositions

(* The halt of the day, whatever the equity does afterwards.  (The mutant  *)
(* lets it go when the equity recovers.)                                   *)
Halted_WhileDown == haltedDay = Today /\ DailyLoss
Halted == haltedDay = Today
Cooling == now < cooldownUntil

(* An opening order passes the portfolio limits, then every other.         *)
PortfolioPasses(s, q) == ~PortfolioDailyLoss /\ ~Exposed(s, q)
WallPasses(s) == ~Halted /\ ~DailyLoss /\ ~Cooling /\ ~Full(s)
-----------------------------------------------------------------------------
(* The decisions.                                                          *)

Rejects(v) ==
  /\ verdict' = v
  /\ UNCHANGED <<pos, trades, losses, cooldownUntil, streak, coolEnd, coolEver>>

(* Any intent, when the account is in drawdown.                            *)
AsksKill ==
  /\ Drawdown
  /\ Asked
  /\ Rejects("kill")
  /\ UNCHANGED <<haltedDay, lossDay>>

(* The portfolio limits, of which the daily loss comes first.              *)
PortfolioRejects(s, q) ==
  /\ ~Drawdown
  /\ ~PortfolioPasses(s, q)
  /\ Asked
  /\ Rejects("rejected")
  /\ lossDay' = IF PortfolioDailyLoss THEN [lossDay EXCEPT !["portfolio"] = Today] ELSE lossDay
  /\ UNCHANGED haltedDay

(* The wall's own daily loss halts the day.                                *)
DailyLossHalts(s, q) ==
  /\ ~Drawdown
  /\ PortfolioPasses(s, q)
  /\ ~Halted /\ DailyLoss
  /\ Asked
  /\ Rejects("rejected")
  /\ haltedDay' = Today
  /\ lossDay' = [lossDay EXCEPT !["strategy"] = Today]

(* The other limits: the halt, the cooldown, the number of positions, and  *)
(* a size of zero or beyond the volume of the bar.                         *)
LimitRejects(s, q, fits) ==
  /\ ~Drawdown
  /\ PortfolioPasses(s, q)
  /\ Halted \/ ~DailyLoss
  /\ ~WallPasses(s) \/ ~fits
  /\ Asked
  /\ Rejects("rejected")
  /\ UNCHANGED <<haltedDay, lossDay>>

(* An approved order of q units, and whether the adapter takes it.         *)
Opens(s, q) ==
  /\ ~Drawdown
  /\ PortfolioPasses(s, q)
  /\ WallPasses(s)
  /\ Asked
  /\ \/ /\ Abs(pos[s] + q) <= MaxNotional
        /\ pos' = [pos EXCEPT ![s] = @ + q]
        /\ trades' = [trades EXCEPT ![s] = @ \union {IF q > 0 THEN 1 ELSE -1}]
        /\ verdict' = "opened"
     \/ UNCHANGED <<pos, trades>> /\ verdict' = "rejected"
  /\ UNCHANGED <<haltedDay, lossDay, losses, cooldownUntil, streak, coolEnd, coolEver>>

(* A strategy, of which any number may trade the symbol, opens a trade.    *)
SubmitOpen(s, q, fits) ==
  \/ AsksKill
  \/ PortfolioRejects(s, q)
  \/ DailyLossHalts(s, q)
  \/ LimitRejects(s, q, fits)
  \/ fits /\ Opens(s, q)

(* register_trade_result.  (The mutants keep the streak when the cooldown  *)
(* is armed, and arm it one loss late.)                                    *)
Armed_OneLate(lost) == lost /\ losses + 1 > LossStreak
Armed(lost) == lost /\ losses + 1 >= LossStreak
LossesAfter_Kept(lost) == IF lost THEN losses + 1 ELSE 0
LossesAfter(lost) == IF lost /\ ~Armed(lost) THEN losses + 1 ELSE 0

RegisterTradeResult(lost) ==
  LET run == IF lost THEN streak + 1 ELSE 0
  IN /\ losses' = LossesAfter(lost)
     /\ cooldownUntil' = IF Armed(lost) THEN now + CooldownHours ELSE cooldownUntil
     /\ streak' = run
     /\ coolEnd' = IF lost /\ run % LossStreak = 0 THEN now + CooldownHours ELSE coolEnd
     /\ coolEver' = Higher(coolEver, coolEnd')

(* A closing fill and its row: the side keeps a trade when the row is lost *)
(* with the transaction of its tick, or another strategy has one.          *)
Settled(s, side) ==
  \/ trades' = [trades EXCEPT ![s] = @ \ {side}]
  \/ UNCHANGED trades

(* A closing order trades the whole net position away from the side of the *)
(* trade it closes, which on a symbol several strategies trade need not be *)
(* the side of the position; the adapter may refuse it.                    *)
SubmitClose(s, side, lost) ==
  /\ side \in trades[s]
  /\ lost => streak < MaxStreak
  /\ \/ AsksKill
     \/ /\ ~Drawdown
        /\ Asked
        /\ UNCHANGED <<haltedDay, lossDay>>
        /\ \/ /\ pos[s] # 0
              /\ Abs(pos[s] - side * Abs(pos[s])) <= MaxNotional
              /\ pos' = [pos EXCEPT ![s] = @ - side * Abs(@)]
              /\ Settled(s, side)
              /\ RegisterTradeResult(lost)
              /\ verdict' = "closed"
           \/ Rejects("rejected")
-----------------------------------------------------------------------------
(* The world around the wall.                                              *)

(* Prices move: the equity, and the notional of a position.                *)
Market(e, s, n) ==
  /\ equity' = e
  /\ pos' = [pos EXCEPT ![s] = IF @ > 0 THEN n ELSE IF @ < 0 THEN -n ELSE 0]
  /\ n <= MaxNotional
  /\ verdict' = "none"
  /\ UNCHANGED <<now, trades, riskState, history>>

Hour ==
  /\ now < Horizon
  /\ now' = now + 1
  /\ verdict' = "none"
  /\ UNCHANGED <<equity, pos, trades, riskState, history>>

(* A wall is built: a fresh state, of which the peak alone is seeded, or   *)
(* nothing when that fails.                                                *)
Rebuild(seed) ==
  /\ rebuilds < MaxRebuilds
  /\ rebuilds' = rebuilds + 1
  /\ Fresh(seed)
  /\ seen' = {seed} \ {0}
  /\ lossDay' = [l \in Limits |-> -1]
  /\ streak' = 0
  /\ coolEnd' = 0
  /\ verdict' = "none"
  /\ UNCHANGED <<now, trades, coolEver>>

(* The live wall is torn down and armed again, or the worker restarts: the *)
(* account is at the venue.                                                *)
Rearm(seed) ==
  /\ seed \in {0, equity}
  /\ Rebuild(seed)
  /\ UNCHANGED <<equity, pos, restored>>

(* The worker restarts: rehydrate gives the paper account a position for   *)
(* every open trade whose row was stored, the last of a symbol in place of *)
(* the others, and the equity of the last snapshot; it may fail on the way.*)
Restored(s) == {0} \union {side * lot : side \in trades[s], lot \in Lots}
Restart(e, seed) ==
  /\ seed \in {0, e}
  /\ Rebuild(seed)
  /\ equity' = e
  /\ pos' \in [Symbols -> UNION {Restored(s) : s \in Symbols}]
  /\ \A s \in Symbols : pos'[s] \in Restored(s)
  /\ restored' = Cardinality(Held')

Next ==
  \/ \E s \in Symbols, side \in Sides, lot \in Lots, fits \in BOOLEAN :
       SubmitOpen(s, side * lot, fits)
  \/ \E s \in Symbols, side \in Sides, lost \in BOOLEAN : SubmitClose(s, side, lost)
  \/ \E e \in Equities, s \in Symbols, n \in Notionals : Market(e, s, n)
  \/ Hour
  \/ \E seed \in Equities \union {0} : Rearm(seed)
  \/ \E e \in Equities, seed \in Equities \union {0} : Restart(e, seed)

Spec == Init /\ [][Next]_vars
-----------------------------------------------------------------------------
(* Properties.                                                             *)

(* However orders net against each other, are closed against the wrong     *)
(* side, refused, repriced or lost from the table, the account holds no    *)
(* more symbols than max_concurrent_positions, or than its last restart    *)
(* gave it: no decision adds to what is over the limit (risk.py:253-260,   *)
(* engine.py:137-143).                                                     *)
PositionsBounded == Cardinality(Held) <= Higher(MaxPositions, restored)

(* The kill switch is asked for exactly when the equity has fallen by one  *)
(* of the two ceilings from some equity an earlier decision met, or from   *)
(* the seed of the wall, on whatever day that was (risk.py:184-203).       *)
KillExactlyAtDrawdown ==
  [][verdict' # "none" =>
       (verdict' = "kill" <=>
          \E e \in seen' : \/ FallenBy(PortfolioDrawdownPct, equity, e)
                          \/ FallenBy(DrawdownPct, equity, e))]_vars

(* After the wall has reported its daily loss nothing opens for the rest   *)
(* of that day, however far the equity recovers (risk.py:47, 219-233).     *)
HaltHolds == [][verdict' = "opened" => lossDay["strategy"] # Today]_vars

(* Every LossStreak losses in a row, nothing opens for CooldownHours,      *)
(* whatever was lost, won or closed since (risk.py:235-241, 292-300).      *)
CooldownHolds == [][verdict' = "opened" => now >= coolEnd]_vars

(* Once filled at its reference price and netted, an opening order leaves  *)
(* the account within the portfolio's ceilings: the symbol, the gross, and *)
(* the direction, which may only be over its ceiling when the order has    *)
(* made it smaller (limits.py:138-171).                                    *)
OpenedWithinPortfolio ==
  [][verdict' = "opened" =>
       /\ \A s \in Symbols : pos'[s] # pos[s] => ~Over(SymbolPct, Abs(pos'[s]))
       /\ ~Over(GrossPct, Gross')
       /\ Over(DirectionPct, Abs(Net')) => Abs(Net') < Abs(Net)]_vars

(* What comments of the code say, and the runs of the findings refute.     *)

(* "halt for the rest of the UTC day" (risk.py:47): the daily loss halts   *)
(* the day, whichever limit reports it.                                    *)
DailyLossEndsTheDay ==
  [][verdict' = "opened" => \A l \in Limits : lossDay[l] # Today]_vars

(* "Rehydrate risk state on bot restart so limits survive a 72h run"       *)
(* (risk.py:311): a cooldown holds through a restart.                      *)
CooldownSurvivesRestart == [][verdict' = "opened" => now >= coolEver]_vars
=============================================================================
