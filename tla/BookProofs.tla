----------------------------- MODULE BookProofs -----------------------------
(***************************************************************************)
(* The money of a strategy on paper and in a backtest. On paper, the       *)
(* funding and the stop too: for every course of closing prices and        *)
(* settlements, every set of costs, and any number of rollbacks, restarts  *)
(* and new versions. In a backtest, for every series of bars, signals and  *)
(* funding rates, every sizing and every set of costs. And the signals of  *)
(* both, for all rules, prices and indicators.                             *)
(***************************************************************************)
EXTENDS PaperBook, BacktestEngine, FiniteTheorems, TLAPS

CONSTANT Missing  \* Rules, AlphaSeries

Sig == INSTANCE Rules
Alpha == INSTANCE AlphaSeries

-----------------------------------------------------------------------------
(* The paper book.                                                         *)

(* What was charged is settled and behind lastFunding.                     *)
Clock ==
  /\ bar \in Nat \ {0} /\ close \in ClosePrices /\ settled \subseteq 1..bar
  /\ lastFunding \in 0..bar /\ decided \in 0..bar
  /\ charged \subseteq 0..lastFunding

(* The account holds the open trade and nothing else; cash is what the     *)
(* trades made, and so it is in the snapshot a restart begins with.        *)
OfTrade(t) == IF t = NoTrade THEN 0 ELSE t.funding - t.fees

Money ==
  /\ cash \in Int /\ booked \in Int /\ credited \in Int
  /\ trade \in Trades \cup {NoTrade}
  /\ size \in [{Symbol} -> Int] /\ cost \in [{Symbol} -> Int] /\ mark \in [{Symbol} -> Int]
  /\ size[Symbol] = IF trade = NoTrade THEN 0 ELSE trade.side
  /\ cash = InitialCash + booked + credited + OfTrade(trade)
  /\ saved # NoSnapshot =>
       /\ saved \in Snapshots
       /\ saved.equity = InitialCash + saved.booked + saved.credited + OfTrade(saved.trade)

(* Up to lastFunding nothing that was settled since the entry is missing,  *)
(* and funding is read to its end before the bar is decided on.            *)
Charged ==
  /\ trade # NoTrade =>
       /\ \A s \in settled : trade.opened < s /\ s <= lastFunding => s \in charged
       /\ decided = bar => \A s \in settled : trade.opened < s => s \in charged
  /\ phase = "funded" /\ HasPosition => Due = {}

(* The band of a trade this process and version opened is that of its      *)
(* entry, and no decision left it beyond.                                  *)
Stopped ==
  (trade # NoTrade /\ watched /\ StopGap # 0) =>
    /\ band \in Bands /\ band.stop = StopOf(trade.side, trade.reference)
    /\ decided = bar => trade.side * (close - StopOf(trade.side, trade.reference)) > 0

BookInv == Clock /\ (~adrift => Money /\ Charged /\ Stopped)

(***************************************************************************)
(* Fills and settlements are whole numbers.                                *)
(***************************************************************************)
LEMMA QuotientBelow ==
  ASSUME NEW a \in Nat
  PROVE  a \div 10000 \in Nat
  OBVIOUS

(* So are those of integers.                                               *)
LEMMA BpsInt ==
  ASSUME NEW a \in Int
  PROVE  a \div 10000 \in Int
  OBVIOUS

(* A fill price is an integer.                                             *)
LEMMA FillInt ==
  ASSUME close \in ClosePrices, NEW side \in {1, -1}
  PROVE  Fill(side) \in Int
  <1>1. close \in Int /\ close * SlippageBps \in Int
    BY BookConstants
  <1>2. (close * SlippageBps) \div 10000 \in Int
    BY <1>1, BpsInt
  <1> QED
    BY <1>1, <1>2 DEF Fill, Account!FillPrice

(* So is the commission on a fill.                                         *)
LEMMA FeeInt ==
  ASSUME NEW lot \in Int, NEW fill \in Int
  PROVE  Account!Commission(lot, fill) \in Int
  <1>1. CommissionBps * lot * fill \in Int
    BY BookConstants
  <1> QED
    BY <1>1, BpsInt DEF Account!Commission

(* And a funding payment.                                                  *)
LEMMA PayInt ==
  ASSUME Money
  PROVE  Account!FundingPay(Symbol, FundingRate) \in Int
  <1>1. cost[Symbol] * FundingRate \in Int
    BY BookConstants DEF Money
  <1>2. (cost[Symbol] * FundingRate) \div 10000 \in Int
    BY <1>1, BpsInt
  <1> QED
    BY <1>2 DEF Account!FundingPay, Account!Sign, Money

(* A book begins with its capital and no trade.                            *)
LEMMA InitBook ==
  ASSUME BookInit
  PROVE  BookInv
  <1>1. Clock
    BY BookConstants DEF BookInit, Clock
  <1>2. Money
    BY BookConstants DEF BookInit, Account!Init, Money, OfTrade
  <1> QED
    BY <1>1, <1>2 DEF BookInit, BookInv, Charged, Stopped

(* The account and the trades are as they were.                            *)
SameMoney == UNCHANGED <<cash, size, cost, trade, booked, credited, saved>>

(* A new price by itself moves no money.                                   *)
LEMMA MoneyKept ==
  ASSUME Money, SameMoney, mark' \in [{Symbol} -> Int]
  PROVE  Money'
  BY DEF Money, SameMoney, OfTrade

(***************************************************************************)
(* Steps that neither fill nor settle.                                     *)
(***************************************************************************)
LEMMA NewBarKeeps ==
  ASSUME BookInv, NewBar
  PROVE  BookInv'
  <1>1. /\ bar' = bar + 1 /\ close' \in ClosePrices /\ phase = "idle" /\ phase' = phase
        /\ settled' \in {settled, settled \cup {bar + 1}}
        /\ UNCHANGED <<lastFunding, decided, charged, watched, band, mark, adrift>> /\ SameMoney
    BY DEF NewBar, accountVars, historyVars, SameMoney
  <1>2. Clock'
    <2>1. bar \in Nat \ {0} /\ settled \subseteq 1..bar /\ decided \in 0..bar
      BY DEF BookInv, Clock
    <2>2. settled' \subseteq 1..(bar + 1) /\ decided \in 0..(bar + 1) /\ bar + 1 \in Nat \ {0}
      BY <1>1, <2>1
    <2>3. lastFunding \in 0..(bar + 1) /\ charged \subseteq 0..lastFunding
      BY <2>1 DEF BookInv, Clock
    <2> QED
      BY <1>1, <2>2, <2>3 DEF Clock
  <1>3. ASSUME ~adrift' PROVE Money' /\ Charged' /\ Stopped'
    <2>1. Money /\ Charged /\ Stopped /\ ~adrift
      BY <1>1, <1>3 DEF BookInv, SameMoney
    <2>2. Money'
      BY <1>1, <2>1, MoneyKept DEF Money
    <2>3. decided' # bar' /\ bar \in Nat /\ lastFunding \in 0..bar
      BY <1>1 DEF BookInv, Clock
    <2>4. Charged'
      <3>1. phase' # "funded" /\ trade' = trade
        BY <1>1 DEF SameMoney
      <3>2. ASSUME trade # NoTrade, NEW s \in settled', trade.opened < s, s <= lastFunding
            PROVE  s \in charged
        <4>1. s \in settled \/ s = bar + 1
          BY <1>1
        <4> QED
          BY <2>1, <2>3, <3>2, <4>1 DEF Charged
      <3> QED
        BY <1>1, <2>3, <3>1, <3>2 DEF Charged
    <2>5. Stopped'
      BY <1>1, <2>1, <2>3 DEF Stopped, SameMoney, StopOf
    <2> QED
      BY <2>2, <2>4, <2>5
  <1> QED
    BY <1>2, <1>3 DEF BookInv

(* A step that leaves market, clocks and books alone.                      *)
LEMMA QuietKeeps ==
  ASSUME BookInv,
         UNCHANGED <<bar, close, settled, lastFunding, decided, charged, watched, band>>,
         ~adrift' => ~adrift /\ SameMoney, ~adrift' /\ Money => mark' \in [{Symbol} -> Int],
         phase' # "funded" \/ (phase' = phase) \/ (HasPosition => Due = {})
  PROVE  BookInv'
  <1>1. Clock'
    BY DEF BookInv, Clock
  <1>2. ASSUME ~adrift' PROVE Money' /\ Charged' /\ Stopped'
    <2>1. SameMoney /\ ~adrift
      BY <1>2
    <2>2. Money /\ Charged /\ Stopped /\ mark' \in [{Symbol} -> Int]
      BY <1>2, <2>1 DEF BookInv
    <2>3. Money'
      BY <2>1, <2>2, MoneyKept
    <2>4. Charged'
      BY <2>1, <2>2 DEF Charged, SameMoney, HasPosition, Due
    <2>5. Stopped'
      BY <2>1, <2>2 DEF Stopped, SameMoney, StopOf
    <2> QED
      BY <2>3, <2>4, <2>5
  <1> QED
    BY <1>1, <1>2 DEF BookInv

(* A new bar to decide on leaves the book as it is.                        *)
LEMMA EvaluateKeeps ==
  ASSUME BookInv, Evaluate
  PROVE  BookInv'
  <1>1. /\ UNCHANGED <<bar, close, settled, lastFunding, decided, charged, watched, band, adrift>>
        /\ SameMoney /\ mark' = [mark EXCEPT ![Symbol] = close] /\ phase' # "funded"
    BY DEF Evaluate, Account!Mark, historyVars, SameMoney
  <1>2. Money => mark' \in [{Symbol} -> Int]
    BY BookConstants, <1>1 DEF Money, BookInv, Clock
  <1> QED
    BY <1>1, <1>2, QuietKeeps

(* So does a tick that does nothing, or fails before its commit.           *)
LEMMA IdleKeeps ==
  ASSUME BookInv, NotActive \/ EvaluationFails \/ Funded \/ UNCHANGED bookVars
  PROVE  BookInv'
  <1>1. /\ UNCHANGED <<bar, close, settled, lastFunding, decided, charged, watched, band, mark, adrift>>
        /\ SameMoney
    BY DEF NotActive, EvaluationFails, Funded, bookVars, accountVars, historyVars, SameMoney
  <1>2. phase' # "funded" \/ (phase' = phase) \/ (HasPosition => Due = {})
    BY DEF NotActive, EvaluationFails, Funded, bookVars
  <1> QED
    BY <1>1, <1>2, QuietKeeps DEF Money

(* A rollback that takes nothing back.                                     *)
LEMMA RollbackKeeps ==
  ASSUME BookInv, Rollback
  PROVE  BookInv'
  <1>1. /\ UNCHANGED <<bar, close, settled, lastFunding, decided, charged, watched, band, mark>>
        /\ UNCHANGED <<cash, size, cost, credited, saved>> /\ phase' = "idle"
        /\ trade' = SavedTrade /\ booked' = SavedBooked
        /\ adrift' = (adrift \/ <<trade, booked>> # <<SavedTrade, SavedBooked>>)
    BY DEF Rollback, accountVars
  <1>2. ~adrift' => ~adrift /\ trade' = trade /\ booked' = booked
    BY <1>1
  <1> QED
    BY <1>1, <1>2, QuietKeeps DEF SameMoney, Money

(* A new version forgets the band and keeps the trade.                     *)
LEMMA NewVersionKeeps ==
  ASSUME BookInv, NewVersion
  PROVE  BookInv'
  <1>1. /\ UNCHANGED <<bar, close, settled, lastFunding, decided, charged, phase, mark, adrift>>
        /\ SameMoney /\ watched' = FALSE
    BY DEF NewVersion, accountVars, SameMoney
  <1>2. Clock'
    BY <1>1 DEF BookInv, Clock
  <1>3. ASSUME ~adrift' PROVE Money' /\ Charged' /\ Stopped'
    <2>1. Money /\ Charged
      BY <1>1, <1>3 DEF BookInv, SameMoney
    <2>2. Money'
      BY <1>1, <2>1, MoneyKept DEF Money
    <2>3. Charged'
      BY <1>1, <2>1 DEF Charged, SameMoney, HasPosition, Due
    <2>4. Stopped'
      BY <1>1 DEF Stopped
    <2> QED
      BY <2>2, <2>3, <2>4
  <1> QED
    BY <1>2, <1>3 DEF BookInv

(***************************************************************************)
(* The snapshot, and the account a restart builds from it.                 *)
(***************************************************************************)
LEMMA CommitKeeps ==
  ASSUME BookInv, Commit
  PROVE  BookInv'
  <1>1. /\ UNCHANGED <<bar, close, settled, lastFunding, decided, charged, watched, band, mark>>
        /\ UNCHANGED <<adrift, cash, size, cost, trade, booked, credited>> /\ phase' = "idle"
        /\ saved' = [trade |-> trade, booked |-> booked, equity |-> Equity,
                     credited |-> credited + Account!Unrealized(Symbol)]
    BY DEF Commit, accountVars, historyVars
  <1>2. Clock'
    BY <1>1 DEF BookInv, Clock
  <1>3. ASSUME ~adrift' PROVE Money' /\ Charged' /\ Stopped'
    <2>1. Money /\ Charged /\ Stopped
      BY <1>1, <1>3 DEF BookInv
    <2> DEFINE gain == Account!Unrealized(Symbol)
    <2>2. gain \in Int
      <3>1. size[Symbol] * mark[Symbol] \in Int /\ Account!Sign(size[Symbol]) * cost[Symbol] \in Int
        BY <2>1 DEF Money, Account!Sign
      <3> QED
        BY <3>1 DEF Account!Unrealized
    <2> HIDE DEF gain
    <2>3. OfTrade(trade) \in Int /\ InitialCash + booked + credited + OfTrade(trade) = cash
      BY <2>1 DEF Money, OfTrade, Trades
    <2>4. saved' \in Snapshots
      BY <1>1, <2>1, <2>2 DEF Snapshots, Equity, Money, gain
    <2>5. saved'.equity = InitialCash + saved'.booked + saved'.credited + OfTrade(saved'.trade)
      <3>1. saved'.equity = cash + gain /\ saved'.booked = booked /\ saved'.credited = credited + gain
            /\ saved'.trade = trade
        BY <1>1 DEF Equity, gain
      <3>2. cash \in Int /\ booked \in Int /\ credited \in Int /\ InitialCash + booked \in Int
        BY BookConstants, <2>1, <2>3 DEF Money
      <3> QED
        BY <2>2, <2>3, <3>1, <3>2
    <2>6. Money'
      BY <1>1, <2>1, <2>4, <2>5 DEF Money, OfTrade
    <2>7. Charged' /\ Stopped'
      BY <1>1, <2>1 DEF Charged, Stopped, StopOf
    <2> QED
      BY <2>6, <2>7
  <1> QED
    BY <1>2, <1>3 DEF BookInv

(* A restart begins with the saved snapshot, which balances too.           *)
LEMMA RestartKeeps ==
  ASSUME BookInv, Restart
  PROVE  BookInv'
  <1>1. /\ UNCHANGED <<bar, close, settled, saved, adrift>>
        /\ phase' = "idle" /\ lastFunding' = 0 /\ watched' = FALSE /\ charged' = {} /\ decided' = 0
        /\ trade' = SavedTrade /\ booked' = SavedBooked /\ cash' = CashAfter
        /\ credited' = (IF saved = NoSnapshot THEN 0 ELSE saved.credited)
        /\ size' = (IF SavedTrade = NoTrade THEN [s \in {Symbol} |-> 0]
                    ELSE [s \in {Symbol} |-> SavedTrade.side])
        /\ cost' = (IF SavedTrade = NoTrade THEN [s \in {Symbol} |-> 0]
                    ELSE [s \in {Symbol} |-> SavedTrade.entry])
        /\ mark' = cost'
    BY DEF Restart
  <1>2. Clock' /\ bar \in Nat \ {0}
    BY <1>1 DEF BookInv, Clock
  <1>3. ASSUME ~adrift' PROVE Money' /\ Charged' /\ Stopped'
    <2>1. Money
      BY <1>1, <1>3 DEF BookInv
    <2>2. SavedTrade \in Trades \cup {NoTrade}
      BY <2>1 DEF SavedTrade, Money, Snapshots
    <2>3. size' \in [{Symbol} -> Int] /\ cost' \in [{Symbol} -> Int] /\ mark' \in [{Symbol} -> Int]
          /\ size'[Symbol] = IF trade' = NoTrade THEN 0 ELSE trade'.side
      BY <1>1, <2>2 DEF Trades
    <2>4. cash' \in Int /\ booked' \in Int /\ credited' \in Int
          /\ cash' = InitialCash + booked' + credited' + OfTrade(trade')
      <3>1. CASE saved = NoSnapshot
        BY BookConstants, <1>1, <3>1 DEF CashAfter, SavedBooked, SavedTrade, OfTrade
      <3>2. CASE saved # NoSnapshot
        BY <1>1, <2>1, <3>2 DEF CashAfter, SavedBooked, SavedTrade, OfTrade, Money, Snapshots
      <3> QED
        BY <3>1, <3>2
    <2>5. Money'
      BY <1>1, <2>1, <2>2, <2>3, <2>4 DEF Money, OfTrade
    <2>6. Charged'
      <3>1. ASSUME trade' # NoTrade, NEW s \in settled, trade'.opened < s, s <= 0
            PROVE  s \in charged'
        BY <3>1 DEF BookInv, Clock
      <3>2. decided' # bar'
        BY <1>1, <1>2
      <3> QED
        BY <1>1, <3>1, <3>2 DEF Charged
    <2>7. Stopped'
      BY <1>1 DEF Stopped
    <2> QED
      BY <2>5, <2>6, <2>7
  <1> QED
    BY <1>2, <1>3 DEF BookInv

(***************************************************************************)
(* A settlement, the earliest that is due.                                 *)
(***************************************************************************)
LEMMA AccrueKeeps ==
  ASSUME BookInv, Accrue
  PROVE  BookInv'
  <1> DEFINE pay == Account!FundingPay(Symbol, FundingRate)
  <1>1. PICK next \in Due : /\ NextDue(next) /\ lastFunding' = next
                            /\ charged' = charged \cup {next}
    BY DEF Accrue, LastFundingAfter
  <1>2. /\ UNCHANGED <<bar, close, settled, phase, band, booked, saved, credited, adrift, watched,
                       decided, size, cost, mark>>
        /\ phase = "marked" /\ HasPosition /\ cash' = cash + pay
        /\ trade' = IF trade = NoTrade THEN trade ELSE [trade EXCEPT !.funding = @ + pay]
    BY DEF Accrue, Account!AccrueFunding
  <1>3. next \in settled /\ next \in Int /\ lastFunding < next /\ lastFunding \in Int
        /\ \A s \in settled : s <= lastFunding \/ next <= s
    BY <1>1 DEF NextDue, Due, BookInv, Clock
  <1>4. Clock'
    BY <1>1, <1>2, <1>3 DEF BookInv, Clock
  <1>5. ASSUME ~adrift' PROVE Money' /\ Charged' /\ Stopped'
    <2>1. Money /\ Charged /\ Stopped
      BY <1>2, <1>5 DEF BookInv
    <2>2. pay \in Int
      BY <2>1, PayInt
    <2> HIDE DEF pay
    <2>3. trade \in Trades
      BY <1>2, <2>1 DEF Money, HasPosition
    <2>4. /\ trade' \in Trades /\ trade'.funding = trade.funding + pay
          /\ trade'.fees = trade.fees /\ trade'.side = trade.side
          /\ trade'.opened = trade.opened /\ trade'.reference = trade.reference
      BY BookConstants, <1>2, <2>2, <2>3 DEF Trades
    <2>a. trade # NoTrade /\ trade' # NoTrade
      BY BookConstants, <2>3, <2>4
    <2>5. Money'
      <3>1. trade.funding \in Int /\ trade.fees \in Int /\ InitialCash \in Int
        BY BookConstants, <2>3 DEF Trades
      <3>2. cash' \in Int /\ cash' = InitialCash + booked + credited + (trade'.funding - trade'.fees)
        BY <1>2, <2>1, <2>2, <2>4, <2>a, <3>1 DEF Money, OfTrade
      <3>3. /\ booked' \in Int /\ credited' \in Int /\ trade' \in Trades \cup {NoTrade}
            /\ size' \in [{Symbol} -> Int] /\ cost' \in [{Symbol} -> Int] /\ mark' \in [{Symbol} -> Int]
            /\ size'[Symbol] = trade'.side
        BY <1>2, <2>1, <2>4, <2>a DEF Money
      <3>4. saved' # NoSnapshot =>
              /\ saved' \in Snapshots
              /\ saved'.equity = InitialCash + saved'.booked + saved'.credited + OfTrade(saved'.trade)
        BY <1>2, <2>1 DEF Money, OfTrade
      <3> QED
        BY <1>2, <2>a, <3>2, <3>3, <3>4 DEF Money, OfTrade
    <2>6. Charged'
      <3>1. ASSUME NEW s \in settled, trade.opened < s, s <= next PROVE s \in charged'
        <4>1. s \in Int
          BY DEF BookInv, Clock
        <4>2. s = next \/ s <= lastFunding
          BY <1>3, <3>1, <4>1
        <4> QED
          BY <1>1, <2>1, <2>a, <3>1, <4>2 DEF Charged
      <3> QED
        BY <1>1, <1>2, <2>1, <2>4, <2>a, <3>1 DEF Charged
    <2>7. Stopped'
      BY <1>2, <2>1, <2>4, <2>a DEF Stopped, StopOf
    <2> QED
      BY <2>5, <2>6, <2>7
  <1> QED
    BY <1>4, <1>5 DEF BookInv

(***************************************************************************)
(* Decisions.                                                              *)
(***************************************************************************)

(* What opens into an account without a position realizes nothing.         *)
LEMMA OpenKeeps ==
  ASSUME BookInv, NEW side \in {1, -1}, Open(side)
  PROVE  BookInv'
  <1> DEFINE fill == Fill(side)
             fee == Account!Commission(1, fill)
             pnl == Account!Realizes(side * 1, fill, size[Symbol], cost[Symbol])
             after == Account!CostAfter(side * 1, fill, size[Symbol], cost[Symbol])
  <1>1. /\ UNCHANGED <<bar, close, settled, lastFunding, booked, saved, credited, adrift, charged>>
        /\ trade = NoTrade /\ watched' = TRUE /\ decided' = bar /\ phase' = "evaluated"
        /\ trade' = [side |-> side, entry |-> fill, opened |-> bar, reference |-> close,
                     fees |-> fee, funding |-> 0]
        /\ band' = BandOf(side)
    BY DEF Open
  <1>2. /\ cash' = cash - fee + pnl
        /\ size' = [size EXCEPT ![Symbol] = @ + side * 1]
        /\ cost' = [cost EXCEPT ![Symbol] = Account!CostAfter(side * 1, fill, size[Symbol], @)]
        /\ mark' = [mark EXCEPT ![Symbol] = fill]
    BY DEF Open, Account!PlaceOrder, Account!CashAfter, Fill
  <1>3. /\ bar \in Nat \ {0} /\ close \in Int /\ settled \subseteq 1..bar /\ close \in ClosePrices
        /\ StopGap \in Nat /\ TargetDistance \in Nat /\ InitialCash \in Int
    <2>1. bar \in Nat \ {0} /\ close \in ClosePrices /\ settled \subseteq 1..bar
      BY DEF BookInv, Clock
    <2>2. close \in Int
      BY BookConstants, <2>1
    <2>3. StopGap \in Nat /\ TargetDistance \in Nat /\ InitialCash \in Int
      BY BookConstants
    <2> QED BY <2>1, <2>2, <2>3
  <1>4. fill \in Int
    BY <1>3, FillInt
  <1>5. fee \in Int
    <2> HIDE DEF fill
    <2> QED BY <1>4, FeeInt
  <1>6. Clock'
    BY <1>1, <1>3 DEF BookInv, Clock
  <1>7. ASSUME ~adrift' PROVE Money' /\ Charged' /\ Stopped'
    <2>1. Money
      BY <1>1, <1>7 DEF BookInv
    <2>2. size[Symbol] = 0 /\ cost[Symbol] \in Int
      BY <1>1, <2>1 DEF Money
    <2>3. pnl = 0
      BY <2>2 DEF Account!Realizes, Account!Closes, Account!Reduces
    <2>4. after = cost[Symbol] + fill
      <3> HIDE DEF fill
      <3> QED BY <1>4, <2>2 DEF Account!CostAfter, Account!Closes, Account!Reduces, Account!Abs
    <2>b. cost' = [cost EXCEPT ![Symbol] = after]
      BY <1>2, <2>1 DEF Money
    <2> HIDE DEF fill, fee, pnl, after
    <2>5. trade' \in Trades /\ trade' # NoTrade
      BY BookConstants, <1>1, <1>3, <1>4, <1>5 DEF Trades
    <2>6. Money'
      <3>1. /\ trade'.funding = 0 /\ trade'.fees = fee /\ trade'.side = side
        BY <1>1
      <3>2. cash' \in Int /\ cash' = InitialCash + booked + credited + (trade'.funding - trade'.fees)
        BY <1>1, <1>2, <1>3, <1>5, <2>1, <2>3, <3>1 DEF Money, OfTrade
      <3>3. /\ size' \in [{Symbol} -> Int] /\ size'[Symbol] = side
            /\ cost' \in [{Symbol} -> Int] /\ mark' \in [{Symbol} -> Int]
        BY <1>2, <1>4, <2>1, <2>2, <2>4, <2>b DEF Money
      <3>4. saved' # NoSnapshot =>
              /\ saved' \in Snapshots
              /\ saved'.equity = InitialCash + saved'.booked + saved'.credited + OfTrade(saved'.trade)
        BY <1>1, <2>1 DEF Money, OfTrade
      <3> QED
        BY <1>1, <2>1, <2>5, <3>1, <3>2, <3>3, <3>4 DEF Money, OfTrade
    <2>7. Charged'
      <3>1. \A s \in settled : ~(trade'.opened < s)
        BY <1>1, <1>3
      <3> QED
        BY <1>1, <3>1 DEF Charged
    <2>8. Stopped'
      <3>1. ASSUME StopGap # 0
            PROVE  band' \in Bands /\ band'.stop = close - side * StopGap
        <4>1. band' = [stop |-> close - side * StopGap, target |-> close + side * TargetDistance]
          BY <1>1, <3>1 DEF BandOf, StopOf
        <4> QED
          BY <1>3, <4>1 DEF Bands
      <3>2. side * (close - (close - side * StopGap)) = StopGap
        BY <1>3
      <3>3. trade'.side = side /\ trade'.reference = close
        BY <1>1
      <3> QED
        BY <1>1, <1>3, <3>1, <3>2, <3>3 DEF Stopped, StopOf
    <2> QED
      BY <2>6, <2>7, <2>8
  <1> QED
    BY <1>6, <1>7 DEF BookInv

(* What closes the whole position leaves none.                             *)
LEMMA CloseKeeps ==
  ASSUME BookInv, Close
  PROVE  BookInv'
  <1> DEFINE side == -trade.side
             lot == CloseLot
             fill == Fill(side)
             fee == Account!Commission(lot, fill)
             pnl == Account!Realizes(side * lot, fill, size[Symbol], cost[Symbol])
  <1>1. /\ UNCHANGED <<bar, close, settled, lastFunding, saved, credited, adrift, charged>>
        /\ trade # NoTrade /\ HasPosition /\ trade' = NoTrade /\ watched' = FALSE
        /\ decided' = bar /\ phase' = "evaluated"
        /\ booked' = booked + Pnl(fill, pnl)
    BY DEF Close
  <1>2. /\ cash' = cash - fee + pnl
        /\ size' = [size EXCEPT ![Symbol] = @ + side * lot]
        /\ cost' = [cost EXCEPT ![Symbol] = Account!CostAfter(side * lot, fill, size[Symbol], @)]
        /\ mark' = [mark EXCEPT ![Symbol] = fill]
    BY DEF Close, Account!PlaceOrder, Account!CashAfter, Fill
  <1>3. bar \in Nat \ {0} /\ close \in ClosePrices /\ settled \subseteq 1..bar /\ InitialCash \in Int
    BY BookConstants DEF BookInv, Clock
  <1>4. Clock'
    BY <1>1, <1>3 DEF BookInv, Clock
  <1>5. ASSUME ~adrift' PROVE Money' /\ Charged' /\ Stopped'
    <2>1. Money /\ trade \in Trades
      BY <1>1, <1>5 DEF BookInv, Money
    <2>2. size[Symbol] = trade.side /\ trade.side \in {1, -1} /\ cost[Symbol] \in Int
      BY <1>1, <2>1 DEF Money, Trades
    <2>3. lot = 1 /\ side \in {1, -1} /\ side * lot = -size[Symbol]
      BY <2>2 DEF CloseLot, Account!Abs
    <2>4. fill \in Int
      BY <1>3, <2>3, FillInt
    <2>5. fee \in Int
      <3> HIDE DEF fill, side
      <3> QED BY <2>3, <2>4, FeeInt
    <2>6. /\ Account!CostAfter(-size[Symbol], fill, size[Symbol], cost[Symbol]) = 0
          /\ pnl \in Int
      <3> HIDE DEF fill, side, lot
      <3>1. Account!Closes(-size[Symbol], size[Symbol]) /\ ~Account!Reduces(-size[Symbol], size[Symbol])
        BY <2>2 DEF Account!Closes, Account!Reduces, Account!Sign
      <3>2. /\ Account!CostAfter(-size[Symbol], fill, size[Symbol], cost[Symbol])
                 = Account!Abs(size[Symbol] + -size[Symbol]) * fill
            /\ Account!Realizes(-size[Symbol], fill, size[Symbol], cost[Symbol])
                 = size[Symbol] * fill - Account!Sign(size[Symbol]) * cost[Symbol]
        BY <3>1 DEF Account!CostAfter, Account!Realizes
      <3>3. Account!Abs(size[Symbol] + -size[Symbol]) * fill = 0
        BY <2>2, <2>4 DEF Account!Abs
      <3>4. size[Symbol] * fill \in Int /\ Account!Sign(size[Symbol]) * cost[Symbol] \in Int
        BY <2>2, <2>4 DEF Account!Sign
      <3>5. pnl = Account!Realizes(-size[Symbol], fill, size[Symbol], cost[Symbol])
        BY <2>3 DEF pnl
      <3> QED
        BY <3>2, <3>3, <3>4, <3>5
    <2>7. cost' = [cost EXCEPT ![Symbol] = 0]
      BY <1>2, <2>1, <2>3, <2>6 DEF Money
    <2>8. booked' = booked + (pnl - (trade.fees + fee) + trade.funding)
      BY <1>1 DEF Pnl
    <2> HIDE DEF fill, fee, pnl, side, lot
    <2>9. Money'
      <3>1. trade.fees \in Int /\ trade.funding \in Int
        BY <2>1 DEF Trades
      <3>2. booked' \in Int /\ cash' \in Int /\ cash' = InitialCash + booked' + credited
        BY <1>1, <1>2, <1>3, <2>1, <2>5, <2>6, <2>8, <3>1 DEF Money, OfTrade
      <3>3. /\ size' \in [{Symbol} -> Int] /\ size'[Symbol] = 0
            /\ cost' \in [{Symbol} -> Int] /\ mark' \in [{Symbol} -> Int]
        BY <1>2, <2>1, <2>2, <2>3, <2>4, <2>7 DEF Money
      <3>4. saved' # NoSnapshot =>
              /\ saved' \in Snapshots
              /\ saved'.equity = InitialCash + saved'.booked + saved'.credited + OfTrade(saved'.trade)
        BY <1>1, <2>1 DEF Money, OfTrade
      <3> QED
        BY <1>1, <2>1, <3>2, <3>3, <3>4 DEF Money, OfTrade
    <2>10. Charged' /\ Stopped'
      BY <1>1 DEF Charged, Stopped
    <2> QED
      BY <2>9, <2>10
  <1> QED
    BY <1>4, <1>5 DEF BookInv

(* Nothing is decided only on a bar that did not close beyond the stop.    *)
LEMMA NothingKeeps ==
  ASSUME BookInv, Nothing
  PROVE  BookInv'
  <1>1. /\ UNCHANGED <<bar, close, settled, lastFunding, band, saved, adrift, watched, charged, mark>>
        /\ SameMoney /\ decided' = bar /\ phase = "funded" /\ phase' = "evaluated"
        /\ trade # NoTrade /\ HasPosition => ~BandHit(trade.side)
    BY DEF Nothing, accountVars, SameMoney
  <1>2. bar \in Nat \ {0} /\ close \in Int /\ settled \subseteq 1..bar /\ lastFunding \in 0..bar
        /\ StopGap \in Nat
    BY BookConstants DEF BookInv, Clock
  <1>3. Clock'
    BY <1>1, <1>2 DEF BookInv, Clock
  <1>4. ASSUME ~adrift' PROVE Money' /\ Charged' /\ Stopped'
    <2>1. Money /\ Charged /\ Stopped
      BY <1>1, <1>4 DEF BookInv
    <2>2. Money'
      BY <1>1, <2>1, MoneyKept DEF Money
    <2>3. ASSUME trade # NoTrade
          PROVE  HasPosition /\ trade.side \in {1, -1} /\ trade.reference \in Int
      BY <2>1, <2>3 DEF Money, Trades, HasPosition
    <2>4. Charged'
      <3>1. ASSUME trade # NoTrade, NEW s \in settled, trade.opened < s PROVE s \in charged
        <4>1. s <= lastFunding
          BY <1>1, <1>2, <2>1, <2>3, <3>1 DEF Charged, Due
        <4> QED
          BY <2>1, <3>1, <4>1 DEF Charged
      <3> QED
        BY <1>1, <3>1 DEF Charged, SameMoney
    <2>5. Stopped'
      <3>1. ASSUME trade # NoTrade, watched, StopGap # 0
            PROVE  /\ band \in Bands /\ band.stop = StopOf(trade.side, trade.reference)
                   /\ trade.side * (close - band.stop) > 0
        <4>1. band \in Bands /\ band # NoBand /\ band.stop = StopOf(trade.side, trade.reference)
          BY BookConstants, <2>1, <3>1 DEF Stopped
        <4>2. ~(trade.side * (close - band.stop) <= 0)
          BY <1>1, <2>3, <3>1, <4>1 DEF BandHit
        <4>3. trade.side * (close - band.stop) \in Int
          BY <1>2, <2>3, <3>1, <4>1 DEF Bands
        <4> QED
          BY <4>1, <4>2, <4>3
      <3> QED
        BY <1>1, <3>1 DEF Stopped, SameMoney, StopOf
    <2> QED
      BY <2>2, <2>4, <2>5
  <1> QED
    BY <1>3, <1>4 DEF BookInv

-----------------------------------------------------------------------------
\* Whatever is rolled back, restarted or replaced, the account, the trades, the funding and
\* the band of a paper strategy fit together until a fill is rolled back out of the trades.
THEOREM BookInvariant ==
  BookSpec => []BookInv
  <1>1. BookInit => BookInv
    BY InitBook
  <1>2. BookInv /\ [BookNext]_bookVars => BookInv'
    BY NewBarKeeps, EvaluateKeeps, IdleKeeps, AccrueKeeps, OpenKeeps, CloseKeeps, NothingKeeps,
       CommitKeeps, RollbackKeeps, RestartKeeps, NewVersionKeeps DEF BookNext
  <1> QED
    BY <1>1, <1>2, PTL DEF BookSpec

\* The paper account's cash is what its trades made and what restarts credited, and every
\* settlement since an entry is charged once.
THEOREM PaperBookAddsUp ==
  BookSpec => []BookAddsUp
  <1>1. BookInv => CashIsBooked
    BY DEF BookInv, Money, OfTrade, CashIsBooked
  <1>2. BookInv => FundingSettledOnce
    <2> SUFFICES ASSUME BookInv PROVE FundingSettledOnce
      OBVIOUS
    <2>1. Due \cap charged = {}
      <3>1. lastFunding \in Nat /\ \A s \in charged : s \in 0..lastFunding
        BY DEF BookInv, Clock
      <3>2. \A s \in charged : ~(lastFunding < s)
        BY <3>1
      <3> QED
        BY <3>2 DEF Due
    <2>2. decided = bar /\ trade # NoTrade /\ ~adrift
            => {s \in settled : trade.opened < s} \subseteq charged
      BY DEF BookInv, Charged
    <2> QED
      BY <2>1, <2>2 DEF FundingSettledOnce
  <1> QED
    BY <1>1, <1>2, BookInvariant, PTL DEF BookAddsUp

\* A trade is not kept on a bar that closed on or beyond its stop by the process and the
\* version that opened it.
THEOREM StopsAreHonoured ==
  BookSpec => []StopIsHonoured
  <1>1. BookInv => StopIsHonoured
    BY DEF BookInv, Stopped, StopIsHonoured
  <1> QED
    BY <1>1, BookInvariant, PTL

(***************************************************************************)
(* Types, which hold of a book that is adrift as well.                     *)
(***************************************************************************)
(* What PaperAccountProofs says of netting, which rests on no assumption.  *)
Facts == INSTANCE PaperAccountProofs WITH
  Symbols <- {Symbol}, RefPrices <- ClosePrices, Lots <- {1}, FundingRates <- {FundingRate}

(* A trade is restored at its entry, which is a price.                     *)
Entries == [side : {1, -1}, entry : Nat, opened : Nat, reference : Int, fees : Int, funding : Int]

BookTyped ==
  /\ BookTypeOK
  /\ trade \in Entries \cup {NoTrade}
  /\ saved # NoSnapshot => saved.trade \in Entries \cup {NoTrade} /\ saved.equity \in Int

(* What is no trade is none of those.                                      *)
LEMMA EntriesAreTrades == NoTrade \notin Entries
  BY BookConstants DEF Entries, Trades

(* Fills are at positive prices.                                           *)
LEMMA FillNat ==
  ASSUME close \in ClosePrices, NEW side \in {1, -1}
  PROVE  Fill(side) \in Nat
  <1> DEFINE n == close * SlippageBps
             slip == n \div 10000
  <1>1. close \in Nat \ {0} /\ SlippageBps \in 0..9999
    BY BookConstants
  <1>2. n \in Nat /\ n < close * 10000
    BY <1>1
  <1>3. Fill(side) = close + side * slip
    BY DEF Fill, Account!FillPrice
  <1> HIDE DEF n
  <1>4. slip \in Int /\ slip * 10000 <= n
    BY <1>2, RoundedDown
  <1> HIDE DEF slip
  <1>5. slip < close /\ -slip <= close
    <2>1. slip >= 0
      BY <1>2, QuotientBelow DEF slip
    <2> QED BY <1>1, <1>2, <1>4, <2>1
  <1> QED BY <1>1, <1>3, <1>4, <1>5

(* Netting leaves a cost and realizes a pnl that are whole numbers.         *)
LEMMA NettingTyped ==
  ASSUME NEW q \in Int, NEW f \in Nat, NEW held \in Int, NEW worth \in Nat
  PROVE  Account!CostAfter(q, f, held, worth) \in Nat /\ Account!Realizes(q, f, held, worth) \in Int
  <1>1. Account!CostAfter(q, f, held, worth) \in Nat
    BY Facts!CostAfterNat
    DEF Facts!CostAfter, Account!CostAfter, Facts!Abs, Account!Abs, Facts!Closes, Account!Closes,
        Facts!Reduces, Account!Reduces, Facts!Sign, Account!Sign
  <1>2. Account!Realizes(q, f, held, worth) \in Int
    BY Facts!RealizesInt
    DEF Facts!Realizes, Account!Realizes, Facts!CostAfter, Account!CostAfter, Facts!Abs, Account!Abs,
        Facts!Closes, Account!Closes, Facts!Reduces, Account!Reduces, Facts!Sign, Account!Sign
  <1> QED BY <1>1, <1>2

(* An order of any size keeps the account's types.                         *)
LEMMA OrderTyped ==
  ASSUME Account!TypeOK, close \in ClosePrices, NEW side \in {1, -1}, NEW lot \in Nat,
         Account!PlaceOrder(Symbol, side, lot, close)
  PROVE  Account!TypeOK'
  <1> DEFINE f     == Account!FillPrice(side, close)
             q     == side * lot
             held  == size[Symbol]
             worth == cost[Symbol]
             after == Account!CostAfter(q, f, held, worth)
             pnl   == Account!Realizes(q, f, held, worth)
             fee   == Account!Commission(lot, f)
  <1>1. f \in Nat /\ q \in Int /\ held \in Int /\ worth \in Nat
    BY FillNat DEF Fill, Account!TypeOK
  <1>2. after \in Nat /\ pnl \in Int
    <2> HIDE DEF f, q, held, worth
    <2> QED BY <1>1, NettingTyped
  <1>3. fee \in Nat
    <2>1. CommissionBps * lot * f \in Nat
      BY <1>1, BookConstants
    <2> HIDE DEF f
    <2> QED BY <2>1, QuotientBelow DEF Account!Commission
  <1>4. /\ orderSeq < MaxOrders /\ orderSeq' = orderSeq + 1
        /\ cash' = cash - fee + pnl
        /\ size' = [size EXCEPT ![Symbol] = held + q]
        /\ cost' = [cost EXCEPT ![Symbol] = after]
        /\ mark' = [mark EXCEPT ![Symbol] = f]
        /\ realized' = realized + pnl
        /\ reported' = [reported EXCEPT ![Symbol] = reported[Symbol] + pnl]
        /\ commission' = commission + fee
        /\ funding' = funding
    BY DEF Account!PlaceOrder, Account!CashAfter
  <1> HIDE DEF f, q, held, worth, after, pnl, fee
  <1>5. cash' \in Int /\ realized' \in Int /\ funding' \in Int /\ commission' \in Nat
    BY <1>2, <1>3, <1>4 DEF Account!TypeOK
  <1>6. size' \in [{Symbol} -> Int] /\ reported' \in [{Symbol} -> Int]
    BY <1>1, <1>2, <1>4 DEF Account!TypeOK
  <1>7. cost' \in [{Symbol} -> Nat] /\ mark' \in [{Symbol} -> Nat]
    BY <1>1, <1>2, <1>4 DEF Account!TypeOK
  <1>8. orderSeq' \in 0..MaxOrders
    BY <1>4, BookConstants DEF Account!TypeOK
  <1> QED BY <1>5, <1>6, <1>7, <1>8 DEF Account!TypeOK

(* Every step keeps them: those in which the account trades or is paid,    *)
(* and the rest.                                                           *)
LEMMA TradingTyped ==
  ASSUME BookTyped, NEW side \in {1, -1}, Open(side) \/ Close
  PROVE  BookTyped'
  <1> USE DEF BookTyped, BookTypeOK
  <1>1. CASE Open(side)
    <2>1. Account!TypeOK'
      BY <1>1, OrderTyped DEF Open
    <2>2. Fill(side) \in Nat /\ Account!Commission(1, Fill(side)) \in Int
      <3>1. Fill(side) \in Nat
        BY FillNat
      <3>2. 1 \in Int /\ Fill(side) \in Int
        BY <3>1
      <3> QED BY <3>1, <3>2, FeeInt
    <2>3. trade' \in Entries /\ trade' # NoTrade
      BY <1>1, <2>2, BookConstants, EntriesAreTrades DEF Open, Entries
    <2> QED BY <1>1, <2>1, <2>3 DEF Open
  <1>2. CASE Close
    <2>1. CloseLot \in Nat /\ -trade.side \in {1, -1}
      BY <1>2 DEF Close, CloseLot, Account!Abs, Account!TypeOK, Entries
    <2>2. Account!PlaceOrder(Symbol, -trade.side, CloseLot, close)
      BY <1>2 DEF Close
    <2>3. Account!TypeOK'
      BY <2>1, <2>2, OrderTyped
    <2> QED BY <1>2, <2>3 DEF Close
  <1> QED BY <1>1, <1>2

(* A settlement pays a whole number.                                       *)
LEMMA FundingTyped ==
  ASSUME BookTyped, Accrue
  PROVE  BookTyped'
  <1> USE DEF BookTyped, BookTypeOK
  <1> DEFINE pay == Account!FundingPay(Symbol, FundingRate)
  <1>1. pay \in Int
    <2>1. cost[Symbol] * FundingRate \in Int
      BY BookConstants DEF Account!TypeOK
    <2>2. (cost[Symbol] * FundingRate) \div 10000 \in Int
      BY <2>1, BpsInt
    <2> QED BY <2>2 DEF Account!FundingPay, Account!Sign, Account!TypeOK
  <1>2. Account!TypeOK'
    <2> HIDE DEF pay
    <2>1. cash' = cash + pay /\ funding' = funding + pay
      BY DEF Accrue, Account!AccrueFunding, pay
    <2>2. UNCHANGED <<size, cost, mark, realized, orderSeq, reported, commission>>
      BY DEF Accrue, Account!AccrueFunding
    <2> QED BY <1>1, <2>1, <2>2 DEF Account!TypeOK
  <1>3. /\ trade' \in Entries \cup {NoTrade}
        /\ trade # NoTrade => trade' # NoTrade
    <2>1. trade' = IF trade = NoTrade THEN trade ELSE [trade EXCEPT !.funding = trade.funding + pay]
      BY DEF Accrue
    <2> HIDE DEF pay
    <2> QED BY <1>1, <2>1, EntriesAreTrades DEF Entries
  <1>4. lastFunding' \in 0..bar
    BY DEF Accrue, Due, NextDue, LastFundingAfter
  <1> QED BY <1>2, <1>3, <1>4 DEF Accrue

(* What is restored was typed when it was saved.                           *)
LEMMA RestTyped ==
  ASSUME BookTyped, [BookNext]_bookVars, ~Accrue, ~Close, ~ \E side \in {1, -1} : Open(side)
  PROVE  BookTyped'
  <1> USE DEF BookTyped, BookTypeOK
  <1>1. CASE NewBar
    <2>1. /\ bar' = bar + 1 /\ bar < LastClose /\ close' \in ClosePrices
          /\ settled' \in {settled, settled \cup {bar + 1}}
          /\ UNCHANGED <<phase, processed, band, lastFunding, trade, saved, adrift, decided>>
      BY <1>1 DEF NewBar, historyVars
    <2>2. Account!TypeOK'
      BY <1>1 DEF NewBar, accountVars, Account!TypeOK
    <2>3. bar' \in 1..LastClose /\ settled' \subseteq 1..bar'
      BY <2>1, BookConstants
    <2>4. processed' \in 0..bar' /\ decided' \in 0..bar' /\ lastFunding' \in 0..bar'
      BY <2>1
    <2> QED BY <2>1, <2>2, <2>3, <2>4
  <1>2. CASE Evaluate
    <2>1. mark' = [mark EXCEPT ![Symbol] = close] /\ close \in Nat
      BY <1>2, BookConstants DEF Evaluate, Account!Mark
    <2>2. Account!TypeOK'
      BY <1>2, <2>1 DEF Evaluate, Account!Mark, Account!TypeOK
    <2>3. /\ UNCHANGED <<bar, close, settled, band, lastFunding, trade, saved, adrift, decided>>
          /\ processed' = bar /\ phase' \in {"marked", "evaluated"}
      BY <1>2 DEF Evaluate, historyVars
    <2> QED BY <2>2, <2>3, BookConstants
  <1>3. CASE NotActive \/ EvaluationFails \/ Funded \/ Nothing \/ UNCHANGED bookVars
    <2>1. /\ UNCHANGED <<bar, close, settled, processed, band, lastFunding, accountVars>>
          /\ UNCHANGED <<trade, saved, adrift>>
          /\ phase' \in {phase, "evaluated", "funded"} /\ decided' \in {decided, bar}
      BY <1>3 DEF NotActive, EvaluationFails, Funded, Nothing, bookVars, historyVars
    <2>2. Account!TypeOK'
      BY <2>1 DEF accountVars, Account!TypeOK
    <2> QED BY <2>1, <2>2, BookConstants
  <1>4. CASE Commit
    <2>1. Equity \in Int
      BY DEF Equity, Account!Unrealized, Account!Sign, Account!TypeOK
    <2> QED BY <1>4, <2>1 DEF Commit, accountVars, historyVars, Account!TypeOK
  <1>5. SavedTrade \in Entries \cup {NoTrade} /\ CashAfter \in Int
    BY BookConstants DEF SavedTrade, CashAfter
  <1>6. CASE Rollback
    BY <1>5, <1>6 DEF Rollback, accountVars, Account!TypeOK
  <1>7. CASE Restart
    <2>1. Account!TypeOK'
      BY <1>5, <1>7, BookConstants DEF Restart, Entries, Account!TypeOK
    <2> QED BY <1>5, <1>7, <2>1 DEF Restart
  <1>8. CASE NewVersion
    BY <1>8 DEF NewVersion, accountVars, Account!TypeOK
  <1> QED BY <1>1, <1>2, <1>3, <1>4, <1>6, <1>7, <1>8 DEF BookNext

\* The types of the book, adrift or not: the clocks never pass the newest bar, the account
\* is typed as PaperAccount's, and a band without a trade is left only by a rollback.
THEOREM BookTypeCorrect == BookSpec => []BookTypeOK
  <1>1. BookInit => BookTyped
    BY BookConstants DEF BookInit, BookTyped, BookTypeOK, Account!Init, Account!TypeOK
  <1>2. BookTyped /\ [BookNext]_bookVars => BookTyped'
    BY TradingTyped, FundingTyped, RestTyped
  <1>3. BookTyped => BookTypeOK
    BY DEF BookTyped
  <1> QED BY <1>1, <1>2, <1>3, PTL DEF BookSpec

-----------------------------------------------------------------------------
(* The backtest.                                                           *)

Amounts == {money, qty, entryFill, entryCommission, tradeFunding, liqLevel, equity,
            totCommission, totFunding, netPnl, tradeCommission, paidFunding, before}

Typed ==
  /\ config \in Configs /\ pos \in {-1, 0, 1}
  /\ Amounts \subseteq Int
  /\ prices \in [open : Nat, high : Nat, low : Nat, close : Nat]

(* Cash is the capital, the net pnl of the trades closed, and what the     *)
(* open one has cost and was paid; the totals are those of the trades.     *)
Books ==
  /\ money = InitialCapital + netPnl + OfOpen(tradeFunding - entryCommission)
  /\ totCommission = tradeCommission + OfOpen(entryCommission)
  /\ totFunding = paidFunding + OfOpen(tradeFunding)

(* Between bars the curve stands at the mark, and at the end at the cash.  *)
Marked ==
  /\ moment = "next" => equity = money + OpenPnl
  /\ moment = "done" => pos = 0 /\ money = equity

BackInv == Typed /\ Books /\ Marked

(***************************************************************************)
(* Rates, sizes and levels are whole numbers.                              *)
(***************************************************************************)
LEMMA RateInt ==
  ASSUME NEW a \in Int, NEW r \in Int
  PROVE  Bps(a, r) \in Int
  <1>1. a * r \in Int
    OBVIOUS
  <1> QED
    BY <1>1 DEF Bps

(* A size is a whole number of lots.                                       *)
LEMMA SizeInt ==
  ASSUME NEW sizing, NEW capital \in Int, NEW price \in Int, NEW leverage \in Int,
         NEW risk \in Int, NEW distance \in Int, NEW fraction \in Int
  PROVE  PositionSize(sizing, capital, price, leverage, risk, distance, fraction) \in Int
  <1>1. CASE capital <= 0 \/ price <= 0 \/ leverage <= 0
    BY <1>1 DEF PositionSize
  <1>2. CASE ~(capital <= 0 \/ price <= 0 \/ leverage <= 0)
    <2>1. MarginCap(capital, price, leverage) \in Int
      <3>1. capital * leverage \in Int /\ price > 0
        BY <1>2
      <3> QED
        BY <3>1, RoundedDown DEF MarginCap
    <2>2. Wanted(sizing, capital, price, leverage, risk, distance, fraction) \in Int
      <3>1. capital * risk \in Int /\ capital * fraction * leverage \in Int
        OBVIOUS
      <3>2. 10000 * price \in Int /\ 10000 * price > 0
        BY <1>2
      <3>3. CASE sizing = "atr" /\ distance <= 0
        BY <3>3 DEF Wanted
      <3>4. CASE sizing = "atr" /\ ~(distance <= 0)
        <4>1. 10000 * distance \in Int /\ 10000 * distance > 0
          BY <3>4
        <4>2. (capital * risk) \div (10000 * distance) \in Int
          BY <3>1, <4>1, RoundedDown
        <4> QED
          BY <3>4, <4>2 DEF Wanted
      <3>5. CASE sizing # "atr"
        <4>1. (capital * fraction * leverage) \div (10000 * price) \in Int
          BY <3>1, <3>2, RoundedDown
        <4> QED
          BY <3>5, <4>1 DEF Wanted
      <3> QED
        BY <3>3, <3>4, <3>5
    <2> QED
      BY <1>2, <2>1, <2>2 DEF PositionSize
  <1> QED
    BY <1>1, <1>2

(* A level of liquidation is an integer price.                             *)
LEMMA LiquidationInt ==
  ASSUME NEW entry \in Int, NEW side \in Int, NEW leverage \in Int, NEW maintenance \in Int
  PROVE  LiquidationPrice(entry, side, leverage, maintenance) \in Int
  <1> DEFINE move == MarginMove(leverage, maintenance)
  <1>1. CASE entry <= 0 \/ leverage <= 1 \/ move <= 0
    BY <1>1 DEF LiquidationPrice
  <1>2. CASE ~(entry <= 0 \/ leverage <= 1 \/ move <= 0)
    <2>1. 10000 \div leverage \in Int
      BY <1>2, RoundedDown
    <2>2. move \in Int
      BY <2>1 DEF MarginMove
    <2> HIDE DEF move
    <2>3. entry * (10000 - side * move) \in Int
      BY <2>2
    <2>4. (entry * (10000 - side * move)) \div 10000 \in Int
      BY <2>3
    <2> QED
      BY <1>2, <2>4 DEF LiquidationPrice, move
  <1> QED
    BY <1>1, <1>2

(***************************************************************************)
(* Sizes and liquidation levels, of any numbers.                           *)
(***************************************************************************)
(* Products of naturals, and of what is below.                             *)
LEMMA ProductNat ==
  ASSUME NEW a \in Nat, NEW b \in Nat
  PROVE  a * b \in Nat
  OBVIOUS

(* A product grows with its factor.                                        *)
LEMMA TimesMonotone ==
  ASSUME NEW a \in Int, NEW b \in Int, NEW k \in Nat, a <= b
  PROVE  a * k <= b * k
  OBVIOUS

\* A size is covered: its margin is never more than the equity, sized by risk it loses at
\* its stop no more than the share of the equity that it was given, and sized by a fraction
\* it is worth no more than that fraction levered (execution/sizing.py).
THEOREM SizeIsCovered ==
  ASSUME NEW sizing \in {"atr", "fixed"}, NEW capital \in Nat, NEW price \in Nat,
         NEW leverage \in Nat, NEW risk \in Nat, NEW distance \in Nat, NEW fraction \in Nat
  PROVE  LET lots == PositionSize(sizing, capital, price, leverage, risk, distance, fraction)
         IN /\ lots \in Nat
            /\ lots * price <= capital * leverage
            /\ sizing = "atr" => 10000 * (lots * distance) <= capital * risk
            /\ sizing = "fixed" => 10000 * (lots * price) <= capital * fraction * leverage
  <1> DEFINE lots   == PositionSize(sizing, capital, price, leverage, risk, distance, fraction)
             wanted == Wanted(sizing, capital, price, leverage, risk, distance, fraction)
             cap    == MarginCap(capital, price, leverage)
  <1>0. capital * leverage \in Nat /\ capital * risk \in Nat /\ capital * fraction * leverage \in Nat
    BY ProductNat
  <1>1. CASE capital <= 0 \/ price <= 0 \/ leverage <= 0
    <2>1. lots = 0
      BY <1>1 DEF PositionSize
    <2> QED
      BY <1>0, <2>1
  <1>2. CASE capital > 0 /\ price > 0 /\ leverage > 0
    <2>1. lots = IF wanted < cap THEN wanted ELSE cap
      BY <1>2 DEF PositionSize
    <2>2. cap \in Int /\ cap >= 0 /\ cap * price <= capital * leverage
      <3>1. cap = (capital * leverage) \div price
        BY DEF MarginCap
      <3> QED
        BY <1>0, <1>2, <3>1, RoundedDown
    <2>3. CASE sizing = "fixed"
      <3>1. wanted = (capital * fraction * leverage) \div (10000 * price)
        BY <2>3 DEF Wanted
      <3>2. 10000 * price \in Int /\ 10000 * price > 0
        BY <1>2
      <3> HIDE DEF wanted, cap, lots
      <3> DEFINE total == capital * fraction * leverage
                 unit == 10000 * price
      <3> HIDE DEF total, unit
      <3>3. wanted = total \div unit /\ total \in Nat /\ unit \in Int /\ unit > 0
        BY <1>0, <3>1, <3>2 DEF total, unit
      <3>4. wanted \in Int /\ wanted >= 0 /\ wanted * unit <= total
        BY <3>3, RoundedDown
      <3>5. lots \in Nat /\ lots <= wanted /\ lots <= cap
        BY <2>1, <2>2, <3>4
      <3>6. lots * price <= cap * price /\ lots * unit <= wanted * unit
        BY <2>2, <3>3, <3>4, <3>5, TimesMonotone
      <3>7. lots * unit = 10000 * (lots * price)
        BY <3>5 DEF unit
      <3> QED
        BY <1>0, <2>2, <2>3, <3>3, <3>4, <3>5, <3>6, <3>7 DEF lots, total
    <2>4. CASE sizing = "atr" /\ distance = 0
      <3>1. wanted = 0
        BY <2>4 DEF Wanted
      <3>2. lots = 0
        BY <2>1, <2>2, <3>1
      <3> QED
        BY <1>0, <2>4, <3>2
    <2>5. CASE sizing = "atr" /\ distance > 0
      <3>1. wanted = (capital * risk) \div (10000 * distance)
        BY <2>5 DEF Wanted
      <3> HIDE DEF wanted, cap, lots
      <3> DEFINE total == capital * risk
                 unit == 10000 * distance
      <3> HIDE DEF total, unit
      <3>3. wanted = total \div unit /\ total \in Nat /\ unit \in Int /\ unit > 0
        BY <1>0, <2>5, <3>1 DEF total, unit
      <3>4. wanted \in Int /\ wanted >= 0 /\ wanted * unit <= total
        BY <3>3, RoundedDown
      <3>5. lots \in Nat /\ lots <= wanted /\ lots <= cap
        BY <2>1, <2>2, <3>4
      <3>6. lots * price <= cap * price /\ lots * unit <= wanted * unit
        BY <2>2, <3>3, <3>4, <3>5, TimesMonotone
      <3>7. lots * unit = 10000 * (lots * distance)
        BY <3>5 DEF unit
      <3> QED
        BY <1>0, <2>2, <2>5, <3>3, <3>4, <3>5, <3>6, <3>7 DEF lots, total
    <2> QED
      BY <2>3, <2>4, <2>5
  <1> QED
    BY <1>1, <1>2

\* A liquidation level lies on the losing side of its entry, at the entry itself only where
\* the level of a short is rounded down to it, and no further from it than the margin goes.
THEOREM LiquidationLoses ==
  ASSUME NEW entry \in Int, NEW side \in {1, -1}, NEW leverage \in Nat, NEW maintenance \in Nat,
         LiquidationPrice(entry, side, leverage, maintenance) # 0
  PROVE  LET level == LiquidationPrice(entry, side, leverage, maintenance)
         IN /\ leverage > 1 /\ level \in Int
            /\ side * (entry - level) >= 0
            /\ side = 1 => level < entry
            /\ leverage * (side * (entry - level) - 1) < entry
  <1> DEFINE level == LiquidationPrice(entry, side, leverage, maintenance)
             move  == MarginMove(leverage, maintenance)
             total == entry * (10000 - side * move)
  <1>1. entry > 0 /\ leverage > 1 /\ move > 0 /\ level = total \div 10000
    <2>1. leverage <= 1 => level = 0
      BY DEF LiquidationPrice
    <2>2. entry <= 0 => level = 0
      BY DEF LiquidationPrice
    <2>3. ~(move > 0) /\ leverage > 1 => level = 0
      <3> SUFFICES ASSUME ~(move > 0), leverage > 1 PROVE level = 0
        OBVIOUS
      <3>1. move \in Int
        BY RoundedDown DEF MarginMove
      <3>2. move <= 0
        BY <3>1
      <3> QED
        BY <3>2 DEF LiquidationPrice
    <2>4. leverage > 1 /\ entry > 0 /\ move > 0
      BY <2>1, <2>2, <2>3
    <2>5. move \in Int
      BY <2>4, RoundedDown DEF MarginMove
    <2> QED
      BY <2>4, <2>5 DEF LiquidationPrice
  <1>2. move \in Int /\ leverage * move <= 10000
    <2>1. (10000 \div leverage) \in Int /\ (10000 \div leverage) * leverage <= 10000
      BY <1>1, RoundedDown
    <2>2. DEFINE q == 10000 \div leverage
    <2> HIDE DEF q
    <2>3. q \in Int /\ q * leverage <= 10000 /\ move = q - maintenance
      BY <2>1 DEF q, MarginMove
    <2>4. move * leverage <= q * leverage
      <3> HIDE DEF move
      <3> QED BY <2>3, TimesMonotone
    <2> HIDE DEF move
    <2> QED
      BY <2>3, <2>4
  <1> HIDE DEF move, level
  <1>3. DEFINE room == entry * move
  <1>4. room \in Nat /\ room > 0 /\ total = 10000 * entry - side * room /\ leverage * room <= 10000 * entry
    <2>1. room \in Nat /\ room > 0
      BY <1>1, <1>2
    <2>2. total = 10000 * entry - side * room
      BY <1>1, <1>2
    <2>3. (leverage * move) * entry <= 10000 * entry
      BY <1>1, <1>2, TimesMonotone
    <2>4. (leverage * move) * entry = leverage * room
      BY <1>1, <1>2
    <2> QED
      BY <2>1, <2>2, <2>3, <2>4
  <1> HIDE DEF room
  <1>5. total \in Int /\ level \in Int /\ level * 10000 <= total /\ total < level * 10000 + 10000
    <2>1. total \in Int
      BY <1>4
    <2> HIDE DEF total
    <2> QED
      BY <1>1, <2>1, RoundedDown
  <1>6. side = 1 => 10000 * (entry - level) >= room /\ 10000 * (entry - level) < room + 10000
    BY <1>4, <1>5
  <1>7. side = -1 => 10000 * (level - entry) <= room /\ room < 10000 * (level - entry) + 10000
    BY <1>4, <1>5
  <1>8. DEFINE loss == side * (entry - level)
  <1>9. loss \in Int /\ loss >= 0 /\ (side = 1 => level < entry) /\ 10000 * (loss - 1) < room
    BY <1>4, <1>5, <1>6, <1>7
  <1>10. leverage * (loss - 1) < entry
    <2> HIDE DEF loss
    <2>1. CASE loss - 1 < 0
      <3>1. leverage * (loss - 1) <= 0
        BY <1>9, <2>1
      <3> QED BY <1>1, <1>9, <3>1
    <2>2. CASE loss - 1 >= 0
      <3>1. leverage * (10000 * (loss - 1)) < leverage * room
        BY <1>1, <1>4, <1>9
      <3>2. leverage * (10000 * (loss - 1)) = 10000 * (leverage * (loss - 1))
        BY <1>9
      <3>3. leverage * (loss - 1) \in Int /\ leverage * room \in Int
        BY <1>9, <1>4
      <3> QED BY <1>4, <3>1, <3>2, <3>3
    <2> QED BY <1>9, <2>1, <2>2
  <1> QED
    BY <1>1, <1>5, <1>9, <1>10 DEF level

-----------------------------------------------------------------------------
(* A backtest begins with its capital and an empty curve.                  *)
LEMMA InitBack ==
  ASSUME BacktestInit
  PROVE  BackInv
  <1>1. Typed
    BY BacktestConstants DEF BacktestInit, Typed, Amounts
  <1>2. OpenPnl = 0
    BY DEF BacktestInit, OpenPnl
  <1> QED
    BY BacktestConstants, <1>1, <1>2 DEF BacktestInit, BackInv, Books, Marked, OfOpen

(* A close moves what the open trade made into the closed ones.            *)
LEMMA ClosePositionKeeps ==
  ASSUME Typed, Books, pos # 0,
         NEW reference \in Int, NEW free \in BOOLEAN, ClosePosition(reference, free),
         UNCHANGED <<config, equity, prices, before>>
  PROVE  /\ Typed' /\ Books' /\ pos' = 0
         /\ free => money' = money + pos * qty * (reference - entryFill)
  <1> DEFINE fill == IF free THEN reference ELSE FillPrice(reference, -pos)
             gross == pos * qty * (fill - entryFill)
             fee == ExitCommission(fill, free)
  <1>0. /\ pos \in {-1, 1} /\ qty \in Int /\ entryFill \in Int
        /\ money \in Int /\ netPnl \in Int /\ tradeFunding \in Int /\ entryCommission \in Int
        /\ tradeCommission \in Int /\ paidFunding \in Int /\ totCommission \in Int
        /\ totFunding \in Int /\ InitialCapital \in Int /\ SlipBps \in Int /\ TakerBps \in Int
    BY BacktestConstants DEF Typed, Amounts
  <1>1. fill \in Int
    <2>1. Bps(reference, SlipBps) \in Int
      BY <1>0, RateInt
    <2>2. FillPrice(reference, -pos) \in Int
      BY <1>0, <2>1 DEF FillPrice
    <2> QED
      BY <2>2
  <1>2. gross \in Int
    <2> HIDE DEF fill
    <2>1. qty * (fill - entryFill) \in Int /\ pos * qty \in Int
      BY <1>0, <1>1
    <2> QED
      BY <1>0, <1>1, <2>1
  <1>3. fee \in Int /\ (free => fee = 0)
    <2> HIDE DEF fill
    <2>1. qty * fill \in Int
      BY <1>0, <1>1
    <2>2. Bps(qty * fill, TakerBps) \in Int
      BY <1>0, <2>1, RateInt
    <2> QED
      BY <2>2 DEF ExitCommission
  <1>4. /\ money' = money + gross - fee
        /\ netPnl' = netPnl + (gross - (entryCommission + fee) + tradeFunding)
        /\ tradeCommission' = tradeCommission + entryCommission + fee
        /\ paidFunding' = paidFunding + tradeFunding
        /\ totCommission' = totCommission + fee
        /\ pos' = 0 /\ qty' = 0 /\ liqLevel' = 0
        /\ UNCHANGED <<entryFill, entryCommission, tradeFunding, totFunding>>
    BY DEF ClosePosition, NetPnl
  <1>5. free => gross = pos * qty * (reference - entryFill)
    OBVIOUS
  <1> HIDE DEF fill, gross, fee
  <1>6. Books'
    BY <1>0, <1>2, <1>3, <1>4 DEF Books, OfOpen
  <1>7. Typed'
    <2>1. /\ money' \in Int /\ netPnl' \in Int /\ tradeCommission' \in Int
          /\ paidFunding' \in Int /\ totCommission' \in Int
      BY <1>0, <1>2, <1>3, <1>4
    <2> QED
      BY <1>4, <2>1 DEF Typed, Amounts
  <1> QED
    BY <1>0, <1>2, <1>3, <1>4, <1>5, <1>6, <1>7

(* Funding moves cash and what the trade was paid alike.                   *)
LEMMA SettleKeeps ==
  ASSUME BackInv, Settle
  PROVE  BackInv'
  <1>1. PICK rate \in (IF pos = 0 THEN {0} ELSE FundingRates) :
          LET pay == -pos * Bps(qty * entryFill, rate)
          IN /\ money' = money + pay
             /\ tradeFunding' = tradeFunding + pay
             /\ totFunding' = totFunding + pay
    BY DEF Settle
  <1> DEFINE pay == -pos * Bps(qty * entryFill, rate)
  <1>2. pay \in Int /\ (pos = 0 => pay = 0)
    <2>1. qty * entryFill \in Int /\ rate \in Int /\ pos \in {-1, 0, 1}
      BY BacktestConstants DEF BackInv, Typed, Amounts
    <2>2. Bps(qty * entryFill, rate) \in Int
      BY <2>1, RateInt
    <2> QED
      BY <2>1, <2>2
  <1>3. money' = money + pay /\ tradeFunding' = tradeFunding + pay /\ totFunding' = totFunding + pay
    BY <1>1
  <1> HIDE DEF pay
  <1>4. UNCHANGED <<config, prices, before, pos, qty, entryFill, entryCommission, liqLevel, equity,
                    totCommission, netPnl, tradeCommission, paidFunding>> /\ moment' = "exits"
    BY DEF Settle, tradesVars
  <1>5. /\ money \in Int /\ tradeFunding \in Int /\ totFunding \in Int /\ InitialCapital \in Int
        /\ netPnl \in Int /\ entryCommission \in Int /\ paidFunding \in Int
    BY BacktestConstants DEF BackInv, Typed, Amounts
  <1>6. Typed'
    <2>1. money' \in Int /\ tradeFunding' \in Int /\ totFunding' \in Int
      BY <1>2, <1>3, <1>5
    <2> QED
      BY <1>4, <2>1 DEF BackInv, Typed, Amounts
  <1>7. Books'
    BY <1>2, <1>3, <1>4, <1>5 DEF BackInv, Books, OfOpen
  <1> QED
    BY <1>4, <1>6, <1>7 DEF BackInv, Marked

(* An entry costs its fee.                                                 *)
LEMMA EnterKeeps ==
  ASSUME BackInv, Enter, pos = 0
  PROVE  BackInv'
  <1>1. PICK atr \in Atrs :
          /\ pos' = EntrySide /\ qty' = EntryQty(EntrySide, atr)
          /\ entryFill' = EntryFill(EntrySide) /\ entryCommission' = EntryFee(EntrySide, atr)
          /\ money' = money - EntryFee(EntrySide, atr)
          /\ totCommission' = totCommission + EntryFee(EntrySide, atr)
          /\ tradeFunding' = 0
          /\ liqLevel' = LiquidationPrice(EntryFill(EntrySide), EntrySide, config.leverage, MaintenanceBps)
    BY DEF Enter, TradeFundingAtEntry
  <1> DEFINE fill == EntryFill(EntrySide)
             lot == EntryQty(EntrySide, atr)
             fee == EntryFee(EntrySide, atr)
  <1>2. /\ UNCHANGED <<config, prices, before, equity, totFunding, netPnl, tradeCommission, paidFunding>>
        /\ moment' = "range" /\ EntrySide \in {-1, 1}
    BY DEF Enter, EntrySide, tradesVars
  <1>3. /\ money \in Int /\ totCommission \in Int /\ netPnl \in Int /\ tradeCommission \in Int
        /\ InitialCapital \in Int /\ before \in Int /\ prices.open \in Int /\ atr \in Int
        /\ config.leverage \in Int /\ config.stop \in Int
        /\ SlipBps \in Int /\ MakerBps \in Int /\ TakerBps \in Int /\ RiskBps \in Int
        /\ FractionBps \in Int /\ MaintenanceBps \in Int
    BY BacktestConstants DEF BackInv, Typed, Amounts
  <1>4. fill \in Int
    <2>1. Bps(prices.open, SlipBps) \in Int
      BY <1>3, RateInt
    <2>2. FillPrice(prices.open, EntrySide) \in Int
      BY <1>2, <1>3, <2>1 DEF FillPrice
    <2> QED
      BY <1>3, <2>2 DEF EntryFill
  <1>5. lot \in Int
    <2>1. StopDistance(atr) \in Int
      BY <1>3 DEF StopDistance
    <2> QED
      BY <1>3, <1>4, <2>1, SizeInt DEF EntryQty
  <1>6. fee \in Int
    <2> HIDE DEF fill, lot
    <2>1. lot * fill \in Int
      BY <1>4, <1>5
    <2>2. Bps(lot * fill, MakerBps) \in Int /\ Bps(lot * fill, TakerBps) \in Int
      BY <1>3, <2>1, RateInt
    <2>3. fee = Bps(lot * fill, IF Maker THEN MakerBps ELSE TakerBps)
      BY DEF EntryFee, fill, lot
    <2> QED
      BY <2>2, <2>3
  <1>7. liqLevel' \in Int
    <2>1. EntrySide \in Int /\ liqLevel' = LiquidationPrice(fill, EntrySide, config.leverage, MaintenanceBps)
      BY <1>1, <1>2
    <2> HIDE DEF fill
    <2> QED
      BY <1>3, <1>4, <2>1, LiquidationInt
  <1>8. /\ pos' = EntrySide /\ qty' = lot /\ entryFill' = fill /\ entryCommission' = fee
        /\ money' = money - fee /\ totCommission' = totCommission + fee /\ tradeFunding' = 0
    BY <1>1
  <1> HIDE DEF fill, lot, fee
  <1>9. Typed'
    <2>1. money' \in Int /\ totCommission' \in Int
      BY <1>3, <1>6, <1>8
    <2> QED
      BY <1>2, <1>4, <1>5, <1>6, <1>7, <1>8, <2>1 DEF BackInv, Typed, Amounts
  <1>10. Books'
    <2>1. /\ money = InitialCapital + netPnl /\ totCommission = tradeCommission
          /\ totFunding = paidFunding /\ paidFunding \in Int
      BY <1>3 DEF BackInv, Books, OfOpen, Typed, Amounts
    <2> QED
      BY <1>2, <1>3, <1>6, <1>8, <2>1 DEF Books, OfOpen
  <1> QED
    BY <1>2, <1>9, <1>10 DEF BackInv, Marked

(* Every step of a bar keeps the account of the money.                     *)
LEMMA NextKeeps ==
  ASSUME BackInv, [BacktestNext]_backtestVars
  PROVE  BackInv'
  <1> USE DEF BackInv
  <1>0. ASSUME UNCHANGED <<config, pos, money, qty, entryFill, entryCommission, tradeFunding, liqLevel,
                           equity, totCommission, totFunding, netPnl, tradeCommission, paidFunding,
                           before, prices>>
        PROVE  Typed' /\ Books'
    BY <1>0 DEF Typed, Amounts, Books, OfOpen
  <1>1. CASE NextBar
    <2>1. /\ moment' = "funding" /\ prices' \in BarShapes /\ before' = prices.close
          /\ UNCHANGED <<config, pos, money, qty, entryFill, entryCommission, tradeFunding, liqLevel,
                         equity, totCommission, totFunding, netPnl, tradeCommission, paidFunding>>
      BY <1>1 DEF NextBar, positionVars, tradesVars
    <2>2. Typed' /\ Books'
      BY BacktestConstants, <2>1 DEF Typed, Amounts, Books, OfOpen
    <2> QED
      BY <2>1, <2>2 DEF Marked
  <1>2. CASE Settle
    BY <1>2, SettleKeeps
  <1>3. CASE Exit
    <2>1. /\ pos # 0 /\ moment' = "entries" /\ ClosePosition(prices.open, FALSE)
          /\ UNCHANGED <<config, equity, prices, before>>
      BY <1>3 DEF Exit, Exits
    <2>a. prices.open \in Int
      BY DEF Typed
    <2>2. Typed' /\ Books'
      BY <2>1, <2>a, ClosePositionKeeps
    <2> QED
      BY <2>1, <2>2 DEF Marked
  <1>4. CASE NoExit \/ NoEntry \/ Survive
    BY <1>0, <1>4 DEF NoExit, NoEntry, Survive, positionVars, tradesVars, Marked
  <1>5. CASE Enter
    BY <1>5, EnterKeeps DEF Enter, EntrySide
  <1>6. CASE Liquidate
    <2>1. /\ pos # 0 /\ moment' = "mark" /\ ClosePosition(liqLevel, TRUE)
          /\ UNCHANGED <<config, equity, prices, before>>
      BY <1>6 DEF Liquidate
    <2>a. liqLevel \in Int
      BY DEF Typed, Amounts
    <2>2. Typed' /\ Books'
      BY <2>1, <2>a, ClosePositionKeeps
    <2> QED
      BY <2>1, <2>2 DEF Marked
  <1>7. CASE Mark
    <2>1. /\ moment' = "next" /\ equity' = money + OpenPnl
          /\ UNCHANGED <<config, pos, money, qty, entryFill, entryCommission, tradeFunding, liqLevel,
                         totCommission, totFunding, netPnl, tradeCommission, paidFunding, before, prices>>
      BY <1>7 DEF Mark, positionVars, tradesVars
    <2>2. OpenPnl \in Int /\ OpenPnl' = OpenPnl
      <3>1. prices.close - entryFill \in Int /\ pos * qty \in Int
        BY DEF Typed, Amounts
      <3> QED
        BY <2>1, <3>1 DEF OpenPnl
    <2>3. Typed' /\ Books'
      BY <2>1, <2>2 DEF Typed, Amounts, Books, OfOpen
    <2> QED
      BY <2>1, <2>2, <2>3 DEF Marked
  <1>8. CASE MarkOut
    <2>1. moment' = "done" /\ equity = money + OpenPnl /\ UNCHANGED <<config, equity, prices, before>>
      BY <1>8 DEF MarkOut, Marked
    <2>2. CASE pos # 0
      <3>1. ClosePosition(prices.close, TRUE)
        BY <1>8, <2>2 DEF MarkOut
      <3>a. prices.close \in Int
        BY DEF Typed
      <3>2. Typed' /\ Books' /\ pos' = 0 /\ money' = money + OpenPnl
        BY <2>1, <2>2, <3>1, <3>a, ClosePositionKeeps DEF OpenPnl
      <3> QED
        BY <2>1, <3>2 DEF Marked
    <2>3. CASE pos = 0
      <3>1. UNCHANGED <<pos, money, qty, entryFill, entryCommission, tradeFunding, liqLevel,
                        totCommission, totFunding, netPnl, tradeCommission, paidFunding>>
        BY <1>8, <2>3 DEF MarkOut, positionVars
      <3>2. OpenPnl = 0 /\ money \in Int
        BY <2>3 DEF OpenPnl, Typed, Amounts
      <3> QED
        BY <1>0, <2>1, <2>3, <3>1, <3>2 DEF Marked
    <2> QED
      BY <2>2, <2>3
  <1>9. CASE UNCHANGED backtestVars
    BY <1>0, <1>9 DEF backtestVars, positionVars, tradesVars, Marked, OpenPnl
  <1> QED
    BY <1>1, <1>2, <1>3, <1>4, <1>5, <1>6, <1>7, <1>8, <1>9 DEF BacktestNext

\* Wherever in a bar a backtest stands, its cash is the capital, the net pnl of the trades
\* closed, and what the open one has cost and was paid.
THEOREM BacktestInvariant ==
  BacktestSpec => []BackInv
  <1>1. BacktestInit => BackInv
    BY InitBack
  <1>2. BackInv /\ [BacktestNext]_backtestVars => BackInv'
    BY NextKeeps
  <1> QED
    BY <1>1, <1>2, PTL DEF BacktestSpec

\* The equity curve, the trades and the totals that a backtest reports are one account of
\* the same money, for every market, strategy, sizing and set of costs.
THEOREM BacktestAddsUp ==
  BacktestSpec => []EquityIsItsTrades
  <1>1. BackInv => EquityIsItsTrades
    <2> SUFFICES ASSUME BackInv PROVE EquityIsItsTrades
      OBVIOUS
    <2>1. /\ money \in Int /\ netPnl \in Int /\ tradeFunding \in Int /\ entryCommission \in Int
          /\ InitialCapital \in Int
      BY BacktestConstants DEF BackInv, Typed, Amounts
    <2>2. OpenPnl \in Int /\ (pos = 0 => OpenPnl = 0)
      <3>1. prices.close - entryFill \in Int /\ pos * qty \in Int /\ (pos = 0 => pos * qty = 0)
        BY DEF BackInv, Typed, Amounts
      <3> QED
        BY <3>1 DEF OpenPnl
    <2> QED
      BY <2>1, <2>2 DEF BackInv, Books, Marked, EquityIsItsTrades, OfOpen
  <1> QED
    BY <1>1, BacktestInvariant, PTL

(* A lot is a lot: none is held flat, and a position has a side.           *)
LEMMA BackTyped ==
  ASSUME BackInv, BacktestTypeOK, [BacktestNext]_backtestVars
  PROVE  BacktestTypeOK'
  <1> USE DEF BacktestTypeOK, Groups
  <1>0. index \in Nat /\ LastIndex \in Nat
    BY BacktestConstants
  <1>1. CASE NextBar
    <2>1. index' = index + 1 /\ index < LastIndex /\ moment' = "funding" /\ signals' \subseteq Groups
          /\ UNCHANGED <<config, pos, qty, entryFill, liqLevel>>
      BY <1>1 DEF NextBar, positionVars
    <2> QED BY <1>0, <2>1
  <1>2. CASE Settle
    BY <1>2 DEF Settle
  <1>3. ASSUME NEW reference, NEW free, ClosePosition(reference, free),
               UNCHANGED <<config, index>>, signals' = signals,
               moment' \in {"entries", "mark", "done"}
        PROVE  BacktestTypeOK'
    <2>1. pos' = 0 /\ qty' = 0 /\ liqLevel' = 0
      BY <1>3 DEF ClosePosition
    <2> QED BY <1>3, <2>1
  <1>4. CASE Exit
    BY <1>3, <1>4 DEF Exit
  <1>5. CASE NoExit \/ NoEntry \/ Survive
    BY <1>5 DEF NoExit, NoEntry, Survive, positionVars
  <1>6. CASE Enter
    <2>1. PICK atr \in Atrs :
            /\ EntryQty(EntrySide, atr) > 0
            /\ pos' = EntrySide /\ qty' = EntryQty(EntrySide, atr)
            /\ entryFill' = EntryFill(EntrySide)
            /\ liqLevel' = LiquidationPrice(EntryFill(EntrySide), EntrySide, config.leverage, MaintenanceBps)
      BY <1>6 DEF Enter
    <2>2. BackInv'
      BY <1>6, EnterKeeps DEF Enter, EntrySide
    <2>3. EntrySide \in {1, -1} /\ moment' = "range" /\ UNCHANGED <<config, index, signals>>
      BY <1>6 DEF Enter, EntrySide
    <2>4. entryFill' \in Int /\ liqLevel' \in Int /\ qty' \in Int
      BY <2>2 DEF BackInv, Typed, Amounts
    <2>5. config.leverage \in Nat /\ MaintenanceBps \in Nat
      BY BacktestConstants
    <2>6. liqLevel' # 0 => EntrySide * (entryFill' - liqLevel') >= 0
      <3> DEFINE fill == EntryFill(EntrySide)
      <3>1. fill \in Int
        BY <2>1, <2>4
      <3> HIDE DEF fill
      <3>2. liqLevel' = LiquidationPrice(fill, EntrySide, config.leverage, MaintenanceBps) /\ entryFill' = fill
        BY <2>1 DEF fill
      <3> QED BY <2>3, <2>5, <3>1, <3>2, LiquidationLoses
    <2>7. pos' \in {1, -1} /\ qty' > 0 /\ (liqLevel' # 0 => pos' * (entryFill' - liqLevel') >= 0)
      BY <2>1, <2>3, <2>6
    <2>8. pos' \in {-1, 0, 1} /\ qty' >= 0 /\ (pos' = 0 <=> qty' = 0)
      BY <2>4, <2>7
    <2>9. config' \in Configs /\ index' \in 0..LastIndex /\ signals' \subseteq Groups
      BY <2>3
    <2> QED BY <2>3, <2>7, <2>8, <2>9
  <1>7. CASE Liquidate
    BY <1>3, <1>7 DEF Liquidate
  <1>8. CASE Mark
    BY <1>8 DEF Mark, positionVars
  <1>9. CASE MarkOut
    <2>1. moment' = "done" /\ UNCHANGED <<config, index, signals>>
      BY <1>9 DEF MarkOut
    <2>2. CASE pos # 0
      BY <1>3, <1>9, <2>1, <2>2 DEF MarkOut
    <2>3. CASE pos = 0
      BY <1>9, <2>1, <2>3 DEF MarkOut, positionVars
    <2> QED BY <2>2, <2>3
  <1>10. CASE UNCHANGED backtestVars
    BY <1>10 DEF backtestVars, positionVars
  <1> QED
    BY <1>1, <1>2, <1>4, <1>5, <1>6, <1>7, <1>8, <1>9, <1>10 DEF BacktestNext

\* What a backtest holds is typed: a side exactly when there is a lot, and the liquidation
\* level of a position, where it has one, never on its winning side.
THEOREM BacktestTypeCorrect ==
  BacktestSpec => []BacktestTypeOK
  <1>1. BacktestInit => BacktestTypeOK
    BY BacktestConstants DEF BacktestInit, BacktestTypeOK, Groups
  <1>2. BackInv /\ BacktestTypeOK /\ [BacktestNext]_backtestVars => BacktestTypeOK'
    BY BackTyped
  <1> QED
    BY <1>1, <1>2, BacktestInvariant, PTL DEF BacktestSpec
-----------------------------------------------------------------------------
(* The backtest as a ledger.  What a position costs and what the closed    *)
(* ones realized are one sum, which only fills move.                       *)

(* Slippage of no more than the whole price.                               *)
SlipsWithinPrice == SlipBps <= 10000

(* A step that adds q units and q * f of money is an execution.            *)
LEMMA IsExecution ==
  ASSUME NEW q \in Int, NEW f \in Int,
         pos' * qty' = pos * qty + q,
         pos' * qty' * entryFill' - RealizedGross' = pos * qty * entryFill - RealizedGross + q * f,
         totCommission' - totFunding' \in Int,
         totCommission' - totFunding' >= totCommission - totFunding
  PROVE  Ledger!Execute("symbol", q, f)
  BY DEF Ledger!Execute

(* A rate of an amount that is not negative is not negative.               *)
LEMMA RateNotNegative ==
  ASSUME NEW a \in Int, NEW r \in Int, a >= 0, r >= 0
  PROVE  Bps(a, r) >= 0
  <1>1. a * r \in Int /\ a * r >= 0
    OBVIOUS
  <1> QED
    BY <1>1 DEF Bps

(* Slippage of no more than the whole price leaves a fill at a price.      *)
LEMMA FillPriceNat ==
  ASSUME SlipsWithinPrice, NEW reference \in Nat, NEW side \in {1, -1}
  PROVE  FillPrice(reference, side) \in Nat
  <1>1. SlipBps \in Nat
    BY BacktestConstants
  <1> DEFINE most == reference * 10000
             moved == reference * SlipBps
  <1>2. moved \in Nat /\ moved <= most
    BY <1>1 DEF SlipsWithinPrice
  <1>3. most \div 10000 = reference
    OBVIOUS
  <1> HIDE DEF moved
  <1>4. moved \div 10000 \in Nat /\ moved \div 10000 <= reference
    BY <1>2, <1>3
  <1>5. Bps(reference, SlipBps) \in Nat /\ Bps(reference, SlipBps) <= reference
    BY <1>4 DEF Bps, moved
  <1> QED
    BY <1>5 DEF FillPrice

(* A close executes the whole lot, at the price of its fill.               *)
LEMMA CloseExecutes ==
  ASSUME SlipsWithinPrice, BackInv, pos # 0, qty > 0,
         NEW reference \in Int, NEW free \in BOOLEAN, free \/ reference \in Nat,
         ClosePosition(reference, free),
         NEW price, price = IF free THEN reference ELSE FillPrice(reference, -pos)
  PROVE  Ledger!Execute("symbol", qty, price) \/ Ledger!Execute("symbol", -qty, price)
  <1> DEFINE fill == IF free THEN reference ELSE FillPrice(reference, -pos)
             fee == ExitCommission(fill, free)
  <1>0. price = fill
    OBVIOUS
  <1>1. /\ pos \in {-1, 1} /\ qty \in Int /\ entryFill \in Int
        /\ netPnl \in Int /\ tradeFunding \in Int /\ entryCommission \in Int
        /\ tradeCommission \in Int /\ paidFunding \in Int /\ totCommission \in Int
        /\ totFunding \in Int /\ TakerBps \in Nat
    BY BacktestConstants DEF BackInv, Typed, Amounts
  <1>2. fill \in Int /\ (~free => fill \in Nat)
    <2>1. -pos \in {1, -1}
      BY <1>1
    <2> QED
      BY <2>1, FillPriceNat
  <1>3. fee \in Int /\ fee >= 0
    <2>1. CASE free
      BY <2>1 DEF ExitCommission
    <2>2. CASE ~free
      <3>1. qty * fill \in Int /\ qty * fill >= 0
        <4> HIDE DEF fill
        <4> QED
          BY <2>2, <1>1, <1>2
      <3>2. fee = Bps(qty * fill, TakerBps)
        BY <2>2 DEF ExitCommission
      <3> HIDE DEF fill, fee
      <3>3. TakerBps \in Int /\ TakerBps >= 0
        BY <1>1
      <3> QED
        BY <3>1, <3>2, <3>3, RateNotNegative, RateInt
    <2> QED
      BY <2>1, <2>2
  <1>4. /\ netPnl' = netPnl + (pos * qty * (fill - entryFill) - (entryCommission + fee) + tradeFunding)
        /\ tradeCommission' = tradeCommission + entryCommission + fee
        /\ paidFunding' = paidFunding + tradeFunding
        /\ totCommission' = totCommission + fee
        /\ pos' = 0 /\ qty' = 0 /\ totFunding' = totFunding /\ entryFill' = entryFill
    BY DEF ClosePosition, NetPnl, fee
  <1> HIDE DEF fill
  <1>5. pos' * qty' = 0 /\ pos' * qty' * entryFill' = 0
    BY <1>1, <1>4
  <1>6. totCommission' - totFunding' \in Int /\ totCommission' - totFunding' >= totCommission - totFunding
    BY <1>1, <1>3, <1>4
  <1>7. CASE pos = 1
    <2>1. pos * qty = qty /\ pos * qty * entryFill = qty * entryFill
      BY <1>1, <1>7
    <2>2. pos * qty * (fill - entryFill) = qty * fill - qty * entryFill
      BY <1>1, <1>2, <1>7
    <2>3. qty * fill \in Int /\ qty * entryFill \in Int /\ -qty \in Int /\ (-qty) * fill = -(qty * fill)
      BY <1>1, <1>2
    <2>4. RealizedGross' = RealizedGross + qty * fill - qty * entryFill
      BY <1>1, <1>3, <1>4, <2>2, <2>3 DEF RealizedGross
    <2>5. RealizedGross \in Int
      BY <1>1 DEF RealizedGross
    <2>6. /\ -qty \in Int /\ fill \in Int
          /\ pos' * qty' = pos * qty + -qty
          /\ pos' * qty' * entryFill' - RealizedGross'
               = pos * qty * entryFill - RealizedGross + (-qty) * fill
      BY <1>1, <1>2, <1>5, <2>1, <2>3, <2>4, <2>5
    <2>7. Ledger!Execute("symbol", -qty, fill)
      BY <1>6, <2>6, IsExecution
    <2> QED
      BY <2>7, <1>0
  <1>8. CASE pos = -1
    <2>1. pos * qty = -qty /\ pos * qty * entryFill = -(qty * entryFill)
      BY <1>1, <1>8
    <2>2. pos * qty * (fill - entryFill) = qty * entryFill - qty * fill
      BY <1>1, <1>2, <1>8
    <2>3. qty * fill \in Int /\ qty * entryFill \in Int
      BY <1>1, <1>2
    <2>4. RealizedGross' = RealizedGross + qty * entryFill - qty * fill
      BY <1>1, <1>3, <1>4, <2>2, <2>3 DEF RealizedGross
    <2>5. RealizedGross \in Int
      BY <1>1 DEF RealizedGross
    <2>6. /\ pos' * qty' = pos * qty + qty
          /\ pos' * qty' * entryFill' - RealizedGross'
               = pos * qty * entryFill - RealizedGross + qty * fill
      BY <1>1, <1>2, <1>5, <2>1, <2>3, <2>4, <2>5
    <2>7. Ledger!Execute("symbol", qty, fill)
      BY <1>1, <1>2, <1>6, <2>6, IsExecution
    <2> QED
      BY <2>7, <1>0
  <1> QED
    BY <1>1, <1>7, <1>8

(* What a step of the ledger is here, with the prices named.               *)
LedgerStep ==
  \/ Ledger!Settle
  \/ \E lot \in {qty, qty'} \ {0}, f \in PricesOfBar :
       Ledger!Execute("symbol", lot, f) \/ Ledger!Execute("symbol", -lot, f)

(* An entry executes its lot, at the limit or at the open.                 *)
LEMMA EnterExecutes ==
  ASSUME BackInv, BacktestTypeOK, Enter, pos = 0
  PROVE  LedgerStep
  <1>1. PICK atr \in Atrs :
          /\ EntryQty(EntrySide, atr) > 0
          /\ pos' = EntrySide /\ qty' = EntryQty(EntrySide, atr)
          /\ entryFill' = EntryFill(EntrySide)
          /\ totCommission' = totCommission + EntryFee(EntrySide, atr)
    BY DEF Enter
  <1>2. EntrySide \in {1, -1} /\ UNCHANGED <<totFunding, netPnl, tradeCommission, paidFunding>>
    BY DEF Enter, EntrySide, tradesVars
  <1>3. BackInv'
    BY EnterKeeps
  <1> DEFINE fill == EntryFill(EntrySide)
             lot == EntryQty(EntrySide, atr)
             fee == EntryFee(EntrySide, atr)
  <1>4. /\ fill \in PricesOfBar
        /\ fee = Bps(lot * fill, IF Maker THEN MakerBps ELSE TakerBps)
        /\ lot > 0 => fill > 0
    <2>1. fill \in PricesOfBar
      BY <1>2 DEF PricesOfBar, EntryFill
    <2>2. fee = Bps(lot * fill, IF Maker THEN MakerBps ELSE TakerBps)
      BY DEF EntryFee
    <2>3. fill <= 0 => lot = 0
      BY DEF EntryQty, PositionSize
    <2>4. fill \in Int
      BY <1>1, <1>3 DEF BackInv, Typed, Amounts
    <2> HIDE DEF fill, lot, fee
    <2> QED
      BY <2>1, <2>2, <2>3, <2>4
  <1>5. /\ pos' = EntrySide /\ qty' = lot /\ entryFill' = fill /\ lot > 0
        /\ totCommission' = totCommission + fee
    BY <1>1
  <1> HIDE DEF fill, lot, fee
  <1>6. /\ lot \in Int /\ fill \in Int /\ totCommission \in Int /\ totFunding \in Int
        /\ netPnl \in Int /\ tradeCommission \in Int /\ paidFunding \in Int
        /\ qty = 0 /\ entryFill \in Int
        /\ MakerBps \in Int /\ MakerBps >= 0 /\ TakerBps \in Int /\ TakerBps >= 0
    BY <1>3, <1>5, BacktestConstants DEF BackInv, Typed, Amounts, BacktestTypeOK
  <1>7. fee \in Int /\ fee >= 0
    <2>1. lot * fill \in Int /\ lot * fill >= 0
      BY <1>4, <1>5, <1>6
    <2> QED
      BY <2>1, <1>4, <1>6, RateInt, RateNotNegative
  <1>8. /\ RealizedGross' = RealizedGross /\ RealizedGross \in Int
        /\ totCommission' - totFunding' \in Int
        /\ totCommission' - totFunding' >= totCommission - totFunding
    BY <1>2, <1>5, <1>6, <1>7 DEF RealizedGross
  <1>9. pos * qty = 0 /\ pos * qty * entryFill = 0
    BY <1>6
  <1>10. CASE EntrySide = 1
    <2>1. pos' * qty' = lot /\ pos' * qty' * entryFill' = lot * fill
      BY <1>5, <1>6, <1>10
    <2>2. lot * fill \in Int
      BY <1>6
    <2>3. /\ pos' * qty' = pos * qty + lot
          /\ pos' * qty' * entryFill' - RealizedGross'
               = pos * qty * entryFill - RealizedGross + lot * fill
      BY <1>6, <1>8, <1>9, <2>1, <2>2
    <2>4. Ledger!Execute("symbol", lot, fill)
      BY <1>6, <1>8, <2>3, IsExecution
    <2> QED
      BY <1>4, <1>5, <1>6, <2>4 DEF LedgerStep
  <1>11. CASE EntrySide = -1
    <2>1. pos' * qty' = -lot /\ pos' * qty' * entryFill' = -(lot * fill)
      BY <1>5, <1>6, <1>11
    <2>2. lot * fill \in Int /\ -lot \in Int /\ (-lot) * fill = -(lot * fill)
      BY <1>6
    <2>3. /\ pos' * qty' = pos * qty + -lot
          /\ pos' * qty' * entryFill' - RealizedGross'
               = pos * qty * entryFill - RealizedGross + (-lot) * fill
      BY <1>6, <1>8, <1>9, <2>1, <2>2
    <2>4. Ledger!Execute("symbol", -lot, fill)
      BY <1>6, <1>8, <2>2, <2>3, IsExecution
    <2> QED
      BY <1>4, <1>5, <1>6, <2>4 DEF LedgerStep
  <1> QED
    BY <1>2, <1>10, <1>11

(* Every step of a bar is a step of the ledger, or none.                   *)
LEMMA LedgerMoves ==
  ASSUME SlipsWithinPrice, BackInv, BacktestTypeOK, [BacktestNext]_backtestVars
  PROVE  LedgerStep \/ UNCHANGED Ledger!ledgerVars
  <1>1. ASSUME UNCHANGED <<pos, qty, entryFill, netPnl, tradeCommission, paidFunding, totCommission,
                           totFunding>>
        PROVE  UNCHANGED Ledger!ledgerVars
    BY <1>1 DEF Ledger!ledgerVars, RealizedGross
  <1>2. /\ prices.open \in Nat /\ prices.close \in Int /\ liqLevel \in Int
        /\ pos \in {-1, 0, 1} /\ qty \in Int /\ (pos # 0 => qty > 0)
    BY DEF BackInv, Typed, Amounts, BacktestTypeOK
  <1>3. CASE NextBar \/ NoExit \/ NoEntry \/ Survive \/ Mark \/ UNCHANGED backtestVars
    BY <1>1, <1>3
    DEF NextBar, NoExit, NoEntry, Survive, Mark, backtestVars, positionVars, tradesVars
  <1>4. CASE Settle
    <2>1. BackInv'
      BY <1>4, SettleKeeps
    <2>2. totCommission' - totFunding' \in Int
      BY <2>1 DEF BackInv, Typed, Amounts
    <2>3. UNCHANGED <<pos, qty, entryFill, netPnl, tradeCommission, paidFunding>>
      BY <1>4 DEF Settle, tradesVars
    <2>4. Ledger!Settle
      BY <2>2, <2>3 DEF Ledger!Settle, RealizedGross
    <2> QED
      BY <2>4 DEF LedgerStep
  <1>5. CASE Exit
    <2>1. pos # 0 /\ ClosePosition(prices.open, FALSE)
      BY <1>5, Zenon DEF Exit, Exits
    <2> DEFINE price == FillPrice(prices.open, -pos)
    <2>2. price = IF FALSE THEN prices.open ELSE FillPrice(prices.open, -pos)
      OBVIOUS
    <2>3. price \in PricesOfBar
      BY <1>2, <2>1 DEF PricesOfBar
    <2>4. prices.open \in Int /\ qty > 0
      BY <1>2, <2>1
    <2> HIDE DEF price
    <2>5. Ledger!Execute("symbol", qty, price) \/ Ledger!Execute("symbol", -qty, price)
      BY <1>2, <2>1, <2>2, <2>4, CloseExecutes
    <2> QED
      BY <2>3, <2>4, <2>5 DEF LedgerStep
  <1>6. ASSUME NEW reference \in PricesOfBar, reference \in Int, pos # 0,
               ClosePosition(reference, TRUE)
        PROVE  LedgerStep
    <2>1. reference = IF TRUE THEN reference ELSE FillPrice(reference, -pos)
      OBVIOUS
    <2>2. Ledger!Execute("symbol", qty, reference) \/ Ledger!Execute("symbol", -qty, reference)
      BY <1>2, <1>6, <2>1, CloseExecutes
    <2> QED
      BY <1>2, <1>6, <2>2 DEF LedgerStep
  <1>7. CASE Liquidate
    <2>1. pos # 0 /\ ClosePosition(liqLevel, TRUE)
      BY <1>7, Zenon DEF Liquidate
    <2>2. liqLevel \in PricesOfBar
      BY DEF PricesOfBar
    <2> QED
      BY <1>2, <1>6, <2>1, <2>2
  <1>8. CASE MarkOut
    <2>1. CASE pos # 0
      <3>1. ClosePosition(prices.close, TRUE)
        BY <1>8, <2>1, Zenon DEF MarkOut
      <3>2. prices.close \in PricesOfBar
        BY DEF PricesOfBar
      <3> QED
        BY <1>2, <1>6, <2>1, <3>1, <3>2
    <2>2. CASE pos = 0
      BY <1>1, <1>8, <2>2 DEF MarkOut, positionVars
    <2> QED
      BY <2>1, <2>2
  <1>9. CASE Enter
    BY <1>9, EnterExecutes DEF Enter, EntrySide
  <1> QED
    BY <1>3, <1>4, <1>5, <1>7, <1>8, <1>9 DEF BacktestNext

(* A backtest keeps the ledger that the paper account keeps, whatever the  *)
(* market, the signals, the sizing and the costs, as long as slippage is   *)
(* no more than the price (beyond it a sale would cost money and its       *)
(* commission be a credit; backtest/config.py leaves it to the user).      *)
THEOREM BacktestKeepsLedger ==
  ASSUME SlipsWithinPrice
  PROVE  BacktestSpec => KeepsLedger
  <1>1. BacktestInit => Ledger!LedgerInit
    BY DEF BacktestInit, Ledger!LedgerInit, RealizedGross
  <1>2. BackInv /\ BacktestTypeOK /\ [BacktestNext]_backtestVars =>
          [\/ Ledger!Settle
           \/ \E lot \in {qty, qty'} \ {0}, f \in PricesOfBar :
                Ledger!Execute("symbol", lot, f) \/ Ledger!Execute("symbol", -lot, f)
          ]_(Ledger!ledgerVars)
    BY LedgerMoves DEF LedgerStep
  <1> QED
    BY <1>1, <1>2, BacktestInvariant, BacktestTypeCorrect, PTL DEF BacktestSpec, KeepsLedger

(* What the ledger makes of the position at the close of a marked bar.     *)
CurveIsLedger ==
  moment = "next" =>
    equity = InitialCapital + (pos * qty * prices.close - (pos * qty * entryFill - RealizedGross))
               - (totCommission - totFunding)

(* Every point of the equity curve is the capital, the profit of the       *)
(* ledger at the close, and no more than the charges beside it: the value  *)
(* that PaperAccountProofs shows of the paper account (paper.py:5-8).      *)
THEOREM CurveIsValuedByLedger == BacktestSpec => []CurveIsLedger
  <1>1. BackInv => CurveIsLedger
    <2> SUFFICES ASSUME BackInv, moment = "next"
                 PROVE  equity = InitialCapital
                          + (pos * qty * prices.close - (pos * qty * entryFill - RealizedGross))
                          - (totCommission - totFunding)
      BY DEF CurveIsLedger
    <2>1. /\ pos \in {-1, 0, 1} /\ qty \in Int /\ entryFill \in Int /\ prices.close \in Int
          /\ netPnl \in Int /\ tradeFunding \in Int /\ entryCommission \in Int /\ money \in Int
          /\ tradeCommission \in Int /\ paidFunding \in Int /\ InitialCapital \in Int
      BY BacktestConstants DEF BackInv, Typed, Amounts
    <2> DEFINE units == pos * qty
               worth == units * prices.close
               laid == units * entryFill
    <2>2. units \in Int
      BY <2>1
    <2>3. worth \in Int /\ laid \in Int /\ units * (prices.close - entryFill) = worth - laid
      <3> HIDE DEF units
      <3> QED
        BY <2>1, <2>2
    <2>4. equity = money + (worth - laid)
      BY <2>3 DEF BackInv, Marked, OpenPnl
    <2> HIDE DEF units, worth, laid
    <2>5. equity = InitialCapital + (worth - (laid - RealizedGross)) - (totCommission - totFunding)
      BY <2>1, <2>3, <2>4 DEF BackInv, Books, OfOpen, RealizedGross
    <2> QED
      BY <2>5 DEF units, worth, laid
  <1> QED
    BY <1>1, BacktestInvariant, PTL

-----------------------------------------------------------------------------
(***************************************************************************)
(* The signals that both books trade on.                                   *)
(***************************************************************************)
(* The bars up to m of a series, of the operands, of the prices and of the *)
(* indicators: what a reader at bar m has.                                 *)
UpTo(x, m) == [i \in 1..m |-> x[i]]
OpsUpTo(ops, m) == [name \in DOMAIN ops |-> UpTo(ops[name], m)]
FramesUpTo(frames, m) == [key \in DOMAIN frames |-> OpsUpTo(frames[key], m)]

(* Operands over n bars; a clause the grammar has, of known operands, that *)
(* looks back if it is a slope: nothing refuses a negative lookback        *)
(* (rules.py:105-138; what a plugin's primitive reads is its own).         *)
Primitives == {"threshold_cross", "line_cross", "slope", "band_touch", "regime", "pattern"}
OverBars(ops, n) == \A name \in DOMAIN ops : DOMAIN ops[name] = 1..n
LooksBack(c, ops) ==
  /\ c.primitive \in Primitives
  /\ \A arg \in Sig!OperandArgs(c.primitive) : c[arg] \in DOMAIN ops
  /\ c.primitive = "slope" => c.lookback \in Nat
RulesLookBack(rules, ops) ==
  \A g \in Sig!Groups : \A k \in DOMAIN rules[g] : LooksBack(rules[g][k], ops)

(* A series reads the same at a bar and before it when cut after the bar.  *)
LEMMA CutReadsSame ==
  ASSUME NEW n \in Nat, NEW m \in 0..n, NEW x, DOMAIN x = 1..n, NEW i \in Int, i <= m
  PROVE  Sig!At(UpTo(x, m), i) = Sig!At(x, i)
  BY DEF Sig!At, UpTo

(* So do two lines that cross,                                             *)
LEMMA CutCrossesSame ==
  ASSUME NEW n \in Nat, NEW m \in 0..n, NEW a, NEW b, DOMAIN a = 1..n, DOMAIN b = 1..n,
         NEW i \in Int, i <= m
  PROVE  /\ Sig!CrossUp(UpTo(a, m), UpTo(b, m), i) <=> Sig!CrossUp(a, b, i)
         /\ Sig!CrossDown(UpTo(a, m), UpTo(b, m), i) <=> Sig!CrossDown(a, b, i)
  <1>1. /\ Sig!At(UpTo(a, m), i) = Sig!At(a, i) /\ Sig!At(UpTo(b, m), i) = Sig!At(b, i)
        /\ Sig!At(UpTo(a, m), i - 1) = Sig!At(a, i - 1)
        /\ Sig!At(UpTo(b, m), i - 1) = Sig!At(b, i - 1)
    BY CutReadsSame
  <1> QED BY <1>1 DEF Sig!CrossUp, Sig!CrossDown

(* a line and its level,                                                   *)
LEMMA CutThresholdSame ==
  ASSUME NEW n \in Nat, NEW m \in 0..n, NEW x, DOMAIN x = 1..n, NEW level, NEW direction,
         NEW i \in Int, i <= m
  PROVE  Sig!ThresholdCross(UpTo(x, m), level, direction, i)
           <=> Sig!ThresholdCross(x, level, direction, i)
  <1> DEFINE line == [k \in DOMAIN x |-> level]
  <1>1. [k \in DOMAIN UpTo(x, m) |-> level] = UpTo(line, m)
    BY DEF UpTo
  <1>2. DOMAIN line = 1..n
    OBVIOUS
  <1> HIDE DEF line
  <1>3. /\ Sig!CrossUp(UpTo(x, m), UpTo(line, m), i) <=> Sig!CrossUp(x, line, i)
        /\ Sig!CrossDown(UpTo(x, m), UpTo(line, m), i) <=> Sig!CrossDown(x, line, i)
    BY <1>2, CutCrossesSame
  <1> QED BY <1>1, <1>3 DEF Sig!ThresholdCross, Sig!LineCross, line

(* and every clause of the grammar.                                        *)
LEMMA CutClauseSame ==
  ASSUME NEW n \in Nat, NEW m \in 0..n, NEW ops, OverBars(ops, n), NEW c, LooksBack(c, ops),
         NEW i \in Int, i <= m
  PROVE  Sig!BuildClause(c, OpsUpTo(ops, m), i) <=> Sig!BuildClause(c, ops, i)
  <1> DEFINE Same(name) ==
        /\ name \in DOMAIN ops => OpsUpTo(ops, m)[name] = UpTo(ops[name], m)
        /\ name \in DOMAIN ops => DOMAIN ops[name] = 1..n
  <1>1. \A name : Same(name)
    BY DEF OverBars, OpsUpTo
  <1>2. CASE c.primitive = "threshold_cross"
    <2>1. c.x \in DOMAIN ops
      BY <1>2 DEF LooksBack, Sig!OperandArgs
    <2>2. Sig!BuildClause(c, ops, i) <=> Sig!ThresholdCross(ops[c.x], c.level, c.direction, i)
      BY <1>2 DEF Sig!BuildClause
    <2>3. Sig!BuildClause(c, OpsUpTo(ops, m), i)
            <=> Sig!ThresholdCross(OpsUpTo(ops, m)[c.x], c.level, c.direction, i)
      BY <1>2 DEF Sig!BuildClause
    <2> QED BY <1>1, <2>1, <2>2, <2>3, CutThresholdSame
  <1>3. CASE c.primitive = "line_cross"
    <2>1. c.a \in DOMAIN ops /\ c.b \in DOMAIN ops
      BY <1>3 DEF LooksBack, Sig!OperandArgs
    <2>2. Sig!BuildClause(c, ops, i) <=> Sig!LineCross(ops[c.a], ops[c.b], c.direction, i)
      BY <1>3 DEF Sig!BuildClause
    <2>3. Sig!BuildClause(c, OpsUpTo(ops, m), i)
            <=> Sig!LineCross(OpsUpTo(ops, m)[c.a], OpsUpTo(ops, m)[c.b], c.direction, i)
      BY <1>3 DEF Sig!BuildClause
    <2>4. /\ Sig!CrossUp(UpTo(ops[c.a], m), UpTo(ops[c.b], m), i) <=> Sig!CrossUp(ops[c.a], ops[c.b], i)
          /\ Sig!CrossDown(UpTo(ops[c.a], m), UpTo(ops[c.b], m), i) <=> Sig!CrossDown(ops[c.a], ops[c.b], i)
      BY <1>1, <2>1, CutCrossesSame
    <2> QED BY <1>1, <2>1, <2>2, <2>3, <2>4 DEF Sig!LineCross
  <1>4. CASE c.primitive = "slope"
    <2>1. c.x \in DOMAIN ops /\ c.lookback \in Nat
      BY <1>4 DEF LooksBack, Sig!OperandArgs
    <2>2. /\ Sig!BuildClause(c, ops, i) <=> Sig!Slope(ops[c.x], c.lookback, c.direction, c.eps, i)
          /\ Sig!BuildClause(c, OpsUpTo(ops, m), i)
               <=> Sig!Slope(OpsUpTo(ops, m)[c.x], c.lookback, c.direction, c.eps, i)
      BY <1>4 DEF Sig!BuildClause
    <2>3. /\ Sig!At(UpTo(ops[c.x], m), i) = Sig!At(ops[c.x], i)
          /\ Sig!At(UpTo(ops[c.x], m), i - c.lookback) = Sig!At(ops[c.x], i - c.lookback)
      BY <1>1, <2>1, CutReadsSame
    <2> QED BY <1>1, <2>1, <2>2, <2>3 DEF Sig!Slope
  <1>5. CASE c.primitive = "band_touch"
    <2>1. c.price \in DOMAIN ops /\ c.upper \in DOMAIN ops /\ c.lower \in DOMAIN ops
      BY <1>5 DEF LooksBack, Sig!OperandArgs
    <2> DEFINE p == ops[c.price]
               u == ops[c.upper]
               l == ops[c.lower]
    <2>2. /\ Sig!BuildClause(c, ops, i) <=> Sig!BandTouch(p, u, l, c.touch, i)
          /\ Sig!BuildClause(c, OpsUpTo(ops, m), i)
               <=> Sig!BandTouch(UpTo(p, m), UpTo(u, m), UpTo(l, m), c.touch, i)
      BY <1>1, <1>5, <2>1 DEF Sig!BuildClause
    <2>3. DOMAIN p = 1..n /\ DOMAIN u = 1..n /\ DOMAIN l = 1..n
      BY <1>1, <2>1
    <2> HIDE DEF p, u, l
    <2>4. /\ Sig!At(UpTo(p, m), i) = Sig!At(p, i)
          /\ Sig!At(UpTo(u, m), i) = Sig!At(u, i)
          /\ Sig!At(UpTo(l, m), i) = Sig!At(l, i)
      BY <2>3, CutReadsSame
    <2>5. /\ Sig!CrossUp(UpTo(p, m), UpTo(u, m), i) <=> Sig!CrossUp(p, u, i)
          /\ Sig!CrossUp(UpTo(p, m), UpTo(l, m), i) <=> Sig!CrossUp(p, l, i)
          /\ Sig!CrossDown(UpTo(p, m), UpTo(u, m), i) <=> Sig!CrossDown(p, u, i)
          /\ Sig!CrossDown(UpTo(p, m), UpTo(l, m), i) <=> Sig!CrossDown(p, l, i)
      BY <2>3, CutCrossesSame
    <2> QED BY <2>2, <2>4, <2>5 DEF Sig!BandTouch
  <1>6. CASE c.primitive = "regime"
    <2>1. c.x \in DOMAIN ops
      BY <1>6 DEF LooksBack, Sig!OperandArgs
    <2>2. /\ Sig!BuildClause(c, ops, i) <=> Sig!Regime(ops[c.x], c.op, c.low, c.high, i)
          /\ Sig!BuildClause(c, OpsUpTo(ops, m), i)
               <=> Sig!Regime(OpsUpTo(ops, m)[c.x], c.op, c.low, c.high, i)
      BY <1>6 DEF Sig!BuildClause
    <2>3. Sig!At(UpTo(ops[c.x], m), i) = Sig!At(ops[c.x], i)
      BY <1>1, <2>1, CutReadsSame
    <2> QED BY <1>1, <2>1, <2>2, <2>3 DEF Sig!Regime
  <1>7. CASE c.primitive = "pattern"
    <2>1. c.series \in DOMAIN ops
      BY <1>7 DEF LooksBack, Sig!OperandArgs
    <2>2. /\ Sig!BuildClause(c, ops, i) <=> Sig!Pattern(ops[c.series], c.direction, i)
          /\ Sig!BuildClause(c, OpsUpTo(ops, m), i)
               <=> Sig!Pattern(OpsUpTo(ops, m)[c.series], c.direction, i)
      BY <1>7 DEF Sig!BuildClause
    <2>3. Sig!At(UpTo(ops[c.series], m), i) = Sig!At(ops[c.series], i)
      BY <1>1, <2>1, CutReadsSame
    <2> QED BY <1>1, <2>1, <2>2, <2>3 DEF Sig!Pattern
  <1> QED BY <1>2, <1>3, <1>4, <1>5, <1>6, <1>7 DEF LooksBack, Primitives

(* A signal at a bar depends on the bars up to it (signals.py:6-11).  Of   *)
(* the bars up to m a backtest signals what it does over all of them.      *)
THEOREM SignalsLookBack ==
  ASSUME NEW n \in Nat, NEW m \in 0..n, NEW ops, OverBars(ops, n), NEW rules,
         RulesLookBack(rules, ops), NEW direction, NEW g \in Sig!Groups
  PROVE  Sig!BuildSignals(rules, OpsUpTo(ops, m), direction, m)[g]
           = Sig!BuildSignals(rules, ops, direction, n)[g] \cap (1..m)
  <1>1. \A i \in 1..m :
          Sig!Combine(rules[g], OpsUpTo(ops, m), i) <=> Sig!Combine(rules[g], ops, i)
    <2> SUFFICES ASSUME NEW i \in 1..m, NEW k \in DOMAIN rules[g]
                 PROVE  Sig!BuildClause(rules[g][k], OpsUpTo(ops, m), i)
                          <=> Sig!BuildClause(rules[g][k], ops, i)
      BY Zenon DEF Sig!Combine
    <2>1. LooksBack(rules[g][k], ops)
      BY DEF RulesLookBack
    <2>2. i \in Int /\ i <= m
      OBVIOUS
    <2> QED BY <2>1, <2>2, CutClauseSame
  <1>2. Sig!BuildSignals(rules, OpsUpTo(ops, m), direction, m)[g]
          = {i \in 1..m : g \in Sig!Allowed(direction) /\ Sig!Combine(rules[g], OpsUpTo(ops, m), i)}
    BY DEF Sig!BuildSignals
  <1>3. Sig!BuildSignals(rules, ops, direction, n)[g]
          = {i \in 1..n : g \in Sig!Allowed(direction) /\ Sig!Combine(rules[g], ops, i)}
    BY DEF Sig!BuildSignals
  <1>4. (1..m) \subseteq (1..n)
    OBVIOUS
  <1> QED BY <1>1, <1>2, <1>3, <1>4, Zenon

(* The operands of cut prices and indicators are the operands, cut.        *)
LEMMA CutOperands ==
  ASSUME NEW m \in Nat, NEW columns, NEW frames
  PROVE  Sig!ResolveOperands(OpsUpTo(columns, m), FramesUpTo(frames, m))
           = OpsUpTo(Sig!ResolveOperands(columns, frames), m)
  <1> DEFINE Full(f) == {<<key, out>> : key \in DOMAIN f, out \in UNION {DOMAIN f[k] : k \in DOMAIN f}}
             Named(f) == {n \in Full(f) : n[2] \in DOMAIN f[n[1]]}
             Sole(f) == {n \in Named(f) : DOMAIN f[n[1]] = {n[2]}}
             Keys(f) == {<<s[1]>> : s \in Sole(f)}
             Fields(p) == {<<field>> : field \in DOMAIN p}
             Series(p, f, n) ==
               IF n \in Named(f) THEN f[n[1]][n[2]]
               ELSE IF n \in Keys(f) THEN f[n[1]][CHOOSE out \in DOMAIN f[n[1]] : TRUE]
               ELSE p[n[1]]
             Names(p, f) == Named(f) \union Keys(f) \union Fields(p)
             cut == FramesUpTo(frames, m)
             short == OpsUpTo(columns, m)
  <1>1. /\ DOMAIN cut = DOMAIN frames
        /\ \A key \in DOMAIN frames : DOMAIN cut[key] = DOMAIN frames[key]
        /\ \A key \in DOMAIN frames : \A out \in DOMAIN frames[key] :
             cut[key][out] = UpTo(frames[key][out], m)
    BY DEF FramesUpTo, OpsUpTo
  <1>2. DOMAIN short = DOMAIN columns /\ \A field \in DOMAIN columns : short[field] = UpTo(columns[field], m)
    BY DEF OpsUpTo
  <1>3. ASSUME NEW p, NEW f
        PROVE  Sig!ResolveOperands(p, f) = [n \in Names(p, f) |-> Series(p, f, n)]
    BY DEF Sig!ResolveOperands
  <1> HIDE DEF cut, short
  <1>4. Full(cut) = Full(frames)
    <2>1. {DOMAIN cut[k] : k \in DOMAIN cut} = {DOMAIN frames[k] : k \in DOMAIN frames}
      BY <1>1
    <2> QED BY <1>1, <2>1
  <1>5. \A n \in Full(frames) : n[1] \in DOMAIN frames
    OBVIOUS
  <1> HIDE DEF Full
  <1>6. Named(cut) = Named(frames)
    BY <1>1, <1>4, <1>5
  <1>7. \A n \in Named(frames) : n[1] \in DOMAIN frames /\ n[2] \in DOMAIN frames[n[1]]
    BY <1>5
  <1> HIDE DEF Named
  <1>8. Sole(cut) = Sole(frames)
    BY <1>1, <1>6, <1>7
  <1>9. \A n \in Sole(frames) : n[1] \in DOMAIN frames /\ DOMAIN frames[n[1]] # {}
    BY <1>7
  <1> HIDE DEF Sole
  <1>10. Keys(cut) = Keys(frames) /\ \A n \in Keys(frames) : n[1] \in DOMAIN frames /\ DOMAIN frames[n[1]] # {}
    BY <1>8, <1>9
  <1> HIDE DEF Keys
  <1>11. Fields(short) = Fields(columns) /\ \A n \in Fields(columns) : n[1] \in DOMAIN columns
    BY <1>2
  <1> HIDE DEF Fields
  <1>12. ASSUME NEW n \in Names(columns, frames)
         PROVE  Series(short, cut, n) = UpTo(Series(columns, frames, n), m)
    <2>1. CASE n \in Named(frames)
      BY <1>1, <1>6, <1>7, <2>1
    <2>2. CASE n \notin Named(frames) /\ n \in Keys(frames)
      <3>1. DOMAIN cut[n[1]] = DOMAIN frames[n[1]]
        BY <1>1, <1>10, <2>2
      <3>2. (CHOOSE out \in DOMAIN frames[n[1]] : TRUE) \in DOMAIN frames[n[1]]
        BY <1>10, <2>2
      <3>3. /\ Series(short, cut, n) = cut[n[1]][CHOOSE out \in DOMAIN cut[n[1]] : TRUE]
            /\ Series(columns, frames, n) = frames[n[1]][CHOOSE out \in DOMAIN frames[n[1]] : TRUE]
        BY <1>6, <1>10, <2>2
      <3> HIDE DEF Series
      <3> QED BY <1>1, <1>10, <2>2, <3>1, <3>2, <3>3
    <2>3. CASE n \notin Named(frames) /\ n \notin Keys(frames)
      <3>1. n[1] \in DOMAIN columns
        BY <1>11, <2>3
      <3> QED BY <1>2, <1>6, <1>10, <2>3, <3>1
    <2> QED BY <2>1, <2>2, <2>3
  <1>13. Names(short, cut) = Names(columns, frames)
    BY <1>6, <1>10, <1>11
  <1> HIDE DEF Series, Names
  <1>14. Sig!ResolveOperands(short, cut) = [n \in Names(columns, frames) |-> UpTo(Series(columns, frames, n), m)]
    BY <1>3, <1>12, <1>13
  <1>15. OpsUpTo(Sig!ResolveOperands(columns, frames), m)
           = [n \in Names(columns, frames) |-> UpTo(Series(columns, frames, n), m)]
    BY <1>3 DEF OpsUpTo
  <1> QED BY <1>14, <1>15 DEF cut, short

(* So the bot, whose bars end at the one just closed, says what a backtest *)
(* over later bars says of that bar, as long as the indicators it computed *)
(* are those of the backtest (bot/signals.py:6-8).                         *)
THEOREM BotSignalsAsBacktest ==
  ASSUME NEW n \in Nat, NEW m \in 1..n, NEW columns, NEW frames, NEW rules, NEW direction,
         OverBars(Sig!ResolveOperands(columns, frames), n),
         RulesLookBack(rules, Sig!ResolveOperands(columns, frames)), NEW g \in Sig!Groups
  PROVE  Sig!EvaluateLatest(rules, direction, OpsUpTo(columns, m), FramesUpTo(frames, m), m).verdict[g]
           <=> m \in Sig!BuildSignals(rules, Sig!ResolveOperands(columns, frames), direction, n)[g]
  <1> DEFINE ops == Sig!ResolveOperands(columns, frames)
             cut == OpsUpTo(ops, m)
             latest == Sig!EvaluateLatest(rules, direction, OpsUpTo(columns, m), FramesUpTo(frames, m), m)
  <1>1. latest.verdict[g] <=> g \in Sig!Allowed(direction) /\ Sig!Combine(rules[g], cut, m)
    <2>1. m # 0 /\ m \in Nat
      OBVIOUS
    <2>2. Sig!ResolveOperands(OpsUpTo(columns, m), FramesUpTo(frames, m)) = cut
      BY <2>1, CutOperands
    <2> HIDE DEF cut
    <2>3. latest.verdict = [h \in Sig!Groups |-> h \in Sig!Allowed(direction) /\ Sig!Combine(rules[h], cut, m)]
      BY <2>1, <2>2 DEF Sig!EvaluateLatest
    <2> QED BY <2>3
  <1>2. m \in Sig!BuildSignals(rules, cut, direction, m)[g]
          <=> g \in Sig!Allowed(direction) /\ Sig!Combine(rules[g], cut, m)
    BY DEF Sig!BuildSignals
  <1>3. Sig!BuildSignals(rules, cut, direction, m)[g]
          = Sig!BuildSignals(rules, ops, direction, n)[g] \cap (1..m)
    <2>1. m \in 0..n
      OBVIOUS
    <2> HIDE DEF ops
    <2> QED BY <2>1, SignalsLookBack DEF ops
  <1> HIDE DEF latest, cut, ops
  <1>4. m \in 1..m
    OBVIOUS
  <1>5. m \in Sig!BuildSignals(rules, cut, direction, m)[g] <=> m \in Sig!BuildSignals(rules, ops, direction, n)[g]
    BY <1>3, <1>4
  <1> QED BY <1>1, <1>2, <1>5 DEF latest, ops

-----------------------------------------------------------------------------
(***************************************************************************)
(* The indicators of the project that those signals may read.              *)
(***************************************************************************)
(* The bars a trailing window takes in are bars up to its own, finitely    *)
(* many.                                                                   *)
LEMMA TrailingBars ==
  ASSUME NEW i \in Int, NEW window
  PROVE  Alpha!Trailing(i, window) \subseteq 1..i /\ IsFiniteSet(Alpha!Trailing(i, window))
  <1>1. Alpha!Trailing(i, window) \subseteq 1..i
    BY DEF Alpha!Trailing
  <1>2. IsFiniteSet(1..i)
    BY FS_Interval
  <1> QED BY <1>1, <1>2, FS_Subset

(* Over them a cut series has the same sum,                                *)
LEMMA CutSumsSame ==
  ASSUME NEW m \in Nat, NEW x, NEW i \in 1..m, NEW window
  PROVE  Alpha!RollingSum(UpTo(x, m), i, window) = Alpha!RollingSum(x, i, window)
  <1> DEFINE held == {j \in Alpha!Trailing(i, window) : x[j] # Missing}
             cut == UpTo(x, m)
  <1>1. \A j \in 1..i : cut[j] = x[j]
    BY DEF UpTo
  <1> HIDE DEF cut
  <1>2. Alpha!Trailing(i, window) \subseteq 1..i /\ IsFiniteSet(Alpha!Trailing(i, window))
    BY TrailingBars
  <1>3. held \subseteq 1..i /\ IsFiniteSet(held)
    BY <1>2, FS_Subset
  <1>4. {j \in Alpha!Trailing(i, window) : cut[j] # Missing} = held
    BY <1>1, <1>2
  <1> HIDE DEF held
  <1>5. ASSUME NEW s
        PROVE  Alpha!RollingSum(s, i, window) =
                 LET known == {j \in Alpha!Trailing(i, window) : s[j] # Missing}
                 IN IF known = {} THEN Missing ELSE Total(s, known)
    BY DEF Alpha!RollingSum, Alpha!MapThenSumSet, Alpha!MapThenFoldSet,
           Total, MapThenSumSet, MapThenFoldSet
  <1>6. Total(cut, held) = Total(x, held)
    <2>1. \A j \in held : cut[j] = x[j]
      BY <1>1, <1>3
    <2>2. ASSUME NEW S, IsFiniteSet(S), NEW g, NEW h, \A j \in S : g[j] = h[j]
          PROVE  Total(g, S) = Total(h, S)
      BY <2>2, TotalSame
    <2> QED BY <1>3, <2>1, <2>2
  <1>7. Alpha!RollingSum(cut, i, window) = IF held = {} THEN Missing ELSE Total(cut, held)
    BY <1>4, <1>5
  <1>8. Alpha!RollingSum(x, i, window) = IF held = {} THEN Missing ELSE Total(x, held)
    BY <1>5 DEF held
  <1> QED BY <1>6, <1>7, <1>8 DEF cut

(* the same changes,                                                       *)
LEMMA CutDiffsSame ==
  ASSUME NEW m \in Nat, NEW x, NEW i \in 1..m
  PROVE  Alpha!Diff(UpTo(x, m), i) = Alpha!Diff(x, i)
  BY DEF Alpha!Diff, UpTo

(* and the same rank of a change among those so far.                       *)
LEMMA CutRanksSame ==
  ASSUME NEW m \in Nat, NEW x, NEW i \in 1..m
  PROVE  Alpha!ExpandingPctRank(UpTo(x, m), i) = Alpha!ExpandingPctRank(x, i)
  <1>1. \A j \in 1..i : Alpha!Diff(UpTo(x, m), j) = Alpha!Diff(x, j)
    BY CutDiffsSame
  <1> DEFINE Known(s) == {j \in 1..i : Alpha!Diff(s, j) # Missing}
             Below(s) == {j \in Known(s) : Alpha!Diff(s, j) <= Alpha!Diff(s, i)}
  <1>2. Known(UpTo(x, m)) = Known(x)
    BY <1>1
  <1>3. Below(UpTo(x, m)) = Below(x)
    BY <1>1, <1>2
  <1>4. ASSUME NEW s
        PROVE  Alpha!ExpandingPctRank(s, i) = (100 * Alpha!Cardinality(Below(s))) \div Alpha!Cardinality(Known(s))
    BY DEF Alpha!ExpandingPctRank
  <1> HIDE DEF Known, Below
  <1> QED BY <1>2, <1>3, <1>4

(* The mean of a window of imbalances sums the same.                       *)
Imbalances(taker, volume, S) == [j \in S |-> Alpha!PerBarImbalance(taker[j], volume[j])]
FlowSum(taker, volume, S) ==
  Alpha!MapThenSumSet(LAMBDA j : Alpha!PerBarImbalance(taker[j], volume[j]), S)

(* A sum of imbalances is the total of what each bar gives.                *)
LEMMA FlowTotal ==
  ASSUME NEW taker, NEW volume, NEW S, IsFiniteSet(S)
  PROVE  FlowSum(taker, volume, S) = Total(Imbalances(taker, volume, S), S)
  <1> DEFINE Step(f, s) ==
               IF s = {} THEN 0
               ELSE Alpha!PerBarImbalance(taker[AnyOf(s)], volume[AnyOf(s)]) + f[RestOf(s)]
             Is(f) == f = [s \in SUBSET S |-> Step(f, s)]
             c == CHOOSE f : Is(f)
  <1>1. FlowSum(taker, volume, S) = c[S]
    BY DEF FlowSum, Alpha!MapThenSumSet, Alpha!MapThenFoldSet, RestOf, AnyOf
  <1>2. \A f : \A s \in SUBSET S : Step(f, s) = SumStep(f, Imbalances(taker, volume, S), s)
    BY AnyOfIn DEF SumStep, Imbalances
  <1>3. \A f : Is(f) <=> IsSum(f, Imbalances(taker, volume, S), S)
    BY <1>2 DEF IsSum
  <1>4. \E f : Is(f)
    <2>1. \E f : IsSum(f, Imbalances(taker, volume, S), S)
      BY SumExists
    <2> QED BY <1>3, <2>1
  <1> HIDE DEF Is
  <1>5. Is(c)
    BY <1>4
  <1> HIDE DEF c
  <1> QED
    BY <1>1, <1>3, <1>5, TotalIsSum

(* A series cut after a bar has the same sums over windows up to that bar. *)
LEMMA CutFlowsSame ==
  ASSUME NEW m \in Nat, NEW taker, NEW volume, NEW i \in 1..m, NEW window
  PROVE  FlowSum(UpTo(taker, m), UpTo(volume, m), Alpha!Trailing(i, window))
           = FlowSum(taker, volume, Alpha!Trailing(i, window))
  <1> DEFINE S == Alpha!Trailing(i, window)
             cut == Imbalances(UpTo(taker, m), UpTo(volume, m), S)
             whole == Imbalances(taker, volume, S)
  <1>1. S \subseteq 1..i /\ IsFiniteSet(S)
    BY TrailingBars
  <1> HIDE DEF S
  <1>2. \A j \in S : UpTo(taker, m)[j] = taker[j] /\ UpTo(volume, m)[j] = volume[j]
    BY <1>1 DEF UpTo
  <1>3. cut = whole
    BY <1>2 DEF Imbalances
  <1>4. /\ FlowSum(UpTo(taker, m), UpTo(volume, m), S) = Total(cut, S)
        /\ FlowSum(taker, volume, S) = Total(whole, S)
    <2> HIDE DEF cut, whole
    <2> QED BY <1>1, FlowTotal DEF cut, whole
  <1> QED BY <1>3, <1>4 DEF S

(* A flag of funding is that of the changes so far,                        *)
LEMMA CutFlagsSame ==
  ASSUME NEW n \in Nat, NEW m \in 0..n, NEW rates, DOMAIN rates = 1..n, NEW percentile, NEW dir
  PROVE  Alpha!ExtremeActivation(UpTo(rates, m), percentile, dir)
           = UpTo(Alpha!ExtremeActivation(rates, percentile, dir), m)
  <1> DEFINE Known(x, i) == Alpha!Diff(x, i) # Missing
             High(x, i) == Known(x, i) /\ Alpha!ExpandingPctRank(x, i) >= percentile
             Low(x, i) == Known(x, i) /\ Alpha!ExpandingPctRank(x, i) <= 100 - percentile
             Says(x, i) == IF High(x, i) /\ dir >= 0 THEN 1 ELSE IF Low(x, i) /\ dir <= 0 THEN -1 ELSE 0
  <1>1. m \in Nat /\ DOMAIN UpTo(rates, m) = 1..m /\ \A i \in 1..m : i \in 1..n
    BY DEF UpTo
  <1>2. \A i \in 1..m : /\ Alpha!Diff(UpTo(rates, m), i) = Alpha!Diff(rates, i)
                        /\ Alpha!ExpandingPctRank(UpTo(rates, m), i) = Alpha!ExpandingPctRank(rates, i)
    BY <1>1, CutDiffsSame, CutRanksSame
  <1>3. \A i \in 1..m : Says(UpTo(rates, m), i) = Says(rates, i)
    BY <1>2
  <1>4. /\ Alpha!ExtremeActivation(UpTo(rates, m), percentile, dir) = [i \in 1..m |-> Says(UpTo(rates, m), i)]
        /\ Alpha!ExtremeActivation(rates, percentile, dir) = [i \in 1..n |-> Says(rates, i)]
    BY <1>1 DEF Alpha!ExtremeActivation
  <1> HIDE DEF Says
  <1> QED BY <1>1, <1>3, <1>4 DEF UpTo

(* The settlements up to q are all that the bars up to m can know of.      *)
SettledBy(bars, m, times, q) == \A i \in 1..m, k \in DOMAIN times : k > q => ~(times[k] <= bars[i])

(* A bar has the flag of the last settlement before it opened: later       *)
(* settlements, and later bars, are not asked.                             *)
LEMMA CutFundingSame ==
  ASSUME NEW n \in Nat, NEW m \in 0..n, NEW bars, DOMAIN bars = 1..n,
         NEW r \in Nat, NEW q \in 0..r, NEW rates, DOMAIN rates = 1..r, NEW times, DOMAIN times = 1..r,
         SettledBy(bars, m, times, q),
         NEW percentile, NEW dir
  PROVE  Alpha!FundingExtreme(UpTo(bars, m), UpTo(rates, q), UpTo(times, q), percentile, dir)
           = UpTo(Alpha!FundingExtreme(bars, rates, times, percentile, dir), m)
  <1> DEFINE flags == Alpha!ExtremeActivation(rates, percentile, dir)
             cutFlags == Alpha!ExtremeActivation(UpTo(rates, q), percentile, dir)
             Past(i) == {k \in 1..r : times[k] <= bars[i]}
             CutPast(i) == {k \in 1..q : UpTo(times, q)[k] <= UpTo(bars, m)[i]}
             Says(f, past) == IF past = {} THEN 0 ELSE f[Alpha!Max(past)]
  <1>1. cutFlags = UpTo(flags, q)
    BY CutFlagsSame
  <1>2. /\ Alpha!FundingExtreme(UpTo(bars, m), UpTo(rates, q), UpTo(times, q), percentile, dir)
             = [i \in 1..m |-> Says(cutFlags, CutPast(i))]
        /\ Alpha!FundingExtreme(bars, rates, times, percentile, dir) = [i \in 1..n |-> Says(flags, Past(i))]
    BY DEF Alpha!FundingExtreme, UpTo
  <1> HIDE DEF flags, cutFlags
  <1>3. ASSUME NEW i \in 1..m
        PROVE  Says(cutFlags, CutPast(i)) = Says(flags, Past(i))
    <2>1. CutPast(i) = Past(i) /\ Past(i) \subseteq 1..q
      BY DEF UpTo, SettledBy
    <2> HIDE DEF Past, CutPast
    <2>2. CASE Past(i) = {}
      BY <2>1, <2>2
    <2>3. CASE Past(i) # {}
      <3>1. Max(Past(i)) \in Past(i)
        <4>1. ASSUME NEW S, S \subseteq 1..q, S # {} PROVE Max(S) \in S
          <5>1. 1 \in Int /\ q \in Int
            OBVIOUS
          <5> QED BY <4>1, <5>1, Extremes
        <4> QED BY <2>1, <2>3, <4>1
      <3>2. Alpha!Max(Past(i)) = Max(Past(i))
        BY DEF Alpha!Max, Max
      <3> QED BY <1>1, <2>1, <2>3, <3>1, <3>2 DEF UpTo
    <2> QED BY <2>2, <2>3
  <1>4. \A i \in 1..m : i \in 1..n
    OBVIOUS
  <1> HIDE DEF Says, Past, CutPast
  <1> QED BY <1>2, <1>3, <1>4 DEF UpTo

(* "Lookahead-safe" (custom/flow_imbalance.py:12, funding_extreme.py:8-11, *)
(* liq_cascade.py:11, oi_divergence.py:8-9): what an indicator of the      *)
(* project says of a bar is decided by the bars up to it, and by the       *)
(* settlements before it opened, whatever the windows and the thresholds.  *)
THEOREM IndicatorsLookBack ==
  ASSUME NEW n \in Nat, NEW m \in 0..n, NEW a, NEW b, DOMAIN a = 1..n, DOMAIN b = 1..n,
         NEW window, NEW least, NEW dir, NEW oiDir,
         NEW r \in Nat, NEW q \in 0..r, NEW rates, DOMAIN rates = 1..r, NEW times, DOMAIN times = 1..r,
         SettledBy(a, m, times, q)
  PROVE  /\ Alpha!LiqCascade(UpTo(a, m), UpTo(b, m), window, least)
              = UpTo(Alpha!LiqCascade(a, b, window, least), m)
         /\ Alpha!OiDivergence(UpTo(a, m), UpTo(b, m), dir, oiDir)
              = UpTo(Alpha!OiDivergence(a, b, dir, oiDir), m)
         /\ Alpha!FundingExtreme(UpTo(a, m), UpTo(rates, q), UpTo(times, q), least, dir)
              = UpTo(Alpha!FundingExtreme(a, rates, times, least, dir), m)
         /\ Alpha!FlowImbalance(UpTo(a, m), UpTo(b, m), window, least, dir)
              = UpTo(Alpha!FlowImbalance(a, b, window, least, dir), m)
  <1>1. /\ DOMAIN UpTo(a, m) = 1..m /\ DOMAIN UpTo(b, m) = 1..m
        /\ m \in Nat /\ \A i \in 1..m : i \in 1..n
    BY DEF UpTo
  <1>2. \A i \in 1..m : /\ Alpha!RollingSum(UpTo(a, m), i, window) = Alpha!RollingSum(a, i, window)
                        /\ Alpha!RollingSum(UpTo(b, m), i, window) = Alpha!RollingSum(b, i, window)
    BY <1>1, CutSumsSame
  <1>3. \A i \in 1..m : /\ Alpha!Diff(UpTo(a, m), i) = Alpha!Diff(a, i)
                        /\ Alpha!Diff(UpTo(b, m), i) = Alpha!Diff(b, i)
    BY <1>1, CutDiffsSame
  <1>4. \A i \in 1..m :
          FlowSum(UpTo(a, m), UpTo(b, m), Alpha!Trailing(i, window))
            = FlowSum(a, b, Alpha!Trailing(i, window))
    BY <1>1, CutFlowsSame
  <1>5. Alpha!LiqCascade(UpTo(a, m), UpTo(b, m), window, least)
          = UpTo(Alpha!LiqCascade(a, b, window, least), m)
    <2> DEFINE Says(x, y, i) ==
                 LET bought == Alpha!RollingSum(x, i, window)
                     sold   == Alpha!RollingSum(y, i, window)
                 IN IF bought = Missing \/ sold = Missing THEN 0
                    ELSE IF least > 0 /\ bought + sold < least THEN 0 ELSE bought - sold
    <2>1. \A i \in 1..m : Says(UpTo(a, m), UpTo(b, m), i) = Says(a, b, i)
      BY <1>2
    <2>2. /\ Alpha!LiqCascade(UpTo(a, m), UpTo(b, m), window, least)
               = [i \in 1..m |-> Says(UpTo(a, m), UpTo(b, m), i)]
          /\ Alpha!LiqCascade(a, b, window, least) = [i \in 1..n |-> Says(a, b, i)]
      BY <1>1 DEF Alpha!LiqCascade
    <2> HIDE DEF Says
    <2> QED BY <1>1, <2>1, <2>2 DEF UpTo
  <1>6. Alpha!OiDivergence(UpTo(a, m), UpTo(b, m), dir, oiDir)
          = UpTo(Alpha!OiDivergence(a, b, dir, oiDir), m)
    <2> DEFINE Way(d) == IF d >= 0 THEN 1 ELSE -1
               Moves(x, i, d) == Alpha!Diff(x, i) # Missing /\ Alpha!SignOf(Alpha!Diff(x, i)) = Way(d)
               Says(x, y, i) == IF Moves(x, i, dir) /\ Moves(y, i, oiDir) THEN Way(dir) ELSE 0
    <2>1. \A i \in 1..m : Says(UpTo(a, m), UpTo(b, m), i) = Says(a, b, i)
      BY <1>3
    <2>2. /\ Alpha!OiDivergence(UpTo(a, m), UpTo(b, m), dir, oiDir)
               = [i \in 1..m |-> Says(UpTo(a, m), UpTo(b, m), i)]
          /\ Alpha!OiDivergence(a, b, dir, oiDir) = [i \in 1..n |-> Says(a, b, i)]
      BY <1>1 DEF Alpha!OiDivergence
    <2> HIDE DEF Says
    <2> QED BY <1>1, <2>1, <2>2 DEF UpTo
  <1>7. Alpha!FundingExtreme(UpTo(a, m), UpTo(rates, q), UpTo(times, q), least, dir)
          = UpTo(Alpha!FundingExtreme(a, rates, times, least, dir), m)
    BY CutFundingSame
  <1>8. Alpha!FlowImbalance(UpTo(a, m), UpTo(b, m), window, least, dir)
          = UpTo(Alpha!FlowImbalance(a, b, window, least, dir), m)
    <2> DEFINE Mean(x, y, i) == FlowSum(x, y, Alpha!Trailing(i, window))
                                  \div Alpha!Cardinality(Alpha!Trailing(i, window))
               Of(mean) == IF least > 0 /\ mean < least /\ -mean < least THEN 0
                           ELSE IF dir < 0 THEN -mean ELSE mean
    <2>1. \A i \in 1..m : Of(Mean(UpTo(a, m), UpTo(b, m), i)) = Of(Mean(a, b, i))
      BY <1>4
    <2>2. /\ Alpha!FlowImbalance(UpTo(a, m), UpTo(b, m), window, least, dir)
               = [i \in 1..m |-> Of(Mean(UpTo(a, m), UpTo(b, m), i))]
          /\ Alpha!FlowImbalance(a, b, window, least, dir) = [i \in 1..n |-> Of(Mean(a, b, i))]
      BY <1>1 DEF Alpha!FlowImbalance, FlowSum
    <2> HIDE DEF Of, Mean
    <2> QED BY <1>1, <2>1, <2>2 DEF UpTo
  <1> QED BY <1>5, <1>6, <1>7, <1>8
=============================================================================
