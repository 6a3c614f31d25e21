------------------------------ MODULE PaperBook ------------------------------
(***************************************************************************)
(* The trades table of one paper strategy on one symbol, beside the        *)
(* account it trades on (backend/app/bot/engine.py over                    *)
(* execution/paper.py).  The account, the stop and target of the open      *)
(* trade, and how far bars and funding have been read live in memory; the  *)
(* trades and the equity snapshots are written by the tick's transaction,  *)
(* which may be rolled back while the process lives, and outlive it.       *)
(*                                                                         *)
(* A tick is taken apart where it touches both: the bar is marked, funding *)
(* is settled, an order is filled and booked, the snapshot is committed.   *)
(* The account is PaperAccount with one symbol; orders are of one lot.     *)
(* Nothing else writes in the tick: the kill switch another strategy's     *)
(* order engages commits the session in the middle of it (engine.py:656),  *)
(* which is BotEngine's subject and outside this book.                     *)
(***************************************************************************)
EXTENDS Integers, FiniteSets

CONSTANTS
  NoTrade, NoBand, NoSnapshot,
  Symbol,
  ClosePrices,     \* closing prices a bar may have
  FundingRate,     \* the rate of every settlement, in basis points
  SlippageBps, CommissionBps, InitialCash,
  StopGap,         \* the stop's multiple of the ATR, 0 for none
  TargetDistance,  \* the target's multiple of the ATR, 0 for none
  LastClose, MaxOrders, MaxFunding, MaxMishaps  \* bounds

VARIABLES
  \* The market.
  bar, close,      \* the newest closed bar
  settled,         \* the bars at which funding was settled
  \* The process.
  phase,           \* where the tick is
  processed,       \* _processed: the bar last acted on, 0 for none
  band,            \* _bands: stop and target
  lastFunding,     \* _last_funding_ts
  cash, size, cost, mark, realized, funding, orderSeq, reported, commission,
  \* The session, and what was committed.
  trade, booked,   \* the open trade; the pnl of the closed ones
  saved,           \* the trades and the equity snapshot of the last commit
  \* History and bound.
  credited,        \* unrealized profit restored as cash
  adrift,          \* a fill was rolled back out of the trades
  watched,         \* the open trade was opened by this process, in this version
  decided,         \* the bar last decided on
  charged,         \* settlements charged since the process began
  mishaps

accountVars == <<cash, size, cost, mark, realized, funding, orderSeq, reported, commission>>
historyVars == <<credited, adrift, watched, decided, charged, mishaps>>

Account == INSTANCE PaperAccount WITH
  Symbols <- {Symbol}, RefPrices <- ClosePrices, Lots <- {1}, FundingRates <- {FundingRate}

Trades == [side : {1, -1}, entry : Int, opened : Nat, reference : Int, fees : Int, funding : Int]
Bands == [stop : Int, target : Int]
Snapshots == [trade : Trades \cup {NoTrade}, booked : Int, equity : Int, credited : Int]

\* What the constants stand for.
ASSUME BookConstants ==
  /\ ClosePrices \subseteq Nat \ {0}
  /\ FundingRate \in Int /\ {CommissionBps, StopGap, TargetDistance} \subseteq Nat
  /\ SlippageBps \in 0..9999 /\ InitialCash \in Int
  /\ LastClose \in Nat \ {0} /\ MaxOrders \in Nat
  /\ NoTrade \notin Trades /\ NoBand \notin Bands /\ NoSnapshot \notin Snapshots

BookInit ==
  /\ bar = 1 /\ close \in ClosePrices /\ settled = {}
  /\ phase = "idle" /\ processed = 0 /\ band = NoBand /\ lastFunding = 0
  /\ Account!Init
  /\ trade = NoTrade /\ booked = 0 /\ saved = NoSnapshot
  /\ credited = 0 /\ adrift = FALSE /\ watched = FALSE /\ decided = 0
  /\ charged = {} /\ mishaps = 0

NewBar ==
  /\ phase = "idle" /\ bar < LastClose
  /\ bar' = bar + 1
  /\ close' \in ClosePrices
  /\ settled' \in {settled, settled \cup {bar + 1}}
  /\ UNCHANGED <<phase, processed, band, lastFunding, accountVars, trade, booked, saved, historyVars>>

-----------------------------------------------------------------------------
(***************************************************************************)
(* A tick.                                                                 *)
(***************************************************************************)

\* The bar is spent before anything is done about it.
Evaluate ==
  /\ phase = "idle"
  /\ Account!Mark(Symbol, close)
  /\ processed' = bar
  /\ phase' = IF processed = bar THEN "evaluated" ELSE "marked"
  /\ UNCHANGED <<bar, close, settled, band, lastFunding, trade, booked, saved, historyVars>>

\* The strategy is off or paused at this tick.
NotActive ==
  /\ phase = "idle"
  /\ phase' = "evaluated"
  /\ UNCHANGED <<bar, close, settled, processed, band, lastFunding, accountVars, trade, booked,
                 saved, historyVars>>

EvaluationFails ==
  /\ phase \in {"marked", "funded"} /\ mishaps < MaxMishaps
  /\ phase' = "evaluated" /\ mishaps' = mishaps + 1
  /\ UNCHANGED <<bar, close, settled, processed, band, lastFunding, accountVars, trade, booked,
                 saved, credited, adrift, watched, decided, charged>>

HasPosition == size[Symbol] # 0
Due == {s \in settled : lastFunding < s}
NextDue(s) == s \in Due /\ \A t \in Due : s <= t

LastFundingAfter_First(s) == IF lastFunding = 0 THEN s ELSE lastFunding
LastFundingAfter(s) == s

Accrue ==
  /\ phase = "marked" /\ HasPosition
  /\ Account!AccrueFunding(Symbol, FundingRate)
  /\ trade' = IF trade = NoTrade THEN trade
              ELSE [trade EXCEPT !.funding = @ + Account!FundingPay(Symbol, FundingRate)]
  /\ \E s \in Due :
       /\ NextDue(s)
       /\ lastFunding' = LastFundingAfter(s)
       /\ charged' = charged \cup {s}
  /\ UNCHANGED <<bar, close, settled, phase, processed, band, booked, saved, credited, adrift, watched,
                 decided, mishaps>>

Funded ==
  /\ phase = "marked" /\ (HasPosition => Due = {})
  /\ phase' = "funded"
  /\ UNCHANGED <<bar, close, settled, processed, band, lastFunding, accountVars, trade, booked,
                 saved, historyVars>>

StopOf(side, reference) == reference - side * StopGap

BandOf(side) ==
  IF StopGap = 0 /\ TargetDistance = 0 THEN NoBand
  ELSE [stop   |-> StopOf(side, close),
        target |-> close + side * TargetDistance]

\* A distance of 0 sets no level.
BandHit_Through(side) ==
  /\ band # NoBand
  /\ \/ StopGap # 0 /\ side * (close - band.stop) < 0
     \/ TargetDistance # 0 /\ side * (close - band.target) >= 0
BandHit(side) ==
  /\ band # NoBand
  /\ \/ StopGap # 0 /\ side * (close - band.stop) <= 0
     \/ TargetDistance # 0 /\ side * (close - band.target) >= 0

Fill(side) == Account!FillPrice(side, close)

\* Without an entry signal, or with one the wall refuses, nothing happens.
Open(side) ==
  /\ phase = "funded" /\ trade = NoTrade
  /\ Account!PlaceOrder(Symbol, side, 1, close)
  /\ trade' = [side |-> side, entry |-> Fill(side), opened |-> bar, reference |-> close,
               fees |-> Account!Commission(1, Fill(side)), funding |-> 0]
  /\ band' = BandOf(side)
  /\ watched' = TRUE /\ decided' = bar /\ phase' = "evaluated"
  /\ UNCHANGED <<bar, close, settled, processed, lastFunding, booked, saved, credited, adrift, charged, mishaps>>

CloseLot == Account!Abs(size[Symbol])

Pnl_EntryFeeForgotten(fill, gain) == gain - Account!Commission(CloseLot, fill) + trade.funding
Pnl(fill, gain) == gain - (trade.fees + Account!Commission(CloseLot, fill)) + trade.funding

\* A close is sized by the account's position, which it may not find.
Close ==
  /\ phase = "funded" /\ trade # NoTrade /\ HasPosition
  /\ LET side == -trade.side
         fill == Fill(side)
         gain == Account!Realizes(side * CloseLot, fill, size[Symbol], cost[Symbol])
     IN /\ Account!PlaceOrder(Symbol, side, CloseLot, close)
        /\ booked' = booked + Pnl(fill, gain)
  /\ trade' = NoTrade /\ band' = NoBand
  /\ watched' = FALSE /\ decided' = bar /\ phase' = "evaluated"
  /\ UNCHANGED <<bar, close, settled, processed, lastFunding, saved, credited, adrift, charged,
                 mishaps>>

\* No signal, a refused entry, or a close of nothing.
Nothing ==
  /\ phase = "funded"
  /\ trade # NoTrade /\ HasPosition => ~BandHit(trade.side)
  /\ decided' = bar /\ phase' = "evaluated"
  /\ UNCHANGED <<bar, close, settled, processed, band, lastFunding, accountVars, trade, booked,
                 saved, credited, adrift, watched, charged, mishaps>>

\* PaperAccount's equity, of its one symbol.
Equity == cash + Account!Unrealized(Symbol)

\* The snapshot is added and the tick's transaction commits.
Commit ==
  /\ phase = "evaluated"
  /\ saved' = [trade |-> trade, booked |-> booked, equity |-> Equity,
               credited |-> credited + Account!Unrealized(Symbol)]
  /\ phase' = "idle"
  /\ UNCHANGED <<bar, close, settled, processed, band, lastFunding, accountVars, trade, booked,
                 historyVars>>

-----------------------------------------------------------------------------
(***************************************************************************)
(* What goes wrong.                                                        *)
(***************************************************************************)
SavedTrade == IF saved = NoSnapshot THEN NoTrade ELSE saved.trade
SavedBooked == IF saved = NoSnapshot THEN 0 ELSE saved.booked

\* The tick raises, or its commit does; the account keeps what it filled.
Rollback ==
  /\ phase # "idle" /\ mishaps < MaxMishaps
  /\ trade' = SavedTrade /\ booked' = SavedBooked
  /\ adrift' = (adrift \/ <<trade, booked>> # <<SavedTrade, SavedBooked>>)
  /\ phase' = "idle" /\ mishaps' = mishaps + 1
  /\ UNCHANGED <<bar, close, settled, processed, band, lastFunding, accountVars, saved, credited,
                 watched, decided, charged>>

CashAfter == IF saved = NoSnapshot THEN InitialCash ELSE saved.equity

\* The process dies and comes back: rehydrate.
Restart ==
  LET kept == SavedTrade
      positions == IF kept = NoTrade THEN [s \in {Symbol} |-> 0] ELSE [s \in {Symbol} |-> kept.side]
      entry == IF kept = NoTrade THEN [s \in {Symbol} |-> 0] ELSE [s \in {Symbol} |-> kept.entry]
  IN /\ mishaps < MaxMishaps /\ mishaps' = mishaps + 1
     /\ phase' = "idle" /\ processed' = 0 /\ band' = NoBand /\ lastFunding' = 0
     /\ size' = positions /\ cost' = entry /\ mark' = entry
     /\ cash' = CashAfter
     /\ realized' = 0 /\ funding' = 0 /\ orderSeq' = 0
     /\ reported' = [s \in {Symbol} |-> 0] /\ commission' = 0
     /\ trade' = kept /\ booked' = SavedBooked
     /\ credited' = IF saved = NoSnapshot THEN 0 ELSE saved.credited
     /\ watched' = FALSE /\ charged' = {} /\ decided' = 0
     /\ UNCHANGED <<bar, close, settled, saved, adrift>>

\* Another version becomes the active one: its keys are new.
NewVersion ==
  /\ phase = "idle" /\ mishaps < MaxMishaps /\ mishaps' = mishaps + 1
  /\ band' = NoBand /\ processed' = 0 /\ watched' = FALSE
  /\ UNCHANGED <<bar, close, settled, phase, lastFunding, accountVars, trade, booked, saved, credited,
                 adrift, decided, charged>>

BookNext ==
  \/ NewBar
  \/ Evaluate \/ NotActive \/ EvaluationFails \/ Accrue \/ Funded
  \/ \E side \in {1, -1} : Open(side)
  \/ Close \/ Nothing \/ Commit
  \/ Rollback \/ Restart \/ NewVersion

bookVars == <<bar, close, settled, phase, processed, band, lastFunding, accountVars, trade, booked,
              saved, historyVars>>
BookSpec == BookInit /\ [][BookNext]_bookVars

BookTypeOK ==
  /\ bar \in 1..LastClose /\ close \in ClosePrices /\ settled \subseteq 1..bar
  /\ phase \in {"idle", "marked", "funded", "evaluated"}
  /\ processed \in 0..bar /\ decided \in 0..bar /\ lastFunding \in 0..bar
  /\ Account!TypeOK
  /\ band # NoBand => trade # NoTrade \/ adrift

(***************************************************************************)
(* What the account holds is what the trades say it made, but for the      *)
(* unrealized profit that restarts turned into cash ("Positions are        *)
(* restored at entry (0 unrealized), so cash == equity here", engine.py),  *)
(* unless a fill was rolled back out of the trades.                        *)
(***************************************************************************)
CashIsBooked ==
  ~adrift => cash = InitialCash + booked + credited
                  + (IF trade = NoTrade THEN 0 ELSE trade.funding - trade.fees)

(***************************************************************************)
(* Once a bar is decided on, every settlement since the open trade's entry *)
(* has been charged, and a settlement is charged once by a process.        *)
(***************************************************************************)
FundingSettledOnce ==
  /\ Due \cap charged = {}
  /\ (decided = bar /\ trade # NoTrade /\ ~adrift) => {s \in settled : trade.opened < s} \subseteq charged

\* The two together: the book's money is that of its trades and settlements.
BookAddsUp == CashIsBooked /\ FundingSettledOnce

(***************************************************************************)
(* No trade outlives a decision on a bar that closed on or beyond its      *)
(* stop, while the process and the version that opened it last and no fill *)
(* was rolled back ("the exit and the sizing stop are one and the same").  *)
(***************************************************************************)
StopIsHonoured ==
  (trade # NoTrade /\ watched /\ ~adrift /\ decided = bar /\ StopGap # 0)
    => trade.side * (close - StopOf(trade.side, trade.reference)) > 0
=============================================================================
