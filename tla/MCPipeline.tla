---------------------------- MODULE MCPipeline ------------------------------
(***************************************************************************)
(* The stores and services around the trading loop on small instances.     *)
(* They share no state, so a behaviour runs one of them, chosen by `part`  *)
(* in its initial state, and the others rest: what is explored is the sum  *)
(* of their state spaces and not the product.                              *)
(***************************************************************************)
EXTENDS
  MarketSync, LiquidationCollector, Universe, StrategyLifecycle, TelegramControl, PaperBook,
  BacktestEngine, ResearchJobs, MCMeasures

CONSTANTS Symbols, SlotLength, PollSeconds  \* OpenInterestPoll
CONSTANTS btc, eth, sol

VARIABLES
  part,
  samples, polling, slot, nextPoll

Poll == INSTANCE OpenInterestPoll

syncVars == <<file, torn, row, jobVars, cliRuns, faults, overtaken, stale>>
pollVars == <<samples, polling, slot, nextPoll>>
allVars == <<part, now, syncVars, liqVars, pollVars, universeVars, lifeVars, chatVars,
             bookVars, backtestVars, jobsVars>>

Parts == {"sync", "liquidations", "openInterest", "universe", "lifecycle", "chat",
          "book", "backtest", "jobs"}

\* A part that rests starts in one of its initial states.
MCInit ==
  /\ part \in Parts
  /\ Init /\ LiqInit /\ Poll!Init /\ UniverseInit
  /\ LifeInit /\ ChatInit /\ BookInit /\ BacktestInit /\ JobsInit
  /\ part # "openInterest" => nextPoll = 0
  /\ part # "book" => close = CHOOSE c \in ClosePrices : TRUE
  /\ part # "backtest" => config = CHOOSE c \in Configs : TRUE

SyncSteps ==
  /\ part = "sync" /\ Next
  /\ UNCHANGED <<part, liqVars, pollVars, universeVars, lifeVars, chatVars,
                 bookVars, backtestVars, jobsVars>>
LiqSteps ==
  /\ part = "liquidations" /\ LiqNext
  /\ UNCHANGED <<part, now, syncVars, pollVars, universeVars, lifeVars,
                 chatVars, bookVars, backtestVars, jobsVars>>
PollSteps ==
  /\ part = "openInterest" /\ Poll!Next
  /\ UNCHANGED <<part, syncVars, liqVars, universeVars, lifeVars, chatVars,
                 bookVars, backtestVars, jobsVars>>
UniSteps ==
  /\ part = "universe" /\ UniverseNext
  /\ UNCHANGED <<part, now, syncVars, liqVars, pollVars, lifeVars,
                 chatVars, bookVars, backtestVars, jobsVars>>
LifeSteps ==
  /\ part = "lifecycle" /\ LifeNext
  /\ UNCHANGED <<part, now, syncVars, liqVars, pollVars, universeVars,
                 chatVars, bookVars, backtestVars, jobsVars>>
ChatSteps ==
  /\ part = "chat" /\ ChatNext
  /\ UNCHANGED <<part, now, syncVars, liqVars, pollVars, universeVars,
                 lifeVars, bookVars, backtestVars, jobsVars>>
BookSteps ==
  /\ part = "book" /\ BookNext
  /\ UNCHANGED <<part, now, syncVars, liqVars, pollVars, universeVars,
                 lifeVars, chatVars, backtestVars, jobsVars>>
BackSteps ==
  /\ part = "backtest" /\ BacktestNext
  /\ UNCHANGED <<part, now, syncVars, liqVars, pollVars, universeVars,
                 lifeVars, chatVars, bookVars, jobsVars>>
JobsSteps ==
  /\ part = "jobs" /\ JobsNext
  /\ UNCHANGED <<part, now, syncVars, liqVars, pollVars, universeVars,
                 lifeVars, chatVars, bookVars, backtestVars>>

MCNext ==
  \/ SyncSteps \/ LiqSteps \/ PollSteps \/ UniSteps \/ LifeSteps \/ ChatSteps
  \/ BookSteps \/ BackSteps \/ JobsSteps

MCSpec == MCInit /\ [][MCNext]_allVars /\ (part = "sync" => Fairness)

(***************************************************************************)
(* Markets: eth falls below the volume asked for, sol rises above it.      *)
(***************************************************************************)
MCMarkets == {btc, eth, sol}
MCListed == [d \in 0..LastDay |-> IF d = 0 THEN {btc, eth} ELSE MCMarkets]
MCMedian ==
  [d \in 0..LastDay |-> btc :> 9 @@ eth :> 6 - 2 * d @@ sol :> 3 + 4 * d]
MCSpread == [d \in 0..LastDay |-> btc :> 1 @@ eth :> 2 @@ sol :> 3 - d]

(***************************************************************************)
(* Bars at two prices; a market entry of a fixed fraction without exits,   *)
(* and a limit entry sized by the ATR with a stop and a target.            *)
(***************************************************************************)
MCCloses == {10, 20}
MCPrices == {20, 40}
MCBarShapes ==
  {b \in [open : MCPrices, high : MCPrices, low : MCPrices, close : MCPrices] :
     /\ b.low <= b.open /\ b.open <= b.high
     /\ b.low <= b.close /\ b.close <= b.high}
MCConfigs ==
  {[limit |-> FALSE, sizing |-> "fixed", leverage |-> 2, stop |-> 0, target |-> 0],
   [limit |-> TRUE, sizing |-> "atr", leverage |-> 2, stop |-> 1, target |-> 2]}
MCAtrs == {0, 10}
MCFundingRates == {-1000, 0, 1000}

(***************************************************************************)
(* FindGaps, CountMissing and ExpectedCount against what they are for, on  *)
(* every series of up to five bars with stamps a little off the grid.      *)
(***************************************************************************)
Grid == 5
Holes(I) == (FirstBar(I)..LastBar(I)) \ I
Runs(M) == {i \in M : i - 1 \notin M}

ASSUME GapsTolerateJitter ==
  \A I \in SUBSET (0..4) \ {{}} : \A jitter \in [I -> -1..1] :
    LET stamps == {Grid * i + jitter[i] : i \in I}
        gaps   == FindGaps(stamps, Grid)
    IN /\ Cardinality(gaps) = Cardinality(Runs(Holes(I)))
       /\ CountMissing(gaps, Grid) = Cardinality(Holes(I))

ASSUME ExpectedIsWhole ==
  \A I \in SUBSET (0..4) \ {{}} :
    ExpectedCount(Grid * FirstBar(I), Grid * LastBar(I), Grid) = Cardinality(I \cup Holes(I))


TypesOK ==
  /\ part = "sync" => TypeOK
  /\ part = "liquidations" => LiqTypeOK
  /\ part = "openInterest" => Poll!TypeOK
  /\ part = "universe" => UniverseTypeOK
  /\ part = "lifecycle" => LifeTypeOK
  /\ part = "chat" => ChatTypeOK
  /\ part = "book" => BookTypeOK
  /\ part = "backtest" => BacktestTypeOK
  /\ part = "jobs" => JobsTypeOK
=============================================================================
