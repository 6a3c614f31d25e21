# UNKNOWNINCOME in TLA+

A verification project for the trading system under `src/backend/app`: a worker
process that evaluates strategies on closed bars and sends market orders through
a risk wall to a simulated account or to a live venue, with an operator who
switches modes, approves versions and pulls a kill switch while it runs.

Paths below are relative to `src/backend/app` unless they start with `docs/`.

## 1. Inventory

| Component | Code | State it keeps | Operations | Modelled by |
|---|---|---|---|---|
| Paper account | `execution/paper.py` | cash, net position and mark per symbol, realized profit, funding | `place_order`, `mark`, `accrue_funding`, `restore_position`, `set_cash`, `cancel_all` | `PaperAccount`, `AccountLedger` |
| Trading loop | `bot/engine.py` | processed bars, exit bands, funding clock, live wall, handled flag; trades, orders, signals, snapshots in the database | `rehydrate`, `run`, `_tick`, `_evaluate`, `_apply_fill`, `_handle_kill`, `_ensure_live_wall` | `BotEngine`, `PaperBook` |
| Kill switch | `bot/killswitch.py` | a file, a settings row | `engage`, `clear`, `is_engaged` | `BotEngine` |
| Mode switches | `bot/mode.py` | global mode row, mode of a strategy | `set_global_mode`, `effective_mode` | `BotEngine` |
| Strategy lifecycle | `strategy/service.py`, `regen.py`, `scheduler.py` | strategies, versions and their status, active pointer | `add_version`, `set_mode`, `promote`, `retire`, `approve_version`, `reject_version`, `regenerate` | `StrategyLifecycle`, `BotEngine` |
| Promotion gate | `bot/promotion.py` | none | `evaluate_global_gate`, `assert_can_go_live` | `TrackRecord`; its verdict, in `BotEngine` and `StrategyLifecycle` |
| Risk wall | `execution/risk.py` | peak, day, day's start, halted day, streak, cooldown | `submit`, `evaluate`, `register_trade_result`, `seed_state` | `RiskWall` |
| Portfolio limits | `portfolio/limits.py` | none (its snapshot is the wall's) | `check_drawdown`, `check_open` | `RiskWall` |
| Worker | `workers/main.py` | the tasks of a process | `startup`, `_start_bot`, `shutdown`, cron and queue jobs | `BotEngine`, `MarketSync`, `ResearchJobs` (in part) |
| Live venue | `execution/binance.py` | entry mirror, cached venue settings | `place_order`, `get_positions`, `get_balance`, `restore_mirror`, `cancel_all` | `LiveVenue` |
| Call resilience | `execution/resilience.py` | the breaker's failures and opening time | `call_resilient`, `record_success`, `record_failure` | `LiveVenue` |
| Limit router | `execution/limit.py` | resting orders | `submit`, `poll`, `cancel` | `LimitEntry` |
| Sizing, capacity | `execution/sizing.py`, `capacity.py` | none | `position_size`, `liquidation_price`, `exceeds_cap` | `Sizing` |
| Slippage learning | `execution/slippage_model.py`, `slippage_reconcile.py` | none (reads recorded fills) | `build`, `lookup`, `reconcile` | `Slippage` |
| Market data | `data/sync.py`, `parquet_store.py`, `gaps.py`, `universe.py`, `cli.py` | Parquet files, sync rows, dated snapshots | backfill, incremental sync, gap repair, build of the universe | `BarSeries`, `MarketSync`, `Universe` |
| Collectors | `data/collectors/*`, `data/alpha.py` | event buffer, liquidation rows, minute bars | consume, flush, reconnect, aggregate, poll | `LiquidationCollector`, `OpenInterestPoll` |
| Indicators | `indicators/*` | registry, cached series | registration, `compute_indicator`, signal primitives | `IndicatorRegistry`, `AlphaSeries`, `Rules` (not the libraries' formulas) |
| Signals, tracking | `bot/signals.py`, `bot/tracking.py` | none | `evaluate_latest`, `compute_tracking_error` | `Rules`, `TrackRecord` |
| Genome, health, regime, generation | `strategy/health.py`, `regime.py`, `generator.py`, `reoptimize.py`, `plugin_loader.py` | the loaded plugins of a process | degradation, labels, re-optimization | `TrackRecord`, `WalkForward`, `IndicatorRegistry` |
| Backtest | `backtest/*` | the state of one run | the bar loop, rules, metrics | `BacktestEngine`, `Rules`, `Metrics` |
| Discovery, research | `discovery/*`, `research/*` | a scan, the trial ledger | scan stages, walk-forward, deflation gate, job states | `Discovery`, `WalkForward`, `Metrics`, `ResearchJobs` |
| Allocation, attribution | `portfolio/*` | none | weights, netting, `attribute_pnl` | `Portfolio` |
| Telegram | `bot/telegram.py` | offset, one pending confirmation | polling, commands | `TelegramControl` |
| HTTP API | `api/*` | none | request handlers | the writing ones are operator actions of `BotEngine`, `StrategyLifecycle`, `ResearchJobs` |
| Models, core | `models/*`, `core/*` | the database, settings | transactions, queue client | by their effects |
| Frontend, scripts | `src/frontend`, `src/backend/scripts` | - | - | not modelled |

### How they interact

The worker's event loop runs the trading loop, the Telegram poller and the
collectors as tasks of one process; the API is a second process. They share the
database and, for the kill switch, one file. A tick of the loop is one database
transaction with awaits in it: it lists the strategies to run, then for each
reads the candles, asks for the open trade, decides, submits to the risk wall
(synchronously: wall and adapter hold no locks and need none), writes the rows,
and commits at the end. Operators' requests commit between any two awaits. The
adapter's memory and the venue are outside the transaction: rolling back rows
does not take back a fill. `docs/PROJE_DOKUMANI.md` §9 describes the switch
layers, the limits and the kill switch.

### What is hard, and what makes each component correct

* *Two stores of one truth.* Positions live in the adapter, trades in the
  database. Correct: they agree, through rollbacks, crashes and rehydration,
  and every difference has a cause the code knows of.
* *Stale lists.* A tick acts on strategies, versions and switches read at its
  start, one after the other. Correct: what it trades was approved, and what reaches the
  venue was earned by both switches and a standing wall.
* *The kill switch against the tick.* It may be engaged before, in or by a tick,
  cleared and engaged again, and its handling may fail. Correct: an engaged
  switch ends trading, a cleared one lets it resume.
* *Memory of the limits.* Peak, halt, streak and cooldown are anchored in what
  the wall saw, over days and restarts, while the portfolio limits in front of
  it answer first. Correct: each limit binds exactly while its words say so.
* *Netting.* Positions of several strategies on one symbol are one position.
  Correct: the account's books are those of a plain ledger, and a close lowers
  the exposure.
* *An unreliable venue.* Any call may take effect and lose its answer, be retried,
  or be cut short by the end of the process; what the adapter remembers of the venue
  may be stale. Correct: what it opens is set up as it must be, what it closes only
  closes, it knows what the venue holds or could not know, and it leaves a venue in
  trouble alone.
* *Money in memory, trades in the database.* Cash, funding clock and exit bands die
  with the process and the version they were keyed by. Correct: cash is what the
  trades say, every settlement is charged, a stop that was set is honoured.
* *Transactions that overlap.* Edits, decisions, switches, degradations and proposals
  write columns of rows they read earlier. Correct: the first decision on a version
  stands, and nothing but a command switches a paused strategy on.
* *Files without locks, a stream that cannot be replayed.* Two processes read, merge
  and overwrite one file; bars close while they fetch; events are pushed once.
  Correct: only closed bars, no hole a run could have filled, in the end all of
  them, and what was heard is stored soon.
* *Hindsight.* A dated universe, a rule, an indicator, a walk-forward window. Correct:
  what is said of a moment was known at it.
* *Jobs of a queue that runs them at least once, or cancels them.* Correct: a settled
  scan is one attempt's, and no trial committed before is left out of its count.

## 2. Modules

| Module | Lines of TLA+ it is made of |
|---|---|
| `AccountLedger` | the abstract promise of the account: per symbol a holding and the money paid |
| `PaperAccount` | `execution/paper.py`; implements `AccountLedger` |
| `BotEngine` | the loop, the control plane, the worker, the books and the tables |
| `RiskWall` | the wall with the portfolio limits |
| `LiveVenue` | the live adapter, its retries and breaker, and the venue behind them |
| `PaperBook` | the trades of one strategy beside the account: bands, funding clock, snapshots, restart |
| `StrategyLifecycle` | commands, jobs and the loop's pause as overlapping transactions on one strategy |
| `TelegramControl` | the chat poller, its confirmations and transactions |
| `BarSeries`, `MarketSync` | series of bars with their gaps; two processes that sync one of them |
| `LiquidationCollector`, `OpenInterestPoll` | the stream of liquidations and its fold into minutes; the poll |
| `Universe` | builds of the dated universe, over midnight and at the same time |
| `BacktestEngine` | the bar loop of a backtest and its money |
| `ResearchJobs` | backtests and scans through the queue, with the ledger of trials |
| `Sizing`, `Slippage`, `Portfolio`, `Rules`, `TrackRecord`, `LimitEntry` | operators: sizes and capacity; learned slippage; weights, netting, attribution; the rule grammar; records of trades, gate and degradation; the limit router |
| `WalkForward`, `Discovery`, `Metrics` | operators: windows, survival, re-optimization, deflation gate; the stages of a scan; a run's measures and the PBO |
| `IndicatorRegistry`, `AlphaSeries` | operators: registry, parameters, cache, plugins; the project's own indicators |
| `PaperAccountProofs`, `BotEngineProofs`, `RiskWallProofs`, `LiveVenueProofs` | theorems about the module of that name, for any constants; `RiskWallProofs` also about the operators of `Portfolio` |
| `BookProofs`, `CommandProofs`, `MarketDataProofs` | theorems about the two books (`PaperBook`, `BacktestEngine`), their signals (`Rules`, `AlphaSeries`) and `Sizing`; about what is asked for (`StrategyLifecycle`, `TelegramControl`, `ResearchJobs`); about the data (`Universe`, `LiquidationCollector`, `MarketSync`, `OpenInterestPoll`) |
| `FiniteTheorems` | what those proofs share: sums, counts and extremes of finite sets |
| `MCPaperAccount`, `MCBotEngine`, `MCRiskWall`, `MCLiveVenue`, `MCPipeline` | instances for TLC |
| `MCAlgorithms`, `MCMeasures` | what is expected of the modules of operators, as assumptions over bounded inputs |

Definitions keep the code's names where they can: `effective_mode`,
`should_trade`, `is_engaged`, `PlaceOrder`, `AccrueFunding`,
`RegisterTradeResult`. The operators named `X_Something` beside an `X` are
mutated forms: each states a plausible mistake in the code of `X`, and for every
property there is one that makes TLC refute it.

**PaperAccount.** Money and prices are integers and rates are basis points, as
in the code; products with a rate round down. A position is `size` (side times
quantity) and `cost` (quantity times average entry), so that averaging in is
exact and a reduction rounds, where the code rounds to a double. `PlaceOrder` is
`place_order` with the netting of `_apply_fill` (open, add, reduce, close,
reverse), `Mark` and `AccrueFunding` the other two operations of the loop.
`reported` and `commission` are history: what the returned fills add up to.

**BotEngine.** `globalMode`, `stratMode`, `active`, `status`, `engaged` and
`gate` are the control plane as committed; one action per operator command. The
process is `loop`: `down`, `idle`, `dead`, or a stage of a tick. A tick reads in the order
of the code, with an await after each: `TickBegin` the global switch (`globalRead`),
`CheckWall` the live wall, `ListStrategies` the rows of the strategies (`listed`),
`ReadVersion` one version after the other, which the regime lock may hold back; `TickAborts`
is a statement refused on the way. `todo` is the rest of the tick's list, `processed`,
`killHandled` and `armed` the memory of the process; `book` holds the net positions of
the paper adapter and of the venue. `session` is the open trades as the tick's
transaction sees them, `committed` as the database has them, and `broken` says that the
transaction takes no more statements. One strategy's `_evaluate` is one step (its awaits are
database calls of the tick's own transaction), the steps of different strategies
interleave with everything else in any order, since `_load_active` orders by nothing. `Crash` may strike
between any two, `DbFails` and `FillUnrecorded` fail the transaction before and
right after a fill, `KillSeenAndRefused` fails the handling of the switch, and
`RehydrateFails` is the swallowed exception at start. `NewBar` adds a bar, and `BarsLost`
moves the last one back: two writers of the data store may overlap and lose the newest bars
until the next sync (`MarketSync`). `KillVerdict` is the
drawdown verdict of the wall with `_trigger_kill`, including its commit in the
middle of the tick; in `KillVerdictRefused` the file is written and a statement after
it, or that commit, is refused, with the flag set or not. What a bar signals and the other verdicts of the wall are
choices. History: `unsaved` and `astray` are fills not yet committed, and books
whose fills and rows are known to have parted (a row lost after its fill); `wasLive` is the
switches that have been on live since the tick began; `acted` the versions and bars
this process has acted on, and `rewound` the symbols that lost bars since it began.

**RiskWall.** One action per outcome of a decision, in the order of the code:
`AsksKill`, `PortfolioRejects`, `DailyLossHalts`, `LimitRejects`, `Opens`,
`SubmitClose`, and the world around it: `Market` moves equity and notionals,
`Hour` the clock. A wall is built again (`Rebuild`) in two ways. `Rearm` is the live wall:
the account is at the venue and stays. `Restart` is the worker with a paper account,
which `rehydrate` makes from the open trades, one position for each; `trades` is the sides
that have an open trade on a symbol, so that a symbol whose trades had cancelled
out may be held again. `restored` is history: the symbols held after the last restart.
The adapter may refuse an approved order; a filled one moves the position by its notional
at the reference price, at which the code asks too (slippage comes on top).
The price guard is left out since the bot passes the reference price as the last
price (`bot/engine.py:431-433`) and it can reject nothing; leverage enters the size only.

**LiveVenue.** `place_order` is a chain of calls, and `stage` is the call it is in:
`Needed` reads off the adapter's memory (`marketsLoaded`, `onewaySet`, `cached`) which is
next. Each call is one action per outcome of an attempt: answered, refused
(`Raises`, tolerated when nothing needed changing), unreachable, or answered in vain
(`ConfigAnswerLost`, `OrderAnswerLost`: the effect without the answer). The last two
are transient errors and go through `RetryOrFail`. Time passes between any two
attempts, and `Rearm`, a new adapter, may replace the process in any of them. The
adapter's code is synchronous: nothing else of the process interleaves. The trades table
is `rows`, as the tick's session sees it, and `saved`, as it is committed: a fill is booked
in the first, and `Commit` or `Rollback` of the tick comes later. `Rearm` seeds the mirror
from `saved`, as `_ensure_live_wall` and `rehydrate` do. The reads of
a decision are folded into `SubmitOpen` and `SubmitClose`: the balance must be read,
which closes the breaker, and up to three position reads may fail after it, which
the wall takes for an empty book. The venue (`pos`, `oneWay`, `isolated`,
`venueLeverage`, `Executable`) is external: a reduce-only order closes at most the
position it is against, market orders fill in full, in part or not at all, and the
account may have been left in any mode. `doubtful` is history: the symbols where the
venue executed an order whose answer was lost, or reported nothing or a part of a
close as filled, which the bot books in full, or where a mirror was seeded without a fill
whose row was rolled back; `astray` is those rows before that. `run`, `outage` and `trial` are the
failures as seen from outside the breaker.

**PaperBook.** The account is `PaperAccount` with one symbol (`INSTANCE ... WITH`). A tick
is cut where it touches both stores: `Evaluate` marks the bar, `Accrue` charges one
settlement, `Open` and `Close` fill and book, `Commit` writes trades and snapshot,
`Rollback` takes back the rows only. `Restart` is `rehydrate`: positions at entry, cash
from the snapshot's equity. `credited`, `adrift` and `watched` are history: unrealized
profit that became cash, a fill rolled back out of the trades, and a trade opened by
this process in this version. The module is about one strategy: that the kill verdict of
another commits its rows in the middle of a tick (`bot/engine.py:656`) is `BotEngine`'s.

**StrategyLifecycle.** A transaction loads (`BeginX`), may take a version number, and
commits: SQLAlchemy writes the columns that were set to another value than the one
loaded (`Written`), so a later commit wins column by column and a value that was
loaded already is not written. `BeginDegrade` is the trading loop, `BeginScheduled` the
weekly job, `BeginRegenerate` the operator's request or the job a degradation queued.

**TelegramControl.** `offset`, `batch` and `pending` die with the process; the server
forgets updates below the offset it is asked with. The kill file and the question change
before the commit of the command, the switch and the audit row with it.

**BarSeries, MarketSync.** Times are in bars and bar `t` is closed when `now > t`. A job is
a program counter over pages, read, write, gaps and row; a stored bar is `TRUE` when it was
closed at the fetch. `overtaken` and `stale` are history: whether another job wrote during
a run, and whether the file changed after the last run that reported it undisturbed.

**LiquidationCollector.** `loop` is where the coroutine is: at a wait for a message, at a
flush, in the pause before a reconnect. The clock may move in every one of these states:
between `is_due` and the computation of the time-out, which read it twice, and through a flush,
which is a database await of any length. `late` is history: for how long an event of
the buffer has waited while the loop was held up (`HeldUp`). After a reconnect the
stream may repeat the last event.

**ResearchJobs.** The queue is external: a job whose worker dies is tried again up to
`MaxTries`, one that takes too long is cancelled, which no handler of `Exception` sees, and
one that ended with an exception is not tried again. That is how a refused commit ends it:
`BeginRefused` is the first one, which leaves the row queued, and `CommitRefused` the last, which leaves
it running with its trials rolled back and the artifact on disk.

**The operators and `Allows...`.** The pure algorithms are operators on integers (weights,
rates and scores are percent or basis points, rounded where the code rounds to a double)
and are checked in `MCAlgorithms` and `MCMeasures` against what is expected of them, over
bounded inputs. These expectations are ASSUMEs, which TLC evaluates before the
run `pipeline`. One whose name begins with `Allows` gives an input on which the code does
what its reader might not expect; section 3 has the list.

## 3. What the runs check

Bounds are constants of the configurations; every counter that would grow without
end has one in its guard (`MaxOrders`, `MaxFunding`, `MaxBars`, `MaxControls`,
`MaxFaults`, `MaxReads`, `Horizon`, `MaxNotional`, `MaxStreak`, `MaxRebuilds`).

`paper_account` - four orders of one or two units at two prices 4% apart, on one
symbol, with funding of both signs. Four orders are what it takes to open, add,
reduce and reverse; symbols do not interact in the account except in sums.
* `ImplementsLedger`: refinement of the plain ledger.
* `CashIsBooked`: what the trades add up to is what the account holds.
* `EntryWithinFills`: no average entry outside the prices ever filled, none
  carried over a flat position.
* `OrdersOnlyCost`: an order alone never raises the worth of the account.

`bot_engine` - two strategies, one live and one on paper, on a symbol each; a second
version of one that can be edited in, proposed and approved, and is labelled so
that the regime lock may hold it back; two bars for one symbol (open, then
close, or a restart in between) and one for the other; one operator command and one
fault, which may be a loss of bars. Each property needs at most one command against a tick, or one fault
against a fill; the other positions of the switches are what the command reaches.
* `OneOpenTrade`, `BooksMatchTrades`, `UnapprovedNeverTrades`: safety, see section 1.
* `LiveIsEarned`: an order at the venue is of a tick with a standing wall, and of a strategy
  whose own switch and the global one have each been on live since the tick began. Not
  together: `bot/mode.py:4-5` says that "a global Paper setting keeps every strategy out of
  Live", but the two are read at different times (`bot/engine.py:183`, `311`), and when
  the global switch goes to paper and the strategy's to live in between, the order is live.
* `OncePerBar`: a fill is the evaluation of a version on a bar it has not acted on in this
  process, whatever fails in between, unless the symbol lost bars meanwhile: the code asks
  whether the last bar equals the one it marked (`bot/engine.py:403`), and acts again on
  the bar before a lost one, and on the lost one once it is back.
* `KillComesToRest` (the tick under way is the last, and the switch is handled or cleared),
  `BarsAreActedOn`: liveness. The first does not ask that an engagement is answered by a
  cancellation of its own: the flag is cleared by a tick only, so a switch that was cleared and
  engaged again before the next tick counts as handled (`bot/engine.py:181`, `645`).

`risk_wall` - two symbols of which one may be held, a day of two hours and the first of
the next, a streak of two among three losses, a cooldown of an hour, equities that stand over the daily loss, over
the portfolio's and over the drawdown ceiling, one new wall or restart. The portfolio's daily
loss is set to 5% (it is a setting of the environment, `core/config.py`), so that
the strategy wall's 3% can be reached; `wall_day` has both at their defaults.
* `PositionsBounded`: no more symbols are held than the limit allows, or than the last
  restart gave back. The limit alone does not survive one ("so limits survive a restart",
  `bot/engine.py:136`): a symbol on which two strategies had cancelled each other out is
  held again after it.
* `KillExactlyAtDrawdown`, `HaltHolds`, `CooldownHolds`: as long as the wall lives;
  `OpenedWithinPortfolio`: asked at the reference price, as the code does.

`live_venue` - two orders over two symbols (an open and a close of one, or two opens),
of two units so that fills may be partial, two leverages, one retry, a breaker of three
failures, so that the failed reads of one decision may open it, up to four failed
reads in a row, a cooldown of one instant of two, and one restart. A stale cache needs
one earlier order, a turned position one open and a close executed twice.
* `OpensIsolatedOneWay`, `ClosesNeverReverse`, `ShieldsOutage`: safety, see section 1.
* `MirrorMatchesVenue`: outside of `doubtful`, the mirror is what the venue holds, and the
  rows are unless the fill was rolled back.
* `OrderResolves`: liveness; `place_order` returns without waiting for the breaker's
  clock (a retry does sleep, and holds up the whole process for that long).

`pipeline` - the nine stateful modules of this side of the system. They share no
state, so the instance picks one in its initial state (`part`) and explores the sum of the
nine. Bounds: four bars with one the venue never has, pages of two, one backfill of the
operator and one fault against the cron (a lost write needs no more, and a torn
file one); three events, a batch of three or two seconds, one lost connection
or failed flush; two builders over three days in which one market leaves the eligible and
one enters; two clients, three versions and five transactions (two decisions that overlap
and a switch between them); three messages and two mishaps of the chat (a repeated
question, a failed handler, a restart); three bars, one lot and two mishaps of the book;
three bars of a backtest at two prices, with a market entry without exits and a limit entry
with stop and target; two scans of one family and a backtest, two tries each.
* `TypesOK`: the types of the nine.
* `ClosedBarsOnly`, `SyncedIsWhole`, `RowTellsTruth` and, as liveness, `EventuallyWhole`:
  the file and its row, whoever wrote in between. `SyncedIsWhole` excepts a backfill whose
  range begins after the last stored bar (`ReachesFile`): when the venue answers it with
  nothing, the bars between were never asked for, and the next cron fetches them.
* `HeardIsStoredSoon`: the deadline of a flush is not pushed on by messages. The bound is one
  `BatchSeconds` for an event that was never held up, and for the others twice that and the
  time the loop was held up: when the deadline passes between `is_due` and
  the computation of the time-out (`liquidations.py:276`, `267`), the 0.0 that means "due"
  is falsy, and `or batch_seconds` waits for a whole batch more.
* `NoHindsight`: a snapshot says nothing its day did not know.
* `DecidedOnce`, `ApprovedPapersFirst`, `OnlyCommandsSwitchOn`: approvals and switches
  under overlapping transactions. Two decisions in flight together can both go through
  (`contested`): the code takes no lock, and the property says that this is the only way.
* `EveryCommandIsAudited`: no update is skipped but one whose own handling failed.
* `BookAddsUp`: cash is what the trades say, but for profit that a restart counted as cash
  (`credited`); a settlement is charged once by a process, and none since the entry is
  missed. Two faults are within it: that profit (`bot/engine.py:153`) and settlements
  from before the entry (`bot/engine.py:775`). `StopIsHonoured`: while the process and the version of the entry last.
* `EquityIsItsTrades`: curve, totals and trades of a backtest are the same money.
* `KeepsLedger`: a backtest keeps the plain ledger that the paper account implements
  ("Cash accounting mirrors the backtest engine exactly", `execution/paper.py:5`).
* `JobsAreAccounted`: a settled scan shows one attempt, which counted every
  trial committed before it began; a row that stays queued or running is of a job that was
  never queued, was cancelled or tried too often, or ended on a refused commit.

Deadlock is not checked for `bot_engine`, `live_venue` and `pipeline`: their instances stop
when bars and commands, orders and time, or whatever else is bounded, are used up. `paper_account` and `risk_wall` can always make a step.

### Statements of the code that do not hold

Each of these runs checks one sentence of a comment or a docstring, and TLC finds
a behaviour of the code against it (`PROJECT.json`, "findings", has the lines).

* `bot_shared` / `ClosesLowerRisk`: "Closing/reducing an existing position is
  always allowed (it lowers risk)". A closing order trades the whole netted
  position away from the side of its own trade. Alpha is long 1, beta short 2,
  net short 1: alpha's close sells 1 more.
* `bot_kill` / `HandledKillStopsOrders`: "Engaging cancels open orders and closes the
  new-order path". The drawdown verdict engages and handles the switch in the
  middle of a tick, and the tick goes on with its next strategies.
* `bot_clear` / `ClearedBotResumes`: "Clear the kill switch so the bot may
  resume". A failed commit while the switch is handled ends the loop task.
* `wall_day` / `DailyLossEndsTheDay`: "halt for the rest of the UTC day". With both
  limits at 3% the portfolio's answers first and latches nothing.
* `wall_restart` / `CooldownSurvivesRestart`: "Rehydrate risk state on bot restart so
  limits survive a 72h run". Only the peak is seeded.
* `live_halfopen` / `HalfOpenAllowsOneTrial`: "half-open (one trial allowed)". A
  failed trial does not move `opened_at`: after the first cooldown a lasting outage
  is no longer shielded at all.
* `live_leverage` / `OpensAtApprovedLeverage`: "Leverage is whatever the risk wall
  approved". A `set_leverage` that took effect without an answer leaves the cache at the
  old value, and an order at that value opens at the new one.

### What the operators show

Each of the following is an `Allows...` assumption, or the assumption or action named.
* `AllowsStaleAtTheBot`: both processes load the plugins when they start (`main.py:24`,
  `workers/main.py:44`), but the operator's reload (`api/strategies.py:395`) reaches the API
  alone; a rule it accepts from then on is unknown to the bot and to queued backtests
  until the worker restarts.
* `AllowsIdenticalConfigsPass`: `research/deflation.py:180-181` says "identical configs read
  as median"; ties rank highest, so the PBO of copies is 0, the best there is.
* `AllowsGhostRow`: `indicators/persistence.py:20` says the table reflects the registry; the
  rows of removed indicators stay.
* `AllowsStaleSeries`: a cached indicator is fresh by its length and last stamp.
* `AllowsLostLimit`, `AllowsStaleFallback`: a limit order without a client id may take the
  key of another; a market order after a time-out without a price uses the posting's.
* `AllowsFirstChangeExtreme`, `AllowsNegativeLookback`: the first change of a series is an
  extreme; a slope with a negative lookback reads bars to come, and nothing refuses it.
* `PnlIsHandedOut` (in `MCAlgorithms`, and for any legs in `RiskWallProofs`): `portfolio/netting.py:74`
  says of a complete hedge that the gross share is used and the total is the pnl; the signed
  shares of it add up to 0.
* `AllowsClonesTwoCaps`, `GateTakesBoth`: two clones get twice the cap of one, and the
  correlation gate sets both to nothing.
* `AllowsIdleOutscoring`, `AllowsOrderOfConfigs`, `AllowsLosingFold`, `AllowsLosingReopt`:
  a run without trades outscores a profitable one with a drawdown; equal winners in sample
  are told apart by their order; a survivor may have lost money in a fold, and a
  re-optimized genome in all of them.
* `AllowsUnreadBucket`: a bucket that costs more than assumed may be one the backtest,
  which asks for one size of order, never reads.
* `AllowsColumnsAlike`, `AllowsDefaultOutside`, `AllowsTemplateWithoutRule`: names that are
  told apart by a number may collide with one that has it; a default may lie outside of
  its search range; one suggested rule ("midline_cross") is not in the grammar.

Seen while modelling, and stated by an action or a history variable:
* `PaperBook`: `_last_funding_ts` starts at 0 and moves only while a position is held, so the
  first bar of a position charges settlements from before it. `bot/engine.py:153` says
  "cash == equity here", which an open position makes untrue (`credited`). After a rollback
  the account may hold nothing to close, and the close is refused (`Close`).
* `StrategyLifecycle`: two proposals may take one number; an approval which loaded the mode
  "paper" writes no mode, so an operator's switch in between stands (`switched`); an edit
  of a live strategy puts its candidate on the live list at once.
* `TelegramControl`: "kill confirm" or "/mode live confirm" in one message skips the question;
  a refusal of the gate leaves the question pending.
* `ResearchJobs`: a request whose enqueue failed stays "queued", a cancelled job or one whose
  last commit was refused "running" (`discovery/service.py:43` says that the row is updated,
  "done | failed"), and an attempt that is run again adds its trials a second time.
* `WalkForward`: training and test windows share the bar between them; without a train window
  the re-optimization tunes on the whole span, its folds included.
* `BacktestEngine`: a liquidation fills at its level although the bar gapped past it.
* `LiquidationCollector`: the fold begins inside a minute and writes a partial bucket over a
  complete one.

## 4. Fairness

`Fairness` of `BotEngine` is weak fairness of starting the process (the container is
restarted when it stops), of the poll that sees an engaged switch, of the
start of a tick, of each of its reads, of the evaluation of the strategies on its list, and of its end:
the event loop keeps scheduling the task of the loop, and `run` polls every half
second for ever. Nothing is assumed of operators, the market, faults or crashes,
and a loop whose task has died (`dead`) has no fair action: nothing restarts a
task. `BarsAreActedOn` excludes it, `ClearedBotResumes` shows it.

`FairSpec` of `LiveVenue` is weak fairness of `Call`: a synchronous function that has been
called runs on, and every request of the client library returns or raises (it has a
time-out). Nothing is assumed of the clock, so that an order which waits for a
cooldown would be found.

`Fairness` of `MarketSync` is weak fairness of the cron's start and of every step of a job
that runs: the cron comes back every five minutes, a request returns or raises, and
the rest of a job is computation. Nothing is assumed of the operator, of the venue's bars
or of faults.

## 5. Proofs

Theorems hold for all constants under the modules' assumptions, which say no more
than the code does: prices, lots and limits are natural numbers or positive, the
active version of a strategy is its own, the set of symbols is finite (`PaperAccount`,
`RiskWall`), a threshold is positive and every leverage is (`LiveVenue`; a cached 0
stands for no entry); bars, rates, costs and settings are numbers of the kind their names
say (`BookConstants`, `BacktestConstants`, `SyncAssumption`, `LiqAssumption`), and bounds
are natural (`JobsAssumption`, `UniverseAssumption`, `ChatAssumption`).
`StrategyLifecycle` needs nothing of its constants, and `OpenInterestPoll`, of which the
run and the proofs make an instance, has its hypotheses in the theorem. Every module with an
assumption is extended by the instance of a run, so TLC evaluates it on the values given.

*Sums and extremes.* The account's cash and the portfolio's notional are folds over sets,
the first and the last stored bar a choice. A fold has no closed form, and its
theorems go by induction over finite sets: not by the library's induction rule, whose
parameter is an operator, but by its well-founded order of strict subsets: take a
smallest set for which the claim fails and remove one element (`FiniteTheorems`).

*PaperAccount.* `AccountInv` is inductive: the types, with `FlatHasNoCost` (a flat
symbol carries no cost), which the type of the cost after a reversal and the
refinement need. `AccountImplementsLedger` maps every action to `Execute`, to
`Settle` or to a stutter; its core is `NettingKeepsPaid`: sign times cost minus
reported profit moves by quantity times price, whichever case of the netting.

`TradingOnlyCosts` follows from the same fact: what an order leaves is the old
worth, less the commission, less the slippage on the quantity. `EntriesAreFillable` adds
to `AccountInv` that a cost lies between two multiples of the quantity; a reduction rounds
down, and `ShareBetween` says that rounding does not leave the interval. `AccountIsBooked`:
the cash is a sum over symbols, an action moves the terms of one symbol, and
`AccountInv` says by how much.

*BotEngine.* `BotTypeCorrect` goes action by action. `OneTradeOpen` rests on
`TradesInv`: at most one trade per book, strategy and symbol in both tables, and
trades labelled as their versions say - without the labels an edit could not be
told from another strategy's trade. `BooksMatch` rests on `Settled`: books and
symbols with no unsaved fill have the same rows in both tables, nothing is
unsaved outside a tick and a stopped process holds no positions; so a rollback
either restores what the book says or is known as astray, and a restart finds
in the committed rows what the book must be. `UnapprovedTradesNothing` adds that
the versions on the tick's list are approved, which no command takes back.
`LiveOrdersAreEarned` rests on `EarnedInv`: during a tick the watch (`wasLive`) covers what the
switches show, so it covers the global switch as the tick read it and the strategies' as it
listed them, however far apart; live items are only listed while the wall stands, and it
does not fall before the tick has ended.

`BarsAreTakenOnce` rests on `MarkedInTime`: while a symbol has lost no bars, the mark of a
version is not ahead of its last bar, and no bar it has acted on is ahead of its mark;
so a last bar that is not the one marked is a new one, and the test for equality
suffices.

*RiskWall.* `PositionsAreBounded` counts the held symbols over opens, closes,
repricing and restarts (`RestartType`, `RestoredType`): an order opens a symbol only below the
limit, and nothing else adds one. `OpenedIsWithinPortfolio` adds the notional of the symbol opened to the sum the
portfolio's check was made with. `KillIsExact` rests on `PeakIsHighest`: the peak is the highest equity a
decision met, or 0 when none did; a fall is monotone in its base, so testing the
peak tests all of them. `CooldownIsHeld` rests on `StreakCounted`: the counter is
the streak modulo its limit and the stored cooldown is the one the streak armed.
`HaltIsHeld` rests on the halted day being the last day the strategy limit reported.

*LiveVenue.* `LiveInv` is inductive and has four parts beside the types. `SetUp`: a
flag or a cache entry of the adapter implies what it stands for at the venue, and an
order in the create call has an isolated symbol; it survives restarts because they
forget, and lost answers because the venue's set-up is only added to. `Intent`: the
order in progress is a close exactly when its symbol has a row, and of the whole
position unless that is in doubt; it ties what is executed to what is booked.
`MirrorMatchesVenue` includes the rows, committed and not, since a new adapter makes its
mirror from the committed ones: what was rolled back is astray, and doubtful from then on.
`BreakerCounts` identifies the breaker's counter with the failures seen from outside.
`ClosesOnlyLower` needs `Intent` and no more of the books: reduce-only holds against
whatever position is there. `OrdersAdvance` proves the safety half of `OrderResolves`: every
step of an order while the clock stands comes nearer to its end, by the calls it has ahead
(five at most) and the attempts of the present one. That such a step can always be
made, and is, stays with TLC.

*PaperBook.* `BookInv` is inductive. `Money`: the account holds the open trade and
nothing else, so that an entry realizes nothing and an exit leaves nothing; cash is what
the trades say, and the saved snapshot balances in the same way, since a restart begins
with it. `Charged`: between the entry and the funding clock no settlement is missing,
because the earliest due is taken first, and the clock is read to its end before the bar
is decided on. `Stopped`: while the process and the version of the entry last, the
band is the entry's. All of it holds until a fill is rolled back out of the trades
(`adrift`); that a settlement is never charged twice by a process holds beyond, and so do the
types (`BookTypeCorrect`), for which what `PaperAccountProofs` says of netting is cited
through an instance: adrift, a close is of whatever the account holds.

*StrategyLifecycle.* `LifeInv` is inductive. `DecidedOnce` alone is not: it must say of
the transactions in flight what their loaded rows may no longer say. `Flying`: a
decision in flight loaded a pending version, and one whose version somebody decided on
since is of a contested version; a promotion or retirement was loaded of a version that
was approved, if it had to be. `Decided`: what is pending was not decided on. A commit is
taken apart into the rows (`RowsAfter`), the history (`HistoryAfter`), the other
transactions (`CommitKeepsFlying`) and the version it is about (`CommitDecides`).

*TelegramControl.* `ChatInv`: what is below the poller's offset or forgotten by the
server was handled, and so was what precedes an update of the batch and has left it;
the poller takes the first of the batch, so moving past it moves past nothing else.
`ChatTypeCorrect` needs it too: the updates are numbered without a hole, so the number of
the last is their number.

*BacktestEngine.* `BackInv`: at every moment of a bar, and not only between bars, cash is
the capital, the closed trades and what the open one cost and was paid (`Books`);
between bars the curve is cash and the open profit (`Marked`). `CloseKeeps` is shared by
exit, liquidation and the markout at the end. `BacktestTypeCorrect` is the conjunct of
`TypesOK`; the attempt found that its last part had been stated too strongly: the
liquidation level of a short is rounded down, and with prices of a few units it is the
entry itself, which the prices of the run are too large to show.

*The same ledger.* `AccountImplementsLedger` and `BacktestKeepsLedger` prove the two books
to implement one `AccountLedger`: every fill moves a holding by its signed quantity and
what was paid by quantity times price, everything else is a charge or a settlement. And
they are valued the same way, at the ledger's profit less the charges
(`PaperIsValuedByLedger`, `CurveIsValuedByLedger`). `BacktestKeepsLedger` has one
hypothesis beside the assumptions, `SlipsWithinPrice`: slippage of more than the whole
price would make a seller pay. `backtest/config.py` does not bound it.

*No look-ahead.* "The signal at bar t depends only on bars up to t"
(`indicators/signals.py:7`). `UpTo` cuts a series after a bar. `SignalsLookBack`: the rules
signal the same on cut operands, clause by clause; it needs every slope to look back, which
no code asks for (`AllowsNegativeLookback`), and known operands, which the code checks.
`BotSignalsAsBacktest` follows the cut through the naming of the operands, and says that
the bot, whose bars end at the one just closed, decides what a backtest over any later bars
decides of it, if the indicators look back as well. `IndicatorsLookBack` proves that of the
four the project brings itself, as their files promise; those of the libraries are not
modelled. A rolling sum over a window is a fold, so this uses the sums of `FiniteTheorems`.

*Sizing.* Nothing but division that rounds down (`RoundedDown`): the size wanted and the
cap of the margin are each the largest whole number within their bound, and the size is the
lower of them (`SizeIsCovered`). `LiquidationLoses` is why a stop-out is never a gain.

*Portfolio.* Sums over legs again. A leg's size is its signed amount and twice what it
holds against the net, so `NettingSaves` is that a sum of such is not negative; legs
grouped by their strategy are the same legs (`TotalByLabel`), which is `HoldingsAddUp`;
and shares that are rounded down fall short by less than one each (`SharesFallShort`), which
is `PnlIsHandedOut`, for a net position of either side. `SharesOfTheWhole` and `GateNeverRewards` say
that weights and factors stay between 0 and 100 and are ordered as they should be.

*ResearchJobs.* `JobsInv` adds to the types that the ledger is finite, and for every request
where it stands between queue, attempt and row (`JobPhase`): an attempt that runs still
has its job, what it wrote is its own, it has read no fewer trials than there were
when it began, and one that has ended has said so in its row unless a commit was refused. Trials are only added, which is why a later one does not spoil this.

*Universe.* `UniverseInv` orders the days of a build in flight (`BuildOrder`): its volumes are
fetched after it began, and what it is filed under is read after them; so midnight may pass
anywhere in a build, and the snapshot knows no more than its day.

*LiquidationCollector.* `LiqInv` adds `DeadlineHolds`, which says what `HeardIsStoredSoon`
cannot. An event that is neither stored nor lost was heard after the last flush, and the
time it has waited without being held up (`Used`) is what it is allowed (`Allowed`): one batch,
or two once the loop was held up past the deadline; the timer of the wait for a message ends
within that, whatever messages came since (`Waiting`).

*MarketSync.* Three layers. `SyncInv`: the types, nothing left over in an idle job,
and every bar fetched or stored was closed, whence `ClosedBarsOnly`. `RowInv` follows the
report of the row from the read of the file to its commit: a job that nobody overtook
commits what the file says. `WholeInv` is what a run left alone keeps: every bar of its
span is stored, fetched, still to come, in a gap on its list, or not listed.
`SyncedIsWhole` is this at the end of a run, when nothing is to come and no gap is left
(`GapsAreTheHoles`: the gaps found are the holes of the file). By itself it is far from
inductive, and the attempt found that it had been stated too strongly: with pages of two, a
backfill of one bar back and a venue without the bars it asked for, the bars between
the file and the range are missing at the end of a run that did nothing wrong. The instance
of the run is too short to show it; `ReachesFile` states the exception. `RunsAreBounded` is
the safety half of the run's end: a step of a job comes nearer to it, by legs left, gaps
left and pages left, and the gaps it lists are finitely many.

Checked by TLC only:
* the liveness properties under their fairness, which are out of this prover's reach:
  `KillComesToRest`, `BarsAreActedOn`, `OrderResolves`, `EventuallyWhole` (of the last two the
  steps are proved to advance, not that they are taken);
* `TypesOK` as a conjunction over the modules of `pipeline`: each of its parts is proved,
  by a theorem or as a conjunct of a proved invariant;
* what is said of the other modules of operators, as assumptions over bounded inputs.

## 6. What is left out

*Of the loop and the venue.* The rows that nothing reads back into a decision (orders,
signals, decision traces, audit, slippage observations), notifications, and the numbers behind a
signal: `BotEngine` chooses them, `Rules` and `TrackRecord` compute them. PnL attribution of
a shared close is `Portfolio`'s operator and not joined to the book. The venue of
`BotEngine` always answers and fills in full: its faults are `LiveVenue`'s, where in turn a
symbol has one strategy and prices are left out. Cancelling resting orders is not
modelled: market orders do not rest. Two workers at once are not modelled: the deployment
runs one.

*Of the rest.* Parsing of venue payloads, DuckDB queries, reports and artifacts' formats; the
formulas of TA-Lib and pandas-ta; the deflated Sharpe ratio and Optuna's sampling,
which are real-valued; the second-resolution replay of finalists; secrets, settings,
logging; the frontend and the deployment. Volatilities, correlations and returns are
inputs of `Portfolio` and `TrackRecord` as integers, so that rounding at
double precision is out of sight.

## 7. What could follow

1. Theorems about the other operators (`Slippage`, `TrackRecord`, `WalkForward`,
   `LimitEntry`), so far assumptions over bounded inputs.
2. Failed reads in `RiskWall` (an empty book passes the limits); trades whose position is
   gone at the venue.

Runs are kept to a few minutes by two actors of each kind and three or four steps of
each; modules to be proved about use no recursion.
