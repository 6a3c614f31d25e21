----------------------------- MODULE MarketSync -----------------------------
(***************************************************************************)
(* The sync of one series of bars (backend/app/data/sync.py) into its      *)
(* Parquet file (parquet_store.py) and its row in candle_sync_state, by    *)
(* jobs of two processes: the worker, whose five-minute cron comes back    *)
(* for ever, and the operator's command line (data/cli.py).                *)
(*                                                                         *)
(* A job fetches its range page by page, merges it into the file, fetches  *)
(* the gaps the file then has, one by one, and writes the row.  Reading,   *)
(* merging and writing the file over is one step of a process but two of   *)
(* the system: nothing locks the file.  Times are in bars: bar t is closed *)
(* when now > t.                                                           *)
(***************************************************************************)
EXTENDS BarSeries

CONSTANTS
  Cron,      \* the worker's job
  Cli,       \* the operator's job
  NoRow,     \* candle_sync_state has no row
  Limit,     \* ohlcv_fetch_limit, the size of a page
  Lookback,  \* months, in bars
  Unlisted,  \* the bars the venue never has
  Horizon,   \* bound: the last value of now
  MaxCli,    \* bound: backfills the operator starts
  MaxFaults  \* bound: failed requests and ends of a process

Jobs == {Cron, Cli}
Bars == 0..(Horizon - 1)

ASSUME SyncAssumption ==
  /\ Limit \in Nat \ {0} /\ Lookback \in Nat
  /\ Horizon \in Nat /\ MaxCli \in Nat /\ MaxFaults \in Nat
  /\ Unlisted \subseteq Bars
  /\ Cron # Cli

VARIABLES
  now,       \* the bar that is forming
  file,      \* the stored bars: TRUE for one that was closed when it was fetched
  torn,      \* its writer died in the middle: nothing can read the file
  row,       \* the row of candle_sync_state, or NoRow
  \* The jobs.
  pc,        \* idle, page, read, write, gaps, row, commit
  goal,      \* the end of the range a run was started for
  since,     \* the bar the next page begins with
  until,     \* the bar the range being fetched ends before
  got,       \* the rows fetched of that range
  merged,    \* the frame about to be written
  repairing, \* jobs which have listed the gaps
  todo,      \* the gaps they have still to fetch
  held,      \* the row about to be committed, with the one it is to replace
  \* Bounds.
  cliRuns, faults,
  \* History.
  overtaken, \* jobs in whose run another job wrote the file or the row
  stale      \* no run left alone has reported the file since it was written, or since
             \* an overtaken run reported what it had read

jobVars == <<pc, goal, since, until, got, merged, repairing, todo, held>>
vars == <<now, file, torn, row, jobVars, cliRuns, faults, overtaken, stale>>

Stored == DOMAIN file

Init ==
  /\ now = 0 /\ file = NoBars /\ torn = FALSE /\ row = NoRow
  /\ pc = [j \in Jobs |-> "idle"]
  /\ goal = [j \in Jobs |-> 0] /\ since = [j \in Jobs |-> 0] /\ until = [j \in Jobs |-> 0]
  /\ got = [j \in Jobs |-> NoBars] /\ merged = [j \in Jobs |-> NoBars]
  /\ repairing = {} /\ todo = [j \in Jobs |-> {}] /\ held = [j \in Jobs |-> NoRow]
  /\ cliRuns = 0 /\ faults = 0 /\ overtaken = {} /\ stale = FALSE

BarCloses ==
  /\ now < Horizon
  /\ now' = now + 1
  /\ UNCHANGED <<file, torn, row, jobVars, cliRuns, faults, overtaken, stale>>

(***************************************************************************)
(* Fetching a range.                                                       *)
(***************************************************************************)

\* A page of klines: the first Limit bars from `from` on, the forming one included.
KlinesFrom(from) == {t \in from..now : t \in Bars \ Unlisted}
KlinePage(from) ==
  {t \in KlinesFrom(from) : Cardinality({u \in KlinesFrom(from) : u < t}) < Limit}

\* Go on with fetching [from, to), or with `next` when there is nothing in it.
Fetch(j, from, to, next) ==
  /\ pc' = [pc EXCEPT ![j] = IF from < to THEN "page" ELSE next]
  /\ since' = [since EXCEPT ![j] = IF from < to THEN from ELSE 0]
  /\ until' = [until EXCEPT ![j] = IF from < to THEN to ELSE 0]

Until_Forming == ClosedUntil(now, 1) + 1

Until == ClosedUntil(now, 1)

IncrementalSince_Skips ==
  IF Stored # {} THEN LastBar(Stored) + 2 ELSE Max({0, Until - Limit})

\* Where an incremental sync and a backfill begin.
IncrementalSince ==
  IF Stored # {} THEN LastBar(Stored) + 1 ELSE Max({0, Until - Limit})
BackfillFrom(moment) == Max({0, moment - Lookback})

Begin(j, from) ==
  /\ pc[j] = "idle"
  /\ goal' = [goal EXCEPT ![j] = Until]
  /\ Fetch(j, from, Until, "gaps")
  /\ overtaken' = overtaken \ {j}
  /\ UNCHANGED <<now, file, torn, row, got, merged, repairing, todo, held, faults, stale>>

\* incremental_ohlcv reads the file before anything else, and fails on a torn one.
StartCron == ~torn /\ Begin(Cron, IncrementalSince) /\ UNCHANGED cliRuns

StartCli ==
  /\ cliRuns < MaxCli
  /\ cliRuns' = cliRuns + 1
  /\ Begin(Cli, BackfillFrom(now))

\* The next page begins after the last bar of this one; an empty page ends the range.
NextSince(batch) == LastBar(batch) + 1

FetchPage(j) ==
  /\ pc[j] = "page"
  /\ LET batch == {t \in KlinePage(since[j]) : t < until[j]}
         rows  == Merge(got[j], [t \in batch |-> t < now])
         more  == batch # {} /\ NextSince(batch) < until[j]
     IN /\ got' = [got EXCEPT ![j] = rows]
        /\ since' = [since EXCEPT ![j] = IF more THEN NextSince(batch) ELSE 0]
        /\ until' = [until EXCEPT ![j] = IF more THEN @ ELSE 0]
        /\ pc' = [pc EXCEPT ![j] = IF more THEN "page"
                                   ELSE IF DOMAIN rows # {} THEN "read" ELSE "gaps"]
  /\ UNCHANGED <<now, file, torn, row, goal, merged, repairing, todo, held, cliRuns, faults,
                 overtaken, stale>>

(***************************************************************************)
(* Storing it.                                                             *)
(***************************************************************************)

\* _merge_write: read and merge ...
ReadFile(j) ==
  /\ pc[j] = "read" /\ ~torn
  /\ merged' = [merged EXCEPT ![j] = Merge(file, got[j])]
  /\ got' = [got EXCEPT ![j] = NoBars]
  /\ pc' = [pc EXCEPT ![j] = "write"]
  /\ UNCHANGED <<now, file, torn, row, goal, since, until, repairing, todo, held, cliRuns, faults,
                 overtaken, stale>>

Others(j) == {k \in Jobs \ {j} : pc[k] # "idle"}

\* ... and write over whatever is there by now.
WriteFile(j) ==
  /\ pc[j] = "write"
  /\ file' = merged[j]
  /\ torn' = FALSE
  /\ merged' = [merged EXCEPT ![j] = NoBars]
  /\ pc' = [pc EXCEPT ![j] = "gaps"]
  /\ overtaken' = overtaken \cup Others(j)
  /\ stale' = TRUE
  /\ UNCHANGED <<now, row, goal, since, until, got, repairing, todo, held, cliRuns, faults>>

(***************************************************************************)
(* Repairing the gaps, and the row.                                        *)
(***************************************************************************)

\* repair_ohlcv_gaps lists the gaps once and fetches them in their order.
Gaps(j) == IF j \in repairing THEN todo[j] ELSE FindGaps(Stored, 1)
Foremost(g, gaps) == g \in gaps /\ \A h \in gaps : g[1] <= h[1]

GapEnd_Short(g) == g[2]

GapEnd(g) == g[2] + 1

RepairGap(j) ==
  /\ pc[j] = "gaps" /\ ~torn
  /\ \E g \in Gaps(j) :
       /\ Foremost(g, Gaps(j))
       /\ Fetch(j, g[1], GapEnd(g), "gaps")
       /\ todo' = [todo EXCEPT ![j] = Gaps(j) \ {g}]
  /\ repairing' = repairing \cup {j}
  /\ UNCHANGED <<now, file, torn, row, goal, got, merged, held, cliRuns, faults, overtaken, stale>>

GapsRepaired(j) ==
  /\ pc[j] = "gaps" /\ ~torn
  /\ Gaps(j) = {}
  /\ pc' = [pc EXCEPT ![j] = "row"]
  /\ repairing' = repairing \ {j}
  /\ UNCHANGED <<now, file, torn, row, goal, since, until, got, merged, todo, held, cliRuns, faults,
                 overtaken, stale>>

\* What update_sync_state reports of the file; 0 stands for no bar.
Report ==
  [first |-> IF Stored = {} THEN 0 ELSE FirstBar(Stored),
   last  |-> IF Stored = {} THEN 0 ELSE LastBar(Stored),
   gaps  |-> FindGaps(Stored, 1)]

ReadRow(j) ==
  /\ pc[j] = "row" /\ ~torn
  /\ held' = [held EXCEPT ![j] = [new |-> Report, old |-> row]]
  /\ pc' = [pc EXCEPT ![j] = "commit"]
  /\ UNCHANGED <<now, file, torn, row, goal, since, until, got, merged, repairing, todo, cliRuns,
                 faults, overtaken, stale>>

Updated_KeepsFirst(old, new) ==
  [f \in DOMAIN new |-> IF new[f] = old[f] \/ f = "first" THEN row[f] ELSE new[f]]

\* An UPDATE sets the columns that differ from what was read.
Updated(old, new) == [f \in DOMAIN new |-> IF new[f] = old[f] THEN row[f] ELSE new[f]]

CommitRow(j) ==
  /\ pc[j] = "commit"
  /\ held[j].old = NoRow => row = NoRow
  /\ row' = IF row = NoRow THEN held[j].new ELSE Updated(held[j].old, held[j].new)
  /\ held' = [held EXCEPT ![j] = NoRow]
  /\ pc' = [pc EXCEPT ![j] = "idle"]
  /\ goal' = [goal EXCEPT ![j] = 0]
  /\ overtaken' = (overtaken \cup Others(j)) \ {j}
  /\ stale' = (j \in overtaken)
  /\ UNCHANGED <<now, file, torn, since, until, got, merged, repairing, todo, cliRuns, faults>>

(***************************************************************************)
(* Failures.  An exception leaves the job; what it had is dropped.         *)
(***************************************************************************)

Dropped(j) ==
  /\ pc' = [pc EXCEPT ![j] = "idle"]
  /\ goal' = [goal EXCEPT ![j] = 0]
  /\ since' = [since EXCEPT ![j] = 0] /\ until' = [until EXCEPT ![j] = 0]
  /\ got' = [got EXCEPT ![j] = NoBars] /\ merged' = [merged EXCEPT ![j] = NoBars]
  /\ todo' = [todo EXCEPT ![j] = {}] /\ held' = [held EXCEPT ![j] = NoRow]
  /\ repairing' = repairing \ {j}
  /\ overtaken' = overtaken \ {j}
  /\ UNCHANGED <<now, file, row, cliRuns, stale>>

\* A request fails, or the process ends; in the middle of a write it tears the file.
Fails(j) ==
  /\ pc[j] # "idle"
  /\ faults < MaxFaults
  /\ faults' = faults + 1
  /\ \E t \in {torn, torn \/ pc[j] = "write"} : torn' = t
  /\ Dropped(j)

\* A torn file cannot be read, and the unique key refuses a second first row.
Raises(j) ==
  /\ \/ torn /\ pc[j] \in {"read", "gaps", "row"}
     \/ pc[j] = "commit" /\ held[j].old = NoRow /\ row # NoRow
  /\ Dropped(j)
  /\ UNCHANGED <<torn, faults>>

(***************************************************************************)
(* Specification.                                                          *)
(***************************************************************************)

Step(j) ==
  \/ FetchPage(j) \/ ReadFile(j) \/ WriteFile(j)
  \/ RepairGap(j) \/ GapsRepaired(j) \/ ReadRow(j) \/ CommitRow(j)
  \/ Raises(j)

Next ==
  \/ BarCloses \/ StartCron \/ StartCli
  \/ \E j \in Jobs : Step(j) \/ Fails(j)

\* A job that runs goes on, and the cron comes back; nobody else has to do anything.
Fairness == WF_vars(StartCron) /\ \A j \in Jobs : WF_vars(Step(j))

Spec == Init /\ [][Next]_vars /\ Fairness

(***************************************************************************)
(* Properties.                                                             *)
(***************************************************************************)

Rows(S) == UNION {[T -> BOOLEAN] : T \in SUBSET S}

TypeOK ==
  /\ now \in 0..Horizon
  /\ file \in Rows(Bars) /\ torn \in BOOLEAN
  /\ pc \in [Jobs -> {"idle", "page", "read", "write", "gaps", "row", "commit"}]
  /\ goal \in [Jobs -> 0..Horizon]
  /\ since \in [Jobs -> 0..Horizon] /\ until \in [Jobs -> 0..Horizon]
  /\ got \in [Jobs -> Rows(Bars)] /\ merged \in [Jobs -> Rows(Bars)]
  /\ repairing \subseteq Jobs /\ overtaken \subseteq Jobs /\ stale \in BOOLEAN
  /\ \A j \in Jobs : pc[j] = "page" => since[j] < until[j] /\ until[j] <= now

\* The lookahead guard: a bar is stored with the values it closed with, although time
\* passes between the start of a job, its pages and the repair of gaps.
ClosedBarsOnly == \A t \in Stored : file[t]

\* A run that no other job wrote into leaves no hole the venue could fill between the
\* first stored bar and the last bar that was closed when it started, wherever pages
\* end, whatever the venue lacks and whatever earlier runs left behind.  A backfill
\* reaches only so far back: one whose range begins after the file ends, and holds
\* nothing, has not asked for the bars between.
ReachesFile(j) == j = Cli => BackfillFrom(goal[j]) <= LastBar(Stored) + 1
SyncedIsWhole ==
  \A j \in Jobs :
    pc[j] = "row" /\ j \notin overtaken /\ Stored # {} /\ ReachesFile(j)
      => (FirstBar(Stored)..(goal[j] - 1)) \ Stored \subseteq Unlisted

\* The row that the status page shows reports the file: a run which failed after its
\* write, or was overtaken, can leave it wrong only until the next one is through.
RowTellsTruth == ~stale /\ row # NoRow => row = Report

\* A run ends after a bounded number of requests, although each of its fetches may be cut
\* into pages and be followed by a repair that fetches again: gaps are listed once and
\* each is asked for once, a page begins later than the one before, and no step goes
\* back, whatever another job does to the file meanwhile.
Leg(j) == IF pc[j] \in {"row", "commit"} THEN 2 ELSE IF j \in repairing THEN 1 ELSE 0
StageNo == [page |-> 1, read |-> 2, write |-> 3, gaps |-> 4, row |-> 5, commit |-> 6]
Advances(j) ==
  \/ pc'[j] = "idle"
  \/ Leg(j) < Leg(j)'
  \/ Leg(j)' = Leg(j) /\ todo'[j] \subseteq todo[j] /\ todo'[j] # todo[j]
  \/ /\ Leg(j)' = Leg(j) /\ todo'[j] = todo[j]
     /\ \/ StageNo[pc[j]] < StageNo[pc'[j]]
        \/ pc'[j] = pc[j] /\ since[j] < since'[j] /\ since'[j] < until[j] /\ until'[j] = until[j]
RunAdvances == [][\A j \in Jobs : Step(j) => Advances(j)]_vars

\* What lost writes and failed runs leave out between two stored bars or at the end
\* comes back: unless the file is torn, the cron makes it whole.
EventuallyWhole ==
  <>[](torn \/ Stored = {} \/ (FirstBar(Stored)..(now - 1)) \ Stored \subseteq Unlisted)
=============================================================================
