------------------------------ MODULE Universe ------------------------------
(***************************************************************************)
(* The dated universe of markets (backend/app/data/universe.py): what a    *)
(* build selects, under which day it files that, and which snapshot a      *)
(* question about a day is answered from.  The weekly cron and the         *)
(* operator's command line may build at the same time, and a build goes on *)
(* over midnight.                                                          *)
(***************************************************************************)
EXTENDS BarSeries

CONSTANTS
  Builders,       \* the cron and the operator
  Markets,        \* perpetuals that are neither stable coins nor leveraged tokens
  Listed,         \* Listed[d]: those active on day d
  Turnover,       \* Turnover[d][m]: the volume of the last 24 hours
  MedianVolume,   \* MedianVolume[d][m]: the median volume of the window
  Spread,         \* Spread[d][m]
  PrefilterSize, UniverseSize, MinMedian, MaxSpread,
  LastDay         \* bound

Days == 0..LastDay

ASSUME UniverseAssumption == LastDay \in Nat /\ Listed \in [Days -> SUBSET Markets]

VARIABLES
  day,
  snapshots, \* by day: the selection, and the day its data was fetched
  stage,     \* idle, volumes, persist, commit
  began,     \* the day a build in progress began
  data,      \* the day its volumes were fetched
  asOf,      \* the day it will be filed under
  replaces   \* whether it found a snapshot of that day

buildVars == <<stage, began, data, asOf, replaces>>
universeVars == <<day, snapshots, buildVars>>

UniverseInit ==
  /\ day = 0 /\ snapshots = [d \in {} |-> {}]
  /\ stage = [b \in Builders |-> "idle"]
  /\ began = [b \in Builders |-> 0] /\ data = [b \in Builders |-> 0]
  /\ asOf = [b \in Builders |-> 0]
  /\ replaces = [b \in Builders |-> FALSE]

\* The n largest of S by f; the prices here tell all of them apart.
Largest(S, f, n) == {m \in S : Cardinality({k \in S : f[k] > f[m]}) < n}

\* The finalists and their spreads are of the day d the build began, their volumes of e.
Finalists(d) == Largest(Listed[d], Turnover[d], PrefilterSize)
Eligible(d, e) == {m \in Finalists(d) : MedianVolume[e][m] >= MinMedian /\ Spread[d][m] <= MaxSpread}
SelectUniverse(d, e) == Largest(Eligible(d, e), MedianVolume[e], UniverseSize)

NextDay ==
  /\ day < LastDay
  /\ day' = day + 1
  /\ UNCHANGED <<snapshots, buildVars>>

\* build_universe: markets and tickers, then the daily bars of the finalists, ...
StartBuild(b) ==
  /\ stage[b] = "idle"
  /\ stage' = [stage EXCEPT ![b] = "volumes"]
  /\ began' = [began EXCEPT ![b] = day]
  /\ UNCHANGED <<day, snapshots, data, asOf, replaces>>

FetchVolumes(b) ==
  /\ stage[b] = "volumes"
  /\ stage' = [stage EXCEPT ![b] = "persist"]
  /\ data' = [data EXCEPT ![b] = day]
  /\ UNCHANGED <<day, snapshots, began, asOf, replaces>>

AsOfDate_Began(b) == began[b]

\* ... persist_snapshot: the date is taken, then the snapshot of that date is looked up ...
AsOfDate(b) == day

Lookup(b) ==
  /\ stage[b] = "persist"
  /\ stage' = [stage EXCEPT ![b] = "commit"]
  /\ asOf' = [asOf EXCEPT ![b] = AsOfDate(b)]
  /\ replaces' = [replaces EXCEPT ![b] = AsOfDate(b) \in DOMAIN snapshots]
  /\ UNCHANGED <<day, snapshots, began, data>>

BuildFinished(b) ==
  /\ stage' = [stage EXCEPT ![b] = "idle"]
  /\ began' = [began EXCEPT ![b] = 0] /\ data' = [data EXCEPT ![b] = 0]
  /\ asOf' = [asOf EXCEPT ![b] = 0] /\ replaces' = [replaces EXCEPT ![b] = FALSE]
  /\ UNCHANGED day

\* ... and the row is written; a second row for one date is refused by the unique key.
CommitBuild(b) ==
  /\ stage[b] = "commit"
  /\ replaces[b] \/ asOf[b] \notin DOMAIN snapshots
  /\ snapshots' = Merge(snapshots,
       OneRow(asOf[b], [symbols |-> SelectUniverse(began[b], data[b]), of |-> data[b]]))
  /\ BuildFinished(b)

BuildRefused(b) ==
  /\ stage[b] = "commit"
  /\ ~replaces[b] /\ asOf[b] \in DOMAIN snapshots
  /\ UNCHANGED snapshots
  /\ BuildFinished(b)

\* A request to the venue fails, or the process ends.
BuildFails(b) ==
  /\ stage[b] # "idle"
  /\ UNCHANGED snapshots
  /\ BuildFinished(b)

UniverseNext ==
  \/ NextDay
  \/ \E b \in Builders :
       \/ StartBuild(b) \/ FetchVolumes(b) \/ Lookup(b)
       \/ CommitBuild(b) \/ BuildRefused(b) \/ BuildFails(b)

UniverseSpec == UniverseInit /\ [][UniverseNext]_universeVars

(***************************************************************************)
(* Properties.                                                             *)
(***************************************************************************)

UniverseTypeOK ==
  /\ day \in Days
  /\ DOMAIN snapshots \subseteq Days
  /\ \A d \in DOMAIN snapshots :
       snapshots[d].of \in Days /\ snapshots[d].symbols \subseteq Markets
  /\ stage \in [Builders -> {"idle", "volumes", "persist", "commit"}]
  /\ began \in [Builders -> Days] /\ data \in [Builders -> Days] /\ asOf \in [Builders -> Days]

\* universe_symbols_as_of: the last snapshot on or before a day.
SnapshotAsOf(d) == {snapshots[e] : e \in AsOf(DOMAIN snapshots, d)}

\* The guard against survivorship: what is answered for a day was known by the end of
\* that day, although a build may begin before midnight and end after it, and builds may
\* overlap.
NoHindsight == \A d \in Days : \A s \in SnapshotAsOf(d) : s.of <= d
=============================================================================
