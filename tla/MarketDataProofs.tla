-------------------------- MODULE MarketDataProofs --------------------------
(***************************************************************************)
(* What holds of the market data on its way into the stores: the sync of   *)
(* bars for every page size and venue, the selected universes for any      *)
(* number of builds, and the liquidations for every batch.                 *)
(***************************************************************************)
EXTENDS MarketSync, Universe, LiquidationCollector, FiniteTheorems, TLAPS

CONSTANTS Symbols, SlotLength, PollSeconds  \* OpenInterestPoll
VARIABLES samples, polling, slot, nextPoll

Poll == INSTANCE OpenInterestPoll

-----------------------------------------------------------------------------
(* The universe of symbols.                                                *)

(* A universe is selected among the markets.                               *)
LEMMA SelectedAreMarkets ==
  ASSUME NEW d \in Days, NEW e
  PROVE  SelectUniverse(d, e) \subseteq Markets
  BY UniverseAssumption DEF SelectUniverse, Eligible, Finalists, Largest

(* No build knows more than its day: its volumes are fetched after it      *)
(* began and before it is filed, and what is filed says when.              *)
BuildOrder(b) ==
  /\ began[b] <= day /\ data[b] <= day /\ asOf[b] <= day
  /\ stage[b] = "commit" => data[b] <= asOf[b]

UniverseInv ==
  /\ UniverseTypeOK
  /\ \A b \in Builders : BuildOrder(b)
  /\ \A d \in DOMAIN snapshots : snapshots[d].of <= d

(* There is no build and no snapshot at the start.                         *)
LEMMA UniverseInitInv == UniverseInit => UniverseInv
  BY UniverseAssumption DEF UniverseInit, UniverseInv, UniverseTypeOK, BuildOrder, Days

(* The steps of a build that file nothing.                                 *)
LEMMA BuildInv ==
  ASSUME UniverseInv, NEW b \in Builders,
         StartBuild(b) \/ FetchVolumes(b) \/ Lookup(b) \/ BuildRefused(b) \/ BuildFails(b)
  PROVE  UniverseInv'
  <1>1. CASE StartBuild(b)
    BY <1>1, UniverseAssumption DEF StartBuild, UniverseInv, UniverseTypeOK, BuildOrder, Days
  <1>2. CASE FetchVolumes(b)
    BY <1>2, UniverseAssumption DEF FetchVolumes, UniverseInv, UniverseTypeOK, BuildOrder, Days
  <1>3. CASE Lookup(b)
    <2>1. /\ stage[b] = "persist" /\ stage' = [stage EXCEPT ![b] = "commit"]
          /\ asOf' = [asOf EXCEPT ![b] = day]
          /\ UNCHANGED <<day, snapshots, began, data>>
      BY <1>3 DEF Lookup, AsOfDate
    <2>2. UniverseTypeOK'
      BY <2>1 DEF UniverseInv, UniverseTypeOK
    <2>3. \A c \in Builders : BuildOrder(c)'
      BY <2>1, UniverseAssumption DEF UniverseInv, UniverseTypeOK, BuildOrder, Days
    <2> QED BY <2>1, <2>2, <2>3 DEF UniverseInv
  <1>4. CASE BuildRefused(b) \/ BuildFails(b)
    <2>1. BuildFinished(b) /\ snapshots' = snapshots
      BY <1>4 DEF BuildRefused, BuildFails
    <2>2. UniverseTypeOK'
      BY <2>1, UniverseAssumption DEF BuildFinished, UniverseInv, UniverseTypeOK, Days
    <2>3. \A c \in Builders : BuildOrder(c)'
      BY <2>1, UniverseAssumption DEF BuildFinished, UniverseInv, UniverseTypeOK, BuildOrder, Days
    <2> QED BY <2>1, <2>2, <2>3 DEF BuildFinished, UniverseInv
  <1> QED BY <1>1, <1>2, <1>3, <1>4

(* A snapshot is filed under a day that is not before the day of its       *)
(* volumes.                                                                *)
LEMMA CommitBuildInv ==
  ASSUME UniverseInv, NEW b \in Builders, CommitBuild(b)
  PROVE  UniverseInv'
  <1> DEFINE filed == [symbols |-> SelectUniverse(began[b], data[b]), of |-> data[b]]
  <1>1. /\ stage[b] = "commit" /\ data[b] <= asOf[b]
        /\ asOf[b] \in Days /\ data[b] \in Days /\ began[b] \in Days
    BY DEF CommitBuild, UniverseInv, UniverseTypeOK, BuildOrder
  <1>2. snapshots' = Merge(snapshots, OneRow(asOf[b], filed))
    BY DEF CommitBuild
  <1>3. filed.of = data[b] /\ filed.symbols \subseteq Markets
    BY <1>1, SelectedAreMarkets
  <1> HIDE DEF filed
  <1>4. /\ DOMAIN snapshots' = DOMAIN snapshots \cup {asOf[b]}
        /\ snapshots'[asOf[b]] = filed
        /\ \A d \in DOMAIN snapshots \ {asOf[b]} : snapshots'[d] = snapshots[d]
    BY <1>2 DEF Merge, OneRow
  <1>5. BuildFinished(b)
    BY DEF CommitBuild
  <1>6. UniverseTypeOK'
    BY <1>1, <1>3, <1>4, <1>5, UniverseAssumption
       DEF BuildFinished, UniverseInv, UniverseTypeOK, Days
  <1>7. \A c \in Builders : BuildOrder(c)'
    BY <1>5, UniverseAssumption DEF BuildFinished, UniverseInv, UniverseTypeOK, BuildOrder, Days
  <1>8. \A d \in DOMAIN snapshots' : snapshots'[d].of <= d
    BY <1>1, <1>3, <1>4 DEF UniverseInv
  <1> QED BY <1>6, <1>7, <1>8 DEF UniverseInv

(* The inductive invariant of the universe builder: the volumes a build    *)
(* holds are of no later day than the date it looks up, and a snapshot is  *)
(* filed under no earlier day than its data's, for any number of builds at *)
(* once.                                                                   *)
LEMMA UniverseInvariant == UniverseSpec => []UniverseInv
  <1>1. UniverseInv /\ [UniverseNext]_universeVars => UniverseInv'
    <2> SUFFICES ASSUME UniverseInv, [UniverseNext]_universeVars PROVE UniverseInv'
      OBVIOUS
    <2>1. CASE UNCHANGED universeVars
      BY <2>1 DEF universeVars, buildVars, UniverseInv, UniverseTypeOK, BuildOrder
    <2>2. CASE NextDay
      BY <2>2, UniverseAssumption DEF NextDay, buildVars, UniverseInv, UniverseTypeOK, BuildOrder, Days
    <2>3. ASSUME NEW b \in Builders,
                 \/ StartBuild(b) \/ FetchVolumes(b) \/ Lookup(b)
                 \/ CommitBuild(b) \/ BuildRefused(b) \/ BuildFails(b)
          PROVE  UniverseInv'
      BY <2>3, BuildInv, CommitBuildInv
    <2> QED BY <2>1, <2>2, <2>3 DEF UniverseNext
  <1> QED BY <1>1, UniverseInitInv, PTL DEF UniverseSpec

(* The types of the snapshots and of the builds in flight.                 *)
THEOREM UniverseTypeCorrect == UniverseSpec => []UniverseTypeOK
  BY UniverseInvariant, PTL DEF UniverseInv

(* A backtest that asks for the universe of a day is never given one made  *)
(* of later volumes, for any number of builds and days.                    *)
THEOREM SnapshotsHaveNoHindsight == UniverseSpec => []NoHindsight
  <1>1. UniverseInv => NoHindsight
    <2> SUFFICES ASSUME UniverseInv, NEW d \in Days, NEW e \in DOMAIN snapshots, e <= d
                 PROVE  snapshots[e].of <= d
      BY DEF NoHindsight, SnapshotAsOf, AsOf
    <2>1. e \in Days /\ snapshots[e].of \in Days /\ snapshots[e].of <= e
      BY DEF UniverseInv, UniverseTypeOK
    <2> QED BY <2>1, UniverseAssumption DEF Days
  <1> QED BY <1>1, UniverseInvariant, PTL

-----------------------------------------------------------------------------
(* The liquidation collector.                                              *)

(* A sequence, with one more.                                              *)
LEMMA RangeAppend ==
  ASSUME NEW S, NEW s \in Seq(S), NEW x \in S
  PROVE  /\ Append(s, x) \in Seq(S) /\ Append(s, x) # <<>>
         /\ Range(Append(s, x)) = Range(s) \cup {x}
  <1>1. /\ Append(s, x) \in Seq(S) /\ Len(Append(s, x)) = Len(s) + 1 /\ Len(s) \in Nat
        /\ \A i \in 1..Len(s) : Append(s, x)[i] = s[i]
        /\ Append(s, x)[Len(s) + 1] = x
    OBVIOUS
  <1>2. DOMAIN s = 1..Len(s) /\ DOMAIN Append(s, x) = 1..(Len(s) + 1)
    BY <1>1
  <1>3. Range(Append(s, x)) = {Append(s, x)[i] : i \in 1..(Len(s) + 1)}
    BY <1>2 DEF Range
  <1>4. Range(s) = {s[i] : i \in 1..Len(s)}
    BY <1>2 DEF Range
  <1>5. 1..(Len(s) + 1) = 1..Len(s) \cup {Len(s) + 1}
    BY <1>1
  <1> HIDE DEF Range
  <1>6. Range(Append(s, x)) \subseteq Range(s) \cup {x}
    BY <1>1, <1>3, <1>4, <1>5
  <1>7. Range(s) \cup {x} \subseteq Range(Append(s, x))
    BY <1>1, <1>3, <1>4, <1>5
  <1> QED BY <1>1, <1>6, <1>7

(* The empty sequence has no members.                                      *)
LEMMA RangeEmpty == Range(<<>>) = {}
  BY DEF Range

(* What an event waits for.  Everything heard that is not stored or lost   *)
(* is in the buffer, since the last flush.  Used is how long it has been   *)
(* there without the loop being held up: BatchSeconds at most, until the   *)
(* loop was held up over the deadline and waits as long again.             *)
Used(i) == clock - heardAt[i] - late[i]
Allowed(i) == IF late[i] = 0 THEN BatchSeconds ELSE 2 * BatchSeconds

Waiting(i) ==
  /\ i \in Buffered /\ lastFlush <= heardAt[i]
  /\ Used(i) <= Allowed(i)
  /\ loop = "wait" => Used(i) <= BatchSeconds
  /\ loop = "listening" => timer - heardAt[i] - late[i] <= Allowed(i)

(* The loop comes to its wait before the deadline or held up, waits for    *)
(* the deadline or is past it, and sleeps and connects with nothing        *)
(* buffered.                                                               *)
DeadlineHolds ==
  /\ loop = "wait" /\ buffer # <<>> =>
       clock - lastFlush < BatchSeconds \/ \A i \in Buffered : late[i] >= 1
  /\ loop = "listening" /\ buffer # <<>> =>
       timer = lastFlush + BatchSeconds \/ clock - lastFlush >= BatchSeconds
  /\ loop \in {"connecting", "asleep"} => buffer = <<>>
  /\ loop # "stopped" => \A i \in DOMAIN heardAt : i \in table \cup lost \/ Waiting(i)

LiqInv == LiqTypeOK /\ DeadlineHolds

(* Nothing was heard at the start.                                         *)
LEMMA LiqInitInv == LiqInit => LiqInv
  <1> SUFFICES ASSUME LiqInit PROVE LiqInv
    OBVIOUS
  <1>1. Range(buffer) = {} /\ DOMAIN heardAt = {} /\ DOMAIN minutes = {}
    BY RangeEmpty DEF LiqInit
  <1> QED BY <1>1, LiqAssumption DEF LiqInit, LiqInv, LiqTypeOK, DeadlineHolds, Buffered

(* The venue, the clock and the fold.                                      *)
LEMMA LiquidatedInv == ASSUME LiqInv, Liquidated PROVE LiqInv'
  <1>1. Len(tradeTime) \in Nat /\ Len(tradeTime) + 1 \in Events /\ clock \in 0..LastSecond
    BY LiqAssumption DEF LiqInv, LiqTypeOK, Liquidated, Events
  <1>2. /\ Append(tradeTime, clock) \in Seq(0..LastSecond)
        /\ Len(Append(tradeTime, clock)) <= MaxEvents
        /\ Append(wire, Len(tradeTime) + 1) \in Seq(Events)
    BY <1>1, LiqAssumption DEF LiqInv, LiqTypeOK, Liquidated
  <1>3. LiqTypeOK'
    BY <1>2 DEF LiqInv, LiqTypeOK, Liquidated, loopVars, Buffered
  <1>4. DeadlineHolds'
    BY DEF LiqInv, DeadlineHolds, Waiting, Used, Allowed, Liquidated, loopVars, Buffered
  <1> QED BY <1>3, <1>4 DEF LiqInv

(* A second passes: what waits in the buffer has used it, or the loop was  *)
(* held up for it.                                                         *)
LEMMA TickInv == ASSUME LiqInv, LiqTick PROVE LiqInv'
  <1>1. /\ clock' = clock + 1 /\ clock \in 0..LastSecond /\ clock + 1 \in 0..LastSecond
        /\ late' = IF HeldUp THEN [i \in Buffered |-> late[i] + 1] ELSE late
        /\ late \in [Buffered -> Nat] /\ timer \in Nat /\ BatchSeconds \in Nat
        /\ lastFlush \in 0..clock /\ Buffered \subseteq DOMAIN heardAt
        /\ \A i \in DOMAIN heardAt : heardAt[i] \in 0..clock
        /\ UNCHANGED <<tradeTime, wire, table, loop, buffer, lastFlush, timer, backoff, heardAt,
                       lost, drops, minutes>>
    BY LiqAssumption DEF LiqInv, LiqTypeOK, LiqTick
  <1>2. late' \in [Buffered -> Nat] /\ Buffered' = Buffered
    BY <1>1 DEF Buffered
  <1>3. LiqTypeOK'
    BY <1>1, <1>2 DEF LiqInv, LiqTypeOK
  <1>4. loop = "wait" => \A i \in Buffered : late'[i] >= 1
    BY <1>1 DEF HeldUp
  <1>5. ASSUME loop # "stopped", NEW i \in DOMAIN heardAt, i \notin table \cup lost
        PROVE  Waiting(i)'
    <2>1. /\ i \in Buffered /\ heardAt[i] \in Nat /\ late[i] \in Nat /\ lastFlush <= heardAt[i]
          /\ Waiting(i)
      BY <1>1, <1>5 DEF LiqInv, DeadlineHolds, Waiting
    <2>2. CASE HeldUp
      <3>1. late'[i] = late[i] + 1
        BY <1>1, <2>1, <2>2
      <3> QED
        BY <1>1, <1>2, <2>1, <3>1 DEF Waiting, Used, Allowed
    <2>3. CASE ~HeldUp
      <3>1. late' = late /\ loop = "listening" /\ clock < timer
        <4>1. buffer # <<>>
          BY <2>1, RangeEmpty DEF Buffered
        <4> QED
          BY <1>1, <1>3, <1>5, <2>3, <4>1 DEF HeldUp, LiqInv, LiqTypeOK, DeadlineHolds
      <3> QED
        BY <1>1, <1>2, <2>1, <3>1 DEF Waiting, Used, Allowed
    <2> QED BY <2>2, <2>3
  <1>6. DeadlineHolds'
    BY <1>1, <1>2, <1>4, <1>5 DEF LiqInv, DeadlineHolds
  <1> QED BY <1>3, <1>6 DEF LiqInv

(* The fold reads the table and changes only the minutes.                  *)
LEMMA FoldInv == ASSUME LiqInv, Fold PROVE LiqInv'
  <1> DEFINE rows == {i \in table : tradeTime[i] >= WindowStart}
  <1>1. \A m \in DOMAIN minutes' : minutes'[m] \subseteq table
    <2>1. \A m \in DOMAIN Summed(rows) : Summed(rows)[m] \subseteq table
      BY DEF Summed
    <2>2. minutes' = Merge(minutes, Summed(rows))
      BY DEF Fold
    <2> HIDE DEF rows
    <2> QED BY <2>1, <2>2 DEF LiqInv, LiqTypeOK, Merge
  <1> QED BY <1>1 DEF LiqInv, LiqTypeOK, DeadlineHolds, Waiting, Used, Allowed, Buffered, Fold,
                      loopVars

(* The loop.                                                               *)
LEMMA ConnectInv == ASSUME LiqInv, Connect PROVE LiqInv'
  <1>1. Len(tradeTime) \in 0..MaxEvents
    BY LiqAssumption DEF LiqInv, LiqTypeOK
  <1>2. wire' \in Seq(Events)
    <2> DEFINE n == Len(tradeTime)
    <2>1. wire' = <<>> \/ (wire' = <<n>> /\ n # 0)
      BY DEF Connect
    <2>2. n # 0 => n \in Events
      BY <1>1, LiqAssumption DEF Events
    <2> HIDE DEF n
    <2>3. CASE wire' = <<>>
      BY <2>3
    <2>4. CASE wire' = <<n>> /\ n # 0
      <3>1. n \in Events
        BY <2>2, <2>4
      <3>2. <<n>> \in Seq(Events)
        BY <3>1
      <3> QED BY <2>4, <3>2
    <2> QED BY <2>1, <2>3, <2>4
  <1>3. LiqTypeOK'
    BY <1>2, LiqAssumption DEF LiqInv, LiqTypeOK, Connect, Buffered
  <1>4. DeadlineHolds'
    <2>1. ASSUME NEW i \in DOMAIN heardAt PROVE i \in table \cup lost
      BY RangeEmpty DEF LiqInv, DeadlineHolds, Waiting, Connect, Buffered
    <2> QED BY <2>1 DEF LiqInv, DeadlineHolds, Connect
  <1> QED BY <1>3, <1>4 DEF LiqInv

(* The loop waits for what the batch has left, or a whole batch again when *)
(* it was held up over the deadline.                                       *)
LEMMA WaitInv == ASSUME LiqInv, Wait PROVE LiqInv'
  <1>1. /\ clock \in Nat /\ lastFlush \in Nat /\ lastFlush <= clock /\ BatchSeconds \in Nat
        /\ late \in [Buffered -> Nat]
        /\ \A i \in DOMAIN heardAt : heardAt[i] \in Nat
    BY LiqAssumption DEF LiqInv, LiqTypeOK
  <1> DEFINE left == BatchSeconds - (clock - lastFlush)
  <1>2. left \in Int /\ (left > 0 <=> clock - lastFlush < BatchSeconds)
    BY <1>1
  <1>3. buffer # <<>> => TimeLeft = IF left > 0 THEN left ELSE 0
    <2>1. Max({0, left}) = IF left > 0 THEN left ELSE 0
      <3>1. left \in Int
        BY <1>2
      <3> HIDE DEF left
      <3>2. /\ Max({0, left}) \in {0, left}
            /\ 0 <= Max({0, left}) /\ left <= Max({0, left})
        BY <3>1, ExtremesOfTwo
      <3> QED BY <3>1, <3>2
    <2> QED BY <2>1 DEF TimeLeft
  <1>4. buffer = <<>> => TimeLeft = BatchSeconds
    BY DEF TimeLeft
  <1>5. Timeout \in Nat
    BY <1>1, <1>2, <1>3, <1>4 DEF Timeout
  <1>6. buffer # <<>> => \/ Timeout = left /\ clock - lastFlush < BatchSeconds
                         \/ /\ Timeout = BatchSeconds /\ clock - lastFlush >= BatchSeconds
                            /\ \A i \in Buffered : late[i] >= 1
    <2>1. buffer # <<>> => clock - lastFlush < BatchSeconds \/ \A i \in Buffered : late[i] >= 1
      BY DEF LiqInv, DeadlineHolds, Wait
    <2> HIDE DEF left
    <2>2. CASE left > 0
      BY <1>2, <1>3, <2>2 DEF Timeout
    <2>3. CASE ~(left > 0)
      BY <1>1, <1>2, <1>3, <2>1, <2>3 DEF Timeout
    <2> QED BY <2>2, <2>3
  <1>7. /\ loop = "wait" /\ loop' = "listening" /\ timer' = clock + Timeout
        /\ UNCHANGED <<clock, tradeTime, wire, table, buffer, lastFlush, backoff, heardAt, late,
                       lost, drops, minutes>>
    BY DEF Wait
  <1>8. LiqTypeOK'
    BY <1>1, <1>5, <1>7 DEF LiqInv, LiqTypeOK, Buffered
  <1>9. ASSUME NEW i \in DOMAIN heardAt, i \notin table \cup lost PROVE Waiting(i)'
    <2>1. Waiting(i) /\ i \in Buffered /\ heardAt[i] \in Nat /\ late[i] \in Nat
      BY <1>1, <1>7, <1>9 DEF LiqInv, DeadlineHolds, Waiting
    <2>2. buffer # <<>>
      BY <2>1, RangeEmpty DEF Buffered
    <2> QED
      BY <1>1, <1>6, <1>7, <2>1, <2>2 DEF Waiting, Used, Allowed, Buffered
  <1>10. DeadlineHolds'
    <2>1. buffer # <<>> => timer' = lastFlush + BatchSeconds \/ clock - lastFlush >= BatchSeconds
      BY <1>1, <1>6, <1>7
    <2> QED BY <1>7, <1>9, <2>1 DEF DeadlineHolds
  <1> QED BY <1>8, <1>10 DEF LiqInv

(* What is received waits from now on, with what was there before.         *)
LEMMA ReceiveInv == ASSUME LiqInv, Receive PROVE LiqInv'
  <1> DEFINE e == Head(wire)
  <1>1. e \in Events /\ Tail(wire) \in Seq(Events)
    BY DEF LiqInv, LiqTypeOK, Receive
  <1>2. /\ buffer' = Append(buffer, e) /\ wire' = Tail(wire)
        /\ heardAt' = IF e \in DOMAIN heardAt THEN heardAt ELSE Merge(heardAt, OneRow(e, clock))
        /\ loop' = IF IsDue(buffer') THEN "flush" ELSE "wait"
        /\ late' = [i \in Range(buffer') |-> IF i \in Buffered THEN late[i] ELSE 0]
        /\ loop = "listening"
        /\ UNCHANGED <<clock, tradeTime, table, lastFlush, timer, backoff, lost, drops, minutes>>
    BY DEF Receive
  <1> HIDE DEF e
  <1>3. buffer' \in Seq(Events) /\ buffer' # <<>> /\ Range(buffer') = Range(buffer) \cup {e}
    BY <1>1, <1>2, RangeAppend DEF LiqInv, LiqTypeOK
  <1>4. /\ DOMAIN heardAt' = DOMAIN heardAt \cup {e}
        /\ \A i \in DOMAIN heardAt : heardAt'[i] = heardAt[i]
        /\ e \notin DOMAIN heardAt => heardAt'[e] = clock
    BY <1>2 DEF Merge, OneRow
  <1>5. /\ clock \in Nat /\ lastFlush \in 0..clock /\ BatchSeconds \in Nat /\ timer \in Nat
        /\ late \in [Buffered -> Nat] /\ Buffered \subseteq DOMAIN heardAt
        /\ \A i \in DOMAIN heardAt : heardAt[i] \in 0..clock
    BY LiqAssumption DEF LiqInv, LiqTypeOK
  <1>6. LiqTypeOK'
    <2>1. \A i \in DOMAIN heardAt' : heardAt'[i] \in 0..clock
      BY <1>4, <1>5 DEF LiqInv, LiqTypeOK
    <2>2. Buffered' \subseteq DOMAIN heardAt' /\ DOMAIN heardAt' \subseteq Events
      BY <1>1, <1>3, <1>4 DEF LiqInv, LiqTypeOK, Buffered
    <2>3. late' \in [Buffered' -> Nat]
      BY <1>2, <1>5 DEF Buffered
    <2> QED BY <1>1, <1>2, <1>3, <1>4, <2>1, <2>2, <2>3 DEF LiqInv, LiqTypeOK
  <1>7. ASSUME NEW i \in DOMAIN heardAt', i \notin table \cup lost PROVE Waiting(i)'
    <2>1. CASE i \in DOMAIN heardAt
      <3>1. Waiting(i) /\ i \in Buffered /\ heardAt[i] \in 0..clock /\ late[i] \in Nat
        BY <1>2, <1>5, <1>7, <2>1 DEF LiqInv, DeadlineHolds, Waiting
      <3>2. i \in Buffered' /\ late'[i] = late[i] /\ heardAt'[i] = heardAt[i]
        BY <1>2, <1>3, <1>4, <2>1, <3>1 DEF Buffered
      <3>3. loop' = "wait" => clock - lastFlush < BatchSeconds
        BY <1>2, <1>3, <1>5 DEF IsDue
      <3> QED
        BY <1>2, <1>5, <3>1, <3>2, <3>3 DEF Waiting, Used, Allowed
    <2>2. CASE i \notin DOMAIN heardAt
      <3>1. i = e /\ i \in Buffered' /\ late'[i] = 0 /\ heardAt'[i] = clock
        BY <1>2, <1>3, <1>4, <1>5, <2>2 DEF Buffered
      <3> QED
        BY <1>2, <1>5, <3>1 DEF Waiting, Used, Allowed
    <2> QED BY <2>1, <2>2
  <1>8. DeadlineHolds'
    <2>1. loop' = "wait" => clock - lastFlush < BatchSeconds
      BY <1>2, <1>3, <1>5 DEF IsDue
    <2> QED BY <1>2, <1>7, <2>1 DEF DeadlineHolds
  <1> QED BY <1>6, <1>8 DEF LiqInv

(* The loop goes on without touching what it holds.                        *)
LEMMA LoopInv ==
  ASSUME LiqInv, TimedOut \/ Drop \/ Reconnect \/ Cancel
  PROVE  LiqInv'
  <1>1. LiqTypeOK'
    <2>1. CASE TimedOut \/ Reconnect
      BY <2>1 DEF LiqInv, LiqTypeOK, TimedOut, Reconnect, Buffered
    <2>2. CASE Drop
      BY <2>2, LiqAssumption DEF LiqInv, LiqTypeOK, Drop, Buffered
    <2>3. CASE Cancel
      BY <2>3 DEF LiqInv, LiqTypeOK, Cancel, Buffered
    <2> QED BY <2>1, <2>2, <2>3
  <1>2. DeadlineHolds'
    <2>1. ASSUME NEW i, Waiting(i), loop' # "stopped" PROVE Waiting(i)'
      BY <2>1 DEF Waiting, Used, Allowed, Buffered, TimedOut, Drop, Reconnect, Cancel
    <2> QED
      BY <2>1 DEF LiqInv, DeadlineHolds, Buffered, TimedOut, Drop, Reconnect, Cancel
  <1> QED BY <1>1, <1>2 DEF LiqInv

(* After a flush nothing waits, whether it stored or lost the buffer.      *)
LEMMA FlushInv == ASSUME LiqInv, Flush \/ FlushFails PROVE LiqInv'
  <1>1. Emptied /\ loop \in {"flush", "flushAndDrop"}
    BY DEF Flush, FlushFails
  <1>2. /\ table \subseteq table' /\ lost \subseteq lost'
        /\ table' \cup lost' = table \cup lost \cup Buffered /\ drops' \in 0..MaxDrops
    BY LiqAssumption DEF Flush, FlushFails, InsertIgnore, LiqInv, LiqTypeOK
  <1>3. Range(buffer') = {} /\ buffer' = <<>> /\ late' = <<>>
    BY <1>1, RangeEmpty DEF Emptied
  <1>4. timer' \in Nat /\ backoff' \in 1..MaxBackoff
    <2>1. backoff \in 1..MaxBackoff /\ clock \in Nat /\ timer \in Nat /\ MaxBackoff \in Nat \ {0}
      BY LiqAssumption DEF LiqInv, LiqTypeOK
    <2> DEFINE twice == 2 * backoff
    <2>2. twice \in Int /\ twice >= 1
      BY <2>1
    <2> HIDE DEF twice
    <2>3. Min({twice, MaxBackoff}) \in 1..MaxBackoff
      <3>1. /\ Min({twice, MaxBackoff}) \in {twice, MaxBackoff}
            /\ Min({twice, MaxBackoff}) <= MaxBackoff
        BY <2>1, <2>2, ExtremesOfTwo
      <3> QED BY <2>1, <2>2, <3>1
    <2> QED BY <1>1, <2>1, <2>3 DEF Emptied, twice
  <1>5. LiqTypeOK'
    <2>1. clock' = clock /\ lastFlush' = clock /\ heardAt' = heardAt /\ tradeTime' = tradeTime
          /\ wire' = wire /\ minutes' = minutes
          /\ loop' \in {"wait", "asleep"}
      BY <1>1 DEF Emptied, AfterFlush
    <2>2. clock' \in 0..LastSecond /\ lastFlush' \in 0..clock'
      BY <2>1, LiqAssumption DEF LiqInv, LiqTypeOK
    <2>3. buffer' \in Seq(Events)
      BY <1>3
    <2>4. late' \in [Buffered' -> Nat]
      BY <1>3 DEF Buffered
    <2> QED BY <1>2, <1>3, <1>4, <2>1, <2>2, <2>3, <2>4 DEF LiqInv, LiqTypeOK, Buffered
  <1>6. DeadlineHolds'
    <2>1. ASSUME NEW i \in DOMAIN heardAt' PROVE i \in table' \cup lost'
      BY <1>1, <1>2 DEF Emptied, LiqInv, DeadlineHolds, Waiting
    <2> QED BY <1>1, <1>3, <2>1 DEF Emptied, DeadlineHolds, AfterFlush
  <1> QED BY <1>5, <1>6 DEF LiqInv

(* The inductive invariant of the collector: while its loop runs, what was *)
(* heard and is neither stored nor lost is in the buffer, was heard since  *)
(* the last flush, and the wait ends in time for it, or a batch later when *)
(* the loop was held up.                                                   *)
LEMMA LiqInvariant == LiqSpec => []LiqInv
  <1>1. LiqInv /\ [LiqNext]_liqVars => LiqInv'
    <2> SUFFICES ASSUME LiqInv, [LiqNext]_liqVars PROVE LiqInv'
      OBVIOUS
    <2>1. CASE UNCHANGED liqVars
      BY <2>1 DEF liqVars, loopVars, LiqInv, LiqTypeOK, DeadlineHolds, Waiting, Used, Allowed,
                  Buffered
    <2>2. CASE LiqNext
      BY <2>2, LiquidatedInv, TickInv, FoldInv, ConnectInv, WaitInv, ReceiveInv, LoopInv, FlushInv
         DEF LiqNext
    <2> QED BY <2>1, <2>2
  <1> QED BY <1>1, LiqInitInv, PTL DEF LiqSpec

(* The types of the wire, the buffer, the table and the loop.              *)
THEOREM CollectorTypeCorrect == LiqSpec => []LiqTypeOK
  BY LiqInvariant, PTL DEF LiqInv

(* An event that was heard is stored, or lost by a failed insert, within   *)
(* BatchSeconds while the loop runs, and within twice that and the time    *)
(* the loop was held up if it was, for every length of batch and wait, and *)
(* any number of drops.                                                    *)
THEOREM WhatIsHeardIsStoredSoon == LiqSpec => []HeardIsStoredSoon
  <1>1. LiqInv => HeardIsStoredSoon
    <2> SUFFICES ASSUME LiqInv, NEW i \in DOMAIN heardAt, i \notin table \cup lost, loop # "stopped"
                 PROVE  /\ i \in Buffered
                        /\ Used(i) <= (IF late[i] = 0 THEN 1 ELSE 2) * BatchSeconds
      BY DEF HeardIsStoredSoon, Used
    <2>1. i \in Buffered /\ Used(i) <= Allowed(i)
      BY DEF LiqInv, DeadlineHolds, Waiting
    <2> QED BY <2>1, LiqAssumption DEF Allowed
  <1> QED BY <1>1, LiqInvariant, PTL

-----------------------------------------------------------------------------
(* The sync of bars.                                                       *)

(* What is held outside the steps that work on it: nothing.                *)
NothingLeftOver ==
  \A j \in Jobs :
    /\ pc[j] # "page" => since[j] = 0 /\ until[j] = 0
    /\ pc[j] \notin {"page", "read"} => got[j] = NoBars
    /\ pc[j] # "write" => merged[j] = NoBars
    /\ j \in repairing => pc[j] \in {"page", "read", "write", "gaps"}
    /\ j \notin repairing => todo[j] = {}

(* Rows of bars that are closed by n, with the values they closed with.    *)
ClosedBy(f, n) == DOMAIN f \subseteq 0..(n - 1) /\ f = [t \in DOMAIN f |-> TRUE]

AllClosed ==
  /\ ClosedBy(file, now)
  /\ \A j \in Jobs : ClosedBy(got[j], now) /\ ClosedBy(merged[j], now)

(* No range reaches the bar that is forming: neither a run's, nor a gap's. *)
IsGap(g, n) == /\ g[1] \in Int /\ g[2] \in Int
               /\ 0 <= g[1] /\ g[1] <= g[2] /\ g[2] < n - 1

RangesClosed ==
  \A j \in Jobs :
    /\ goal[j] <= now /\ until[j] <= now
    /\ \A g \in todo[j] : IsGap(g, now)

SyncInv ==
  /\ TypeOK /\ DOMAIN held = Jobs /\ DOMAIN todo = Jobs
  /\ NothingLeftOver /\ AllClosed /\ RangesClosed

(* A file of closed bars is one of the rows a file may have.               *)
LEMMA ClosedAreRows ==
  ASSUME NEW n \in 0..Horizon, NEW f, ClosedBy(f, n)
  PROVE  f \in Rows(Bars)
  <1>1. Horizon \in Nat
    BY SyncAssumption
  <1>2. DOMAIN f \subseteq Bars
    BY <1>1 DEF ClosedBy, Bars
  <1>3. f \in [DOMAIN f -> BOOLEAN]
    BY DEF ClosedBy
  <1>4. [DOMAIN f -> BOOLEAN] \in {[T -> BOOLEAN] : T \in SUBSET Bars}
    BY <1>2
  <1> QED BY <1>3, <1>4 DEF Rows

(* No bars are closed bars.                                                *)
LEMMA NoBarsClosed ==
  ASSUME NEW n \in Int
  PROVE  ClosedBy(NoBars, n) /\ DOMAIN NoBars = {}
  BY DEF ClosedBy, NoBars

(* A closed bar stays closed.                                              *)
LEMMA ClosedStays ==
  ASSUME NEW n \in Int, NEW f, ClosedBy(f, n)
  PROVE  ClosedBy(f, n + 1)
  <1>1. 0..(n - 1) \subseteq 0..(n + 1 - 1)
    OBVIOUS
  <1> QED BY <1>1 DEF ClosedBy

(* What is merged of closed bars is closed, and has the bars of both.      *)
LEMMA ClosedMerges ==
  ASSUME NEW n \in Int, NEW f, NEW g, ClosedBy(f, n), ClosedBy(g, n)
  PROVE  ClosedBy(Merge(f, g), n) /\ DOMAIN Merge(f, g) = DOMAIN f \cup DOMAIN g
  <1>1. DOMAIN Merge(f, g) = DOMAIN f \cup DOMAIN g
    BY DEF Merge
  <1>2. \A t \in DOMAIN Merge(f, g) : Merge(f, g)[t] = TRUE
    BY DEF Merge, ClosedBy
  <1>3. Merge(f, g) = [t \in DOMAIN Merge(f, g) |-> TRUE]
    BY <1>1, <1>2 DEF Merge
  <1> QED BY <1>1, <1>3 DEF ClosedBy

(* In bars, a run's range ends with the last closed one.                   *)
LEMMA UntilIsNow == now \in Nat => Until = now
  BY DEF Until, ClosedUntil, OnGrid

(* The first and the last stored bar.                                      *)
LEMMA EndsOfFile ==
  ASSUME NEW n \in Int, NEW S, S \subseteq 0..n, S # {}
  PROVE  /\ FirstBar(S) \in S /\ LastBar(S) \in S
         /\ FirstBar(S) \in 0..n /\ LastBar(S) \in 0..n
         /\ \A t \in S : FirstBar(S) <= t /\ t <= LastBar(S)
  <1>1. 0 \in Int
    OBVIOUS
  <1> QED BY <1>1, Extremes DEF FirstBar, LastBar

(* A gap is what lies between two members.                                 *)
LEMMA GapBetween ==
  ASSUME NEW S, NEW g \in FindGaps(S, 1)
  PROVE  \E a \in S, b \in S : g = <<a + 1, b - 1>> /\ Spacing(a, b, 1) > 1
  <1>1. PICK p \in Neighbours(S) : g = <<p[1] + 1, p[2] - 1>> /\ Spacing(p[1], p[2], 1) > 1
    BY DEF FindGaps
  <1>2. p \in S \X S
    BY DEF Neighbours
  <1>3. p[1] \in S /\ p[2] \in S
    BY <1>2
  <1> QED BY <1>1, <1>3

(* Every gap is a run of bars between two stored ones, and every hole      *)
(* between two stored bars is in a gap.                                    *)
LEMMA GapsAreTheHoles ==
  ASSUME NEW n \in Int, NEW S, S \subseteq 0..n
  PROVE  /\ \A g \in FindGaps(S, 1) :
              /\ g[1] \in Int /\ g[2] \in Int /\ S # {}
              /\ FirstBar(S) < g[1] /\ g[1] <= g[2] /\ g[2] < LastBar(S)
         /\ \A t \in Int :
              S # {} /\ FirstBar(S) <= t /\ t <= LastBar(S) /\ t \notin S
                => \E g \in FindGaps(S, 1) : g[1] <= t /\ t <= g[2]
  <1>0. \A a, b \in Int : Spacing(a, b, 1) = b - a
    BY DEF Spacing
  <1>1. ASSUME NEW g \in FindGaps(S, 1)
        PROVE  /\ g[1] \in Int /\ g[2] \in Int /\ S # {}
               /\ FirstBar(S) < g[1] /\ g[1] <= g[2] /\ g[2] < LastBar(S)
    <2>1. PICK a \in S, b \in S : g = <<a + 1, b - 1>> /\ Spacing(a, b, 1) > 1
      BY GapBetween
    <2>3. g[1] = a + 1 /\ g[2] = b - 1 /\ Spacing(a, b, 1) > 1
      BY <2>1
    <2>4. a \in Int /\ b \in Int
      OBVIOUS
    <2>5. b - a > 1
      BY <1>0, <2>3, <2>4
    <2>6. /\ FirstBar(S) \in 0..n /\ LastBar(S) \in 0..n
          /\ FirstBar(S) <= a /\ b <= LastBar(S)
      BY EndsOfFile
    <2> QED BY <2>3, <2>4, <2>5, <2>6
  <1>2. ASSUME NEW t \in Int, S # {}, FirstBar(S) <= t, t <= LastBar(S), t \notin S
        PROVE  \E g \in FindGaps(S, 1) : g[1] <= t /\ t <= g[2]
    <2> DEFINE A == {s \in S : s < t}
               B == {s \in S : t < s}
    <2>0. /\ FirstBar(S) \in S /\ LastBar(S) \in S
          /\ FirstBar(S) \in 0..n /\ LastBar(S) \in 0..n
      BY <1>2, EndsOfFile
    <2>9. FirstBar(S) # t /\ LastBar(S) # t
      BY <1>2, <2>0
    <2>1. FirstBar(S) \in A /\ LastBar(S) \in B
      BY <1>2, <2>0, <2>9
    <2>2. A \subseteq 0..n /\ B \subseteq 0..n /\ A # {} /\ B # {}
      BY <2>1
    <2> DEFINE a == LastBar(A)
               b == FirstBar(B)
    <2> HIDE DEF A, B
    <2>3. a \in A /\ b \in B /\ (\A s \in A : s <= a) /\ (\A s \in B : b <= s)
      BY <2>2, EndsOfFile
    <2> HIDE DEF a, b
    <2>4. a \in S /\ b \in S /\ a \in Int /\ b \in Int /\ a < t /\ t < b
      BY <2>3 DEF A, B
    <2>5. \A s \in S : s <= a \/ b <= s
      <3> TAKE s \in S
      <3>1. s < t \/ t < s
        BY <1>2
      <3> QED BY <3>1, <2>3 DEF A, B
    <2>6. <<a, b>> \in Neighbours(S)
      BY <2>4, <2>5 DEF Neighbours
    <2>7. Spacing(a, b, 1) > 1
      BY <1>0, <2>4
    <2>8. <<a + 1, b - 1>> \in FindGaps(S, 1)
      BY <2>6, <2>7 DEF FindGaps
    <2> QED BY <2>4, <2>8
  <1> QED BY <1>1, <1>2

(* What a run keeps of a page of the venue's.                              *)
Page(from, to) == {t \in KlinePage(from) : t < to}

(* It leaves out nothing before its last bar; and an empty one says that   *)
(* there is nothing.                                                       *)
LEMMA PageIsWhole ==
  ASSUME now \in 0..Horizon, NEW from \in Nat, NEW to \in Nat, to <= now
  PROVE  /\ Page(from, to) \subseteq from..(to - 1)
         /\ \A t \in from..(to - 1) :
              t \in Unlisted \/ t \in Page(from, to)
                \/ (Page(from, to) # {} /\ LastBar(Page(from, to)) < t)
  <1> DEFINE K == KlinesFrom(from)
             Before(t) == {u \in K : u < t}
  <1>0. Horizon \in Nat /\ Limit \in Nat /\ Limit >= 1 /\ now \in Nat
    BY SyncAssumption
  <1>1. K \subseteq from..now
    BY DEF KlinesFrom
  <1>2. IsFiniteSet(K)
    <2>1. IsFiniteSet(from..now) /\ K \in SUBSET (from..now)
      BY <1>0, <1>1, FS_Interval
    <2> QED BY <2>1, FS_Subset
  <1>3. Page(from, to) = {t \in K : Cardinality(Before(t)) < Limit /\ t < to}
    BY DEF Page, KlinePage
  <1>4. \A t \in from..(to - 1) : t \in Unlisted \/ t \in K
    BY <1>0 DEF KlinesFrom, Bars
  <1> HIDE DEF K
  <1>5. Page(from, to) \subseteq from..(to - 1)
    <2> HIDE DEF Before
    <2>1. \A t \in Page(from, to) : t \in K /\ t < to
      BY <1>3
    <2>2. ASSUME NEW t \in Page(from, to) PROVE t \in from..(to - 1)
      <3>1. t \in from..now /\ t < to
        BY <1>1, <2>1
      <3> QED BY <1>0, <3>1
    <2> QED BY <2>2
  <1>6. ASSUME NEW t \in K, NEW m \in K, t <= m, Cardinality(Before(m)) < Limit
        PROVE  Cardinality(Before(t)) < Limit
    <2>1. t \in Int /\ m \in Int /\ K \subseteq Int
      BY <1>0, <1>1
    <2>6. \A u \in K : u < t => u < m
      BY <1>6, <2>1
    <2>2. Before(t) \in SUBSET Before(m) /\ Before(m) \in SUBSET K
      BY <2>6
    <2>3. IsFiniteSet(Before(m))
      BY <1>2, <2>2, FS_Subset
    <2>4. /\ IsFiniteSet(Before(t)) /\ Cardinality(Before(t)) <= Cardinality(Before(m))
      BY <2>2, <2>3, FS_Subset
    <2> HIDE DEF Before
    <2>5. Cardinality(Before(t)) \in Nat /\ Cardinality(Before(m)) \in Nat
      BY <2>3, <2>4, FS_CardinalityType
    <2> QED BY <1>0, <1>6, <2>4, <2>5
  <1>7. ASSUME NEW t \in from..(to - 1), t \notin Unlisted, t \notin Page(from, to)
        PROVE  Page(from, to) # {} /\ LastBar(Page(from, to)) < t
    <2>1. t \in K /\ t \in Int /\ t < to
      BY <1>0, <1>4, <1>7
    <2>2. ~(Cardinality(Before(t)) < Limit)
      <3> HIDE DEF Before
      <3> QED BY <1>3, <1>7, <2>1
    <2>3. Page(from, to) # {}
      <3>1. K # {} /\ K \subseteq 0..now
        BY <1>0, <1>1, <2>1
      <3> DEFINE m == FirstBar(K)
      <3>6. now \in Int
        BY <1>0
      <3>2. m \in K /\ (\A u \in K : m <= u) /\ m \in 0..now
        BY <3>1, <3>6, EndsOfFile
      <3> HIDE DEF m
      <3>7. \A u \in K : ~(u < m)
        BY <1>0, <3>1, <3>2
      <3>3. Before(m) = {}
        BY <3>7
      <3>4. Cardinality(Before(m)) = 0
        BY <3>3, FS_EmptySet
      <3>5. m < to
        BY <1>0, <2>1, <3>2
      <3> HIDE DEF Before
      <3> QED BY <1>0, <1>3, <3>2, <3>4, <3>5
    <2>4. LastBar(Page(from, to)) \in Page(from, to) /\ LastBar(Page(from, to)) \in 0..now
      <3>1. Page(from, to) \subseteq 0..now
        BY <1>0, <1>5
      <3> QED BY <1>0, <2>3, <3>1, EndsOfFile
    <2>5. ASSUME t <= LastBar(Page(from, to)) PROVE FALSE
      <3> DEFINE m == LastBar(Page(from, to))
      <3>1. m \in K /\ Cardinality(Before(m)) < Limit
        <4> HIDE DEF Before
        <4> QED BY <1>3, <2>4
      <3> HIDE DEF m
      <3>2. t <= m
        BY <2>5 DEF m
      <3> QED BY <1>6, <2>1, <2>2, <3>1, <3>2
    <2> QED BY <2>1, <2>3, <2>4, <2>5
  <1> QED BY <1>5, <1>7

(* Nothing is stored and no job runs at the start.                         *)
LEMMA SyncInitInv == Init => SyncInv
  <1> SUFFICES ASSUME Init PROVE SyncInv
    OBVIOUS
  <1> USE DEF Init
  <1>0. Horizon \in Nat
    BY SyncAssumption
  <1>1. ClosedBy(NoBars, 0)
    BY NoBarsClosed
  <1>2. NoBars \in Rows(Bars)
    BY <1>0, <1>1, ClosedAreRows
  <1>3. TypeOK
    <2>1. got \in [Jobs -> Rows(Bars)] /\ merged \in [Jobs -> Rows(Bars)] /\ file \in Rows(Bars)
      BY <1>2
    <2>2. pc \in [Jobs -> {"idle", "page", "read", "write", "gaps", "row", "commit"}]
      OBVIOUS
    <2>3. /\ goal \in [Jobs -> 0..Horizon] /\ since \in [Jobs -> 0..Horizon]
          /\ until \in [Jobs -> 0..Horizon] /\ now \in 0..Horizon
      BY <1>0
    <2>4. \A j \in Jobs : pc[j] # "page"
      OBVIOUS
    <2> QED BY <2>1, <2>2, <2>3, <2>4 DEF TypeOK
  <1>4. NothingLeftOver /\ AllClosed /\ RangesClosed
    BY <1>1 DEF NothingLeftOver, AllClosed, RangesClosed
  <1> QED BY <1>3, <1>4 DEF SyncInv

(* Time passes.                                                            *)
LEMMA BarClosesInv == SyncInv /\ BarCloses => SyncInv'
  <1> SUFFICES ASSUME SyncInv, BarCloses PROVE SyncInv'
    OBVIOUS
  <1> USE DEF BarCloses, jobVars
  <1>0. Horizon \in Nat /\ now \in Nat
    BY SyncAssumption DEF SyncInv, TypeOK
  <1>1. TypeOK'
    BY <1>0 DEF SyncInv, TypeOK
  <1>2. NothingLeftOver'
    BY DEF SyncInv, NothingLeftOver
  <1>3. AllClosed'
    BY <1>0, ClosedStays DEF SyncInv, AllClosed
  <1>4. RangesClosed'
    BY <1>0 DEF SyncInv, TypeOK, RangesClosed, IsGap
  <1> QED BY <1>1, <1>2, <1>3, <1>4 DEF SyncInv

(* Where a run may begin.                                                  *)
LEMMA BeginningsAreTimes ==
  ASSUME now \in Nat, ClosedBy(file, now)
  PROVE  IncrementalSince \in Nat /\ BackfillFrom(now) \in Nat
  <1>0. Limit \in Nat /\ Lookback \in Nat
    BY SyncAssumption
  <1>1. \A x \in Int : Max({0, x}) \in Nat
    <2> TAKE x \in Int
    <2>1. 0 \in Int
      OBVIOUS
    <2>2. Max({0, x}) \in {0, x} /\ 0 <= Max({0, x})
      BY <2>1, ExtremesOfTwo
    <2> QED BY <2>2
  <1>2. Stored # {} => LastBar(Stored) \in Nat
    <2> DEFINE n == now - 1
    <2>1. n \in Int /\ Stored \subseteq 0..n
      BY DEF ClosedBy, Stored
    <2> HIDE DEF n
    <2>2. ASSUME Stored # {} PROVE LastBar(Stored) \in 0..n
      BY <2>1, <2>2, EndsOfFile
    <2> QED BY <2>1, <2>2
  <1>3. Until = now
    BY UntilIsNow
  <1> QED BY <1>0, <1>1, <1>2, <1>3 DEF IncrementalSince, BackfillFrom

(* A run begins with a range that ends now.                                *)
LEMMA BeginInv ==
  ASSUME SyncInv, NEW j \in Jobs, NEW from \in Nat, Begin(j, from)
  PROVE  SyncInv'
  <1> USE DEF Begin, Fetch
  <1>0. Horizon \in Nat /\ now \in 0..Horizon /\ now \in Nat /\ Until = now
    BY SyncAssumption, UntilIsNow DEF SyncInv, TypeOK
  <1>1. TypeOK'
    BY <1>0 DEF SyncInv, TypeOK
  <1>2. NothingLeftOver'
    BY <1>0 DEF SyncInv, TypeOK, NothingLeftOver
  <1>3. AllClosed'
    BY <1>0 DEF SyncInv, AllClosed
  <1>4. RangesClosed'
    BY <1>0 DEF SyncInv, TypeOK, RangesClosed
  <1> QED BY <1>1, <1>2, <1>3, <1>4 DEF SyncInv

(* A page may have the forming bar, but what is kept of it ends before the *)
(* range does.                                                             *)
LEMMA FetchPageInv ==
  ASSUME SyncInv, NEW j \in Jobs, FetchPage(j)
  PROVE  SyncInv'
  <1> DEFINE batch == Page(since[j], until[j])
             rows  == Merge(got[j], [t \in batch |-> t < now])
             more  == batch # {} /\ NextSince(batch) < until[j]
  <1>0. /\ Horizon \in Nat /\ now \in 0..Horizon /\ now \in Nat
        /\ since[j] \in Nat /\ until[j] \in Nat /\ until[j] <= now
    BY SyncAssumption DEF SyncInv, TypeOK, RangesClosed
  <1>1. /\ pc[j] = "page"
        /\ got' = [got EXCEPT ![j] = rows]
        /\ since' = [since EXCEPT ![j] = IF more THEN NextSince(batch) ELSE 0]
        /\ until' = [until EXCEPT ![j] = IF more THEN @ ELSE 0]
        /\ pc' = [pc EXCEPT ![j] = IF more THEN "page"
                                   ELSE IF DOMAIN rows # {} THEN "read" ELSE "gaps"]
        /\ UNCHANGED <<now, file, torn, row, goal, merged, repairing, todo, held, cliRuns, faults,
                       overtaken, stale>>
    BY DEF FetchPage, Page
  <1>2. batch \subseteq since[j]..(until[j] - 1)
    BY <1>0, PageIsWhole
  <1> HIDE DEF batch
  <1>3. batch # {} => NextSince(batch) \in Nat
    <2> DEFINE n == until[j] - 1
    <2>1. n \in Int /\ batch \subseteq 0..n
      BY <1>0, <1>2
    <2> HIDE DEF n
    <2>2. ASSUME batch # {} PROVE LastBar(batch) \in 0..n
      BY <2>1, <2>2, EndsOfFile
    <2> QED BY <2>1, <2>2 DEF NextSince
  <1>4. ClosedBy([t \in batch |-> t < now], now)
    <2>1. \A t \in batch : t \in 0..(now - 1) /\ (t < now) = TRUE
      BY <1>0, <1>2
    <2> QED BY <2>1 DEF ClosedBy
  <1>5. ClosedBy(rows, now) /\ DOMAIN rows = DOMAIN got[j] \cup batch
    <2>1. ClosedBy(got[j], now) /\ now \in Int
      BY <1>0 DEF SyncInv, AllClosed
    <2> QED BY <2>1, <1>4, ClosedMerges
  <1> HIDE DEF rows
  <1>6. DOMAIN rows = {} => rows = NoBars
    BY <1>5 DEF ClosedBy, NoBars
  <1>7. AllClosed'
    BY <1>0, <1>1, <1>5 DEF SyncInv, TypeOK, AllClosed
  <1>8. TypeOK'
    <2>1. rows \in Rows(Bars)
      BY <1>0, <1>5, ClosedAreRows
    <2> QED BY <1>0, <1>1, <1>3, <2>1 DEF SyncInv, TypeOK
  <1>9. NothingLeftOver'
    BY <1>1, <1>6 DEF SyncInv, TypeOK, NothingLeftOver
  <1>10. RangesClosed'
    BY <1>0, <1>1 DEF SyncInv, TypeOK, RangesClosed
  <1> QED BY <1>1, <1>7, <1>8, <1>9, <1>10 DEF SyncInv

(* The file is read and merged with what was fetched.                      *)
LEMMA ReadFileInv ==
  ASSUME SyncInv, NEW j \in Jobs, ReadFile(j)
  PROVE  SyncInv'
  <1> USE DEF ReadFile
  <1>0. now \in 0..Horizon /\ now \in Int
    BY SyncAssumption DEF SyncInv, TypeOK
  <1>1. ClosedBy(NoBars, now) /\ ClosedBy(Merge(file, got[j]), now)
    BY <1>0, NoBarsClosed, ClosedMerges DEF SyncInv, AllClosed
  <1>2. NoBars \in Rows(Bars) /\ Merge(file, got[j]) \in Rows(Bars)
    BY <1>0, <1>1, ClosedAreRows
  <1>3. TypeOK'
    BY <1>2 DEF SyncInv, TypeOK
  <1>4. NothingLeftOver'
    BY DEF SyncInv, TypeOK, NothingLeftOver
  <1>5. AllClosed'
    BY <1>1 DEF SyncInv, TypeOK, AllClosed
  <1>6. RangesClosed'
    BY DEF SyncInv, RangesClosed
  <1> QED BY <1>3, <1>4, <1>5, <1>6 DEF SyncInv

(* The file becomes what was merged.                                       *)
LEMMA WriteFileInv ==
  ASSUME SyncInv, NEW j \in Jobs, WriteFile(j)
  PROVE  SyncInv'
  <1> USE DEF WriteFile
  <1>0. now \in 0..Horizon /\ now \in Int
    BY SyncAssumption DEF SyncInv, TypeOK
  <1>1. ClosedBy(NoBars, now)
    BY <1>0, NoBarsClosed
  <1>2. NoBars \in Rows(Bars)
    BY <1>0, <1>1, ClosedAreRows
  <1>3. TypeOK'
    BY <1>2 DEF SyncInv, TypeOK, Others
  <1>4. NothingLeftOver'
    BY DEF SyncInv, TypeOK, NothingLeftOver
  <1>5. AllClosed'
    BY <1>1 DEF SyncInv, TypeOK, AllClosed
  <1>6. RangesClosed'
    BY DEF SyncInv, RangesClosed
  <1> QED BY <1>3, <1>4, <1>5, <1>6 DEF SyncInv

(* The gaps a job works on end before the bar that is forming.             *)
LEMMA GapsAreClosed ==
  ASSUME SyncInv, NEW j \in Jobs, NEW g \in Gaps(j)
  PROVE  IsGap(g, now) /\ (j \notin repairing => Stored # {})
  <1>0. now \in Int
    BY SyncAssumption DEF SyncInv, TypeOK
  <1>1. CASE j \in repairing
    BY <1>1 DEF Gaps, SyncInv, RangesClosed
  <1>2. CASE j \notin repairing
    <2> DEFINE n == now - 1
    <2>1. n \in Int /\ Stored \subseteq 0..n /\ g \in FindGaps(Stored, 1)
      BY <1>0, <1>2 DEF SyncInv, AllClosed, ClosedBy, Stored, Gaps
    <2>2. n = now - 1
      OBVIOUS
    <2> HIDE DEF n
    <2>3. /\ g[1] \in Int /\ g[2] \in Int /\ Stored # {}
          /\ FirstBar(Stored) < g[1] /\ g[1] <= g[2] /\ g[2] < LastBar(Stored)
      BY <2>1, GapsAreTheHoles
    <2>4. FirstBar(Stored) \in 0..n /\ LastBar(Stored) \in 0..n
      BY <2>1, <2>3, EndsOfFile
    <2> QED BY <1>0, <2>1, <2>2, <2>3, <2>4 DEF IsGap
  <1> QED BY <1>1, <1>2

(* A gap is fetched like a range.                                          *)
LEMMA RepairGapInv ==
  ASSUME SyncInv, NEW j \in Jobs, RepairGap(j)
  PROVE  SyncInv'
  <1>1. PICK g \in Gaps(j) :
          /\ Fetch(j, g[1], GapEnd(g), "gaps")
          /\ todo' = [todo EXCEPT ![j] = Gaps(j) \ {g}]
    BY DEF RepairGap, Foremost
  <1>2. /\ pc[j] = "gaps" /\ repairing' = repairing \cup {j}
        /\ UNCHANGED <<now, file, torn, row, goal, got, merged, held, cliRuns, faults, overtaken,
                       stale>>
    BY DEF RepairGap
  <1>0. Horizon \in Nat /\ now \in 0..Horizon /\ now \in Nat
    BY SyncAssumption DEF SyncInv, TypeOK
  <1>3. g[1] \in Nat /\ GapEnd(g) \in Nat /\ g[1] < GapEnd(g) /\ GapEnd(g) <= now
    BY <1>0, GapsAreClosed DEF IsGap, GapEnd
  <1>4. /\ pc' = [pc EXCEPT ![j] = "page"] /\ since' = [since EXCEPT ![j] = g[1]]
        /\ until' = [until EXCEPT ![j] = GapEnd(g)]
    BY <1>1, <1>3 DEF Fetch
  <1>5. TypeOK'
    BY <1>0, <1>2, <1>3, <1>4 DEF SyncInv, TypeOK
  <1>6. NothingLeftOver'
    BY <1>1, <1>2, <1>4 DEF SyncInv, TypeOK, NothingLeftOver
  <1>7. AllClosed'
    BY <1>2 DEF SyncInv, AllClosed
  <1>8. RangesClosed'
    <2>1. \A h \in Gaps(j) : IsGap(h, now)
      BY GapsAreClosed
    <2> QED BY <1>0, <1>1, <1>2, <1>3, <1>4, <2>1 DEF SyncInv, TypeOK, RangesClosed
  <1>9. DOMAIN todo' = Jobs /\ DOMAIN held' = Jobs
    BY <1>1, <1>2 DEF SyncInv
  <1> QED BY <1>5, <1>6, <1>7, <1>8, <1>9 DEF SyncInv

(* The gaps are through.                                                   *)
LEMMA GapsRepairedInv ==
  ASSUME SyncInv, NEW j \in Jobs, GapsRepaired(j)
  PROVE  SyncInv'
  <1> USE DEF GapsRepaired
  <1>1. TypeOK'
    BY DEF SyncInv, TypeOK
  <1>2. NothingLeftOver'
    BY DEF SyncInv, TypeOK, NothingLeftOver, Gaps
  <1>3. AllClosed' /\ RangesClosed'
    BY DEF SyncInv, AllClosed, RangesClosed
  <1> QED BY <1>1, <1>2, <1>3 DEF SyncInv

(* The report is made.                                                     *)
LEMMA ReadRowInv ==
  ASSUME SyncInv, NEW j \in Jobs, ReadRow(j)
  PROVE  SyncInv'
  <1> USE DEF ReadRow
  <1>1. TypeOK'
    BY DEF SyncInv, TypeOK
  <1>2. NothingLeftOver'
    BY DEF SyncInv, TypeOK, NothingLeftOver
  <1>3. AllClosed' /\ RangesClosed'
    BY DEF SyncInv, AllClosed, RangesClosed
  <1> QED BY <1>1, <1>2, <1>3 DEF SyncInv

(* The row is written.                                                     *)
LEMMA CommitRowInv ==
  ASSUME SyncInv, NEW j \in Jobs, CommitRow(j)
  PROVE  SyncInv'
  <1> USE DEF CommitRow
  <1>0. Horizon \in Nat /\ now \in Nat
    BY SyncAssumption DEF SyncInv, TypeOK
  <1>1. TypeOK'
    BY <1>0 DEF SyncInv, TypeOK, Others
  <1>2. NothingLeftOver'
    BY DEF SyncInv, TypeOK, NothingLeftOver
  <1>3. AllClosed' /\ RangesClosed'
    BY <1>0 DEF SyncInv, TypeOK, AllClosed, RangesClosed
  <1> QED BY <1>1, <1>2, <1>3 DEF SyncInv

(* A job that fails drops what it had, and may tear the file.              *)
LEMMA DroppedInv ==
  ASSUME SyncInv, NEW j \in Jobs, Dropped(j), torn' \in BOOLEAN
  PROVE  SyncInv'
  <1> USE DEF Dropped
  <1>0. Horizon \in Nat /\ now \in Nat /\ now \in 0..Horizon
    BY SyncAssumption DEF SyncInv, TypeOK
  <1>1. ClosedBy(NoBars, now)
    BY <1>0, NoBarsClosed
  <1>2. NoBars \in Rows(Bars)
    BY <1>0, <1>1, ClosedAreRows
  <1>3. TypeOK'
    BY <1>0, <1>2 DEF SyncInv, TypeOK
  <1>4. NothingLeftOver'
    BY DEF SyncInv, TypeOK, NothingLeftOver
  <1>5. AllClosed'
    BY <1>1 DEF SyncInv, TypeOK, AllClosed
  <1>6. RangesClosed'
    BY <1>0 DEF SyncInv, TypeOK, RangesClosed
  <1> QED BY <1>3, <1>4, <1>5, <1>6 DEF SyncInv

(* The first inductive invariant of the sync: types, what each phase of a  *)
(* job holds, and that neither rows nor ranges reach the forming bar.      *)
LEMMA SyncInvariant == Spec => []SyncInv
  <1>1. SyncInv /\ [Next]_vars => SyncInv'
    <2> SUFFICES ASSUME SyncInv, [Next]_vars PROVE SyncInv'
      OBVIOUS
    <2>0. now \in Nat /\ ClosedBy(file, now) /\ torn \in BOOLEAN
      BY SyncAssumption DEF SyncInv, TypeOK, AllClosed
    <2>1. CASE BarCloses
      BY <2>1, BarClosesInv
    <2>2. CASE StartCron
      BY <2>0, <2>2, BeginningsAreTimes, BeginInv DEF StartCron, Jobs
    <2>3. CASE StartCli
      BY <2>0, <2>3, BeginningsAreTimes, BeginInv DEF StartCli, Jobs
    <2>4. ASSUME NEW j \in Jobs, Step(j) PROVE SyncInv'
      <3>1. CASE Raises(j)
        BY <2>0, <3>1, DroppedInv DEF Raises
      <3> QED
        BY <2>4, <3>1, FetchPageInv, ReadFileInv, WriteFileInv, RepairGapInv, GapsRepairedInv,
           ReadRowInv, CommitRowInv DEF Step
    <2>5. ASSUME NEW j \in Jobs, Fails(j) PROVE SyncInv'
      <3>1. torn' \in BOOLEAN
        BY <2>0, <2>5 DEF Fails
      <3> QED BY <2>5, <3>1, DroppedInv DEF Fails
    <2>6. CASE UNCHANGED vars
      BY <2>6 DEF vars, jobVars, SyncInv, TypeOK, NothingLeftOver, AllClosed, RangesClosed
    <2> QED BY <2>1, <2>2, <2>3, <2>4, <2>5, <2>6 DEF Next
  <1> QED BY <1>1, SyncInitInv, PTL DEF Spec

(* The types of the file, the row and the jobs.                            *)
THEOREM SyncTypeCorrect == Spec => []TypeOK
  BY SyncInvariant, PTL DEF SyncInv

(* The lookahead guard: only bars that were closed when they were fetched  *)
(* are ever stored, for pages, gaps and ranges of any length.              *)
THEOREM OnlyClosedBars == Spec => []ClosedBarsOnly
  <1>1. SyncInv => ClosedBarsOnly
    <2> SUFFICES ASSUME SyncInv, NEW t \in Stored PROVE file[t]
      BY DEF ClosedBarsOnly
    <2>1. ClosedBy(file, now)
      BY DEF SyncInv, AllClosed
    <2>2. file[t] = TRUE
      BY <2>1 DEF ClosedBy, Stored
    <2> QED BY <2>2
  <1> QED BY <1>1, SyncInvariant, PTL

(* A report is current as long as nobody has overtaken its run.            *)
RowInv ==
  /\ RowTellsTruth
  /\ \A j \in Jobs :
       pc[j] = "commit" /\ j \notin overtaken => held[j].new = Report /\ held[j].old = row

(* A step that writes neither the file nor the row, and begins no commit.  *)
LEMMA RowKept ==
  ASSUME RowInv, file' = file, row' = row, stale' = stale,
         \A j \in Jobs : pc'[j] = "commit" /\ j \notin overtaken' =>
                         pc[j] = "commit" /\ j \notin overtaken /\ held'[j] = held[j]
  PROVE  RowInv'
  <1>1. Report' = Report
    BY DEF Report, Stored
  <1> QED BY <1>1 DEF RowInv, RowTellsTruth

(* The row is Report, or the file was written since, or the run that wrote *)
(* it was overtaken.                                                       *)
LEMMA RowInvariant == Spec => []RowInv
  <1>1. Init => RowInv
    BY DEF Init, RowInv, RowTellsTruth
  <1>2. SyncInv /\ RowInv /\ [Next]_vars => RowInv'
    <2> SUFFICES ASSUME SyncInv, RowInv, [Next]_vars PROVE RowInv'
      OBVIOUS
    <2>0. /\ pc \in [Jobs -> {"idle", "page", "read", "write", "gaps", "row", "commit"}]
          /\ DOMAIN held = Jobs
      BY DEF SyncInv, TypeOK
    <2>1. CASE BarCloses \/ UNCHANGED vars
      BY <2>1, RowKept DEF BarCloses, vars, jobVars
    <2>2. ASSUME NEW j \in Jobs, NEW from, Begin(j, from) PROVE RowInv'
      BY <2>0, <2>2, RowKept DEF Begin, Fetch
    <2>3. CASE StartCron \/ StartCli
      BY <2>2, <2>3 DEF StartCron, StartCli, Jobs
    <2>4. ASSUME NEW j \in Jobs, Dropped(j) PROVE RowInv'
      BY <2>0, <2>4, RowKept DEF Dropped
    <2>5. ASSUME NEW j \in Jobs, Fails(j) \/ Raises(j) PROVE RowInv'
      BY <2>4, <2>5 DEF Fails, Raises
    <2>6. ASSUME NEW j \in Jobs, FetchPage(j) \/ ReadFile(j) \/ GapsRepaired(j) PROVE RowInv'
      BY <2>0, <2>6, RowKept DEF FetchPage, ReadFile, GapsRepaired
    <2>7. ASSUME NEW j \in Jobs, RepairGap(j) PROVE RowInv'
      BY <2>0, <2>7, RowKept DEF RepairGap, Fetch
    <2>8. ASSUME NEW j \in Jobs, WriteFile(j) PROVE RowInv'
      <3>1. \A k \in Jobs : pc'[k] = "commit" => k \in overtaken'
        BY <2>0, <2>8 DEF WriteFile, Others
      <3> QED BY <2>8, <3>1 DEF WriteFile, RowInv, RowTellsTruth
    <2>9. ASSUME NEW j \in Jobs, ReadRow(j) PROVE RowInv'
      <3>1. Report' = Report /\ row' = row /\ stale' = stale
        BY <2>9 DEF ReadRow, Report, Stored
      <3>2. held'[j] = [new |-> Report, old |-> row]
        BY <2>0, <2>9 DEF ReadRow
      <3>3. \A k \in Jobs \ {j} : pc'[k] = pc[k] /\ held'[k] = held[k]
        BY <2>0, <2>9 DEF ReadRow
      <3>4. overtaken' = overtaken
        BY <2>9 DEF ReadRow
      <3> QED BY <3>1, <3>2, <3>3, <3>4 DEF RowInv, RowTellsTruth
    <2>10. ASSUME NEW j \in Jobs, CommitRow(j) PROVE RowInv'
      <3>1. Report' = Report
        BY <2>10 DEF CommitRow, Report, Stored
      <3>2. \A k \in Jobs : pc'[k] = "commit" => k \in overtaken'
        BY <2>0, <2>10 DEF CommitRow, Others
      <3>3. ASSUME ~stale' PROVE row' = Report
        <4>1. held[j].new = Report /\ held[j].old = row
          BY <2>10, <3>3 DEF CommitRow, RowInv
        <4>2. Updated(row, Report) = Report
          BY DEF Updated, Report
        <4> QED BY <2>10, <4>1, <4>2 DEF CommitRow
      <3> QED BY <3>1, <3>2, <3>3 DEF RowInv, RowTellsTruth
    <2> QED
      BY <2>1, <2>3, <2>5, <2>6, <2>7, <2>8, <2>9, <2>10 DEF Next, Step
  <1> QED BY <1>1, <1>2, SyncInvariant, PTL DEF Spec

(* Once a run left alone has written the row, it reports the file as it    *)
(* is, until a run writes the file again, for any course of two jobs and   *)
(* their failures.                                                         *)
THEOREM TheRowTellsTheTruth == Spec => []RowTellsTruth
  BY RowInvariant, PTL DEF RowInv

-----------------------------------------------------------------------------
(* What a run left alone has still to fetch.  Its span is its own range    *)
(* until the file is written, and the stored series while it repairs.      *)
From(j) ==
  IF j = Cli THEN BackfillFrom(goal[j])
  ELSE IF Stored # {} THEN LastBar(Stored) + 1 ELSE Max({0, goal[j] - Limit})

Span(j) ==
  IF j \in repairing THEN FirstBar(Stored)..LastBar(Stored) ELSE From(j)..(goal[j] - 1)

Fetched(j) == DOMAIN got[j] \cup DOMAIN merged[j]
ToCome(j)  == since[j]..(until[j] - 1)
InTodo(j, t) == \E g \in todo[j] : g[1] <= t /\ t <= g[2]

(* Nothing the venue has is missing behind the last stored bar.            *)
EndIsWhole(j) ==
  Stored # {} /\ ReachesFile(j)
    => \A t \in (LastBar(Stored) + 1)..(goal[j] - 1) : t \in Unlisted

Fetching(j) == pc[j] \in {"page", "read", "write"} \/ j \in repairing

Whole(j) ==
  /\ Fetching(j) =>
       /\ \A t \in Span(j) : t \in Unlisted \/ t \in Stored \/ t \in Fetched(j)
                             \/ t \in ToCome(j) \/ InTodo(j, t)
       /\ \A t \in Fetched(j) \cup ToCome(j) : t \in Span(j) \/ t \in Stored
       /\ pc[j] = "write" => Stored \subseteq DOMAIN merged[j]
  /\ j \in repairing =>
       /\ Stored # {}
       /\ \A g \in todo[j] : FirstBar(Stored) <= g[1] /\ g[2] <= LastBar(Stored)
  /\ j \in repairing \/ pc[j] \in {"gaps", "row"} => EndIsWhole(j)
  /\ pc[j] = "row" /\ Stored # {} =>
       \A t \in FirstBar(Stored)..LastBar(Stored) : t \in Stored \/ t \in Unlisted

WholeInv == \A j \in Jobs : j \notin overtaken => Whole(j)

(* A step of another job that does not write the file.                     *)
LEMMA WholeKept ==
  ASSUME NEW j \in Jobs, Whole(j), file' = file,
         pc'[j] = pc[j], goal'[j] = goal[j], since'[j] = since[j], until'[j] = until[j],
         got'[j] = got[j], merged'[j] = merged[j], todo'[j] = todo[j],
         (j \in repairing') = (j \in repairing)
  PROVE  Whole(j)'
  BY DEF Whole, Fetching, Span, From, Fetched, ToCome, InTodo, EndIsWhole, ReachesFile, Stored

(* An idle job has nothing to keep whole.                                  *)
LEMMA IdleIsWhole ==
  ASSUME NEW j \in Jobs, pc[j] = "idle", j \notin repairing
  PROVE  Whole(j)
  BY DEF Whole, Fetching

(* The bars a closed file has, as times.                                   *)
LEMMA EndsOfClosed ==
  ASSUME NEW n \in Nat, NEW f, ClosedBy(f, n), NEW S, S = DOMAIN f, S # {}
  PROVE  /\ FirstBar(S) \in S /\ LastBar(S) \in S
         /\ FirstBar(S) \in Nat /\ LastBar(S) \in Nat
         /\ S \subseteq FirstBar(S)..LastBar(S)
         /\ LastBar(S) < n
  <1> DEFINE m == n - 1
  <1>1. m \in Int /\ S \subseteq 0..m /\ m = n - 1
    BY DEF ClosedBy
  <1> HIDE DEF m
  <1>2. /\ FirstBar(S) \in S /\ LastBar(S) \in S
        /\ FirstBar(S) \in 0..m /\ LastBar(S) \in 0..m
        /\ \A t \in S : FirstBar(S) <= t /\ t <= LastBar(S)
    BY <1>1, EndsOfFile
  <1>3. S \subseteq Int
    BY <1>1
  <1> QED BY <1>1, <1>2, <1>3

(* The same of the file.                                                   *)
LEMMA FileEnds ==
  ASSUME SyncInv, Stored # {}
  PROVE  /\ FirstBar(Stored) \in Stored /\ LastBar(Stored) \in Stored
         /\ FirstBar(Stored) \in Nat /\ LastBar(Stored) \in Nat
         /\ Stored \subseteq FirstBar(Stored)..LastBar(Stored)
         /\ LastBar(Stored) < now
  <1>1. now \in Nat /\ ClosedBy(file, now) /\ Stored = DOMAIN file
    BY SyncAssumption DEF SyncInv, TypeOK, AllClosed, Stored
  <1> QED BY <1>1, EndsOfClosed

(* Where a run's range begins.                                             *)
LEMMA FromIsTime ==
  ASSUME SyncInv, NEW j \in Jobs
  PROVE  From(j) \in Nat
  <1>0. Limit \in Nat /\ Lookback \in Nat /\ goal[j] \in Int
    BY SyncAssumption DEF SyncInv, TypeOK
  <1>1. \A x \in Int : Max({0, x}) \in Nat
    <2> TAKE x \in Int
    <2>1. 0 \in Int
      OBVIOUS
    <2>2. Max({0, x}) \in {0, x} /\ 0 <= Max({0, x})
      BY <2>1, ExtremesOfTwo
    <2> QED BY <2>2
  <1> QED BY <1>0, <1>1, FileEnds DEF From, BackfillFrom

(* A run begins with everything of its range to come.                      *)
LEMMA BeginWhole ==
  ASSUME SyncInv, NEW j \in Jobs, Begin(j, From(j)'), From(j)' \in Nat
  PROVE  Whole(j)'
  <1>0. /\ pc[j] = "idle" /\ goal'[j] = now /\ file' = file
        /\ pc'[j] = IF From(j)' < now THEN "page" ELSE "gaps"
        /\ since'[j] = IF From(j)' < now THEN From(j)' ELSE 0
        /\ until'[j] = IF From(j)' < now THEN now ELSE 0
        /\ got'[j] = got[j] /\ merged'[j] = merged[j] /\ todo'[j] = todo[j]
        /\ repairing' = repairing /\ now \in Nat
    BY UntilIsNow, SyncAssumption DEF SyncInv, TypeOK, Begin, Fetch
  <1>1. j \notin repairing /\ got[j] = NoBars /\ merged[j] = NoBars
    BY <1>0 DEF SyncInv, NothingLeftOver
  <1>2. Fetched(j)' = {}
    BY <1>0, <1>1 DEF Fetched, NoBars
  <1>3. Span(j)' = From(j)'..(now - 1)
    BY <1>0, <1>1 DEF Span
  <1>4. CASE From(j)' < now
    <2>1. ToCome(j)' = From(j)'..(now - 1)
      BY <1>0, <1>4 DEF ToCome
    <2> QED BY <1>0, <1>1, <1>2, <1>3, <1>4, <2>1 DEF Whole, Fetching
  <1>5. CASE ~(From(j)' < now)
    <2>1. EndIsWhole(j)'
      <3> SUFFICES ASSUME Stored' # {}, ReachesFile(j)',
                          NEW t \in (LastBar(Stored') + 1)..(now - 1)
                   PROVE  FALSE
        BY <1>0 DEF EndIsWhole
      <3>1. LastBar(Stored') \in Nat
        BY <1>0, FileEnds DEF Stored
      <3>2. From(j)' <= LastBar(Stored') + 1
        BY <1>0, <3>1 DEF From, ReachesFile, Jobs
      <3> QED BY <1>0, <1>5, <3>1, <3>2
    <2> QED BY <1>0, <1>1, <1>5, <2>1 DEF Whole, Fetching
  <1> QED BY <1>4, <1>5

(* What is fetched of a range is fetched whole, page after page.           *)
LEMMA FetchPageWhole ==
  ASSUME SyncInv, NEW j \in Jobs, Whole(j), FetchPage(j)
  PROVE  Whole(j)'
  <1> DEFINE batch == Page(since[j], until[j])
             rows  == Merge(got[j], [t \in batch |-> t < now])
             more  == batch # {} /\ NextSince(batch) < until[j]
  <1>0. /\ Horizon \in Nat /\ now \in 0..Horizon /\ now \in Nat
        /\ since[j] \in Nat /\ until[j] \in Nat /\ until[j] <= now
    BY SyncAssumption DEF SyncInv, TypeOK, RangesClosed
  <1>1. /\ pc[j] = "page" /\ got'[j] = rows
        /\ since'[j] = IF more THEN NextSince(batch) ELSE 0
        /\ until'[j] = IF more THEN until[j] ELSE 0
        /\ pc'[j] = IF more THEN "page" ELSE IF DOMAIN rows # {} THEN "read" ELSE "gaps"
        /\ goal'[j] = goal[j] /\ merged'[j] = merged[j] /\ todo'[j] = todo[j]
        /\ file' = file /\ repairing' = repairing
    BY DEF FetchPage, Page, SyncInv, TypeOK
  <1>2. /\ batch \subseteq since[j]..(until[j] - 1)
        /\ \A t \in since[j]..(until[j] - 1) :
             t \in Unlisted \/ t \in batch \/ (batch # {} /\ LastBar(batch) < t)
    BY <1>0, PageIsWhole
  <1>3. DOMAIN rows = DOMAIN got[j] \cup batch
    BY DEF Merge
  <1> HIDE DEF batch
  <1> HIDE DEF rows
  <1>4. batch # {} => NextSince(batch) \in Nat /\ LastBar(batch) \in batch
                      /\ NextSince(batch) = LastBar(batch) + 1 /\ LastBar(batch) \in Nat
    <2> DEFINE n == until[j] - 1
    <2>1. n \in Int /\ batch \subseteq 0..n
      BY <1>0, <1>2
    <2> HIDE DEF n
    <2>2. ASSUME batch # {} PROVE LastBar(batch) \in 0..n /\ LastBar(batch) \in batch
      BY <2>1, <2>2, EndsOfFile
    <2> QED BY <2>1, <2>2 DEF NextSince
  <1>5. \A t \in ToCome(j) : t \in Unlisted \/ t \in batch \/ t \in ToCome(j)'
    <2> SUFFICES ASSUME NEW t \in ToCome(j), t \notin Unlisted, t \notin batch
                 PROVE  t \in ToCome(j)'
      OBVIOUS
    <2>1. t \in since[j]..(until[j] - 1) /\ t \in Int
      BY <1>0 DEF ToCome
    <2>2. batch # {} /\ LastBar(batch) < t
      BY <1>2, <2>1
    <2>3. NextSince(batch) <= t /\ NextSince(batch) \in Nat
      BY <1>4, <2>1, <2>2
    <2>4. more
      BY <1>0, <2>1, <2>2, <2>3
    <2> QED BY <1>0, <1>1, <2>1, <2>3, <2>4 DEF ToCome
  <1>6. /\ \A t \in ToCome(j)' : t \in ToCome(j)
        /\ \A t \in batch : t \in ToCome(j)
    <2>1. \A t \in batch : t \in ToCome(j)
      BY <1>2 DEF ToCome
    <2>2. CASE more
      <3>1. LastBar(batch) \in since[j]..(until[j] - 1)
        BY <1>2, <1>4, <2>2
      <3> QED BY <1>0, <1>1, <1>4, <2>1, <2>2, <3>1 DEF ToCome
    <2>3. CASE ~more
      BY <1>1, <2>1, <2>3 DEF ToCome
    <2> QED BY <2>2, <2>3
  <1>7. Fetched(j)' = Fetched(j) \cup batch
    BY <1>1, <1>3 DEF Fetched
  <1>8. Span(j)' = Span(j) /\ Stored' = Stored /\ (\A t : InTodo(j, t)' = InTodo(j, t))
    BY <1>1 DEF Span, From, Stored, InTodo
  <1>9. Fetching(j)
    BY <1>1 DEF Fetching
  <1>10. /\ \A t \in Span(j)' : t \in Unlisted \/ t \in Stored' \/ t \in Fetched(j)'
                              \/ t \in ToCome(j)' \/ InTodo(j, t)'
         /\ \A t \in Fetched(j)' \cup ToCome(j)' : t \in Span(j)' \/ t \in Stored'
    BY <1>5, <1>6, <1>7, <1>8, <1>9 DEF Whole
  <1>11. /\ pc'[j] # "write" /\ pc'[j] # "row"
         /\ j \in repairing' =>
              /\ Stored' # {}
              /\ \A g \in todo'[j] : FirstBar(Stored') <= g[1] /\ g[2] <= LastBar(Stored')
    BY <1>1, <1>8 DEF Whole
  <1>12. j \in repairing => EndIsWhole(j)'
    BY <1>1, <1>8 DEF Whole, EndIsWhole, ReachesFile
  <1>13. ASSUME j \notin repairing, pc'[j] = "gaps" PROVE EndIsWhole(j)'
    <2>1. ~more /\ DOMAIN rows = {}
      BY <1>1, <1>13
    <2>2. Fetched(j)' = {} /\ ToCome(j)' = {}
      <3>1. merged[j] = NoBars
        BY <1>1 DEF SyncInv, NothingLeftOver
      <3> QED BY <1>1, <2>1, <3>1 DEF Fetched, ToCome, NoBars
    <2>3. todo'[j] = {}
      BY <1>1, <1>13 DEF SyncInv, NothingLeftOver
    <2>4. \A t \in Span(j)' : t \in Unlisted \/ t \in Stored'
      BY <1>10, <2>2, <2>3 DEF InTodo
    <2> SUFFICES ASSUME Stored' # {}, ReachesFile(j)',
                        NEW t \in (LastBar(Stored') + 1)..(goal'[j] - 1)
                 PROVE  t \in Unlisted
      BY DEF EndIsWhole
    <2>5. LastBar(Stored) \in Nat /\ t \notin Stored /\ goal[j] \in Int
      BY <1>1, <1>8, FileEnds, SyncAssumption DEF SyncInv, TypeOK
    <2>6. From(j)' <= LastBar(Stored') + 1
      BY <1>8, <2>5 DEF From, ReachesFile, Jobs
    <2>7. From(j)' \in Int
      BY <1>0, <1>1, <1>8, <2>5, FromIsTime DEF From
    <2>8. t \in Span(j)'
      BY <1>1, <1>8, <1>13, <2>5, <2>6, <2>7 DEF Span
    <2> QED BY <1>8, <2>4, <2>5, <2>8
  <1> QED BY <1>10, <1>11, <1>12, <1>13, <1>1 DEF Whole

(* What was fetched is merged into what is stored.                         *)
LEMMA ReadFileWhole ==
  ASSUME SyncInv, NEW j \in Jobs, Whole(j), ReadFile(j)
  PROVE  Whole(j)'
  <1>1. /\ pc[j] = "read" /\ pc'[j] = "write"
        /\ merged'[j] = Merge(file, got[j]) /\ got'[j] = NoBars
        /\ goal'[j] = goal[j] /\ since'[j] = since[j] /\ until'[j] = until[j]
        /\ todo'[j] = todo[j] /\ file' = file /\ repairing' = repairing
    BY DEF ReadFile, SyncInv, TypeOK
  <1>2. merged[j] = NoBars
    BY <1>1 DEF SyncInv, NothingLeftOver
  <1>3. Fetched(j)' = Stored \cup Fetched(j) /\ DOMAIN merged'[j] = Stored \cup Fetched(j)
    BY <1>1, <1>2 DEF Fetched, Merge, NoBars, Stored
  <1>4. /\ Span(j)' = Span(j) /\ Stored' = Stored /\ ToCome(j)' = ToCome(j)
        /\ \A t : InTodo(j, t)' = InTodo(j, t)
    BY <1>1 DEF Span, From, Stored, InTodo, ToCome
  <1>5. Fetching(j)
    BY <1>1 DEF Fetching
  <1>6. j \in repairing => EndIsWhole(j)'
    BY <1>1, <1>4 DEF Whole, EndIsWhole, ReachesFile
  <1> QED BY <1>1, <1>3, <1>4, <1>5, <1>6 DEF Whole

(* A run left alone writes over what it has read.                          *)
LEMMA WriteFileWhole ==
  ASSUME SyncInv, NEW j \in Jobs, Whole(j), WriteFile(j)
  PROVE  Whole(j)'
  <1>1. /\ pc[j] = "write" /\ pc'[j] = "gaps"
        /\ file' = merged[j] /\ merged'[j] = NoBars /\ got'[j] = got[j]
        /\ goal'[j] = goal[j] /\ since'[j] = since[j] /\ until'[j] = until[j]
        /\ todo'[j] = todo[j] /\ repairing' = repairing
    BY DEF WriteFile, SyncInv, TypeOK
  <1>2. got[j] = NoBars /\ since[j] = 0 /\ until[j] = 0
    BY <1>1 DEF SyncInv, NothingLeftOver
  <1>3. Stored' = Fetched(j) /\ ToCome(j) = {} /\ Fetched(j)' = {} /\ ToCome(j)' = {}
    BY <1>1, <1>2 DEF Stored, Fetched, ToCome, NoBars
  <1>4. Stored \subseteq Stored' /\ Fetching(j)
    BY <1>1, <1>3 DEF Whole, Fetching, Fetched
  <1>6. Stored' # {} => /\ FirstBar(Stored') \in Stored' /\ LastBar(Stored') \in Stored'
                        /\ FirstBar(Stored') \in Nat /\ LastBar(Stored') \in Nat
                        /\ Stored' \subseteq FirstBar(Stored')..LastBar(Stored')
    <2>1. now' \in Nat /\ ClosedBy(file', now') /\ Stored' = DOMAIN file'
      BY WriteFileInv, SyncAssumption DEF SyncInv, TypeOK, AllClosed, Stored
    <2> QED BY <2>1, EndsOfClosed
  <1>7. CASE j \in repairing
    <2>1. Stored # {} /\ Span(j) = FirstBar(Stored)..LastBar(Stored)
      BY <1>7 DEF Whole, Span
    <2>2. Stored' \subseteq FirstBar(Stored)..LastBar(Stored)
      BY <1>3, <1>4, <2>1, FileEnds DEF Whole
    <2>3. FirstBar(Stored') = FirstBar(Stored) /\ LastBar(Stored') = LastBar(Stored)
      <3>1. /\ FirstBar(Stored) \in Stored' /\ LastBar(Stored) \in Stored'
            /\ FirstBar(Stored) \in Int /\ LastBar(Stored) \in Int
        BY <1>4, <2>1, FileEnds
      <3>3. /\ FirstBar(Stored') \in Stored' /\ LastBar(Stored') \in Stored'
            /\ FirstBar(Stored') \in Nat /\ LastBar(Stored') \in Nat
            /\ Stored' \subseteq FirstBar(Stored')..LastBar(Stored')
        BY <1>6, <3>1
      <3>4. /\ FirstBar(Stored') \in FirstBar(Stored)..LastBar(Stored)
            /\ LastBar(Stored') \in FirstBar(Stored)..LastBar(Stored)
            /\ FirstBar(Stored) \in FirstBar(Stored')..LastBar(Stored')
            /\ LastBar(Stored) \in FirstBar(Stored')..LastBar(Stored')
        BY <2>2, <3>1, <3>3
      <3> QED BY <3>1, <3>3, <3>4
    <2>4. Span(j)' = Span(j)
      BY <1>1, <1>7, <2>1, <2>3 DEF Span
    <2>5. EndIsWhole(j)'
      BY <1>1, <1>4, <1>7, <2>1, <2>3 DEF Whole, EndIsWhole, ReachesFile
    <2>6. \A t : InTodo(j, t)' = InTodo(j, t)
      BY <1>1 DEF InTodo
    <2>7. \A t \in Span(j)' : t \in Unlisted \/ t \in Stored' \/ InTodo(j, t)'
      BY <1>3, <1>4, <2>4, <2>6 DEF Whole
    <2>8. /\ Stored' # {}
          /\ \A g \in todo'[j] : FirstBar(Stored') <= g[1] /\ g[2] <= LastBar(Stored')
      BY <1>1, <1>4, <1>7, <2>1, <2>3 DEF Whole
    <2> QED BY <1>1, <1>3, <2>5, <2>7, <2>8 DEF Whole
  <1>8. CASE j \notin repairing
    <2>1. \A t \in From(j)..(goal[j] - 1) : t \in Unlisted \/ t \in Stored'
      <3>1. \A t : ~InTodo(j, t)
        BY <1>8 DEF SyncInv, NothingLeftOver, InTodo
      <3>2. Span(j) = From(j)..(goal[j] - 1)
        BY <1>8 DEF Span
      <3> QED BY <1>3, <1>4, <3>1, <3>2 DEF Whole
    <2>2. \A t \in Stored' : t \in From(j)..(goal[j] - 1) \/ t \in Stored
      BY <1>3, <1>4, <1>8 DEF Whole, Span
    <2>3. EndIsWhole(j)'
      <3> SUFFICES ASSUME Stored' # {}, ReachesFile(j)',
                          NEW t \in (LastBar(Stored') + 1)..(goal'[j] - 1)
                   PROVE  t \in Unlisted
        BY DEF EndIsWhole
      <3>1. /\ LastBar(Stored') \in Nat /\ LastBar(Stored') \in Stored'
            /\ goal[j] \in Int /\ From(j) \in Nat
        BY <1>6, FromIsTime, SyncAssumption DEF SyncInv, TypeOK
      <3>2. t \notin Stored' /\ t \in Int
        BY <1>6, <3>1
      <3>3. From(j) <= LastBar(Stored') + 1
        <4>1. CASE j = Cli
          BY <1>1, <4>1 DEF From, ReachesFile
        <4>2. CASE j # Cli /\ Stored # {}
          <5>1. LastBar(Stored) \in Stored' /\ LastBar(Stored) \in Nat
            BY <1>4, <4>2, FileEnds
          <5>3. LastBar(Stored) \in FirstBar(Stored')..LastBar(Stored')
            BY <1>6, <5>1
          <5>4. LastBar(Stored) <= LastBar(Stored')
            BY <3>1, <5>1, <5>3
          <5> QED BY <3>1, <4>2, <5>1, <5>4 DEF From
        <4>3. CASE j # Cli /\ Stored = {}
          BY <2>2, <3>1, <4>3
        <4> QED BY <4>1, <4>2, <4>3
      <3>4. t \in From(j)..(goal[j] - 1)
        BY <1>1, <3>1, <3>2, <3>3
      <3> QED BY <2>1, <3>2, <3>4
    <2> QED BY <1>1, <1>8, <2>3 DEF Whole, Fetching
  <1> QED BY <1>7, <1>8

(* The gaps of the stored series lie between its ends, and cover its holes. *)
LEMMA HolesAreGaps ==
  ASSUME SyncInv, Stored # {}
  PROVE  /\ \A g \in FindGaps(Stored, 1) :
              FirstBar(Stored) <= g[1] /\ g[2] <= LastBar(Stored)
         /\ \A t \in FirstBar(Stored)..LastBar(Stored) :
              t \in Stored \/ \E g \in FindGaps(Stored, 1) : g[1] <= t /\ t <= g[2]
  <1> DEFINE n == now - 1
  <1>1. n \in Int /\ Stored \subseteq 0..n
    BY SyncAssumption DEF SyncInv, TypeOK, AllClosed, ClosedBy, Stored
  <1> HIDE DEF n
  <1>2. FirstBar(Stored) \in Nat /\ LastBar(Stored) \in Nat
    BY FileEnds
  <1>3. \A g \in FindGaps(Stored, 1) :
          /\ g[1] \in Int /\ g[2] \in Int
          /\ FirstBar(Stored) < g[1] /\ g[1] <= g[2] /\ g[2] < LastBar(Stored)
    BY <1>1, GapsAreTheHoles
  <1>4. \A t \in Int :
          FirstBar(Stored) <= t /\ t <= LastBar(Stored) /\ t \notin Stored
            => \E g \in FindGaps(Stored, 1) : g[1] <= t /\ t <= g[2]
    BY <1>1, GapsAreTheHoles
  <1> QED BY <1>2, <1>3, <1>4

(* A gap that is being fetched is no longer to do, but to come.            *)
LEMMA RepairGapWhole ==
  ASSUME SyncInv, NEW j \in Jobs, Whole(j), RepairGap(j)
  PROVE  Whole(j)'
  <1>1. PICK g \in Gaps(j) :
          /\ Fetch(j, g[1], GapEnd(g), "gaps")
          /\ todo' = [todo EXCEPT ![j] = Gaps(j) \ {g}]
    BY DEF RepairGap, Foremost
  <1>0. now \in Nat
    BY SyncAssumption DEF SyncInv, TypeOK
  <1>2. g[1] \in Nat /\ g[2] \in Int /\ g[1] < g[2] + 1
    BY <1>0, GapsAreClosed DEF IsGap
  <1>3. /\ pc[j] = "gaps" /\ pc'[j] = "page" /\ since'[j] = g[1] /\ until'[j] = g[2] + 1
        /\ todo'[j] = Gaps(j) \ {g}
        /\ got'[j] = got[j] /\ merged'[j] = merged[j] /\ goal'[j] = goal[j]
        /\ file' = file /\ j \in repairing'
    BY <1>1, <1>2 DEF RepairGap, Fetch, GapEnd, SyncInv, TypeOK
  <1>4. got[j] = NoBars /\ merged[j] = NoBars /\ since[j] = 0 /\ until[j] = 0
    BY <1>3 DEF SyncInv, NothingLeftOver
  <1>5. /\ Fetched(j)' = {} /\ Fetched(j) = {} /\ ToCome(j) = {}
        /\ ToCome(j)' = g[1]..g[2] /\ Stored' = Stored
    <2>1. ToCome(j)' = g[1]..g[2]
      <3>1. ToCome(j)' = since'[j]..(until'[j] - 1)
        BY DEF ToCome
      <3>2. until'[j] - 1 = g[2]
        BY <1>2, <1>3
      <3> QED BY <1>3, <3>1, <3>2
    <2> QED BY <1>2, <1>3, <1>4, <2>1 DEF Fetched, ToCome, NoBars, Stored
  <1>6. EndIsWhole(j)'
    BY <1>3, <1>5 DEF Whole, EndIsWhole, ReachesFile
  <1>7. /\ Stored # {}
        /\ \A h \in Gaps(j) : FirstBar(Stored) <= h[1] /\ h[2] <= LastBar(Stored)
        /\ \A t \in FirstBar(Stored)..LastBar(Stored) :
             t \in Unlisted \/ t \in Stored \/ \E h \in Gaps(j) : h[1] <= t /\ t <= h[2]
    <2>1. CASE j \in repairing
      <3>1. Gaps(j) = todo[j] /\ Fetching(j) /\ Span(j) = FirstBar(Stored)..LastBar(Stored)
        BY <2>1 DEF Gaps, Fetching, Span
      <3> QED BY <1>5, <2>1, <3>1 DEF Whole, InTodo
    <2>2. CASE j \notin repairing
      <3>1. Gaps(j) = FindGaps(Stored, 1) /\ Stored # {}
        BY <2>2, GapsAreClosed DEF Gaps
      <3> QED BY <3>1, HolesAreGaps
    <2> QED BY <2>1, <2>2
  <1>8. Span(j)' = FirstBar(Stored)..LastBar(Stored)
    BY <1>3, <1>5 DEF Span
  <1>9. /\ FirstBar(Stored) \in Nat /\ LastBar(Stored) \in Nat
    BY <1>7, FileEnds
  <1>10. \A t \in ToCome(j)' : t \in Span(j)'
    BY <1>2, <1>5, <1>7, <1>8, <1>9
  <1>11. ASSUME NEW t \in Span(j)', t \notin Unlisted, t \notin Stored'
         PROVE  t \in ToCome(j)' \/ InTodo(j, t)'
    <2>1. t \in Int
      BY <1>8, <1>9
    <2>2. PICK h \in Gaps(j) : h[1] <= t /\ t <= h[2]
      BY <1>5, <1>7, <1>8, <1>11
    <2> QED BY <1>2, <1>3, <1>5, <2>1, <2>2 DEF InTodo
  <1> QED BY <1>3, <1>5, <1>6, <1>7, <1>10, <1>11 DEF Whole

(* With no gap left, every bar between the ends is stored or not listed.   *)
LEMMA GapsRepairedWhole ==
  ASSUME SyncInv, NEW j \in Jobs, Whole(j), GapsRepaired(j)
  PROVE  Whole(j)'
  <1>1. /\ pc[j] = "gaps" /\ pc'[j] = "row" /\ Gaps(j) = {} /\ j \notin repairing'
        /\ file' = file /\ goal'[j] = goal[j]
    BY DEF GapsRepaired, SyncInv, TypeOK
  <1>2. Stored' = Stored
    BY <1>1 DEF Stored
  <1>3. EndIsWhole(j)'
    BY <1>1, <1>2 DEF Whole, EndIsWhole, ReachesFile
  <1>4. ASSUME Stored # {}, NEW t \in FirstBar(Stored)..LastBar(Stored)
        PROVE  t \in Stored \/ t \in Unlisted
    <2>1. CASE j \in repairing
      <3>1. /\ got[j] = NoBars /\ merged[j] = NoBars /\ since[j] = 0 /\ until[j] = 0
            /\ todo[j] = {}
        BY <1>1, <2>1 DEF SyncInv, NothingLeftOver, Gaps
      <3>2. Fetched(j) = {} /\ ToCome(j) = {} /\ ~InTodo(j, t)
        BY <3>1 DEF Fetched, ToCome, InTodo, NoBars
      <3>3. Fetching(j) /\ Span(j) = FirstBar(Stored)..LastBar(Stored)
        BY <2>1 DEF Fetching, Span
      <3> QED BY <1>4, <3>2, <3>3 DEF Whole
    <2>2. CASE j \notin repairing
      <3>1. FindGaps(Stored, 1) = {}
        BY <1>1, <2>2 DEF Gaps
      <3> QED BY <1>4, <3>1, HolesAreGaps
    <2> QED BY <2>1, <2>2
  <1> QED BY <1>1, <1>2, <1>3, <1>4 DEF Whole, Fetching

(* The second inductive invariant of the sync: at every step of a run left *)
(* alone, each bar of its span is stored, fetched, to come, in a gap to    *)
(* do, or not listed.                                                      *)
LEMMA WholeInvariant == Spec => []WholeInv
  <1>1. Init => WholeInv
    BY IdleIsWhole DEF Init, WholeInv
  <1>2. SyncInv /\ SyncInv' /\ WholeInv /\ [Next]_vars => WholeInv'
    <2> SUFFICES ASSUME SyncInv, SyncInv', WholeInv, [Next]_vars,
                        NEW j \in Jobs, j \notin overtaken'
                 PROVE  Whole(j)'
      BY DEF WholeInv
    <2>0. pc \in [Jobs -> {"idle", "page", "read", "write", "gaps", "row", "commit"}]
          /\ DOMAIN held = Jobs /\ DOMAIN todo = Jobs
          /\ goal \in [Jobs -> 0..Horizon] /\ since \in [Jobs -> 0..Horizon]
          /\ until \in [Jobs -> 0..Horizon]
          /\ got \in [Jobs -> Rows(Bars)] /\ merged \in [Jobs -> Rows(Bars)]
      BY DEF SyncInv, TypeOK
    <2>1. ASSUME pc'[j] = "idle" PROVE Whole(j)'
      <3>1. j \notin repairing'
        BY <2>1 DEF SyncInv, NothingLeftOver
      <3> QED BY <2>1, <3>1 DEF Whole, Fetching
    <2>2. CASE BarCloses \/ UNCHANGED vars
      <3>1. Whole(j)
        BY <2>2 DEF WholeInv, BarCloses, vars
      <3> QED BY <2>2, <3>1, WholeKept DEF BarCloses, vars, jobVars
    <2>3. ASSUME NEW k \in Jobs, k # j, NEW from, Begin(k, from) PROVE Whole(j)'
      <3>1. Whole(j)
        BY <2>3 DEF WholeInv, Begin
      <3> QED BY <2>0, <2>3, <3>1, WholeKept DEF Begin, Fetch
    <2>4. CASE StartCron
      <3>1. CASE j = Cron
        <4>1. IncrementalSince = From(j)'
          BY <2>4, <3>1, UntilIsNow, SyncAssumption, <2>0
             DEF StartCron, Begin, From, IncrementalSince, Stored, SyncInv, TypeOK
        <4>2. From(j)' \in Nat
          BY <4>1, BeginningsAreTimes, SyncAssumption DEF SyncInv, TypeOK, AllClosed
        <4> QED BY <2>4, <3>1, <4>1, <4>2, BeginWhole DEF StartCron
      <3>2. CASE j # Cron
        BY <2>3, <2>4, <3>2 DEF StartCron, Jobs
      <3> QED BY <3>1, <3>2
    <2>5. CASE StartCli
      <3>1. CASE j = Cli
        <4>1. BackfillFrom(now) = From(j)'
          BY <2>5, <3>1, UntilIsNow, SyncAssumption, <2>0
             DEF StartCli, Begin, From, BackfillFrom, SyncInv, TypeOK
        <4>2. From(j)' \in Nat
          BY <4>1, BeginningsAreTimes, SyncAssumption DEF SyncInv, TypeOK, AllClosed
        <4> QED BY <2>5, <3>1, <4>1, <4>2, BeginWhole DEF StartCli
      <3>2. CASE j # Cli
        BY <2>3, <2>5, <3>2 DEF StartCli, Jobs
      <3> QED BY <3>1, <3>2
    <2>6. ASSUME NEW k \in Jobs, Dropped(k) PROVE Whole(j)'
      <3>1. CASE k = j
        BY <2>0, <2>1, <2>6, <3>1 DEF Dropped
      <3>2. CASE k # j
        <4>1. Whole(j)
          BY <2>6, <3>2 DEF WholeInv, Dropped
        <4> QED BY <2>0, <2>6, <3>2, <4>1, WholeKept DEF Dropped
      <3> QED BY <3>1, <3>2
    <2>7. ASSUME NEW k \in Jobs, Fails(k) \/ Raises(k) PROVE Whole(j)'
      BY <2>6, <2>7 DEF Fails, Raises
    <2>8. ASSUME NEW k \in Jobs, WriteFile(k) PROVE Whole(j)'
      <3>1. CASE k = j
        BY <2>8, <3>1, WriteFileWhole DEF WholeInv, WriteFile
      <3>2. CASE k # j
        <4>1. pc'[j] = "idle"
          BY <2>0, <2>8, <3>2 DEF WriteFile, Others
        <4> QED BY <2>1, <4>1
      <3> QED BY <3>1, <3>2
    <2>9. ASSUME NEW k \in Jobs, CommitRow(k) PROVE Whole(j)'
      <3>1. CASE k = j
        BY <2>0, <2>1, <2>9, <3>1 DEF CommitRow
      <3>2. CASE k # j
        <4>1. Whole(j)
          BY <2>9, <3>2 DEF WholeInv, CommitRow
        <4> QED BY <2>0, <2>9, <3>2, <4>1, WholeKept DEF CommitRow
      <3> QED BY <3>1, <3>2
    <2>10. ASSUME NEW k \in Jobs,
                  FetchPage(k) \/ ReadFile(k) \/ RepairGap(k) \/ GapsRepaired(k) \/ ReadRow(k)
           PROVE  Whole(j)'
      <3>1. Whole(j)
        BY <2>10 DEF WholeInv, FetchPage, ReadFile, RepairGap, GapsRepaired, ReadRow
      <3>2. CASE k = j /\ ~ReadRow(k)
        BY <2>10, <3>1, <3>2, FetchPageWhole, ReadFileWhole, RepairGapWhole, GapsRepairedWhole
      <3>3. CASE k = j /\ ReadRow(k)
        <4>1. pc'[j] = "commit" /\ j \notin repairing'
          BY <2>0, <3>3 DEF ReadRow, SyncInv, NothingLeftOver
        <4> QED BY <4>1 DEF Whole, Fetching
      <3>4. CASE k # j
        <4>1. CASE FetchPage(k)
          BY <2>0, <3>1, <3>4, <4>1, WholeKept DEF FetchPage
        <4>2. CASE ReadFile(k)
          BY <2>0, <3>1, <3>4, <4>2, WholeKept DEF ReadFile
        <4>3. CASE RepairGap(k)
          BY <2>0, <3>1, <3>4, <4>3, WholeKept DEF RepairGap, Fetch
        <4>4. CASE GapsRepaired(k) \/ ReadRow(k)
          BY <2>0, <3>1, <3>4, <4>4, WholeKept DEF GapsRepaired, ReadRow
        <4> QED BY <2>10, <4>1, <4>2, <4>3, <4>4
      <3> QED BY <3>2, <3>3, <3>4
    <2> QED
      BY <2>2, <2>4, <2>5, <2>7, <2>8, <2>9, <2>10 DEF Next, Step
  <1> QED BY <1>1, <1>2, SyncInvariant, PTL DEF Spec

(* A run left alone leaves no hole the venue could fill, from the first    *)
(* stored bar to the last that was closed when it began, for every page    *)
(* size, whatever the venue lacks, and whatever file it found.             *)
THEOREM ARunLeavesNoHole == Spec => []SyncedIsWhole
  <1>1. SyncInv /\ WholeInv => SyncedIsWhole
    <2> SUFFICES ASSUME SyncInv, WholeInv, NEW j \in Jobs, pc[j] = "row", j \notin overtaken,
                        Stored # {}, ReachesFile(j),
                        NEW t \in FirstBar(Stored)..(goal[j] - 1), t \notin Stored
                 PROVE  t \in Unlisted
      BY DEF SyncedIsWhole
    <2>1. /\ FirstBar(Stored) \in Nat /\ LastBar(Stored) \in Nat /\ goal[j] \in Int
      BY FileEnds, SyncAssumption DEF SyncInv, TypeOK
    <2>2. Whole(j)
      BY DEF WholeInv
    <2>3. CASE t <= LastBar(Stored)
      BY <2>1, <2>2, <2>3 DEF Whole
    <2>4. CASE LastBar(Stored) < t
      BY <2>1, <2>2, <2>4 DEF Whole, EndIsWhole
    <2> QED BY <2>1, <2>3, <2>4
  <1> QED BY <1>1, SyncInvariant, WholeInvariant, PTL

-----------------------------------------------------------------------------
(* The steps of a run.                                                     *)

(* There are finitely many gaps between finitely many bars.                *)
LEMMA GapsAreFinite ==
  ASSUME NEW S, IsFiniteSet(S)
  PROVE  IsFiniteSet(FindGaps(S, 1))
  <1> DEFINE P == {q \in Neighbours(S) : Spacing(q[1], q[2], 1) > 1}
  <1>1. P \subseteq S \X S
    BY DEF Neighbours
  <1>2. IsFiniteSet(P)
    BY <1>1, FS_Product, FS_Subset
  <1> DEFINE f == [p \in P |-> <<p[1] + 1, p[2] - 1>>]
  <1> HIDE DEF P
  <1>3. f \in Surjection(P, {<<p[1] + 1, p[2] - 1>> : p \in P})
    BY DEF Surjection
  <1>4. IsFiniteSet({<<p[1] + 1, p[2] - 1>> : p \in P})
    BY <1>2, <1>3, FS_Surjection
  <1> QED BY <1>4 DEF FindGaps, P

(* A run has finitely many gaps on its list.                               *)
FewGaps == \A j \in Jobs : IsFiniteSet(todo[j])

(* A page that is followed by another is followed by a later one.          *)
LEMMA PageAdvances ==
  ASSUME SyncInv, NEW j \in Jobs, FetchPage(j)
  PROVE  Advances(j)
  <1> DEFINE batch == Page(since[j], until[j])
             more  == batch # {} /\ NextSince(batch) < until[j]
  <1>0. since[j] \in Nat /\ until[j] \in Nat /\ until[j] <= now /\ now \in 0..Horizon
    BY SyncAssumption DEF SyncInv, TypeOK, RangesClosed
  <1>1. /\ pc[j] = "page" /\ pc'[j] \in {"page", "read", "gaps"}
        /\ more => /\ pc'[j] = "page" /\ until'[j] = until[j]
                   /\ since'[j] = NextSince(batch)
        /\ ~more => pc'[j] # "page"
        /\ todo' = todo /\ repairing' = repairing
    <2>1. /\ since' = [since EXCEPT ![j] = IF more THEN NextSince(batch) ELSE 0]
          /\ until' = [until EXCEPT ![j] = IF more THEN @ ELSE 0]
          /\ pc' \in {[pc EXCEPT ![j] = p] : p \in IF more THEN {"page"} ELSE {"read", "gaps"}}
          /\ pc[j] = "page" /\ todo' = todo /\ repairing' = repairing
      BY DEF FetchPage, Page
    <2>2. j \in DOMAIN pc /\ j \in DOMAIN since /\ j \in DOMAIN until
      BY DEF SyncInv, TypeOK
    <2> HIDE DEF more, batch
    <2> QED BY <2>1, <2>2
  <1>2. batch \subseteq since[j]..(until[j] - 1)
    BY <1>0, PageIsWhole
  <1> HIDE DEF batch
  <1>3. Leg(j)' = Leg(j) /\ todo'[j] = todo[j]
    BY <1>1 DEF Leg
  <1>4. CASE more
    <2> DEFINE n == until[j] - 1
    <2>1. n \in Int /\ batch \subseteq 0..n /\ batch # {}
      BY <1>0, <1>2, <1>4
    <2> HIDE DEF n
    <2>2. LastBar(batch) \in batch
      BY <2>1, EndsOfFile
    <2>3. LastBar(batch) \in Int /\ since[j] <= LastBar(batch)
      BY <1>0, <1>2, <2>2
    <2>4. since[j] < NextSince(batch)
      BY <1>0, <2>3 DEF NextSince
    <2> QED BY <1>1, <1>3, <1>4, <2>4 DEF Advances
  <1>5. CASE ~more
    BY <1>1, <1>3, <1>5 DEF Advances, StageNo
  <1> QED BY <1>4, <1>5

(* A repair lists the gaps, once, or takes one off its list.               *)
LEMMA RepairAdvances ==
  ASSUME SyncInv, NEW j \in Jobs, RepairGap(j)
  PROVE  Advances(j)
  <1>1. PICK g \in Gaps(j) :
          /\ Fetch(j, g[1], GapEnd(g), "gaps")
          /\ todo' = [todo EXCEPT ![j] = Gaps(j) \ {g}]
    BY DEF RepairGap, Foremost
  <1>2. /\ pc[j] = "gaps" /\ repairing' = repairing \cup {j}
        /\ pc'[j] \in {"page", "gaps"} /\ todo'[j] = Gaps(j) \ {g}
    BY <1>1 DEF RepairGap, Fetch, SyncInv, TypeOK
  <1>3. CASE j \in repairing
    BY <1>2, <1>3 DEF Gaps, Leg, Advances
  <1>4. CASE j \notin repairing
    BY <1>2, <1>4 DEF Leg, Advances
  <1> QED BY <1>3, <1>4

(* No step of a run goes back, or stays where it is.                       *)
LEMMA StepAdvances ==
  ASSUME SyncInv, NEW j \in Jobs, Step(j)
  PROVE  Advances(j)
  <1>0. pc \in [Jobs -> {"idle", "page", "read", "write", "gaps", "row", "commit"}]
    BY DEF SyncInv, TypeOK
  <1>1. CASE ReadFile(j) \/ WriteFile(j) \/ ReadRow(j)
    <2>1. \/ pc[j] = "read" /\ pc'[j] = "write"
          \/ pc[j] = "write" /\ pc'[j] = "gaps"
          \/ pc[j] = "row" /\ pc'[j] = "commit"
      BY <1>0, <1>1 DEF ReadFile, WriteFile, ReadRow
    <2>2. UNCHANGED <<todo, repairing>>
      BY <1>1 DEF ReadFile, WriteFile, ReadRow
    <2> QED BY <2>1, <2>2 DEF Leg, StageNo, Advances
  <1>2. CASE GapsRepaired(j)
    <2>1. pc[j] = "gaps" /\ pc'[j] = "row"
      BY <1>0, <1>2 DEF GapsRepaired
    <2> QED BY <2>1 DEF Leg, Advances
  <1>3. CASE CommitRow(j) \/ Raises(j)
    <2>1. pc'[j] = "idle"
      BY <1>0, <1>3 DEF CommitRow, Raises, Dropped
    <2> QED BY <2>1 DEF Advances
  <1> QED BY <1>1, <1>2, <1>3, PageAdvances, RepairAdvances DEF Step

(* A run asks for each gap once and for no page twice: its legs are three, *)
(* its gaps finitely many, and the pages of a range begin ever later.      *)
THEOREM RunsAreBounded == Spec => RunAdvances /\ []FewGaps
  <1>1. SyncInv /\ [Next]_vars => [\A j \in Jobs : Step(j) => Advances(j)]_vars
    BY StepAdvances
  <1>2. Init => FewGaps
    BY FS_EmptySet DEF Init, FewGaps
  <1>3. SyncInv /\ FewGaps /\ [Next]_vars => FewGaps'
    <2> SUFFICES ASSUME SyncInv, FewGaps, [Next]_vars PROVE FewGaps'
      OBVIOUS
    <2>1. ASSUME NEW j \in Jobs, RepairGap(j) PROVE FewGaps'
      <3>1. IsFiniteSet(Stored)
        <4> DEFINE n == now - 1
        <4>1. Stored \subseteq 0..n /\ n \in Int
          BY SyncAssumption DEF SyncInv, TypeOK, AllClosed, ClosedBy, Stored
        <4> HIDE DEF n
        <4>2. IsFiniteSet(0..n)
          BY <4>1, FS_Interval
        <4> QED BY <4>1, <4>2, FS_Subset
      <3>2. IsFiniteSet(Gaps(j))
        BY <3>1, GapsAreFinite DEF Gaps, FewGaps
      <3>3. PICK g : todo' = [todo EXCEPT ![j] = Gaps(j) \ {g}]
        BY <2>1 DEF RepairGap
      <3>4. IsFiniteSet(Gaps(j) \ {g})
        BY <3>2, FS_Subset
      <3> QED BY <3>3, <3>4 DEF FewGaps, SyncInv
    <2>2. ASSUME NEW j \in Jobs, Dropped(j) PROVE FewGaps'
      BY <2>2, FS_EmptySet DEF Dropped, FewGaps, SyncInv
    <2>3. CASE UNCHANGED todo
      BY <2>3 DEF FewGaps
    <2> QED
      BY <2>1, <2>2, <2>3 DEF Next, Step, BarCloses, StartCron, StartCli, Begin, FetchPage, ReadFile,
         WriteFile, GapsRepaired, ReadRow, CommitRow, Fails, Raises, vars, jobVars
  <1> QED BY <1>1, <1>2, <1>3, SyncInvariant, PTL DEF Spec, RunAdvances

-----------------------------------------------------------------------------
(* The open-interest poll.                                                 *)

(* What a poll files is filed under the slot it began in, which is on the  *)
(* grid and has begun.                                                     *)
PollInv ==
  /\ now \in 0..LastSecond
  /\ DOMAIN samples = Symbols
  /\ \A s \in Symbols : \A t \in DOMAIN samples[s] :
       /\ t \in Nat /\ t % SlotLength = 0
       /\ samples[s][t] \in t..now
  /\ polling \subseteq Symbols
  /\ slot \in 0..now /\ slot % SlotLength = 0

(* A multiple leaves no remainder.                                         *)
LEMMA MultipleOf ==
  ASSUME NEW q \in Int, NEW n \in Int, n > 0
  PROVE  (q * n) % n = 0
  <1> DEFINE m == q * n  rest == m - n * (m \div n)
  <1>1. m \in Int /\ n * (m \div n) = (m \div n) * n
    BY RoundedDown
  <1>2. m % n = m - n * (m \div n) /\ m % n \in 0..(n - 1)
    BY <1>1
  <1>3. m - n * (m \div n) = (q - (m \div n)) * n
    BY <1>1, RoundedDown
  <1>4. ASSUME NEW k \in Int, k * n \in 0..(n - 1) PROVE k * n = 0
    <2>1. CASE k >= 1
      <3>1. k * n >= n
        BY <2>1
      <3> QED BY <1>4, <3>1
    <2>2. CASE k <= -1
      <3>1. k * n <= -n
        BY <2>2
      <3> QED BY <1>4, <3>1
    <2> QED BY <2>1, <2>2
  <1>5. m \div n \in Int /\ q - (m \div n) \in Int
    BY <1>1, RoundedDown
  <1> HIDE DEF m
  <1>6. m % n = 0
    BY <1>2, <1>3, <1>4, <1>5
  <1> QED BY <1>6 DEF m

(* A time floored to the grid is on the grid and not later.                *)
LEMMA FlooredToGrid ==
  ASSUME NEW t \in Nat, NEW n \in Nat \ {0}
  PROVE  OnGrid(t, n) \in 0..t /\ OnGrid(t, n) % n = 0
  <1>1. t \div n \in Nat /\ (t \div n) * n <= t
    BY RoundedDown
  <1>2. (t \div n) * n \in Nat
    BY <1>1
  <1>3. ((t \div n) * n) % n = 0
    BY <1>1, MultipleOf
  <1> QED BY <1>1, <1>2, <1>3 DEF OnGrid

\* A sample is filed under an opening of the grid and was observed then or later, and the
\* poll under way files under a slot that has begun, for any symbols, slots and pauses.
THEOREM PollTypeCorrect ==
  ASSUME SlotLength \in Nat \ {0}, PollSeconds \in Nat, LastSecond \in Nat
  PROVE  Poll!Spec => []Poll!TypeOK
  <1>1. Poll!Init => PollInv
    <2> SUFFICES ASSUME Poll!Init PROVE PollInv
      OBVIOUS
    <2>1. now = 0 /\ slot = 0 /\ polling = {} /\ samples = [s \in Symbols |-> [t \in {} |-> 0]]
      BY DEF Poll!Init
    <2>2. 0 % SlotLength = 0
      BY FlooredToGrid DEF OnGrid
    <2> QED BY <2>1, <2>2 DEF PollInv
  <1>2. PollInv /\ [Poll!Next]_(Poll!vars) => PollInv'
    <2> SUFFICES ASSUME PollInv, [Poll!Next]_(Poll!vars) PROVE PollInv'
      OBVIOUS
    <2>1. CASE Poll!Poll
      <3>1. slot' = OnGrid(now, SlotLength) /\ polling' = Symbols /\ UNCHANGED <<now, samples>>
        BY <2>1 DEF Poll!Poll, Poll!OnGrid, OnGrid
      <3>2. now \in Nat
        BY DEF PollInv
      <3>3. slot' \in 0..now /\ slot' % SlotLength = 0
        BY <3>1, <3>2, FlooredToGrid
      <3> QED BY <3>1, <3>3 DEF PollInv
    <2>2. CASE Poll!Tick
      BY <2>2 DEF Poll!Tick, PollInv
    <2>3. ASSUME NEW s \in Symbols, Poll!Sampled(s) PROVE PollInv'
      <3>1. /\ polling' = polling \ {s} /\ UNCHANGED <<now, slot>>
            /\ samples' = [samples EXCEPT ![s] = Merge(samples[s], OneRow(slot, now))]
        BY <2>3 DEF Poll!Sampled, Poll!Asked, Poll!Merge, Merge, Poll!OneRow, OneRow
      <3>2. /\ DOMAIN samples' = Symbols
            /\ samples'[s] = Merge(samples[s], OneRow(slot, now))
            /\ \A r \in Symbols \ {s} : samples'[r] = samples[r]
        BY <3>1 DEF PollInv
      <3>3. \A t \in DOMAIN samples'[s] :
              \/ t = slot /\ samples'[s][t] = now
              \/ t \in DOMAIN samples[s] /\ samples'[s][t] = samples[s][t]
        BY <3>2 DEF Merge, OneRow
      <3>4. \A r \in Symbols : \A t \in DOMAIN samples'[r] :
              t \in Nat /\ t % SlotLength = 0 /\ samples'[r][t] \in t..now
        BY <3>2, <3>3 DEF PollInv
      <3> QED BY <3>1, <3>2, <3>4 DEF PollInv
    <2>4. ASSUME NEW s \in Symbols, Poll!Skipped(s) PROVE PollInv'
      BY <2>4 DEF Poll!Skipped, Poll!Asked, PollInv
    <2>5. CASE UNCHANGED Poll!vars
      BY <2>5 DEF Poll!vars, PollInv
    <2> QED BY <2>1, <2>2, <2>3, <2>4, <2>5 DEF Poll!Next
  <1>3. PollInv => Poll!TypeOK
    BY DEF PollInv, Poll!TypeOK
  <1> QED BY <1>1, <1>2, <1>3, PTL DEF Poll!Spec
=============================================================================
