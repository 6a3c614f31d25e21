------------------------ MODULE LiquidationCollector ------------------------
(***************************************************************************)
(* The collector of forced liquidations (backend/app/data/collectors/      *)
(* liquidations.py) and the job that folds them into minutes (alpha.py).   *)
(*                                                                         *)
(* The venue pushes an event once; after a reconnect it may push the last  *)
(* ones again.  What is heard waits in a buffer for a flush, which inserts *)
(* every row that the table does not hold.  Event i happened at            *)
(* tradeTime[i]; times are seconds.  The clock moves in every state: while *)
(* the loop waits, and while it is held up between two readings of the     *)
(* clock, or in the await of a flush.                                      *)
(***************************************************************************)
EXTENDS BarSeries, Sequences, SequencesExt

CONSTANTS
  BatchRows, BatchSeconds, \* a flush is due at so many rows, or so long after the last
  MaxBackoff,              \* the longest pause before a reconnect
  MinuteLength,            \* LIQ_BAR_MS
  FoldWindow,              \* how far back the folding job looks
  LastSecond, MaxEvents, MaxDrops \* bounds

ASSUME LiqAssumption ==
  /\ {BatchRows, BatchSeconds, FoldWindow, LastSecond, MaxEvents, MaxDrops} \subseteq Nat
  /\ {MaxBackoff, MinuteLength} \subseteq Nat \ {0}

VARIABLES
  clock,
  tradeTime,  \* the events so far
  wire,       \* those on their way, in order
  loop,       \* connecting, wait, listening, flush, flushAndDrop, asleep, stopped
  buffer,     \* what was heard and is not flushed, in order, repetitions included
  lastFlush,
  timer,      \* when the wait for a message, or the pause, ends
  backoff,
  table,      \* the liquidations table: dedup_key is unique
  minutes,    \* the minutes' file: the events summed up in each
  \* History.
  heardAt,    \* when each event was first heard
  late,       \* for how long the loop was held up since what is in the buffer came
  lost,       \* events of a flush that failed
  drops       \* bound: lost connections and failed flushes

loopVars == <<loop, buffer, lastFlush, timer, backoff, heardAt, late, lost, drops>>
liqVars == <<clock, tradeTime, wire, table, loopVars, minutes>>

Events == 1..MaxEvents
Buffered == Range(buffer)

LiqInit ==
  /\ clock = 0 /\ tradeTime = <<>> /\ wire = <<>> /\ table = {}
  /\ loop = "connecting" /\ buffer = <<>> /\ lastFlush = 0 /\ timer = 0 /\ backoff = 1
  /\ heardAt = <<>> /\ late = <<>> /\ lost = {} /\ drops = 0
  /\ minutes = [m \in {} |-> {}]

(***************************************************************************)
(* The venue.                                                              *)
(***************************************************************************)

\* Nobody hears an event while the connection is down.
Connected == loop \in {"wait", "listening", "flush"}

Liquidated ==
  /\ Len(tradeTime) < MaxEvents
  /\ tradeTime' = Append(tradeTime, clock)
  /\ wire' = IF Connected THEN Append(wire, Len(tradeTime) + 1) ELSE wire
  /\ UNCHANGED <<clock, table, loopVars, minutes>>

\* async with connect(target): the wire carries nothing, or the last event once more.
Connect ==
  /\ loop = "connecting"
  /\ wire' \in {<<>>} \cup {<<i>> : i \in {Len(tradeTime)} \ {0}}
  /\ backoff' = 1
  /\ loop' = "wait"
  /\ UNCHANGED <<clock, tradeTime, table, buffer, lastFlush, timer, heardAt, late, lost,
                 drops, minutes>>

(***************************************************************************)
(* The loop.                                                               *)
(***************************************************************************)

\* seconds_until_deadline() or batch_seconds: a buffer that has become due since is_due was
\* asked leaves 0, and is waited with for as long as a new one.
TimeLeft ==
  IF buffer = <<>> THEN BatchSeconds ELSE Max({0, BatchSeconds - (clock - lastFlush)})
Timeout_Whole == BatchSeconds

Timeout == IF TimeLeft = 0 THEN BatchSeconds ELSE TimeLeft

Wait ==
  /\ loop = "wait"
  /\ timer' = clock + Timeout
  /\ loop' = "listening"
  /\ UNCHANGED <<clock, tradeTime, wire, table, buffer, lastFlush, backoff, heardAt, late,
                 lost, drops, minutes>>

IsDue(b) == b # <<>> /\ (Len(b) >= BatchRows \/ clock - lastFlush >= BatchSeconds)

Receive ==
  /\ loop = "listening" /\ wire # <<>>
  /\ wire' = Tail(wire)
  /\ buffer' = Append(buffer, Head(wire))
  /\ heardAt' = IF Head(wire) \in DOMAIN heardAt THEN heardAt
                ELSE Merge(heardAt, OneRow(Head(wire), clock))
  /\ late' = [i \in Range(buffer') |-> IF i \in Buffered THEN late[i] ELSE 0]
  /\ loop' = IF IsDue(buffer') THEN "flush" ELSE "wait"
  /\ UNCHANGED <<clock, tradeTime, table, lastFlush, timer, backoff, lost, drops, minutes>>

TimedOut ==
  /\ loop = "listening" /\ clock >= timer
  /\ loop' = "flush"
  /\ UNCHANGED <<clock, tradeTime, wire, table, buffer, lastFlush, timer, backoff, heardAt, late,
                 lost, drops, minutes>>

\* The transport fails; what is buffered is flushed before the pause.
Drop ==
  /\ loop \in {"connecting", "listening"}
  /\ drops < MaxDrops /\ drops' = drops + 1
  /\ wire' = <<>>
  /\ loop' = "flushAndDrop"
  /\ UNCHANGED <<clock, tradeTime, table, buffer, lastFlush, timer, backoff, heardAt, late,
                 lost, minutes>>

\* INSERT ... ON CONFLICT (dedup_key) DO NOTHING.
InsertIgnore(rows) == table \cup rows
AfterFlush == IF loop = "flush" THEN "wait" ELSE "asleep"

Emptied ==
  /\ buffer' = <<>> /\ late' = <<>>
  /\ lastFlush' = clock
  /\ loop' = AfterFlush
  /\ timer' = IF loop = "flush" THEN timer ELSE clock + backoff
  /\ backoff' = IF loop = "flush" THEN backoff ELSE Min({2 * backoff, MaxBackoff})
  /\ UNCHANGED <<clock, tradeTime, wire, heardAt, minutes>>

Flush ==
  /\ loop \in {"flush", "flushAndDrop"}
  /\ table' = InsertIgnore(Buffered)
  /\ Emptied
  /\ UNCHANGED <<lost, drops>>

\* The failure is logged and the rows are gone.
FlushFails ==
  /\ loop \in {"flush", "flushAndDrop"} /\ buffer # <<>>
  /\ drops < MaxDrops /\ drops' = drops + 1
  /\ lost' = lost \cup (Buffered \ table)
  /\ Emptied
  /\ UNCHANGED table

Reconnect ==
  /\ loop = "asleep" /\ clock >= timer
  /\ loop' = "connecting"
  /\ UNCHANGED <<clock, tradeTime, wire, table, buffer, lastFlush, timer, backoff, heardAt, late,
                 lost, drops, minutes>>

\* shutdown() and Ctrl-C cancel the task: CancelledError is raised again at once.
Cancel ==
  /\ loop \in {"connecting", "listening", "flush", "flushAndDrop", "asleep"}
  /\ loop' = "stopped"
  /\ wire' = <<>>
  /\ UNCHANGED <<clock, tradeTime, table, buffer, lastFlush, timer, backoff, heardAt, late, lost,
                 drops, minutes>>

\* The loop has something to do, and the process or the database is slow.
HeldUp ==
  \/ loop \in {"wait", "flush", "flushAndDrop"}
  \/ loop = "listening" /\ (wire # <<>> \/ clock >= timer)

LiqTick ==
  /\ clock < LastSecond
  /\ clock' = clock + 1
  /\ late' = IF HeldUp THEN [i \in Buffered |-> late[i] + 1] ELSE late
  /\ UNCHANGED <<tradeTime, wire, table, loop, buffer, lastFlush, timer, backoff, heardAt, lost,
                 drops, minutes>>

(***************************************************************************)
(* aggregate_liquidations, every five minutes: read the window, sum it by  *)
(* minutes and write those over the file's.                                *)
(***************************************************************************)

MinuteOf(i) == OnGrid(tradeTime[i], MinuteLength)
WindowStart == Max({0, clock - FoldWindow})

Summed(rows) == [m \in {MinuteOf(i) : i \in rows} |-> {i \in rows : MinuteOf(i) = m}]

Fold ==
  /\ minutes' = Merge(minutes, Summed({i \in table : tradeTime[i] >= WindowStart}))
  /\ UNCHANGED <<clock, tradeTime, wire, table, loopVars>>

LiqNext ==
  \/ Liquidated \/ LiqTick
  \/ Connect \/ Wait \/ Receive \/ TimedOut \/ Drop \/ Flush \/ FlushFails \/ Reconnect \/ Cancel
  \/ Fold

LiqSpec == LiqInit /\ [][LiqNext]_liqVars

(***************************************************************************)
(* Properties.                                                             *)
(***************************************************************************)

LiqTypeOK ==
  /\ clock \in 0..LastSecond
  /\ tradeTime \in Seq(0..LastSecond) /\ Len(tradeTime) <= MaxEvents
  /\ wire \in Seq(Events) /\ buffer \in Seq(Events)
  /\ loop \in {"connecting", "wait", "listening", "flush", "flushAndDrop", "asleep", "stopped"}
  /\ Buffered \subseteq DOMAIN heardAt /\ table \cup lost \subseteq DOMAIN heardAt
  /\ DOMAIN heardAt \subseteq Events /\ \A i \in DOMAIN heardAt : heardAt[i] \in 0..clock
  /\ late \in [Buffered -> Nat]
  /\ lastFlush \in 0..clock /\ timer \in Nat /\ backoff \in 1..MaxBackoff
  /\ \A m \in DOMAIN minutes : minutes[m] \subseteq table
  /\ drops \in 0..MaxDrops

\* What was heard is stored at most BatchSeconds later, whatever messages arrive in the
\* meantime and whenever connections drop, unless its flush failed or the task was
\* cancelled.  Where the loop was held up for a time, that time comes on top, and another
\* BatchSeconds if it was held up past the deadline (liquidations.py:196-207, 265-277).
HeardIsStoredSoon ==
  \A i \in DOMAIN heardAt :
    \/ i \in table \cup lost
    \/ loop = "stopped"
    \/ /\ i \in Buffered
       /\ clock - heardAt[i] - late[i] <= (IF late[i] = 0 THEN 1 ELSE 2) * BatchSeconds
=============================================================================
