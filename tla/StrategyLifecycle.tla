------------------------- MODULE StrategyLifecycle --------------------------
(***************************************************************************)
(* The life of a strategy and its versions (backend/app/strategy/service,  *)
(* regen, scheduler) under requests and jobs that overlap: the operator's  *)
(* edits, decisions and switches through the API and the chat, the weekly  *)
(* and the queued re-optimization, and the trading loop that pauses a      *)
(* degraded strategy.                                                      *)
(*                                                                         *)
(* Each is a transaction.  It loads the rows, decides on what it loaded,   *)
(* and at its commit writes the columns it set to another value than the   *)
(* one it loaded: the later commit wins, column by column.  Genomes,       *)
(* names and audit rows are left out; a version is its place in the order  *)
(* of commits.                                                             *)
(***************************************************************************)
EXTENDS Integers, Sequences

CONSTANTS
  Clients,     \* requests and jobs that may be in flight together
  Idle,
  MaxVersions, MaxLoads  \* bounds

VARIABLES
  mode,      \* Strategy.mode
  active,    \* Strategy.active_version_id
  versions,  \* the strategy_versions rows
  record,    \* the paper trades pass the promotion gate
  txn,       \* the transaction of each client, or Idle
  loads,     \* bound: transactions begun
  \* History.
  onPaper,   \* approved versions that were active while the switch stood at paper
  approved, rejected,
  contested, \* versions decided on by two transactions in flight together
  switched  \* versions in the course of whose approval the switch moved

dbVars == <<mode, active, versions>>
history == <<onPaper, approved, rejected, contested, switched>>
lifeVars == <<dbVars, record, txn, loads, history>>

Modes == {"off", "paper", "live"}
Statuses == {"candidate", "paper", "live", "retired", "pending_approval"}
Versions == 1..Len(versions)
StatusOf(v) == versions[v].status

\* create_strategy: version 1 is a candidate, switched off.
LifeInit ==
  /\ mode = "off" /\ active = 1
  /\ versions = <<[number |-> 1, status |-> "candidate", parent |-> 0, generated |-> FALSE]>>
  /\ record = FALSE
  /\ txn = [c \in Clients |-> Idle] /\ loads = 0
  /\ onPaper = {} /\ approved = {} /\ rejected = {} /\ contested = {} /\ switched = {}

Running == mode # "off" /\ StatusOf(active) \in {"candidate", "paper", "live"}

\* The strategy trades on paper, and its record gets better or worse.
PaperTrades ==
  /\ Running
  /\ record' = ~record
  /\ UNCHANGED <<dbVars, txn, loads, history>>

GateOpen == record

(***************************************************************************)
(* A transaction loads the strategy and the version it is about.           *)
(***************************************************************************)

\* What a transaction is about, and what it found there and sets: of the version its
\* status, of the strategy the switch.
Load(c, cmd, v, status, loaded, to) ==
  /\ txn[c] = Idle
  /\ loads < MaxLoads /\ loads' = loads + 1
  /\ txn' = [txn EXCEPT ![c] =
       [cmd |-> cmd, about |-> v, status |-> status, mode |-> loaded, to |-> to, number |-> 0]]
  /\ UNCHANGED <<dbVars, record, history>>

LoadVersion(c, cmd, v) == Load(c, cmd, v, StatusOf(v), "off", "off")
LoadSwitch(c, cmd, to) == Load(c, cmd, 1, "candidate", mode, to)

\* POST /strategies/{id}/versions; a new version is about its parent.
BeginEdit(c) == Load(c, "edit", active, "candidate", "off", "off")

\* The operator's re-optimization, and the job that a degradation queued.
BeginRegenerate(c) == Load(c, "regenerate", active, "candidate", "off", "off")

HasPending == \E v \in Versions : StatusOf(v) = "pending_approval"

\* The weekly one skips what is off, not runnable, or has a proposal waiting.
BeginScheduled(c) == Running /\ ~HasPending /\ BeginRegenerate(c)

\* Going live is refused unless the promotion gate is open.
BeginSetMode(c) ==
  \E to \in Modes : (to = "live" => GateOpen) /\ LoadSwitch(c, "mode", to)

\* The trading loop found the strategy degraded, while it was on.
BeginDegrade(c) == mode # "off" /\ LoadSwitch(c, "mode", "off")

Undecided_Any(v) == versions[v].generated

\* _pending_version.
Undecided(v) == StatusOf(v) = "pending_approval"

BeginApprove(c) ==
  \E v \in Versions : Undecided(v) /\ Load(c, "approve", v, StatusOf(v), mode, "paper")
BeginReject(c) ==
  \E v \in Versions : Undecided(v) /\ LoadVersion(c, "reject", v)

Promotable == StatusOf(active) \in {"candidate", "paper"}
BeginPromote(c) == Promotable /\ LoadVersion(c, "promote", active)
BeginRetire(c)  == Load(c, "retire", active, StatusOf(active), mode, "off")

(***************************************************************************)
(* A new version takes its number from those committed so far.             *)
(***************************************************************************)

Highest(n) == n \in {versions[v].number : v \in Versions} /\ \A v \in Versions : versions[v].number <= n

Adds(c) == txn[c].cmd \in {"edit", "regenerate"}

TakeNumber(c) ==
  /\ txn[c] # Idle /\ Adds(c) /\ txn[c].number = 0
  /\ Len(versions) < MaxVersions
  /\ \E v \in Versions :
       /\ Highest(versions[v].number)
       /\ txn' = [txn EXCEPT ![c].number = versions[v].number + 1]
  /\ UNCHANGED <<dbVars, record, loads, history>>

(***************************************************************************)
(* Commits.                                                                *)
(***************************************************************************)

Written_Row(loaded, set, now) == set

\* The column of a row: written only if it was set to another value than was loaded.
Written(loaded, set, now) == IF set = loaded THEN now ELSE set

ModeSet_Kept(t) == IF t.cmd = "approve" THEN t.mode ELSE t.to

ModeSet(t) == t.to

StatusSet(t) ==
  CASE t.cmd = "approve" -> "paper"
    [] t.cmd \in {"reject", "retire"} -> "retired"
    [] t.cmd = "promote" -> IF t.status = "candidate" THEN "paper" ELSE "live"
    [] t.cmd \in {"edit", "regenerate", "mode"} -> t.status

AddedVersion(t) ==
  [number |-> t.number, parent |-> t.about, generated |-> t.cmd = "regenerate",
   status |-> IF t.cmd = "regenerate" THEN "pending_approval" ELSE "candidate"]

\* Every add_version but a generated one moves the active pointer to its version.
ActiveAfter(t) ==
  CASE t.cmd = "edit" -> Len(versions) + 1
    [] t.cmd = "approve" -> t.about
    [] t.cmd \in {"regenerate", "mode", "reject", "promote", "retire"} -> active

Deciders(v) == {d \in Clients : txn[d] # Idle /\ txn[d].cmd \in {"approve", "reject"}
                                /\ txn[d].about = v}

CommitTransaction(c) ==
  /\ txn[c] # Idle
  /\ Adds(c) => txn[c].number > 0
  /\ LET t == txn[c]
         stored == [versions EXCEPT ![t.about].status = Written(t.status, StatusSet(t), @)]
     IN /\ mode' = Written(t.mode, ModeSet(t), mode)
        /\ active' = ActiveAfter(t)
        /\ versions' = IF Adds(c) THEN Append(stored, AddedVersion(t)) ELSE stored
        /\ approved' = approved \cup {v \in {t.about} : t.cmd = "approve"}
        /\ onPaper' = onPaper \cup {v \in approved' \cap {active'} : mode' = "paper"}
        /\ rejected' = rejected \cup {v \in {t.about} : t.cmd = "reject"}
        /\ contested' = contested \cup {v \in {t.about} : c \in Deciders(v) /\ Deciders(v) # {c}}
        /\ switched' = switched \cup {v \in {t.about} : t.cmd = "approve" /\ mode # t.mode}
        /\ txn' = [txn EXCEPT ![c] = Idle]
  /\ UNCHANGED <<record, loads>>

\* The request fails, the tick is rolled back, or the producer finds nothing.
Abort(c) ==
  /\ txn[c] # Idle
  /\ txn' = [txn EXCEPT ![c] = Idle]
  /\ UNCHANGED <<dbVars, record, loads, history>>

BeginTransaction(c) ==
  \/ BeginEdit(c) \/ BeginRegenerate(c) \/ BeginScheduled(c)
  \/ BeginSetMode(c) \/ BeginDegrade(c)
  \/ BeginApprove(c) \/ BeginReject(c) \/ BeginPromote(c) \/ BeginRetire(c)

LifeNext ==
  \/ PaperTrades
  \/ \E c \in Clients : BeginTransaction(c) \/ TakeNumber(c) \/ CommitTransaction(c) \/ Abort(c)

LifeSpec == LifeInit /\ [][LifeNext]_lifeVars

(***************************************************************************)
(* Properties.                                                             *)
(***************************************************************************)

VersionRows == [number : Nat \ {0}, status : Statuses, parent : Nat, generated : BOOLEAN]

LifeTypeOK ==
  /\ mode \in Modes /\ active \in Versions
  /\ versions \in Seq(VersionRows)
  /\ record \in BOOLEAN
  /\ \A v \in Versions : versions[v].parent < v /\ versions[v].number <= v
  /\ onPaper \cup approved \cup rejected \cup contested \cup switched \subseteq Versions

\* The gate of promotion stays human: a generated version is active only after it was
\* approved, and the first decision on it stands, whatever edits, promotions and
\* retirements overlap.  Two decisions can both go through only if they overlap.
DecidedOnce ==
  \A v \in Versions : versions[v].generated =>
    /\ v = active => v \in approved
    /\ v \in rejected \ contested => v # active /\ StatusOf(v) = "retired"
    /\ v \in approved \ contested => v \notin rejected

\* "it runs in paper": an approved version does not go live before it was switched to
\* paper, unless the switch moved between the loading of the strategy and the commit of
\* the approval, which then may leave the switch as it is.
ApprovedPapersFirst ==
  mode = "live" /\ active \in approved => active \in onPaper \cup switched

\* A paused strategy stays paused: whatever was in flight when it was switched off, only
\* an approval, or a command that asks for another mode than it found, switches it on.
OnlyCommandsSwitchOn ==
  [][mode = "off" /\ mode' # "off" =>
       \E c \in Clients : /\ txn[c] # Idle /\ txn'[c] = Idle
                          /\ txn[c].cmd \in {"mode", "approve"}
                          /\ txn[c].to = mode' /\ txn[c].mode # mode']_lifeVars
=============================================================================
