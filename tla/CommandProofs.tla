--------------------------- MODULE CommandProofs ----------------------------
(***************************************************************************)
(* What holds of the requests people make: of the life of a strategy for   *)
(* any number of requests and jobs in flight, of versions and of           *)
(* transactions; of the chat commands for any number of messages, lost     *)
(* answers, failures and restarts; and of the research jobs for any number *)
(* of requests and attempts.                                               *)
(***************************************************************************)
EXTENDS StrategyLifecycle, TelegramControl, ResearchJobs, FiniteSetTheorems, TLAPS

-----------------------------------------------------------------------------
(* The life of a strategy.                                                 *)

Cmds == {"edit", "regenerate", "mode", "approve", "reject", "promote", "retire"}
Deciding == {"approve", "reject"}

Txn == [cmd : Cmds, about : Nat, status : Statuses, mode : Modes, to : Modes, number : Nat]

(* A transaction in flight: what it set says which command it is, a        *)
(* decision is on a version that was pending when it was loaded, and one    *)
(* that somebody else has decided since is contested; what moves or ends   *)
(* the active version was loaded when that version was approved.           *)
Flying(t) ==
  /\ t \in Txn
  /\ t.about \in Versions /\ t.number <= Len(versions) + 1
  /\ t.cmd \notin {"mode", "approve"} => t.to = "off"
  /\ t.cmd = "approve" => t.to = "paper"
  /\ t.cmd \in Deciding => /\ t.status = "pending_approval"
                           /\ t.about \in approved \cup rejected => t.about \in contested
  /\ (t.cmd \in {"promote", "retire"} /\ versions[t.about].generated) => t.about \in approved

(* A version that is pending was not decided on; a generated one that is   *)
(* active was approved, and one that was rejected, uncontested, is retired *)
(* and was not approved.                                                   *)
Decided(v) ==
  /\ StatusOf(v) = "pending_approval" => v \notin approved \cup rejected
  /\ versions[v].generated =>
       /\ v = active => v \in approved
       /\ v \in rejected \ contested => StatusOf(v) = "retired" /\ v \notin approved

LifeInv ==
  /\ LifeTypeOK
  /\ \A c \in Clients : txn[c] = Idle \/ Flying(txn[c])
  /\ DOMAIN txn = Clients
  /\ \A v \in Versions : Decided(v)
  /\ approved \subseteq onPaper \cup switched

(* A strategy begins with one version and nothing in flight.               *)
LEMMA InitLife == LifeInit => LifeInv
  <1> SUFFICES ASSUME LifeInit PROVE LifeInv
    OBVIOUS
  <1>1. versions \in Seq(VersionRows)
    BY DEF LifeInit, Statuses, VersionRows
  <1>2. Versions = {1} /\ versions[1].status = "candidate" /\ versions[1].parent = 0
        /\ versions[1].number = 1 /\ versions[1].generated = FALSE
    BY DEF LifeInit, Versions
  <1>3. mode \in Modes /\ active \in Versions /\ record \in BOOLEAN
    BY <1>2 DEF LifeInit, Modes
  <1>4. \A v \in Versions : versions[v].parent < v /\ versions[v].number <= v
    BY <1>2
  <1>5. onPaper \cup approved \cup rejected \cup contested \cup switched \subseteq Versions
    BY DEF LifeInit
  <1>6. LifeTypeOK
    BY <1>1, <1>3, <1>4, <1>5 DEF LifeTypeOK
  <1> QED
    BY <1>2, <1>6 DEF LifeInit, LifeInv, Decided, StatusOf

(* Steps that commit nothing leave the rows and the history alone.         *)
Rows == <<mode, active, versions, onPaper, approved, rejected, contested, switched>>

(* What leaves the rows alone may change what is in flight for what is in  *)
(* order.                                                                  *)
LEMMA RowsKept ==
  ASSUME LifeInv, UNCHANGED Rows, record' \in BOOLEAN,
         DOMAIN txn' = Clients,
         \A c \in Clients : txn'[c] = Idle \/ Flying(txn'[c])
  PROVE  LifeInv'
  <1>1. LifeTypeOK'
    BY DEF LifeInv, LifeTypeOK, Rows, Versions
  <1>2. \A t : Flying(t) => Flying(t)'
    BY DEF Rows, Flying, Versions
  <1>3. \A c \in Clients : txn'[c] = Idle \/ Flying(txn[c])'
    BY <1>2 DEF Rows, Flying, Versions
  <1>4. \A v \in Versions' : Decided(v)'
    BY DEF LifeInv, Rows, Decided, StatusOf, Versions
  <1> QED
    BY <1>1, <1>3, <1>4 DEF LifeInv, Rows

(* So may one client's transaction.                                        *)
LEMMA TxnSet ==
  ASSUME LifeInv, UNCHANGED Rows, record' = record,
         NEW c \in Clients, NEW t, txn' = [txn EXCEPT ![c] = t],
         t = Idle \/ Flying(t)
  PROVE  LifeInv'
  <1>1. record' \in BOOLEAN
    BY DEF LifeInv, LifeTypeOK
  <1>2. DOMAIN txn' = Clients /\ \A d \in Clients : txn'[d] = Idle \/ Flying(txn'[d])
    BY DEF LifeInv
  <1> QED
    BY <1>1, <1>2, RowsKept

(* What a transaction loads is in order.                                   *)
LEMMA BeginKeeps ==
  ASSUME LifeInv, NEW c \in Clients, BeginTransaction(c)
  PROVE  LifeInv'
  <1> DEFINE T(cmd, v, was, loaded, to) ==
        [cmd |-> cmd, about |-> v, status |-> was, mode |-> loaded, to |-> to, number |-> 0]
  <1> USE DEF Versions, Statuses, Modes
  <1>a. /\ Len(versions) \in Nat /\ active \in Versions /\ mode \in Modes
        /\ \A v \in Versions : versions[v] \in VersionRows
    BY DEF LifeInv, LifeTypeOK
  <1>b. \A v \in Versions : StatusOf(v) \in Statuses
    BY <1>a DEF StatusOf, VersionRows
  <1>0. ASSUME NEW cmd, NEW v, NEW was, NEW loaded, NEW to,
               Load(c, cmd, v, was, loaded, to), Flying(T(cmd, v, was, loaded, to))
        PROVE  LifeInv'
    <2>1. UNCHANGED Rows /\ record' = record /\ txn' = [txn EXCEPT ![c] = T(cmd, v, was, loaded, to)]
      BY <1>0 DEF Load, Rows, dbVars, history
    <2> QED
      BY <1>0, <2>1, TxnSet
  <1>1. ASSUME BeginEdit(c) \/ BeginRegenerate(c) \/ BeginScheduled(c) PROVE LifeInv'
    <2>1. ASSUME NEW cmd \in {"edit", "regenerate"}
          PROVE  Flying(T(cmd, active, "candidate", "off", "off"))
      BY <1>a DEF Flying, Txn, Cmds, Deciding
    <2> QED
      BY <1>0, <1>1, <2>1 DEF BeginEdit, BeginRegenerate, BeginScheduled
  <1>2. ASSUME BeginSetMode(c) \/ BeginDegrade(c) PROVE LifeInv'
    <2>1. PICK to \in Modes : Load(c, "mode", 1, "candidate", mode, to)
      BY <1>2 DEF BeginSetMode, BeginDegrade, LoadSwitch
    <2>2. Flying(T("mode", 1, "candidate", mode, to))
      BY <1>a DEF Flying, Txn, Cmds, Deciding
    <2> QED
      BY <1>0, <2>1, <2>2
  <1>3. ASSUME BeginApprove(c) \/ BeginReject(c) PROVE LifeInv'
    <2>1. PICK v \in Versions : /\ StatusOf(v) = "pending_approval"
                                /\ \/ Load(c, "approve", v, StatusOf(v), mode, "paper")
                                   \/ Load(c, "reject", v, StatusOf(v), "off", "off")
      BY <1>3 DEF BeginApprove, BeginReject, Undecided, LoadVersion
    <2>2. v \notin approved \cup rejected
      BY <2>1 DEF LifeInv, Decided
    <2>3. /\ Flying(T("approve", v, StatusOf(v), mode, "paper"))
          /\ Flying(T("reject", v, StatusOf(v), "off", "off"))
      BY <1>a, <2>1, <2>2 DEF Flying, Txn, Cmds, Deciding
    <2> QED
      BY <1>0, <2>1, <2>3
  <1>4. ASSUME BeginPromote(c) \/ BeginRetire(c) PROVE LifeInv'
    <2>1. versions[active].generated => active \in approved
      BY <1>a DEF LifeInv, Decided
    <2>2. /\ Flying(T("promote", active, StatusOf(active), "off", "off"))
          /\ Flying(T("retire", active, StatusOf(active), mode, "off"))
      BY <1>a, <1>b, <2>1 DEF Flying, Txn, Cmds, Deciding
    <2> QED
      BY <1>0, <1>4, <2>2 DEF BeginPromote, BeginRetire, LoadVersion
  <1> QED
    BY <1>1, <1>2, <1>3, <1>4 DEF BeginTransaction

(* A number is taken under the rows there are.                             *)
LEMMA TakeNumberKeeps ==
  ASSUME LifeInv, NEW c \in Clients, TakeNumber(c)
  PROVE  LifeInv'
  <1>1. PICK v \in Versions : txn' = [txn EXCEPT ![c].number = versions[v].number + 1]
    BY DEF TakeNumber
  <1> DEFINE t == [txn[c] EXCEPT !.number = versions[v].number + 1]
  <1>2. txn' = [txn EXCEPT ![c] = t]
    BY <1>1 DEF LifeInv
  <1>3. Flying(txn[c])
    BY DEF LifeInv, TakeNumber
  <1>4. versions[v].number \in Nat /\ versions[v].number + 1 <= Len(versions) + 1
    <2>1. versions[v] \in VersionRows /\ versions[v].number <= v /\ v \in 1..Len(versions)
          /\ Len(versions) \in Nat
      BY DEF LifeInv, LifeTypeOK, Versions
    <2> QED
      BY <2>1 DEF VersionRows
  <1>5. /\ t \in Txn /\ t.number = versions[v].number + 1
        /\ \A f \in {"cmd", "about", "status", "mode", "to"} : t[f] = txn[c][f]
    BY <1>3, <1>4 DEF Flying, Txn
  <1>6. Flying(t)
    <2> HIDE DEF t
    <2> QED BY <1>3, <1>4, <1>5 DEF Flying
  <1>7. UNCHANGED Rows /\ record' = record
    BY DEF TakeNumber, Rows, dbVars, history
  <1> QED
    BY <1>2, <1>6, <1>7, TxnSet

(* An abort leaves nothing behind.                                         *)
LEMMA AbortKeeps ==
  ASSUME LifeInv, NEW c \in Clients, Abort(c)
  PROVE  LifeInv'
  <1>1. UNCHANGED Rows /\ record' = record /\ txn' = [txn EXCEPT ![c] = Idle]
    BY DEF Abort, Rows, dbVars, history
  <1> QED
    BY <1>1, TxnSet

(* The paper record only comes to exist.                                   *)
LEMMA PaperTradesKeeps ==
  ASSUME LifeInv, PaperTrades
  PROVE  LifeInv'
  <1>1. UNCHANGED Rows /\ txn' = txn /\ record' = ~record
    BY DEF PaperTrades, Rows, dbVars, history
  <1>2. record' \in BOOLEAN
    BY <1>1
  <1> QED
    BY <1>1, <1>2, RowsKept DEF LifeInv

(***************************************************************************)
(* A commit.                                                               *)
(***************************************************************************)

(* The rows of before keep their number, parent and origin, and change     *)
(* their status only where the transaction is about them; a new row goes   *)
(* to the end.                                                             *)
StatusAfter(t, v) == IF v = t.about THEN Written(t.status, StatusSet(t), StatusOf(v)) ELSE StatusOf(v)

(* A command sets one of the statuses.                                     *)
LEMMA StatusSetType ==
  ASSUME NEW t \in Txn
  PROVE  StatusSet(t) \in Statuses
  BY DEF StatusSet, Txn, Cmds, Statuses

(* The rows after a commit: one more if it adds a version, the rest as     *)
(* they were but for the status it sets.                                   *)
LEMMA RowsAfter ==
  ASSUME LifeInv, NEW c \in Clients, CommitTransaction(c)
  PROVE  LET t == txn[c] IN
         /\ versions' \in Seq(VersionRows)
         /\ Len(versions') = Len(versions) + (IF Adds(c) THEN 1 ELSE 0)
         /\ \A v \in Versions : /\ versions'[v].number = versions[v].number
                                /\ versions'[v].parent = versions[v].parent
                                /\ versions'[v].generated = versions[v].generated
                                /\ versions'[v].status = StatusAfter(t, v)
         /\ Adds(c) => versions'[Len(versions) + 1] = AddedVersion(t)
  <1> DEFINE t == txn[c]
             a == t.about
             s == Written(t.status, StatusSet(t), versions[a].status)
             stored == [versions EXCEPT ![a].status = s]
  <1>1. Flying(t) /\ Adds(c) => t.number > 0
    BY DEF LifeInv, CommitTransaction
  <1>2. /\ versions \in Seq(VersionRows) /\ a \in 1..Len(versions) /\ Len(versions) \in Nat
        /\ Flying(t) /\ t \in Txn
    BY <1>1 DEF LifeInv, LifeTypeOK, Flying, Versions, CommitTransaction
  <1>0. versions[a] \in VersionRows
    BY <1>2
  <1>3. s \in Statuses
    <2>1. versions[a].status \in Statuses
      BY <1>0 DEF VersionRows
    <2> QED
      BY <1>2, <2>1, StatusSetType DEF Written
  <1>4. versions' = IF Adds(c) THEN Append(stored, AddedVersion(t)) ELSE stored
    BY DEF CommitTransaction
  <1>5. [versions[a] EXCEPT !.status = s] \in VersionRows
    BY <1>0, <1>3 DEF VersionRows
  <1>6. stored \in Seq(VersionRows) /\ Len(stored) = Len(versions)
    BY <1>2, <1>5
  <1>7. \A v \in Versions : /\ stored[v].number = versions[v].number
                           /\ stored[v].parent = versions[v].parent
                           /\ stored[v].generated = versions[v].generated
                           /\ stored[v].status = StatusAfter(t, v)
    <2> SUFFICES ASSUME NEW v \in Versions
                 PROVE  /\ stored[v].number = versions[v].number
                        /\ stored[v].parent = versions[v].parent
                        /\ stored[v].generated = versions[v].generated
                        /\ stored[v].status = StatusAfter(t, v)
      OBVIOUS
    <2>1. versions[v] \in VersionRows
      BY <1>2 DEF Versions
    <2>2. CASE v = a
      BY <1>2, <2>1, <2>2 DEF VersionRows, StatusAfter, StatusOf, Versions
    <2>3. CASE v # a
      BY <1>2, <2>1, <2>3 DEF StatusAfter, StatusOf, Versions
    <2> QED
      BY <2>2, <2>3
  <1>8. Adds(c) => AddedVersion(t) \in VersionRows
    BY <1>1, <1>2 DEF AddedVersion, VersionRows, Txn, Statuses
  <1> HIDE DEF stored
  <1> QED
    BY <1>2, <1>4, <1>6, <1>7, <1>8 DEF Versions

(* What the history says after a commit.                                   *)
LEMMA HistoryAfter ==
  ASSUME LifeInv, NEW c \in Clients, CommitTransaction(c)
  PROVE  LET t == txn[c] IN
         /\ \A v : v \in approved' <=> v \in approved \/ (v = t.about /\ t.cmd = "approve")
         /\ \A v : v \in rejected' <=> v \in rejected \/ (v = t.about /\ t.cmd = "reject")
         /\ contested \subseteq contested' /\ contested' \subseteq contested \cup {t.about}
         /\ onPaper \subseteq onPaper' /\ switched \subseteq switched'
         /\ t.cmd \in Deciding => \A d \in Clients \ {c} :
              (txn[d] # Idle /\ txn[d].cmd \in Deciding /\ txn[d].about = t.about)
                => t.about \in contested'
  <1> DEFINE t == txn[c]
  <1>1. /\ approved' = approved \cup {v \in {t.about} : t.cmd = "approve"}
        /\ rejected' = rejected \cup {v \in {t.about} : t.cmd = "reject"}
        /\ contested' = contested \cup {v \in {t.about} : c \in Deciders(v) /\ Deciders(v) # {c}}
        /\ onPaper \subseteq onPaper' /\ switched \subseteq switched' /\ t # Idle
    BY DEF CommitTransaction
  <1>2. ASSUME t.cmd \in Deciding, NEW d \in Clients \ {c},
               txn[d] # Idle, txn[d].cmd \in Deciding, txn[d].about = t.about
        PROVE  t.about \in contested'
    <2>1. c \in Deciders(t.about) /\ d \in Deciders(t.about)
      BY <1>1, <1>2 DEF Deciders, Deciding
    <2> QED
      BY <1>1, <2>1
  <1> QED
    BY <1>1, <1>2

(* A commit keeps the types and every version.                             *)
LEMMA CommitKeepsType ==
  ASSUME LifeInv, NEW c \in Clients, CommitTransaction(c)
  PROVE  LifeTypeOK' /\ Versions \subseteq Versions'
  <1> DEFINE t == txn[c]
             n == Len(versions)
  <1>1. /\ n \in Nat /\ Flying(t) /\ t \in Txn /\ t.about \in Versions /\ t.number <= n + 1
        /\ Adds(c) => t.number > 0
        /\ mode \in Modes /\ active \in Versions /\ record \in BOOLEAN
        /\ \A v \in Versions : versions[v].parent < v /\ versions[v].number <= v
        /\ onPaper \cup approved \cup rejected \cup contested \cup switched \subseteq Versions
    BY DEF LifeInv, LifeTypeOK, Flying, CommitTransaction
  <1>2. /\ versions' \in Seq(VersionRows) /\ Len(versions') = n + (IF Adds(c) THEN 1 ELSE 0)
        /\ \A v \in Versions : /\ versions'[v].number = versions[v].number
                               /\ versions'[v].parent = versions[v].parent
        /\ Adds(c) => versions'[n + 1] = AddedVersion(t)
    BY RowsAfter
  <1>3. Versions' = IF Adds(c) THEN Versions \cup {n + 1} ELSE Versions
    <2>1. CASE Adds(c)
      BY <1>1, <1>2, <2>1 DEF Versions
    <2>2. CASE ~Adds(c)
      BY <1>1, <1>2, <2>2 DEF Versions
    <2> QED
      BY <2>1, <2>2
  <1>4. mode' \in Modes
    BY <1>1 DEF CommitTransaction, Written, ModeSet, Txn
  <1>5. active' \in Versions'
    <2>1. active' = ActiveAfter(t)
      BY DEF CommitTransaction
    <2>2. CASE t.cmd = "edit"
      BY <1>3, <2>1, <2>2 DEF ActiveAfter, Adds
    <2>3. CASE t.cmd # "edit"
      BY <1>1, <1>3, <2>1, <2>3 DEF ActiveAfter, Txn, Cmds
    <2> QED
      BY <2>2, <2>3
  <1>6. \A v \in Versions' : versions'[v].parent < v /\ versions'[v].number <= v
    <2>1. Adds(c) => AddedVersion(t).parent = t.about /\ AddedVersion(t).number = t.number
      BY DEF AddedVersion
    <2>2. t.about < n + 1
      BY <1>1 DEF Versions
    <2> QED
      BY <1>1, <1>2, <1>3, <2>1, <2>2
  <1>7. onPaper' \cup approved' \cup rejected' \cup contested' \cup switched' \subseteq Versions'
    BY <1>1, <1>3, <1>5 DEF CommitTransaction
  <1>8. record' \in BOOLEAN
    BY <1>1 DEF CommitTransaction
  <1> QED
    BY <1>2, <1>3, <1>4, <1>5, <1>6, <1>7, <1>8 DEF LifeTypeOK

(* A decision on a version that another one decides on contests it.        *)
LEMMA CommitKeepsFlying ==
  ASSUME LifeInv, NEW c \in Clients, CommitTransaction(c), NEW d \in Clients \ {c}, txn[d] # Idle
  PROVE  Flying(txn[d])'
  <1> DEFINE t == txn[c]
             u == txn[d]
  <1>1. /\ Flying(u) /\ u \in Txn /\ u.about \in Versions /\ u.number <= Len(versions) + 1
    BY DEF LifeInv, Flying
  <1>2. Versions \subseteq Versions' /\ Len(versions') >= Len(versions) /\ Len(versions') \in Nat
        /\ Len(versions) \in Nat /\ u.number \in Nat
    BY <1>1, CommitKeepsType, RowsAfter DEF LifeInv, LifeTypeOK, Txn
  <1>3. txn'[d] = u
    BY DEF CommitTransaction, LifeInv
  <1>4. u.about \in Versions' /\ u.number <= Len(versions') + 1
    BY <1>1, <1>2
  <1>5. ASSUME u.cmd \in Deciding, u.about \in approved' \cup rejected'
        PROVE  u.about \in contested'
    <2>1. CASE u.about \in approved \cup rejected
      BY <1>1, <1>5, <2>1, HistoryAfter DEF Flying
    <2>2. CASE u.about \notin approved \cup rejected
      <3>1. u.about = t.about /\ t.cmd \in Deciding
        BY <1>5, <2>2, HistoryAfter DEF Deciding
      <3> QED
        BY <1>5, <3>1, HistoryAfter
    <2> QED
      BY <2>1, <2>2
  <1>6. ASSUME u.cmd \in {"promote", "retire"}, versions'[u.about].generated
        PROVE  u.about \in approved'
    <2>1. versions[u.about].generated
      BY <1>1, <1>6, RowsAfter
    <2> QED
      BY <1>1, <1>6, <2>1, HistoryAfter DEF Flying
  <1>7. /\ u.cmd \notin {"mode", "approve"} => u.to = "off"
        /\ u.cmd = "approve" => u.to = "paper"
        /\ u.cmd \in Deciding => u.status = "pending_approval"
    BY <1>1 DEF Flying
  <1> QED
    BY <1>1, <1>3, <1>4, <1>5, <1>6, <1>7 DEF Flying

(* The version a commit is about, by what the command sets.                *)
LEMMA CommitDecides ==
  ASSUME LifeInv, NEW c \in Clients, CommitTransaction(c), NEW v, v = txn[c].about
  PROVE  Decided(v)'
  <1> DEFINE t == txn[c]
  <1>0. v = t.about
    OBVIOUS
  <1>1. /\ Flying(t) /\ t \in Txn /\ v \in Versions /\ Decided(v) /\ t.cmd \in Cmds
    BY <1>0 DEF LifeInv, Flying, CommitTransaction, Txn
  <1>2. /\ versions'[v].generated = versions[v].generated
        /\ StatusOf(v)' = Written(t.status, StatusSet(t), StatusOf(v))
    BY <1>0, <1>1, RowsAfter DEF StatusAfter, StatusOf
  <1>3. /\ v \in approved' <=> v \in approved \/ t.cmd = "approve"
        /\ v \in rejected' <=> v \in rejected \/ t.cmd = "reject"
        /\ v \in contested => v \in contested'
    BY <1>0, HistoryAfter
  <1>4. active' = v => active = v \/ t.cmd = "approve"
    <2>1. active' = ActiveAfter(t) /\ v # Len(versions) + 1
      BY <1>1 DEF CommitTransaction, LifeInv, LifeTypeOK, Versions
    <2> QED
      BY <1>0, <1>1, <2>1 DEF ActiveAfter, Cmds
  <1>5. CASE t.cmd \in {"edit", "regenerate", "mode"}
    <2>1. StatusOf(v)' = StatusOf(v)
      BY <1>2, <1>5 DEF StatusSet, Written
    <2>2. (v \in approved' <=> v \in approved) /\ (v \in rejected' <=> v \in rejected)
          /\ (active' = v => active = v) /\ versions'[v].status = versions[v].status
      BY <1>3, <1>4, <1>5, <2>1 DEF StatusOf
    <2>3. (contested \subseteq contested')
      BY <1>3, HistoryAfter
    <2> QED
      BY <1>1, <1>2, <2>2, <2>3 DEF Decided, StatusOf
  <1>6. CASE t.cmd = "approve"
    <2>1. StatusOf(v)' = "paper"
      BY <1>1, <1>2, <1>6 DEF StatusSet, Written, Flying, Deciding
    <2>2. v \in rejected' => v \in contested'
      BY <1>1, <1>3, <1>6 DEF Flying, Deciding
    <2> QED
      BY <1>3, <1>6, <2>1, <2>2 DEF Decided, StatusOf
  <1>7. CASE t.cmd = "reject"
    <2>1. StatusOf(v)' = "retired"
      BY <1>1, <1>2, <1>7 DEF StatusSet, Written, Flying, Deciding
    <2>2. v \in approved' => v \in contested'
      BY <1>1, <1>3, <1>7 DEF Flying, Deciding
    <2>3. versions'[v].generated /\ v = active' => v \in approved'
      BY <1>1, <1>2, <1>3, <1>4, <1>7 DEF Decided
    <2> QED
      BY <2>1, <2>2, <2>3 DEF Decided, StatusOf
  <1>8. CASE t.cmd \in {"promote", "retire"}
    <2>1. StatusSet(t) # "pending_approval"
      BY <1>8 DEF StatusSet
    <2>2. StatusOf(v)' = "pending_approval" => StatusOf(v) = "pending_approval"
      BY <1>2, <2>1 DEF Written
    <2>3. (v \in approved' <=> v \in approved) /\ (v \in rejected' <=> v \in rejected)
      BY <1>3, <1>8
    <2>4. versions'[v].generated => v \in approved /\ ~(v \in rejected \ contested)
      BY <1>1, <1>2, <1>8 DEF Flying, Decided
    <2>5. v \in rejected' \ contested' => v \in rejected \ contested
      BY <1>3, <2>3
    <2>6. StatusOf(v) = "pending_approval" => v \notin approved \cup rejected
      BY <1>1 DEF Decided
    <2> QED
      BY <2>2, <2>3, <2>4, <2>5, <2>6 DEF Decided, StatusOf
  <1> QED
    BY <1>1, <1>5, <1>6, <1>7, <1>8 DEF Cmds

(* A commit keeps the invariant: its parts put together.                   *)
LEMMA CommitKeeps ==
  ASSUME LifeInv, NEW c \in Clients, CommitTransaction(c)
  PROVE  LifeInv'
  <1> DEFINE t == txn[c]
             n == Len(versions)
  <1>1. LifeTypeOK' /\ Versions \subseteq Versions'
    BY CommitKeepsType
  <1>2. \A d \in Clients : txn'[d] = Idle \/ Flying(txn[d])'
    <2>1. txn' = [txn EXCEPT ![c] = Idle] /\ DOMAIN txn = Clients
      BY DEF CommitTransaction, LifeInv
    <2>2. ASSUME NEW d \in Clients \ {c}, txn[d] # Idle PROVE Flying(txn[d])'
      BY <2>2, CommitKeepsFlying
    <2>3. \A d \in Clients \ {c} : txn'[d] = txn[d]
      BY <2>1
    <2> QED
      BY <2>1, <2>2, <2>3
  <1>3. DOMAIN txn' = Clients
    BY DEF CommitTransaction, LifeInv
  <1>4. ASSUME NEW v \in Versions' PROVE Decided(v)'
    <2>1. /\ n \in Nat /\ active \in Versions /\ Decided(t.about) /\ t.about \in Versions
          /\ approved \cup rejected \subseteq Versions /\ t \in Txn
      BY DEF LifeInv, LifeTypeOK, Flying, CommitTransaction
    <2>2. CASE v = t.about
      BY <2>2, CommitDecides
    <2>3. CASE v \in Versions /\ v # t.about
      <3>1. versions'[v].generated = versions[v].generated /\ StatusOf(v)' = StatusOf(v)
        BY <2>3, RowsAfter DEF StatusAfter, StatusOf
      <3>2. /\ v \in approved' <=> v \in approved
            /\ v \in rejected' <=> v \in rejected
            /\ v \in contested => v \in contested'
        BY <2>3, HistoryAfter
      <3>3. active' = v => active = v
        <4>1. active' = ActiveAfter(t) /\ v # n + 1
          BY <2>1, <2>3 DEF CommitTransaction, Versions
        <4> QED
          BY <2>1, <2>3, <4>1 DEF ActiveAfter, Txn, Cmds
      <3>4. Decided(v)
        BY <2>3 DEF LifeInv
      <3> QED
        BY <3>1, <3>2, <3>3, <3>4 DEF Decided, StatusOf
    <2>4. CASE v \notin Versions
      <3>1. Adds(c) /\ v = n + 1
        BY <2>1, <2>4, RowsAfter, <1>1 DEF LifeTypeOK, Versions
      <3>2. versions'[v] = AddedVersion(t)
        BY <3>1, RowsAfter
      <3>3. v \notin approved' \cup rejected'
        BY <2>1, <2>4, HistoryAfter
      <3>4. AddedVersion(t).generated => t.cmd = "regenerate"
        BY DEF AddedVersion
      <3>5. t.cmd = "regenerate" => active' = active
        BY DEF CommitTransaction, ActiveAfter
      <3> QED
        BY <2>1, <2>4, <3>2, <3>3, <3>4, <3>5 DEF Decided, StatusOf
    <2> QED
      BY <2>2, <2>3, <2>4
  <1>5. approved' \subseteq onPaper' \cup switched'
    <2>1. approved \subseteq onPaper' \cup switched'
      BY HistoryAfter DEF LifeInv
    <2>2. ASSUME t.cmd = "approve" PROVE t.about \in onPaper' \cup switched'
      <3>1. t.to = "paper" /\ active' = t.about /\ t.about \in approved'
        BY <2>2, HistoryAfter DEF LifeInv, Flying, CommitTransaction, ActiveAfter
      <3>2. mode' = IF t.mode = "paper" THEN mode ELSE "paper"
        BY <3>1 DEF CommitTransaction, Written, ModeSet
      <3>3. /\ mode' = "paper" => t.about \in onPaper'
            /\ mode # t.mode => t.about \in switched'
        BY <2>2, <3>1 DEF CommitTransaction
      <3> QED
        BY <3>2, <3>3
    <2> QED
      BY <2>1, <2>2, HistoryAfter
  <1> QED
    BY <1>1, <1>2, <1>3, <1>4, <1>5 DEF LifeInv

(* Every step keeps the invariant.                                         *)
LEMMA NextKeeps ==
  ASSUME LifeInv, [LifeNext]_lifeVars
  PROVE  LifeInv'
  <1>1. CASE PaperTrades
    BY <1>1, PaperTradesKeeps
  <1>2. ASSUME NEW c \in Clients, BeginTransaction(c) \/ TakeNumber(c) \/ CommitTransaction(c) \/ Abort(c)
        PROVE  LifeInv'
    BY <1>2, BeginKeeps, TakeNumberKeeps, CommitKeeps, AbortKeeps
  <1>3. CASE UNCHANGED lifeVars
    <2>1. UNCHANGED Rows /\ record' = record /\ txn' = txn
      BY <1>3 DEF lifeVars, dbVars, history, Rows
    <2> QED
      BY <2>1, RowsKept DEF LifeInv, LifeTypeOK
  <1> QED
    BY <1>1, <1>2, <1>3 DEF LifeNext

(***************************************************************************)
(* Theorems.                                                               *)
(***************************************************************************)

\* However the edits, decisions, switches and jobs on a strategy overlap, a transaction
\* in flight on a version that was decided on meanwhile is one whose version is
\* contested, and every version is accounted for by the decisions on it.
THEOREM LifeInvariant == LifeSpec => []LifeInv
  <1>1. LifeInit => LifeInv
    BY InitLife
  <1>2. LifeInv /\ [LifeNext]_lifeVars => LifeInv'
    BY NextKeeps
  <1> QED
    BY <1>1, <1>2, PTL DEF LifeSpec

\* A version has a positive number no higher than its place, and an earlier parent; the
\* active pointer and the decisions are about versions that exist.
THEOREM LifeTypeCorrect == LifeSpec => []LifeTypeOK
  <1>1. LifeInv => LifeTypeOK
    BY DEF LifeInv
  <1> QED
    BY <1>1, LifeInvariant, PTL

\* The human gate: a generated version is active only once approved, and the first of
\* two decisions stands unless they overlapped.
THEOREM GateStaysHuman == LifeSpec => []DecidedOnce
  <1>1. LifeInv => DecidedOnce
    BY DEF LifeInv, Decided, DecidedOnce
  <1> QED
    BY <1>1, LifeInvariant, PTL

\* An approved version was on paper before it is live, or the switch moved under its
\* approval.
THEOREM PaperComesFirst == LifeSpec => []ApprovedPapersFirst
  <1>1. LifeInv => ApprovedPapersFirst
    BY DEF LifeInv, ApprovedPapersFirst
  <1> QED
    BY <1>1, LifeInvariant, PTL

\* Only an approval, or a command for another mode than it found, switches a strategy on.
THEOREM PauseIsHeld == LifeSpec => OnlyCommandsSwitchOn
  <1>1. ASSUME LifeInv, [LifeNext]_lifeVars, mode = "off", mode' # "off"
        PROVE  \E c \in Clients : /\ txn[c] # Idle /\ txn'[c] = Idle
                                  /\ txn[c].cmd \in {"mode", "approve"}
                                  /\ txn[c].to = mode' /\ txn[c].mode # mode'
    <2>1. PICK c \in Clients : CommitTransaction(c)
      BY <1>1 DEF LifeNext, lifeVars, dbVars, history, PaperTrades, BeginTransaction, TakeNumber, Abort, Load,
                  BeginEdit, BeginRegenerate, BeginScheduled, BeginSetMode, BeginDegrade,
                  BeginApprove, BeginReject, BeginPromote, BeginRetire, LoadVersion, LoadSwitch
    <2>2. txn[c] # Idle /\ Flying(txn[c]) /\ txn'[c] = Idle
      BY <1>1, <2>1 DEF CommitTransaction, LifeInv
    <2>3. mode' = txn[c].to /\ txn[c].mode # mode'
      BY <1>1, <2>1 DEF CommitTransaction, Written, ModeSet
    <2> QED
      BY <1>1, <2>2, <2>3 DEF Flying
  <1>2. LifeInv /\ [LifeNext]_lifeVars =>
          [mode = "off" /\ mode' # "off" =>
             \E c \in Clients : /\ txn[c] # Idle /\ txn'[c] = Idle
                                /\ txn[c].cmd \in {"mode", "approve"}
                                /\ txn[c].to = mode' /\ txn[c].mode # mode']_lifeVars
    BY <1>1
  <1> QED
    BY <1>2, LifeInvariant, PTL DEF LifeSpec, OnlyCommandsSwitchOn

-----------------------------------------------------------------------------
(* The chat commands.                                                      *)

Done == audited \cup failed

(* Updates are numbered from one.  What the poller has read past, and what  *)
(* the server has forgotten, was handled; so was what comes before an       *)
(* update of the batch and is no longer in it.                              *)
ChatInv ==
  \E k \in Nat :
    /\ Updates = 1..k
    /\ forgotten \in 1..(k + 1) /\ offset \in 0..(k + 1) /\ batch \subseteq Updates
    /\ \A i \in Updates : i < forgotten \/ i < offset => i \in Done
    /\ \A j \in batch : \A i \in Updates : i < j => i \in batch \/ i \in Done

(* No update was sent at the start.                                        *)
LEMMA InitChat == ChatInit => ChatInv
  <1> SUFFICES ASSUME ChatInit PROVE ChatInv
    OBVIOUS
  <1>1. Updates = 1..0
    BY DEF ChatInit, Updates
  <1> QED
    BY <1>1 DEF ChatInit, ChatInv

(* Until the next message the updates are what they were.                  *)
LEMMA SameUpdates ==
  ASSUME NEW k \in Nat, Updates = 1..k, chat' = chat,
         forgotten' \in 1..(k + 1), offset' \in 0..(k + 1), batch' \subseteq 1..k,
         \A i \in 1..k : i < forgotten' \/ i < offset' => i \in Done',
         \A j \in batch' : \A i \in 1..k : i < j => i \in batch' \/ i \in Done'
  PROVE  ChatInv'
  <1>1. Updates' = 1..k
    BY DEF Updates
  <1> QED
    BY <1>1 DEF ChatInv

(* One more update, which nobody has asked for.                            *)
LEMMA SendKeeps ==
  ASSUME ChatInv, Send
  PROVE  ChatInv'
  <1>1. PICK k \in Nat :
          /\ Updates = 1..k
          /\ forgotten \in 1..(k + 1) /\ offset \in 0..(k + 1) /\ batch \subseteq Updates
          /\ \A i \in Updates : i < forgotten \/ i < offset => i \in Done
          /\ \A j \in batch : \A i \in Updates : i < j => i \in batch \/ i \in Done
    BY DEF ChatInv
  <1>2. Cardinality(1..k) = k
    BY <1>1, FS_Interval
  <1>3. Updates' = 1..(k + 1)
    <2>1. Updates' = 1..k \cup {k + 1}
      BY <1>1, <1>2 DEF Send, Updates
    <2> QED
      BY <1>1, <2>1
  <1>4. UNCHANGED <<forgotten, offset, batch, Done>>
    BY DEF Send, Done
  <1>5. /\ \A i \in Updates' : i < forgotten \/ i < offset => i \in Done
        /\ \A j \in batch : \A i \in Updates' : i < j => i \in batch \/ i \in Done
    BY <1>1, <1>3
  <1>6. /\ k + 1 \in Nat /\ forgotten \in 1..(k + 1 + 1) /\ offset \in 0..(k + 1 + 1)
        /\ batch \subseteq Updates'
    BY <1>1, <1>3
  <1> QED
    BY <1>3, <1>4, <1>5, <1>6 DEF ChatInv

(* The update that is taken is the first of the batch, so that what the     *)
(* poller moves past was handled, with this one.                            *)
LEMMA OthersKeep ==
  ASSUME ChatInv, [ChatNext]_chatVars, ~Send
  PROVE  ChatInv'
  <1>1. PICK k \in Nat :
          /\ Updates = 1..k
          /\ forgotten \in 1..(k + 1) /\ offset \in 0..(k + 1) /\ batch \subseteq Updates
          /\ \A i \in Updates : i < forgotten \/ i < offset => i \in Done
          /\ \A j \in batch : \A i \in Updates : i < j => i \in batch \/ i \in Done
    BY DEF ChatInv
  <1>2. CASE PollUpdates
    <2>1. /\ chat' = chat /\ offset' = offset /\ Done' = Done
          /\ forgotten' = IF forgotten < offset THEN offset ELSE forgotten
          /\ batch' = {i \in 1..k : i >= forgotten'}
      BY <1>1, <1>2 DEF PollUpdates, Later, Done
    <2> QED
      BY <1>1, <2>1, SameUpdates
  <1>3. CASE PollFails
    <2>1. /\ chat' = chat /\ offset' = offset /\ Done' = Done /\ batch' = batch
          /\ forgotten' = IF forgotten < offset THEN offset ELSE forgotten
      BY <1>3 DEF PollFails, Later, Done
    <2> QED
      BY <1>1, <2>1, SameUpdates
  <1>4. CASE RestartPolling
    <2>1. chat' = chat /\ offset' = 0 /\ Done' = Done /\ batch' = {} /\ forgotten' = forgotten
      BY <1>4 DEF RestartPolling, Done
    <2> QED
      BY <1>1, <2>1, SameUpdates
  <1>5. ASSUME NEW i \in Updates, Handle(i) \/ HandleFails(i) PROVE ChatInv'
    <2>1. /\ i \in batch /\ \A j \in batch : i <= j
          /\ chat' = chat /\ offset' = i + 1 /\ forgotten' = forgotten
          /\ batch' \subseteq batch \ {i} /\ Done' = Done \cup {i}
          /\ batch' = {} \/ batch' = batch \ {i}
      BY <1>5 DEF Handle, HandleFails, Take, NextOffset, Done
    <2>2. \A j \in 1..k : j < i + 1 => j \in Done'
      BY <1>1, <2>1
    <2> QED
      BY <1>1, <2>1, <2>2, SameUpdates
  <1>6. CASE ClearElsewhere \/ UNCHANGED chatVars
    <2>1. UNCHANGED <<chat, forgotten, offset, batch, Done>>
      BY <1>6 DEF ClearElsewhere, chatVars, Done
    <2> QED
      BY <1>1, <2>1, SameUpdates
  <1> QED
    BY <1>2, <1>3, <1>4, <1>5, <1>6 DEF ChatNext

\* What the poller has read past and what the server has forgotten was handled, for any
\* number of messages, lost answers, failed handlings and restarts.
THEOREM ChatInvariant == ChatSpec => []ChatInv
  <1>1. ChatInv /\ [ChatNext]_chatVars => ChatInv'
    BY SendKeeps, OthersKeep
  <1> QED
    BY <1>1, InitChat, PTL DEF ChatSpec

\* No command is lost without a trace: what the server will not give again was audited, or
\* its own handling failed.
THEOREM CommandsAreAudited == ChatSpec => []EveryCommandIsAudited
  <1>1. ChatInv => EveryCommandIsAudited
    BY DEF ChatInv, Done, EveryCommandIsAudited
  <1> QED
    BY <1>1, ChatInvariant, PTL

(* No more messages are sent than the bound allows; each of them, the       *)
(* question asked and the switch is one of those there are.                *)
ChatTyped ==
  /\ Cardinality(Updates) <= MaxMessages
  /\ \A i \in Updates : chat[i] \in Commands
  /\ pending \in Questions \cup {NoQuestion}
  /\ globalMode \in {"off", "paper", "live"} /\ killFile \in BOOLEAN
  /\ Done \subseteq Updates

(* What a command makes of the question and of the switch.                 *)
LEMMA AnswerTyped ==
  ASSUME ChatTyped, NEW msg \in Commands, NEW refused \in BOOLEAN
  PROVE  /\ QuestionAfter(msg, refused) \in Questions \cup {NoQuestion}
         /\ ModeAfter(msg, refused) \in {"off", "paper", "live"}
         /\ (killFile \/ Confirmed("kill", msg)) \in BOOLEAN
  <1>1. ModeAfter(msg, refused) \in {"off", "paper", "live"}
    BY DEF ChatTyped, ModeAfter
  <1>2. (killFile \/ Confirmed("kill", msg)) \in BOOLEAN
    BY DEF Confirmed
  <1>3. LastWord["kill"] = "kill confirm" /\ LastWord["live"] = "live confirm"
    BY DEF LastWord
  <1>4. QuestionAfter(msg, refused) \in Questions \cup {NoQuestion}
    <2>1. CASE msg \in Questions
      <3>1. CASE pending # msg
        <4>1. \E q \in Questions : Asks(q, msg)
          BY <2>1, <3>1 DEF Asks
        <4>2. \A q \in {"kill", "live"} : ~Confirmed(q, msg)
          BY <1>3, <2>1, <3>1 DEF Confirmed, Questions
        <4> QED BY <2>1, <4>1, <4>2 DEF QuestionAfter, Questions
      <3>2. CASE pending = msg
        <4>1. /\ ~ \E q \in Questions : Asks(q, msg)
              /\ Confirmed(msg, msg)
              /\ \A q \in {"kill", "live"} \ {msg} : ~Confirmed(q, msg)
          BY <1>3, <2>1, <3>2 DEF Asks, Confirmed, Questions
        <4> QED BY <2>1, <3>2, <4>1 DEF QuestionAfter, Questions
      <3> QED BY <3>1, <3>2
    <2>2. CASE msg \notin Questions
      <3>1. ~ \E q \in Questions : Asks(q, msg)
        BY <2>2 DEF Asks
      <3>2. Confirmed("kill", msg) <=> msg = "kill confirm"
        BY <1>3, <2>2 DEF Confirmed, Questions
      <3>3. Confirmed("live", msg) <=> msg = "live confirm"
        BY <1>3, <2>2 DEF Confirmed, Questions
      <3> QED BY <2>2, <3>1, <3>2, <3>3 DEF QuestionAfter, Commands, Questions, ChatTyped
    <2> QED BY <2>1, <2>2
  <1> QED BY <1>1, <1>2, <1>4

(* Every step keeps the types.                                             *)
LEMMA TypedKept ==
  ASSUME ChatInv, ChatTyped, [ChatNext]_chatVars
  PROVE  ChatTyped'
  <1>1. CASE Send
    <2>1. PICK k \in Nat : Updates = 1..k
      BY DEF ChatInv
    <2>2. Cardinality(1..k) = k /\ Cardinality(1..(k + 1)) = k + 1
      BY <2>1, FS_Interval
    <2>3. PICK msg \in Commands :
            chat' = [i \in Updates \cup {k + 1} |-> IF i \in Updates THEN chat[i] ELSE msg]
      BY <1>1, <2>1, <2>2 DEF Send
    <2>4. Updates' = Updates \cup {k + 1} /\ Updates' = 1..(k + 1)
      BY <2>1, <2>3 DEF Updates
    <2>5. \A i \in Updates' : chat'[i] \in Commands
      BY <2>3, <2>4 DEF ChatTyped
    <2>6. Cardinality(Updates') <= MaxMessages
      <3>1. Cardinality(Updates) < MaxMessages
        BY <1>1 DEF Send
      <3>2. k < MaxMessages
        BY <2>1, <2>2, <3>1
      <3>3. Cardinality(Updates') = k + 1
        BY <2>2, <2>4
      <3> QED BY <3>2, <3>3, ChatAssumption
    <2>7. UNCHANGED <<pending, globalMode, killFile, Done>>
      BY <1>1 DEF Send, Done
    <2> QED BY <2>4, <2>5, <2>6, <2>7 DEF ChatTyped
  <1>2. ASSUME NEW i \in Updates, Handle(i) PROVE ChatTyped'
    <2>1. chat' = chat /\ Done' = Done \cup {i}
      BY <1>2 DEF Handle, Take, Done
    <2>2. PICK refused \in BOOLEAN :
            /\ pending' = QuestionAfter(chat[i], refused)
            /\ killFile' = (killFile \/ Confirmed("kill", chat[i]))
            /\ globalMode' = ModeAfter(chat[i], refused)
      BY <1>2 DEF Handle, Remembers
    <2>3. /\ pending' \in Questions \cup {NoQuestion} /\ killFile' \in BOOLEAN
          /\ globalMode' \in {"off", "paper", "live"}
      BY <2>2, AnswerTyped DEF ChatTyped
    <2>4. Updates' = Updates
      BY <2>1 DEF Updates
    <2> QED BY <2>1, <2>3, <2>4 DEF ChatTyped
  <1>3. ASSUME NEW i \in Updates, HandleFails(i) PROVE ChatTyped'
    <2>1. chat' = chat /\ Done' = Done \cup {i} /\ globalMode' = globalMode
      BY <1>3 DEF HandleFails, Take, Done
    <2>2. pending' \in Questions \cup {NoQuestion} /\ killFile' \in BOOLEAN
      <3>1. CASE UNCHANGED <<pending, killFile>>
        BY <3>1 DEF ChatTyped
      <3>2. ASSUME NEW refused \in BOOLEAN, Remembers(i, refused)
            PROVE  pending' \in Questions \cup {NoQuestion} /\ killFile' \in BOOLEAN
        BY <3>2, AnswerTyped DEF Remembers, ChatTyped
      <3> QED BY <1>3, <3>1, <3>2 DEF HandleFails
    <2>3. Updates' = Updates
      BY <2>1 DEF Updates
    <2> QED BY <2>1, <2>2, <2>3 DEF ChatTyped
  <1>4. CASE PollUpdates \/ PollFails \/ RestartPolling \/ ClearElsewhere \/ UNCHANGED chatVars
    <2>1. /\ UNCHANGED <<chat, globalMode, Done>> /\ pending' \in {pending, NoQuestion}
          /\ killFile' \in {killFile, FALSE}
      BY <1>4 DEF PollUpdates, PollFails, RestartPolling, ClearElsewhere, chatVars, Done
    <2>2. Updates' = Updates
      BY <2>1 DEF Updates
    <2> QED BY <2>1, <2>2 DEF ChatTyped
  <1> QED BY <1>1, <1>2, <1>3, <1>4 DEF ChatNext

\* The types of the chat: the poller and the server are never further than one past the
\* last message, the batch and the audited updates are messages that were sent, and the
\* question asked is one of the two-step commands.
THEOREM ChatTypeCorrect == ChatSpec => []ChatTypeOK
  <1>1. ChatInit => ChatTyped
    <2> SUFFICES ASSUME ChatInit PROVE ChatTyped
      OBVIOUS
    <2>1. Updates = {} /\ Done = {}
      BY DEF ChatInit, Updates, Done
    <2>2. Cardinality(Updates) <= MaxMessages
      BY <2>1, FS_EmptySet, ChatAssumption
    <2> QED BY <2>1, <2>2 DEF ChatInit, ChatTyped
  <1>2. ChatInv /\ ChatTyped /\ [ChatNext]_chatVars => ChatTyped'
    BY TypedKept
  <1>3. ChatInv /\ ChatTyped => ChatTypeOK
    <2> SUFFICES ASSUME ChatInv, ChatTyped PROVE ChatTypeOK
      OBVIOUS
    <2>1. PICK k \in Nat : /\ Updates = 1..k /\ forgotten \in 1..(k + 1)
                           /\ offset \in 0..(k + 1) /\ batch \subseteq Updates
      BY DEF ChatInv
    <2>2. k <= MaxMessages
      BY <2>1, FS_Interval DEF ChatTyped
    <2>3. forgotten \in 1..(MaxMessages + 1) /\ offset \in 0..(MaxMessages + 1)
      BY <2>1, <2>2, ChatAssumption
    <2> QED BY <2>1, <2>3 DEF ChatTyped, ChatTypeOK, Done
  <1> QED BY <1>1, <1>2, <1>3, ChatInvariant, PTL DEF ChatSpec

-----------------------------------------------------------------------------
(* The research jobs.                                                      *)

(* A queued request follows its row: what the row says fits where its      *)
(* attempt is, an attempt that runs still has its job, what it wrote is    *)
(* its own, it has read no fewer trials than there were when it began, and *)
(* one that has ended has said so in its row unless a commit was refused.  *)
JobPhase(r) ==
  /\ step[r] = "accepting" => status[r] = "queued"
  /\ step[r] \in {"begun", "scanning", "written"} => status[r] = "running"
  /\ step[r] = "settled" => status[r] \in {"done", "failed"} \/ r \in lostJobs
  /\ JobRunning(r) => r \in queued /\ tries[r] >= 1
  /\ step[r] = "written" => artifact[r] = Attempt(r)
  /\ earlier[r] \subseteq ledger
  /\ r \in Scans /\ step[r] \in {"scanning", "written"} => prior[r] >= Cardinality(earlier[r])

JobsInv ==
  /\ JobsTypeOK
  /\ IsFiniteSet(ledger)
  /\ \A r \in Requests : JobPhase(r)
  /\ JobsAreAccounted

(* The trials that were there when an attempt began are not more than the  *)
(* ledger's.                                                               *)
LEMMA EarlierCounted ==
  ASSUME IsFiniteSet(ledger), NEW S, S \subseteq ledger
  PROVE  /\ Cardinality(ledger) \in Nat /\ Cardinality(S) \in Nat
         /\ Cardinality(S) <= Cardinality(ledger)
  BY FS_Subset, FS_CardinalityType

(* An attempt that runs is one of the attempts.                            *)
LEMMA AttemptType ==
  ASSUME JobsTypeOK, NEW r \in Requests, tries[r] >= 1
  PROVE  Attempt(r) \in Attempts
  BY JobsAssumption DEF JobsTypeOK, Attempt, Attempts

(* Nothing is requested at the start.                                      *)
LEMMA JobsInitInv == JobsInit => JobsInv
  <1> SUFFICES ASSUME JobsInit PROVE JobsInv
    OBVIOUS
  <1>1. JobsTypeOK
    BY JobsAssumption DEF JobsInit, JobsTypeOK
  <1>2. IsFiniteSet(ledger)
    BY FS_EmptySet DEF JobsInit
  <1>3. \A r \in Requests : JobPhase(r)
    BY DEF JobsInit, JobPhase, JobRunning
  <1>4. JobsAreAccounted
    BY DEF JobsInit, JobsAreAccounted, DoneIsOneAttempt, StoppedIsSettled
  <1> QED BY <1>1, <1>2, <1>3, <1>4 DEF JobsInv

(* The request, its job and an attempt that begins.                        *)
LEMMA QueueInv ==
  ASSUME JobsInv, NEW r \in Requests,
         Request(r) \/ Enqueue(r) \/ EnqueueFails(r) \/ BeginJob(r) \/ BeginRefused(r)
           \/ JobFinished(r) \/ WorkerDies(r) \/ TimesOut(r)
  PROVE  JobsInv'
  <1>1. JobsTypeOK'
    <2>1. CASE Request(r) \/ Enqueue(r) \/ JobFinished(r)
      BY <2>1 DEF JobsInv, JobsTypeOK, Request, Enqueue, JobFinished
    <2>2. CASE EnqueueFails(r)
      BY <2>2, JobsAssumption DEF JobsInv, JobsTypeOK, EnqueueFails
    <2>3. CASE BeginJob(r) \/ BeginRefused(r)
      <3>1. /\ tries' = [tries EXCEPT ![r] = @ + 1] /\ tries[r] < MaxTries
            /\ tries \in [Requests -> 0..MaxTries] /\ ledger' = ledger
        BY <2>3 DEF BeginJob, BeginRefused, JobsInv, JobsTypeOK
      <3>2. tries' \in [Requests -> 0..MaxTries] /\ \A u \in Requests : tries[u] <= tries'[u]
        BY <3>1, JobsAssumption
      <3>3. \A t \in ledger : t[1] \in Requests /\ t[2] \in Nat /\ t[2] <= tries[t[1]]
        BY JobsAssumption DEF JobsInv, JobsTypeOK, Attempts, Requests
      <3>4. \A t \in ledger : t[2] <= tries'[t[1]]
        BY <3>1, <3>2, <3>3, JobsAssumption
      <3> QED
        BY <2>3, <3>1, <3>2, <3>4, JobsAssumption DEF JobsInv, JobsTypeOK, BeginJob, BeginRefused
    <2>4. CASE WorkerDies(r)
      BY <2>4, JobsAssumption DEF JobsInv, JobsTypeOK, WorkerDies
    <2>5. CASE TimesOut(r)
      BY <2>5, JobsAssumption DEF JobsInv, JobsTypeOK, TimesOut
    <2> QED BY <2>1, <2>2, <2>3, <2>4, <2>5
  <1>2. IsFiniteSet(ledger)' /\ ledger' = ledger
    BY DEF JobsInv, Request, Enqueue, EnqueueFails, BeginJob, BeginRefused, JobFinished,
           WorkerDies, TimesOut
  <1>3. ASSUME NEW u \in Requests PROVE JobPhase(u)'
    <2>1. CASE Request(r) \/ Enqueue(r) \/ EnqueueFails(r)
      BY <2>1 DEF JobsInv, JobsTypeOK, JobPhase, JobRunning, Attempt, Request, Enqueue, EnqueueFails
    <2>2. CASE BeginJob(r) \/ BeginRefused(r)
      BY <2>2 DEF JobsInv, JobsTypeOK, JobPhase, JobRunning, Attempt, BeginJob, BeginRefused
    <2>3. CASE JobFinished(r)
      BY <2>3 DEF JobsInv, JobsTypeOK, JobPhase, JobRunning, Attempt, JobFinished
    <2>4. CASE WorkerDies(r) \/ TimesOut(r)
      BY <2>4 DEF JobsInv, JobsTypeOK, JobPhase, JobRunning, Attempt, WorkerDies, TimesOut
    <2> QED BY <2>1, <2>2, <2>3, <2>4
  <1>4. DoneIsOneAttempt'
    BY DEF JobsInv, JobsTypeOK, JobsAreAccounted, DoneIsOneAttempt,
           Request, Enqueue, EnqueueFails, BeginJob, BeginRefused, JobFinished,
           WorkerDies, TimesOut
  <1>5. StoppedIsSettled'
    <2>1. CASE Request(r) \/ Enqueue(r) \/ EnqueueFails(r) \/ BeginJob(r) \/ BeginRefused(r)
      BY <2>1 DEF JobsInv, JobsTypeOK, JobsAreAccounted, StoppedIsSettled,
                  Request, Enqueue, EnqueueFails, BeginJob, BeginRefused
    <2>2. CASE JobFinished(r)
      BY <2>2 DEF JobsInv, JobsTypeOK, JobsAreAccounted, StoppedIsSettled, JobPhase, JobFinished
    <2>3. CASE WorkerDies(r)
      BY <2>3 DEF JobsInv, JobsTypeOK, JobsAreAccounted, StoppedIsSettled, JobPhase, WorkerDies
    <2>4. CASE TimesOut(r)
      BY <2>4 DEF JobsInv, JobsTypeOK, JobsAreAccounted, StoppedIsSettled, JobPhase, TimesOut
    <2> QED BY <2>1, <2>2, <2>3, <2>4
  <1> QED BY <1>1, <1>2, <1>3, <1>4, <1>5 DEF JobsInv, JobsAreAccounted

(* The attempt itself.                                                     *)
LEMMA AttemptInv ==
  ASSUME JobsInv, NEW r \in Requests,
         ReadPrior(r) \/ WriteArtifact(r) \/ SettleRow(r) \/ JobFails(r) \/ CommitRefused(r)
  PROVE  JobsInv'
  <1>1. tries[r] >= 1 /\ Attempt(r) \in Attempts /\ status[r] = "running"
    <2>1. tries[r] >= 1 /\ status[r] = "running"
      BY DEF JobsInv, JobPhase, JobRunning, ReadPrior, WriteArtifact, SettleRow, JobFails,
             CommitRefused
    <2> QED BY <2>1, AttemptType DEF JobsInv
  <1>2. /\ ledger \subseteq ledger' /\ ledger' \subseteq ledger \cup TrialRows(r)
        /\ IsFiniteSet(ledger')
    <2>1. IsFiniteSet(TrialRows(r))
      BY FS_EmptySet, FS_Singleton DEF TrialRows
    <2>2. IsFiniteSet(ledger \cup TrialRows(r))
      BY <2>1, FS_Union DEF JobsInv
    <2> QED BY <2>2 DEF JobsInv, ReadPrior, WriteArtifact, SettleRow, JobFails,
             CommitRefused
  <1>3. Cardinality(ledger) \in Nat
    BY EarlierCounted DEF JobsInv
  <1>4. JobsTypeOK'
    <2>1. CASE ReadPrior(r)
      BY <2>1, <1>3 DEF JobsInv, JobsTypeOK, ReadPrior, FamilyCount
    <2>2. CASE WriteArtifact(r)
      BY <2>2, <1>1 DEF JobsInv, JobsTypeOK, WriteArtifact
    <2>3. CASE SettleRow(r)
      BY <2>3, <1>1 DEF JobsInv, JobsTypeOK, SettleRow, TrialsTotal, TrialRows, Attempt
    <2>4. CASE JobFails(r)
      BY <2>4, <1>1, JobsAssumption DEF JobsInv, JobsTypeOK, JobFails, TrialRows, Attempt
    <2>5. CASE CommitRefused(r)
      BY <2>5, <1>1, JobsAssumption DEF JobsInv, JobsTypeOK, CommitRefused
    <2> QED BY <2>1, <2>2, <2>3, <2>4, <2>5
  <1>5. ASSUME NEW u \in Requests PROVE JobPhase(u)'
    <2>1. CASE ReadPrior(r)
      <3>1. Cardinality(earlier[r]) <= Cardinality(ledger)
        BY EarlierCounted DEF JobsInv, JobPhase
      <3> QED
        BY <2>1, <3>1 DEF JobsInv, JobsTypeOK, JobPhase, JobRunning, Attempt, ReadPrior, FamilyCount
    <2>2. CASE WriteArtifact(r)
      BY <2>2 DEF JobsInv, JobsTypeOK, JobPhase, JobRunning, Attempt, WriteArtifact
    <2>3. CASE SettleRow(r)
      BY <2>3 DEF JobsInv, JobsTypeOK, JobPhase, JobRunning, Attempt, SettleRow
    <2>4. CASE JobFails(r)
      BY <2>4, <1>2 DEF JobsInv, JobsTypeOK, JobPhase, JobRunning, Attempt, JobFails
    <2>5. CASE CommitRefused(r)
      BY <2>5 DEF JobsInv, JobsTypeOK, JobPhase, JobRunning, Attempt, CommitRefused
    <2> QED BY <2>1, <2>2, <2>3, <2>4, <2>5
  <1>6. DoneIsOneAttempt'
    <2>1. CASE ReadPrior(r) \/ WriteArtifact(r) \/ JobFails(r) \/ CommitRefused(r)
      BY <2>1, <1>1, <1>2 DEF JobsInv, JobsTypeOK, JobsAreAccounted, DoneIsOneAttempt,
                              ReadPrior, WriteArtifact, JobFails, CommitRefused
    <2>2. CASE SettleRow(r)
      <3>1. ASSUME NEW u \in Requests, u # r, status'[u] = "done"
            PROVE  /\ result'[u].attempt = artifact'[u]
                   /\ u \in Scans => /\ result'[u].attempt \in ledger'
                                     /\ result'[u].trials > Cardinality(earlier'[u])
        BY <2>2, <1>2, <3>1 DEF JobsInv, JobsTypeOK, JobsAreAccounted, DoneIsOneAttempt, SettleRow
      <3>2. result'[r] = [attempt |-> Attempt(r), trials |-> TrialsTotal(r)] /\ artifact' = artifact
        BY <2>2 DEF JobsInv, JobsTypeOK, SettleRow
      <3>3. artifact[r] = Attempt(r)
        BY <2>2 DEF JobsInv, JobPhase, SettleRow
      <3>4. r \in Scans => Attempt(r) \in ledger'
        BY <2>2 DEF SettleRow, TrialRows
      <3>5. r \in Scans => TrialsTotal(r) > Cardinality(earlier[r])
        <4>1. Cardinality(earlier[r]) \in Nat
          BY EarlierCounted DEF JobsInv, JobPhase
        <4> QED
          BY <2>2, <4>1 DEF JobsInv, JobsTypeOK, JobPhase, SettleRow, TrialsTotal
      <3>6. earlier' = earlier
        BY <2>2 DEF SettleRow
      <3> QED BY <3>1, <3>2, <3>3, <3>4, <3>5, <3>6 DEF DoneIsOneAttempt
    <2> QED BY <2>1, <2>2
  <1>7. StoppedIsSettled'
    BY DEF JobsInv, JobsTypeOK, JobsAreAccounted, StoppedIsSettled,
           ReadPrior, WriteArtifact, SettleRow, JobFails,
             CommitRefused
  <1> QED BY <1>2, <1>4, <1>5, <1>6, <1>7 DEF JobsInv, JobsAreAccounted

(* The inductive invariant of the research jobs: each request's row, job   *)
(* and attempt fit together, and no attempt has counted fewer trials than  *)
(* there were when it began.                                               *)
LEMMA JobsInvariant == JobsSpec => []JobsInv
  <1>1. JobsInv /\ [JobsNext]_jobsVars => JobsInv'
    <2> SUFFICES ASSUME JobsInv, [JobsNext]_jobsVars PROVE JobsInv'
      OBVIOUS
    <2>1. CASE UNCHANGED jobsVars
      BY <2>1 DEF jobsVars, JobsInv, JobsTypeOK, JobPhase, JobRunning, Attempt, JobsAreAccounted,
                  DoneIsOneAttempt, StoppedIsSettled
    <2>2. CASE JobsNext
      BY <2>2, QueueInv, AttemptInv DEF JobsNext
    <2> QED BY <2>1, <2>2
  <1> QED BY <1>1, JobsInitInv, PTL DEF JobsSpec

(* The types of the rows, the attempts and the ledger of trials.           *)
THEOREM JobsTypeCorrect == JobsSpec => []JobsTypeOK
  BY JobsInvariant, PTL DEF JobsInv

(* A request that is done has the artifact, the result and the ledger row  *)
(* of one attempt, and one that stays open had its job lost, cancelled or  *)
(* ended by a refused commit, for any number of requests, retries,         *)
(* timeouts, refusals and deaths of the worker.                            *)
THEOREM EveryJobIsAccounted == JobsSpec => []JobsAreAccounted
  BY JobsInvariant, PTL DEF JobsInv
=============================================================================
