----------------------------- MODULE ResearchJobs -----------------------------
(***************************************************************************)
(* Queued research: backtests and discovery scans (api/backtest.py,        *)
(* api/discovery.py, core/queue.py, backtest/service.py,                   *)
(* discovery/service.py, research/registry.py).  A request commits a row   *)
(* and then queues a job; a worker runs the job, writes the artifact, adds *)
(* the scan's trials to the experiment ledger and settles the row.  The    *)
(* queue (arq) is external: a job whose worker dies is run again, one that *)
(* takes too long is cancelled and forgotten, and so is one that ends with *)
(* an exception, as it does when a commit of its row is refused.           *)
(*                                                                         *)
(* All scans are of one genome family and try one combination each.        *)
(***************************************************************************)
EXTENDS Integers, FiniteSets

CONSTANTS
  Scans, Backtests, \* the requests
  NoAttempt,
  MaxTries,         \* arq's max_tries
  MaxJobMishaps     \* bound

ASSUME JobsAssumption == MaxTries \in Nat /\ MaxJobMishaps \in Nat

VARIABLES
  status,    \* by request: the row's status, "none" before it
  queued,    \* the jobs arq holds
  tries,     \* by request: how often the job was begun
  step,      \* by request: where the attempt is
  prior,     \* by request: prior_trials of this attempt
  artifact,  \* by request: the attempt whose report is on disk
  result,    \* by request: attempt, trials counted, as the row has them
  ledger,    \* the trials: <<scan, attempt>>
  \* History and bound.
  earlier,   \* by request: the trials committed when the attempt began
  lostJobs,  \* requests never queued, cancelled, tried too often, or ended by a refused commit
  jobMishaps

jobsVars == <<status, queued, tries, step, prior, artifact, result, ledger, earlier, lostJobs,
              jobMishaps>>

Requests == Scans \cup Backtests
Attempt(r) == <<r, tries[r]>>
Attempts == Requests \X (1..MaxTries)

JobsInit ==
  /\ status = [r \in Requests |-> "none"] /\ queued = {}
  /\ tries = [r \in Requests |-> 0] /\ step = [r \in Requests |-> "idle"]
  /\ prior = [r \in Requests |-> 0] /\ artifact = [r \in Requests |-> NoAttempt]
  /\ result = [r \in Requests |-> NoAttempt] /\ ledger = {}
  /\ earlier = [r \in Requests |-> {}] /\ lostJobs = {} /\ jobMishaps = 0

\* The row is committed before the job is queued.
Request(r) ==
  /\ status[r] = "none"
  /\ status' = [status EXCEPT ![r] = "queued"]
  /\ step' = [step EXCEPT ![r] = "accepting"]
  /\ UNCHANGED <<queued, tries, prior, artifact, result, ledger, earlier, lostJobs, jobMishaps>>

Enqueue(r) ==
  /\ step[r] = "accepting"
  /\ step' = [step EXCEPT ![r] = "idle"]
  /\ queued' = queued \cup {r}
  /\ UNCHANGED <<status, tries, prior, artifact, result, ledger, earlier, lostJobs, jobMishaps>>

EnqueueFails(r) ==
  /\ step[r] = "accepting" /\ jobMishaps < MaxJobMishaps
  /\ step' = [step EXCEPT ![r] = "idle"]
  /\ lostJobs' = lostJobs \cup {r} /\ jobMishaps' = jobMishaps + 1
  /\ UNCHANGED <<status, queued, tries, prior, artifact, result, ledger, earlier>>

-----------------------------------------------------------------------------
(***************************************************************************)
(* An attempt.                                                             *)
(***************************************************************************)

\* Whatever the row says: also one an earlier attempt has settled.
BeginJob(r) ==
  /\ r \in queued /\ step[r] = "idle" /\ tries[r] < MaxTries
  /\ status' = [status EXCEPT ![r] = "running"]
  /\ tries' = [tries EXCEPT ![r] = @ + 1]
  /\ step' = [step EXCEPT ![r] = "begun"]
  /\ earlier' = [earlier EXCEPT ![r] = ledger]
  /\ UNCHANGED <<queued, prior, artifact, result, ledger, lostJobs, jobMishaps>>

\* The first commit is refused: the job ends before it has told the row.
BeginRefused(r) ==
  /\ r \in queued /\ step[r] = "idle" /\ tries[r] < MaxTries /\ jobMishaps < MaxJobMishaps
  /\ tries' = [tries EXCEPT ![r] = @ + 1]
  /\ step' = [step EXCEPT ![r] = "settled"]
  /\ lostJobs' = lostJobs \cup {r} /\ jobMishaps' = jobMishaps + 1
  /\ UNCHANGED <<status, queued, prior, artifact, result, ledger, earlier>>

\* all_family_counts: every row of the family, whoever wrote it.
FamilyCount_Settled == Cardinality({t \in ledger : status[t[1]] = "done"})
FamilyCount == Cardinality(ledger)

ReadPrior(r) ==
  /\ r \in Scans /\ step[r] = "begun"
  /\ prior' = [prior EXCEPT ![r] = FamilyCount]
  /\ step' = [step EXCEPT ![r] = "scanning"]
  /\ UNCHANGED <<status, queued, tries, artifact, result, ledger, earlier, lostJobs, jobMishaps>>

\* The breadth of this scan on top of the family's history.
TrialsTotal(r) == 1 + prior[r]

WriteArtifact(r) ==
  /\ step[r] = (IF r \in Scans THEN "scanning" ELSE "begun")
  /\ artifact' = [artifact EXCEPT ![r] = Attempt(r)]
  /\ step' = [step EXCEPT ![r] = "written"]
  /\ UNCHANGED <<status, queued, tries, prior, result, ledger, earlier, lostJobs, jobMishaps>>

TrialRows(r) == IF r \in Scans THEN {Attempt(r)} ELSE {}

\* Trials, row and status are one transaction.
SettleRow(r) ==
  /\ step[r] = "written"
  /\ status' = [status EXCEPT ![r] = "done"]
  /\ result' = [result EXCEPT ![r] = [attempt |-> Attempt(r), trials |-> TrialsTotal(r)]]
  /\ ledger' = ledger \cup TrialRows(r)
  /\ step' = [step EXCEPT ![r] = "settled"]
  /\ UNCHANGED <<queued, tries, prior, artifact, earlier, lostJobs, jobMishaps>>

\* Raising after the trials were added commits them with the failure.
JobFails(r) ==
  /\ step[r] \in {"begun", "scanning"} /\ jobMishaps < MaxJobMishaps
  /\ status' = [status EXCEPT ![r] = "failed"]
  /\ ledger' \in (IF step[r] = "scanning" THEN {ledger, ledger \cup TrialRows(r)} ELSE {ledger})
  /\ step' = [step EXCEPT ![r] = "settled"] /\ jobMishaps' = jobMishaps + 1
  /\ UNCHANGED <<queued, tries, prior, artifact, result, earlier, lostJobs>>

\* The last commit is refused, whether it says done or failed, or a commit on the way to it
\* that leaves the session unfit for another: trials, row and status stay as they were.
CommitRefused(r) ==
  /\ step[r] \in {"begun", "scanning", "written"} /\ jobMishaps < MaxJobMishaps
  /\ step' = [step EXCEPT ![r] = "settled"]
  /\ lostJobs' = lostJobs \cup {r} /\ jobMishaps' = jobMishaps + 1
  /\ UNCHANGED <<status, queued, tries, prior, artifact, result, ledger, earlier>>

-----------------------------------------------------------------------------
(***************************************************************************)
(* The queue.                                                              *)
(***************************************************************************)
JobFinished(r) ==
  /\ step[r] = "settled"
  /\ step' = [step EXCEPT ![r] = "idle"]
  /\ queued' = queued \ {r}
  /\ UNCHANGED <<status, tries, prior, artifact, result, ledger, earlier, lostJobs, jobMishaps>>

JobRunning(r) == step[r] \in {"begun", "scanning", "written", "settled"}

\* The worker dies; the job stays with the queue until it was tried too often.
WorkerDies(r) ==
  /\ JobRunning(r) /\ jobMishaps < MaxJobMishaps
  /\ step' = [step EXCEPT ![r] = "idle"] /\ jobMishaps' = jobMishaps + 1
  /\ IF tries[r] = MaxTries THEN queued' = queued \ {r} /\ lostJobs' = lostJobs \cup {r}
     ELSE UNCHANGED <<queued, lostJobs>>
  /\ UNCHANGED <<status, tries, prior, artifact, result, ledger, earlier>>

\* A cancellation is not an Exception: the row stays "running".  A backtest does not
\* yield until it is computed, and is cancelled in its last commit.
TimesOut(r) ==
  /\ step[r] \in (IF r \in Scans THEN {"scanning", "written"} ELSE {"written"})
  /\ jobMishaps < MaxJobMishaps
  /\ step' = [step EXCEPT ![r] = "idle"] /\ jobMishaps' = jobMishaps + 1
  /\ queued' = queued \ {r} /\ lostJobs' = lostJobs \cup {r}
  /\ UNCHANGED <<status, tries, prior, artifact, result, ledger, earlier>>

JobsNext ==
  \E r \in Requests :
    \/ Request(r) \/ Enqueue(r) \/ EnqueueFails(r)
    \/ BeginJob(r) \/ BeginRefused(r) \/ ReadPrior(r) \/ WriteArtifact(r)
    \/ SettleRow(r) \/ JobFails(r) \/ CommitRefused(r)
    \/ JobFinished(r) \/ WorkerDies(r) \/ TimesOut(r)

JobsSpec == JobsInit /\ [][JobsNext]_jobsVars

JobsTypeOK ==
  /\ status \in [Requests -> {"none", "queued", "running", "done", "failed"}]
  /\ step \in [Requests -> {"idle", "accepting", "begun", "scanning", "written", "settled"}]
  /\ queued \subseteq Requests /\ lostJobs \subseteq Requests
  /\ tries \in [Requests -> 0..MaxTries] /\ prior \in [Requests -> Nat]
  /\ artifact \in [Requests -> Attempts \cup {NoAttempt}]
  /\ result \in [Requests -> [attempt : Attempts, trials : Nat] \cup {NoAttempt}]
  /\ earlier \in [Requests -> SUBSET Attempts] /\ ledger \subseteq Attempts
  /\ \A t \in ledger : t[1] \in Scans /\ t[2] <= tries[t[1]]
  /\ jobMishaps \in 0..MaxJobMishaps

(***************************************************************************)
(* What a settled scan shows is of one attempt: the artifact on disk, the  *)
(* numbers of the row and the trials in the ledger; it counted every trial *)
(* committed before that attempt began ("re-optimizing the same family     *)
(* keeps raising N").  And a row that stays queued or running is that of a *)
(* request whose job was never queued, was cancelled or tried too often,   *)
(* or ended on a refused commit.                                           *)
(***************************************************************************)
DoneIsOneAttempt ==
  \A r \in Requests :
    status[r] = "done" =>
      /\ result[r].attempt = artifact[r]
      /\ r \in Scans => /\ result[r].attempt \in ledger
                        /\ result[r].trials > Cardinality(earlier[r])
StoppedIsSettled ==
  \A r \in Requests :
    (status[r] \in {"queued", "running"} /\ step[r] = "idle" /\ r \notin queued) => r \in lostJobs

\* The two together: a request is done only with all that belongs to it, and left open only
\* by what happened to its job.
JobsAreAccounted == DoneIsOneAttempt /\ StoppedIsSettled
==============================================================================
