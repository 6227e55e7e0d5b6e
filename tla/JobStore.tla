------------------------------ MODULE JobStore ------------------------------
(***************************************************************************)
(* The durable tables behind job execution: runs, jobs and                 *)
(* result_submissions (src/core/store/jobs.ts, src/core/store/results.ts). *)
(*                                                                         *)
(* Every action below is ONE SQL statement, or one transaction, of those   *)
(* stores, and is atomic for that reason.  Its guard is the WHERE clause.  *)
(* Nothing is said here about WHO calls a statement or when: any lease id  *)
(* that was ever granted may come back at any later time, which is what    *)
(* crashed, slow and retrying workers do.  JobPlane adds the callers.      *)
(*                                                                         *)
(* Clocks are abstracted to the comparisons the statements make with       *)
(* now(): a lease has expired or not, a job is due or not, the last claim  *)
(* is inside the fairness cooldown or not.                                 *)
(***************************************************************************)
EXTENDS Integers, FiniteSets

CONSTANTS
  Jobs,         \* rows of jobs
  Runs,         \* rows of runs
  RunOf,        \* jobs.run_id
  Exts,         \* extensions
  ExtOf,        \* runs.extension
  Workers,
  Capable,      \* <<w, j>>: the extension and trust filters of claim admit it
  Leases,       \* lease ids, each granted at most once (randomUUID)
  MaxAttempts,  \* jobs.max_attempts
  None          \* SQL NULL

Attempts == 1..MaxAttempts
Grant == [job : Jobs, attempt : Attempts, worker : Workers]

ASSUME ConstantsAssumption ==
  /\ RunOf \in [Jobs -> Runs]
  /\ ExtOf \in [Runs -> Exts]
  /\ Capable \subseteq Workers \X Jobs
  /\ MaxAttempts \in Nat \ {0}
  /\ None \notin Leases
  /\ None \notin Workers
  /\ None \notin Jobs
  /\ None \notin Grant

VARIABLES
  state,     \* jobs.state
  attempt,   \* jobs.attempt
  lease,     \* jobs.lease_id; lease_worker_id is written and cleared with it
  expired,   \* jobs.lease_expires_at < now()
  due,       \* jobs.not_before <= now()
  cancel,    \* jobs.cancel_requested
  run,       \* runs.state, "ABSENT" before the row is inserted
  sub,       \* result_submissions, by idempotency key <<job, attempt>>
  grant,     \* what the claim returned with a lease id: job, attempt, worker
  recent,    \* the job with the greatest leased_at, until that is
             \* FAIRNESS_COOLDOWN_SECONDS old
  alive,     \* ACTIVE workers with a fresh heartbeat
  disabled   \* disabled_extensions

jobVars   == <<state, attempt, lease, expired, due, cancel>>
claimVars == <<grant, recent>>
envVars   == <<alive, disabled>>
storeVars == <<jobVars, run, sub, claimVars, envVars>>

JobStates == {"PENDING", "LEASED", "RUNNING", "SUCCEEDED", "DEAD_LETTER", "CANCELLED"}
RunStates == {"ABSENT", "PENDING", "EXECUTING", "INGESTING", "PROCESSED",
              "DEAD_LETTER", "CANCELLED"}
SubStates == {"RECEIVED", "QUARANTINED", "COMMITTED", "SUPERSEDED"}
ErrorClasses == {"TRANSIENT", "PERMANENT", "POLICY"}

JobsOf(r) == {j \in Jobs : RunOf[j] = r}
Exists(j) == run[RunOf[j]] # "ABSENT"
Live(j) == state[j] \in {"LEASED", "RUNNING"}
Terminal(j) == state[j] \in {"SUCCEEDED", "DEAD_LETTER", "CANCELLED"}

NoSub == [state |-> "NONE", lease |-> None]
Submission == [state : SubStates, lease : Leases]

(* The lease id named by a caller: one that some claim returned.           *)
Granted == {l \in Leases : grant[l] # None}
JobOf(l) == grant[l].job
(* Mutant: the key without the attempt.                                    *)
KeyWithoutAttempt(l) == <<grant[l].job, 1>>

(* resultIdempotencyKey: `res:<jobId>:<attempt>`, with the attempt the     *)
(* worker was told when it was granted the lease.                          *)
Key(l) == <<grant[l].job, grant[l].attempt>>
KeysOf(j) == {j} \X Attempts

(* `id = ... AND lease_id = ... AND state IN ('LEASED','RUNNING')`         *)
Holds(l) == lease[JobOf(l)] = l /\ Live(JobOf(l))

Init ==
  /\ state     = [j \in Jobs |-> "PENDING"]
  /\ attempt   = [j \in Jobs |-> 0]
  /\ lease     = [j \in Jobs |-> None]
  /\ expired   = [j \in Jobs |-> FALSE]
  /\ due       = [j \in Jobs |-> TRUE]
  /\ cancel    = [j \in Jobs |-> FALSE]
  /\ run       = [r \in Runs |-> "ABSENT"]
  /\ sub       = [k \in Jobs \X Attempts |-> NoSub]
  /\ grant     = [l \in Leases |-> None]
  /\ recent    = None
  /\ alive     \in SUBSET Workers
  /\ disabled  = {}

-----------------------------------------------------------------------------
(* Runs and the claim                                                      *)

(* createRun: the run and all its jobs in one transaction.  A second       *)
(* creator hits the unique idempotency key and gets the existing row, so   *)
(* the insert happens once; the job rows exist from then on.               *)
CreateRun(r) ==
  /\ run[r] = "ABSENT"
  /\ run' = [run EXCEPT ![r] = "PENDING"]
  /\ UNCHANGED <<jobVars, sub, claimVars, envVars>>

LeaseWorker(j) == IF lease[j] = None THEN None ELSE grant[lease[j]].worker

(* The fairness predicate: alone in the fleet, or not the worker that made *)
(* the most recent claim.                                                  *)
MayClaimNext(w) ==
  \/ Cardinality(alive) <= 1
  \/ ~\E prev \in Jobs : prev = recent /\ LeaseWorker(prev) = w

(* Mutant: the disabled_extensions filter is missing.                      *)
ClaimableIfDisabled(w, j) ==
  /\ Exists(j) /\ state[j] = "PENDING" /\ due[j] /\ ~cancel[j]
  /\ <<w, j>> \in Capable /\ MayClaimNext(w)

Claimable(w, j) ==
  /\ Exists(j)
  /\ state[j] = "PENDING"
  /\ due[j]
  /\ ~cancel[j]
  /\ ExtOf[RunOf[j]] \notin disabled
  /\ <<w, j>> \in Capable
  /\ MayClaimNext(w)

(* claim, first statement.  FOR UPDATE SKIP LOCKED hands out any claimable *)
(* row, so the ORDER BY is not a guarantee.                                *)
Claim(w, j, l) ==
  /\ Claimable(w, j)
  /\ grant[l] = None
  /\ state'     = [state EXCEPT ![j] = "LEASED"]
  /\ attempt'   = [attempt EXCEPT ![j] = @ + 1]
  /\ lease'     = [lease EXCEPT ![j] = l]
  /\ expired'   = [expired EXCEPT ![j] = FALSE]
  /\ grant'     = [grant EXCEPT ![l] = [job |-> j, attempt |-> attempt[j] + 1, worker |-> w]]
  /\ recent'    = j
  /\ UNCHANGED <<due, cancel, run, sub, envVars>>

(* claim, second statement: PENDING -> EXECUTING on the parent run.        *)
MarkExecuting(r) ==
  /\ run[r] = "PENDING"
  /\ run' = [run EXCEPT ![r] = "EXECUTING"]
  /\ UNCHANGED <<jobVars, sub, claimVars, envVars>>

-----------------------------------------------------------------------------
(* Transitions of a lease                                                  *)

Start(l) ==
  /\ lease[JobOf(l)] = l
  /\ state[JobOf(l)] = "LEASED"
  /\ state' = [state EXCEPT ![JobOf(l)] = "RUNNING"]
  /\ UNCHANGED <<attempt, lease, expired, due, cancel, run, sub, claimVars, envVars>>

(* renew cannot revive a lease that has already expired.                   *)
Renew(l) ==
  /\ Holds(l)
  /\ ~expired[JobOf(l)]
  /\ UNCHANGED storeVars

ClearLease(j) ==
  /\ lease'   = [lease EXCEPT ![j] = None]
  /\ expired' = [expired EXCEPT ![j] = FALSE]

(* The two UPDATEs of fail.  Which one runs is decided by the caller from  *)
(* an earlier read of the row; the statement itself is gated on the lease. *)
FailDeadLetter(l) ==
  /\ Holds(l)
  /\ state' = [state EXCEPT ![JobOf(l)] = "DEAD_LETTER"]
  /\ ClearLease(JobOf(l))
  /\ UNCHANGED <<attempt, due, cancel, run, sub, claimVars, envVars>>

(* Mutants: the requeued row keeps its lease, or pays for the attempt again.*)
FailRequeueKeepsLease(l) ==
  /\ Holds(l)
  /\ state' = [state EXCEPT ![JobOf(l)] = "PENDING"]
  /\ due'   = [due EXCEPT ![JobOf(l)] = FALSE]
  /\ UNCHANGED <<attempt, lease, expired, cancel, run, sub, claimVars, envVars>>

FailRequeueCountsAgain(l) ==
  /\ Holds(l)
  /\ state'   = [state EXCEPT ![JobOf(l)] = "PENDING"]
  /\ attempt' = [attempt EXCEPT ![JobOf(l)] = @ + 1]
  /\ due'     = [due EXCEPT ![JobOf(l)] = FALSE]
  /\ ClearLease(JobOf(l))
  /\ UNCHANGED <<cancel, run, sub, claimVars, envVars>>

FailRequeue(l) ==
  /\ Holds(l)
  /\ state' = [state EXCEPT ![JobOf(l)] = "PENDING"]
  /\ due'   = [due EXCEPT ![JobOf(l)] = FALSE]
  /\ ClearLease(JobOf(l))
  /\ UNCHANGED <<attempt, cancel, run, sub, claimVars, envVars>>

(* fail as promised: the attempt that is compared with the budget is the   *)
(* attempt that failed.                                                    *)
Exhausted(j, class) == class = "PERMANENT" \/ attempt[j] >= MaxAttempts

Fail(l, class) ==
  \/ Exhausted(JobOf(l), class)  /\ FailDeadLetter(l)
  \/ ~Exhausted(JobOf(l), class) /\ FailRequeue(l)

(* releaseForPause gives the attempt back and leaves the job due.          *)
ReleaseForPause(l) ==
  /\ Holds(l)
  /\ state'   = [state EXCEPT ![JobOf(l)] = "PENDING"]
  /\ attempt' = [attempt EXCEPT ![JobOf(l)] = @ - 1]
  /\ due'     = [due EXCEPT ![JobOf(l)] = TRUE]
  /\ ClearLease(JobOf(l))
  /\ UNCHANGED <<cancel, run, sub, claimVars, envVars>>

(* sweepExpiredLeases: two statements over every expired row that nobody   *)
(* has locked.  The rows are independent, so a sweep is a sequence of      *)
(* these steps.                                                            *)
(* Mutants: each boundary of the sweep off by one.                         *)
SweepRequeueOnceMore(j) ==
  /\ Live(j) /\ expired[j] /\ attempt[j] <= MaxAttempts
  /\ state' = [state EXCEPT ![j] = "PENDING"]
  /\ due'   = [due EXCEPT ![j] = FALSE]
  /\ ClearLease(j)
  /\ UNCHANGED <<attempt, cancel, run, sub, claimVars, envVars>>

SweepDeadLetterLate(j) ==
  /\ Live(j) /\ expired[j] /\ attempt[j] > MaxAttempts
  /\ state' = [state EXCEPT ![j] = "DEAD_LETTER"]
  /\ ClearLease(j)
  /\ UNCHANGED <<attempt, due, cancel, run, sub, claimVars, envVars>>

SweepRequeue(j) ==
  /\ Live(j) /\ expired[j] /\ attempt[j] < MaxAttempts
  /\ state' = [state EXCEPT ![j] = "PENDING"]
  /\ due'   = [due EXCEPT ![j] = FALSE]
  /\ ClearLease(j)
  /\ UNCHANGED <<attempt, cancel, run, sub, claimVars, envVars>>

SweepDeadLetter(j) ==
  /\ Live(j) /\ expired[j] /\ attempt[j] >= MaxAttempts
  /\ state' = [state EXCEPT ![j] = "DEAD_LETTER"]
  /\ ClearLease(j)
  /\ UNCHANGED <<attempt, due, cancel, run, sub, claimVars, envVars>>

-----------------------------------------------------------------------------
(* Operator statements                                                     *)

(* The PENDING half of cancel, cancelAllForExtension, cancelAllForBundle.  *)
Queued(S) == {j \in S : Exists(j) /\ state[j] = "PENDING"}

CancelPending(S) ==
  /\ state'  = [j \in Jobs |-> IF j \in Queued(S) THEN "CANCELLED" ELSE state[j]]
  /\ cancel' = [j \in Jobs |-> cancel[j] \/ j \in Queued(S)]
  /\ UNCHANGED <<attempt, lease, expired, due, run, sub, claimVars, envVars>>

(* ... and their LEASED/RUNNING half.                                      *)
(* Mutant: a job that was leased but not started is not flagged.           *)
FlagRunning(S) ==
  /\ cancel' = [j \in Jobs |-> cancel[j] \/ (j \in S /\ state[j] = "RUNNING")]
  /\ UNCHANGED <<state, attempt, lease, expired, due, run, sub, claimVars, envVars>>

FlagLive(S) ==
  /\ cancel' = [j \in Jobs |-> cancel[j] \/ (j \in S /\ Live(j))]
  /\ UNCHANGED <<state, attempt, lease, expired, due, run, sub, claimVars, envVars>>

(* Mutants of cancelRun's first statement: no state filter, or only PENDING.*)
KillJobsUnfiltered(r) ==
  /\ run[r] # "ABSENT"
  /\ state'  = [j \in Jobs |-> IF RunOf[j] = r THEN "CANCELLED" ELSE state[j]]
  /\ cancel' = [j \in Jobs |-> cancel[j] \/ RunOf[j] = r]
  /\ UNCHANGED <<attempt, lease, expired, due, run, sub, claimVars, envVars>>

KillJobsGently(r) == CancelPending(JobsOf(r))

(* cancelRun, the jobs: every unfinished one, leased or not.               *)
KillJobs(r) ==
  /\ run[r] # "ABSENT"
  /\ state'  = [j \in Jobs |->
                  IF RunOf[j] = r /\ ~Terminal(j) THEN "CANCELLED" ELSE state[j]]
  /\ cancel' = [j \in Jobs |-> cancel[j] \/ (RunOf[j] = r /\ ~Terminal(j))]
  /\ UNCHANGED <<attempt, lease, expired, due, run, sub, claimVars, envVars>>

(* Mutant: the run is cancelled whatever state it was read in.             *)
KillRunFinished(r, seen) ==
  /\ run[r] = seen
  /\ run' = [run EXCEPT ![r] = "CANCELLED"]
  /\ UNCHANGED <<jobVars, sub, claimVars, envVars>>

(* cancelRun, the run: guarded on the state the caller read before.        *)
KillRun(r, seen) ==
  /\ run[r] = seen
  /\ seen \in {"PENDING", "EXECUTING", "INGESTING"}
  /\ run' = [run EXCEPT ![r] = "CANCELLED"]
  /\ UNCHANGED <<jobVars, sub, claimVars, envVars>>

(* Mutant: the run is not revived with its job.                            *)
NotRevived(s) == s

(* replayDeadLetter: the job and its run in one transaction.               *)
Revived(s) == IF s \in {"DEAD_LETTER", "CANCELLED"} THEN "EXECUTING" ELSE s

Replay(j) ==
  /\ state[j] = "DEAD_LETTER"
  /\ state'   = [state EXCEPT ![j] = "PENDING"]
  /\ attempt' = [attempt EXCEPT ![j] = 0]
  /\ due'     = [due EXCEPT ![j] = TRUE]
  /\ cancel'  = [cancel EXCEPT ![j] = FALSE]
  /\ run'     = [run EXCEPT ![RunOf[j]] = Revived(@)]
  /\ UNCHANGED <<lease, expired, sub, claimVars, envVars>>

(* settings.disable / settings.enable                                      *)
Disable(e) ==
  /\ disabled' = disabled \cup {e}
  /\ UNCHANGED <<jobVars, run, sub, claimVars, alive>>

Enable(e) ==
  /\ disabled' = disabled \ {e}
  /\ UNCHANGED <<jobVars, run, sub, claimVars, alive>>

-----------------------------------------------------------------------------
(* advanceRuns and the processor's last write                              *)

(* Mutant: finished jobs are taken for successful ones.                    *)
AdvanceFinished(r) ==
  /\ run[r] \in {"PENDING", "EXECUTING"}
  /\ \A j \in JobsOf(r) : Terminal(j)
  /\ run' = [run EXCEPT ![r] = "INGESTING"]
  /\ UNCHANGED <<jobVars, sub, claimVars, envVars>>

AdvanceReady(r) ==
  /\ run[r] \in {"PENDING", "EXECUTING"}
  /\ \A j \in JobsOf(r) : state[j] = "SUCCEEDED"
  /\ run' = [run EXCEPT ![r] = "INGESTING"]
  /\ UNCHANGED <<jobVars, sub, claimVars, envVars>>

AdvanceDeadLetter(r) ==
  /\ run[r] \in {"PENDING", "EXECUTING"}
  /\ \E j \in JobsOf(r) : state[j] \in {"DEAD_LETTER", "CANCELLED"}
  /\ \A j \in JobsOf(r) : Terminal(j)
  /\ run' = [run EXCEPT ![r] = "DEAD_LETTER"]
  /\ UNCHANGED <<jobVars, sub, claimVars, envVars>>

MarkProcessed(r) ==
  /\ run[r] = "INGESTING"
  /\ run' = [run EXCEPT ![r] = "PROCESSED"]
  /\ UNCHANGED <<jobVars, sub, claimVars, envVars>>

-----------------------------------------------------------------------------
(* result_submissions                                                      *)

(* record: insert, or nothing when the idempotency key exists already.     *)
Record(l) ==
  /\ sub[Key(l)] = NoSub
  /\ sub' = [sub EXCEPT ![Key(l)] = [state |-> "RECEIVED", lease |-> l]]
  /\ UNCHANGED <<jobVars, run, claimVars, envVars>>

(* markSuperseded / markQuarantined                                        *)
(* Mutant: a verdict overwrites a verdict.                                 *)
JudgeAgain(k, verdict) ==
  /\ sub[k] # NoSub
  /\ sub' = [sub EXCEPT ![k].state = verdict]
  /\ UNCHANGED <<jobVars, run, claimVars, envVars>>

Judge(k, verdict) ==
  /\ sub[k].state = "RECEIVED"
  /\ sub' = [sub EXCEPT ![k].state = verdict]
  /\ UNCHANGED <<jobVars, run, claimVars, envVars>>

MarkSuperseded(k)  == Judge(k, "SUPERSEDED")
MarkQuarantined(k) == Judge(k, "QUARANTINED")

(* commit: the submission row and the job row in one transaction; the      *)
(* partial unique index result_committed_one_per_job refuses a second.     *)
(* Mutant: any live lease of the job will do.                              *)
CommittableUnderAnyLease(l) ==
  /\ sub[Key(l)].state = "RECEIVED"
  /\ Live(JobOf(l))
  /\ \A k \in KeysOf(JobOf(l)) : sub[k].state # "COMMITTED"

Committable(l) ==
  /\ sub[Key(l)].state = "RECEIVED"
  /\ Holds(l)
  /\ \A k \in KeysOf(JobOf(l)) : sub[k].state # "COMMITTED"

Commit(l) ==
  /\ Committable(l)
  /\ sub'   = [sub EXCEPT ![Key(l)].state = "COMMITTED"]
  /\ state' = [state EXCEPT ![JobOf(l)] = "SUCCEEDED"]
  /\ UNCHANGED <<attempt, lease, expired, due, cancel, run, claimVars, envVars>>

-----------------------------------------------------------------------------
(* The clock and the workers' heartbeats                                   *)

LeaseExpires(j) ==
  /\ Live(j) /\ ~expired[j]
  /\ expired' = [expired EXCEPT ![j] = TRUE]
  /\ UNCHANGED <<state, attempt, lease, due, cancel, run, sub, claimVars, envVars>>

BackoffElapses(j) ==
  /\ ~due[j]
  /\ due' = [due EXCEPT ![j] = TRUE]
  /\ UNCHANGED <<state, attempt, lease, expired, cancel, run, sub, claimVars, envVars>>

CooldownElapses ==
  /\ recent # None
  /\ recent' = None
  /\ UNCHANGED <<jobVars, run, sub, grant, envVars>>

Heartbeat(w) ==
  /\ alive' = alive \cup {w}
  /\ UNCHANGED <<jobVars, run, sub, claimVars, disabled>>

GoesSilent(w) ==
  /\ alive' = alive \ {w}
  /\ UNCHANGED <<jobVars, run, sub, claimVars, disabled>>

-----------------------------------------------------------------------------
LeaseStep(l) ==
  \/ Start(l) \/ Renew(l) \/ ReleaseForPause(l)
  \/ Record(l) \/ Commit(l)
  \/ \E class \in ErrorClasses : Fail(l, class)

JobStep(j) ==
  \/ SweepRequeue(j) \/ SweepDeadLetter(j) \/ Replay(j)
  \/ LeaseExpires(j) \/ BackoffElapses(j)
  \/ \E w \in Workers, l \in Leases : Claim(w, j, l)
  \/ \E k \in KeysOf(j) : MarkSuperseded(k) \/ MarkQuarantined(k)

RunStep(r) ==
  \/ CreateRun(r) \/ MarkExecuting(r) \/ KillJobs(r)
  \/ AdvanceReady(r) \/ AdvanceDeadLetter(r) \/ MarkProcessed(r)
  \/ \E seen \in RunStates : KillRun(r, seen)

GroupStep(S) == CancelPending(S) \/ FlagLive(S)

FleetStep ==
  \/ CooldownElapses
  \/ \E w \in Workers : Heartbeat(w) \/ GoesSilent(w)
  \/ \E e \in Exts : Disable(e) \/ Enable(e)

Next ==
  \/ \E l \in Granted : LeaseStep(l)
  \/ \E j \in Jobs : JobStep(j)
  \/ \E r \in Runs : RunStep(r)
  \/ \E S \in SUBSET Jobs : GroupStep(S)
  \/ FleetStep

Spec == Init /\ [][Next]_storeVars

-----------------------------------------------------------------------------
(* Invariants                                                              *)

(* Every column holds a value of its type, and a row that has not been     *)
(* inserted has the defaults it will be inserted with.                     *)
TypeOK ==
  /\ state \in [Jobs -> JobStates]
  /\ attempt \in [Jobs -> 0..MaxAttempts]
  /\ lease \in [Jobs -> Leases \cup {None}]
  /\ expired \in [Jobs -> BOOLEAN]
  /\ due \in [Jobs -> BOOLEAN]
  /\ cancel \in [Jobs -> BOOLEAN]
  /\ run \in [Runs -> RunStates]
  /\ sub \in [Jobs \X Attempts -> Submission \cup {NoSub}]
  /\ grant \in [Leases -> Grant \cup {None}]
  /\ recent \in Jobs \cup {None}
  /\ alive \subseteq Workers
  /\ disabled \subseteq Exts

(* A claimed row and the job its worker was sent agree, for as long as the *)
(* lease id matches: the attempt has not moved under the lease, so the key *)
(* the worker computes is the row's key.  And a row nobody works on holds  *)
(* no lease id that an old worker could still present (claim, fail,        *)
(* sweepExpiredLeases, releaseForPause, replayDeadLetter together).        *)
LeaseNamesTheAttempt ==
  \A j \in Jobs :
    /\ Live(j) => lease[j] # None
    /\ state[j] \in {"PENDING", "DEAD_LETTER"} => lease[j] = None
    /\ lease[j] # None =>
         /\ grant[lease[j]] # None
         /\ JobOf(lease[j]) = j
         /\ grant[lease[j]].attempt = attempt[j]

(* No path hands out an attempt beyond max_attempts, gives one back that   *)
(* was not taken, or leaves a job queued whose budget is spent: the budget *)
(* is checked in fail, in the sweep and nowhere in claim.                  *)
AttemptBudget ==
  \A j \in Jobs :
    /\ state[j] = "PENDING" => attempt[j] < MaxAttempts
    /\ Live(j) => attempt[j] \in Attempts

(* jobs.state and result_submissions.state are written by one transaction  *)
(* in commit and by nothing else: a job has SUCCEEDED exactly when one of  *)
(* its submissions, and only one, is COMMITTED.                            *)
Committed(j) == {k \in KeysOf(j) : sub[k].state = "COMMITTED"}

OneCommitPerSuccess ==
  \A j \in Jobs :
    /\ state[j] = "SUCCEEDED" <=> Committed(j) # {}
    /\ \A k1, k2 \in Committed(j) : k1 = k2

(* What the processor relies on when it takes a run: every job of an       *)
(* INGESTING or PROCESSED run has SUCCEEDED (advanceRuns), and no sweep,   *)
(* cancel, kill or replay afterwards takes one of them back.               *)
RunsRestOnSuccess ==
  \A r \in Runs :
    run[r] \in {"INGESTING", "PROCESSED"} => \A j \in JobsOf(r) : state[j] = "SUCCEEDED"

(* A run that advanceRuns gave up on has no job left to hand out: replay   *)
(* revives the run with the job, as the comment on replayDeadLetter says.  *)
DeadRunIsIdle ==
  \A r \in Runs : run[r] = "DEAD_LETTER" => \A j \in JobsOf(r) : Terminal(j)

(* These invariants are inductive only together: the budget of a  *)
(* queued job bounds the attempt that claim writes, the attempt named by    *)
(* the lease puts the worker's key into the table, and the exclusive        *)
(* commit needs both.                                                       *)
IInv ==
  /\ TypeOK
  /\ LeaseNamesTheAttempt
  /\ AttemptBudget
  /\ OneCommitPerSuccess
  /\ RunsRestOnSuccess
  /\ DeadRunIsIdle

(* A run as the processor sees it, and the results it may rest on.         *)
Phase(s) ==
  CASE s \in {"ABSENT", "PENDING", "EXECUTING"} -> "open"
    [] s = "INGESTING" -> "ready"
    [] s = "PROCESSED" -> "done"
    [] s \in {"DEAD_LETTER", "CANCELLED"} -> "stopped"

Contract == INSTANCE RunContract WITH
  committed <- {j \in Jobs : state[j] = "SUCCEEDED"},
  phase     <- [r \in Runs |-> Phase(run[r])]

(* Leases, retries, sweeps, cancels and replays are invisible to the       *)
(* processor: whatever they do, a run moves as RunContract says, and in    *)
(* particular replayDeadLetter never reopens a run that has all its        *)
(* results, and a PROCESSED run never moves again.                         *)
ImplementsRunContract == Contract!ContractSpec

(* A verdict on a submission is final, and so is success: what a retried   *)
(* submit is answered with (ingest's priorOutcome) never changes.          *)
VerdictsAreFinal ==
  [][/\ \A k \in Jobs \X Attempts :
          sub[k].state \in {"COMMITTED", "SUPERSEDED", "QUARANTINED"} => sub'[k] = sub[k]
     /\ \A j \in Jobs : state[j] = "SUCCEEDED" => state'[j] = "SUCCEEDED"]_storeVars
=============================================================================
