--------------------------- MODULE JobStore_proofs ---------------------------
(* Proofs about JobStore, for every number of jobs, runs, workers and       *)
(* leases and every max_attempts.                                           *)
EXTENDS JobStore, TLAPS

USE DEF Live, Terminal, Exists, JobsOf, Attempts

-----------------------------------------------------------------------------
(* A lease id that a claim returned names a job, and a key of that job.     *)
LEMMA GrantedLease ==
  ASSUME TypeOK, NEW l \in Granted
  PROVE  /\ l \in Leases
         /\ JobOf(l) \in Jobs
         /\ Key(l) \in Jobs \X Attempts
         /\ Key(l) \in KeysOf(JobOf(l))
<1>1. l \in Leases /\ grant[l] \in Grant
  BY DEF TypeOK, Granted
<1>2. grant[l].job \in Jobs /\ grant[l].attempt \in Attempts
  BY <1>1 DEF Grant
<1> QED
  BY <1>1, <1>2 DEF JobOf, Key, KeysOf

(* The empty tables satisfy every invariant.                                *)
LEMMA InitInv == Init => IInv
<1> SUFFICES ASSUME Init PROVE IInv
  OBVIOUS
<1> USE ConstantsAssumption
<1>1. TypeOK
  BY DEF Init, TypeOK, JobStates, RunStates, NoSub
<1>2. LeaseNamesTheAttempt /\ AttemptBudget /\ RunsRestOnSuccess /\ DeadRunIsIdle
  BY DEF Init, LeaseNamesTheAttempt, AttemptBudget, RunsRestOnSuccess, DeadRunIsIdle
<1>3. OneCommitPerSuccess
  BY DEF Init, OneCommitPerSuccess, Committed, KeysOf, NoSub
<1> QED
  BY <1>1, <1>2, <1>3 DEF IInv

-----------------------------------------------------------------------------
(* Steps that move a lease                                                  *)

(* The columns a statement leaves alone keep what is said of them.          *)
LEMMA StartInv == ASSUME IInv, NEW l \in Granted, Start(l) PROVE IInv'
<1> USE DEF IInv
<1>1. JobOf(l) \in Jobs /\ JobOf(l)' = JobOf(l)
  BY GrantedLease DEF Start, claimVars, JobOf
<1>2. TypeOK'
  BY <1>1 DEF TypeOK, Start, JobStates, claimVars, envVars
<1>3. LeaseNamesTheAttempt'
  BY <1>1 DEF TypeOK, Start, LeaseNamesTheAttempt, claimVars, JobOf
<1>4. AttemptBudget'
  BY <1>1 DEF TypeOK, Start, AttemptBudget
<1>5. OneCommitPerSuccess'
  BY <1>1 DEF TypeOK, Start, OneCommitPerSuccess, Committed, KeysOf
<1>6. RunsRestOnSuccess'
  BY <1>1 DEF TypeOK, Start, RunsRestOnSuccess
<1>7. DeadRunIsIdle'
  BY <1>1 DEF TypeOK, Start, DeadRunIsIdle
<1> QED
  BY <1>2, <1>3, <1>4, <1>5, <1>6, <1>7

(* A claim takes a queued job, whose budget is not spent, under a new lease. *)
LEMMA ClaimInv ==
  ASSUME IInv, NEW w \in Workers, NEW j \in Jobs, NEW l \in Leases, Claim(w, j, l)
  PROVE  IInv'
<1> USE DEF IInv
<1>1. [job |-> j, attempt |-> attempt[j] + 1, worker |-> w] \in Grant
  BY ConstantsAssumption DEF TypeOK, Claim, Claimable, AttemptBudget, Grant
<1>2. TypeOK'
  BY <1>1 DEF TypeOK, Claim, Claimable, JobStates, AttemptBudget, Grant, envVars
<1>3. LeaseNamesTheAttempt'
  BY <1>1, ConstantsAssumption DEF TypeOK, Claim, Claimable, LeaseNamesTheAttempt, JobOf
<1>4. AttemptBudget'
  BY ConstantsAssumption DEF TypeOK, Claim, Claimable, AttemptBudget
<1>5. OneCommitPerSuccess'
  BY DEF TypeOK, Claim, Claimable, OneCommitPerSuccess, Committed, KeysOf
<1>6. RunsRestOnSuccess'
  BY  DEF TypeOK, Claim, Claimable, RunsRestOnSuccess
<1>7. DeadRunIsIdle'
  BY  DEF TypeOK, Claim, Claimable, DeadRunIsIdle
<1> QED
  BY <1>2, <1>3, <1>4, <1>5, <1>6, <1>7

(* A commit judges the one row of the job's current attempt.              *)
LEMMA CommitInv == ASSUME IInv, NEW l \in Granted, Commit(l) PROVE IInv'
<1> USE DEF IInv
<1>1. JobOf(l) \in Jobs /\ Key(l) \in Jobs \X Attempts /\ Key(l) \in KeysOf(JobOf(l))
  BY GrantedLease
<1>2. TypeOK'
  BY <1>1 DEF TypeOK, Commit, JobStates, claimVars, envVars, Submission, SubStates, NoSub, Committable
<1>3. LeaseNamesTheAttempt'
  BY <1>1 DEF TypeOK, Commit, LeaseNamesTheAttempt, claimVars, JobOf
<1>4. AttemptBudget'
  BY <1>1 DEF TypeOK, Commit, AttemptBudget
<1>5. OneCommitPerSuccess'
  BY <1>1 DEF TypeOK, Commit, OneCommitPerSuccess, Committed, KeysOf, Committable, Holds, Submission, NoSub
<1>6. RunsRestOnSuccess'
  BY <1>1 DEF TypeOK, Commit, RunsRestOnSuccess
<1>7. DeadRunIsIdle'
  BY <1>1 DEF TypeOK, Commit, DeadRunIsIdle, Committable, Holds
<1> QED
  BY <1>2, <1>3, <1>4, <1>5, <1>6, <1>7

(* A lease comes to an end: the row goes back to the queue, if its budget   *)
(* is not spent, or to the dead letters.                                    *)
LEMMA LeaseEndInv ==
  ASSUME IInv, NEW j \in Jobs, Live(j),
         NEW s \in {"PENDING", "DEAD_LETTER"},
         NEW n \in 0..MaxAttempts, s = "PENDING" => n < MaxAttempts,
         state' = [state EXCEPT ![j] = s],
         attempt' = [attempt EXCEPT ![j] = n],
         ClearLease(j),
         due' \in [Jobs -> BOOLEAN],
         UNCHANGED <<cancel, run, sub, claimVars, envVars>>
  PROVE  IInv'
<1> USE DEF IInv
<1>1. TypeOK'
  BY DEF TypeOK, ClearLease, JobStates, claimVars, envVars
<1>2. LeaseNamesTheAttempt'
  BY DEF TypeOK, ClearLease, LeaseNamesTheAttempt, claimVars, JobOf
<1>3. AttemptBudget'
  BY DEF TypeOK, AttemptBudget
<1>4. OneCommitPerSuccess'
  BY DEF TypeOK, OneCommitPerSuccess, Committed, KeysOf
<1>5. RunsRestOnSuccess'
  BY DEF TypeOK, RunsRestOnSuccess
<1>6. DeadRunIsIdle'
  BY DEF TypeOK, DeadRunIsIdle
<1> QED
  BY <1>1, <1>2, <1>3, <1>4, <1>5, <1>6

(* Both UPDATEs of fail end the lease; the budget decides which.          *)
LEMMA FailInv ==
  ASSUME IInv, NEW l \in Granted, NEW class \in ErrorClasses, Fail(l, class)
  PROVE  IInv'
<1> DEFINE j == JobOf(l)
<1>1. j \in Jobs /\ Live(j) /\ attempt[j] \in 0..MaxAttempts
  BY GrantedLease DEF IInv, TypeOK, Fail, FailDeadLetter, FailRequeue, Holds
<1>2. CASE FailDeadLetter(l)
  BY <1>1, <1>2, LeaseEndInv DEF FailDeadLetter, IInv, TypeOK
<1>3. CASE ~Exhausted(j, class) /\ FailRequeue(l)
  <2>1. attempt[j] < MaxAttempts
    BY <1>1, <1>3, ConstantsAssumption DEF Exhausted
  <2> QED
    BY <1>1, <1>3, <2>1, LeaseEndInv DEF FailRequeue, IInv, TypeOK
<1> QED
  BY <1>2, <1>3 DEF Fail

(* A pause gives back an attempt that was taken.                            *)
LEMMA ReleaseForPauseInv ==
  ASSUME IInv, NEW l \in Granted, ReleaseForPause(l) PROVE IInv'
<1> DEFINE j == JobOf(l)
<1>1. j \in Jobs /\ Live(j) /\ attempt[j] \in Attempts
  BY GrantedLease DEF IInv, AttemptBudget, ReleaseForPause, Holds
<1>2. attempt[j] - 1 \in 0..MaxAttempts /\ attempt[j] - 1 < MaxAttempts
  BY <1>1, ConstantsAssumption
<1> QED
  BY <1>1, <1>2, LeaseEndInv DEF ReleaseForPause, IInv, TypeOK

(* The sweep requeues below the budget and dead-letters at it.            *)
LEMMA SweepInv ==
  ASSUME IInv, NEW j \in Jobs, SweepRequeue(j) \/ SweepDeadLetter(j) PROVE IInv'
<1>1. attempt[j] \in 0..MaxAttempts
  BY DEF IInv, TypeOK
<1>2. CASE SweepRequeue(j)
  BY <1>1, <1>2, LeaseEndInv DEF SweepRequeue, IInv, TypeOK
<1>3. CASE SweepDeadLetter(j)
  BY <1>1, <1>3, LeaseEndInv DEF SweepDeadLetter, IInv, TypeOK
<1> QED
  BY <1>2, <1>3

-----------------------------------------------------------------------------
(* Operator statements                                                      *)

(* Cancel and kill move unfinished jobs only, and to a finished state.      *)
LEMMA CancelledInv ==
  ASSUME IInv, NEW S \in SUBSET Jobs, \A j \in S : ~Terminal(j),
         state' = [j \in Jobs |-> IF j \in S THEN "CANCELLED" ELSE state[j]],
         cancel' \in [Jobs -> BOOLEAN],
         UNCHANGED <<attempt, lease, expired, due, run, sub, claimVars, envVars>>
  PROVE  IInv'
<1> USE DEF IInv
<1>1. TypeOK'
  BY DEF TypeOK, JobStates, claimVars, envVars
<1>2. LeaseNamesTheAttempt'
  BY DEF TypeOK, LeaseNamesTheAttempt, claimVars, JobOf
<1>3. AttemptBudget'
  BY DEF TypeOK, AttemptBudget
<1>4. OneCommitPerSuccess'
  BY DEF TypeOK, OneCommitPerSuccess, Committed, KeysOf
<1>5. RunsRestOnSuccess'
  BY DEF TypeOK, RunsRestOnSuccess
<1>6. DeadRunIsIdle'
  BY DEF TypeOK, DeadRunIsIdle
<1> QED
  BY <1>1, <1>2, <1>3, <1>4, <1>5, <1>6

(* The PENDING half of the cancel family moves queued jobs only.          *)
LEMMA CancelPendingInv ==
  ASSUME IInv, NEW S \in SUBSET Jobs, CancelPending(S) PROVE IInv'
<1>1. Queued(S) \in SUBSET Jobs /\ \A j \in Queued(S) : ~Terminal(j)
  BY DEF Queued
<1>2. cancel' \in [Jobs -> BOOLEAN]
  BY DEF CancelPending, IInv, TypeOK
<1> QED
  BY <1>1, <1>2, CancelledInv DEF CancelPending

(* cancelRun moves every unfinished job of the run, and no finished one.  *)
LEMMA KillJobsInv ==
  ASSUME IInv, NEW r \in Runs, KillJobs(r) PROVE IInv'
<1> DEFINE S == {j \in Jobs : RunOf[j] = r /\ ~Terminal(j)}
<1>0. S \in SUBSET Jobs /\ \A j \in S : ~Terminal(j)
  OBVIOUS
<1>1. state' = [j \in Jobs |-> IF j \in S THEN "CANCELLED" ELSE state[j]]
  BY DEF KillJobs
<1>2. cancel' \in [Jobs -> BOOLEAN]
  BY DEF KillJobs, IInv, TypeOK
<1>3. UNCHANGED <<attempt, lease, expired, due, run, sub, claimVars, envVars>>
  BY DEF KillJobs
<1> HIDE DEF S
<1> QED
  BY <1>0, <1>1, <1>2, <1>3, CancelledInv

(* A replay hands out the job again, and lifts its run out of the dead      *)
(* letters with it.                                                         *)
LEMMA ReplayInv == ASSUME IInv, NEW j \in Jobs, Replay(j) PROVE IInv'
<1> USE ConstantsAssumption DEF IInv, Replay
<1>1. RunOf[j] \in Runs /\ run[RunOf[j]] \in RunStates
  BY DEF TypeOK
<1>2. /\ Revived(run[RunOf[j]]) \in RunStates \ {"DEAD_LETTER"}
      /\ Revived(run[RunOf[j]]) \in {"INGESTING", "PROCESSED"} =>
           run[RunOf[j]] \in {"INGESTING", "PROCESSED"}
  BY <1>1 DEF Revived, RunStates
<1>3. TypeOK'
  BY <1>1, <1>2 DEF TypeOK, JobStates, claimVars, envVars
<1>4. LeaseNamesTheAttempt'
  BY DEF TypeOK, LeaseNamesTheAttempt, claimVars, JobOf
<1>5. AttemptBudget'
  BY DEF TypeOK, AttemptBudget
<1>6. OneCommitPerSuccess'
  BY DEF TypeOK, OneCommitPerSuccess, Committed, KeysOf
<1>7. RunsRestOnSuccess'
  BY <1>1, <1>2 DEF TypeOK, RunsRestOnSuccess
<1>8. DeadRunIsIdle'
  BY <1>1, <1>2 DEF TypeOK, DeadRunIsIdle
<1> QED
  BY <1>3, <1>4, <1>5, <1>6, <1>7, <1>8

-----------------------------------------------------------------------------
(* Submissions, runs, the clock                                             *)

(* A submission that neither was nor becomes COMMITTED changes nothing that *)
(* is said of the jobs.                                                     *)
LEMMA SubmissionInv ==
  ASSUME IInv, NEW k \in Jobs \X Attempts, NEW row \in Submission,
         sub[k].state # "COMMITTED", row.state # "COMMITTED",
         sub' = [sub EXCEPT ![k] = row],
         UNCHANGED <<jobVars, run, claimVars, envVars>>
  PROVE  IInv'
<1> USE DEF IInv, jobVars
<1>1. TypeOK'
  BY DEF TypeOK, claimVars, envVars
<1>2. LeaseNamesTheAttempt' /\ AttemptBudget' /\ RunsRestOnSuccess' /\ DeadRunIsIdle'
  BY DEF LeaseNamesTheAttempt, AttemptBudget, RunsRestOnSuccess, DeadRunIsIdle,
         claimVars, JobOf
<1>3. \A q \in Jobs \X Attempts : sub'[q].state = "COMMITTED" <=> sub[q].state = "COMMITTED"
  BY DEF TypeOK
<1>4. \A j \in Jobs : Committed(j)' = Committed(j)
  BY <1>3 DEF Committed, KeysOf
<1>5. OneCommitPerSuccess'
  BY <1>4 DEF OneCommitPerSuccess
<1> QED
  BY <1>1, <1>2, <1>5

(* A recorded submission is RECEIVED, never COMMITTED.                    *)
LEMMA RecordInv == ASSUME IInv, NEW l \in Granted, Record(l) PROVE IInv'
<1>1. Key(l) \in Jobs \X Attempts /\ l \in Leases
  BY GrantedLease DEF IInv
<1> DEFINE row == [state |-> "RECEIVED", lease |-> l]
<1>2. row \in Submission /\ row.state # "COMMITTED"
  BY <1>1 DEF Submission, SubStates
<1>3. sub' = [sub EXCEPT ![Key(l)] = row] /\ sub[Key(l)].state # "COMMITTED"
  BY DEF Record, NoSub
<1>4. UNCHANGED <<jobVars, run, claimVars, envVars>>
  BY DEF Record
<1> HIDE DEF row
<1> QED
  BY <1>1, <1>2, <1>3, <1>4, SubmissionInv

(* Superseding or quarantining touches a RECEIVED submission only.        *)
LEMMA JudgeInv ==
  ASSUME IInv, NEW k \in Jobs \X Attempts,
         NEW verdict \in {"SUPERSEDED", "QUARANTINED"}, Judge(k, verdict)
  PROVE  IInv'
<1> DEFINE row == [sub[k] EXCEPT !.state = verdict]
<1>1. sub[k] \in Submission
  BY DEF Judge, IInv, TypeOK, NoSub
<1>2. row \in Submission /\ row.state # "COMMITTED"
  BY <1>1 DEF Submission, SubStates
<1>3. sub' = [sub EXCEPT ![k] = row] /\ sub[k].state # "COMMITTED"
  BY DEF Judge
<1>4. UNCHANGED <<jobVars, run, claimVars, envVars>>
  BY DEF Judge
<1> HIDE DEF row
<1> QED
  BY <1>2, <1>3, <1>4, SubmissionInv

(* A run moves.                                                             *)
LEMMA RunInv ==
  ASSUME IInv, NEW r \in Runs, NEW s \in RunStates \ {"ABSENT"},
         s \in {"INGESTING", "PROCESSED"} => \A j \in JobsOf(r) : state[j] = "SUCCEEDED",
         s = "DEAD_LETTER" => \A j \in JobsOf(r) : Terminal(j),
         run' = [run EXCEPT ![r] = s],
         UNCHANGED <<jobVars, sub, claimVars, envVars>>
  PROVE  IInv'
<1> USE DEF IInv, jobVars
<1>1. TypeOK'
  BY DEF TypeOK, claimVars, envVars
<1>2. LeaseNamesTheAttempt' /\ AttemptBudget'
  BY DEF LeaseNamesTheAttempt, AttemptBudget, claimVars, JobOf
<1>3. OneCommitPerSuccess'
  BY DEF OneCommitPerSuccess, Committed
<1>4. RunsRestOnSuccess' /\ DeadRunIsIdle'
  BY DEF TypeOK, RunsRestOnSuccess, DeadRunIsIdle
<1> QED
  BY <1>1, <1>2, <1>3, <1>4

(* Every statement about a run keeps the invariant.                       *)
LEMMA RunStepInv == ASSUME IInv, NEW r \in Runs, RunStep(r) PROVE IInv'
<1> USE DEF RunStates
<1>1. CASE CreateRun(r)
  BY <1>1, RunInv DEF CreateRun
<1>2. CASE MarkExecuting(r)
  BY <1>2, RunInv DEF MarkExecuting
<1>3. CASE KillJobs(r)
  BY <1>3, KillJobsInv
<1>4. CASE AdvanceReady(r)
  BY <1>4, RunInv DEF AdvanceReady
<1>5. CASE AdvanceDeadLetter(r)
  BY <1>5, RunInv DEF AdvanceDeadLetter
<1>6. CASE MarkProcessed(r)
  <2>1. \A j \in JobsOf(r) : state[j] = "SUCCEEDED"
    BY <1>6 DEF MarkProcessed, IInv, RunsRestOnSuccess
  <2> QED
    BY <1>6, <2>1, RunInv DEF MarkProcessed
<1>7. CASE \E seen \in RunStates : KillRun(r, seen)
  BY <1>7, RunInv DEF KillRun
<1> QED
  BY <1>1, <1>2, <1>3, <1>4, <1>5, <1>6, <1>7 DEF RunStep

(* The other columns occur in TypeOK only.                                  *)
LEMMA QuietInv ==
  ASSUME IInv, TypeOK', UNCHANGED <<state, attempt, lease, run, sub, grant>>
  PROVE  IInv'
<1>1. LeaseNamesTheAttempt' /\ AttemptBudget' /\ RunsRestOnSuccess' /\ DeadRunIsIdle'
  BY DEF IInv, LeaseNamesTheAttempt, AttemptBudget, RunsRestOnSuccess, DeadRunIsIdle, JobOf
<1>2. OneCommitPerSuccess'
  BY DEF IInv, OneCommitPerSuccess, Committed
<1> QED
  BY <1>1, <1>2 DEF IInv

(* Every statement a lease holder can cause keeps the invariant.          *)
LEMMA LeaseStepInv == ASSUME IInv, NEW l \in Granted, LeaseStep(l) PROVE IInv'
<1>1. CASE Renew(l)
  BY <1>1, QuietInv DEF Renew, storeVars, jobVars, claimVars, envVars, IInv, TypeOK
<1> QED
  BY <1>1, StartInv, ReleaseForPauseInv, RecordInv, CommitInv, FailInv DEF LeaseStep

(* Claims, sweeps, replays and the clock keep the invariant.              *)
LEMMA JobStepInv == ASSUME IInv, NEW j \in Jobs, JobStep(j) PROVE IInv'
<1>1. CASE LeaseExpires(j)
  BY <1>1, QuietInv DEF LeaseExpires, claimVars, envVars, IInv, TypeOK
<1>2. CASE BackoffElapses(j)
  BY <1>2, QuietInv DEF BackoffElapses, claimVars, envVars, IInv, TypeOK
<1>3. CASE \E k \in KeysOf(j) : MarkSuperseded(k) \/ MarkQuarantined(k)
  <2>1. KeysOf(j) \subseteq Jobs \X Attempts
    BY DEF KeysOf
  <2> QED
    BY <1>3, <2>1, JudgeInv DEF MarkSuperseded, MarkQuarantined
<1> QED
  BY <1>1, <1>2, <1>3, SweepInv, ReplayInv, ClaimInv DEF JobStep

(* The two statements over a set of jobs keep the invariant.              *)
LEMMA GroupStepInv == ASSUME IInv, NEW S \in SUBSET Jobs, GroupStep(S) PROVE IInv'
<1>1. CASE FlagLive(S)
  BY <1>1, QuietInv DEF FlagLive, claimVars, envVars, IInv, TypeOK
<1> QED
  BY <1>1, CancelPendingInv DEF GroupStep

(* Heartbeats, disabling and the cooldown touch no job and no run.        *)
LEMMA FleetStepInv == ASSUME IInv, FleetStep PROVE IInv'
<1>1. TypeOK'
  BY DEF FleetStep, CooldownElapses, Heartbeat, GoesSilent, Disable, Enable,
         jobVars, claimVars, envVars, IInv, TypeOK
<1>2. UNCHANGED <<state, attempt, lease, run, sub, grant>>
  BY DEF FleetStep, CooldownElapses, Heartbeat, GoesSilent, Disable, Enable,
         jobVars, claimVars
<1> QED
  BY <1>1, <1>2, QuietInv

(* The invariant is inductive.                                            *)
LEMMA NextInv == IInv /\ [Next]_storeVars => IInv'
<1> SUFFICES ASSUME IInv, [Next]_storeVars PROVE IInv'
  OBVIOUS
<1>1. CASE UNCHANGED storeVars
  BY <1>1, QuietInv DEF storeVars, jobVars, claimVars, envVars, IInv, TypeOK
<1> QED
  BY <1>1, LeaseStepInv, JobStepInv, RunStepInv, GroupStepInv, FleetStepInv DEF Next

-----------------------------------------------------------------------------
(* Theorems                                                                 *)

(* The inductive invariant holds in every reachable state of the tables.  *)
THEOREM Inductive == Spec => []IInv
  BY InitInv, NextInv, PTL DEF Spec

(* Every statement of JobStore writes values of the columns' types: in      *)
(* particular no order of claims, failures, sweeps, pauses and replays      *)
(* takes an attempt below 0 or beyond max_attempts.                         *)
THEOREM Types == Spec => []TypeOK
  BY Inductive, PTL DEF IInv

(* The lease id a worker still holds names the job and the attempt of the   *)
(* row, and a queued or dead-lettered row holds none (claim, fail, sweep,   *)
(* releaseForPause, replayDeadLetter).                                      *)
THEOREM LeaseIdentity == Spec => []LeaseNamesTheAttempt
  BY Inductive, PTL DEF IInv

(* A job is never queued with its budget spent.                             *)
THEOREM Budgeted == Spec => []AttemptBudget
  BY Inductive, PTL DEF IInv

(* At-least-once delivery, exactly one effect: a job has SUCCEEDED exactly  *)
(* when one of its submissions, and only one, was COMMITTED.                *)
THEOREM ExactlyOneCommit == Spec => []OneCommitPerSuccess
  BY Inductive, PTL DEF IInv

(* The processor never works from the results of an unfinished job, and     *)
(* none of them is taken away from it.                                      *)
THEOREM ProcessorRests == Spec => []RunsRestOnSuccess
  BY Inductive, PTL DEF IInv

(* A dead-lettered run has no job that a worker could still be handed.      *)
THEOREM DeadRunsRest == Spec => []DeadRunIsIdle
  BY Inductive, PTL DEF IInv

-----------------------------------------------------------------------------
(* Verdicts are final                                                       *)

(* The three statements that write result_submissions, and what they find.  *)
LEMMA SubmissionWrites ==
  ASSUME IInv, Next
  PROVE  \/ UNCHANGED sub
         \/ \E k \in Jobs \X Attempts, row \in Submission :
              sub[k].state \in {"NONE", "RECEIVED"} /\ sub' = [sub EXCEPT ![k] = row]
<1>1. ASSUME NEW l \in Granted, LeaseStep(l)
      PROVE  \/ UNCHANGED sub
             \/ \E k \in Jobs \X Attempts, row \in Submission :
                  sub[k].state \in {"NONE", "RECEIVED"} /\ sub' = [sub EXCEPT ![k] = row]
  <2>1. Key(l) \in Jobs \X Attempts /\ l \in Leases
    BY GrantedLease DEF IInv
  <2>2. CASE Record(l)
    <3>1. [state |-> "RECEIVED", lease |-> l] \in Submission
      BY <2>1 DEF Submission, SubStates
    <3>2. sub[Key(l)].state = "NONE"
      BY <2>2 DEF Record, NoSub
    <3>3. sub' = [sub EXCEPT ![Key(l)] = [state |-> "RECEIVED", lease |-> l]]
      BY <2>2 DEF Record
    <3> QED
      BY <2>1, <3>1, <3>2, <3>3, Zenon
  <2>3. CASE Commit(l)
    <3>1. sub[Key(l)].state = "RECEIVED" /\ sub[Key(l)] \in Submission
      BY <2>1, <2>3 DEF Commit, Committable, IInv, TypeOK, NoSub
    <3>2. [sub[Key(l)] EXCEPT !.state = "COMMITTED"] \in Submission
      BY <3>1 DEF Submission, SubStates
    <3> QED
      BY <2>1, <2>3, <3>1, <3>2 DEF Commit
  <2> QED
    BY <1>1, <2>2, <2>3 DEF LeaseStep, Start, Renew, ReleaseForPause, Fail,
         FailDeadLetter, FailRequeue, storeVars
<1>2. ASSUME NEW j \in Jobs, JobStep(j)
      PROVE  \/ UNCHANGED sub
             \/ \E k \in Jobs \X Attempts, row \in Submission :
                  sub[k].state \in {"NONE", "RECEIVED"} /\ sub' = [sub EXCEPT ![k] = row]
  <2>1. ASSUME NEW k \in KeysOf(j), NEW v \in {"SUPERSEDED", "QUARANTINED"}, Judge(k, v)
        PROVE  \E q \in Jobs \X Attempts, row \in Submission :
                 sub[q].state \in {"NONE", "RECEIVED"} /\ sub' = [sub EXCEPT ![q] = row]
    <3>1. k \in Jobs \X Attempts
      BY DEF KeysOf
    <3>2. sub[k].state = "RECEIVED" /\ sub[k] \in Submission
      BY <2>1, <3>1 DEF Judge, IInv, TypeOK, NoSub
    <3>3. [sub[k] EXCEPT !.state = v] \in Submission
      BY <3>2 DEF Submission, SubStates
    <3> QED
      BY <2>1, <3>1, <3>2, <3>3 DEF Judge
  <2> QED
    BY <1>2, <2>1 DEF JobStep, MarkSuperseded, MarkQuarantined, SweepRequeue,
         SweepDeadLetter, Replay, LeaseExpires, BackoffElapses, Claim
<1>3. ASSUME NEW r \in Runs, RunStep(r) PROVE UNCHANGED sub
  BY <1>3 DEF RunStep, CreateRun, MarkExecuting, KillJobs, AdvanceReady,
       AdvanceDeadLetter, MarkProcessed, KillRun
<1>4. ASSUME NEW S \in SUBSET Jobs, GroupStep(S) PROVE UNCHANGED sub
  BY <1>4 DEF GroupStep, CancelPending, FlagLive
<1>5. ASSUME FleetStep PROVE UNCHANGED sub
  BY <1>5 DEF FleetStep, CooldownElapses, Heartbeat, GoesSilent, Disable, Enable
<1> QED
  BY <1>1, <1>2, <1>3, <1>4, <1>5 DEF Next

(* No statement takes a job out of SUCCEEDED: each demands another state.   *)
LEMMA SuccessStays ==
  ASSUME IInv, Next, NEW j \in Jobs, state[j] = "SUCCEEDED"
  PROVE  state'[j] = "SUCCEEDED"
<1> USE DEF IInv, TypeOK
<1>1. ASSUME NEW l \in Granted, LeaseStep(l) PROVE state'[j] = "SUCCEEDED"
  BY <1>1, GrantedLease DEF LeaseStep, Start, Renew, ReleaseForPause, Record, Commit,
       Committable, Fail, FailDeadLetter, FailRequeue, Holds, storeVars, jobVars
<1>2. ASSUME NEW i \in Jobs, JobStep(i) PROVE state'[j] = "SUCCEEDED"
  BY <1>2 DEF JobStep, MarkSuperseded, MarkQuarantined, Judge, SweepRequeue,
       SweepDeadLetter, Replay, LeaseExpires, BackoffElapses, Claim, Claimable, jobVars
<1>3. ASSUME NEW r \in Runs, RunStep(r) PROVE state'[j] = "SUCCEEDED"
  BY <1>3 DEF RunStep, CreateRun, MarkExecuting, KillJobs, AdvanceReady,
       AdvanceDeadLetter, MarkProcessed, KillRun, jobVars
<1>4. ASSUME NEW S \in SUBSET Jobs, GroupStep(S) PROVE state'[j] = "SUCCEEDED"
  BY <1>4 DEF GroupStep, CancelPending, FlagLive, Queued
<1>5. ASSUME FleetStep PROVE state'[j] = "SUCCEEDED"
  BY <1>5 DEF FleetStep, CooldownElapses, Heartbeat, GoesSilent, Disable, Enable, jobVars
<1> QED
  BY <1>1, <1>2, <1>3, <1>4, <1>5 DEF Next

(* A verdict on a submission, and the success of a job, are never taken     *)
(* back (Judge and Commit demand RECEIVED; nothing replays a success).      *)
THEOREM FinalVerdicts == Spec => VerdictsAreFinal
<1> DEFINE Kept ==
      /\ \A k \in Jobs \X Attempts :
           sub[k].state \in {"COMMITTED", "SUPERSEDED", "QUARANTINED"} => sub'[k] = sub[k]
      /\ \A j \in Jobs : state[j] = "SUCCEEDED" => state'[j] = "SUCCEEDED"
<1>1. ASSUME IInv, Next PROVE Kept
  <2>1. \A k \in Jobs \X Attempts :
          sub[k].state \in {"COMMITTED", "SUPERSEDED", "QUARANTINED"} => sub'[k] = sub[k]
    BY <1>1, SubmissionWrites DEF IInv, TypeOK
  <2> QED
    BY <1>1, <2>1, SuccessStays
<1>2. IInv /\ [Next]_storeVars => [Kept]_storeVars
  BY <1>1
<1> QED
  BY <1>2, Inductive, PTL DEF Spec, VerdictsAreFinal

-----------------------------------------------------------------------------
(* JobStore implements RunContract                                          *)

(* No job has a result and every run is open before anything is created.  *)
LEMMA InitContract == Init => Contract!ContractInit
  BY DEF Init, Contract!ContractInit, Phase

(* A step of the contract that moves one run.                               *)
LEMMA PhaseMoves ==
  ASSUME TypeOK, NEW r \in Runs, NEW s \in RunStates, run' = [run EXCEPT ![r] = s]
  PROVE  [q \in Runs |-> Phase(run[q])]' =
           [[q \in Runs |-> Phase(run[q])] EXCEPT ![r] = Phase(s)]
  BY DEF TypeOK

(* Steps that neither accept a result nor change the phase of a run.        *)
LEMMA Invisible ==
  ASSUME \A j \in Jobs : state'[j] = "SUCCEEDED" <=> state[j] = "SUCCEEDED",
         \A r \in Runs : Phase(run'[r]) = Phase(run[r])
  PROVE  UNCHANGED Contract!contractVars
  BY DEF Contract!contractVars

(* Of a lease holder's statements the contract sees the commit alone.     *)
LEMMA LeaseStepContract ==
  ASSUME IInv, NEW l \in Granted, LeaseStep(l)
  PROVE  (\E j \in Jobs : Contract!Accept(j)) \/ UNCHANGED Contract!contractVars
<1> USE DEF IInv, TypeOK
<1>1. JobOf(l) \in Jobs
  BY GrantedLease
<1>2. CASE Commit(l)
  <2>1. state[JobOf(l)] # "SUCCEEDED"
    BY <1>2 DEF Commit, Committable, Holds
  <2> QED
    BY <1>1, <1>2, <2>1 DEF Commit, Contract!Accept
<1>3. CASE ~Commit(l)
  <2>1. run' = run
    BY <1>3 DEF LeaseStep, Start, Renew, ReleaseForPause, Record, Fail, FailDeadLetter,
         FailRequeue, storeVars
  <2>2. \A j \in Jobs : state'[j] = "SUCCEEDED" <=> state[j] = "SUCCEEDED"
    BY <1>1, <1>3 DEF LeaseStep, Start, Renew, ReleaseForPause, Record, Fail,
         FailDeadLetter, FailRequeue, Holds, storeVars, jobVars
  <2> QED
    BY <2>1, <2>2, Invisible
<1> QED
  BY <1>2, <1>3

(* A replay reopens a stopped run, and only one that misses a result.     *)
LEMMA ReplayContract ==
  ASSUME IInv, NEW j \in Jobs, Replay(j)
  PROVE  Contract!Reopen(RunOf[j]) \/ UNCHANGED Contract!contractVars
<1> DEFINE r == RunOf[j]
<1> USE ConstantsAssumption DEF IInv, Replay
<1>1. r \in Runs /\ run[r] \in RunStates
  BY DEF TypeOK
<1>2. \A i \in Jobs : state'[i] = "SUCCEEDED" <=> state[i] = "SUCCEEDED"
  BY DEF TypeOK
<1>3. CASE run[r] \in {"DEAD_LETTER", "CANCELLED"}
  <2>1. run' = [run EXCEPT ![r] = "EXECUTING"]
    BY <1>3 DEF Revived
  <2>2. [q \in Runs |-> Phase(run[q])]' =
          [[q \in Runs |-> Phase(run[q])] EXCEPT ![r] = "open"]
    BY <1>1, <2>1, PhaseMoves DEF RunStates, Phase
  <2>3. Phase(run[r]) = "stopped"
    BY <1>3 DEF Phase
  <2>4. j \in Contract!Missing(r)
    BY DEF Contract!Missing
  <2> QED
    BY <1>1, <1>2, <2>2, <2>3, <2>4 DEF Contract!Reopen, Contract!Move
<1>4. CASE run[r] \notin {"DEAD_LETTER", "CANCELLED"}
  BY <1>1, <1>2, <1>4, Invisible DEF Revived, TypeOK
<1> QED
  BY <1>3, <1>4

(* Of the statements about a job the contract sees the replay alone.      *)
LEMMA JobStepContract ==
  ASSUME IInv, NEW j \in Jobs, JobStep(j)
  PROVE  Contract!Reopen(RunOf[j]) \/ UNCHANGED Contract!contractVars
<1>1. CASE ~Replay(j)
  <2>1. run' = run
    BY <1>1 DEF JobStep, MarkSuperseded, MarkQuarantined, Judge, SweepRequeue,
         SweepDeadLetter, LeaseExpires, BackoffElapses, Claim
  <2>2. \A i \in Jobs : state'[i] = "SUCCEEDED" <=> state[i] = "SUCCEEDED"
    BY <1>1 DEF JobStep, MarkSuperseded, MarkQuarantined, Judge, SweepRequeue,
         SweepDeadLetter, LeaseExpires, BackoffElapses, Claim, Claimable, jobVars,
         IInv, TypeOK
  <2> QED
    BY <2>1, <2>2, Invisible
<1> QED
  BY <1>1, ReplayContract

(* A statement about a run is a move of the contract or a stutter.        *)
LEMMA RunStepContract ==
  ASSUME IInv, NEW r \in Runs, RunStep(r)
  PROVE  Contract!Ready(r) \/ Contract!Finish(r) \/ Contract!Stop(r)
           \/ UNCHANGED Contract!contractVars
<1> USE DEF IInv, jobVars, RunStates
<1> DEFINE ph == [q \in Runs |-> Phase(run[q])]
           cm == {j \in Jobs : state[j] = "SUCCEEDED"}
<1>1. CASE CreateRun(r) \/ MarkExecuting(r)
  BY <1>1, Invisible DEF CreateRun, MarkExecuting, Phase, TypeOK
<1>2. CASE KillJobs(r)
  BY <1>2, Invisible DEF KillJobs, TypeOK
<1>3. CASE AdvanceReady(r)
  <2>1. ph' = [ph EXCEPT ![r] = "ready"]
    BY <1>3, PhaseMoves DEF AdvanceReady, Phase
  <2>2. ph[r] = "open" /\ cm' = cm /\ Contract!Missing(r) = {}
    BY <1>3 DEF AdvanceReady, Phase, Contract!Missing
  <2> QED
    BY <2>1, <2>2 DEF Contract!Ready, Contract!Move
<1>4. CASE MarkProcessed(r)
  <2>1. ph' = [ph EXCEPT ![r] = "done"]
    BY <1>4, PhaseMoves DEF MarkProcessed, Phase
  <2>2. ph[r] = "ready" /\ cm' = cm
    BY <1>4 DEF MarkProcessed, Phase
  <2> QED
    BY <2>1, <2>2 DEF Contract!Finish, Contract!Move
<1>5. CASE AdvanceDeadLetter(r) \/ \E seen \in RunStates : KillRun(r, seen)
  <2>1. ph' = [ph EXCEPT ![r] = "stopped"]
    BY <1>5, PhaseMoves DEF AdvanceDeadLetter, KillRun, Phase
  <2>2. ph[r] \in {"open", "ready"} /\ cm' = cm
    BY <1>5 DEF AdvanceDeadLetter, KillRun, Phase
  <2> QED
    BY <2>1, <2>2 DEF Contract!Stop, Contract!Move
<1> QED
  BY <1>1, <1>2, <1>3, <1>4, <1>5 DEF RunStep

(* Every statement is a step of the contract or a stutter.                *)
LEMMA NextContract ==
  IInv /\ [Next]_storeVars => [Contract!ContractNext]_(Contract!contractVars)
<1> SUFFICES ASSUME IInv, [Next]_storeVars
             PROVE  Contract!ContractNext \/ UNCHANGED Contract!contractVars
  OBVIOUS
<1>1. CASE UNCHANGED storeVars
  BY <1>1, Invisible DEF storeVars, jobVars
<1>2. ASSUME NEW l \in Granted, LeaseStep(l)
      PROVE  Contract!ContractNext \/ UNCHANGED Contract!contractVars
  BY <1>2, LeaseStepContract DEF Contract!ContractNext
<1>3. ASSUME NEW j \in Jobs, JobStep(j)
      PROVE  Contract!ContractNext \/ UNCHANGED Contract!contractVars
  BY <1>3, JobStepContract, ConstantsAssumption DEF Contract!ContractNext
<1>4. ASSUME NEW r \in Runs, RunStep(r)
      PROVE  Contract!ContractNext \/ UNCHANGED Contract!contractVars
  BY <1>4, RunStepContract DEF Contract!ContractNext
<1>5. ASSUME NEW S \in SUBSET Jobs, GroupStep(S)
      PROVE  UNCHANGED Contract!contractVars
  BY <1>5, Invisible DEF GroupStep, CancelPending, FlagLive, Queued, IInv, TypeOK
<1>6. ASSUME FleetStep PROVE UNCHANGED Contract!contractVars
  BY <1>6, Invisible DEF FleetStep, CooldownElapses, Heartbeat, GoesSilent,
       Disable, Enable, jobVars
<1> QED
  BY <1>1, <1>2, <1>3, <1>4, <1>5, <1>6 DEF Next

(* Leases, retries, sweeps, cancels, kills and replays are invisible in the *)
(* contract between the job plane and the processor: a run is ready only    *)
(* with all its results, a processed run never moves, and a stopped one     *)
(* reopens only with a result missing.                                      *)
THEOREM Implementation == Spec => ImplementsRunContract
  BY InitContract, NextContract, Inductive, PTL
     DEF Spec, ImplementsRunContract, Contract!ContractSpec

=============================================================================
