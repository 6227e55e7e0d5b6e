--------------------------- MODULE JobPlane_proofs ---------------------------
(* Proofs about JobPlane, for every number of jobs, runs, workers, leases   *)
(* and ingest handlers, and every budget of rare events.                    *)
EXTENDS JobPlane, JobStore_proofs

USE DEF Live, Terminal, Exists, JobsOf, Attempts, At, In, Lease, Of, Row, Working

-----------------------------------------------------------------------------
(* The plane implements the tables: every step is a statement or a stutter  *)

(* What a worker, or the route that serves it, does to the tables.          *)
LEMMA AgentStatements ==
  ASSUME PlaneInv, NEW w \in Workers, AgentStep(w) \/ RenewStep(w) \/ CrashAgent(w)
  PROVE  Next \/ UNCHANGED storeVars
<1> DEFINE l == Lease(w)
<1>1. TypeOK /\ (Working(w) => l \in Granted) /\ (renewer[w] # "off" => Working(w))
  BY DEF PlaneInv, IInv, LocalsHold, AgentsKnow, RunningIsRenewed
<1>2. CASE ClaimJob(w)
  BY <1>2 DEF ClaimJob, Next, JobStep
<1>3. CASE MarkRun(w)
  <2>1. RunOfLease(l) \in Runs
    BY <1>1, <1>3, GrantedLease, ConstantsAssumption DEF MarkRun, RunOfLease
  <2> QED
    BY <1>3, <2>1 DEF MarkRun, Next, RunStep
<1>4. CASE StartJob(w)
  BY <1>1, <1>4 DEF StartJob, Next, LeaseStep
<1>5. CASE Decline(w) \/ RenewWhilePaused(w)
  BY <1>1, <1>5 DEF Decline, RenewWhilePaused, HandBack, Next, LeaseStep
<1>6. CASE RenewLease(w)
  BY <1>1, <1>6 DEF RenewLease, Next, LeaseStep
<1> QED
  BY <1>2, <1>3, <1>4, <1>5, <1>6
     DEF AgentStep, RenewStep, CrashAgent, Poll, NothingToDo, AskToStart, FinishJob,
         EndSubmit, AskToRenew

(* What an ingest handler does: fail requeues a job whose budget is not     *)
(* spent, for the attempt it read is still the row's.                       *)
LEMMA IngestStatements ==
  ASSUME PlaneInv, NEW h \in Handlers, Receive(h) \/ IngestStep(h) \/ CrashHandler(h)
  PROVE  Next \/ UNCHANGED storeVars
<1> DEFINE l == handler[h].lease
<1>1. CASE UNCHANGED storeVars
  BY <1>1
<1>2. CASE ~UNCHANGED storeVars
  <2>1. ~In(h, "idle") /\ l \in Granted
    BY <1>2 DEF Receive, CrashHandler, IngestStep, RecordEnvelope, AnswerPrior, SupersedeEnvelope,
         QuarantineEnvelope, ReadAttempt, FailJob, CommitEnvelope, PlaneInv, LocalsHold, HandlersKnow, HandlerKnows
  <2>2. l \in Leases /\ JobOf(l) \in Jobs /\ Key(l) \in KeysOf(JobOf(l))
    BY <2>1, GrantedLease DEF PlaneInv, IInv
  <2>3. CASE RecordEnvelope(h)
    BY <1>2, <2>1, <2>3 DEF RecordEnvelope, Next, LeaseStep
  <2>4. CASE SupersedeEnvelope(h) \/ QuarantineEnvelope(h)
    <3>1. MarkSuperseded(Key(l)) \/ MarkQuarantined(Key(l))
      BY <1>2, <2>4 DEF SupersedeEnvelope, QuarantineEnvelope, JudgeRow, MarkSuperseded, MarkQuarantined
    <3> QED
      BY <2>2, <3>1 DEF Next, JobStep
  <2>5. CASE FailJob(h)
    <3>1. Fail(l, "PERMANENT") \/ Fail(l, "TRANSIENT")
      <4>1. CASE Holds(l) /\ handler[h].last /\ FailDeadLetter(l)
        BY <4>1 DEF Fail, Exhausted
      <4>2. CASE Holds(l) /\ ~handler[h].last /\ FailRequeue(l)
        <5>1. attempt[JobOf(l)] < MaxAttempts
          BY <2>1, <2>5, <4>2 DEF FailJob, PlaneInv, LocalsHold, HandlersKnow, HandlerKnows, HandlerKnows
        <5>2. attempt[JobOf(l)] \in Nat
          BY <2>2, ConstantsAssumption DEF PlaneInv, IInv, TypeOK
        <5> QED
          BY <4>2, <5>1, <5>2, ConstantsAssumption DEF Fail, Exhausted
      <4> QED
        BY <1>2, <2>5, <4>1, <4>2 DEF FailJob
    <3> QED
      BY <2>1, <3>1 DEF Next, LeaseStep, ErrorClasses
  <2>6. CASE CommitEnvelope(h)
    BY <1>2, <2>1, <2>6 DEF CommitEnvelope, Next, LeaseStep
  <2> QED
    BY <1>2, <2>3, <2>4, <2>5, <2>6
       DEF Receive, CrashHandler, IngestStep, AnswerPrior, ReadAttempt
<1> QED
  BY <1>1, <1>2

(* What an operator's command does, statement by statement.                 *)
LEMMA OperatorStatements ==
  ASSUME PlaneInv, OperatorCommand \/ OpStep \/ Resume
  PROVE  Next \/ UNCHANGED storeVars
<1>1. op.jobs \in SUBSET Jobs /\ (op.pc \in {"killJobs", "killRun"} => op.run \in Runs /\ op.seen \in RunStates)
  BY DEF PlaneInv, LocalsHold, OperatorKnows, RunStates
<1>2. CASE CancelQueued \/ FlagLeased
  BY <1>1, <1>2 DEF CancelQueued, FlagLeased, Next, GroupStep
<1>3. CASE KillTheJobs \/ KillTheRun
  BY <1>1, <1>3 DEF KillTheJobs, KillTheRun, Next, RunStep
<1>4. CASE OperatorCommand
  BY <1>4 DEF OperatorCommand, Pause, CancelJob, ReplayJob, DisableExtension, EnableExtension,
       CancelRun, Next, JobStep, FleetStep
<1> QED
  BY <1>2, <1>3, <1>4 DEF OpStep, Resume

(* Every step of every process is one statement of the tables, or none.     *)
LEMMA PlaneStatements ==
  ASSUME PlaneInv, PlaneNext PROVE Next \/ UNCHANGED storeVars
<1>1. ASSUME NEW j \in Jobs, Sweep(j) \/ Expire(j) \/ Backoff(j) PROVE Next
  BY <1>1 DEF Sweep, Expire, Backoff, Alone, Next, JobStep
<1>2. ASSUME NEW r \in Runs, CreateTheRun(r) \/ Advance(r) \/ Process(r) PROVE Next
  BY <1>2 DEF CreateTheRun, Advance, Process, Alone, Next, RunStep
<1>3. CASE Cooldown
  BY <1>3 DEF Cooldown, Alone, Next, FleetStep
<1> QED
  BY <1>1, <1>2, <1>3, AgentStatements, IngestStatements, OperatorStatements DEF PlaneNext

-----------------------------------------------------------------------------
(* What the tables do to a lease a process remembers                        *)

(* A lease is granted once and for good, with the job and attempt it names; *)
(* who holds it held it before, on the same attempt; no run and no          *)
(* submission disappears, and a submission keeps the lease it names.        *)
Remembered ==
  /\ \A l \in Granted : l \in Granted' /\ grant'[l] = grant[l]
  /\ \A l \in Granted : Holds(l)' => Holds(l) /\ attempt'[JobOf(l)] = attempt[JobOf(l)]
  /\ \A r \in Runs : run[r] # "ABSENT" => run'[r] # "ABSENT"
  /\ \A k \in Jobs \X Attempts : sub[k] # NoSub => sub'[k] # NoSub /\ sub'[k].lease = sub[k].lease

(* Grants are written by claim only, for a lease id that is new.            *)
LEMMA GrantsStay ==
  ASSUME IInv, Next PROVE \A l \in Granted : l \in Granted' /\ grant'[l] = grant[l]
<1> USE DEF IInv, TypeOK, Granted
<1>1. ASSUME NEW l \in Granted, LeaseStep(l) PROVE grant' = grant
  BY <1>1 DEF LeaseStep, Start, Renew, ReleaseForPause, Record, Commit, Fail, FailDeadLetter,
       FailRequeue, storeVars, claimVars
<1>2. ASSUME NEW j \in Jobs, JobStep(j) PROVE \A l \in Granted : grant'[l] = grant[l]
  BY <1>2 DEF JobStep, SweepRequeue, SweepDeadLetter, Replay, LeaseExpires, BackoffElapses,
       Claim, MarkSuperseded, MarkQuarantined, Judge, claimVars
<1>3. ASSUME NEW r \in Runs, RunStep(r) PROVE grant' = grant
  BY <1>3 DEF RunStep, CreateRun, MarkExecuting, KillJobs, AdvanceReady, AdvanceDeadLetter,
       MarkProcessed, KillRun, claimVars
<1>4. ASSUME NEW S \in SUBSET Jobs, GroupStep(S) PROVE grant' = grant
  BY <1>4 DEF GroupStep, CancelPending, FlagLive, claimVars
<1>5. ASSUME FleetStep PROVE grant' = grant
  BY <1>5 DEF FleetStep, CooldownElapses, Heartbeat, GoesSilent, Disable, Enable, claimVars
<1> QED
  BY <1>1, <1>2, <1>3, <1>4, <1>5 DEF Next

(* Only claim puts a lease on a row, and nothing puts one back.             *)
LEMMA HeldBefore ==
  ASSUME IInv, Next, NEW l \in Granted, Holds(l)'
  PROVE  Holds(l) /\ attempt'[JobOf(l)] = attempt[JobOf(l)]
<1> DEFINE i == JobOf(l)
<1>0. /\ i \in Jobs /\ JobOf(l)' = i /\ l \in Leases /\ l # None /\ grant[l] # None
      /\ lease'[i] = l /\ state'[i] \in {"LEASED", "RUNNING"}
  BY GrantsStay, GrantedLease, ConstantsAssumption DEF IInv, Holds, JobOf, Granted
<1> HIDE DEF i
<1> USE <1>0 DEF IInv, TypeOK, ClearLease
<1> DEFINE Before == lease[i] = l /\ state[i] \in {"LEASED", "RUNNING"} /\ attempt'[i] = attempt[i]
<1>1. ASSUME NEW m \in Granted, LeaseStep(m) PROVE Before
  <2>1. JobOf(m) \in Jobs
    BY GrantedLease
  <2> QED
    BY <1>1, <2>1 DEF LeaseStep, Start, Renew, ReleaseForPause, Record, Commit, Committable, Fail,
         FailDeadLetter, FailRequeue, Holds, storeVars, jobVars
<1>2. ASSUME NEW j \in Jobs, JobStep(j) PROVE Before
  <2>1. ASSUME NEW w \in Workers, NEW m \in Leases, Claim(w, j, m) PROVE Before
    <3>1. m # l /\ lease'[j] = m
      BY <2>1 DEF Claim
    <3> QED
      BY <2>1, <3>1 DEF Claim
  <2> QED
    BY <1>2, <2>1 DEF JobStep, SweepRequeue, SweepDeadLetter, Replay, LeaseExpires, BackoffElapses,
         MarkSuperseded, MarkQuarantined, Judge, jobVars
<1>3. ASSUME NEW r \in Runs, RunStep(r) PROVE Before
  BY <1>3 DEF RunStep, CreateRun, MarkExecuting, KillJobs, AdvanceReady, AdvanceDeadLetter,
       MarkProcessed, KillRun, jobVars
<1>4. ASSUME NEW S \in SUBSET Jobs, GroupStep(S) PROVE Before
  BY <1>4 DEF GroupStep, CancelPending, FlagLive
<1>5. ASSUME FleetStep PROVE Before
  BY <1>5 DEF FleetStep, CooldownElapses, Heartbeat, GoesSilent, Disable, Enable, jobVars
<1>6. Before
  BY <1>1, <1>2, <1>3, <1>4, <1>5 DEF Next
<1> QED
  BY <1>6 DEF Holds, i

(* Runs are created once.                                                   *)
LEMMA RunsStay ==
  ASSUME IInv, Next, NEW r \in Runs, run[r] # "ABSENT" PROVE run'[r] # "ABSENT"
<1> USE DEF IInv, TypeOK
<1>1. ASSUME NEW l \in Granted, LeaseStep(l) PROVE run' = run
  BY <1>1 DEF LeaseStep, Start, Renew, ReleaseForPause, Record, Commit, Fail, FailDeadLetter,
       FailRequeue, storeVars
<1>2. ASSUME NEW j \in Jobs, JobStep(j) PROVE run'[r] # "ABSENT"
  BY <1>2 DEF JobStep, SweepRequeue, SweepDeadLetter, Replay, Revived, LeaseExpires, BackoffElapses,
       Claim, MarkSuperseded, MarkQuarantined, Judge
<1>3. ASSUME NEW q \in Runs, RunStep(q) PROVE run'[r] # "ABSENT"
  BY <1>3 DEF RunStep, CreateRun, MarkExecuting, KillJobs, AdvanceReady, AdvanceDeadLetter,
       MarkProcessed, KillRun
<1>4. ASSUME NEW S \in SUBSET Jobs, GroupStep(S) PROVE run' = run
  BY <1>4 DEF GroupStep, CancelPending, FlagLive
<1>5. ASSUME FleetStep PROVE run' = run
  BY <1>5 DEF FleetStep, CooldownElapses, Heartbeat, GoesSilent, Disable, Enable
<1> QED
  BY <1>1, <1>2, <1>3, <1>4, <1>5 DEF Next

(* A submission is inserted once, and names its lease for good.             *)
LEMMA SubmissionsStay ==
  ASSUME IInv, Next, NEW k \in Jobs \X Attempts, sub[k] # NoSub
  PROVE  sub'[k] # NoSub /\ sub'[k].lease = sub[k].lease
<1> USE DEF IInv, TypeOK, NoSub
<1>0. sub[k] \in Submission /\ sub[k].state \in SubStates /\ sub[k].lease \in Leases
  BY DEF Submission
<1> DEFINE Stays == sub'[k].state \in SubStates /\ sub'[k].lease = sub[k].lease
<1>a. ASSUME NEW q \in Jobs \X Attempts, NEW v \in SubStates, sub' = [sub EXCEPT ![q].state = v]
      PROVE  Stays
  <2>1. CASE q = k
    <3>1. sub'[k] = [sub[k] EXCEPT !.state = v]
      BY <1>a, <2>1
    <3> QED
      BY <1>0, <3>1 DEF Submission
  <2> QED
    BY <1>0, <1>a, <2>1
<1>1. ASSUME NEW l \in Granted, LeaseStep(l) PROVE Stays
  <2>1. Key(l) \in Jobs \X Attempts
    BY GrantedLease
  <2>2. CASE Record(l)
    BY <1>0, <2>1, <2>2 DEF Record
  <2>3. CASE Commit(l)
    BY <1>a, <2>1, <2>3 DEF Commit, SubStates
  <2> QED
    BY <1>0, <1>1, <2>2, <2>3 DEF LeaseStep, Start, Renew, ReleaseForPause, Fail, FailDeadLetter,
         FailRequeue, storeVars
<1>2. ASSUME NEW j \in Jobs, JobStep(j) PROVE Stays
  <2>1. ASSUME NEW q \in KeysOf(j), NEW v \in {"SUPERSEDED", "QUARANTINED"}, Judge(q, v) PROVE Stays
    BY <1>a, <2>1 DEF Judge, KeysOf, SubStates
  <2> QED
    BY <1>0, <1>2, <2>1 DEF JobStep, SweepRequeue, SweepDeadLetter, Replay, LeaseExpires,
         BackoffElapses, Claim, MarkSuperseded, MarkQuarantined
<1>3. ASSUME NEW r \in Runs, RunStep(r) PROVE sub' = sub
  BY <1>3 DEF RunStep, CreateRun, MarkExecuting, KillJobs, AdvanceReady, AdvanceDeadLetter,
       MarkProcessed, KillRun
<1>4. ASSUME NEW S \in SUBSET Jobs, GroupStep(S) PROVE sub' = sub
  BY <1>4 DEF GroupStep, CancelPending, FlagLive
<1>5. ASSUME FleetStep PROVE sub' = sub
  BY <1>5 DEF FleetStep, CooldownElapses, Heartbeat, GoesSilent, Disable, Enable
<1>6. Stays
  BY <1>0, <1>1, <1>2, <1>3, <1>4, <1>5 DEF Next
<1> QED
  BY <1>6 DEF SubStates

(* All of it, for a step of the plane.                                      *)
LEMMA StepRemembers == ASSUME PlaneInv, PlaneNext PROVE IInv' /\ Remembered
<1>1. IInv /\ (Next \/ UNCHANGED storeVars)
  BY PlaneStatements DEF PlaneInv
<1>2. IInv'
  BY <1>1, NextInv
<1>3. CASE UNCHANGED storeVars
  BY <1>2, <1>3 DEF Remembered, storeVars, jobVars, claimVars, Granted, Holds, JobOf
<1>4. CASE Next
  <2>1. \A l \in Granted : Holds(l)' => Holds(l) /\ attempt'[JobOf(l)] = attempt[JobOf(l)]
    BY <1>1, <1>4, HeldBefore
  <2> QED
    BY <1>1, <1>2, <1>4, <2>1, GrantsStay, RunsStay, SubmissionsStay DEF Remembered
<1> QED
  BY <1>1, <1>2, <1>3, <1>4

-----------------------------------------------------------------------------
(* Agents                                                                   *)

AgentInv ==
  /\ agent \in [Workers -> [pc : AgentStates, lease : Granted \cup {None}]]
  /\ renewer \in [Workers -> RenewStates]
  /\ envelope \in [Leases -> Verdicts \cup {"none"}]
  /\ RunningIsRenewed /\ AgentsKnow /\ EnvelopesAreOfLeases

(* What one agent may do without posting: move on under its lease, or leave. *)
Moves(w) ==
  /\ agent' \in [Workers -> [pc : AgentStates, lease : Granted \cup {None}]]
  /\ renewer' \in [Workers -> RenewStates]
  /\ \A v \in Workers \ {w} : agent'[v] = agent[v] /\ renewer'[v] = renewer[v]
  /\ Working(w)' => /\ Working(w) /\ agent'[w].lease = agent[w].lease
                    /\ agent[w].pc = "submitting" => agent'[w].pc = "submitting"
  /\ agent'[w].pc = "running" => renewer'[w] # "off"
  /\ renewer'[w] # "off" => agent'[w].pc \in {"running", "submitting"}
  /\ UNCHANGED envelope

LEMMA AgentMoves == ASSUME AgentInv, Remembered, NEW w \in Workers, Moves(w) PROVE AgentInv'
<1> USE DEF AgentInv, Moves
<1>1. Granted \subseteq Granted'
  BY DEF Remembered
<1>2. agent' \in [Workers -> [pc : AgentStates, lease : Granted' \cup {None}]]
  BY <1>1
<1>3. RunningIsRenewed'
  BY DEF RunningIsRenewed
<1>4. \A u \in Workers : Working(u)' =>
        /\ Working(u) /\ agent'[u].lease = agent[u].lease
        /\ agent'[u].pc # "submitting" => agent[u].pc # "submitting"
  OBVIOUS
<1>5. AgentsKnow'
  BY <1>1, <1>4 DEF AgentsKnow
<1> QED
  BY <1>1, <1>2, <1>3, <1>5 DEF EnvelopesAreOfLeases

(* What the agents have is theirs through the steps of others.              *)
LEMMA AgentsRest == ASSUME AgentInv, Remembered, UNCHANGED agentVars PROVE AgentInv'
<1>1. Granted \subseteq Granted'
  BY DEF Remembered
<1> QED
  BY <1>1 DEF AgentInv, agentVars, RunningIsRenewed, AgentsKnow, EnvelopesAreOfLeases

(* A running agent submits, and nobody has submitted under its lease.       *)
LEMMA SubmitKeeps ==
  ASSUME AgentInv, Remembered, NEW w \in Workers, At(w, "running"), NEW v \in Verdicts, Submit(w, v),
         renewer' \in [Workers -> RenewStates], \A u \in Workers \ {w} : renewer'[u] = renewer[u]
  PROVE  AgentInv'
<1> USE DEF AgentInv, Submit, Go
<1>1. Working(w) /\ Lease(w) \in Granted /\ Lease(w) \in Leases
  BY DEF AgentsKnow, Granted
<1>2. agent'[w].pc = "submitting" /\ agent'[w].lease = agent[w].lease
  OBVIOUS
<1>3. \A u \in Workers \ {w} : agent'[u] = agent[u] /\ renewer'[u] = renewer[u]
  OBVIOUS
<1>4. \A l \in Leases \ {Lease(w)} : envelope'[l] = envelope[l]
  OBVIOUS
<1>5. Granted \subseteq Granted'
  BY DEF Remembered
<1>6. agent' \in [Workers -> [pc : AgentStates, lease : Granted' \cup {None}]]
  BY <1>5 DEF AgentStates
<1>7. RunningIsRenewed'
  BY <1>2, <1>3 DEF RunningIsRenewed
<1>8. AgentsKnow'
  BY <1>1, <1>2, <1>3, <1>4, <1>5 DEF AgentsKnow, Granted
<1>9. EnvelopesAreOfLeases'
  BY <1>1, <1>4, <1>5 DEF EnvelopesAreOfLeases
<1> QED
  BY <1>1, <1>6, <1>7, <1>8, <1>9

(* A claim gives an agent a lease that nobody has, and nobody posted under. *)
LEMMA ClaimKeeps ==
  ASSUME AgentInv, IInv, Remembered, NEW w \in Workers, ClaimJob(w) PROVE AgentInv'
<1> USE DEF AgentInv
<1>1. PICK j \in Jobs, l \in Leases : Claim(w, j, l) /\ agent' = [agent EXCEPT ![w] = [pc |-> "marking", lease |-> l]]
  BY DEF ClaimJob
<1>0. [job |-> j, attempt |-> attempt[j] + 1, worker |-> w] \in Grant
  BY <1>1, ConstantsAssumption DEF IInv, TypeOK, AttemptBudget, Claim, Claimable, Grant
<1>2. l \notin Granted /\ l \in Granted' /\ Granted \subseteq Granted'
  BY <1>0, <1>1, ConstantsAssumption DEF Claim, Granted, Remembered, IInv, TypeOK
<1>3. /\ agent'[w].pc = "marking" /\ agent'[w].lease = l /\ envelope[l] = "none"
      /\ UNCHANGED <<renewer, envelope>> /\ At(w, "claiming")
  BY <1>1, <1>2 DEF EnvelopesAreOfLeases, ClaimJob
<1>4. \A u \in Workers \ {w} : agent'[u] = agent[u]
  BY <1>1
<1>5. agent' \in [Workers -> [pc : AgentStates, lease : Granted' \cup {None}]]
  BY <1>1, <1>2 DEF AgentStates
<1>6. RunningIsRenewed'
  BY <1>3, <1>4 DEF RunningIsRenewed
<1>7. AgentsKnow'
  BY <1>2, <1>3, <1>4 DEF AgentsKnow
<1>8. EnvelopesAreOfLeases'
  BY <1>2, <1>3 DEF EnvelopesAreOfLeases
<1> QED
  BY <1>3, <1>5, <1>6, <1>7, <1>8

(* Every step of an agent or its renewal timer.                             *)
LEMMA AgentStepKeeps ==
  ASSUME PlaneInv, Remembered, NEW w \in Workers, AgentStep(w) \/ RenewStep(w) \/ CrashAgent(w)
  PROVE  AgentInv'
<1>1. AgentInv /\ IInv
  BY DEF PlaneInv, PlaneTypeOK, LocalsHold, AgentInv
<1>2. agent[w] \in [pc : AgentStates, lease : Granted \cup {None}] /\ renewer[w] \in RenewStates
  BY <1>1 DEF AgentInv
<1>3. /\ At(w, "running") => renewer[w] # "off"
      /\ renewer[w] # "off" => agent[w].pc \in {"running", "submitting"}
  BY <1>1 DEF AgentInv, RunningIsRenewed
<1>4. ASSUME Leave(w), UNCHANGED envelope PROVE Moves(w)
  BY <1>1, <1>4 DEF Leave, NoAgent, Moves, AgentStates, RenewStates, AgentInv
<1>5. CASE Poll(w) \/ NothingToDo(w) \/ MarkRun(w) \/ AskToStart(w)
  <2>1. Moves(w)
    BY <1>1, <1>2, <1>3, <1>5
       DEF Poll, NothingToDo, MarkRun, AskToStart, Go, Moves, AgentStates, RenewStates, AgentInv
  <2> QED
    BY <1>1, <2>1, AgentMoves
<1>6. CASE StartJob(w)
  <2>1. Moves(w)
    BY <1>1, <1>2, <1>3, <1>4, <1>6 DEF StartJob, Go, Moves, AgentStates, RenewStates, AgentInv
  <2> QED
    BY <1>1, <2>1, AgentMoves
<1>7. CASE Decline(w) \/ EndSubmit(w) \/ CrashAgent(w)
  BY <1>1, <1>4, <1>7, AgentMoves DEF Decline, EndSubmit, CrashAgent
<1>8. CASE ClaimJob(w)
  BY <1>1, <1>8, ClaimKeeps
<1>9. CASE FinishJob(w)
  <2>1. PICK v \in Outcomes : Submit(w, v)
    BY <1>9 DEF FinishJob
  <2> QED
    BY <1>1, <1>9, <2>1, SubmitKeeps, PlaneAssumption DEF FinishJob, AgentInv
<1>10. ASSUME NEW r \in RenewStates, renewer' = [renewer EXCEPT ![w] = r], UNCHANGED <<agent, envelope>>,
              renewer[w] # "off", At(w, "running") => r # "off"
       PROVE  AgentInv'
  <2>1. Moves(w)
    BY <1>1, <1>3, <1>10 DEF Moves, AgentInv
  <2> QED
    BY <1>1, <2>1, AgentMoves
<1>11. CASE AskToRenew(w)
  <2>1. "handback" \in RenewStates /\ "asking" \in RenewStates
    BY DEF RenewStates
  <2> QED
    BY <1>11, <1>10, <2>1 DEF AskToRenew
<1>12. ASSUME LoseLease(w), UNCHANGED envelope, renewer[w] # "off" PROVE AgentInv'
  <2>1. "off" \in RenewStates
    BY DEF RenewStates
  <2> QED
    BY <1>1, <1>12, <1>4, <1>10, <2>1, AgentMoves DEF LoseLease
<1>13. CASE RenewLease(w)
  <2>1. CASE LoseLease(w) /\ UNCHANGED envelope
    BY <1>12, <1>13, <2>1 DEF RenewLease
  <2>2. CASE ~(LoseLease(w) /\ UNCHANGED envelope)
    <3> DEFINE r == IF cancel[JobOf(Lease(w))] THEN "off" ELSE "on"
    <3>1. renewer' = [renewer EXCEPT ![w] = r] /\ r \in RenewStates /\ renewer[w] = "asking"
      BY <1>13, <2>2 DEF RenewLease, RenewStates
    <3>2. \/ Submit(w, "TRANSIENT") /\ At(w, "running")
          \/ UNCHANGED <<agent, envelope>> /\ (At(w, "running") => r # "off")
      BY <1>13, <2>2 DEF RenewLease
    <3> HIDE DEF r
    <3>3. CASE Submit(w, "TRANSIENT") /\ At(w, "running")
      <4>1. "TRANSIENT" \in Verdicts
        BY DEF Verdicts
      <4>2. renewer' \in [Workers -> RenewStates] /\ \A u \in Workers \ {w} : renewer'[u] = renewer[u]
        BY <1>1, <3>1 DEF AgentInv
      <4> QED
        BY <1>1, <3>3, <4>1, <4>2, SubmitKeeps
    <3> QED
      BY <3>1, <3>2, <3>3, <1>10
  <2> QED
    BY <2>1, <2>2
<1>14. CASE RenewWhilePaused(w)
  BY <1>12, <1>14 DEF RenewWhilePaused
<1> QED
  BY <1>5, <1>6, <1>7, <1>8, <1>9, <1>11, <1>13, <1>14 DEF AgentStep, RenewStep

-----------------------------------------------------------------------------
(* Handlers                                                                 *)

PlaneStepOfAgent(w) == AgentStep(w) \/ RenewStep(w) \/ CrashAgent(w)
PlaneStepOfHandler(h) == Receive(h) \/ IngestStep(h) \/ CrashHandler(h)

(* Who writes the agents' and the handlers' locals.                         *)
LEMMA AgentsAreTheirOwn ==
  ASSUME PlaneNext, \A w \in Workers : ~PlaneStepOfAgent(w) PROVE UNCHANGED agentVars
  BY DEF PlaneNext, PlaneStepOfAgent, Receive, IngestStep, CrashHandler, RecordEnvelope, AnswerPrior,
     SupersedeEnvelope, QuarantineEnvelope, ReadAttempt, FailJob, CommitEnvelope, Sweep, Expire,
     Backoff, CreateTheRun, Advance, Process, Cooldown, Alone, OperatorCommand, Pause, CancelJob,
     ReplayJob, DisableExtension, EnableExtension, CancelRun, OpStep, CancelQueued, FlagLeased,
     KillTheJobs, KillTheRun, Resume

LEMMA HandlersAreTheirOwn ==
  ASSUME PlaneNext, \A h \in Handlers : ~PlaneStepOfHandler(h) PROVE UNCHANGED handler
  BY DEF PlaneNext, PlaneStepOfHandler, AgentStep, RenewStep, CrashAgent, Poll, ClaimJob, NothingToDo,
     MarkRun, AskToStart, StartJob, Decline, FinishJob, EndSubmit, AskToRenew, RenewLease,
     RenewWhilePaused, Sweep, Expire,
     Backoff, CreateTheRun, Advance, Process, Cooldown, Alone, OperatorCommand, Pause, CancelJob,
     ReplayJob, DisableExtension, EnableExtension, CancelRun, OpStep, CancelQueued, FlagLeased,
     KillTheJobs, KillTheRun, Resume

(* What was posted under a lease stays: each lease is submitted for once.   *)
LEMMA EnvelopesStay ==
  ASSUME PlaneInv, PlaneNext, NEW l \in Leases, envelope[l] # "none"
  PROVE  envelope'[l] = envelope[l]
<1>1. ASSUME NEW w \in Workers, At(w, "running"), NEW v \in Verdicts, Submit(w, v)
      PROVE  envelope'[l] = envelope[l]
  BY <1>1 DEF Submit, PlaneInv, PlaneTypeOK, LocalsHold, AgentsKnow
<1>2. ASSUME NEW w \in Workers, PlaneStepOfAgent(w) PROVE envelope'[l] = envelope[l]
  <2>1. CASE FinishJob(w)
    BY <1>1, <2>1, PlaneAssumption DEF FinishJob
  <2>2. CASE RenewLease(w)
    BY <1>1, <2>2 DEF RenewLease, Verdicts
  <2> QED
    BY <1>2, <2>1, <2>2 DEF PlaneStepOfAgent, AgentStep, RenewStep, CrashAgent, Poll, ClaimJob,
       NothingToDo, MarkRun, AskToStart, StartJob, Decline, EndSubmit, AskToRenew, RenewWhilePaused
<1> QED
  BY <1>2, AgentsAreTheirOwn DEF agentVars

HandlerType ==
  handler \in [Handlers -> [pc : HandlerStates, lease : Granted \cup {None}, valid : BOOLEAN, last : BOOLEAN]]

(* What a handler knows stays true while others step.                       *)
LEMMA HandlerRests ==
  ASSUME PlaneInv, IInv', Remembered, NEW h \in Handlers, handler'[h] = handler[h],
         \A l \in Leases : envelope[l] # "none" => envelope'[l] = envelope[l]
  PROVE  HandlerKnows(h)'
<1> DEFINE l == handler[h].lease
<1> SUFFICES ASSUME ~In(h, "idle")
             PROVE  /\ l \in Granted' /\ envelope'[l] # "none"
                    /\ Holds(l)' => handler[h].valid
                    /\ ~In(h, "record") => sub'[Key(l)'] # NoSub
                    /\ In(h, "commit") => envelope'[l] = "ok"
                    /\ handler[h].pc \in {"quarantine", "failRead", "failWrite"} => envelope'[l] # "ok"
                    /\ In(h, "failWrite") /\ ~handler[h].last /\ Holds(l)' => attempt'[JobOf(l)'] < MaxAttempts
  BY DEF HandlerKnows
<1>1. HandlerKnows(h)
  BY DEF PlaneInv, LocalsHold, HandlersKnow
<1>2. l \in Granted /\ l \in Leases /\ Key(l) \in Jobs \X Attempts
  BY <1>1, GrantedLease DEF PlaneInv, IInv, HandlerKnows
<1>3. l \in Granted' /\ Key(l)' = Key(l) /\ JobOf(l)' = JobOf(l)
  BY <1>2 DEF Remembered, Key, JobOf
<1>4. envelope'[l] = envelope[l]
  BY <1>1, <1>2 DEF HandlerKnows
<1>5. Holds(l)' => Holds(l) /\ attempt'[JobOf(l)] = attempt[JobOf(l)]
  BY <1>2 DEF Remembered
<1>6. sub[Key(l)] # NoSub => sub'[Key(l)] # NoSub
  BY <1>2 DEF Remembered
<1> QED
  BY <1>1, <1>2, <1>3, <1>4, <1>5, <1>6 DEF HandlerKnows

(* A handler that goes on under its lease, and has learnt what it needs to. *)
LEMMA HandlerGoesOn ==
  ASSUME PlaneInv, IInv', Remembered, NEW h \in Handlers, UNCHANGED agentVars, ~In(h, "idle"),
         handler'[h].lease = handler[h].lease, handler'[h].valid = handler[h].valid,
         handler'[h].pc # "record", handler[h].pc # "record" \/ Row(h)' # NoSub,
         handler'[h].pc = "commit" => Of(h) = "ok",
         handler'[h].pc \in {"quarantine", "failRead", "failWrite"} => Of(h) # "ok",
         handler'[h].pc = "failWrite" /\ ~handler'[h].last
           => attempt[JobOf(handler[h].lease)] < MaxAttempts
  PROVE  HandlerKnows(h)'
<1> DEFINE l == handler[h].lease
<1>1. HandlerKnows(h)
  BY DEF PlaneInv, LocalsHold, HandlersKnow
<1>2. l \in Granted /\ l \in Leases /\ Key(l) \in Jobs \X Attempts
  BY <1>1, GrantedLease DEF PlaneInv, IInv, HandlerKnows
<1>3. l \in Granted' /\ Key(l)' = Key(l) /\ JobOf(l)' = JobOf(l)
  BY <1>2 DEF Remembered, Key, JobOf
<1>4. Holds(l)' => Holds(l) /\ attempt'[JobOf(l)] = attempt[JobOf(l)]
  BY <1>2 DEF Remembered
<1>5. sub'[Key(l)] # NoSub
  BY <1>1, <1>2, <1>3 DEF Remembered, HandlerKnows
<1> QED
  BY <1>1, <1>2, <1>3, <1>4, <1>5 DEF HandlerKnows, agentVars

(* Every step of a handler.                                                 *)
LEMMA HandlerStepKeeps ==
  ASSUME PlaneInv, IInv', Remembered, NEW h \in Handlers, PlaneStepOfHandler(h)
  PROVE  HandlerType' /\ HandlerKnows(h)' /\ \A g \in Handlers \ {h} : handler'[g] = handler[g]
<1>1. HandlerType /\ HandlerKnows(h) /\ Granted \subseteq Granted'
  BY DEF PlaneInv, PlaneTypeOK, LocalsHold, HandlersKnow, HandlerType, Remembered
<1>2. UNCHANGED agentVars
  BY DEF PlaneStepOfHandler, Receive, IngestStep, CrashHandler, RecordEnvelope, AnswerPrior,
     SupersedeEnvelope, QuarantineEnvelope, ReadAttempt, FailJob, CommitEnvelope
<1>3. ASSUME Answer(h)
      PROVE  HandlerType' /\ HandlerKnows(h)' /\ \A g \in Handlers \ {h} : handler'[g] = handler[g]
  BY <1>1, <1>3 DEF Answer, NoHandler, HandlerType, HandlerKnows, HandlerStates
<1>4. CASE Receive(h)
  <2>1. PICK l \in Leases :
          /\ envelope[l] # "none"
          /\ handler' = [handler EXCEPT ![h] =
               [pc |-> "record", lease |-> l, valid |-> Holds(l), last |-> FALSE]]
    BY <1>4 DEF Receive
  <2>2. l \in Granted /\ l \in Granted'
    BY <1>1, <2>1 DEF PlaneInv, LocalsHold, EnvelopesAreOfLeases
  <2>3. Holds(l)' => Holds(l)
    BY <2>2 DEF Remembered
  <2>4. Holds(l) \in BOOLEAN
    BY DEF Holds
  <2>5. HandlerType'
    BY <1>1, <2>1, <2>2, <2>4 DEF HandlerType, HandlerStates
  <2>6. handler'[h] = [pc |-> "record", lease |-> l, valid |-> Holds(l), last |-> FALSE]
    BY <1>1, <2>1 DEF HandlerType
  <2>7. HandlerKnows(h)'
    BY <1>2, <2>1, <2>2, <2>3, <2>6 DEF HandlerKnows, agentVars
  <2> QED
    BY <2>1, <2>5, <2>7
<1>5. ASSUME NEW pc \in HandlerStates, Goto(h, pc)
      PROVE  /\ HandlerType' /\ \A g \in Handlers \ {h} : handler'[g] = handler[g]
             /\ handler'[h].pc = pc /\ handler'[h].lease = handler[h].lease
             /\ handler'[h].valid = handler[h].valid /\ handler'[h].last = handler[h].last
  BY <1>1, <1>5 DEF Goto, HandlerType
<1>6. ASSUME NEW pc \in {"supersede", "failRead"}, Goto(h, pc), handler[h].pc \notin {"idle", "record"},
             pc = "failRead" => Of(h) # "ok"
      PROVE  HandlerType' /\ HandlerKnows(h)' /\ \A g \in Handlers \ {h} : handler'[g] = handler[g]
  <2>1. pc \in HandlerStates
    BY DEF HandlerStates
  <2>2. /\ HandlerType' /\ \A g \in Handlers \ {h} : handler'[g] = handler[g]
        /\ handler'[h].pc = pc /\ handler'[h].lease = handler[h].lease
        /\ handler'[h].valid = handler[h].valid
    BY <1>5, <1>6, <2>1
  <2> QED
    BY <1>2, <1>6, <2>2, HandlerGoesOn
<1>7. CASE RecordEnvelope(h)
  <2>1. PICK pc \in {"supersede", "commit", "quarantine", "failRead"} :
          /\ Goto(h, pc)
          /\ pc = "commit" => Of(h) = "ok"
          /\ pc \in {"quarantine", "failRead"} => Of(h) # "ok"
    <3>1. CASE ~handler[h].valid
      BY <1>7, <3>1 DEF RecordEnvelope
    <3>2. CASE handler[h].valid /\ Of(h) = "ok"
      BY <1>7, <3>2 DEF RecordEnvelope
    <3>3. CASE handler[h].valid /\ Of(h) = "breach"
      BY <1>7, <3>3 DEF RecordEnvelope
    <3>4. CASE handler[h].valid /\ Of(h) \notin {"ok", "breach"}
      BY <1>7, <3>4 DEF RecordEnvelope
    <3> QED
      BY <1>1, <3>1, <3>2, <3>3, <3>4 DEF HandlerType
  <2>2. pc \in HandlerStates
    BY DEF HandlerStates
  <2>3. /\ HandlerType' /\ \A g \in Handlers \ {h} : handler'[g] = handler[g]
        /\ handler'[h].pc = pc /\ handler'[h].lease = handler[h].lease
        /\ handler'[h].valid = handler[h].valid
    BY <1>5, <2>1, <2>2
  <2>4. Row(h)' # NoSub
    <3>1. PICK l \in Granted : l = handler[h].lease
      BY <1>1, <1>7 DEF HandlerKnows, RecordEnvelope
    <3>2. Key(l) \in Jobs \X Attempts /\ Key(l)' = Key(l)
      BY GrantedLease DEF PlaneInv, IInv, Remembered, Key
    <3>3. CASE Record(l)
      BY <2>3, <3>1, <3>2, <3>3 DEF Record, NoSub, PlaneInv, IInv, TypeOK
    <3>4. CASE Row(h).state = "RECEIVED"
      BY <2>3, <3>1, <3>2, <3>4 DEF NoSub, Remembered
    <3> QED
      BY <1>7, <3>1, <3>3, <3>4 DEF RecordEnvelope
  <2> QED
    BY <1>2, <1>7, <2>1, <2>3, <2>4, HandlerGoesOn DEF RecordEnvelope
<1>8. CASE QuarantineEnvelope(h)
  BY <1>1, <1>6, <1>8 DEF QuarantineEnvelope, HandlerKnows
<1>9. CASE ReadAttempt(h)
  <2>1. PICK n : n = attempt[JobOf(handler[h].lease)]
    OBVIOUS
  <2>2. n \in Nat
    BY <1>1, <1>9, <2>1, GrantedLease, ConstantsAssumption
       DEF PlaneInv, IInv, TypeOK, HandlerKnows, ReadAttempt
  <2>3. PICK last \in BOOLEAN :
          /\ last = (Of(h) = "PERMANENT" \/ n >= MaxAttempts)
          /\ last = FALSE => n < MaxAttempts
    <3>1. CASE Of(h) = "PERMANENT" \/ n >= MaxAttempts
      BY <3>1
    <3>2. CASE ~(Of(h) = "PERMANENT" \/ n >= MaxAttempts)
      <4>1. n < MaxAttempts
        BY <2>2, <3>2, ConstantsAssumption
      <4> QED
        BY <3>2, <4>1
    <3> QED
      BY <3>1, <3>2
  <2>4. handler' = [handler EXCEPT ![h].pc = "failWrite", ![h].last = last]
    BY <1>9, <2>1, <2>3 DEF ReadAttempt
  <2>5. handler[h] \in [pc : HandlerStates, lease : Granted \cup {None}, valid : BOOLEAN, last : BOOLEAN]
    BY <1>1 DEF HandlerType
  <2>6. handler'[h] = [pc |-> "failWrite", lease |-> handler[h].lease, valid |-> handler[h].valid, last |-> last]
    BY <1>1, <2>4, <2>5 DEF HandlerType
  <2>7. HandlerType' /\ \A g \in Handlers \ {h} : handler'[g] = handler[g]
    BY <1>1, <2>4, <2>5, <2>6 DEF HandlerType, HandlerStates
  <2>8. ~handler'[h].last => n < MaxAttempts
    BY <2>3, <2>6
  <2>9. handler[h].pc = "failRead" /\ Of(h) # "ok" /\ Row(h) # NoSub
    BY <1>1, <1>9 DEF ReadAttempt, HandlerKnows
  <2>10. HandlerKnows(h)'
    BY <1>2, <2>1, <2>6, <2>8, <2>9, HandlerGoesOn
  <2> QED
    BY <2>7, <2>10
<1>10. CASE FailJob(h)
  BY <1>3, <1>6, <1>10 DEF FailJob
<1>11. CASE CommitEnvelope(h)
  BY <1>3, <1>6, <1>11 DEF CommitEnvelope
<1>12. CASE AnswerPrior(h) \/ SupersedeEnvelope(h) \/ CrashHandler(h)
  BY <1>3, <1>12 DEF AnswerPrior, SupersedeEnvelope, CrashHandler
<1> QED
  BY <1>4, <1>7, <1>8, <1>9, <1>10, <1>11, <1>12 DEF PlaneStepOfHandler, IngestStep
-----------------------------------------------------------------------------
(* Submissions                                                              *)

(* A row is inserted by the handler that was sent the envelope, and judged  *)
(* once, by a handler that was sent one with the same key.                  *)
Writes(h, k) ==
  /\ Key(handler[h].lease) = k /\ UNCHANGED <<grant, envelope>>
  /\ \/ /\ In(h, "record") /\ sub[k] = NoSub
        /\ sub'[k] = [state |-> "RECEIVED", lease |-> handler[h].lease]
     \/ /\ handler[h].pc \in {"supersede", "quarantine"} /\ sub[k].state = "RECEIVED"
        /\ sub'[k].state \in {"SUPERSEDED", "QUARANTINED"}
     \/ In(h, "commit") /\ sub[k].state = "RECEIVED" /\ Commit(handler[h].lease)

LEMMA RowsAreWritten ==
  ASSUME PlaneInv, PlaneNext, NEW k \in Jobs \X Attempts, sub'[k] # sub[k]
  PROVE  \E h \in Handlers : Writes(h, k)
<1> USE DEF PlaneInv, IInv, TypeOK
<1>1. ASSUME NEW w \in Workers, PlaneStepOfAgent(w) PROVE sub' = sub
  BY <1>1 DEF PlaneStepOfAgent, AgentStep, RenewStep, CrashAgent, Poll, ClaimJob, NothingToDo,
     MarkRun, AskToStart, StartJob, Decline, FinishJob, EndSubmit, AskToRenew, RenewLease,
     RenewWhilePaused, HandBack, Claim, MarkExecuting, Start, ReleaseForPause, Renew, storeVars
<1>2. ASSUME NEW j \in Jobs, Sweep(j) \/ Expire(j) \/ Backoff(j) PROVE sub' = sub
  BY <1>2 DEF Sweep, Expire, Backoff, Alone, SweepRequeue, SweepDeadLetter, LeaseExpires, BackoffElapses
<1>3. ASSUME NEW r \in Runs, CreateTheRun(r) \/ Advance(r) \/ Process(r) PROVE sub' = sub
  BY <1>3 DEF CreateTheRun, Advance, Process, Alone, CreateRun, AdvanceReady, AdvanceDeadLetter, MarkProcessed
<1>4. CASE OperatorCommand \/ OpStep \/ Resume \/ Cooldown
  BY <1>4 DEF OperatorCommand, Pause, CancelJob, ReplayJob, DisableExtension, EnableExtension,
     CancelRun, OpStep, CancelQueued, FlagLeased, KillTheJobs, KillTheRun, Resume, Cooldown, Alone,
     Replay, Disable, Enable, CancelPending, FlagLive, KillJobs, KillRun, CooldownElapses, storeVars
<1>5. ASSUME NEW h \in Handlers, PlaneStepOfHandler(h) PROVE Writes(h, k)
  <2>1. UNCHANGED envelope
    BY <1>5 DEF PlaneStepOfHandler, Receive, IngestStep, CrashHandler, RecordEnvelope, AnswerPrior,
       SupersedeEnvelope, QuarantineEnvelope, ReadAttempt, FailJob, CommitEnvelope, agentVars
  <2>2. CASE RecordEnvelope(h)
    <3>1. Record(handler[h].lease) /\ In(h, "record")
      BY <2>2 DEF RecordEnvelope, storeVars
    <3>2. Key(handler[h].lease) = k
      BY <3>1 DEF Record
    <3> QED
      BY <2>1, <3>1, <3>2 DEF Record, claimVars, Writes
  <2>3. CASE SupersedeEnvelope(h) \/ QuarantineEnvelope(h)
    <3>1. PICK v \in {"SUPERSEDED", "QUARANTINED"} : Judge(Key(handler[h].lease), v)
      BY <2>3 DEF SupersedeEnvelope, QuarantineEnvelope, JudgeRow, storeVars
    <3>2. Key(handler[h].lease) = k /\ sub'[k] = [sub[k] EXCEPT !.state = v] /\ sub[k].state = "RECEIVED"
      BY <3>1 DEF Judge
    <3>3. sub[k] \in Submission
      BY <3>2 DEF NoSub
    <3>4. sub'[k].state = v
      BY <3>2, <3>3 DEF Submission
    <3> QED
      BY <2>1, <2>3, <3>1, <3>2, <3>4
         DEF Judge, claimVars, Writes, SupersedeEnvelope, QuarantineEnvelope
  <2>4. CASE CommitEnvelope(h)
    <3>1. Commit(handler[h].lease) /\ In(h, "commit")
      BY <2>4 DEF CommitEnvelope, storeVars
    <3>2. Key(handler[h].lease) = k
      BY <3>1 DEF Commit
    <3> QED
      BY <2>1, <3>1, <3>2 DEF Commit, Committable, claimVars, Writes
  <2> QED
    BY <1>5, <2>2, <2>3, <2>4 DEF PlaneStepOfHandler, Receive, IngestStep, CrashHandler, AnswerPrior,
       ReadAttempt, FailJob, FailDeadLetter, FailRequeue, storeVars
<1> QED
  BY <1>1, <1>2, <1>3, <1>4, <1>5 DEF PlaneNext, PlaneStepOfAgent, PlaneStepOfHandler

(* Rows stay filed under the key of their lease.                            *)
LEMMA RowsStayFiled ==
  ASSUME PlaneInv, PlaneNext, Remembered PROVE RowsAreFiled'
<1> SUFFICES ASSUME NEW k \in Jobs \X Attempts, sub'[k] # NoSub
             PROVE  \E l \in Granted' :
                      /\ l = sub'[k].lease /\ envelope'[l] # "none"
                      /\ <<grant'[l].job, grant'[l].attempt>> = k
  BY DEF RowsAreFiled, Key
<1>1. CASE sub[k] # NoSub
  <2>1. PICK l \in Granted : l = sub[k].lease /\ Key(l) = k /\ envelope[l] # "none"
    BY <1>1 DEF PlaneInv, LocalsHold, RowsAreFiled
  <2>2. sub'[k].lease = l /\ l \in Leases
    BY <1>1, <2>1 DEF Remembered, Granted
  <2>3. l \in Granted' /\ <<grant'[l].job, grant'[l].attempt>> = Key(l)
    BY DEF Remembered, Key
  <2>4. envelope'[l] = envelope[l]
    BY <2>1, <2>2, EnvelopesStay
  <2> QED
    BY <2>1, <2>2, <2>3, <2>4 DEF Key
<1>2. CASE sub[k] = NoSub
  <2>1. PICK h \in Handlers :
          /\ In(h, "record") /\ Key(handler[h].lease) = k
          /\ sub'[k].lease = handler[h].lease /\ UNCHANGED <<grant, envelope>>
    <3>1. PICK h \in Handlers : Writes(h, k)
      BY <1>2, RowsAreWritten
    <3>2. sub[k].state = "NONE"
      BY <1>2 DEF NoSub
    <3> QED
      BY <3>1, <3>2 DEF Writes
  <2>2. handler[h].lease \in Granted /\ Of(h) # "none"
    BY <2>1 DEF PlaneInv, LocalsHold, HandlersKnow, HandlerKnows
  <2> QED
    BY <2>1, <2>2 DEF Granted, Key
<1> QED
  BY <1>1, <1>2

-----------------------------------------------------------------------------
(* Operators                                                                *)

OperatorInv ==
  /\ op.pc \in OpStates /\ told \subseteq Runs \cup Jobs
  /\ paused \in BOOLEAN /\ budget \in 0..Budget
  /\ OperatorKnows

(* A command under way is about rows that exist, and stays so.              *)
LEMMA OperatorGoesOn ==
  ASSUME PlaneInv, PlaneNext, Remembered PROVE OperatorInv'
<1>0. /\ op.pc \in OpStates /\ told \subseteq Runs \cup Jobs /\ paused \in BOOLEAN
      /\ budget \in 0..Budget /\ OperatorKnows
  BY DEF PlaneInv, PlaneTypeOK, LocalsHold
<1>1. ASSUME NEW e, Spend(e) PROVE budget' \in 0..Budget
  BY <1>0, <1>1, PlaneAssumption DEF Spend
<1>2. op' = op => OperatorKnows'
  BY <1>0 DEF OperatorKnows, Remembered
<1>3. op' = NoOp => OperatorKnows' /\ op'.pc \in OpStates
  BY DEF NoOp, OperatorKnows, OpStates
<1>4. ASSUME NEW w \in Workers, PlaneStepOfAgent(w)
      PROVE  UNCHANGED <<op, told, paused>> /\ (UNCHANGED budget \/ Spend("crash"))
  BY <1>4 DEF PlaneStepOfAgent, AgentStep, RenewStep, CrashAgent, Poll, ClaimJob, NothingToDo,
     MarkRun, AskToStart, StartJob, Decline, FinishJob, EndSubmit, AskToRenew, RenewLease,
     RenewWhilePaused, opVars
<1>5. ASSUME NEW h \in Handlers, PlaneStepOfHandler(h)
      PROVE  UNCHANGED <<op, told, paused>> /\ (UNCHANGED budget \/ Spend("crash"))
  BY <1>5 DEF PlaneStepOfHandler, Receive, IngestStep, CrashHandler, RecordEnvelope, AnswerPrior,
     SupersedeEnvelope, QuarantineEnvelope, ReadAttempt, FailJob, CommitEnvelope, opVars
<1>6. ASSUME NEW j \in Jobs, Sweep(j) \/ Expire(j) \/ Backoff(j) PROVE UNCHANGED opVars
  BY <1>6 DEF Sweep, Expire, Backoff, Alone
<1>7. ASSUME NEW r \in Runs, CreateTheRun(r) \/ Advance(r) \/ Process(r) PROVE UNCHANGED opVars
  BY <1>7 DEF CreateTheRun, Advance, Process, Alone
<1>8. Cooldown => UNCHANGED opVars
  BY DEF Cooldown, Alone
<1>9. ASSUME UNCHANGED <<op, told, paused>>, UNCHANGED budget \/ Spend("crash") PROVE OperatorInv'
  BY <1>0, <1>1, <1>2, <1>9 DEF OperatorInv
<1>10. CASE Pause \/ Resume
  BY <1>0, <1>1, <1>2, <1>10 DEF Pause, Resume, OperatorInv
<1>11. ASSUME NEW j \in Jobs, CancelJob(j) PROVE OperatorInv'
  BY <1>0, <1>1, <1>11 DEF CancelJob, Begin, OperatorInv, OperatorKnows, OpStates
<1>12. ASSUME NEW j \in Jobs, ReplayJob(j) PROVE OperatorInv'
  BY <1>0, <1>1, <1>2, <1>12 DEF ReplayJob, OperatorInv
<1>13. ASSUME NEW e \in Exts, DisableExtension(e) PROVE OperatorInv'
  BY <1>0, <1>1, <1>13 DEF DisableExtension, Begin, JobsOfExt, OperatorInv, OperatorKnows, OpStates
<1>14. ASSUME NEW e \in Exts, EnableExtension(e) PROVE OperatorInv'
  BY <1>0, <1>1, <1>2, <1>14 DEF EnableExtension, OperatorInv
<1>15. ASSUME NEW r \in Runs, CancelRun(r) PROVE OperatorInv'
  <2>1. run'[r] # "ABSENT"
    BY <1>15 DEF CancelRun, Remembered
  <2> QED
    BY <1>0, <1>1, <1>15, <2>1 DEF CancelRun, Begin, OperatorInv, OperatorKnows, OpStates
<1>16. CASE CancelQueued
  <2>1. CASE op' = NoOp /\ told' = told \cup op.jobs
    BY <1>0, <1>3, <1>16, <2>1 DEF CancelQueued, OperatorInv, OperatorKnows
  <2>2. CASE /\ op' = [op EXCEPT !.pc = IF @ = "cancelOne" THEN "flagOne" ELSE "flagAll"]
             /\ UNCHANGED told
    BY <1>0, <1>16, <2>2 DEF CancelQueued, OperatorInv, OperatorKnows, OpStates
  <2> QED
    BY <1>16, <2>1, <2>2 DEF CancelQueued
<1>17. CASE FlagLeased
  BY <1>0, <1>3, <1>17 DEF FlagLeased, OperatorInv, OperatorKnows
<1>18. CASE KillTheJobs
  BY <1>0, <1>18 DEF KillTheJobs, OperatorInv, OperatorKnows, OpStates, Remembered
<1>19. CASE KillTheRun
  BY <1>0, <1>3, <1>19 DEF KillTheRun, OperatorInv
<1> QED
  BY <1>4, <1>5, <1>6, <1>7, <1>8, <1>9, <1>10, <1>11, <1>12, <1>13, <1>14, <1>15, <1>16, <1>17,
     <1>18, <1>19 DEF PlaneNext, PlaneStepOfAgent, PlaneStepOfHandler, OperatorCommand, OpStep, opVars
-----------------------------------------------------------------------------
(* The inductive invariant                                                  *)

LEMMA PlaneInitInv == PlaneInit => PlaneInv
<1> SUFFICES ASSUME PlaneInit PROVE PlaneInv
  OBVIOUS
<1>1. IInv
  BY InitInv DEF PlaneInit
<1>2. PlaneTypeOK
  <2>1. Budget \in 0..Budget /\ budget = Budget
    BY PlaneAssumption DEF PlaneInit
  <2>2. agent \in [Workers -> [pc : AgentStates, lease : Granted \cup {None}]]
    BY DEF PlaneInit, NoAgent, AgentStates
  <2>3. handler \in [Handlers -> [pc : HandlerStates, lease : Granted \cup {None},
                                  valid : BOOLEAN, last : BOOLEAN]]
    BY DEF PlaneInit, NoHandler, HandlerStates
  <2> QED
    BY <2>1, <2>2, <2>3 DEF PlaneInit, PlaneTypeOK, NoOp, RenewStates, OpStates
<1>3. RunningIsRenewed /\ AgentsKnow /\ HandlersKnow
  BY DEF PlaneInit, RunningIsRenewed, AgentsKnow, HandlersKnow, HandlerKnows, NoAgent, NoHandler
<1>4. OperatorKnows /\ RowsAreFiled /\ EnvelopesAreOfLeases
  BY DEF PlaneInit, Init, OperatorKnows, RowsAreFiled, EnvelopesAreOfLeases, NoOp
<1> QED
  BY <1>1, <1>2, <1>3, <1>4 DEF PlaneInv, LocalsHold

LEMMA PlaneNextInv == PlaneInv /\ [PlaneNext]_planeVars => PlaneInv'
<1> SUFFICES ASSUME PlaneInv, [PlaneNext]_planeVars PROVE PlaneInv'
  OBVIOUS
<1>1. CASE UNCHANGED planeVars
  <2>1. UNCHANGED storeVars /\ UNCHANGED agentVars /\ UNCHANGED handler /\ UNCHANGED opVars
    BY <1>1 DEF planeVars
  <2>2. IInv'
    BY <2>1, NextInv DEF PlaneInv
  <2>3. UNCHANGED <<grant, sub, state, lease, attempt, run>>
    BY <2>1 DEF storeVars, jobVars, claimVars
  <2>4. PlaneTypeOK' /\ RunningIsRenewed' /\ OperatorKnows'
    BY <2>1, <2>3 DEF PlaneInv, PlaneTypeOK, RunningIsRenewed, LocalsHold, OperatorKnows, Granted,
       agentVars, opVars
  <2>5. AgentsKnow' /\ HandlersKnow' /\ RowsAreFiled' /\ EnvelopesAreOfLeases'
    BY <2>1, <2>3 DEF PlaneInv, LocalsHold, AgentsKnow, HandlersKnow, HandlerKnows, RowsAreFiled,
       EnvelopesAreOfLeases, Granted, Holds, JobOf, Key, agentVars
  <2> QED
    BY <2>2, <2>4, <2>5 DEF PlaneInv, LocalsHold
<1>2. CASE PlaneNext
  <2>1. IInv' /\ Remembered
    BY <1>2, StepRemembers
  <2>2. AgentInv'
    <3>1. CASE \E w \in Workers : PlaneStepOfAgent(w)
      BY <2>1, <3>1, AgentStepKeeps DEF PlaneStepOfAgent
    <3>2. CASE ~\E w \in Workers : PlaneStepOfAgent(w)
      BY <1>2, <2>1, <3>2, AgentsAreTheirOwn, AgentsRest
         DEF AgentInv, PlaneInv, PlaneTypeOK, LocalsHold
    <3> QED
      BY <3>1, <3>2
  <2>3. \A l \in Leases : envelope[l] # "none" => envelope'[l] = envelope[l]
    BY <1>2, EnvelopesStay
  <2>4. HandlerType' /\ HandlersKnow'
    <3>1. CASE \E h \in Handlers : PlaneStepOfHandler(h)
      <4>1. PICK h \in Handlers : PlaneStepOfHandler(h)
        BY <3>1
      <4>2. HandlerType' /\ HandlerKnows(h)' /\ \A g \in Handlers \ {h} : handler'[g] = handler[g]
        BY <2>1, <4>1, HandlerStepKeeps
      <4>3. ASSUME NEW g \in Handlers, g # h PROVE HandlerKnows(g)'
        BY <2>1, <2>3, <4>2, <4>3, HandlerRests
      <4> QED
        BY <4>2, <4>3 DEF HandlersKnow
    <3>2. CASE ~\E h \in Handlers : PlaneStepOfHandler(h)
      <4>1. handler' = handler
        BY <1>2, <3>2, HandlersAreTheirOwn
      <4>2. ASSUME NEW g \in Handlers PROVE HandlerKnows(g)'
        BY <2>1, <2>3, <4>1, HandlerRests
      <4>3. HandlerType'
        BY <2>1, <4>1 DEF HandlerType, PlaneInv, PlaneTypeOK, Remembered
      <4> QED
        BY <4>2, <4>3 DEF HandlersKnow
    <3> QED
      BY <3>1, <3>2
  <2>5. RowsAreFiled' /\ OperatorInv'
    BY <1>2, <2>1, RowsStayFiled, OperatorGoesOn
  <2> QED
    BY <2>1, <2>2, <2>4, <2>5 DEF PlaneInv, PlaneTypeOK, LocalsHold, AgentInv, HandlerType, OperatorInv
<1> QED
  BY <1>1, <1>2

(* What every process of the plane remembers across an await is true when   *)
(* it acts on it, for any number of agents, handlers and commands, through  *)
(* crashes, pauses, replays and posts that come late or twice.              *)
THEOREM PlaneInductive == PlaneSpec => []PlaneInv
  BY PlaneInitInv, PlaneNextInv, PTL DEF PlaneSpec

(* No interleaving of the processes does to the tables what the statements  *)
(* alone could not: in particular fail, which decides on a row it read      *)
(* before, decides as it would on the row it writes.                        *)
THEOREM PlaneImplementsJobStore == PlaneSpec => ImplementsJobStore
<1>1. PlaneInit => Init
  BY DEF PlaneInit
<1>2. PlaneInv /\ [PlaneNext]_planeVars => [Next]_storeVars
  <2>1. UNCHANGED planeVars => UNCHANGED storeVars
    BY DEF planeVars
  <2> QED
    BY <2>1, PlaneStatements
<1> QED
  BY <1>1, <1>2, PlaneInductive, PTL DEF PlaneSpec, ImplementsJobStore, Spec
-----------------------------------------------------------------------------
(* What an operator stopped stays stopped                                   *)

(* A finished job and a cancel request are undone by a replay only.         *)
LEMMA StopsStay ==
  ASSUME PlaneInv, PlaneNext, NEW j \in Jobs, ~ReplayJob(j)
  PROVE  (Terminal(j) => state'[j] = state[j]) /\ (cancel[j] => cancel'[j])
<1> DEFINE Stays == (Terminal(j) => state'[j] = state[j]) /\ (cancel[j] => cancel'[j])
<1> USE DEF PlaneInv, IInv, TypeOK
<1>0. \A l \in Granted : JobOf(l) \in Jobs
  BY GrantedLease
<1>1. ASSUME NEW w \in Workers, PlaneStepOfAgent(w) PROVE Stays
  <2>1. Working(w) => Lease(w) \in Granted
    BY DEF LocalsHold, AgentsKnow
  <2>2. renewer[w] # "off" => Working(w)
    BY DEF RunningIsRenewed
  <2> QED
    BY <1>0, <1>1, <2>1, <2>2 DEF PlaneStepOfAgent, AgentStep, RenewStep, CrashAgent, Poll, ClaimJob,
       NothingToDo, MarkRun, AskToStart, StartJob, Decline, FinishJob, EndSubmit, AskToRenew,
       RenewLease, RenewWhilePaused, HandBack, Claim, Claimable, MarkExecuting, Start, Renew,
       ReleaseForPause, Holds, storeVars, jobVars
<1>2. ASSUME NEW h \in Handlers, PlaneStepOfHandler(h) PROVE Stays
  <2>1. ~In(h, "idle") => handler[h].lease \in Granted
    BY DEF LocalsHold, HandlersKnow, HandlerKnows
  <2> QED
    BY <1>0, <1>2, <2>1 DEF PlaneStepOfHandler, Receive, IngestStep, CrashHandler, RecordEnvelope,
       AnswerPrior, SupersedeEnvelope, QuarantineEnvelope, ReadAttempt, FailJob, CommitEnvelope,
       Record, JudgeRow, Judge, FailDeadLetter, FailRequeue, Commit, Committable, Holds,
       storeVars, jobVars
<1>3. ASSUME NEW i \in Jobs, Sweep(i) \/ Expire(i) \/ Backoff(i) PROVE Stays
  BY <1>3 DEF Sweep, Expire, Backoff, Alone, SweepRequeue, SweepDeadLetter, LeaseExpires, BackoffElapses
<1>4. ASSUME NEW r \in Runs, CreateTheRun(r) \/ Advance(r) \/ Process(r) PROVE Stays
  BY <1>4 DEF CreateTheRun, Advance, Process, Alone, CreateRun, AdvanceReady, AdvanceDeadLetter,
     MarkProcessed, jobVars
<1>5. ASSUME NEW i \in Jobs, ReplayJob(i) PROVE Stays
  BY <1>5 DEF ReplayJob, Replay
<1>6. CASE CancelQueued \/ FlagLeased \/ KillTheJobs \/ KillTheRun
  BY <1>6 DEF CancelQueued, FlagLeased, KillTheJobs, KillTheRun, CancelPending, Queued, FlagLive,
     KillJobs, KillRun, storeVars, jobVars
<1>7. CASE OperatorCommand \/ Resume \/ Cooldown
  BY <1>5, <1>7 DEF OperatorCommand, Pause, CancelJob, DisableExtension, EnableExtension, CancelRun,
     Resume, Cooldown, Alone, Disable, Enable, CooldownElapses, storeVars, jobVars
<1> QED
  BY <1>1, <1>2, <1>3, <1>4, <1>5, <1>6, <1>7 DEF PlaneNext, PlaneStepOfAgent, PlaneStepOfHandler, OpStep

(* What an operator was told is recorded by the statement that made it true. *)
LEMMA ToldWhenTrue ==
  ASSUME PlaneInv, PlaneNext
  PROVE  /\ \A j \in (told' \ told) \cap Jobs : Terminal(j)' \/ cancel'[j]
         /\ \A r \in (told' \ told) \cap Runs : \A j \in JobsOf(r) : Terminal(j)'
<1> DEFINE True == /\ \A j \in (told' \ told) \cap Jobs : Terminal(j)' \/ cancel'[j]
                   /\ \A r \in (told' \ told) \cap Runs : \A j \in JobsOf(r) : Terminal(j)'
<1>1. CASE CancelQueued
  <2>1. CASE op.pc = "cancelOne" /\ Queued(op.jobs) # {}
    <3>1. PICK j \in Jobs : op.jobs = {j}
      BY <2>1 DEF PlaneInv, LocalsHold, OperatorKnows
    <3>2. j \in Queued(op.jobs) /\ told' = told \cup {j} /\ j \notin Runs
      BY <1>1, <2>1, <3>1, PlaneAssumption DEF CancelQueued, Queued
    <3>3. state'[j] = "CANCELLED"
      BY <1>1, <3>2 DEF CancelQueued, CancelPending
    <3> QED
      BY <3>2, <3>3
  <2> QED
    BY <1>1, <2>1 DEF CancelQueued
<1>2. CASE FlagLeased
  <2>1. op.jobs \subseteq Jobs
    BY DEF PlaneInv, LocalsHold, OperatorKnows
  <2> QED
    BY <1>2, <2>1, PlaneAssumption DEF FlagLeased, FlagLive, PlaneInv, IInv, TypeOK
<1>3. CASE KillTheJobs
  <2>1. op.run \in Runs /\ told' = told \cup {op.run}
    BY <1>3 DEF KillTheJobs, PlaneInv, LocalsHold, OperatorKnows
  <2>2. \A j \in JobsOf(op.run) : Terminal(j)'
    BY <1>3 DEF KillTheJobs, KillJobs
  <2> QED
    BY <2>1, <2>2, PlaneAssumption
<1>4. CASE told' \subseteq told
  BY <1>4
<1>5. CancelQueued \/ FlagLeased \/ KillTheJobs \/ told' \subseteq told
  <2>1. ASSUME NEW w \in Workers, PlaneStepOfAgent(w) PROVE told' = told
    BY <2>1 DEF PlaneStepOfAgent, AgentStep, RenewStep, CrashAgent, Poll, ClaimJob, NothingToDo,
       MarkRun, AskToStart, StartJob, Decline, FinishJob, EndSubmit, AskToRenew, RenewLease,
       RenewWhilePaused, opVars
  <2>2. ASSUME NEW h \in Handlers, PlaneStepOfHandler(h) PROVE told' = told
    BY <2>2 DEF PlaneStepOfHandler, Receive, IngestStep, CrashHandler, RecordEnvelope, AnswerPrior,
       SupersedeEnvelope, QuarantineEnvelope, ReadAttempt, FailJob, CommitEnvelope, opVars
  <2> QED
    BY <2>1, <2>2 DEF PlaneNext, PlaneStepOfAgent, PlaneStepOfHandler, Sweep, Expire, Backoff,
       CreateTheRun, Advance, Process, Cooldown, Alone, OperatorCommand, Pause, CancelJob, ReplayJob,
       DisableExtension, EnableExtension, CancelRun, OpStep, KillTheRun, Resume, opVars
<1> QED
  BY <1>1, <1>2, <1>3, <1>4, <1>5

(* A killed run has no job left that could be handed out or committed.      *)
KilledRest == \A r \in told \cap Runs : \A j \in JobsOf(r) : Terminal(j)

ToldInv == PlaneInv /\ ToldMeansStopped /\ KilledRest

LEMMA ToldNext ==
  ASSUME ToldInv, PlaneNext PROVE ToldMeansStopped' /\ KilledRest'
<1> USE DEF ToldInv
<1>1. ASSUME NEW j \in Jobs, j \in told' PROVE Terminal(j)' \/ cancel'[j]
  <2>1. CASE j \notin told
    BY <1>1, <2>1, ToldWhenTrue
  <2>2. CASE j \in told
    <3>1. ~ReplayJob(j)
      BY <1>1 DEF ReplayJob
    <3> QED
      BY <2>2, <3>1, StopsStay DEF ToldMeansStopped
  <2> QED
    BY <2>1, <2>2
<1>2. ASSUME NEW r \in Runs, r \in told', NEW j \in JobsOf(r) PROVE Terminal(j)'
  <2>1. CASE r \notin told
    BY <1>2, <2>1, ToldWhenTrue
  <2>2. CASE r \in told
    <3>1. ~ReplayJob(j)
      BY <1>2 DEF ReplayJob
    <3> QED
      BY <2>2, <3>1, StopsStay DEF KilledRest
  <2> QED
    BY <2>1, <2>2
<1> QED
  BY <1>1, <1>2 DEF ToldMeansStopped, KilledRest

LEMMA ToldInductive == PlaneSpec => []ToldInv
<1>1. PlaneInit => ToldMeansStopped /\ KilledRest
  BY DEF PlaneInit, ToldMeansStopped, KilledRest
<1>2. ToldInv /\ PlaneInv' /\ [PlaneNext]_planeVars => ToldInv'
  <2>1. ToldInv /\ PlaneInv' /\ UNCHANGED planeVars => ToldInv'
    BY DEF ToldInv, ToldMeansStopped, KilledRest, planeVars, opVars, storeVars, jobVars
  <2> QED
    BY <2>1, ToldNext DEF ToldInv
<1> QED
  BY <1>1, <1>2, PlaneInductive, PlaneInitInv, PTL DEF PlaneSpec, ToldInv

(* What cancel answered stays true, whatever a worker, an ingest, the sweep *)
(* or another command does: only a replay takes it back.                    *)
THEOREM ToldStaysStopped == PlaneSpec => []ToldMeansStopped
  BY ToldInductive, PTL DEF ToldInv

(* No result of a killed run lands: not the envelope an ingest was judging, *)
(* nor one from an agent that still runs.                                   *)
THEOREM KilledRunsStayKilled == PlaneSpec => NothingLandsAfterKill
<1> DEFINE Step == \A r \in told \cap Runs : \A j \in JobsOf(r) :
                     state'[j] \in {"LEASED", "RUNNING", "SUCCEEDED"} =>
                       r \notin told' \/ state[j] = "SUCCEEDED"
<1>1. ToldInv /\ [PlaneNext]_planeVars => [Step]_planeVars
  <2> SUFFICES ASSUME ToldInv, PlaneNext, NEW r \in told \cap Runs, NEW j \in JobsOf(r),
                      state'[j] \in {"LEASED", "RUNNING", "SUCCEEDED"}, r \in told'
               PROVE  state[j] = "SUCCEEDED"
    OBVIOUS
  <2>1. ~ReplayJob(j)
    BY DEF ReplayJob
  <2> QED
    BY <2>1, StopsStay DEF ToldInv, KilledRest
<1> QED
  BY <1>1, ToldInductive, PTL DEF PlaneSpec, NothingLandsAfterKill
-----------------------------------------------------------------------------
(* A disabled extension                                                     *)

(* Between the setting and the second statement of the route, the jobs that *)
(* are live and not yet told to abort are the ones the command still names; *)
(* and a job of a run nobody created cannot be live.                        *)
DisabledInv ==
  \A j \in Jobs :
    /\ ExtOf[RunOf[j]] \in disabled /\ Live(j) /\ ~cancel[j]
         => op.pc \in {"cancelAll", "flagAll"} /\ j \in op.jobs
    /\ ~Exists(j) => state[j] = "PENDING"

(* What one step may do to a job, as far as an extension is concerned.      *)
Quiet(j) ==
  /\ Live(j)' => Live(j) \/ (Exists(j) /\ ExtOf[RunOf[j]] \notin disabled)
  /\ (cancel[j] /\ Live(j)') => cancel'[j]
  /\ ~Exists(j) => state'[j] = state[j]
  /\ Exists(j) => Exists(j)'

LEMMA QuietSteps ==
  ASSUME PlaneInv, DisabledInv, PlaneNext, NEW j \in Jobs PROVE Quiet(j)
<1> USE ConstantsAssumption DEF PlaneInv, IInv, TypeOK
<1>0. RunOf[j] \in Runs /\ (Exists(j) => Exists(j)') /\ (~Exists(j) => ~Terminal(j) /\ ~Live(j))
  BY StepRemembers DEF Remembered, DisabledInv
<1>1. cancel[j] /\ Live(j)' => cancel'[j]
  BY StopsStay DEF ReplayJob, Replay
<1> DEFINE Rest == /\ Live(j)' => Live(j) \/ (Exists(j) /\ ExtOf[RunOf[j]] \notin disabled)
                   /\ ~Exists(j) => state'[j] = state[j]
<1>2. state' = state => Rest
  BY <1>0
<1>3. ASSUME NEW w \in Workers, PlaneStepOfAgent(w) PROVE Rest
  <2>1. /\ Working(w) => Lease(w) \in Granted
        /\ renewer[w] # "off" => Working(w)
        /\ \A l \in Granted : JobOf(l) \in Jobs
    BY GrantedLease DEF LocalsHold, AgentsKnow, RunningIsRenewed
  <2>2. CASE ClaimJob(w)
    BY <1>0, <2>2 DEF ClaimJob, Claim, Claimable
  <2>3. CASE StartJob(w)
    BY <1>0, <1>2, <2>1, <2>3, GrantedLease
       DEF StartJob, Start, storeVars, jobVars, LeaseNamesTheAttempt
  <2>4. CASE Decline(w) \/ RenewWhilePaused(w)
    BY <1>0, <1>2, <2>1, <2>4
       DEF Decline, RenewWhilePaused, HandBack, ReleaseForPause, Holds, storeVars, jobVars
  <2>5. CASE ~(ClaimJob(w) \/ StartJob(w) \/ Decline(w) \/ RenewWhilePaused(w))
    BY <1>2, <1>3, <2>5 DEF PlaneStepOfAgent, AgentStep, RenewStep, CrashAgent, Poll,
       NothingToDo, MarkRun, AskToStart, FinishJob, EndSubmit, AskToRenew, RenewLease,
       MarkExecuting, Renew, storeVars, jobVars
  <2> QED
    BY <2>2, <2>3, <2>4, <2>5
<1>4. ASSUME NEW h \in Handlers, PlaneStepOfHandler(h) PROVE Rest
  <2>1. (~In(h, "idle") => handler[h].lease \in Granted) /\ (\A l \in Granted : JobOf(l) \in Jobs)
    BY GrantedLease DEF LocalsHold, HandlersKnow, HandlerKnows
  <2>2. CASE FailJob(h)
    <3>1. JobOf(handler[h].lease) \in Jobs
      BY <2>1, <2>2 DEF FailJob
    <3>2. state' = state \/ FailDeadLetter(handler[h].lease) \/ FailRequeue(handler[h].lease)
      BY <2>2 DEF FailJob, storeVars, jobVars
    <3> QED
      BY <1>0, <1>2, <3>1, <3>2 DEF FailDeadLetter, FailRequeue, Holds
  <2>3. CASE CommitEnvelope(h)
    <3>1. JobOf(handler[h].lease) \in Jobs
      BY <2>1, <2>3 DEF CommitEnvelope
    <3> QED
      BY <1>0, <1>2, <2>3, <3>1 DEF CommitEnvelope, Commit, Committable, Holds, storeVars, jobVars
  <2> QED
    BY <1>2, <1>4, <2>2, <2>3 DEF PlaneStepOfHandler, Receive, IngestStep, CrashHandler, RecordEnvelope,
       AnswerPrior, SupersedeEnvelope, QuarantineEnvelope, ReadAttempt,
       Record, JudgeRow, Judge, storeVars, jobVars
<1>5. ASSUME NEW i \in Jobs, Sweep(i) \/ Expire(i) \/ Backoff(i) \/ ReplayJob(i) PROVE Rest
  BY <1>0, <1>5 DEF Sweep, Expire, Backoff, Alone, SweepRequeue, SweepDeadLetter, LeaseExpires,
     BackoffElapses, ReplayJob, Replay
<1>6. ASSUME NEW r \in Runs, CreateTheRun(r) \/ Advance(r) \/ Process(r) PROVE Rest
  BY <1>2, <1>6 DEF CreateTheRun, Advance, Process, Alone, CreateRun, AdvanceReady, AdvanceDeadLetter,
     MarkProcessed, jobVars
<1>7. ASSUME CancelQueued \/ FlagLeased \/ KillTheJobs \/ KillTheRun PROVE Rest
  <2>1. CASE KillTheJobs
    BY <1>0, <2>1 DEF KillTheJobs, KillJobs
  <2> QED
    BY <1>0, <1>2, <1>7, <2>1 DEF CancelQueued, FlagLeased, KillTheRun, CancelPending, Queued,
       FlagLive, KillRun, storeVars, jobVars
<1>8. ASSUME OperatorCommand \/ Resume \/ Cooldown PROVE Rest
  BY <1>2, <1>5, <1>8 DEF OperatorCommand, Pause, CancelJob, DisableExtension, EnableExtension,
     CancelRun, Resume, Cooldown, Alone, Disable, Enable, CooldownElapses, storeVars, jobVars
<1>9. Rest
  BY <1>3, <1>4, <1>5, <1>6, <1>7, <1>8 DEF PlaneNext, PlaneStepOfAgent, PlaneStepOfHandler, OpStep
<1> QED
  BY <1>0, <1>1, <1>9 DEF Quiet

LEMMA DisabledNext ==
  ASSUME PlaneInv, DisabledInv, PlaneNext, PlaneInv' PROVE DisabledInv'
<1> SUFFICES ASSUME NEW j \in Jobs
             PROVE  /\ ExtOf[RunOf[j]] \in disabled' /\ Live(j)' /\ ~cancel'[j]
                         => op'.pc \in {"cancelAll", "flagAll"} /\ j \in op'.jobs
                    /\ ~Exists(j)' => state'[j] = "PENDING"
  BY DEF DisabledInv
<1>1. Quiet(j)
  BY QuietSteps
<1>2. ~Exists(j)' => state'[j] = "PENDING"
  BY <1>1 DEF Quiet, DisabledInv
<1> SUFFICES ASSUME ExtOf[RunOf[j]] \in disabled', Live(j)', ~cancel'[j]
             PROVE  op'.pc \in {"cancelAll", "flagAll"} /\ j \in op'.jobs
  BY <1>2
<1>3. ~cancel[j] /\ (Live(j) \/ (Exists(j) /\ ExtOf[RunOf[j]] \notin disabled))
  BY <1>1 DEF Quiet
<1>4. Live(j) => Exists(j)
  BY DEF DisabledInv
<1>5. CASE \E e \in Exts : DisableExtension(e)
  <2>1. PICK e \in Exts : DisableExtension(e)
    BY <1>5
  <2>2. op.pc = "idle" /\ op'.pc = "cancelAll" /\ op'.jobs = JobsOfExt(e) /\ disabled' = disabled \cup {e}
        /\ state' = state
    BY <2>1 DEF DisableExtension, Disable, Begin, jobVars
  <2>3. ExtOf[RunOf[j]] \notin disabled
    BY <1>3, <2>2 DEF DisabledInv
  <2> QED
    BY <1>3, <1>4, <2>2, <2>3 DEF JobsOfExt
<1>6. CASE disabled' \subseteq disabled
  <2>1. Live(j) /\ op.pc \in {"cancelAll", "flagAll"} /\ j \in op.jobs
    BY <1>3, <1>6 DEF DisabledInv
  <2>2. ~FlagLeased
    BY <1>3, <2>1 DEF FlagLeased, FlagLive
  <2>3. CASE CancelQueued
    <3>1. op' = [op EXCEPT !.pc = "flagAll"]
      BY <2>1, <2>3 DEF CancelQueued
    <3> QED
      BY <2>1, <3>1
  <2>4. CASE ~CancelQueued
    <3>1. op' = op
      <4>1. ASSUME NEW w \in Workers, PlaneStepOfAgent(w) PROVE op' = op
        BY <4>1 DEF PlaneStepOfAgent, AgentStep, RenewStep, CrashAgent, Poll, ClaimJob, NothingToDo,
           MarkRun, AskToStart, StartJob, Decline, FinishJob, EndSubmit, AskToRenew, RenewLease,
           RenewWhilePaused, opVars
      <4>2. ASSUME NEW h \in Handlers, PlaneStepOfHandler(h) PROVE op' = op
        BY <4>2 DEF PlaneStepOfHandler, Receive, IngestStep, CrashHandler, RecordEnvelope, AnswerPrior,
           SupersedeEnvelope, QuarantineEnvelope, ReadAttempt, FailJob, CommitEnvelope, opVars
      <4>3. ~(KillTheJobs \/ KillTheRun)
        BY <2>1 DEF KillTheJobs, KillTheRun
      <4>4. OperatorCommand => op' = op
        BY <2>1 DEF OperatorCommand, Pause, CancelJob, ReplayJob, DisableExtension, EnableExtension,
           CancelRun, Begin
      <4> QED
        BY <2>2, <2>4, <4>1, <4>2, <4>3, <4>4
           DEF PlaneNext, PlaneStepOfAgent, PlaneStepOfHandler, Sweep, Expire, Backoff, CreateTheRun,
           Advance, Process, Cooldown, Alone, OpStep, Resume, opVars
    <3> QED
      BY <2>1, <3>1
  <2> QED
    BY <2>3, <2>4
<1>7. (\E e \in Exts : DisableExtension(e)) \/ disabled' \subseteq disabled
  <2>1. ASSUME NEW w \in Workers, PlaneStepOfAgent(w) PROVE disabled' = disabled
    BY <2>1 DEF PlaneStepOfAgent, AgentStep, RenewStep, CrashAgent, Poll, ClaimJob, NothingToDo,
       MarkRun, AskToStart, StartJob, Decline, FinishJob, EndSubmit, AskToRenew, RenewLease,
       RenewWhilePaused, HandBack, Claim, MarkExecuting, Start, Renew, ReleaseForPause, storeVars, envVars
  <2>2. ASSUME NEW h \in Handlers, PlaneStepOfHandler(h) PROVE disabled' = disabled
    BY <2>2 DEF PlaneStepOfHandler, Receive, IngestStep, CrashHandler, RecordEnvelope, AnswerPrior,
       SupersedeEnvelope, QuarantineEnvelope, ReadAttempt, FailJob, CommitEnvelope, Record, JudgeRow,
       Judge, FailDeadLetter, FailRequeue, Commit, storeVars, envVars
  <2>3. ASSUME NEW i \in Jobs, Sweep(i) \/ Expire(i) \/ Backoff(i) PROVE disabled' = disabled
    BY <2>3 DEF Sweep, Expire, Backoff, Alone, SweepRequeue, SweepDeadLetter, LeaseExpires,
       BackoffElapses, envVars
  <2>4. ASSUME NEW r \in Runs, CreateTheRun(r) \/ Advance(r) \/ Process(r) PROVE disabled' = disabled
    BY <2>4 DEF CreateTheRun, Advance, Process, Alone, CreateRun, AdvanceReady, AdvanceDeadLetter,
       MarkProcessed, envVars
  <2>5. CASE OperatorCommand
    BY <2>5 DEF OperatorCommand, Pause, CancelJob, ReplayJob, Replay, EnableExtension, Enable,
       CancelRun, storeVars, envVars
  <2>6. CASE OpStep \/ Resume \/ Cooldown
    BY <2>6 DEF OpStep, CancelQueued, FlagLeased, KillTheJobs, KillTheRun, Resume, Cooldown, Alone,
       CancelPending, FlagLive, KillJobs, KillRun, CooldownElapses, storeVars, envVars
  <2> QED
    BY <2>1, <2>2, <2>3, <2>4, <2>5, <2>6 DEF PlaneNext, PlaneStepOfAgent, PlaneStepOfHandler
<1> QED
  BY <1>5, <1>6, <1>7

(* Once the disable route has answered, every job of the extension that a   *)
(* worker still has will be aborted by the worker's next renewal, and no    *)
(* other one is handed out.                                                 *)
THEOREM DisabledIsImmediate == PlaneSpec => []DisabledMeansNow
<1>1. PlaneInit => DisabledInv
  BY DEF PlaneInit, Init, DisabledInv
<1>2. PlaneInv /\ PlaneInv' /\ DisabledInv /\ [PlaneNext]_planeVars => DisabledInv'
  <2>1. DisabledInv /\ UNCHANGED planeVars => DisabledInv'
    BY DEF DisabledInv, planeVars, opVars, storeVars, jobVars, envVars
  <2> QED
    BY <2>1, DisabledNext
<1>3. DisabledInv => DisabledMeansNow
  BY DEF DisabledInv, DisabledMeansNow
<1> QED
  BY <1>1, <1>2, <1>3, PlaneInductive, PTL DEF PlaneSpec
-----------------------------------------------------------------------------
(* Keys that are used once                                                  *)

(* Under EachKeyOnce, what the clauses of OnceInv say together is           *)
(* inductive: no attempt is given back, so no two leases have one key.      *)
Unpaused == ~paused /\ \A w \in Workers : ~At(w, "declined") /\ renewer[w] # "handback"

KeysAreNew ==
  /\ \A l \in Granted : grant[l].attempt <= attempt[JobOf(l)]
  /\ \A l, m \in Granted : Key(l) = Key(m) => l = m

(* A handler that drops a good envelope lost its lease first.               *)
GoodGoesOn ==
  \A h \in Handlers : In(h, "supersede") /\ Holds(handler[h].lease) => Of(h) # "ok"

OnceInv == Unpaused /\ KeysAreNew /\ GoodGoesOn /\ GoodResultIsKept /\ CommittedUnderItsLease

LEMMA StaysUnpaused ==
  ASSUME EachKeyOnce, PlaneInv, Unpaused, PlaneNext PROVE Unpaused'
<1> USE DEF Unpaused
<1>0. UNCHANGED <<agent, renewer, paused>> => Unpaused'
  OBVIOUS
<1>1. ASSUME NEW w \in Workers, PlaneStepOfAgent(w) PROVE Unpaused'
  BY <1>1 DEF PlaneInv, PlaneTypeOK, PlaneStepOfAgent, AgentStep, RenewStep, CrashAgent, Poll, ClaimJob,
     NothingToDo, MarkRun, AskToStart, StartJob, Decline, FinishJob, EndSubmit, AskToRenew, RenewLease,
     RenewWhilePaused, LoseLease, Leave, Go, Submit, NoAgent, opVars
<1>2. ASSUME NEW h \in Handlers, PlaneStepOfHandler(h) PROVE UNCHANGED <<agent, renewer, paused>>
  BY <1>2 DEF PlaneStepOfHandler, Receive, IngestStep, CrashHandler, RecordEnvelope, AnswerPrior,
     SupersedeEnvelope, QuarantineEnvelope, ReadAttempt, FailJob, CommitEnvelope, agentVars, opVars
<1>3. ASSUME OperatorCommand PROVE UNCHANGED <<agent, renewer, paused>>
  BY <1>3 DEF OperatorCommand, EachKeyOnce, Spend, Pause, CancelJob, ReplayJob, DisableExtension,
     EnableExtension, CancelRun, agentVars
<1>4. CASE OpStep \/ Resume \/ Cooldown
  BY <1>4 DEF OpStep, CancelQueued, FlagLeased, KillTheJobs, KillTheRun, Resume, Cooldown, Alone,
     agentVars, opVars
<1>5. ASSUME NEW j \in Jobs, Sweep(j) \/ Expire(j) \/ Backoff(j) PROVE Unpaused'
  BY <1>5 DEF Sweep, Expire, Backoff, Alone, agentVars, opVars
<1>6. ASSUME NEW r \in Runs, CreateTheRun(r) \/ Advance(r) \/ Process(r) PROVE Unpaused'
  BY <1>6 DEF CreateTheRun, Advance, Process, Alone, agentVars, opVars
<1> QED
  BY <1>0, <1>1, <1>2, <1>3, <1>4, <1>5, <1>6 DEF PlaneNext, PlaneStepOfAgent, PlaneStepOfHandler

(* An attempt is counted by claim, and nothing gives it back.               *)
LEMMA AttemptsOnlyGrow ==
  ASSUME EachKeyOnce, PlaneInv, Unpaused, PlaneNext
  PROVE  UNCHANGED <<attempt, grant>> \/ \E w \in Workers : ClaimJob(w)
<1>1. ASSUME NEW w \in Workers, PlaneStepOfAgent(w), ~ClaimJob(w) PROVE UNCHANGED <<attempt, grant>>
  BY <1>1 DEF Unpaused, PlaneStepOfAgent, AgentStep, RenewStep, CrashAgent, Poll,
     NothingToDo, MarkRun, AskToStart, StartJob, Decline, FinishJob, EndSubmit, AskToRenew, RenewLease,
     RenewWhilePaused, MarkExecuting, Start, Renew, storeVars, jobVars, claimVars
<1>2. ASSUME NEW h \in Handlers, PlaneStepOfHandler(h) PROVE UNCHANGED <<attempt, grant>>
  BY <1>2 DEF PlaneStepOfHandler, Receive, IngestStep, CrashHandler, RecordEnvelope, AnswerPrior,
     SupersedeEnvelope, QuarantineEnvelope, ReadAttempt, FailJob, CommitEnvelope, Record, JudgeRow,
     Judge, FailDeadLetter, FailRequeue, Commit, storeVars, jobVars, claimVars
<1>3. CASE OperatorCommand
  BY <1>3 DEF OperatorCommand, EachKeyOnce, Spend, Pause, CancelJob, ReplayJob, DisableExtension,
     EnableExtension, CancelRun, Disable, Enable, storeVars, jobVars, claimVars
<1>4. CASE OpStep \/ Resume \/ Cooldown
  BY <1>4 DEF OpStep, CancelQueued, FlagLeased, KillTheJobs, KillTheRun, Resume, Cooldown, Alone,
     CancelPending, FlagLive, KillJobs, KillRun, CooldownElapses, storeVars, jobVars, claimVars
<1>5. ASSUME NEW j \in Jobs, Sweep(j) \/ Expire(j) \/ Backoff(j) PROVE UNCHANGED <<attempt, grant>>
  BY <1>5 DEF Sweep, Expire, Backoff, Alone, SweepRequeue, SweepDeadLetter, LeaseExpires,
     BackoffElapses, claimVars
<1>6. ASSUME NEW r \in Runs, CreateTheRun(r) \/ Advance(r) \/ Process(r) PROVE UNCHANGED <<attempt, grant>>
  BY <1>6 DEF CreateTheRun, Advance, Process, Alone, CreateRun, AdvanceReady, AdvanceDeadLetter,
     MarkProcessed, jobVars, claimVars
<1> QED
  BY <1>1, <1>2, <1>3, <1>4, <1>5, <1>6 DEF PlaneNext, PlaneStepOfAgent, PlaneStepOfHandler

LEMMA KeysStayNew ==
  ASSUME EachKeyOnce, PlaneInv, Unpaused, KeysAreNew, PlaneNext PROVE KeysAreNew'
<1>1. CASE UNCHANGED <<attempt, grant>>
  BY <1>1 DEF KeysAreNew, Granted, JobOf, Key
<1>2. CASE \E w \in Workers : ClaimJob(w)
  <2>1. PICK w \in Workers, j \in Jobs, l \in Leases : Claim(w, j, l)
    BY <1>2 DEF ClaimJob
  <2>2. /\ grant'[l].job = j /\ grant'[l].attempt = attempt[j] + 1
        /\ attempt'[j] = attempt[j] + 1 /\ attempt[j] \in Nat
        /\ \A i \in Jobs \ {j} : attempt'[i] = attempt[i]
    BY <2>1, ConstantsAssumption DEF Claim, PlaneInv, IInv, TypeOK
  <2>3. ASSUME NEW m \in Granted', m # l
        PROVE  /\ m \in Granted /\ grant'[m] = grant[m] /\ JobOf(m) \in Jobs
               /\ grant[m].attempt \in Nat /\ attempt[JobOf(m)] \in Nat
    <3>1. m \in Granted /\ grant'[m] = grant[m]
      BY <2>1, <2>3 DEF Claim, Granted, PlaneInv, IInv, TypeOK
    <3>2. JobOf(m) \in Jobs /\ Key(m) \in Jobs \X Attempts
      BY <3>1, GrantedLease DEF PlaneInv, IInv
    <3> QED
      BY <3>1, <3>2, ConstantsAssumption DEF Key, PlaneInv, IInv, TypeOK
  <2>4. ASSUME NEW m \in Granted' PROVE grant'[m].attempt <= attempt'[grant'[m].job]
    <3>1. CASE m = l
      BY <2>2, <3>1
    <3>2. CASE m # l
      <4>1. grant[m].attempt <= attempt[JobOf(m)] /\ JobOf(m) = grant[m].job
        BY <2>3, <3>2 DEF KeysAreNew, JobOf
      <4> QED
        BY <2>2, <2>3, <3>2, <4>1
    <3> QED
      BY <3>1, <3>2
  <2>5. ASSUME NEW m \in Granted', m # l PROVE Key(m)' # Key(l)'
    <3>1. grant[m].attempt <= attempt[JobOf(m)] /\ JobOf(m) = grant[m].job
      BY <2>3, <2>5 DEF KeysAreNew, JobOf
    <3>2. ~(grant'[m].job = grant'[l].job /\ grant'[m].attempt = grant'[l].attempt)
      BY <2>2, <2>3, <2>5, <3>1
    <3> QED
      BY <3>2 DEF Key
  <2>6. ASSUME NEW m \in Granted', NEW n \in Granted', Key(m)' = Key(n)' PROVE m = n
    <3>1. CASE m = l \/ n = l
      BY <2>5, <2>6, <3>1
    <3>2. CASE m # l /\ n # l
      <4>1. Key(m) = Key(n)
        BY <2>3, <2>6, <3>2 DEF Key
      <4> QED
        BY <2>3, <3>2, <4>1 DEF KeysAreNew
    <3> QED
      BY <3>1, <3>2
  <2> QED
    BY <2>4, <2>6 DEF KeysAreNew, JobOf
<1> QED
  BY <1>1, <1>2, AttemptsOnlyGrow

(* The row under a lease's key is the row of that lease.                    *)
LEMMA RowIsOwn ==
  ASSUME PlaneInv, KeysAreNew, NEW l \in Granted, sub[Key(l)] # NoSub
  PROVE  sub[Key(l)].lease = l
<1>1. Key(l) \in Jobs \X Attempts
  BY GrantedLease DEF PlaneInv, IInv
<1> QED
  BY <1>1 DEF PlaneInv, LocalsHold, RowsAreFiled, KeysAreNew
(* A good envelope is not dropped while its lease holds.                    *)
LEMMA GoodGoesOnNext ==
  ASSUME EachKeyOnce, PlaneInv, OnceInv, PlaneNext, PlaneInv' PROVE GoodGoesOn'
<1> USE DEF OnceInv
<1> SUFFICES ASSUME NEW h \in Handlers, NEW l, l = handler'[h].lease, handler'[h].pc = "supersede",
                    Holds(l)'
             PROVE  envelope'[l] # "ok"
  BY DEF GoodGoesOn, Holds, JobOf
<1>1. handler[h].lease \in Granted /\ Of(h) # "none" => envelope'[handler[h].lease] = Of(h)
  BY EnvelopesStay DEF Granted
<1>2. \A m \in Granted : m \in Granted' /\ grant'[m] = grant[m] /\ (Holds(m)' => Holds(m))
  BY StepRemembers DEF Remembered
<1>3. HandlerKnows(h)
  BY DEF PlaneInv, LocalsHold, HandlersKnow
<1>4. CASE handler'[h] = handler[h]
  <2>1. l \in Granted /\ Of(h) # "none" /\ l = handler[h].lease /\ In(h, "supersede")
    BY <1>3, <1>4 DEF HandlerKnows
  <2>2. Holds(l)
    BY <1>2, <2>1
  <2> QED
    BY <1>1, <2>1, <2>2 DEF GoodGoesOn
<1>5. CASE PlaneStepOfHandler(h) /\ handler'[h] # handler[h]
  <2>1. CASE RecordEnvelope(h) \/ FailJob(h) \/ CommitEnvelope(h)
    <3>1. l = handler[h].lease /\ ~In(h, "idle")
      <4>1. (\E pc : Goto(h, pc)) \/ Answer(h)
        BY <2>1 DEF RecordEnvelope, FailJob, CommitEnvelope
      <4>2. ~Answer(h)
        BY DEF Answer, NoHandler, PlaneInv, PlaneTypeOK
      <4>3. handler'[h].lease = handler[h].lease
        BY <4>1, <4>2 DEF Goto, PlaneInv, PlaneTypeOK
      <4> QED
        BY <2>1, <4>3 DEF RecordEnvelope, FailJob, CommitEnvelope
    <3>2. l \in Granted /\ Of(h) # "none" /\ (Holds(l) => handler[h].valid)
      BY <1>3, <3>1 DEF HandlerKnows
    <3>3. Holds(l)
      BY <1>2, <3>1, <3>2
    <3> SUFFICES Of(h) # "ok"
      BY <1>1, <3>1, <3>2
    <3>4. CASE RecordEnvelope(h)
      <4>1. handler[h].valid
        BY <3>2, <3>3
      <4> QED
        BY <3>4, <4>1 DEF RecordEnvelope, Goto, PlaneInv, PlaneTypeOK
    <3>5. CASE FailJob(h)
      BY <1>3, <3>5 DEF FailJob, HandlerKnows
    <3>6. CASE CommitEnvelope(h)
      <4>1. ~Committable(l) /\ In(h, "commit")
        BY <3>1, <3>6 DEF CommitEnvelope, Answer, NoHandler, PlaneInv, PlaneTypeOK
      <4>2. JobOf(l) \in Jobs /\ Live(JobOf(l)) /\ lease[JobOf(l)] = l
        BY <3>2, <3>3, GrantedLease DEF Holds, PlaneInv, IInv
      <4>3. Committed(JobOf(l)) = {}
        BY <4>2 DEF PlaneInv, IInv, OneCommitPerSuccess
      <4>4. sub[Key(l)].state # "RECEIVED"
        BY <3>3, <4>1, <4>3 DEF Committable, Committed
      <4>5. sub[Key(l)].lease = l
        BY <1>3, <3>1, <3>2, <4>1, RowIsOwn DEF HandlerKnows
      <4> QED
        BY <3>1, <4>2, <4>4, <4>5 DEF GoodResultIsKept
    <3> QED
      BY <2>1, <3>4, <3>5, <3>6
  <2>2. CASE ~(RecordEnvelope(h) \/ FailJob(h) \/ CommitEnvelope(h))
    BY <1>5, <2>2 DEF PlaneStepOfHandler, Receive, IngestStep, CrashHandler, AnswerPrior,
       SupersedeEnvelope, QuarantineEnvelope, ReadAttempt, Goto, Answer, NoHandler, PlaneInv, PlaneTypeOK
  <2> QED
    BY <2>1, <2>2
<1>6. PlaneStepOfHandler(h) \/ handler'[h] = handler[h]
  <2>1. ASSUME NEW g \in Handlers, PlaneStepOfHandler(g), g # h PROVE handler'[h] = handler[h]
    BY <2>1, StepRemembers, HandlerStepKeeps DEF PlaneInv
  <2> QED
    BY <2>1, HandlersAreTheirOwn
<1> QED
  BY <1>4, <1>5, <1>6

(* A job's row keeps the lease it succeeded with.                           *)
LEMMA SuccessKeepsLease ==
  ASSUME IInv, Next, NEW j \in Jobs, state[j] = "SUCCEEDED" PROVE lease'[j] = lease[j]
<1> USE DEF IInv, TypeOK, ClearLease
<1>1. ASSUME NEW l \in Granted, LeaseStep(l) PROVE lease'[j] = lease[j]
  <2>1. JobOf(l) \in Jobs
    BY GrantedLease
  <2> QED
    BY <1>1, <2>1 DEF LeaseStep, Start, Renew, ReleaseForPause, Record, Commit,
       Committable, Fail, FailDeadLetter, FailRequeue, Holds, storeVars, jobVars
<1>2. ASSUME NEW i \in Jobs, JobStep(i) PROVE lease'[j] = lease[j]
  BY <1>2 DEF JobStep, MarkSuperseded, MarkQuarantined, Judge, SweepRequeue,
       SweepDeadLetter, Replay, LeaseExpires, BackoffElapses, Claim, Claimable, jobVars
<1>3. ASSUME NEW r \in Runs, RunStep(r) PROVE lease'[j] = lease[j]
  BY <1>3 DEF RunStep, CreateRun, MarkExecuting, KillJobs, AdvanceReady,
       AdvanceDeadLetter, MarkProcessed, KillRun, jobVars
<1>4. ASSUME NEW S \in SUBSET Jobs, GroupStep(S) PROVE lease'[j] = lease[j]
  BY <1>4 DEF GroupStep, CancelPending, FlagLive
<1>5. ASSUME FleetStep PROVE lease'[j] = lease[j]
  BY <1>5 DEF FleetStep, CooldownElapses, Heartbeat, GoesSilent, Disable, Enable, jobVars
<1> QED
  BY <1>1, <1>2, <1>3, <1>4, <1>5 DEF Next

(* What is committed was good, and stays the result of its lease.           *)
LEMMA CommittedNext ==
  ASSUME EachKeyOnce, PlaneInv, OnceInv, PlaneNext, PlaneInv' PROVE CommittedUnderItsLease'
<1> USE DEF OnceInv
<1> SUFFICES ASSUME NEW j \in Jobs, NEW k \in KeysOf(j), sub'[k].state = "COMMITTED"
             PROVE  sub'[k].lease = lease'[j] /\ envelope'[sub'[k].lease] = "ok"
  BY DEF CommittedUnderItsLease, Committed, KeysOf
<1>0. k \in Jobs \X Attempts /\ k[1] = j
  BY DEF KeysOf
<1>1. CASE sub[k].state = "COMMITTED"
  <2>1. state[j] = "SUCCEEDED" /\ sub[k].lease = lease[j] /\ envelope[sub[k].lease] = "ok"
    BY <1>1 DEF Committed, CommittedUnderItsLease, PlaneInv, IInv, OneCommitPerSuccess
  <2>2. sub[k] # NoSub
    BY <1>1 DEF NoSub
  <2>3. sub'[k].lease = sub[k].lease
    BY <1>0, <2>2, StepRemembers DEF Remembered
  <2>4. lease'[j] = lease[j]
    BY <2>1, PlaneStatements, SuccessKeepsLease DEF PlaneInv, storeVars, jobVars
  <2>5. sub[k].lease \in Leases
    BY <1>0, <2>2 DEF PlaneInv, IInv, TypeOK, Submission
  <2>6. envelope'[sub[k].lease] = envelope[sub[k].lease]
    BY <2>1, <2>5, EnvelopesStay
  <2> QED
    BY <2>1, <2>3, <2>4, <2>6
<1>2. CASE sub[k].state # "COMMITTED"
  <2>1. PICK h \in Handlers : Writes(h, k)
    BY <1>0, <1>2, RowsAreWritten
  <2>2. In(h, "commit") /\ Commit(handler[h].lease) /\ Key(handler[h].lease) = k
        /\ UNCHANGED <<grant, envelope>>
    BY <1>2, <2>1 DEF Writes
  <2>3. PICK l \in Granted : l = handler[h].lease /\ Of(h) = "ok"
    BY <2>2 DEF PlaneInv, LocalsHold, HandlersKnow, HandlerKnows
  <2>4. sub[k] # NoSub /\ Holds(l) /\ JobOf(l) = j
    BY <1>0, <2>2, <2>3 DEF Commit, Committable, NoSub, Key, JobOf
  <2>5. sub[k].lease = l
    BY <2>2, <2>3, <2>4, RowIsOwn
  <2>6. sub'[k].lease = l
    BY <1>0, <2>4, <2>5, StepRemembers DEF Remembered
  <2>7. lease' = lease
    BY <2>2 DEF Commit
  <2> QED
    BY <2>2, <2>3, <2>4, <2>6, <2>7 DEF Holds
<1> QED
  BY <1>1, <1>2

(* A good row stays RECEIVED for as long as its lease holds.                *)
LEMMA GoodIsKeptNext ==
  ASSUME EachKeyOnce, PlaneInv, OnceInv, PlaneNext, PlaneInv' PROVE GoodResultIsKept'
<1> USE DEF OnceInv
<1> SUFFICES ASSUME NEW j \in Jobs, NEW l, l = lease'[j], Live(j)',
                    sub'[<<grant'[l].job, grant'[l].attempt>>].lease = l, envelope'[l] = "ok"
             PROVE  sub'[<<grant'[l].job, grant'[l].attempt>>].state = "RECEIVED"
  BY DEF GoodResultIsKept, Key
<1>1. l \in Granted' /\ grant'[l].job = j
  BY DEF PlaneInv, IInv, TypeOK, LeaseNamesTheAttempt, Granted, JobOf
<1>2. l \in Leases /\ <<grant'[l].job, grant'[l].attempt>> \in Jobs \X Attempts
  BY <1>1 DEF PlaneInv, IInv, TypeOK, Granted, Grant
<1>3. PICK k \in Jobs \X Attempts : k = <<grant'[l].job, grant'[l].attempt>>
  BY <1>2
<1>4. l \in Granted => Key(l) = k /\ Holds(l) /\ lease[j] = l /\ Live(j)
  <2>1. l \in Granted => grant'[l] = grant[l] /\ (Holds(l)' => Holds(l))
    BY StepRemembers DEF Remembered
  <2>2. Holds(l)'
    BY <1>1 DEF Holds, JobOf
  <2> QED
    BY <1>1, <1>3, <2>1, <2>2 DEF Holds, JobOf, Key
<1>5. CASE sub'[k] = sub[k]
  <2>1. sub[k].lease = l /\ l # None
    BY <1>2, <1>3, <1>5, ConstantsAssumption
  <2>2. l \in Granted /\ envelope[l] # "none"
    BY <2>1 DEF PlaneInv, LocalsHold, RowsAreFiled, NoSub
  <2>3. envelope[l] = "ok"
    BY <1>2, <2>2, EnvelopesStay
  <2> QED
    BY <1>3, <1>4, <1>5, <2>1, <2>2, <2>3 DEF GoodResultIsKept
<1>6. CASE sub'[k] # sub[k]
  <2>1. PICK h \in Handlers : Writes(h, k)
    BY <1>6, RowsAreWritten
  <2>2. CASE In(h, "record")
    BY <1>3, <2>1, <2>2 DEF Writes
  <2>3. CASE ~In(h, "record")
    <3>1. /\ Key(handler[h].lease) = k /\ ~In(h, "idle") /\ UNCHANGED envelope
          /\ sub[k].state = "RECEIVED"
      BY <2>1, <2>3 DEF Writes
    <3>2. handler[h].lease \in Granted /\ HandlerKnows(h)
      BY <3>1 DEF PlaneInv, LocalsHold, HandlersKnow, HandlerKnows
    <3>3. sub[k] # NoSub
      BY <3>1 DEF NoSub
    <3>4. sub[k].lease = handler[h].lease /\ sub'[k].lease = sub[k].lease
      BY <3>1, <3>2, <3>3, RowIsOwn, StepRemembers DEF Remembered
    <3>5. handler[h].lease = l
      BY <1>3, <3>4
    <3>6. Of(h) = "ok" /\ Holds(l)
      BY <1>4, <3>1, <3>2, <3>5
    <3>7. In(h, "commit") /\ Commit(l)
      BY <2>1, <2>3, <3>2, <3>5, <3>6 DEF Writes, GoodGoesOn, HandlerKnows
    <3>8. JobOf(l) = j
      BY <1>4, <1>1, <3>1, <3>2, <3>5, StepRemembers DEF Remembered, JobOf
    <3>9. state'[j] = "SUCCEEDED"
      BY <3>7, <3>8 DEF Commit, PlaneInv, IInv, TypeOK
    <3> QED
      BY <3>9
  <2> QED
    BY <2>2, <2>3
<1> QED
  BY <1>5, <1>6

LEMMA OnceInductive == ASSUME EachKeyOnce PROVE PlaneSpec => [](PlaneInv /\ OnceInv)
<1>1. PlaneInit => OnceInv
  <2> SUFFICES ASSUME PlaneInit PROVE OnceInv
    OBVIOUS
  <2>1. Unpaused /\ GoodGoesOn
    BY DEF PlaneInit, Unpaused, GoodGoesOn, NoAgent, NoHandler
  <2>2. KeysAreNew /\ GoodResultIsKept /\ CommittedUnderItsLease
    BY DEF PlaneInit, Init, KeysAreNew, Granted, GoodResultIsKept, CommittedUnderItsLease, Committed,
       KeysOf, NoSub
  <2> QED
    BY <2>1, <2>2 DEF OnceInv
<1>2. PlaneInv /\ OnceInv /\ PlaneInv' /\ [PlaneNext]_planeVars => OnceInv'
  <2>1. OnceInv /\ UNCHANGED planeVars => OnceInv'
    BY DEF OnceInv, planeVars, opVars, agentVars, storeVars, jobVars, claimVars, Unpaused, GoodGoesOn,
       KeysAreNew, Granted, GoodResultIsKept, CommittedUnderItsLease, Committed, KeysOf, Key, JobOf, Holds
  <2>2. PlaneInv /\ OnceInv /\ PlaneInv' /\ PlaneNext => OnceInv'
    BY StaysUnpaused, KeysStayNew, GoodGoesOnNext, CommittedNext, GoodIsKeptNext DEF OnceInv
  <2> QED
    BY <2>1, <2>2
<1> QED
  BY <1>1, <1>2, PlaneInductive, PTL DEF PlaneSpec

(* What a retried submit is answered with is the verdict on its own         *)
(* envelope, and what is committed was sent, and judged good, under the     *)
(* lease the job succeeded with.                                            *)
THEOREM OwnVerdicts == ASSUME EachKeyOnce PROVE PlaneSpec => []VerdictsAreTheirOwn
<1>1. PlaneInv /\ OnceInv => VerdictsAreTheirOwn
  <2> SUFFICES ASSUME PlaneInv, OnceInv, NEW h \in Handlers, In(h, "record"),
                      Row(h).state \in {"COMMITTED", "SUPERSEDED", "QUARANTINED"}
               PROVE  Row(h).lease = handler[h].lease
    BY DEF OnceInv, VerdictsAreTheirOwn, PriorVerdictIsItsOwn
  <2>1. handler[h].lease \in Granted
    BY DEF PlaneInv, LocalsHold, HandlersKnow, HandlerKnows
  <2>2. Row(h) # NoSub
    BY DEF NoSub
  <2> QED
    BY <2>1, <2>2, RowIsOwn DEF OnceInv
<1> QED
  BY <1>1, OnceInductive, PTL

(* A result judged good is committed or kept for as long as its lease       *)
(* holds, however many handlers judge posts of it at once.                  *)
THEOREM GoodResultsAreKept == ASSUME EachKeyOnce PROVE PlaneSpec => []GoodResultIsKept
  BY OnceInductive, PTL DEF OnceInv

=============================================================================
