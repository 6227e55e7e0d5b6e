------------------------------ MODULE JobPlane ------------------------------
(***************************************************************************)
(* The job plane: the processes that call the statements of JobStore, and  *)
(* what each of them remembers between two awaits.                         *)
(*                                                                         *)
(*   worker agents      src/worker/agent.ts: lease, start, run, renew,     *)
(*                      submit; one job at a time, renewals concurrent     *)
(*   worker routes      src/core/api/routes/worker.ts: the pause is read   *)
(*                      in one await, the statement runs in the next       *)
(*   ingest handlers    src/core/ingest/ingest.ts: one instance per POST   *)
(*                      of an envelope, interleaved with each other        *)
(*   operators          admin routes over cancel, cancelRun,               *)
(*                      cancelAllForExtension, replayDeadLetter, pause     *)
(*   scheduler          the sweep and advanceRuns of its tick              *)
(*                                                                         *)
(* An agent's HTTP request and the route that serves it are one process,   *)
(* except for a submission: the client times out and posts again while the *)
(* first handler is still at work.                                         *)
(***************************************************************************)
EXTENDS JobStore

CONSTANTS
  Handlers, \* ingest requests in flight at once
  Outcomes, \* what an execution may end in, in this instance
  Allowed,  \* the rare events this instance has
  Budget    \* how many of them may happen: a bound of the model

Events == {"operator", "replay", "pause", "crash"}

(* "ok" passes validatePolicy and "breach" does not; the rest are the error *)
(* classes a worker reports.                                                *)
Verdicts == {"ok", "breach", "TRANSIENT", "PERMANENT"}

(* A run and a job never share an id: told holds both.                      *)
ASSUME PlaneAssumption ==
  /\ Outcomes \subseteq Verdicts /\ Allowed \subseteq Events /\ Budget \in Nat
  /\ Runs \cap Jobs = {}

VARIABLES
  agent,    \* each agent: where it is, the lease it works under
  renewer,  \* its renewal timer, and the answer to the pause check
  envelope, \* the envelope posted under a lease, by what ingest makes of it
  handler,  \* ingest handlers: where, for which lease, what was read
  op,       \* the operator command under way
  told,     \* runs and jobs an operator stopped and nobody replayed since
  paused,   \* settings: the platform is paused
  budget    \* what is left of Budget

agentVars == <<agent, renewer, envelope>>
opVars    == <<op, told, paused, budget>>
planeVars == <<storeVars, agentVars, handler, opVars>>

AgentStates == {"idle", "claiming", "marking", "granted", "starting", "declined",
                "running", "submitting"}
RenewStates == {"off", "on", "asking", "handback"}
HandlerStates == {"idle", "record", "gate", "quarantine", "failRead", "failWrite",
                  "supersede", "commit"}
OpStates == {"idle", "cancelOne", "flagOne", "cancelAll", "flagAll", "killJobs", "killRun"}

NoAgent   == [pc |-> "idle", lease |-> None]
NoHandler == [pc |-> "idle", lease |-> None, valid |-> FALSE, last |-> FALSE]
NoOp      == [pc |-> "idle", jobs |-> {}, run |-> None, seen |-> "ABSENT"]

PlaneInit ==
  /\ Init
  /\ alive    = Workers
  /\ agent    = [w \in Workers |-> NoAgent]
  /\ renewer  = [w \in Workers |-> "off"]
  /\ envelope = [l \in Leases |-> "none"]
  /\ handler  = [h \in Handlers |-> NoHandler]
  /\ op       = NoOp
  /\ told     = {}
  /\ paused   = FALSE
  /\ budget   = Budget

Spend(e) == e \in Allowed /\ budget > 0 /\ budget' = budget - 1

-----------------------------------------------------------------------------
(* Worker agents and the worker routes                                     *)

At(w, pc) == agent[w].pc = pc
Go(w, pc) == agent' = [agent EXCEPT ![w].pc = pc]
Leave(w)  == /\ agent' = [agent EXCEPT ![w] = NoAgent]
             /\ renewer' = [renewer EXCEPT ![w] = "off"]
Lease(w)  == agent[w].lease

(* POST /lease: the pause is read before each claim of the long poll.      *)
Poll(w) ==
  /\ At(w, "idle") /\ ~paused
  /\ Go(w, "claiming")
  /\ UNCHANGED <<storeVars, renewer, envelope, handler, opVars>>

ClaimJob(w) ==
  /\ At(w, "claiming")
  /\ \E j \in Jobs, l \in Leases :
       /\ Claim(w, j, l)
       /\ agent' = [agent EXCEPT ![w] = [pc |-> "marking", lease |-> l]]
  /\ UNCHANGED <<renewer, envelope, handler, opVars>>

(* Nothing to hand out: 204, and the agent polls again.                    *)
NothingToDo(w) ==
  /\ At(w, "claiming") /\ ~\E j \in Jobs : Claimable(w, j)
  /\ Go(w, "idle")
  /\ UNCHANGED <<storeVars, renewer, envelope, handler, opVars>>

RunOfLease(l) == RunOf[JobOf(l)]

MarkRun(w) ==
  /\ At(w, "marking")
  /\ IF run[RunOfLease(Lease(w))] = "PENDING"
     THEN MarkExecuting(RunOfLease(Lease(w))) ELSE UNCHANGED storeVars
  /\ Go(w, "granted")
  /\ UNCHANGED <<renewer, envelope, handler, opVars>>

(* POST /start reads the pause ...                                         *)
AskToStart(w) ==
  /\ At(w, "granted")
  /\ Go(w, IF paused THEN "declined" ELSE "starting")
  /\ UNCHANGED <<storeVars, renewer, envelope, handler, opVars>>

(* ... and starts the job, or answers 409 and the agent drops it.          *)
StartJob(w) ==
  /\ At(w, "starting")
  /\ \/ /\ Start(Lease(w))
        /\ Go(w, "running")
        /\ renewer' = [renewer EXCEPT ![w] = "on"]
     \/ /\ ~(lease[JobOf(Lease(w))] = Lease(w) /\ state[JobOf(Lease(w))] = "LEASED")
        /\ Leave(w)
        /\ UNCHANGED storeVars
  /\ UNCHANGED <<envelope, handler, opVars>>

HandBack(w) ==
  IF Holds(Lease(w)) THEN ReleaseForPause(Lease(w)) ELSE UNCHANGED storeVars

Decline(w) ==
  /\ At(w, "declined")
  /\ HandBack(w)
  /\ Leave(w)
  /\ UNCHANGED <<envelope, handler, opVars>>

Submit(w, verdict) ==
  /\ Go(w, "submitting")
  /\ envelope' = [envelope EXCEPT ![Lease(w)] = verdict]

(* The extension finished, or failed in one of the ways a runner reports.  *)
FinishJob(w) ==
  /\ At(w, "running")
  /\ \E verdict \in Outcomes : Submit(w, verdict)
  /\ UNCHANGED <<storeVars, renewer, handler, opVars>>

(* POST /renew reads the pause ...                                         *)
AskToRenew(w) ==
  /\ renewer[w] = "on"
  /\ renewer' = [renewer EXCEPT ![w] = IF paused THEN "handback" ELSE "asking"]
  /\ UNCHANGED <<storeVars, agent, envelope, handler, opVars>>

(* Mutant: a 409 stops the renewals and not the run.                       *)
LoseLeaseOnly(w) ==
  renewer' = [renewer EXCEPT ![w] = "off"] /\ UNCHANGED agent

(* What a 409 does: a run in progress is abandoned without submitting; a   *)
(* submission in progress goes on, with no more renewals.                  *)
LoseLease(w) ==
  IF At(w, "running") THEN Leave(w)
  ELSE renewer' = [renewer EXCEPT ![w] = "off"] /\ UNCHANGED agent

(* ... then renews.  A cancel request ends the renewals, and ends a run in *)
(* progress with a TRANSIENT error envelope.                               *)
RenewLease(w) ==
  /\ renewer[w] = "asking"
  /\ IF Holds(Lease(w)) /\ ~expired[JobOf(Lease(w))]
     THEN /\ Renew(Lease(w))
          /\ renewer' = [renewer EXCEPT ![w] = IF cancel[JobOf(Lease(w))] THEN "off" ELSE "on"]
          /\ IF cancel[JobOf(Lease(w))] /\ At(w, "running")
             THEN Submit(w, "TRANSIENT") ELSE UNCHANGED <<agent, envelope>>
     ELSE LoseLease(w) /\ UNCHANGED <<storeVars, envelope>>
  /\ UNCHANGED <<handler, opVars>>

RenewWhilePaused(w) ==
  /\ renewer[w] = "handback"
  /\ HandBack(w)
  /\ LoseLease(w)
  /\ UNCHANGED <<envelope, handler, opVars>>

(* submitResult returned, or gave up after its retries.                    *)
EndSubmit(w) ==
  /\ At(w, "submitting")
  /\ Leave(w)
  /\ UNCHANGED <<storeVars, envelope, handler, opVars>>

(* The agent dies, its connection does, or its executor throws: it comes   *)
(* back with no memory of the job.                                         *)
CrashAgent(w) ==
  /\ Spend("crash")
  /\ ~At(w, "idle")
  /\ Leave(w)
  /\ UNCHANGED <<storeVars, envelope, handler, op, told, paused>>

-----------------------------------------------------------------------------
(* Ingest                                                                  *)

In(h, pc) == handler[h].pc = pc
Goto(h, pc) == handler' = [handler EXCEPT ![h].pc = pc]
Answer(h) == handler' = [handler EXCEPT ![h] = NoHandler]
Row(h) == sub[Key(handler[h].lease)]
Of(h) == envelope[handler[h].lease]

(* Mutant: any lease id is believed.                                       *)
ReceiveUngranted(h) ==
  /\ In(h, "idle")
  /\ \E l \in Leases :
       handler' = [handler EXCEPT ![h] = [pc |-> "record", lease |-> l, last |-> FALSE,
                                          valid |-> l \in Granted /\ Holds(l)]]
  /\ UNCHANGED <<storeVars, agentVars, opVars>>

(* Mutant: gate 2 forgets that a started job is RUNNING.                   *)
ReceiveLeasedOnly(h) ==
  /\ In(h, "idle")
  /\ \E l \in Leases :
       /\ envelope[l] # "none"
       /\ handler' = [handler EXCEPT ![h] =
            [pc |-> "record", lease |-> l, last |-> FALSE,
             valid |-> Holds(l) /\ state[JobOf(l)] = "LEASED"]]
  /\ UNCHANGED <<storeVars, agentVars, opVars>>

(* A POST of an envelope arrives, for the first time or again, and however *)
(* late.  ingest reads the job row; gate 2 will judge by this snapshot.    *)
Receive(h) ==
  /\ In(h, "idle")
  /\ \E l \in Leases :
       /\ envelope[l] # "none"
       /\ handler' = [handler EXCEPT ![h] =
                        [pc |-> "record", lease |-> l, valid |-> Holds(l), last |-> FALSE]]
  /\ UNCHANGED <<storeVars, agentVars, opVars>>

RecordEnvelope(h) ==
  /\ In(h, "record")
  /\ \/ Record(handler[h].lease)
     \/ Row(h).state = "RECEIVED" /\ UNCHANGED storeVars
  /\ Goto(h, CASE ~handler[h].valid      -> "supersede"
                [] handler[h].valid /\ Of(h) = "ok" -> "commit"
                [] handler[h].valid /\ Of(h) = "breach" -> "quarantine"
                [] OTHER -> "failRead")
  /\ UNCHANGED <<agentVars, opVars>>

(* The submission was judged before: the worker gets that verdict again.   *)
AnswerPrior(h) ==
  /\ In(h, "record") /\ Row(h).state \in {"COMMITTED", "SUPERSEDED", "QUARANTINED"}
  /\ Answer(h)
  /\ UNCHANGED <<storeVars, agentVars, opVars>>

JudgeRow(h, verdict) ==
  IF Row(h).state = "RECEIVED"
  THEN Judge(Key(handler[h].lease), verdict) ELSE UNCHANGED storeVars

SupersedeEnvelope(h) ==
  /\ In(h, "supersede")
  /\ JudgeRow(h, "SUPERSEDED")
  /\ Answer(h)
  /\ UNCHANGED <<agentVars, opVars>>

(* Gate 4: the row is quarantined first, the job failed afterwards.        *)
QuarantineEnvelope(h) ==
  /\ In(h, "quarantine")
  /\ JudgeRow(h, "QUARANTINED")
  /\ Goto(h, "failRead")
  /\ UNCHANGED <<agentVars, opVars>>

(* fail reads the job and decides; its UPDATE comes later and names only   *)
(* the lease.                                                              *)
ReadAttempt(h) ==
  /\ In(h, "failRead")
  /\ handler' = [handler EXCEPT
       ![h].pc = "failWrite",
       ![h].last = Of(h) = "PERMANENT" \/ attempt[JobOf(handler[h].lease)] >= MaxAttempts]
  /\ UNCHANGED <<storeVars, agentVars, opVars>>

(* Mutant: the UPDATE names the job and not the lease.                     *)
FailJobById(h) ==
  /\ In(h, "failWrite")
  /\ state' = [state EXCEPT ![JobOf(handler[h].lease)] =
                 IF handler[h].last THEN "DEAD_LETTER" ELSE "PENDING"]
  /\ ClearLease(JobOf(handler[h].lease))
  /\ IF Of(h) = "breach" THEN Answer(h) ELSE Goto(h, "supersede")
  /\ UNCHANGED <<attempt, due, cancel, run, sub, claimVars, envVars, agentVars, opVars>>

FailJob(h) ==
  /\ In(h, "failWrite")
  /\ CASE ~Holds(handler[h].lease) -> UNCHANGED storeVars
       [] Holds(handler[h].lease) /\ handler[h].last  -> FailDeadLetter(handler[h].lease)
       [] Holds(handler[h].lease) /\ ~handler[h].last -> FailRequeue(handler[h].lease)
  /\ IF Of(h) = "breach" THEN Answer(h) ELSE Goto(h, "supersede")
  /\ UNCHANGED <<agentVars, opVars>>

CommitEnvelope(h) ==
  /\ In(h, "commit")
  /\ \/ Commit(handler[h].lease) /\ Answer(h)
     \/ /\ ~Committable(handler[h].lease)
        /\ Goto(h, "supersede")
        /\ UNCHANGED storeVars
  /\ UNCHANGED <<agentVars, opVars>>

CrashHandler(h) ==
  /\ Spend("crash")
  /\ ~In(h, "idle")
  /\ Answer(h)
  /\ UNCHANGED <<storeVars, agentVars, op, told, paused>>

-----------------------------------------------------------------------------
(* Operators: one multi-statement command at a time, the others atomic     *)

Pause ==
  /\ Spend("pause") /\ ~paused
  /\ paused' = TRUE
  /\ UNCHANGED <<storeVars, agentVars, handler, op, told>>

Resume ==
  /\ paused
  /\ paused' = FALSE
  /\ UNCHANGED <<storeVars, agentVars, handler, op, told, budget>>

(* A replay takes back what an operator ordered before.                    *)
ReplayJob(j) ==
  /\ Spend("replay")
  /\ Replay(j)
  /\ told' = told \ {j, RunOf[j]}
  /\ UNCHANGED <<agentVars, handler, op, paused>>

Begin(pc, S, r, seen) ==
  /\ op.pc = "idle"
  /\ op' = [pc |-> pc, jobs |-> S, run |-> r, seen |-> seen]

CancelJob(j) ==
  /\ Spend("operator")
  /\ Begin("cancelOne", {j}, None, "ABSENT")
  /\ UNCHANGED <<storeVars, agentVars, handler, told, paused>>

JobsOfExt(e) == {j \in Jobs : ExtOf[RunOf[j]] = e /\ Exists(j)}

(* The disable route: the setting first, then cancelAllForExtension.       *)
DisableExtension(e) ==
  /\ Spend("operator")
  /\ Disable(e)
  /\ Begin("cancelAll", JobsOfExt(e), None, "ABSENT")
  /\ UNCHANGED <<agentVars, handler, told, paused>>

EnableExtension(e) ==
  /\ Spend("operator")
  /\ e \in disabled /\ op.pc = "idle"
  /\ Enable(e)
  /\ UNCHANGED <<agentVars, handler, op, told, paused>>

(* cancel stops when its first statement hit the job, and answers 409 when *)
(* neither did; cancelAllForExtension runs both statements in any case.    *)
CancelQueued ==
  /\ op.pc \in {"cancelOne", "cancelAll"}
  /\ CancelPending(op.jobs)
  /\ IF op.pc = "cancelOne" /\ Queued(op.jobs) # {}
     THEN op' = NoOp /\ told' = told \cup op.jobs
     ELSE /\ op' = [op EXCEPT !.pc = IF @ = "cancelOne" THEN "flagOne" ELSE "flagAll"]
          /\ UNCHANGED told
  /\ UNCHANGED <<agentVars, handler, paused, budget>>

FlagLeased ==
  /\ op.pc \in {"flagOne", "flagAll"}
  /\ FlagLive(op.jobs)
  /\ op' = NoOp
  /\ told' = told \cup {j \in op.jobs : op.pc = "flagOne" /\ Live(j)}
  /\ UNCHANGED <<agentVars, handler, paused, budget>>

(* cancelRun: read, refuse what has finished; kill the jobs; then the run, *)
(* if it is still in the state that was read.                              *)
CancelRun(r) ==
  /\ Spend("operator")
  /\ run[r] \in {"PENDING", "EXECUTING", "INGESTING"}
  /\ Begin("killJobs", {}, r, run[r])
  /\ UNCHANGED <<storeVars, agentVars, handler, told, paused>>

KillTheJobs ==
  /\ op.pc = "killJobs"
  /\ KillJobs(op.run)
  /\ op' = [op EXCEPT !.pc = "killRun"]
  /\ told' = told \cup {op.run}
  /\ UNCHANGED <<agentVars, handler, paused, budget>>

KillTheRun ==
  /\ op.pc = "killRun"
  /\ IF run[op.run] = op.seen THEN KillRun(op.run, op.seen) ELSE UNCHANGED storeVars
  /\ op' = NoOp
  /\ UNCHANGED <<agentVars, handler, told, paused, budget>>

-----------------------------------------------------------------------------
(* Scheduler, processor, clock: statements with no memory in between       *)

Alone(A) == A /\ UNCHANGED <<agentVars, handler, opVars>>

CreateTheRun(r) == Alone(CreateRun(r))
Sweep(j)        == Alone(SweepRequeue(j) \/ SweepDeadLetter(j))
Advance(r)      == Alone(AdvanceReady(r) \/ AdvanceDeadLetter(r))
Process(r)      == Alone(MarkProcessed(r))
Expire(j)       == Alone(LeaseExpires(j))
Backoff(j)      == Alone(BackoffElapses(j))
Cooldown        == Alone(CooldownElapses)

AgentStep(w) ==
  \/ Poll(w) \/ ClaimJob(w) \/ NothingToDo(w) \/ MarkRun(w)
  \/ AskToStart(w) \/ StartJob(w) \/ Decline(w)
  \/ FinishJob(w) \/ EndSubmit(w)

RenewStep(w) == AskToRenew(w) \/ RenewLease(w) \/ RenewWhilePaused(w)

IngestStep(h) ==
  \/ RecordEnvelope(h) \/ AnswerPrior(h) \/ SupersedeEnvelope(h)
  \/ QuarantineEnvelope(h) \/ ReadAttempt(h) \/ FailJob(h) \/ CommitEnvelope(h)

OpStep == CancelQueued \/ FlagLeased \/ KillTheJobs \/ KillTheRun

OperatorCommand ==
  \/ Pause
  \/ \E j \in Jobs : CancelJob(j) \/ ReplayJob(j)
  \/ \E e \in Exts : DisableExtension(e) \/ EnableExtension(e)
  \/ \E r \in Runs : CancelRun(r)

PlaneNext ==
  \/ \E w \in Workers : AgentStep(w) \/ RenewStep(w) \/ CrashAgent(w)
  \/ \E h \in Handlers : Receive(h) \/ IngestStep(h) \/ CrashHandler(h)
  \/ \E j \in Jobs : Sweep(j) \/ Expire(j) \/ Backoff(j)
  \/ \E r \in Runs : CreateTheRun(r) \/ Advance(r) \/ Process(r)
  \/ OperatorCommand \/ OpStep \/ Resume \/ Cooldown

PlaneSpec == PlaneInit /\ [][PlaneNext]_planeVars

-----------------------------------------------------------------------------
(* Properties                                                              *)

(* Every process is in one of its states, and names a lease it was granted.*)
PlaneTypeOK ==
  /\ agent \in [Workers -> [pc : AgentStates, lease : Granted \cup {None}]]
  /\ renewer \in [Workers -> RenewStates]
  /\ envelope \in [Leases -> Verdicts \cup {"none"}]
  /\ handler \in [Handlers -> [pc : HandlerStates, lease : Granted \cup {None},
                               valid : BOOLEAN, last : BOOLEAN]]
  /\ op.pc \in OpStates
  /\ told \subseteq Runs \cup Jobs
  /\ paused \in BOOLEAN
  /\ budget \in 0..Budget

(* Every interleaving of agents, handlers and operators is a behaviour of  *)
(* the statements alone.  What is at stake is fail: it decides between     *)
(* retry and dead letter on a row it read before, and writes under the     *)
(* lease only, yet the decision is right for the row it writes.            *)
ImplementsJobStore == Spec

(* A key names a job and an attempt.  A pause gives the attempt back and a *)
(* replay counts from zero again, so that a later lease of the job gets a  *)
(* key an earlier one used.  Without them every key is used once, and the  *)
(* two properties of rows that follow rest on that.                        *)
EachKeyOnce == Allowed \cap {"pause", "replay"} = {}

(* A retried submit is answered with the verdict on its own envelope, and  *)
(* never with one an earlier lease got under the same key                  *)
(* (record / priorOutcome in ingest).                                      *)
PriorVerdictIsItsOwn ==
  \A h \in Handlers :
    In(h, "record") /\ Row(h).state \in {"COMMITTED", "SUPERSEDED", "QUARANTINED"}
      => Row(h).lease = handler[h].lease

(* Only the current lease holder's envelope becomes data (gate 2 and the   *)
(* transaction in commit): the row that is COMMITTED was recorded under    *)
(* the lease the job succeeded with, and it is no error report.            *)
CommittedUnderItsLease ==
  \A j \in Jobs : \A k \in Committed(j) :
    sub[k].lease = lease[j] /\ envelope[sub[k].lease] = "ok"

(* What ingest says of an envelope and what it makes of it are about the   *)
(* lease that envelope was sent under.                                     *)
VerdictsAreTheirOwn == PriorVerdictIsItsOwn /\ CommittedUnderItsLease

(* A result that the core judged good is never thrown away while its lease *)
(* is current: only a lost lease, an earlier commit or an error report     *)
(* supersedes it (the two paths to markSuperseded in ingest).              *)
GoodResultIsKept ==
  \A j \in Jobs : Live(j) /\ sub[Key(lease[j])].lease = lease[j] /\ envelope[lease[j]] = "ok"
    => sub[Key(lease[j])].state = "RECEIVED"

(* cancelRun's promise about work in flight: once its jobs are killed, and *)
(* until somebody replays one, none of them is handed out, restarted or    *)
(* committed, whatever its worker or a running ingest still does.          *)
NothingLandsAfterKill ==
  [][\A r \in told \cap Runs : \A j \in JobsOf(r) :
       state'[j] \in {"LEASED", "RUNNING", "SUCCEEDED"} =>
         r \notin told' \/ state[j] = "SUCCEEDED"]_planeVars

(* The disable route: no job of a disabled extension is being worked on    *)
(* unless its worker will be told to abort, since claim refuses the        *)
(* extension before the jobs are cancelled and flagged.                    *)
DisabledMeansNow ==
  \A j \in Jobs :
    ExtOf[RunOf[j]] \in disabled /\ op.pc = "idle" /\ Live(j) => cancel[j]

(* What cancel answers is true: a job reported cancelled or flagged is     *)
(* finished, or will be refused by every later claim, however it is swept  *)
(* or failed in between.                                                   *)
ToldMeansStopped == \A j \in told \cap Jobs : Terminal(j) \/ cancel[j]

(* An agent never submits for a job it was told it lost, and never runs    *)
(* without renewing: while it executes, its renewals are on or one is      *)
(* under way (startRenewals, and the abort in its 409 and cancel answers). *)
RunningIsRenewed ==
  \A w \in Workers :
    /\ At(w, "running") => renewer[w] # "off"
    /\ renewer[w] # "off" => agent[w].pc \in {"running", "submitting"}

(* What a process remembers across an await is still true when it acts on  *)
(* it.  An agent past its claim works under a lease that was granted to it *)
(* alone, and submits once; a handler works under a lease for which an     *)
(* envelope was posted and a row recorded, goes where that envelope and    *)
(* its snapshot say, and requeues only a job whose budget is not spent.    *)
Working(w) == agent[w].pc \notin {"idle", "claiming"}

AgentsKnow ==
  \A w \in Workers : Working(w) =>
    /\ Lease(w) \in Granted
    /\ ~At(w, "submitting") => envelope[Lease(w)] = "none"
    /\ \A v \in Workers : Working(v) /\ Lease(v) = Lease(w) => v = w

HandlerKnows(h) ==
  LET l == handler[h].lease IN
  ~In(h, "idle") =>
    /\ l \in Granted /\ Of(h) # "none"
    /\ Holds(l) => handler[h].valid
    /\ ~In(h, "record") => Row(h) # NoSub
    /\ In(h, "commit") => Of(h) = "ok"
    /\ handler[h].pc \in {"quarantine", "failRead", "failWrite"} => Of(h) # "ok"
    /\ In(h, "failWrite") /\ ~handler[h].last /\ Holds(l) => attempt[JobOf(l)] < MaxAttempts

HandlersKnow == \A h \in Handlers : HandlerKnows(h)

OperatorKnows ==
  /\ op.jobs \subseteq Jobs
  /\ op.pc = "cancelOne" => \E j \in Jobs : op.jobs = {j}
  /\ op.pc \in {"killJobs", "killRun"} =>
       /\ op.run \in Runs /\ run[op.run] # "ABSENT"
       /\ op.seen \in {"PENDING", "EXECUTING", "INGESTING"}

(* A submission is filed under the key of the lease it names, and stands   *)
(* for an envelope that was posted under it.                               *)
RowsAreFiled ==
  \A k \in Jobs \X Attempts : sub[k] # NoSub =>
    LET l == sub[k].lease IN l \in Granted /\ Key(l) = k /\ envelope[l] # "none"

EnvelopesAreOfLeases == \A l \in Leases : envelope[l] # "none" => l \in Granted

LocalsHold ==
  AgentsKnow /\ HandlersKnow /\ OperatorKnows /\ RowsAreFiled /\ EnvelopesAreOfLeases

(* What the processes of the plane hold, and the tables with them: the     *)
(* types, a renewer while an agent runs, and locals that are true.         *)
PlaneInv == IInv /\ PlaneTypeOK /\ RunningIsRenewed /\ LocalsHold

-----------------------------------------------------------------------------
(* Liveness                                                                *)

(* The scheduler ticks and every process that is up takes its next step; a *)
(* runner ends (timeoutSeconds), a submission is answered or given up, and *)
(* a lease nobody renews runs out.  An agent that finds work takes it.  No *)
(* fairness is assumed of operators, of crashes, of deliveries, or of the  *)
(* expiry of a lease that is being renewed.                                *)
Unrenewed(j) == ~\E w \in Workers : renewer[w] # "off" /\ Lease(w) = lease[j]

Fairness ==
  /\ \A w \in Workers : WF_planeVars(AgentStep(w)) /\ WF_planeVars(RenewStep(w))
  /\ \A w \in Workers : WF_planeVars(FinishJob(w) \/ EndSubmit(w))
  /\ \A h \in Handlers : WF_planeVars(IngestStep(h))
  /\ \A j \in Jobs : /\ WF_planeVars(Sweep(j)) /\ WF_planeVars(Backoff(j))
                     /\ WF_planeVars(Expire(j) /\ Unrenewed(j))
  /\ \A r \in Runs : WF_planeVars(Advance(r)) /\ WF_planeVars(Process(r))
  /\ WF_planeVars(Cooldown) /\ WF_planeVars(Resume) /\ WF_planeVars(OpStep)

FairPlaneSpec == PlaneSpec /\ Fairness

(* A run that was created is settled in the end, through crashes, lost     *)
(* results and expired leases: the budget of attempts is finite and every  *)
(* lease is released, committed or swept (sweepExpiredLeases, advanceRuns).*)
(* The exceptions are jobs that were cancelled one at a time while leased: *)
(* fail and the sweep leave cancel_requested on the job they requeue, and  *)
(* claim then refuses it for ever.                                         *)
Settled(r) == run[r] \in {"PROCESSED", "DEAD_LETTER", "CANCELLED"}
Stranded(r) == \E j \in JobsOf(r) : state[j] = "PENDING" /\ (cancel[j] \/ ExtOf[r] \in disabled)

EveryRunSettles ==
  \A r \in Runs : run[r] = "PENDING" ~> (Settled(r) \/ Stranded(r))
=============================================================================
