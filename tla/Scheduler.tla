----------------------------- MODULE Scheduler -----------------------------
(***************************************************************************)
(* The scheduling loop (src/core/scheduler/service.ts, slots.ts): what one *)
(* tick does between reading the clock and going back to sleep, on several *)
(* replicas, with the process dying anywhere.  The clock is in minutes, a  *)
(* day has DayLength of them.  What a sweep does to jobs is JobStore's.    *)
(***************************************************************************)
EXTENDS Integers, Sequences

CONSTANTS
  Replicas,
  Schedule,      \* effectiveSchedules' order: <<[ext, kind, minute, days], ...>>
  DayLength,     \* minutes in a day; days are numbered from 0
  Horizon,       \* the last minute of the clock (bound)
  SyncInterval,  \* GITHUB_SYNC_INTERVAL_MS
  MaxCrashes,    \* bounds deaths of a replica
  MaxSwitches    \* bounds operators' acts

ASSUME SchedulerAssumption ==
  /\ DayLength \in Nat \ {0} /\ {Horizon, SyncInterval} \subseteq Nat
  /\ Schedule \in Seq([ext : STRING, kind : STRING, minute : 0..(DayLength - 1), days : SUBSET (0..6)])

Minutes == 0..Horizon
Never == -1 - SyncInterval

VARIABLES
  clock,
  mark,      \* the setting scheduler_last_tick, Never before the first tick
  lastSync,  \* the setting github_auto_sync_last, Never when unset
  polling,   \* repositories are configured and github_auto_sync is on
  halted,    \* the platform is paused
  off,       \* extensions the operators disabled
  keys,      \* idempotency keys that have a run: <<ext, slot, kind>>
  sched,     \* replica -> where its tick is, with what it has read
  crashes,
  switches,
  began,     \* observer: where the look back of a tick without watermark ended
  lapsed,    \* observer: slots passed while their extension was disabled, or
             \* whose day had ended when the next tick came
  syncs      \* observer: replica -> the minute of its last sync

settingVars == <<mark, lastSync, polling, halted, off>>
schedulerVars == <<clock, settingVars, keys, sched, crashes, switches, began, lapsed, syncs>>

Resting == [at |-> "idle", now |-> 0, last |-> 0, first |-> FALSE, left |-> {}, barred |-> {}]

SchedulerInit ==
  /\ clock = 0 /\ mark = Never /\ lastSync = Never
  /\ polling \in BOOLEAN /\ halted = FALSE /\ off = {} /\ keys = {}
  /\ sched = [r \in Replicas |-> Resting]
  /\ crashes = 0 /\ switches = 0
  /\ began = Never /\ lapsed = {} /\ syncs = [r \in Replicas |-> Never]

DailySlots == {Schedule[i] : i \in 1..Len(Schedule)}
SlotKey(slot, due) == <<slot.ext, due, slot.kind>>

(* dueSlot: only the slot of the day it is now is considered.              *)
DayOf(t) == t \div DayLength
Candidate(slot, now) == DayOf(now) * DayLength + slot.minute
OnDay(slot, t) == slot.days = {} \/ DayOf(t) % 7 \in slot.days
(* Mutant: the slot of the day is due before it has come.                  *)
DueSlotAhead(slot, last, now) == OnDay(slot, Candidate(slot, now)) /\ Candidate(slot, now) > last

DueSlot(slot, last, now) ==
  OnDay(slot, Candidate(slot, now)) /\ Candidate(slot, now) <= now /\ Candidate(slot, now) > last

(* A FORCE run without a scope is refused with an exception.               *)
Refused(slot) == slot.kind = "FORCE"

Proceeds(r, to) == sched' = [sched EXCEPT ![r] =
  IF to = "idle" THEN Resting ELSE [Resting EXCEPT !.at = to, !.now = sched[r].now]]

(* isPaused                                                                *)
Tick(r) ==
  /\ sched[r].at = "idle"
  /\ sched' = [sched EXCEPT ![r] =
       [Resting EXCEPT !.at = IF halted THEN "sweepOnly" ELSE "recall", !.now = clock]]
  /\ UNCHANGED <<clock, settingVars, keys, crashes, switches, began, lapsed, syncs>>

(* getSetting(LAST_TICK_KEY): the first tick looks back one minute.        *)
Recall(r) ==
  LET last == IF mark = Never THEN sched[r].now - 1 ELSE mark IN
  /\ sched[r].at = "recall"
  /\ sched' = [sched EXCEPT ![r].at = "survey", ![r].last = last, ![r].first = mark = Never]
  /\ UNCHANGED <<clock, settingVars, keys, crashes, switches, began, lapsed, syncs>>

(* listDisabled, effectiveSchedules: the places in Schedule it keeps.      *)
EffectiveSchedules == {i \in 1..Len(Schedule) : Schedule[i].ext \notin off}
Survey(r) ==
  /\ sched[r].at = "survey"
  /\ sched' = [sched EXCEPT ![r].at = "create", ![r].left = EffectiveSchedules,
                            ![r].barred = {slot \in DailySlots : slot.ext \in off}]
  /\ UNCHANGED <<clock, settingVars, keys, crashes, switches, began, lapsed, syncs>>

(* The loop takes the schedules in their order.                            *)
NextUp(left) == {i \in left : \A j \in left : i <= j}

(* Mutant: an exception in here ends the tick.                             *)
CreateOrAbort(r) == \E i \in NextUp(sched[r].left) :
  LET q == sched[r]  slot == Schedule[i]  due == DueSlot(slot, q.last, q.now) IN
  /\ q.at = "create"
  /\ sched' = [sched EXCEPT ![r] = IF due /\ Refused(slot) THEN Resting
                                   ELSE [q EXCEPT !.left = @ \ {i}]]
  /\ keys' = IF due /\ ~Refused(slot) THEN keys \cup {SlotKey(slot, Candidate(slot, q.now))} ELSE keys
  /\ UNCHANGED <<clock, settingVars, crashes, switches, began, lapsed, syncs>>

(* One schedule of the loop in createDueRuns: createRun inserts under the  *)
(* slot's key or finds the run that has it.  An exception leaves the loop, *)
(* and the watermark, where they are.                                      *)
CreateDueRun(r) == \E i \in NextUp(sched[r].left) :
  LET q == sched[r]  slot == Schedule[i]  due == DueSlot(slot, q.last, q.now) IN
  /\ q.at = "create"
  /\ sched' = [sched EXCEPT ![r] = IF due /\ Refused(slot) THEN [Resting EXCEPT !.at = "sweep", !.now = q.now]
                                   ELSE [q EXCEPT !.left = @ \ {i}]]
  /\ keys' = IF due /\ ~Refused(slot) THEN keys \cup {SlotKey(slot, Candidate(slot, q.now))} ELSE keys
  /\ UNCHANGED <<clock, settingVars, crashes, switches, began, lapsed, syncs>>

(* Mutant: the tick is recorded before its runs are created.               *)
WriteMarkEarly(r) ==
  LET q == sched[r] IN
  /\ q.at = "create" /\ mark # q.now
  /\ mark' = q.now /\ sched' = [sched EXCEPT ![r].at = IF q.left = {} THEN "sweep" ELSE "create"]
  /\ UNCHANGED <<clock, lastSync, polling, halted, off, keys, crashes, switches, began, lapsed, syncs>>

(* Observer: the slots that this tick moves past without a run.            *)
PassedBy(q) == {p \in DailySlots \X Minutes : LET slot == p[1]  t == p[2] IN
  q.last < t /\ t <= q.now /\ t % DayLength = slot.minute /\ (slot \in q.barred \/ DayOf(t) < DayOf(q.now))}

(* setSetting(LAST_TICK_KEY)                                               *)
WriteMark(r) ==
  LET q == sched[r] IN
  /\ q.at = "create" /\ q.left = {}
  /\ mark' = q.now
  /\ began' = IF q.first /\ q.last > began THEN q.last ELSE began
  /\ lapsed' = lapsed \cup PassedBy(q)
  /\ Proceeds(r, "sweep")
  /\ UNCHANGED <<clock, lastSync, polling, halted, off, keys, crashes, switches, syncs>>

(* sweepExpiredLeases, advanceRuns, sweepExpired: they run in every tick.  *)
SweepExpired(r) ==
  /\ sched[r].at \in {"sweep", "sweepOnly"}
  /\ Proceeds(r, IF sched[r].at = "sweep" THEN "sync" ELSE "idle")
  /\ UNCHANGED <<clock, settingVars, keys, crashes, switches, began, lapsed, syncs>>

(* Mutant: the poll is recorded when it has ended.                         *)
PollFirst(r) ==
  /\ sched[r].at = "stamp"
  /\ syncs' = [syncs EXCEPT ![r] = sched[r].now]
  /\ Proceeds(r, "poll")
  /\ UNCHANGED <<clock, settingVars, keys, crashes, switches, began, lapsed>>

(* maybeSyncGithub: read, then stamp before the work, then the work.       *)
SyncDue(r) ==
  /\ sched[r].at = "sync"
  /\ Proceeds(r, IF ~polling \/ sched[r].now - lastSync < SyncInterval THEN "idle" ELSE "stamp")
  /\ UNCHANGED <<clock, settingVars, keys, crashes, switches, began, lapsed, syncs>>

Stamp(r) ==
  /\ sched[r].at = "stamp"
  /\ lastSync' = sched[r].now
  /\ syncs' = [syncs EXCEPT ![r] = sched[r].now]
  /\ Proceeds(r, "poll")
  /\ UNCHANGED <<clock, mark, polling, halted, off, keys, crashes, switches, began, lapsed>>

Polled(r) ==
  /\ sched[r].at = "poll" /\ Proceeds(r, "idle")
  /\ UNCHANGED <<clock, settingVars, keys, crashes, switches, began, lapsed, syncs>>

(* The process dies, or the database refuses a statement of the tick.      *)
Dies(r) ==
  /\ sched[r].at # "idle" /\ crashes < MaxCrashes
  /\ crashes' = crashes + 1
  /\ sched' = [sched EXCEPT ![r] = Resting]
  /\ UNCHANGED <<clock, settingVars, keys, switches, began, lapsed, syncs>>

MinutePasses ==
  /\ clock < Horizon /\ clock' = clock + 1
  /\ UNCHANGED <<settingVars, keys, sched, crashes, switches, began, lapsed, syncs>>

OperatorSwitches ==
  /\ switches < MaxSwitches /\ switches' = switches + 1
  /\ \/ halted' = ~halted /\ UNCHANGED off
     \/ /\ \E slot \in DailySlots : off' = IF slot.ext \in off THEN off \ {slot.ext} ELSE off \cup {slot.ext}
        /\ UNCHANGED halted
  /\ UNCHANGED <<clock, mark, lastSync, polling, keys, sched, crashes, began, lapsed, syncs>>

TickStep(r) ==
  \/ Tick(r) \/ Recall(r) \/ Survey(r) \/ CreateDueRun(r) \/ WriteMark(r) \/ SweepExpired(r)
  \/ SyncDue(r) \/ Stamp(r) \/ Polled(r)

SchedulerNext == (\E r \in Replicas : TickStep(r) \/ Dies(r)) \/ MinutePasses \/ OperatorSwitches

SchedulerFairness == \A r \in Replicas : WF_schedulerVars(TickStep(r))
SchedulerSpec == SchedulerInit /\ [][SchedulerNext]_schedulerVars /\ SchedulerFairness
-----------------------------------------------------------------------------
(* Every variable stays in its type, and no run is of a slot to come.      *)
SchedulerTypeOK ==
  /\ clock \in Minutes /\ {mark, lastSync, began} \subseteq Minutes \cup {Never, -1}
  /\ halted \in BOOLEAN /\ off \subseteq {slot.ext : slot \in DailySlots}
  /\ \A k \in keys : \E slot \in DailySlots, t \in 0..clock : k = SlotKey(slot, t)
  /\ \A r \in Replicas :
       /\ sched[r].at \in {"idle", "recall", "survey", "create", "sweep", "sweepOnly",
                           "sync", "stamp", "poll"}
       /\ sched[r].now <= clock /\ sched[r].last <= clock
       /\ syncs[r] \in Minutes \cup {Never}

(* Whatever replicas race and wherever they die, the watermark never moves *)
(* past a slot that has no run, except one that was passed while its       *)
(* extension was disabled, or whose day ended while no tick came.          *)
MarkedMeansBooked == \A slot \in DailySlots, t \in Minutes :
  (/\ t % DayLength = slot.minute /\ OnDay(slot, t)
   /\ began < t /\ t <= mark
   /\ <<slot, t>> \notin lapsed)
  => SlotKey(slot, t) \in keys

(* The types of the tick, and a watermark that never runs ahead.           *)
SchedulerInv == SchedulerTypeOK /\ MarkedMeansBooked

(* A scheduler that dies in every poll still keeps the interval between    *)
(* polls, as long as it is the only one.                                   *)
PollsAreSpaced == [][\A r \in Replicas :
  syncs'[r] # syncs[r] /\ (\A q \in Replicas \ {r} : syncs[q] = Never) =>
    syncs'[r] - syncs[r] >= SyncInterval]_schedulerVars

(* Expired leases go on being swept whatever becomes of the creation of    *)
(* runs: a schedule that throws in every tick, a pause, a poll that dies.  *)
SweepsGoOn == []<>(\E r \in Replicas : sched[r].at \in {"sweep", "sweepOnly"})
=============================================================================
