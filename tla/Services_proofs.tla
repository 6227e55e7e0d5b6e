-------------------------- MODULE Services_proofs ---------------------------
(* Proofs about the services around the job plane and the uploader: the     *)
(* watermark of the scheduler, for every schedule, length of the day, and   *)
(* number of replicas, deaths and acts of operators; the removal half of    *)
(* the processor, for any chapters, extensions, runs and processors; its    *)
(* upload half, for any forms of an entry, processors and failures; and the *)
(* release schedule, for any caps, backlogs, moments, runs and deaths.      *)
EXTENDS Scheduler, Catalogue, Intake, Spread, FiniteSetTheorems, WellFoundedInduction, TLAPS

(* Everything there was to book up to a minute has its run.                 *)
Booked(n) == \A slot \in DailySlots, t \in Minutes :
  (/\ t % DayLength = slot.minute /\ OnDay(slot, t)
   /\ began < t /\ t <= n
   /\ <<slot, t>> \notin lapsed)
  => SlotKey(slot, t) \in keys

Places == {"idle", "recall", "survey", "create", "sweep", "sweepOnly", "sync", "stamp", "poll"}
TickType == [at : Places, now : Minutes, last : Minutes \cup {-1}, first : BOOLEAN,
             left : SUBSET (1..Len(Schedule)), barred : SUBSET DailySlots]

ClockTypes ==
  /\ clock \in Minutes /\ {mark, lastSync, began} \subseteq Minutes \cup {Never, -1}
  /\ halted \in BOOLEAN /\ off \subseteq {slot.ext : slot \in DailySlots}
  /\ syncs \in [Replicas -> Minutes \cup {Never}]

TickTypes ==
  /\ sched \in [Replicas -> TickType]
  /\ mark <= clock
  /\ \A r \in Replicas : sched[r].now <= clock /\ sched[r].last <= clock

KeysAreDue == \A k \in keys : \E slot \in DailySlots, t \in 0..clock : k = SlotKey(slot, t)

(* A tick that starts from a watermark has nothing left to book before it,  *)
(* wherever the watermark has gone since.                                   *)
LooksBack == \A r \in Replicas :
  sched[r].at \in {"survey", "create"} /\ ~sched[r].first => Booked(sched[r].last)

(* The schedules a tick is done with have their runs.                       *)
Created == \A r \in Replicas : sched[r].at = "create" =>
  \A i \in (1..Len(Schedule)) \ sched[r].left : LET slot == Schedule[i] IN
    slot \in sched[r].barred \/ (DueSlot(slot, sched[r].last, sched[r].now)
                                   => SlotKey(slot, Candidate(slot, sched[r].now)) \in keys)

TickInv == ClockTypes /\ TickTypes /\ KeysAreDue /\ Booked(mark) /\ LooksBack /\ Created

-----------------------------------------------------------------------------
(* The arithmetic of the day                                                *)

LEMMA TheDay ==
  /\ DayLength \in Nat \ {0} /\ Horizon \in Nat /\ SyncInterval \in Nat /\ Len(Schedule) \in Nat
  /\ \A i \in 1..Len(Schedule) : Schedule[i] \in DailySlots
  /\ \A slot \in DailySlots : slot.minute \in 0..(DayLength - 1)
  /\ Never \in Int /\ Never < 0
<1>1. /\ DayLength \in Nat \ {0} /\ Horizon \in Nat /\ SyncInterval \in Nat
      /\ Schedule \in Seq([ext : STRING, kind : STRING, minute : 0..(DayLength - 1), days : SUBSET (0..6)])
  BY SchedulerAssumption
<1>2. \A i \in 1..Len(Schedule) : Schedule[i].minute \in 0..(DayLength - 1)
  <2> DEFINE Entry == [ext : STRING, kind : STRING, minute : 0..(DayLength - 1), days : SUBSET (0..6)]
  <2>1. \A e \in Entry : e.minute \in 0..(DayLength - 1)
    OBVIOUS
  <2>2. Schedule \in Seq(Entry)
    BY <1>1
  <2> HIDE DEF Entry
  <2> QED
    BY <2>1, <2>2
<1> QED
  BY <1>1, <1>2 DEF DailySlots, Never

(* The slot of the day is a minute of that day, and the only one.           *)
LEMMA Days ==
  ASSUME NEW slot \in DailySlots, NEW now \in Minutes
  PROVE  /\ Candidate(slot, now) \in Nat
         /\ \A t \in Minutes : t % DayLength = slot.minute /\ DayOf(t) = DayOf(now) => Candidate(slot, now) = t
<1>1. now \in Nat /\ slot.minute \in Nat /\ DayLength \in Nat \ {0}
  BY TheDay DEF Minutes
<1>2. DayOf(now) \in Nat
  BY <1>1 DEF DayOf
<1>3. DayOf(now) * DayLength \in Nat
  BY <1>1, <1>2
<1>4. \A t \in Nat : t = (t \div DayLength) * DayLength + (t % DayLength)
  BY <1>1
<1>5. \A t \in Minutes : t \in Nat
  BY TheDay DEF Minutes
<1>6. Candidate(slot, now) = DayOf(now) * DayLength + slot.minute
  BY DEF Candidate
<1>7. ASSUME NEW t \in Minutes, t % DayLength = slot.minute, DayOf(t) = DayOf(now)
      PROVE  Candidate(slot, now) = t
  BY <1>4, <1>5, <1>6, <1>7 DEF DayOf
<1> QED
  BY <1>1, <1>3, <1>6, <1>7

LEMMA DaysGoOn ==
  ASSUME NEW s \in Minutes, NEW t \in Minutes, s <= t
  PROVE  DayOf(s) <= DayOf(t) /\ DayOf(s) \in Int /\ DayOf(t) \in Int
  BY TheDay DEF DayOf, Minutes

-----------------------------------------------------------------------------
(* What a tick may rely on stays true                                       *)

(* Runs are not taken back, and what was passed over stays passed over.     *)
BooksGrow == keys \subseteq keys' /\ lapsed \subseteq lapsed' /\ began <= began'

LEMMA BookedStays ==
  ASSUME ClockTypes, ClockTypes', BooksGrow, NEW n, Booked(n)
  PROVE  Booked(n)'
<1>1. \A t \in Minutes : t \in Int
  BY TheDay DEF Minutes
<1>2. began \in Int /\ began' \in Int
  BY <1>1, TheDay DEF ClockTypes
<1> QED
  BY <1>1, <1>2 DEF Booked, BooksGrow

LEMMA TickOf ==
  ASSUME TickInv, NEW r \in Replicas
  PROVE  /\ sched[r] \in TickType /\ sched[r].now <= clock /\ sched[r].last <= clock
         /\ clock \in Nat /\ clock \in Minutes
         /\ sched[r].now \in Nat /\ sched[r].last \in Int
  BY TheDay DEF TickInv, TickTypes, ClockTypes, TickType, Minutes

(* One replica's tick moves on, and it has read and done what its place     *)
(* says.                                                                    *)
LEMMA OneTick ==
  ASSUME TickInv, NEW r \in Replicas, NEW q \in TickType, sched' = [sched EXCEPT ![r] = q],
         q.now <= clock, q.last <= clock, UNCHANGED clock,
         ClockTypes', mark' <= clock, KeysAreDue', BooksGrow, Booked(mark)',
         q.at \in {"survey", "create"} /\ ~q.first => Booked(q.last),
         q.at = "create" => \A i \in (1..Len(Schedule)) \ q.left :
           Schedule[i] \in q.barred \/ (DueSlot(Schedule[i], q.last, q.now)
                                          => SlotKey(Schedule[i], Candidate(Schedule[i], q.now)) \in keys')
  PROVE  TickInv'
<1>1. ClockTypes /\ TickTypes /\ LooksBack /\ Created
  BY DEF TickInv
<1>2. sched'[r] = q /\ \A s \in Replicas \ {r} : sched'[s] = sched[s]
  BY <1>1 DEF TickTypes
<1>3. TickTypes'
  BY <1>1 DEF TickTypes
<1>4. LooksBack'
  <2>1. ASSUME NEW s \in Replicas, sched'[s].at \in {"survey", "create"}, ~sched'[s].first,
               NEW n, n = sched'[s].last
        PROVE  Booked(n)'
    <3>1. Booked(n)
      BY <1>1, <1>2, <2>1 DEF LooksBack
    <3> QED
      BY <1>1, <3>1, BookedStays
  <2> QED
    BY <2>1 DEF LooksBack, Booked
<1>5. Created'
  <2> SUFFICES ASSUME NEW s \in Replicas, sched'[s].at = "create",
                      NEW i \in (1..Len(Schedule)) \ sched'[s].left,
                      Schedule[i] \notin sched'[s].barred,
                      DueSlot(Schedule[i], sched'[s].last, sched'[s].now)
               PROVE  SlotKey(Schedule[i], Candidate(Schedule[i], sched'[s].now)) \in keys'
    BY DEF Created, DueSlot, Candidate, OnDay, DayOf, SlotKey
  <2>1. CASE s = r
    BY <1>2, <2>1
  <2>2. CASE s # r
    <3>1. sched'[s] = sched[s]
      BY <1>2, <2>2
    <3>2. SlotKey(Schedule[i], Candidate(Schedule[i], sched[s].now)) \in keys
      BY <1>1, <3>1 DEF Created
    <3> QED
      BY <3>1, <3>2 DEF BooksGrow
  <2> QED
    BY <2>1, <2>2
<1> QED
  BY <1>3, <1>4, <1>5 DEF TickInv

(* The clock and the operators leave the ticks alone.                       *)
LEMMA NoTick ==
  ASSUME TickInv, ClockTypes', clock' >= clock, UNCHANGED <<mark, keys, sched, began, lapsed>>
  PROVE  TickInv'
<1>1. clock \in Nat /\ clock' \in Nat /\ mark \in Int /\ ClockTypes
  BY TheDay DEF TickInv, ClockTypes, Minutes
<1>2. TickTypes'
  <2>1. \A r \in Replicas : sched[r].now \in Int /\ sched[r].last \in Int
    BY TickOf
  <2> QED
    BY <1>1, <2>1 DEF TickInv, TickTypes
<1>3. KeysAreDue'
  <2>1. 0..clock \subseteq 0..clock'
    BY <1>1
  <2> QED
    BY <2>1 DEF TickInv, KeysAreDue, SlotKey
<1>4. Booked(mark)' /\ LooksBack' /\ Created'
  BY DEF TickInv, Booked, LooksBack, Created
<1> QED
  BY <1>2, <1>3, <1>4 DEF TickInv

-----------------------------------------------------------------------------
(* The steps                                                                *)

LEMMA Rests == Resting \in TickType /\ Resting.at = "idle"
  BY TheDay DEF Resting, TickType, Places, Minutes

LEMMA ProceedsTo ==
  ASSUME TickInv, NEW r \in Replicas, NEW to \in Places, Proceeds(r, to)
  PROVE  \E q \in TickType : sched' = [sched EXCEPT ![r] = q] /\ q.now <= clock /\ q.last <= clock /\ q.at = to
<1>1. sched[r].now \in Minutes /\ sched[r].now <= clock /\ clock \in Nat /\ 0 \in Minutes
  BY TickOf, TheDay DEF TickType, Minutes
<1>2. Resting \in TickType /\ Resting.now <= clock /\ Resting.last <= clock /\ Resting.at = "idle"
  BY <1>1 DEF Resting, TickType, Places
<1>3. CASE to = "idle"
  <2>1. sched' = [sched EXCEPT ![r] = Resting]
    BY <1>3 DEF Proceeds
  <2> QED
    BY <1>2, <1>3, <2>1
<1>4. CASE to # "idle"
  <2>1. PICK rest : rest = Resting
    OBVIOUS
  <2>2. PICK q : q = [rest EXCEPT !.at = to, !.now = sched[r].now]
    OBVIOUS
  <2>3. q \in TickType /\ q.now = sched[r].now /\ q.last = rest.last /\ q.at = to
    BY <1>1, <1>2, <2>1, <2>2 DEF TickType
  <2>4. sched' = [sched EXCEPT ![r] = q]
    BY <1>4, <2>1, <2>2 DEF Proceeds
  <2> QED
    BY <1>1, <1>2, <2>1, <2>3, <2>4
<1> QED
  BY <1>3, <1>4

(* Steps that write none of the books.                                      *)
LEMMA QuietTick ==
  ASSUME TickInv, NEW r \in Replicas,
         UNCHANGED <<clock, mark, began, halted, off, keys, lapsed>>,
         lastSync' \in Minutes \cup {Never, -1}, syncs' \in [Replicas -> Minutes \cup {Never}],
         \E q \in TickType : /\ sched' = [sched EXCEPT ![r] = q] /\ q.now <= clock /\ q.last <= clock
                             /\ q.at \in {"survey", "create"} /\ ~q.first => Booked(q.last)
                             /\ q.at = "create" => \A i \in (1..Len(Schedule)) \ q.left : Schedule[i] \in q.barred
  PROVE  TickInv'
<1>1. PICK q \in TickType : /\ sched' = [sched EXCEPT ![r] = q] /\ q.now <= clock /\ q.last <= clock
                            /\ q.at \in {"survey", "create"} /\ ~q.first => Booked(q.last)
                            /\ q.at = "create" => \A i \in (1..Len(Schedule)) \ q.left : Schedule[i] \in q.barred
  OBVIOUS
<1>2. ClockTypes' /\ KeysAreDue'
  BY DEF TickInv, ClockTypes, KeysAreDue, SlotKey
<1>3. BooksGrow
  <2>1. began \in Int
    BY TheDay DEF TickInv, ClockTypes, Minutes
  <2> QED
    BY <2>1 DEF BooksGrow
<1>4. Booked(mark)' /\ mark' <= clock
  BY DEF TickInv, Booked, TickTypes
<1> QED
  BY <1>1, <1>2, <1>3, <1>4, OneTick

LEMMA QuietSteps ==
  ASSUME TickInv, NEW r \in Replicas,
         SweepExpired(r) \/ SyncDue(r) \/ Stamp(r) \/ Polled(r) \/ Dies(r) \/ Tick(r)
  PROVE  TickInv'
<1>1. sched[r].now \in Minutes /\ sched[r].now <= clock /\ clock \in Minutes /\ clock \in Nat /\ 0 \in Minutes
  BY TickOf, TheDay DEF TickType, Minutes
<1>2. lastSync \in Minutes \cup {Never, -1} /\ syncs \in [Replicas -> Minutes \cup {Never}]
  BY DEF TickInv, ClockTypes
<1>3. UNCHANGED <<clock, mark, began, halted, off, keys, lapsed>>
  BY DEF SweepExpired, SyncDue, Stamp, Polled, Dies, Tick, settingVars
<1>4. lastSync' \in Minutes \cup {Never, -1} /\ syncs' \in [Replicas -> Minutes \cup {Never}]
  BY <1>1, <1>2 DEF SweepExpired, SyncDue, Stamp, Polled, Dies, Tick, settingVars
<1>5. CASE SweepExpired(r) \/ SyncDue(r) \/ Stamp(r) \/ Polled(r)
  <2>1. PICK to \in {"idle", "sync", "stamp", "poll"} : Proceeds(r, to)
    BY <1>5 DEF SweepExpired, SyncDue, Stamp, Polled
  <2>2. to \in Places
    BY DEF Places
  <2> QED
    BY <1>3, <1>4, <2>1, <2>2, ProceedsTo, QuietTick
<1>6. CASE Dies(r) \/ Tick(r)
  <2>1. PICK q : q = sched'[r]
    OBVIOUS
  <2>2. q \in TickType /\ q.now <= clock /\ q.last <= clock /\ q.at \notin {"survey", "create"}
    <3>1. PICK at \in {"idle", "sweepOnly", "recall"}, now \in {0, clock} :
            q = [at |-> at, now |-> now, last |-> 0, first |-> FALSE, left |-> {}, barred |-> {}]
      BY <1>6, <2>1 DEF Dies, Tick, Resting, TickInv, TickTypes
    <3> QED
      BY <1>1, <3>1 DEF TickType, Places
  <2>3. sched' = [sched EXCEPT ![r] = q]
    BY <1>6, <2>1 DEF Dies, Tick, TickInv, TickTypes
  <2> QED
    BY <1>3, <1>4, <2>2, <2>3, QuietTick
<1> QED
  BY <1>5, <1>6

(* A tick reads the watermark: what lies before it is booked.               *)
LEMMA RecallKeeps ==
  ASSUME TickInv, NEW r \in Replicas, Recall(r)
  PROVE  TickInv'
<1>1. /\ sched[r] \in TickType /\ sched[r].now <= clock /\ clock \in Nat /\ clock \in Minutes
      /\ sched[r].now \in Nat /\ sched[r].now \in Minutes
  BY TickOf DEF TickType
<1>2. mark \in Minutes \cup {Never, -1} /\ mark <= clock /\ Booked(mark)
  BY DEF TickInv, ClockTypes, TickTypes
<1>3. PICK last, first : /\ last = IF mark = Never THEN sched[r].now - 1 ELSE mark
                         /\ first = (mark = Never)
  OBVIOUS
<1>4. last \in Minutes \cup {-1} /\ last <= clock /\ first \in BOOLEAN
  BY <1>1, <1>2, <1>3, TheDay DEF Minutes
<1>5. PICK q : q = [sched[r] EXCEPT !.at = "survey", !.last = last, !.first = first]
  OBVIOUS
<1>6. sched' = [sched EXCEPT ![r] = q]
  BY <1>3, <1>5 DEF Recall
<1>7. q \in TickType /\ q.at = "survey" /\ q.last = last /\ q.first = first /\ q.now = sched[r].now
  BY <1>1, <1>4, <1>5 DEF TickType, Places
<1>8. ~first => Booked(last)
  BY <1>2, <1>3
<1>9. lastSync' \in Minutes \cup {Never, -1} /\ syncs' \in [Replicas -> Minutes \cup {Never}]
  BY DEF Recall, settingVars, TickInv, ClockTypes
<1>10. UNCHANGED <<clock, mark, began, halted, off, keys, lapsed>>
  BY DEF Recall, settingVars
<1> QED
  BY <1>1, <1>4, <1>6, <1>7, <1>8, <1>9, <1>10, QuietTick

(* ... and the schedules there are.                                         *)
LEMMA SurveyKeeps ==
  ASSUME TickInv, NEW r \in Replicas, Survey(r)
  PROVE  TickInv'
<1>1. sched[r] \in TickType /\ sched[r].now <= clock /\ sched[r].last <= clock
  BY TickOf
<1>2. sched[r].at = "survey" /\ (~sched[r].first => Booked(sched[r].last))
  BY DEF Survey, TickInv, LooksBack
<1>3. PICK q : q = [sched[r] EXCEPT !.at = "create", !.left = EffectiveSchedules,
                                    !.barred = {slot \in DailySlots : slot.ext \in off}]
  OBVIOUS
<1>4. sched' = [sched EXCEPT ![r] = q]
  BY <1>3 DEF Survey
<1>5. q \in TickType /\ q.last = sched[r].last /\ q.first = sched[r].first /\ q.now = sched[r].now
  BY <1>1, <1>3 DEF TickType, Places, EffectiveSchedules
<1>6. \A i \in (1..Len(Schedule)) \ q.left : Schedule[i] \in q.barred
  <2>1. q.left = EffectiveSchedules /\ q.barred = {slot \in DailySlots : slot.ext \in off}
    BY <1>1, <1>3 DEF TickType
  <2> QED
    BY <2>1, TheDay DEF EffectiveSchedules
<1>7. lastSync' \in Minutes \cup {Never, -1} /\ syncs' \in [Replicas -> Minutes \cup {Never}]
  BY DEF Survey, settingVars, TickInv, ClockTypes
<1>8. UNCHANGED <<clock, mark, began, halted, off, keys, lapsed>>
  BY DEF Survey, settingVars
<1> QED
  BY <1>1, <1>2, <1>4, <1>5, <1>6, <1>7, <1>8, QuietTick

(* The run of a schedule that is due is there before the loop goes on; one  *)
(* that is refused ends the loop, and nothing is said of the rest.          *)
LEMMA CreateKeeps ==
  ASSUME TickInv, NEW r \in Replicas, CreateDueRun(r)
  PROVE  TickInv'
<1>1. /\ sched[r] \in TickType /\ sched[r].now <= clock /\ sched[r].last <= clock /\ clock \in Nat
      /\ sched[r].now \in Minutes /\ sched[r].now \in Nat
  BY TickOf DEF TickType
<1>2. PICK i \in sched[r].left, slot \in DailySlots :
        LET due == DueSlot(slot, sched[r].last, sched[r].now) IN
        /\ slot = Schedule[i] /\ sched[r].at = "create"
        /\ sched' = [sched EXCEPT ![r] = IF due /\ Refused(slot)
                                         THEN [Resting EXCEPT !.at = "sweep", !.now = sched[r].now]
                                         ELSE [sched[r] EXCEPT !.left = @ \ {i}]]
        /\ keys' = IF due /\ ~Refused(slot) THEN keys \cup {SlotKey(slot, Candidate(slot, sched[r].now))} ELSE keys
  BY <1>1, TheDay DEF CreateDueRun, NextUp, TickType
<1>3. UNCHANGED <<clock, mark, lastSync, began, halted, off, lapsed, syncs>>
  BY DEF CreateDueRun, settingVars
<1>4. ClockTypes' /\ Booked(mark)' /\ mark' <= clock /\ BooksGrow
  <2>1. began \in Int
    BY TheDay DEF TickInv, ClockTypes, Minutes
  <2> QED
    BY <1>2, <1>3, <2>1 DEF TickInv, ClockTypes, TickTypes, Booked, BooksGrow
<1>5. KeysAreDue'
  <2>1. DueSlot(slot, sched[r].last, sched[r].now) => Candidate(slot, sched[r].now) \in 0..clock
    BY <1>1, Days DEF DueSlot
  <2> QED
    BY <1>2, <1>3, <2>1 DEF TickInv, KeysAreDue, SlotKey
<1>6. CASE DueSlot(slot, sched[r].last, sched[r].now) /\ Refused(slot)
  <2>1. Proceeds(r, "sweep")
    BY <1>2, <1>6 DEF Proceeds
  <2>2. PICK q \in TickType : sched' = [sched EXCEPT ![r] = q] /\ q.now <= clock /\ q.last <= clock /\ q.at = "sweep"
    BY <2>1, ProceedsTo DEF Places
  <2> QED
    BY <1>3, <1>4, <1>5, <2>2, OneTick
<1>7. CASE ~(DueSlot(slot, sched[r].last, sched[r].now) /\ Refused(slot))
  <2>1. PICK q : q = [sched[r] EXCEPT !.left = @ \ {i}]
    OBVIOUS
  <2>2. sched' = [sched EXCEPT ![r] = q]
    BY <1>2, <1>7, <2>1
  <2>3. /\ q \in TickType /\ q.last = sched[r].last /\ q.first = sched[r].first /\ q.now = sched[r].now
        /\ q.left = sched[r].left \ {i} /\ q.barred = sched[r].barred
    BY <1>1, <2>1 DEF TickType
  <2>4. ~q.first => Booked(q.last)
    BY <1>2, <2>3 DEF TickInv, LooksBack
  <2>5. ASSUME NEW j \in (1..Len(Schedule)) \ q.left, Schedule[j] \notin q.barred,
               DueSlot(Schedule[j], q.last, q.now)
        PROVE  SlotKey(Schedule[j], Candidate(Schedule[j], q.now)) \in keys'
    <3>1. CASE j = i
      BY <1>2, <1>7, <2>3, <2>5, <3>1
    <3>2. CASE j # i
      BY <1>2, <2>3, <2>5, <3>2 DEF TickInv, Created
    <3> QED
      BY <3>1, <3>2
  <2> QED
    BY <1>1, <1>3, <1>4, <1>5, <2>2, <2>3, <2>4, <2>5, OneTick
<1> QED
  BY <1>6, <1>7

(* The tick moves the watermark: a slot it passed has its run, or was       *)
(* barred, or belonged to a day that is over.                               *)
LEMMA WriteMarkKeeps ==
  ASSUME TickInv, NEW r \in Replicas, WriteMark(r)
  PROVE  TickInv'
<1>1. /\ sched[r] \in TickType /\ sched[r].now <= clock /\ sched[r].last <= clock /\ clock \in Nat
      /\ sched[r].now \in Minutes /\ sched[r].now \in Nat /\ sched[r].last \in Int
      /\ sched[r].last \in Minutes \cup {-1}
  BY TickOf DEF TickType
<1>2. /\ sched[r].at = "create" /\ sched[r].left = {} /\ mark' = sched[r].now /\ Proceeds(r, "sweep")
      /\ began' = IF sched[r].first /\ sched[r].last > began THEN sched[r].last ELSE began
      /\ lapsed' = lapsed \cup PassedBy(sched[r])
      /\ UNCHANGED <<clock, lastSync, polling, halted, off, keys, crashes, switches, syncs>>
  BY DEF WriteMark
<1>3. began \in Int /\ \A t \in Minutes : t \in Nat
  BY TheDay DEF TickInv, ClockTypes, Minutes
<1>4. ClockTypes' /\ KeysAreDue' /\ BooksGrow /\ mark' <= clock
  BY <1>1, <1>2, <1>3 DEF TickInv, ClockTypes, KeysAreDue, BooksGrow, SlotKey
<1>5. Booked(mark)'
  <2> SUFFICES ASSUME NEW slot \in DailySlots, NEW t \in Minutes,
                      t % DayLength = slot.minute, OnDay(slot, t), began' < t, t <= sched[r].now,
                      <<slot, t>> \notin lapsed'
               PROVE  SlotKey(slot, t) \in keys
    BY <1>2 DEF Booked, SlotKey, OnDay, DayOf
  <2>1. t \in Nat /\ began < t /\ <<slot, t>> \notin lapsed /\ <<slot, t>> \notin PassedBy(sched[r])
    BY <1>1, <1>2, <1>3
  <2>2. CASE t <= sched[r].last
    <3>1. ~sched[r].first
      BY <1>1, <1>2, <1>3, <2>1, <2>2
    <3>2. Booked(sched[r].last)
      BY <1>2, <3>1 DEF TickInv, LooksBack
    <3> QED
      BY <2>1, <2>2, <3>2 DEF Booked
  <2>3. CASE sched[r].last < t
    <3>1. slot \notin sched[r].barred /\ ~(DayOf(t) < DayOf(sched[r].now))
      BY <2>1, <2>3 DEF PassedBy
    <3>2. DayOf(t) = DayOf(sched[r].now)
      <4>1. DayOf(t) <= DayOf(sched[r].now) /\ DayOf(t) \in Int /\ DayOf(sched[r].now) \in Int
        BY <1>1, DaysGoOn
      <4> QED
        BY <3>1, <4>1
    <3>3. Candidate(slot, sched[r].now) = t
      BY <1>1, <3>2, Days
    <3>4. DueSlot(slot, sched[r].last, sched[r].now)
      BY <2>3, <3>3 DEF DueSlot
    <3>5. PICK i \in 1..Len(Schedule) : slot = Schedule[i]
      BY DEF DailySlots
    <3>6. SlotKey(slot, Candidate(slot, sched[r].now)) \in keys
      BY <1>2, <3>1, <3>4, <3>5 DEF TickInv, Created
    <3> QED
      BY <3>3, <3>6
  <2> QED
    BY <1>1, <2>1, <2>2, <2>3
<1>6. PICK q \in TickType : sched' = [sched EXCEPT ![r] = q] /\ q.now <= clock /\ q.last <= clock /\ q.at = "sweep"
  BY <1>2, ProceedsTo DEF Places
<1> QED
  BY <1>2, <1>4, <1>5, <1>6, OneTick

LEMMA ClockKeeps ==
  ASSUME TickInv, MinutePasses \/ OperatorSwitches
  PROVE  TickInv'
<1>1. clock \in Nat /\ Horizon \in Nat /\ clock \in Minutes /\ ClockTypes
  BY TheDay DEF TickInv, ClockTypes, Minutes
<1>2. ClockTypes' /\ clock' >= clock
  <2>1. CASE MinutePasses
    BY <1>1, <2>1 DEF MinutePasses, settingVars, ClockTypes, Minutes
  <2>2. CASE OperatorSwitches
    <3>1. UNCHANGED <<clock, mark, lastSync, began, syncs>>
      BY <2>2 DEF OperatorSwitches
    <3>2. halted' \in BOOLEAN
      BY <1>1, <2>2, Zenon DEF OperatorSwitches, ClockTypes
    <3>3. off' \subseteq {slot.ext : slot \in DailySlots}
      <4>1. off' = off \/ \E slot \in DailySlots : off' = off \ {slot.ext} \/ off' = off \cup {slot.ext}
        BY <2>2 DEF OperatorSwitches
      <4> QED
        BY <1>1, <4>1 DEF ClockTypes
    <3> QED
      BY <1>1, <3>1, <3>2, <3>3 DEF ClockTypes
  <2> QED
    BY <2>1, <2>2
<1>3. UNCHANGED <<mark, keys, sched, began, lapsed>>
  BY DEF MinutePasses, OperatorSwitches, settingVars
<1> QED
  BY <1>2, <1>3, NoTick

LEMMA SchedulerStart == SchedulerInit => TickInv
<1> SUFFICES ASSUME SchedulerInit PROVE TickInv
  OBVIOUS
<1>1. 0 \in Minutes /\ \A t \in Minutes : t \in Nat
  BY TheDay DEF Minutes
<1>2. ClockTypes /\ KeysAreDue
  BY <1>1, TheDay DEF SchedulerInit, ClockTypes, KeysAreDue
<1>3. TickTypes
  <2>1. Resting \in TickType /\ Resting.now = 0 /\ Resting.last = 0
    BY <1>1 DEF Resting, TickType, Places
  <2> QED
    BY <2>1, TheDay DEF SchedulerInit, TickTypes
<1>4. Booked(mark) /\ LooksBack /\ Created
  BY <1>1, TheDay DEF SchedulerInit, Booked, LooksBack, Created, Resting
<1> QED
  BY <1>2, <1>3, <1>4 DEF TickInv

LEMMA TickInvKept == TickInv /\ [SchedulerNext]_schedulerVars => TickInv'
<1>1. ASSUME TickInv, NEW r \in Replicas, TickStep(r) \/ Dies(r) PROVE TickInv'
  BY <1>1, QuietSteps, RecallKeeps, SurveyKeeps, CreateKeeps, WriteMarkKeeps DEF TickStep
<1>2. ASSUME TickInv, UNCHANGED schedulerVars PROVE TickInv'
  <2>1. UNCHANGED <<clock, mark, keys, sched, began, lapsed, lastSync, halted, off, syncs>>
    BY <1>2 DEF schedulerVars, settingVars
  <2>2. ClockTypes' /\ clock \in Nat
    BY <1>2, <2>1, TheDay DEF TickInv, ClockTypes, Minutes
  <2> QED
    BY <1>2, <2>1, <2>2, NoTick
<1> QED
  BY <1>1, <1>2, ClockKeeps DEF SchedulerNext

(* The watermark never moves past a slot that has no run, however many      *)
(* replicas race, wherever they die, and whatever operators switch: only    *)
(* slots of a disabled extension, or of a day that had ended, are passed.   *)
THEOREM WatermarkIsHonest == SchedulerSpec => []SchedulerInv
<1>1. TickInv => SchedulerInv
  <2> SUFFICES ASSUME TickInv PROVE SchedulerInv
    OBVIOUS
  <2>1. MarkedMeansBooked
    BY DEF TickInv, Booked, MarkedMeansBooked
  <2>2. \A r \in Replicas : sched[r].at \in Places
    BY DEF TickInv, TickTypes, TickType
  <2>3. SchedulerTypeOK
    BY <2>2 DEF TickInv, ClockTypes, TickTypes, KeysAreDue, SchedulerTypeOK, Places
  <2> QED
    BY <2>1, <2>3 DEF SchedulerInv
<1> QED
  BY <1>1, SchedulerStart, TickInvKept, PTL DEF SchedulerSpec

-----------------------------------------------------------------------------
(* The polls                                                                *)

(* As long as nobody else has polled, the stamp is this replica's, and one  *)
(* that is about to poll again has seen that it is old enough.              *)
PollsKnow == \A r \in Replicas : (\A q \in Replicas \ {r} : syncs[q] = Never) =>
  /\ lastSync = syncs[r]
  /\ sched[r].at = "stamp" => sched[r].now - lastSync >= SyncInterval

LEMMA PollsKnowKept == TickInv /\ PollsKnow /\ [SchedulerNext]_schedulerVars => PollsKnow'
<1>1. ASSUME TickInv, PollsKnow, UNCHANGED <<syncs, lastSync>>,
             \A r \in Replicas : sched'[r].at = "stamp" =>
               \/ sched'[r] = sched[r]
               \/ sched'[r].now - lastSync >= SyncInterval
      PROVE  PollsKnow'
  BY <1>1 DEF PollsKnow
<1>2. ASSUME TickInv, PollsKnow, NEW r \in Replicas, TickStep(r) \/ Dies(r), ~Stamp(r) PROVE PollsKnow'
  <2>1. UNCHANGED <<syncs, lastSync>>
    BY <1>2 DEF TickStep, Tick, Recall, Survey, CreateDueRun, WriteMark, SweepExpired, SyncDue, Polled, Dies, settingVars
  <2>2. \A s \in Replicas \ {r} : sched'[s] = sched[s]
    BY <1>2 DEF TickStep, Tick, Recall, Survey, CreateDueRun, WriteMark, SweepExpired, SyncDue, Polled, Dies, Proceeds,
       TickInv, TickTypes
  <2>3. CASE SyncDue(r)
    <3>1. SyncInterval \in Nat /\ sched[r].now \in Int /\ lastSync \in Int
      BY <1>2, TickOf, TheDay DEF TickInv, ClockTypes, Minutes
    <3>2. sched'[r].at = "stamp" => sched'[r].now = sched[r].now /\ ~(sched[r].now - lastSync < SyncInterval)
      BY <1>2, <2>3 DEF SyncDue, Proceeds, Resting, TickInv, TickTypes, TickType
    <3> QED
      BY <1>1, <1>2, <2>1, <2>2, <3>1, <3>2
  <2>4. CASE ~SyncDue(r)
    <3>1. sched'[r].at # "stamp"
      <4>0. sched[r] \in TickType /\ sched \in [Replicas -> TickType]
        BY <1>2 DEF TickInv, TickTypes
      <4>1. CASE Tick(r) \/ Dies(r)
        BY <4>0, <4>1, Rests DEF Tick, Dies, TickType
      <4>2. CASE WriteMark(r) \/ SweepExpired(r) \/ Polled(r)
        <5>1. PICK to \in {"idle", "sync", "sweep"} : Proceeds(r, to)
          BY <4>2 DEF WriteMark, SweepExpired, Polled
        <5>2. \E q \in TickType : sched' = [sched EXCEPT ![r] = q] /\ q.at = to
          BY <1>2, <5>1, ProceedsTo DEF Places
        <5> QED
          BY <4>0, <5>2
      <4>3. CASE Recall(r) \/ Survey(r)
        BY <4>0, <4>3 DEF Recall, Survey, TickType
      <4>4. CASE CreateDueRun(r)
        BY <4>0, <4>4 DEF CreateDueRun, Resting, TickType
      <4> QED
        BY <1>2, <2>4, <4>1, <4>2, <4>3, <4>4 DEF TickStep
    <3> QED
      BY <1>1, <1>2, <2>1, <2>2, <3>1
  <2> QED
    BY <2>3, <2>4
<1>3. ASSUME TickInv, PollsKnow, NEW r \in Replicas, Stamp(r) PROVE PollsKnow'
  <2>1. syncs'[r] = sched[r].now /\ lastSync' = sched[r].now /\ sched[r].now # Never /\ sched'[r].at = "poll"
    BY <1>3, TickOf, TheDay DEF Stamp, Proceeds, Resting, TickInv, TickTypes, TickType, ClockTypes
  <2> QED
    BY <2>1 DEF PollsKnow
<1>4. ASSUME TickInv, PollsKnow, MinutePasses \/ OperatorSwitches \/ UNCHANGED schedulerVars PROVE PollsKnow'
  <2>1. UNCHANGED <<syncs, lastSync, sched>>
    BY <1>4 DEF MinutePasses, OperatorSwitches, schedulerVars, settingVars
  <2> QED
    BY <1>1, <1>4, <2>1
<1> QED
  BY <1>2, <1>3, <1>4 DEF SchedulerNext

(* A scheduler that dies in every poll keeps the interval all the same, as  *)
(* long as it is the only one: the stamp is written before the work.        *)
Spaced == \A r \in Replicas :
  syncs'[r] # syncs[r] /\ (\A q \in Replicas \ {r} : syncs[q] = Never) => syncs'[r] - syncs[r] >= SyncInterval

(* The interval holds over whole behaviours of the scheduler.               *)
THEOREM PollsKeepTheirInterval == SchedulerSpec => PollsAreSpaced
<1>1. SchedulerInit => PollsKnow
  BY DEF SchedulerInit, PollsKnow, Resting
<1>2. ASSUME TickInv, PollsKnow, [SchedulerNext]_schedulerVars PROVE [Spaced]_schedulerVars
  <2> SUFFICES ASSUME SchedulerNext, NEW r \in Replicas, syncs'[r] # syncs[r],
                      \A q \in Replicas \ {r} : syncs[q] = Never
               PROVE  syncs'[r] - syncs[r] >= SyncInterval
    BY <1>2 DEF Spaced
  <2>1. PICK s \in Replicas : Stamp(s)
    BY DEF SchedulerNext, TickStep, Tick, Recall, Survey, CreateDueRun, WriteMark, SweepExpired, SyncDue, Polled, Dies,
       MinutePasses, OperatorSwitches, settingVars
  <2>2. s = r /\ syncs'[r] = sched[r].now /\ sched[r].at = "stamp"
    BY <1>2, <2>1 DEF Stamp, TickInv, ClockTypes
  <2> QED
    BY <1>2, <2>2 DEF PollsKnow
<1> QED
  BY <1>1, <1>2, SchedulerStart, TickInvKept, PollsKnowKept, PTL DEF SchedulerSpec, PollsAreSpaced, Spaced

-----------------------------------------------------------------------------
(***************************************************************************)
(* The removal half of the processor (Catalogue.tla), for any chapters,    *)
(* extensions, runs, processors and number of confirmations.               *)
(***************************************************************************)
PassNames == {"no-longer-listed", "paywalled", "manga-untracked", "manga-without-external-chapters", None}

CuratorType ==
  [at : {"idle", "look", "sort", "forget", "vote", "queue", "record", "mark"},
   pass : PassNames,
   slot : Slots \cup {None}, run : HeldRuns \cup {None},
   seen : SUBSET Chapters, carded : SUBSET Chapters, foreign : SUBSET Chapters, todo : SUBSET Chapters,
   half : Chapters \cup {None}]

(* A run names chapters of its own extension.                               *)
Named(run) == \A c \in run.names : ExtOf[c] = run.ext

(* What a pass may decide on: chapters of its own extension, and such as    *)
(* are queued already.                                                      *)
Decides(q) == \A c \in Ours : c \in q.seen \ q.foreign => ExtOf[c] = q.run.ext \/ task[c] # "none"

(* What a processor holds at each of its awaits.                            *)
Curates(q) ==
  /\ q \in CuratorType
  /\ q.at \notin {"idle", "mark"} => q.run \in HeldRuns /\ Named(q.run)
  /\ q.todo \subseteq q.seen /\ q.half \in q.todo \cup {None}
  /\ q.todo # {} => q.at \in {"queue", "record"}
  /\ q.at = "record" => q.todo \subseteq q.run.names
  /\ q.at \in {"forget", "vote", "queue"} => Decides(q)
  /\ q.at = "queue" => q.todo \cap q.foreign = {}
  /\ q.half # None => q.at = "queue" /\ task[q.half] # "none"

Curators == proc \in [Procs -> CuratorType] /\ \A p \in Procs : Curates(proc[p])

(* An unbroken streak is as long as the tally says, at least.               *)
Streaks ==
  /\ misses \in [Chapters -> 0..Confirmations] /\ open \in [Chapters -> BOOLEAN]
  /\ days \in [Chapters -> 0..Confirmations]
  /\ \A c \in Chapters : misses[c] <= days[c]

LifeTypes ==
  /\ shelf \in [Chapters -> {"listed", "expired", "dropped"}]
  /\ md \in [Chapters -> {"live", "carded", "gone"}]
  /\ task \in [Chapters -> {"none", "pending", "done"}]
  /\ tracked \in [Exts -> {"active", "paused", "none"}]
  /\ upsets \in 0..MaxUpsets

RunsKnown == runs \in [Slots -> Runs \cup {None}] /\ \A s \in Slots : runs[s] # None => Named(runs[s])

(* The books name the publisher of a chapter, if anybody.                   *)
Books == row \in [Chapters -> Exts \cup {None}] /\ (\A c \in Chapters : row[c] \in {None, ExtOf[c]}) /\ InTheBooks

CuratedInv == Streaks /\ LifeTypes /\ RunsKnown /\ Books /\ Curators

LEMMA CatalogueFacts ==
  /\ Confirmations \in Nat \ {0} /\ ExtOf \in [Chapters -> Exts] /\ Ours \subseteq Chapters
  /\ None \notin Exts \cup Chapters /\ MaxUpsets \in Nat
BY TallyAssumption, CatalogueAssumption

(* What is queued stays queued or done.                                     *)
Later == \A c \in Chapters : task[c] # "none" => task'[c] # "none"

LEMMA CuratesStill == ASSUME NEW q, Curates(q), Later PROVE Curates(q)'
BY CatalogueFacts DEF Curates, Later, Decides, CuratorType

LEMMA CuratorsStay == ASSUME Curators, Later, proc' = proc PROVE Curators'
BY CuratesStill DEF Curators

LEMMA CuratorMoves ==
  ASSUME Curators, Later, NEW p \in Procs, NEW n, Curates(n)', proc' = [proc EXCEPT ![p] = n]
  PROVE  Curators'
<1>1. n \in CuratorType
  BY DEF Curates
<1>2. proc' \in [Procs -> CuratorType] /\ proc'[p] = n /\ \A r \in Procs \ {p} : proc'[r] = proc[r]
  BY <1>1 DEF Curators
<1>3. ASSUME NEW r \in Procs PROVE Curates(proc[r])'
  <2>1. CASE r = p
    BY <2>1, <1>2
  <2>2. CASE r # p
    <3>1. PICK q : q = proc[r]
      OBVIOUS
    <3>2. Curates(q)'
      BY <3>1, CuratesStill DEF Curators
    <3> QED BY <2>2, <3>1, <3>2, <1>2
  <2> QED BY <2>1, <2>2
<1> QED BY <1>2, <1>3 DEF Curators

LEMMA CuratorIs == ASSUME Curators, NEW p \in Procs PROVE \E q \in CuratorType : q = proc[p] /\ Curates(q)
BY DEF Curators

LEMMA IdleIs ==
  /\ Idle \in CuratorType /\ Idle.at = "idle" /\ Idle.todo = {} /\ Idle.half = None /\ Idle.seen = {}
  /\ Idle.foreign = {} /\ Idle.run = None /\ Idle.slot = None
BY DEF Idle, CuratorType, PassNames

(* What a pass leaves behind when it ends: nothing in hand.                 *)
Passes(q, n) ==
  /\ n \in CuratorType /\ n.half = None
  /\ n.at \in {"look", "sort", "forget", "vote", "record", "mark"}
  /\ n.at # "mark" => n.run = q.run /\ n.seen = q.seen /\ n.foreign = q.foreign
  /\ IF n.at = "record" THEN n.todo \subseteq Matched(q) ELSE n.todo = {}

LEMMA StagePasses ==
  ASSUME NEW q \in CuratorType, NEW at \in {"look", "sort", "forget", "vote"},
         NEW pass \in PassNames
  PROVE  Passes(q, Stage(q, at, pass)) /\ Stage(q, at, pass).at = at
<1>1. PICK n : n = [q EXCEPT !.at = at, !.pass = pass, !.todo = {}, !.half = None]
  OBVIOUS
<1>2. /\ n \in CuratorType /\ n.half = None /\ n.at = at
      /\ n.run = q.run /\ n.seen = q.seen /\ n.foreign = q.foreign /\ n.todo = {}
  BY <1>1 DEF CuratorType
<1> QED BY <1>1, <1>2 DEF Stage, Passes

LEMMA DonePasses == ASSUME NEW q \in CuratorType PROVE Passes(q, Done(q)) /\ Done(q).at = "mark"
<1>1. PICK i \in CuratorType : i = Idle /\ i.todo = {} /\ i.half = None
  BY IdleIs
<1>2. PICK n : n = [i EXCEPT !.at = "mark", !.slot = q.slot]
  OBVIOUS
<1>5. PICK s \in Slots \cup {None} : s = q.slot
  BY DEF CuratorType
<1>6. n \in CuratorType
  BY <1>2, <1>5 DEF CuratorType
<1>3. n \in CuratorType /\ n.half = i.half /\ n.at = "mark" /\ n.todo = i.todo
  BY <1>2, <1>6 DEF CuratorType
<1>4. Done(q) = n
  BY <1>1, <1>2 DEF Done
<1> QED BY <1>1, <1>3, <1>4 DEF Passes

LEMMA TitleGonePasses == ASSUME NEW q \in CuratorType PROVE Passes(q, TitleGone(q)) /\ TitleGone(q).at \in {"look", "mark"}
BY StagePasses, DonePasses DEF TitleGone, PassNames

LEMMA CatalogueWidePasses ==
  ASSUME NEW q \in CuratorType PROVE Passes(q, CatalogueWide(q)) /\ CatalogueWide(q).at \in {"look", "mark", "sort"}
BY StagePasses, TitleGonePasses DEF CatalogueWide, PassNames

LEMMA BookkeepingPasses ==
  ASSUME NEW q \in CuratorType, q.run \in HeldRuns
  PROVE  Passes(q, Bookkeeping(q)) /\ Bookkeeping(q).at \in {"look", "mark", "sort", "record"}
<1>1. CASE Matched(q) = {}
  BY <1>1, CatalogueWidePasses DEF Bookkeeping
<1>2. CASE Matched(q) # {}
  <2>1. Matched(q) \subseteq Chapters
    BY DEF Matched, CuratorType
  <2>2. PICK i : i = [q EXCEPT !.at = "record", !.pass = None, !.todo = {}, !.half = None]
    OBVIOUS
  <2>3. /\ i \in CuratorType /\ i.half = None /\ i.at = "record"
        /\ i.run = q.run /\ i.seen = q.seen /\ i.foreign = q.foreign
    BY <2>2 DEF CuratorType, PassNames
  <2>4. PICK n : n = [i EXCEPT !.todo = Matched(q)]
    OBVIOUS
  <2>5. /\ n \in CuratorType /\ n.half = None /\ n.at = "record" /\ n.todo = Matched(q)
        /\ n.run = q.run /\ n.seen = q.seen /\ n.foreign = q.foreign
    BY <2>1, <2>3, <2>4 DEF CuratorType
  <2>6. Bookkeeping(q) = n
    BY <1>2, <2>2, <2>4 DEF Bookkeeping, Stage
  <2> QED BY <2>5, <2>6 DEF Passes
<1> QED BY <1>1, <1>2

LEMMA AfterPassPasses ==
  ASSUME NEW q \in CuratorType, q.run \in HeldRuns
  PROVE  Passes(q, AfterPass(q)) /\ AfterPass(q).at # "forget"
<1>1. CASE q.pass = "no-longer-listed"
  BY <1>1, StagePasses DEF AfterPass, PassNames
<1>2. CASE q.pass = "paywalled"
  BY <1>2, BookkeepingPasses DEF AfterPass
<1>3. CASE q.pass = "manga-untracked"
  BY <1>3, TitleGonePasses DEF AfterPass
<1>4. CASE q.pass \notin {"no-longer-listed", "paywalled", "manga-untracked"}
  BY <1>4, DonePasses DEF AfterPass
<1> QED BY <1>1, <1>2, <1>3, <1>4

(* Who passes on holds what fits there, if it may still decide.             *)
LEMMA PassesFit ==
  ASSUME NEW q, NEW n, Passes(q, n), q.run \in HeldRuns, Named(q.run),
         n.at \in {"forget", "vote"} => Decides(q), Later
  PROVE  Curates(n)'
<1>1. Named(n.run) \/ n.at = "mark"
  BY DEF Passes, Named
<1>2. n.at = "record" => n.todo \subseteq n.run.names /\ n.todo \subseteq n.seen
  BY DEF Passes, Matched
<1>3. n.at \in {"forget", "vote"} => Decides(n)
  BY DEF Passes, Decides
<1>4. Curates(n)
  BY <1>1, <1>2, <1>3 DEF Passes, Curates
<1> QED BY <1>4, CuratesStill

LEMMA CatalogueStarts == CatalogueInit => CuratedInv
<1> SUFFICES ASSUME CatalogueInit PROVE CuratedInv
  OBVIOUS
<1> USE CatalogueFacts DEF CatalogueInit, TallyInit
<1>1. Streaks
  BY DEF Streaks
<1>2. LifeTypes
  BY DEF LifeTypes
<1>3. RunsKnown
  BY DEF RunsKnown
<1>4. Books
  BY DEF Books, InTheBooks
<1>5. Curates(Idle)
  BY IdleIs DEF Curates
<1>6. Curators
  BY <1>5, IdleIs DEF Curators
<1> QED BY <1>1, <1>2, <1>3, <1>4, <1>6 DEF CuratedInv

(* A step that leaves the removal rows alone.                               *)
LEMMA LaterStays == ASSUME task' = task PROVE Later
BY DEF Later

(* Votes.                                                                   *)
LEMMA VotesCount ==
  ASSUME Streaks, NEW cs, CastVotes(cs), Counted(cs)
  PROVE  Streaks' /\ \A c \in Confirmed(cs) : c \in Chapters => days'[c] >= Confirmations
<1> USE CatalogueFacts DEF Streaks
<1>1. ASSUME NEW c \in Chapters
      PROVE  /\ OneMore(misses[c]) \in 0..Confirmations /\ OneMore(days[c]) \in 0..Confirmations
             /\ OneMore(misses[c]) <= OneMore(days[c])
  BY DEF OneMore
<1>2. \A c \in Chapters : Counts(c) => misses[c] = 0 \/ open[c]
  BY DEF Counts
<1>3. ASSUME NEW c \in Chapters
      PROVE  misses'[c] \in 0..Confirmations /\ days'[c] \in 0..Confirmations /\ misses'[c] <= days'[c] /\ misses'[c] = Voted(cs)[c]
  <2>1. misses'[c] = IF c \in cs /\ Counts(c) THEN OneMore(misses[c]) ELSE misses[c]
    BY DEF CastVotes, Voted
  <2>2. days'[c] = IF c \in cs /\ Counts(c) /\ (misses[c] = 0 \/ open[c]) THEN OneMore(days[c]) ELSE days[c]
    BY DEF Counted
  <2>3. misses'[c] = Voted(cs)[c]
    BY DEF CastVotes
  <2>4. CASE c \in cs /\ Counts(c)
    BY <1>1, <1>2, <2>1, <2>2, <2>3, <2>4
  <2>5. CASE ~(c \in cs /\ Counts(c))
    BY <2>1, <2>2, <2>3, <2>5
  <2> QED BY <2>4, <2>5
<1>4. misses' \in [Chapters -> 0..Confirmations]
  BY <1>3 DEF CastVotes, Voted
<1>5. days' \in [Chapters -> 0..Confirmations]
  BY <1>3 DEF Counted
<1>6. open' \in [Chapters -> BOOLEAN]
  BY DEF CastVotes
<1>7. \A c \in Confirmed(cs) : c \in Chapters => days'[c] >= Confirmations
  BY <1>3 DEF Confirmed
<1> QED BY <1>3, <1>4, <1>5, <1>6, <1>7

LEMMA WipeKeeps ==
  ASSUME Streaks, NEW cs, Wipe(cs), days' = [c \in Chapters |-> IF c \in cs THEN 0 ELSE days[c]]
  PROVE  Streaks'
BY CatalogueFacts DEF Streaks, Wipe

(* Publishers, their reports, time.                                         *)
LEMMA ShelveKeeps == ASSUME CuratedInv, NEW c \in Chapters, NEW to \in Shelves, Shelve(c, to) PROVE CuratedInv'
<1> USE CatalogueAssumption DEF CuratedInv, Shelve, tallyVars
<1>1. Streaks' /\ LifeTypes' /\ RunsKnown' /\ Books'
  BY DEF Streaks, LifeTypes, RunsKnown, Books, InTheBooks
<1>2. Curators'
  BY LaterStays, CuratorsStay
<1> QED BY <1>1, <1>2

LEMMA ReportKeeps ==
  ASSUME CuratedInv, NEW s \in Slots, NEW e \in Exts, NEW kind \in Reports, NEW names \in SUBSET Chapters, Report(s, e, kind, names)
  PROVE  CuratedInv'
<1> USE DEF CuratedInv, Report, tallyVars, lifeVars
<1>1. Streaks' /\ LifeTypes' /\ Books'
  BY DEF Streaks, LifeTypes, Books, InTheBooks
<1>2. Curators'
  BY LaterStays, CuratorsStay
<1>3. PICK gone \in SUBSET Chapters : gone = {c \in names : shelf[c] = "expired"}
  OBVIOUS
<1>4. PICK heard \in BOOLEAN : heard = (tracked[e] # "none")
  OBVIOUS
<1>5. PICK run : run = [ext |-> e, kind |-> kind, names |-> names, spent |-> gone, tracks |-> heard]
  OBVIOUS
<1>6. run \in Runs /\ run.names = names /\ run.ext = e
  BY <1>5 DEF Runs
<1>7. runs' = [runs EXCEPT ![s] = run]
  BY <1>3, <1>4, <1>5
<1>8. Named(run)
  BY <1>6 DEF Named, OnShelf
<1>9. RunsKnown'
  BY <1>6, <1>7, <1>8 DEF RunsKnown
<1> QED BY <1>1, <1>2, <1>9

LEMMA TimePassesKeeps == ASSUME CuratedInv, NEW c \in Chapters, TimePasses(c) PROVE CuratedInv'
<1> USE DEF CuratedInv, TimePasses, lifeVars, WindowOpens
<1>1. Streaks' /\ LifeTypes' /\ RunsKnown' /\ Books'
  BY DEF Streaks, LifeTypes, RunsKnown, Books, InTheBooks
<1>2. Curators'
  BY LaterStays, CuratorsStay
<1> QED BY <1>1, <1>2

(* Another upset.                                                           *)
LEMMA UpsetKeeps == ASSUME LifeTypes, Upset, UNCHANGED <<shelf, md, task, tracked>> PROVE LifeTypes'
BY CatalogueFacts DEF LifeTypes, Upset

LEMMA OperatorTracksKeeps == ASSUME CuratedInv, NEW e \in Exts, NEW to \in Standings, OperatorTracks(e, to) PROVE CuratedInv'
<1> USE CatalogueAssumption, CatalogueFacts DEF CuratedInv, OperatorTracks, tallyVars, Upset
<1>1. Streaks' /\ LifeTypes' /\ RunsKnown' /\ Books'
  BY DEF Streaks, LifeTypes, RunsKnown, Books, InTheBooks
<1>2. Curators'
  BY LaterStays, CuratorsStay
<1> QED BY <1>1, <1>2

(* An operator moves the tally.                                             *)
LEMMA OperatorKeeps ==
  ASSUME CuratedInv, NEW c \in Chapters, OperatorAdds(c) \/ OperatorConfirms(c) \/ OperatorClears(c)
  PROVE  CuratedInv'
<1> USE DEF CuratedInv
<1>1. Upset /\ UNCHANGED <<shelf, md, task, tracked, row, runs, proc>>
  BY DEF OperatorAdds, OperatorConfirms, OperatorClears
<1>2. LifeTypes' /\ RunsKnown' /\ Books'
  BY <1>1, UpsetKeeps DEF RunsKnown, Books, InTheBooks
<1>3. Curators'
  BY <1>1, LaterStays, CuratorsStay
<1>4. ASSUME OperatorAdds(c) PROVE Streaks'
  BY <1>4, VotesCount DEF OperatorAdds, AddByHand
<1>5. ASSUME OperatorConfirms(c) PROVE Streaks'
  BY <1>5, CatalogueFacts DEF OperatorConfirms, ConfirmNow, Streaks
<1>6. ASSUME OperatorClears(c) PROVE Streaks'
  <2>1. Wipe({c}) /\ days' = [days EXCEPT ![c] = 0]
    BY <1>6 DEF OperatorClears
  <2>2. days' = [d \in Chapters |-> IF d \in {c} THEN 0 ELSE days[d]]
    BY <2>1 DEF Streaks
  <2> QED BY <2>1, <2>2, WipeKeeps
<1>7. Streaks'
  BY <1>4, <1>5, <1>6
<1> QED BY <1>2, <1>3, <1>7

(* The uploader carries a removal out.                                      *)
LEMMA RemoveChapterKeeps == ASSUME CuratedInv, NEW c \in Chapters, RemoveChapter(c) PROVE CuratedInv'
<1> USE CatalogueAssumption, CatalogueFacts DEF CuratedInv, RemoveChapter, tallyVars
<1>1. Streaks' /\ RunsKnown'
  BY DEF Streaks, RunsKnown
<1>2. LifeTypes'
  <2>1. PICK to \in {"carded", "gone"} : md' = [md EXCEPT ![c] = IF @ = "live" /\ c \in Ours THEN to ELSE @]
    OBVIOUS
  <2>2. md' \in [Chapters -> {"live", "carded", "gone"}]
    BY <2>1 DEF LifeTypes
  <2> QED BY <2>2 DEF LifeTypes
<1>3. Later
  BY DEF Later, LifeTypes
<1>4. Books'
  BY <1>3 DEF Books, InTheBooks, Later
<1>5. Curators'
  BY <1>3, CuratorsStay
<1> QED BY <1>1, <1>2, <1>4, <1>5

(* The processor.                                                           *)
LEMMA ClaimKeeps == ASSUME CuratedInv, NEW p \in Procs, NEW s \in Slots, Claim(p, s) PROVE CuratedInv'
<1> USE DEF CuratedInv, Claim, tallyVars, lifeVars
<1>1. Streaks' /\ LifeTypes' /\ RunsKnown' /\ Books'
  BY DEF Streaks, LifeTypes, RunsKnown, Books, InTheBooks
<1>2. Later
  BY LaterStays
<1>3. PICK r \in Runs : r = runs[s] /\ Named(r)
  BY DEF RunsKnown
<1>4. PICK tracks \in BOOLEAN : tracks = Tracks(r)
  BY DEF Tracks
<1>5. PICK held \in BOOLEAN : held = Held(r)
  BY DEF Held
<1>6. PICK run : run = [ext |-> r.ext, kind |-> r.kind, names |-> r.names, spent |-> r.spent, tracks |-> tracks, held |-> held]
  OBVIOUS
<1>7. run \in HeldRuns /\ run.names = r.names /\ run.ext = r.ext
  BY <1>6 DEF Runs, HeldRuns
<1>8. PICK i \in CuratorType : i = Idle /\ i.todo = {} /\ i.half = None
  BY IdleIs
<1>9. PICK q : q = [i EXCEPT !.slot = s, !.run = run]
  OBVIOUS
<1>10. q \in CuratorType /\ q.run = run
  BY <1>7, <1>8, <1>9 DEF CuratorType
<1>11. PICK n : n = IF Visits(run) THEN Stage(q, "look", "no-longer-listed") ELSE TitleGone(q)
  OBVIOUS
<1>12. Passes(q, n) /\ n.at \in {"look", "mark"}
  BY <1>10, <1>11, StagePasses, TitleGonePasses DEF PassNames
<1>13. Curates(n)'
  BY <1>2, <1>3, <1>7, <1>10, <1>12, PassesFit DEF Named
<1>14. proc' = [proc EXCEPT ![p] = n]
  BY <1>3, <1>4, <1>5, <1>6, <1>8, <1>9, <1>11
<1>15. Curators'
  BY <1>2, <1>13, <1>14, CuratorMoves
<1> QED BY <1>1, <1>15

LEMMA LookKeeps == ASSUME CuratedInv, NEW p \in Procs, Look(p) PROVE CuratedInv'
<1> USE DEF CuratedInv, Look, tallyVars, lifeVars
<1>1. Streaks' /\ LifeTypes' /\ RunsKnown' /\ Books'
  BY DEF Streaks, LifeTypes, RunsKnown, Books, InTheBooks
<1>2. Later
  BY LaterStays
<1>3. PICK q \in CuratorType : q = proc[p] /\ Curates(q)
  BY CuratorIs
<1>4. PICK seen \in SUBSET Chapters : seen = {c \in Chapters : md[c] # "gone"}
  OBVIOUS
<1>5. PICK carded \in SUBSET Chapters : carded = {c \in Chapters : md[c] = "carded"}
  OBVIOUS
<1>6. PICK n : n = [q EXCEPT !.seen = seen, !.carded = carded, !.at = "sort"]
  OBVIOUS
<1>7. n \in CuratorType /\ n.at = "sort" /\ n.run = q.run /\ n.todo = q.todo /\ n.half = q.half
  BY <1>6 DEF CuratorType
<1>8. q.at = "look"
  BY <1>3
<1>9. Curates(n)
  BY <1>3, <1>7, <1>8 DEF Curates
<1>10. Curates(n)'
  BY <1>2, <1>9, CuratesStill
<1>11. proc' = [proc EXCEPT ![p] = n]
  BY <1>3, <1>4, <1>5, <1>6
<1>12. Curators'
  BY <1>2, <1>10, <1>11, CuratorMoves
<1> QED BY <1>1, <1>12

(* Foreign is whom the books attribute to another publisher; of ours, who   *)
(* is in no book is queued.                                                 *)
LEMMA SortedDecides ==
  ASSUME CuratedInv, NEW q \in CuratorType, q.foreign = ForeignChapterIds(q), q.run \in HeldRuns
  PROVE  Decides(q)
BY CatalogueFacts DEF CuratedInv, Books, InTheBooks, Decides, ForeignChapterIds

LEMMA SortKeeps == ASSUME CuratedInv, NEW p \in Procs, Sort(p) PROVE CuratedInv'
<1> USE DEF CuratedInv, tallyVars, lifeVars
<1>0. UNCHANGED <<tallyVars, lifeVars, row, runs, days>> /\ proc[p].at = "sort"
  BY DEF Sort
<1>1. Streaks' /\ LifeTypes' /\ RunsKnown' /\ Books'
  BY <1>0 DEF Streaks, LifeTypes, RunsKnown, Books, InTheBooks
<1>2. Later
  BY <1>0, LaterStays
<1>3. PICK o \in CuratorType : o = proc[p] /\ Curates(o)
  BY CuratorIs
<1>4. PICK foreign \in SUBSET Chapters : foreign = ForeignChapterIds(o)
  BY DEF ForeignChapterIds, CuratorType
<1>5. PICK q : q = [o EXCEPT !.foreign = foreign]
  OBVIOUS
<1>6. q \in CuratorType /\ q.run = o.run /\ q.seen = o.seen /\ q.foreign = foreign /\ q.at = o.at /\ q.pass = o.pass
  BY <1>5 DEF CuratorType
<1>7. q.run \in HeldRuns /\ Named(q.run)
  BY <1>0, <1>3, <1>6 DEF Curates
<1>8. q.foreign = ForeignChapterIds(q)
  BY <1>4, <1>6 DEF ForeignChapterIds
<1>9. Decides(q)
  BY <1>6, <1>7, <1>8, SortedDecides
<1>10. PICK n : n = IF q.pass # "no-longer-listed" THEN Stage(q, "vote", q.pass)
                    ELSE IF Readable(q) THEN Stage(q, "forget", q.pass) ELSE Bookkeeping(q)
  OBVIOUS
<1>11. proc' = [proc EXCEPT ![p] = n]
  BY <1>3, <1>4, <1>5, <1>10 DEF Sort
<1>12. Passes(q, n)
  <2>1. q.pass \in PassNames
    BY <1>6 DEF CuratorType
  <2> QED BY <1>6, <1>7, <1>10, <2>1, StagePasses, BookkeepingPasses
<1>13. Curates(n)'
  BY <1>2, <1>7, <1>9, <1>12, PassesFit
<1>14. Curators'
  BY <1>2, <1>11, <1>13, CuratorMoves
<1> QED BY <1>1, <1>14

LEMMA ForgetKeeps == ASSUME CuratedInv, NEW p \in Procs, Forget(p) PROVE CuratedInv'
<1> USE DEF CuratedInv
<1>0. /\ UNCHANGED <<shelf, md, task, tracked, row, runs>> /\ proc[p].at = "forget"
      /\ proc' = [proc EXCEPT ![p] = Stage(proc[p], "vote", proc[p].pass)]
  BY DEF Forget
<1>1. PICK cs : cs = proc[p].seen \ Nominated(proc[p])
  OBVIOUS
<1>2. RunsKnown' /\ Books'
  BY <1>0 DEF RunsKnown, Books, InTheBooks
<1>3. ASSUME Wipe(cs) /\ days' = [c \in Chapters |-> IF c \in cs THEN 0 ELSE days[c]] /\ UNCHANGED upsets
      PROVE  LifeTypes' /\ Streaks'
  BY <1>0, <1>3, WipeKeeps DEF LifeTypes
<1>4. ASSUME Upset /\ days' = [c \in Chapters |-> IF c \in cs /\ misses[c] > 0 THEN Confirmations ELSE days[c]] /\ UNCHANGED tallyVars
      PROVE  LifeTypes' /\ Streaks'
  <2>1. LifeTypes'
    BY <1>0, <1>4, UpsetKeeps
  <2>2. Streaks'
    BY <1>4, CatalogueFacts DEF Streaks, tallyVars
  <2> QED BY <2>1, <2>2
<1>5. LifeTypes' /\ Streaks'
  <2>1. \/ Wipe(cs) /\ days' = [c \in Chapters |-> IF c \in cs THEN 0 ELSE days[c]] /\ UNCHANGED upsets
        \/ Upset /\ days' = [c \in Chapters |-> IF c \in cs /\ misses[c] > 0 THEN Confirmations ELSE days[c]] /\ UNCHANGED tallyVars
    BY <1>1 DEF Forget
  <2> QED BY <2>1, <1>3, <1>4
<1>6. PICK q \in CuratorType : q = proc[p] /\ Curates(q)
  BY CuratorIs
<1>7. PICK n : n = Stage(q, "vote", q.pass)
  OBVIOUS
<1>8. Passes(q, n) /\ n.at = "vote"
  BY <1>7, StagePasses DEF CuratorType
<1>9. q.run \in HeldRuns /\ Named(q.run) /\ Decides(q) /\ Later
  BY <1>0, <1>6, LaterStays DEF Curates
<1>10. Curates(n)'
  BY <1>8, <1>9, PassesFit
<1>11. Curators'
  BY <1>0, <1>6, <1>7, <1>9, <1>10, CuratorMoves
<1> QED BY <1>2, <1>5, <1>11

(* What a pass votes on, it may decide on.                                  *)
LEMMA BallotIs ==
  ASSUME NEW q \in CuratorType
  PROVE  Ballot(q) \subseteq q.seen /\ Ballot(q) \cap q.foreign = {}
BY DEF Ballot, FindExtraChapters, FindPaywalledChapters, Judged

LEMMA VoteKeeps == ASSUME CuratedInv, NEW p \in Procs, Vote(p) PROVE CuratedInv'
<1> USE DEF CuratedInv
<1>0. /\ UNCHANGED <<lifeVars, row, runs>> /\ proc[p].at = "vote" /\ CastVotes(Ballot(proc[p])) /\ Counted(Ballot(proc[p]))
      /\ proc' = [proc EXCEPT ![p] = IF Confirmed(Ballot(proc[p])) = {} THEN AfterPass(proc[p])
                                 ELSE [proc[p] EXCEPT !.at = "queue", !.todo = Confirmed(Ballot(proc[p]))]]
  BY DEF Vote
<1>1. RunsKnown' /\ Books' /\ LifeTypes'
  BY <1>0 DEF RunsKnown, Books, InTheBooks, LifeTypes, lifeVars
<1>2. Streaks'
  BY <1>0, VotesCount
<1>3. PICK q \in CuratorType : q = proc[p] /\ Curates(q)
  BY CuratorIs
<1>4. q.run \in HeldRuns /\ Named(q.run) /\ Decides(q) /\ Later
  BY <1>0, <1>3, LaterStays DEF Curates, lifeVars
<1>5. PICK ready : ready = Confirmed(Ballot(q))
  OBVIOUS
<1>6. ASSUME ready = {} PROVE Curators'
  <2>1. PICK n : n = AfterPass(q)
    OBVIOUS
  <2>2. Passes(q, n)
    BY <1>4, <2>1, AfterPassPasses
  <2>3. Curates(n)'
    BY <1>4, <2>2, PassesFit
  <2>4. proc' = [proc EXCEPT ![p] = n]
    BY <1>0, <1>3, <1>5, <1>6, <2>1
  <2> QED BY <1>4, <2>3, <2>4, CuratorMoves
<1>7. ASSUME ready # {} PROVE Curators'
  <2>1. ready \subseteq q.seen /\ ready \cap q.foreign = {}
    BY <1>5, BallotIs DEF Confirmed
  <2>2. PICK n : n = [q EXCEPT !.at = "queue", !.todo = ready]
    OBVIOUS
  <2>3. /\ n \in CuratorType /\ n.at = "queue" /\ n.todo = ready /\ n.half = q.half /\ n.run = q.run
        /\ n.seen = q.seen /\ n.foreign = q.foreign
    BY <2>1, <2>2 DEF CuratorType
  <2>4. q.half = None
    BY <1>0, <1>3 DEF Curates
  <2>5. Curates(n)
    BY <1>4, <2>1, <2>3, <2>4 DEF Curates, Decides
  <2>6. Curates(n)'
    BY <1>4, <2>5, CuratesStill
  <2>7. proc' = [proc EXCEPT ![p] = n]
    BY <1>0, <1>3, <1>5, <1>7, <2>2
  <2> QED BY <1>4, <2>6, <2>7, CuratorMoves
<1>8. Curators'
  BY <1>6, <1>7
<1> QED BY <1>1, <1>2, <1>8

(* A processor that goes on from a pass, with the tally as it is.           *)
LEMMA GoesOn ==
  ASSUME CuratedInv, NEW p \in Procs, NEW n, Passes(proc[p], n), n.at # "forget", proc[p].at \in {"vote", "queue", "record"},
         n.at = "vote" => proc[p].at # "record",
         proc' = [proc EXCEPT ![p] = n], Later
  PROVE  Curators'
<1>1. PICK q \in CuratorType : q = proc[p] /\ Curates(q)
  BY CuratorIs DEF CuratedInv
<1>2. q.run \in HeldRuns /\ Named(q.run) /\ (q.at # "record" => Decides(q))
  BY <1>1 DEF Curates
<1>3. Curates(n)'
  BY <1>1, <1>2, PassesFit
<1> QED BY <1>3, CuratorMoves DEF CuratedInv

LEMMA VoteFailsKeeps == ASSUME CuratedInv, NEW p \in Procs, VoteFails(p) PROVE CuratedInv'
<1>0. /\ UNCHANGED <<tallyVars, shelf, md, task, tracked, row, runs, days>> /\ Upset /\ proc[p].at = "vote"
      /\ proc' = [proc EXCEPT ![p] = AfterPass(proc[p])]
  BY DEF VoteFails
<1>1. Streaks' /\ RunsKnown' /\ Books'
  BY <1>0 DEF CuratedInv, Streaks, RunsKnown, Books, InTheBooks, tallyVars
<1>2. LifeTypes'
  BY <1>0, UpsetKeeps DEF CuratedInv
<1>3. PICK q \in CuratorType : q = proc[p] /\ q.run \in HeldRuns
  BY <1>0, CuratorIs DEF CuratedInv, Curates
<1>4. Passes(proc[p], AfterPass(proc[p])) /\ AfterPass(proc[p]).at # "forget"
  BY <1>3, AfterPassPasses
<1>5. Curators'
  BY <1>0, <1>4, LaterStays, GoesOn
<1> QED BY <1>1, <1>2, <1>5 DEF CuratedInv

LEMMA QueueKeeps == ASSUME CuratedInv, NEW p \in Procs, NEW c \in Chapters, Queue(p, c) PROVE CuratedInv'
<1>0. /\ UNCHANGED <<tallyVars, shelf, md, tracked, upsets, row, runs, days>>
      /\ proc[p].at = "queue" /\ proc[p].half = None /\ c \in proc[p].todo
      /\ task' = [task EXCEPT ![c] = IF @ = "none" THEN "pending" ELSE @]
      /\ proc' = [proc EXCEPT ![p].half = c]
  BY DEF Queue
<1>1. Streaks' /\ RunsKnown'
  BY <1>0 DEF CuratedInv, Streaks, RunsKnown, tallyVars
<1>2. LifeTypes' /\ task'[c] # "none" /\ Later
  BY <1>0 DEF CuratedInv, LifeTypes, Later
<1>3. Books'
  BY <1>0, <1>2, CatalogueFacts DEF CuratedInv, Books, InTheBooks, Later
<1>4. PICK q \in CuratorType : q = proc[p] /\ Curates(q)
  BY CuratorIs DEF CuratedInv
<1>5. PICK n : n = [q EXCEPT !.half = c]
  OBVIOUS
<1>6. /\ n \in CuratorType /\ n.half = c /\ n.at = q.at /\ n.todo = q.todo /\ n.run = q.run
      /\ n.seen = q.seen /\ n.foreign = q.foreign
  BY <1>5 DEF CuratorType
<1>7. Curates(q)' /\ q.at = "queue" /\ c \in q.todo
  BY <1>0, <1>2, <1>4, CuratesStill
<1>8. Curates(n)'
  BY <1>2, <1>6, <1>7 DEF Curates, Decides
<1>9. proc' = [proc EXCEPT ![p] = n]
  BY <1>0, <1>4, <1>5
<1>10. Curators'
  BY <1>2, <1>8, <1>9, CuratorMoves DEF CuratedInv
<1> QED BY <1>1, <1>2, <1>3, <1>10 DEF CuratedInv

LEMMA UnrecordKeeps == ASSUME CuratedInv, NEW p \in Procs, Unrecord(p) PROVE CuratedInv'
<1>1. PICK q \in CuratorType : q = proc[p] /\ Curates(q)
  BY CuratorIs DEF CuratedInv
<1>2. PICK c : c = q.half
  OBVIOUS
<1>3. PICK left : left = q.todo \ {c}
  OBVIOUS
<1>0. /\ c # None /\ row' = [row EXCEPT ![c] = None] /\ UNCHANGED <<tallyVars, lifeVars, runs, days>>
      /\ proc' = [proc EXCEPT ![p] = IF left = {} THEN AfterPass(proc[p])
                                 ELSE [proc[p] EXCEPT !.half = None, !.todo = left]]
  BY <1>1, <1>2, <1>3 DEF Unrecord
<1>4. Streaks' /\ RunsKnown' /\ LifeTypes' /\ Later
  BY <1>0, LaterStays DEF CuratedInv, Streaks, RunsKnown, LifeTypes, tallyVars, lifeVars
<1>5. c \in q.todo /\ c \in Chapters /\ task[c] # "none" /\ q.at = "queue"
  BY <1>0, <1>1, <1>2 DEF Curates, CuratorType
<1>6. Books'
  BY <1>0, <1>4, <1>5, CatalogueFacts DEF CuratedInv, Books, InTheBooks, Later
<1>7. q.run \in HeldRuns
  BY <1>1, <1>5 DEF Curates
<1>8. ASSUME left = {} PROVE Curators'
  <2>1. Passes(proc[p], AfterPass(proc[p])) /\ AfterPass(proc[p]).at # "forget"
    BY <1>1, <1>7, AfterPassPasses
  <2> QED BY <1>0, <1>1, <1>4, <1>5, <1>8, <2>1, GoesOn
<1>9. ASSUME left # {} PROVE Curators'
  <2>1. PICK n : n = [q EXCEPT !.half = None, !.todo = left]
    OBVIOUS
  <2>2. /\ n \in CuratorType /\ n.half = None /\ n.at = q.at /\ n.todo = left /\ n.run = q.run
        /\ n.seen = q.seen /\ n.foreign = q.foreign
    BY <1>3, <2>1 DEF CuratorType
  <2>3. Curates(n)
    BY <1>1, <1>3, <1>5, <2>2 DEF Curates, Decides
  <2>4. proc' = [proc EXCEPT ![p] = n]
    BY <1>0, <1>1, <1>9, <2>1
  <2> QED BY <1>4, <2>3, <2>4, CuratesStill, CuratorMoves DEF CuratedInv
<1>10. Curators'
  BY <1>8, <1>9
<1> QED BY <1>4, <1>6, <1>10 DEF CuratedInv

LEMMA RecordKeeps == ASSUME CuratedInv, NEW p \in Procs, NEW c \in Chapters, Record(p, c) PROVE CuratedInv'
<1>1. PICK q \in CuratorType : q = proc[p] /\ Curates(q)
  BY CuratorIs DEF CuratedInv
<1>2. PICK left : left = q.todo \ {c}
  OBVIOUS
<1>0. /\ q.at = "record" /\ c \in q.todo /\ row' = [row EXCEPT ![c] = q.run.ext]
      /\ UNCHANGED <<tallyVars, lifeVars, runs, days>>
      /\ proc' = [proc EXCEPT ![p] = IF left = {} THEN CatalogueWide(proc[p]) ELSE [proc[p] EXCEPT !.todo = left]]
  BY <1>1, <1>2 DEF Record
<1>3. Streaks' /\ RunsKnown' /\ LifeTypes' /\ Later
  BY <1>0, LaterStays DEF CuratedInv, Streaks, RunsKnown, LifeTypes, tallyVars, lifeVars
<1>4. q.run \in HeldRuns /\ ExtOf[c] = q.run.ext /\ q.half = None
  BY <1>0, <1>1 DEF Curates, Named
<1>5. q.run.ext \in Exts
  BY <1>4 DEF HeldRuns
<1>6. Books'
  BY <1>0, <1>3, <1>4, <1>5, CatalogueFacts DEF CuratedInv, Books, InTheBooks, Later
<1>7. ASSUME left = {} PROVE Curators'
  <2>1. Passes(proc[p], CatalogueWide(proc[p])) /\ CatalogueWide(proc[p]).at \in {"look", "mark", "sort"}
    BY <1>1, CatalogueWidePasses
  <2> QED BY <1>0, <1>1, <1>3, <1>7, <2>1, GoesOn
<1>8. ASSUME left # {} PROVE Curators'
  <2>1. PICK n : n = [q EXCEPT !.todo = left]
    OBVIOUS
  <2>2. /\ n \in CuratorType /\ n.half = None /\ n.at = q.at /\ n.todo = left /\ n.run = q.run
        /\ n.seen = q.seen /\ n.foreign = q.foreign
    BY <1>2, <1>4, <2>1 DEF CuratorType
  <2>3. Curates(n)
    BY <1>0, <1>1, <1>2, <2>2 DEF Curates
  <2>4. proc' = [proc EXCEPT ![p] = n]
    BY <1>0, <1>1, <1>8, <2>1
  <2> QED BY <1>3, <2>3, <2>4, CuratesStill, CuratorMoves DEF CuratedInv
<1>9. Curators'
  BY <1>7, <1>8
<1> QED BY <1>3, <1>6, <1>9 DEF CuratedInv

LEMMA MarkKeeps == ASSUME CuratedInv, NEW p \in Procs, Mark(p) PROVE CuratedInv'
<1> USE DEF CuratedInv
<1>0. /\ UNCHANGED <<tallyVars, lifeVars, row, days>>
      /\ runs' = (IF proc[p].slot = None THEN runs ELSE [runs EXCEPT ![proc[p].slot] = None])
      /\ proc' = [r \in Procs |-> IF r = p THEN Idle
                              ELSE IF proc[r].slot = proc[p].slot THEN [proc[r] EXCEPT !.slot = None] ELSE proc[r]]
  BY DEF Mark
<1>1. Streaks' /\ LifeTypes' /\ Books' /\ Later
  BY <1>0, LaterStays DEF Streaks, LifeTypes, Books, InTheBooks, tallyVars, lifeVars
<1>2. RunsKnown'
  BY <1>0 DEF RunsKnown
<1>3. ASSUME NEW r \in Procs PROVE proc'[r] \in CuratorType /\ Curates(proc'[r])
  <2>1. PICK q \in CuratorType : q = proc[r] /\ Curates(q)
    BY CuratorIs
  <2>2. CASE r = p
    BY <1>0, <2>2, IdleIs DEF Curates
  <2>3. CASE r # p /\ q.slot = proc[p].slot
    <3>1. PICK n : n = [q EXCEPT !.slot = None]
      OBVIOUS
    <3>2. /\ n \in CuratorType /\ n.half = q.half /\ n.at = q.at /\ n.todo = q.todo /\ n.run = q.run
          /\ n.seen = q.seen /\ n.foreign = q.foreign
      BY <3>1 DEF CuratorType
    <3>3. Curates(n)
      BY <2>1, <3>2 DEF Curates, Decides
    <3>4. proc'[r] = n
      BY <1>0, <2>1, <2>3, <3>1
    <3> QED BY <3>2, <3>3, <3>4
  <2>4. CASE r # p /\ q.slot # proc[p].slot
    BY <1>0, <2>1, <2>4
  <2> QED BY <2>2, <2>3, <2>4
<1>4. proc' \in [Procs -> CuratorType]
  BY <1>0, <1>3
<1>5. ASSUME NEW r \in Procs PROVE Curates(proc[r])'
  <2>1. PICK n : n = proc'[r]
    OBVIOUS
  <2>2. Curates(n)'
    BY <1>1, <1>3, <2>1, CuratesStill
  <2> QED BY <2>1, <2>2
<1> QED BY <1>1, <1>2, <1>4, <1>5 DEF Curators

LEMMA CrashKeeps == ASSUME CuratedInv, NEW p \in Procs, Crash(p) PROVE CuratedInv'
<1> USE DEF CuratedInv, Crash
<1>1. Streaks' /\ RunsKnown' /\ Books' /\ Later
  BY LaterStays DEF Streaks, RunsKnown, Books, InTheBooks, tallyVars
<1>2. LifeTypes'
  BY UpsetKeeps
<1>3. Curates(Idle)
  BY IdleIs DEF Curates
<1>4. Curates(Idle)'
  BY <1>1, <1>3, CuratesStill DEF Idle
<1>5. Curators'
  BY <1>1, <1>4, CuratorMoves DEF Idle
<1> QED BY <1>1, <1>2, <1>5

LEMMA ProcStepKeeps == ASSUME CuratedInv, NEW p \in Procs, ProcStep(p) PROVE CuratedInv'
BY ClaimKeeps, LookKeeps, SortKeeps, ForgetKeeps, VoteKeeps, VoteFailsKeeps, UnrecordKeeps, MarkKeeps, QueueKeeps, RecordKeeps
   DEF ProcStep

LEMMA CuratedKeeps == CuratedInv /\ [CatalogueNext]_catalogueVars => CuratedInv'
<1> SUFFICES ASSUME CuratedInv, [CatalogueNext]_catalogueVars PROVE CuratedInv'
  OBVIOUS
<1>1. CASE UNCHANGED catalogueVars
  <2>1. Streaks' /\ RunsKnown' /\ Books' /\ LifeTypes'
    BY <1>1 DEF CuratedInv, Streaks, RunsKnown, Books, InTheBooks, LifeTypes, catalogueVars, tallyVars, lifeVars
  <2>2. Curators'
    BY <1>1, LaterStays, CuratorsStay DEF CuratedInv, catalogueVars, lifeVars
  <2> QED BY <2>1, <2>2 DEF CuratedInv
<1> QED BY <1>1, ProcStepKeeps, CrashKeeps, ShelveKeeps, ReportKeeps, RemoveChapterKeeps, OperatorKeeps, TimePassesKeeps, OperatorTracksKeeps
        DEF CatalogueNext

LEMMA CuratedAlways == CatalogueSpec => []CuratedInv
BY CatalogueStarts, CuratedKeeps, PTL DEF CatalogueSpec

(* A chapter of ours is in the books or on the queue at every await of any  *)
(* number of processors, and their replays and crashes (enqueueRemovals).   *)
THEOREM BooksAreKept == CatalogueSpec => []CatalogueInv
<1>1. CuratedInv => CatalogueInv
  <2> SUFFICES ASSUME CuratedInv PROVE CatalogueInv
    OBVIOUS
  <2>1. ASSUME NEW p \in Procs
        PROVE  /\ proc[p].at \in {"idle", "look", "sort", "forget", "vote", "queue", "record", "mark"}
               /\ proc[p].at \in {"idle", "mark"} \/ proc[p].run \in HeldRuns
               /\ proc[p].todo \subseteq proc[p].seen /\ proc[p].half \in proc[p].todo \cup {None}
               /\ proc[p].todo # {} => proc[p].at \in {"queue", "record"}
    BY CuratorIs DEF CuratedInv, Curates, CuratorType
  <2>2. CatalogueTypeOK
    BY <2>1 DEF CatalogueTypeOK, CuratedInv, Streaks, LifeTypes, RunsKnown, Books
  <2> QED BY <2>2 DEF CatalogueInv, CuratedInv, Books
<1> QED BY <1>1, CuratedAlways, PTL

(* The steps that decide on a removal.                                      *)
LEMMA VotedThrough ==
  ASSUME CuratedInv, CatalogueNext, NEW p \in Procs, NEW c \in Chapters,
         c \in proc'[p].todo, proc[p].at = "vote", proc'[p].at = "queue"
  PROVE  days'[c] >= Confirmations
<1>1. PICK q \in CuratorType : q = proc[p] /\ Curates(q) /\ q.at = "vote" /\ q.run \in HeldRuns
  BY CuratorIs DEF CuratedInv, Curates
<1>2. proc'[p] # proc[p]
  BY <1>1
<1>3. ASSUME NEW r \in Procs, r # p, ProcStep(r) \/ Crash(r) PROVE FALSE
  <2>1. PICK n : n = proc'[p]
    OBVIOUS
  <2>2. \/ proc'[p] = proc[p]
        \/ Mark(r) /\ proc'[p] = [proc[p] EXCEPT !.slot = None]
    BY <1>3 DEF ProcStep, Claim, Look, Sort, Forget, Vote, VoteFails, Unrecord, Mark, Queue, Record, Crash, CuratedInv, Curators
  <2>3. proc'[p].at = "vote"
    BY <1>1, <2>2 DEF CuratorType
  <2> QED BY <2>3
<1>4. ProcStep(p) \/ Crash(p)
  BY <1>2, <1>3 DEF CatalogueNext, Shelve, Report, RemoveChapter, OperatorAdds, OperatorConfirms, OperatorClears, TimePasses, OperatorTracks
<1>5. Vote(p) \/ VoteFails(p)
  <2>1. q.half = None
    BY <1>1 DEF Curates
  <2>2. ~Crash(p)
    BY IdleIs DEF Crash, CuratedInv, Curators
  <2> QED BY <1>1, <1>4, <2>1, <2>2 DEF ProcStep, Claim, Look, Sort, Forget, Unrecord, Mark, Queue, Record
<1>6. Passes(q, AfterPass(q))
  BY <1>1, AfterPassPasses
<1>7. proc'[p] # AfterPass(q)
  BY <1>6 DEF Passes
<1>8. ~VoteFails(p)
  BY <1>1, <1>7 DEF VoteFails, CuratedInv, Curators
<1>9. /\ CastVotes(Ballot(q)) /\ Counted(Ballot(q))
      /\ proc' = [proc EXCEPT ![p] = [q EXCEPT !.at = "queue", !.todo = Confirmed(Ballot(q))]]
  BY <1>1, <1>5, <1>7, <1>8 DEF Vote, CuratedInv, Curators
<1>10. c \in Confirmed(Ballot(q))
  BY <1>1, <1>9 DEF CuratedInv, Curators, CuratorType
<1> QED BY <1>9, <1>10, VotesCount DEF CuratedInv

LEMMA QueuedByOwner ==
  ASSUME CuratedInv, CatalogueNext, NEW p \in Procs, NEW c \in Ours,
         task[c] = "none", task'[c] = "pending", proc[p].half = None, proc'[p].half = c
  PROVE  proc[p].run.ext = ExtOf[c]
<1>1. c \in Chapters /\ c # None
  BY CatalogueFacts
<1>2. ASSUME NEW x \in Chapters, RemoveChapter(x) PROVE FALSE
  BY <1>1, <1>2 DEF RemoveChapter, CuratedInv, LifeTypes
<1>3. PICK r \in Procs, x \in Chapters : Queue(r, x)
  BY <1>2 DEF CatalogueNext, ProcStep, Claim, Look, Sort, Forget, Vote, VoteFails, Unrecord, Mark, Record, Crash, Shelve, Report,
          OperatorAdds, OperatorConfirms, OperatorClears, TimePasses, OperatorTracks, lifeVars
<1>4. x = c
  BY <1>1, <1>3 DEF Queue, CuratedInv, LifeTypes
<1>5. r = p
  BY <1>1, <1>3 DEF Queue, CuratedInv, Curators
<1>6. PICK q \in CuratorType : q = proc[p] /\ Curates(q)
  BY CuratorIs DEF CuratedInv
<1>7. q.at = "queue" /\ c \in q.todo
  BY <1>3, <1>4, <1>5, <1>6 DEF Queue
<1>8. c \in q.seen \ q.foreign /\ Decides(q)
  BY <1>6, <1>7 DEF Curates
<1> QED BY <1>6, <1>8 DEF Decides

(* A removal is queued only on absences of as many days as the setting      *)
(* says, counted from the last sighting, and only by a run of the           *)
(* extension whose chapter it is, however many publishers, processors and   *)
(* replays work on one title.                                               *)
THEOREM RemovalsHaveGrounds == CatalogueSpec => RemovalsAreGrounded
<1>1. CuratedInv /\ [CatalogueNext]_catalogueVars =>
        [\A p \in Procs, c \in Chapters :
           c \in proc'[p].todo /\ proc[p].at = "vote" /\ proc'[p].at = "queue" => days'[c] >= Confirmations]_catalogueVars
  BY VotedThrough
<1>2. CuratedInv /\ [CatalogueNext]_catalogueVars =>
        [\A p \in Procs, c \in Ours :
           task[c] = "none" /\ task'[c] = "pending" /\ proc[p].half = None /\ proc'[p].half = c
             => proc[p].run.ext = ExtOf[c]]_catalogueVars
  BY QueuedByOwner
<1>3. CatalogueSpec => RemovedOnAStreak
  BY <1>1, CuratedAlways, PTL DEF CatalogueSpec, RemovedOnAStreak
<1>4. CatalogueSpec => OwnersDecide
  BY <1>2, CuratedAlways, PTL DEF CatalogueSpec, OwnersDecide
<1> QED BY <1>3, <1>4 DEF RemovalsAreGrounded

-----------------------------------------------------------------------------
(***************************************************************************)
(* The upload half of the processor (Intake.tla), for any chapter numbers, *)
(* forms of the entry, processors and failures.                            *)
(***************************************************************************)
Stops == {"idle", "read", "decide", "edit", "upload", "supersede", "dupes", "delete", "mark"}
Sights == UNION {[D -> Numbers] : D \in SUBSET Copies}
ClerkType ==
  [at : Stops, says : SUBSET Numbers, its : BOOLEAN, seen : Sights, ids : SUBSET Copies,
   adds : SUBSET Numbers, todo : SUBSET (Copies \cup Numbers)]
AtWork(q) == q \in ClerkType /\ (q.at = "idle" <=> q.says = {}) /\ q.adds \subseteq q.says

EditType == [at : {"none", "pending", "done", "dead"}, to : Numbers \cup {0}]

(* The rows, and a copy for each UPLOAD that is done.                      *)
Committed == {n \in Numbers : upload[n] = "done"}
RowsFit ==
  /\ onMd \in [DOMAIN onMd -> Numbers] /\ DOMAIN onMd \subseteq 1..made
  /\ upload \in [Numbers -> RowStates] /\ made = Cardinality(Committed)
  /\ edit \in [Copies -> EditType] /\ \A c \in Copies : edit[c].at = "pending" => edit[c].to # 0
  /\ doom \in [Copies -> {"none", "pending", "done"}]

ReportsFit ==
  /\ entry \in Entries /\ parts \in {{}, Numbers}
  /\ waiting \subseteq Numbers /\ whole \in BOOLEAN
  /\ changes \in 0..MaxChanges /\ failures \in 0..MaxFailures

ClerksFit == clerk \in [Clerks -> ClerkType] /\ \A k \in Clerks : AtWork(clerk[k])

(* A copy that is to go, or that a processor is about to list: an older    *)
(* one exists.                                                             *)
Listed(c) == \E k \in Clerks : clerk[k].at = "delete" /\ c \in clerk[k].todo
HasElder(c) == \E e \in DOMAIN onMd : e < c
EldersStay == \A c \in Copies : doom[c] = "pending" \/ Listed(c) => HasElder(c)
SomethingStays == made > 0 => DOMAIN onMd # {}

KeptInv == RowsFit /\ ReportsFit /\ ClerksFit /\ EldersStay /\ SomethingStays

LEMMA IntakeBounds ==
  /\ Cardinality(Numbers) \in Nat /\ IsFiniteSet(Numbers) /\ Numbers \subseteq Nat \ {0}
  /\ MaxChanges \in Nat /\ MaxFailures \in Nat
  /\ \A numbers \in Entries : numbers \subseteq Numbers
  /\ Copies \subseteq Nat \ {0}
<1>1. IsFiniteSet(Numbers) /\ Numbers \subseteq Nat \ {0} /\ MaxChanges \in Nat /\ MaxFailures \in Nat
      /\ \A numbers \in Entries : numbers \subseteq Numbers
  BY IntakeAssumption
<1>2. Cardinality(Numbers) \in Nat
  BY <1>1, FS_CardinalityType
<1> QED  BY <1>1, <1>2 DEF Copies

LEMMA CopiesCounted ==
  ASSUME KeptInv
  PROVE  made \in Nat /\ made <= Cardinality(Numbers) /\ DOMAIN onMd \subseteq Copies
<1>1. Committed \subseteq Numbers /\ made = Cardinality(Committed)
  BY DEF KeptInv, RowsFit, Committed
<1>2. IsFiniteSet(Committed) /\ Cardinality(Committed) <= Cardinality(Numbers)
  BY <1>1, IntakeBounds, FS_Subset
<1>3. made \in Nat
  BY <1>1, <1>2, FS_CardinalityType
<1>4. 1..made \subseteq Copies
  BY <1>1, <1>2, <1>3, IntakeBounds DEF Copies
<1> QED  BY <1>1, <1>2, <1>3, <1>4 DEF KeptInv, RowsFit

(* The order of the numbers is well-founded, so that what is bounded has a *)
(* greatest element.                                                       *)
LEMMA Least ==
  ASSUME NEW T \in SUBSET Nat, T # {}
  PROVE  \E m \in T : \A n \in T : m <= n
<1>1. PICK m \in T : \A n \in T : ~ (<<n, m>> \in OpToRel(<, Nat))
  BY WFMin, NatLessThanWellFounded
<1>2. \A n \in T : ~(n < m)
  BY <1>1 DEF OpToRel
<1> QED  BY <1>2

LEMMA Greatest ==
  ASSUME NEW N \in Nat, NEW S \in SUBSET (1..N), S # {}
  PROVE  \E m \in S : \A n \in S : n <= m
<1> DEFINE T == {N - n : n \in S}
<1>1. T \in SUBSET Nat /\ T # {}
  <2>1. \A n \in S : n \in 1..N /\ N - n \in Nat
    OBVIOUS
  <2> QED  BY <2>1
<1>2. PICK l \in T : \A n \in T : l <= n
  <2> HIDE DEF T
  <2> QED  BY <1>1, Least
<1>3. PICK m \in S : l = N - m
  BY <1>2
<1>4. ASSUME NEW n \in S PROVE n <= m
  <2>1. N - n \in T
    OBVIOUS
  <2>2. N - m <= N - n
    BY <1>2, <1>3, <2>1
  <2> QED  BY <2>2
<1> QED  BY <1>4

(* checkForDuplicate finds a copy, when there is one.                      *)
LEMMA MatchIsACopy ==
  ASSUME NEW q \in ClerkType, q.seen # << >>
  PROVE  FirstMatch(q) \in Copies
<1>1. PICK D \in SUBSET Copies : q.seen \in [D -> Numbers]
  BY DEF ClerkType, Sights
<1>2. CASE D = {}
  BY <1>1, <1>2
<1>3. CASE D # {}
  <2>1. \E c \in D : \A d \in D : d <= c
    BY <1>3, Greatest, IntakeBounds DEF Copies
  <2>2. \E c \in DOMAIN q.seen : \A d \in DOMAIN q.seen : d <= c
    BY <1>1, <2>1
  <2>3. FirstMatch(q) \in DOMAIN q.seen
    BY <2>2 DEF FirstMatch
  <2> QED  BY <1>1, <2>3
<1> QED  BY <1>2, <1>3

-----------------------------------------------------------------------------
(* A step of a processor: its own locals, and rows that it adds.           *)

LEMMA ClerkMoves ==
  ASSUME KeptInv, NEW k \in Clerks, NEW q, clerk' = [clerk EXCEPT ![k] = q], AtWork(q),
         q.at # "delete" \/ \A c \in q.todo \cap Copies : HasElder(c),
         UNCHANGED <<mdVars, doom>>
  PROVE  ClerksFit' /\ EldersStay' /\ SomethingStays'
<1>1. ClerksFit'
  BY DEF KeptInv, ClerksFit, AtWork
<1>2. clerk'[k] = q /\ \A l \in Clerks \ {k} : clerk'[l] = clerk[l]
  BY DEF KeptInv, ClerksFit
<1>3. \A c \in Copies : Listed(c)' => Listed(c) \/ (q.at = "delete" /\ c \in q.todo)
  BY <1>2 DEF Listed
<1>4. \A c \in Copies : HasElder(c)' <=> HasElder(c)
  BY DEF mdVars, HasElder
<1>5. EldersStay'
  BY <1>3, <1>4 DEF KeptInv, EldersStay
<1> QED  BY <1>1, <1>5 DEF KeptInv, SomethingStays, mdVars

LEMMA FreeIsFree == AtWork(Free) /\ Free.at = "idle"
<1>1. << >> \in Sights
  <2>1. << >> \in [{} -> Numbers]
    OBVIOUS
  <2> QED  BY <2>1 DEF Sights
<1> QED  BY <1>1 DEF AtWork, Free, ClerkType, Stops

LEMMA ClaimRunKeeps == ASSUME KeptInv, NEW k \in Clerks, ClaimRun(k) PROVE KeptInv'
<1>1. Free \in ClerkType /\ Free.adds = {}
  BY FreeIsFree DEF AtWork, Free
<1>2. PICK f \in ClerkType : f = Free /\ f.adds = {}
  BY <1>1
<1>3. PICK q : q = [f EXCEPT !.at = "read", !.says = waiting, !.its = TRUE]
  OBVIOUS
<1>4. waiting \subseteq Numbers /\ waiting # {}
  BY DEF ClaimRun, KeptInv, ReportsFit
<1>5. AtWork(q) /\ q.at = "read"
  BY <1>2, <1>3, <1>4 DEF AtWork, ClerkType, Stops
<1>6. clerk' = [clerk EXCEPT ![k] = q]
  BY <1>2, <1>3 DEF ClaimRun
<1> QED  BY <1>5, <1>6, ClerkMoves DEF ClaimRun, KeptInv, RowsFit, ReportsFit, mdVars, rowVars, reportVars, Committed

LEMMA SightKeeps == ASSUME KeptInv, NEW k \in Clerks, ChaptersForManga(k) PROVE KeptInv'
<1>1. PICK c \in ClerkType : c = clerk[k] /\ AtWork(c) /\ c.at = "read"
  BY DEF ChaptersForManga, KeptInv, ClerksFit
<1>2. PICK q : q = [c EXCEPT !.at = "decide", !.seen = onMd]
  OBVIOUS
<1>3. onMd \in Sights
  BY CopiesCounted DEF KeptInv, RowsFit, Sights
<1>4. AtWork(q) /\ q.at = "decide"
  BY <1>1, <1>2, <1>3 DEF AtWork, ClerkType, Stops
<1>5. clerk' = [clerk EXCEPT ![k] = q]
  BY <1>1, <1>2 DEF ChaptersForManga, KeptInv, ClerksFit
<1> QED  BY <1>4, <1>5, ClerkMoves DEF ChaptersForManga, KeptInv, RowsFit, ReportsFit, mdVars, rowVars, reportVars, Committed

LEMMA GoesOnToUploads ==
  ASSUME NEW q, AtWork(q), q.at # "idle"
  PROVE  AtWork(FromUploads(q)) /\ FromUploads(q).at \in {"dupes", "upload"}
<1>1. PICK r \in ClerkType : r = q
  BY DEF AtWork
<1>2. PICK s : s = [r EXCEPT !.at = IF r.adds = {} THEN "dupes" ELSE "upload", !.todo = r.adds]
  OBVIOUS
<1>3. s.at \in {"dupes", "upload"} /\ AtWork(s)
  BY <1>1, <1>2 DEF AtWork, ClerkType, Stops
<1>4. FromUploads(q) = s
  BY <1>1, <1>2 DEF FromUploads
<1> QED  BY <1>3, <1>4

LEMMA GoesOnToEdits ==
  ASSUME NEW q, AtWork(q), q.at # "idle"
  PROVE  AtWork(FromEdits(q)) /\ FromEdits(q).at \in {"edit", "dupes", "upload"}
<1>1. PICK r \in ClerkType : r = q
  BY DEF AtWork
<1>2. PICK s : s = [r EXCEPT !.at = "edit"]
  OBVIOUS
<1>3. s.at = "edit" /\ AtWork(s)
  BY <1>1, <1>2 DEF AtWork, ClerkType, Stops
<1>4. FromEdits(q) = IF q.todo = {} THEN FromUploads(q) ELSE s
  BY <1>1, <1>2 DEF FromEdits
<1> QED  BY <1>3, <1>4, GoesOnToUploads

LEMMA DecideKeeps == ASSUME KeptInv, NEW k \in Clerks, DecideForManga(k) PROVE KeptInv'
<1>1. PICK c \in ClerkType : c = clerk[k] /\ AtWork(c) /\ c.at = "decide"
  BY DEF DecideForManga, KeptInv, ClerksFit
<1>2. DOMAIN onMd \subseteq Copies
  BY CopiesCounted
<1>3. ToUpload(c) \subseteq c.says
  BY DEF ToUpload, Unmatched
<1>4. ToEdit(c) \subseteq Copies
  BY MatchIsACopy DEF ToEdit
<1>5. PICK a : a = ToUpload(c)
  OBVIOUS
<1>6. PICK t : t = ToEdit(c)
  OBVIOUS
<1>7. PICK q : q = [c EXCEPT !.ids = DOMAIN onMd, !.adds = a, !.todo = t, !.seen = << >>]
  OBVIOUS
<1>8. << >> \in Sights
  BY FreeIsFree DEF AtWork, Free, ClerkType
<1>9. AtWork(q) /\ q.at = "decide"
  BY <1>1, <1>2, <1>3, <1>4, <1>5, <1>6, <1>7, <1>8 DEF AtWork, ClerkType, Stops
<1>10. clerk' = [clerk EXCEPT ![k] = FromEdits(q)]
  BY <1>1, <1>5, <1>6, <1>7 DEF DecideForManga
<1>11. AtWork(FromEdits(q)) /\ FromEdits(q).at # "delete"
  BY <1>9, GoesOnToEdits
<1> QED  BY <1>10, <1>11, ClerkMoves
     DEF DecideForManga, KeptInv, RowsFit, ReportsFit, mdVars, rowVars, reportVars, Committed

LEMMA EnqueueEditKeeps ==
  ASSUME KeptInv, NEW k \in Clerks, NEW c \in Copies, EnqueueEdit(k, c)
  PROVE  KeptInv'
<1>1. PICK r \in ClerkType : r = clerk[k] /\ AtWork(r) /\ r.at = "edit"
  BY DEF EnqueueEdit, KeptInv, ClerksFit
<1>2. PICK q : q = [r EXCEPT !.todo = r.todo \ {c}]
  OBVIOUS
<1>3. AtWork(q) /\ q.at = "edit"
  BY <1>1, <1>2 DEF AtWork, ClerkType, Stops
<1>4. clerk' = [clerk EXCEPT ![k] = FromEdits(q)]
  <2>1. clerk' = [clerk EXCEPT ![k] = FromEdits([r EXCEPT !.todo = r.todo \ {c}])]
    BY <1>1 DEF EnqueueEdit
  <2> QED  BY <1>2, <2>1
<1>5. AtWork(FromEdits(q)) /\ FromEdits(q).at # "delete"
  BY <1>3, GoesOnToEdits
<1>6. edit' \in [Copies -> EditType] /\ \A e \in Copies : edit'[e].at = "pending" => edit'[e].to # 0
  <2>1. PICK n \in r.says :
          edit' = IF edit[c] = NoEdit THEN [edit EXCEPT ![c] = [at |-> "pending", to |-> n]] ELSE edit
    BY <1>1 DEF EnqueueEdit
  <2>2. n \in Numbers /\ n # 0
    BY IntakeBounds DEF ClerkType
  <2>3. [at |-> "pending", to |-> n] \in EditType
    BY <2>2 DEF EditType
  <2> QED  BY <2>1, <2>2, <2>3 DEF KeptInv, RowsFit
<1>7. RowsFit'
  BY <1>6 DEF EnqueueEdit, KeptInv, RowsFit, mdVars, Committed
<1> QED  BY <1>4, <1>5, <1>7, ClerkMoves DEF EnqueueEdit, KeptInv, ReportsFit, mdVars, reportVars

(* A number's row is not taken back once it is done.                       *)
LEMMA RowsMove ==
  ASSUME KeptInv, UNCHANGED <<mdVars, edit, doom>>,
         upload' \in [Numbers -> RowStates],
         \A n \in Numbers : upload'[n] = "done" <=> upload[n] = "done"
  PROVE  RowsFit'
<1>1. Committed' = Committed
  BY DEF Committed
<1> QED  BY <1>1 DEF KeptInv, RowsFit, mdVars

LEMMA EnqueueUploadKeeps ==
  ASSUME KeptInv, NEW k \in Clerks, NEW n \in Numbers, EnqueueUpload(k, n)
  PROVE  KeptInv'
<1>1. PICK r \in ClerkType : r = clerk[k] /\ AtWork(r) /\ r.at = "upload"
  BY DEF EnqueueUpload, KeptInv, ClerksFit
<1>2. PICK q : q = [r EXCEPT !.todo = r.todo \ {n}, !.at = IF r.todo = {n} THEN "supersede" ELSE "upload"]
  OBVIOUS
<1>3. AtWork(q) /\ q.at # "delete"
  BY <1>1, <1>2 DEF AtWork, ClerkType, Stops
<1>4. clerk' = [clerk EXCEPT ![k] = q]
  BY <1>1, <1>2 DEF EnqueueUpload, KeptInv, ClerksFit
<1>5. RowsFit'
  <2>1. /\ upload' \in [Numbers -> RowStates]
        /\ \A m \in Numbers : upload'[m] = "done" <=> upload[m] = "done"
    BY DEF EnqueueUpload, KeptInv, RowsFit, RowStates
  <2> QED  BY <2>1, RowsMove DEF EnqueueUpload
<1> QED  BY <1>3, <1>4, <1>5, ClerkMoves DEF EnqueueUpload, KeptInv, ReportsFit, mdVars, reportVars

LEMMA SupersedeKeeps == ASSUME KeptInv, NEW k \in Clerks, SupersedeOthers(k) PROVE KeptInv'
<1>1. PICK r \in ClerkType : r = clerk[k] /\ AtWork(r) /\ r.at = "supersede"
  BY DEF SupersedeOthers, KeptInv, ClerksFit
<1>2. PICK q : q = [r EXCEPT !.at = "dupes"]
  OBVIOUS
<1>3. AtWork(q) /\ q.at # "delete"
  BY <1>1, <1>2 DEF AtWork, ClerkType, Stops
<1>4. clerk' = [clerk EXCEPT ![k] = q]
  BY <1>1, <1>2 DEF SupersedeOthers, KeptInv, ClerksFit
<1>5. RowsFit'
  <2>1. /\ upload' \in [Numbers -> RowStates]
        /\ \A m \in Numbers : upload'[m] = "done" <=> upload[m] = "done"
    BY DEF SupersedeOthers, KeptInv, RowsFit, RowStates
  <2> QED  BY <2>1, RowsMove DEF SupersedeOthers
<1>6. failures' \in 0..MaxFailures
  BY IntakeBounds DEF SupersedeOthers, Failure, KeptInv, ReportsFit
<1> QED  BY <1>3, <1>4, <1>5, <1>6, ClerkMoves DEF SupersedeOthers, KeptInv, ReportsFit, mdVars, reportVars

(* Of the copies it knows a pass leaves the oldest, or a declared number   *)
(* each: whatever it lists has an older one beside it.                     *)
LEMMA OlderIsSpared ==
  ASSUME KeptInv, NEW k \in Clerks, NEW cs \in SUBSET DOMAIN onMd, NEW c \in cs, ~IsSpared(k, cs, c)
  PROVE  HasElder(c)
<1> DEFINE older == {e \in cs : e < c}
<1>1. ~(parts = {} /\ older = {}) /\ ~(onMd[c] \in parts /\ ~(parts \subseteq {onMd[e] : e \in older}))
  BY DEF IsSpared
<1>2. onMd[c] \in Numbers /\ parts \in {{}, Numbers}
  BY DEF KeptInv, RowsFit, ReportsFit
<1>3. older # {}
  <2>1. CASE parts = {}
    BY <1>1, <2>1
  <2>2. CASE parts = Numbers
    BY <1>1, <1>2, <2>2
  <2> QED  BY <1>2, <2>1, <2>2
<1> QED  BY <1>3 DEF HasElder

LEMMA FindDuplicatesKeeps == ASSUME KeptInv, NEW k \in Clerks, FindDuplicates(k) PROVE KeptInv'
<1> DEFINE cs == clerk[k].ids \cap DOMAIN onMd
           surplus == {c \in cs : ~IsSpared(k, cs, c)}
<1>1. PICK r \in ClerkType : r = clerk[k] /\ AtWork(r) /\ r.at = "dupes"
  BY DEF FindDuplicates, KeptInv, ClerksFit
<1>2. PICK t : t = surplus
  OBVIOUS
<1>3. t \subseteq Copies /\ \A c \in t : HasElder(c)
  <2>1. cs \in SUBSET DOMAIN onMd
    OBVIOUS
  <2>2. DOMAIN onMd \subseteq Copies
    BY CopiesCounted
  <2> QED  BY <1>2, <2>1, <2>2, OlderIsSpared
<1>4. PICK q : q = [r EXCEPT !.at = IF t = {} THEN "mark" ELSE "delete", !.todo = t]
  OBVIOUS
<1>5. AtWork(q) /\ q.todo = t
  BY <1>1, <1>3, <1>4 DEF AtWork, ClerkType, Stops
<1>6. clerk' = [clerk EXCEPT ![k] = q]
  BY <1>1, <1>2, <1>4 DEF FindDuplicates, KeptInv, ClerksFit
<1>7. UNCHANGED <<mdVars, doom>> /\ UNCHANGED <<entry, parts, rowVars, reportVars, changes, failures>>
  BY DEF FindDuplicates, rowVars
<1> HIDE DEF cs, surplus
<1>8. ClerksFit' /\ EldersStay' /\ SomethingStays'
  BY <1>3, <1>5, <1>6, <1>7, ClerkMoves
<1> QED  BY <1>7, <1>8 DEF KeptInv, RowsFit, ReportsFit, mdVars, rowVars, reportVars, Committed

LEMMA EnqueueDeleteKeeps ==
  ASSUME KeptInv, NEW k \in Clerks, NEW c \in Copies, EnqueueDelete(k, c)
  PROVE  KeptInv'
<1>1. PICK r \in ClerkType : r = clerk[k] /\ AtWork(r) /\ r.at = "delete" /\ c \in r.todo
  BY DEF EnqueueDelete, KeptInv, ClerksFit
<1>2. PICK q : q = [r EXCEPT !.todo = r.todo \ {c}, !.at = IF r.todo = {c} THEN "mark" ELSE "delete"]
  OBVIOUS
<1>3. AtWork(q) /\ q.todo \subseteq r.todo
  BY <1>1, <1>2 DEF AtWork, ClerkType, Stops
<1>4. clerk' = [clerk EXCEPT ![k] = q]
  BY <1>1, <1>2 DEF EnqueueDelete, KeptInv, ClerksFit
<1>5. ClerksFit' /\ clerk'[k] = q /\ \A l \in Clerks \ {k} : clerk'[l] = clerk[l]
  BY <1>3, <1>4 DEF KeptInv, ClerksFit, AtWork
<1>6. doom' \in [Copies -> {"none", "pending", "done"}]
      /\ \A e \in Copies : doom'[e] = "pending" => doom[e] = "pending" \/ e = c
  BY DEF EnqueueDelete, KeptInv, RowsFit
<1>7. \A e \in Copies : Listed(e)' => Listed(e)
  BY <1>1, <1>3, <1>5 DEF Listed
<1>8. Listed(c)
  BY <1>1 DEF Listed
<1>9. EldersStay'
  <2>1. \A e \in Copies : HasElder(e)' <=> HasElder(e)
    BY DEF EnqueueDelete, mdVars, HasElder
  <2> QED  BY <1>6, <1>7, <1>8, <2>1 DEF KeptInv, EldersStay
<1> QED  BY <1>5, <1>6, <1>9
     DEF EnqueueDelete, KeptInv, RowsFit, ReportsFit, SomethingStays, mdVars, reportVars, Committed

LEMMA MarkProcessedKeeps == ASSUME KeptInv, NEW k \in Clerks, MarkProcessed(k) PROVE KeptInv'
<1>1. ASSUME clerk[k].its
      PROVE  ClerksFit' /\ EldersStay'
  <2>1. clerk' = [l \in Clerks |-> IF l = k THEN Free ELSE [clerk[l] EXCEPT !.its = FALSE]]
    BY <1>1 DEF MarkProcessed
  <2>2. ASSUME NEW l \in Clerks
        PROVE  AtWork(clerk'[l]) /\ (clerk'[l].at = "idle" \/ (clerk'[l].at = clerk[l].at /\ clerk'[l].todo = clerk[l].todo))
    <3>1. PICK r \in ClerkType : r = clerk[l] /\ AtWork(r)
      BY DEF KeptInv, ClerksFit
    <3>2. PICK q : q = [r EXCEPT !.its = FALSE]
      OBVIOUS
    <3>3. AtWork(q) /\ q.at = r.at /\ q.todo = r.todo
      BY <3>1, <3>2 DEF AtWork, ClerkType, Stops
    <3>4. clerk'[l] = IF l = k THEN Free ELSE q
      BY <2>1, <3>1, <3>2
    <3> QED  BY <3>1, <3>3, <3>4, FreeIsFree
  <2>3. ClerksFit'
    BY <2>1, <2>2 DEF ClerksFit, AtWork
  <2>4. \A c \in Copies : Listed(c)' => Listed(c)
    BY <2>2 DEF Listed
  <2>5. \A c \in Copies : HasElder(c)' <=> HasElder(c)
    BY DEF MarkProcessed, mdVars, HasElder
  <2> QED  BY <2>3, <2>4, <2>5 DEF MarkProcessed, rowVars, KeptInv, EldersStay
<1>2. ASSUME ~clerk[k].its
      PROVE  ClerksFit' /\ EldersStay'
  BY <1>2, FreeIsFree, ClerkMoves DEF MarkProcessed, mdVars, rowVars
<1> QED  BY <1>1, <1>2
     DEF MarkProcessed, KeptInv, RowsFit, ReportsFit, SomethingStays, mdVars, rowVars, reportVars, Committed

LEMMA BreaksKeeps == ASSUME KeptInv, NEW k \in Clerks, Breaks(k) PROVE KeptInv'
<1>1. failures' \in 0..MaxFailures
  BY IntakeBounds DEF Breaks, Failure, KeptInv, ReportsFit
<1> QED  BY <1>1, FreeIsFree, ClerkMoves
     DEF Breaks, KeptInv, RowsFit, ReportsFit, mdVars, rowVars, reportVars, Committed

-----------------------------------------------------------------------------
(* The uploader, and the publisher                                         *)

(* What leaves the processors and the rows of deletions alone.             *)
LEMMA EldersKept ==
  ASSUME KeptInv, UNCHANGED <<clerk, doom>>, DOMAIN onMd \subseteq DOMAIN onMd'
  PROVE  EldersStay'
<1>1. \A c \in Copies : (Listed(c)' <=> Listed(c)) /\ (HasElder(c) => HasElder(c)')
  BY DEF Listed, HasElder
<1> QED  BY <1>1 DEF KeptInv, EldersStay

LEMMA LeaseUploadKeeps == ASSUME KeptInv, NEW n \in Numbers, LeaseUpload(n) PROVE KeptInv'
<1>1. RowsFit'
  <2>1. /\ upload' \in [Numbers -> RowStates]
        /\ \A m \in Numbers : upload'[m] = "done" <=> upload[m] = "done"
    BY DEF LeaseUpload, KeptInv, RowsFit, RowStates
  <2> QED  BY <2>1, RowsMove DEF LeaseUpload
<1>2. EldersStay'
  BY EldersKept DEF LeaseUpload, mdVars
<1> QED  BY <1>1, <1>2
     DEF LeaseUpload, KeptInv, ReportsFit, ClerksFit, SomethingStays, mdVars, reportVars

LEMMA CommitUploadKeeps == ASSUME KeptInv, NEW n \in Numbers, CommitUpload(n) PROVE KeptInv'
<1>1. Committed' = Committed \cup {n} /\ n \notin Committed
  BY DEF CommitUpload, KeptInv, RowsFit, Committed
<1>2. IsFiniteSet(Committed) /\ made = Cardinality(Committed) /\ made \in Nat
  <2>1. Committed \subseteq Numbers
    BY DEF Committed
  <2> QED  BY <2>1, CopiesCounted, IntakeBounds, FS_Subset DEF KeptInv, RowsFit
<1>3. made' = Cardinality(Committed') /\ made' = made + 1
  BY <1>1, <1>2, FS_AddElement DEF CommitUpload
<1>4. /\ DOMAIN onMd' = DOMAIN onMd \cup {made + 1}
      /\ onMd' \in [DOMAIN onMd' -> Numbers]
  BY DEF CommitUpload, KeptInv, RowsFit
<1>5. DOMAIN onMd' \subseteq 1..made'
  BY <1>2, <1>3, <1>4 DEF KeptInv, RowsFit
<1>6. upload' \in [Numbers -> RowStates]
  BY DEF CommitUpload, KeptInv, RowsFit, RowStates
<1>7. RowsFit'
  BY <1>3, <1>4, <1>5, <1>6 DEF CommitUpload, KeptInv, RowsFit
<1>8. EldersStay'
  BY <1>4, EldersKept DEF CommitUpload
<1> QED  BY <1>4, <1>7, <1>8
     DEF CommitUpload, KeptInv, ReportsFit, ClerksFit, SomethingStays, reportVars

LEMMA RunEditKeeps == ASSUME KeptInv, NEW c \in Copies, RunEdit(c) PROVE KeptInv'
<1>1. PICK r \in EditType : r = edit[c] /\ r.at = "pending" /\ r.to # 0
  BY DEF RunEdit, KeptInv, RowsFit
<1>2. r.to \in Numbers
  BY <1>1 DEF EditType
<1>3. PICK q : q = [r EXCEPT !.at = IF c \in DOMAIN onMd THEN "done" ELSE "dead"]
  OBVIOUS
<1>4. q \in EditType /\ q.at # "pending"
  BY <1>3 DEF EditType
<1>5. edit' = [edit EXCEPT ![c] = q]
  BY <1>1, <1>3 DEF RunEdit, KeptInv, RowsFit
<1>6. edit' \in [Copies -> EditType] /\ \A e \in Copies : edit'[e].at = "pending" => edit'[e].to # 0
  BY <1>4, <1>5 DEF KeptInv, RowsFit
<1>7. DOMAIN onMd' = DOMAIN onMd /\ onMd' \in [DOMAIN onMd' -> Numbers]
  BY <1>1, <1>2 DEF RunEdit, KeptInv, RowsFit
<1>8. RowsFit'
  BY <1>6, <1>7 DEF RunEdit, KeptInv, RowsFit, Committed
<1>9. EldersStay'
  BY <1>7, EldersKept DEF RunEdit
<1> QED  BY <1>7, <1>8, <1>9
     DEF RunEdit, KeptInv, ReportsFit, ClerksFit, SomethingStays, reportVars

(* The copy that goes has an older one, and so has whatever that one was   *)
(* the elder of.                                                           *)
LEMMA RunDeleteKeeps == ASSUME KeptInv, NEW c \in Copies, RunDelete(c) PROVE KeptInv'
<1>1. DOMAIN onMd' = DOMAIN onMd \ {c} /\ onMd' \in [DOMAIN onMd' -> Numbers]
  BY DEF RunDelete, Restrict, KeptInv, RowsFit
<1>2. PICK e \in DOMAIN onMd : e < c
  BY DEF RunDelete, KeptInv, EldersStay, HasElder
<1>3. DOMAIN onMd \subseteq Nat /\ c \in Nat
  BY CopiesCounted, IntakeBounds
<1>4. e \in DOMAIN onMd'
  BY <1>1, <1>2, <1>3
<1>5. doom' \in [Copies -> {"none", "pending", "done"}]
      /\ \A d \in Copies : doom'[d] = "pending" => doom[d] = "pending"
  BY DEF RunDelete, KeptInv, RowsFit
<1>6. RowsFit'
  BY <1>1, <1>5 DEF RunDelete, KeptInv, RowsFit, Committed
<1>7. ASSUME NEW d \in Copies, doom'[d] = "pending" \/ Listed(d)'
      PROVE  HasElder(d)'
  <2>1. doom[d] = "pending" \/ Listed(d)
    BY <1>5, <1>7 DEF RunDelete, Listed
  <2>2. PICK f \in DOMAIN onMd : f < d
    BY <2>1 DEF KeptInv, EldersStay, HasElder
  <2>3. CASE f = c
    <3>1. e < d
      BY <1>2, <1>3, <2>2, <2>3, IntakeBounds
    <3> QED  BY <1>4, <3>1 DEF HasElder
  <2>4. CASE f # c
    BY <1>1, <2>2, <2>4 DEF HasElder
  <2> QED  BY <2>3, <2>4
<1>8. EldersStay'
  BY <1>7 DEF EldersStay
<1> QED  BY <1>4, <1>6, <1>8
     DEF RunDelete, KeptInv, ReportsFit, ClerksFit, SomethingStays, reportVars

LEMMA IntakeInductive ==
  ASSUME KeptInv, [IntakeNext]_intakeVars
  PROVE  KeptInv'
<1>1. ASSUME NEW numbers \in Entries, Reissue(numbers)
      PROVE  KeptInv'
  <2>1. ReportsFit'
    BY <1>1, IntakeBounds DEF Reissue, KeptInv, ReportsFit, reportVars
  <2>2. EldersStay'
    BY <1>1, EldersKept DEF Reissue, mdVars, rowVars
  <2> QED  BY <1>1, <2>1, <2>2 DEF Reissue, KeptInv, RowsFit, ClerksFit, SomethingStays, mdVars, rowVars, Committed
<1>2. ASSUME NEW numbers \in SUBSET Numbers, NEW clean \in BOOLEAN, Settles(numbers, clean)
      PROVE  KeptInv'
  <2>1. ReportsFit'
    BY <1>2 DEF Settles, KeptInv, ReportsFit
  <2>2. EldersStay'
    BY <1>2, EldersKept DEF Settles, mdVars, rowVars
  <2> QED  BY <1>2, <2>1, <2>2 DEF Settles, KeptInv, RowsFit, ClerksFit, SomethingStays, mdVars, rowVars, Committed
<1>3. ASSUME NEW k \in Clerks, ClerkStep(k)
      PROVE  KeptInv'
  <2>1. ASSUME \/ ClaimRun(k) \/ ChaptersForManga(k) \/ DecideForManga(k)
               \/ SupersedeOthers(k) \/ FindDuplicates(k) \/ MarkProcessed(k)
        PROVE  KeptInv'
    BY <2>1, ClaimRunKeeps, SightKeeps, DecideKeeps, SupersedeKeeps, FindDuplicatesKeeps, MarkProcessedKeeps
  <2>2. ASSUME NEW c \in Copies, EnqueueEdit(k, c) \/ EnqueueDelete(k, c)
        PROVE  KeptInv'
    BY <2>2, EnqueueEditKeeps, EnqueueDeleteKeeps
  <2>3. ASSUME NEW n \in Numbers, EnqueueUpload(k, n)
        PROVE  KeptInv'
    BY <2>3, EnqueueUploadKeeps
  <2> QED  BY <1>3, <2>1, <2>2, <2>3 DEF ClerkStep
<1>4. ASSUME NEW k \in Clerks, Breaks(k)
      PROVE  KeptInv'
  BY <1>4, BreaksKeeps
<1>5. CASE Drain
  <2>1. ASSUME NEW n \in Numbers, LeaseUpload(n) \/ CommitUpload(n)
        PROVE  KeptInv'
    BY <2>1, LeaseUploadKeeps, CommitUploadKeeps
  <2>2. ASSUME NEW c \in Copies, RunEdit(c) \/ RunDelete(c)
        PROVE  KeptInv'
    BY <2>2, RunEditKeeps, RunDeleteKeeps
  <2> QED  BY <1>5, <2>1, <2>2 DEF Drain
<1>6. CASE UNCHANGED intakeVars
  <2>1. EldersStay'
    BY <1>6, EldersKept DEF intakeVars, mdVars, rowVars
  <2> QED  BY <1>6, <2>1
       DEF intakeVars, KeptInv, RowsFit, ReportsFit, ClerksFit, SomethingStays, mdVars, rowVars, reportVars, Committed
<1> QED  BY <1>1, <1>2, <1>3, <1>4, <1>5, <1>6 DEF IntakeNext

LEMMA IntakeStart == IntakeInit => KeptInv
<1> SUFFICES ASSUME IntakeInit PROVE KeptInv
  OBVIOUS
<1>1. Committed = {}
  BY DEF IntakeInit, Committed
<1>2. RowsFit
  <2>1. NoEdit \in EditType /\ NoEdit.at = "none"
    BY DEF NoEdit, EditType
  <2>2. edit \in [Copies -> EditType] /\ \A c \in Copies : edit[c].at = "none"
    BY <2>1 DEF IntakeInit
  <2>3. onMd \in [DOMAIN onMd -> Numbers] /\ DOMAIN onMd = {}
    BY DEF IntakeInit
  <2>4. made = Cardinality(Committed)
    BY <1>1, FS_EmptySet DEF IntakeInit
  <2> QED  BY <2>2, <2>3, <2>4 DEF IntakeInit, RowsFit, RowStates
<1>3. ReportsFit
  <2>1. changes \in 0..MaxChanges /\ failures \in 0..MaxFailures
    BY IntakeBounds DEF IntakeInit
  <2>2. waiting \subseteq Numbers /\ whole \in BOOLEAN
    BY DEF IntakeInit
  <2> QED  BY <2>1, <2>2 DEF IntakeInit, ReportsFit
<1>4. ClerksFit /\ \A k \in Clerks : clerk[k].at = "idle"
  BY FreeIsFree DEF IntakeInit, ClerksFit, AtWork
<1>5. EldersStay /\ SomethingStays
  BY <1>4 DEF IntakeInit, EldersStay, Listed, SomethingStays
<1> QED  BY <1>2, <1>3, <1>4, <1>5 DEF KeptInv

(* An entry that was published stays published: however many processors    *)
(* decide on their own and older sights of MangaDex, whatever fails and    *)
(* whatever the publisher makes of it, deleteDuplicates spares some copy.  *)
THEOREM EntriesStay == IntakeSpec => []IntakeInv
<1>1. KeptInv => IntakeInv
  <2> SUFFICES ASSUME KeptInv PROVE IntakeInv
    OBVIOUS
  <2>1. made \in 0..Cardinality(Numbers) /\ DOMAIN onMd \subseteq Copies
    BY CopiesCounted, IntakeBounds
  <2>2. Range(onMd) \subseteq Numbers
    BY DEF KeptInv, RowsFit, Range
  <2>3. parts \subseteq Numbers
    BY DEF KeptInv, ReportsFit
  <2>4. ASSUME NEW k \in Clerks
        PROVE  /\ clerk[k].at \in Stops /\ (clerk[k].at = "idle") = (clerk[k].says = {})
               /\ clerk[k].ids \subseteq Copies /\ clerk[k].adds \subseteq clerk[k].says
    BY DEF KeptInv, ClerksFit, AtWork, ClerkType
  <2>5. IntakeTypeOK
    BY <2>1, <2>2, <2>3, <2>4
    DEF KeptInv, RowsFit, ReportsFit, IntakeTypeOK, EditType, RowStates, Stops
  <2>6. EntryStays
    BY DEF KeptInv, SomethingStays, EntryStays
  <2> QED  BY <2>5, <2>6 DEF IntakeInv
<1> QED  BY <1>1, IntakeStart, IntakeInductive, PTL DEF IntakeSpec
-----------------------------------------------------------------------------
(* The release schedule: the loops, turn by turn                           *)

(* Some turns of the loops, the first m of them.                           *)
FirstTurns(g, m, p, load) ==
  /\ g[0] = Opening(p, load)
  /\ \A n \in 1..m : g[n] = Turn(p, g[n - 1], load)

(* The definition of Turns by recursion says what it seems to.             *)
LEMMA TurnsAreTurns ==
  ASSUME NEW p, NEW load
  PROVE  /\ Turns(p, load)[0] = Opening(p, load)
         /\ \A n \in Nat : Turns(p, load)[n + 1] = Turn(p, Turns(p, load)[n], load)
<1> DEFINE Are(g, m) == FirstTurns(g, m, p, load)
           Begins(m) == \E g : Are(g, m)
           Step(g) == [n \in Nat |-> IF n = 0 THEN Opening(p, load) ELSE Turn(p, g[n - 1], load)]
<1>1. ASSUME NEW m \in Nat PROVE Begins(m)
  <2> SUFFICES ASSUME ~Begins(m) PROVE FALSE
    OBVIOUS
  <2>1. PICK k \in Nat : ~Begins(k) /\ \A n \in Nat : ~Begins(n) => k <= n
    <3> DEFINE T == {n \in Nat : ~Begins(n)}
    <3>1. m \in T /\ T \in SUBSET Nat
      OBVIOUS
    <3>2. \E n \in T : \A l \in T : n <= l
      <4> HIDE DEF T
      <4> QED  BY <3>1, Least
    <3> QED  BY <3>2
  <2>2. k # 0
    <3>1. Are([n \in {0} |-> Opening(p, load)], 0)
      BY DEF FirstTurns
    <3> QED  BY <2>1, <3>1
  <2>3. PICK g : Are(g, k - 1)
    BY <2>1, <2>2
  <2> DEFINE h == [n \in 0..k |-> IF n = k THEN Turn(p, g[k - 1], load) ELSE g[n]]
  <2>4. Are(h, k)
    <3>1. h[0] = Opening(p, load)
      BY <2>2, <2>3 DEF FirstTurns
    <3>2. ASSUME NEW n \in 1..k PROVE h[n] = Turn(p, h[n - 1], load)
      <4>1. n - 1 \in 0..k /\ n - 1 # k /\ h[n - 1] = g[n - 1]
        OBVIOUS
      <4>2. CASE n = k
        BY <4>1, <4>2
      <4>3. CASE n # k
        BY <4>1, <4>3, <2>3 DEF FirstTurns
      <4> QED  BY <4>2, <4>3
    <3> QED  BY <3>1, <3>2 DEF FirstTurns
  <2> QED  BY <2>1, <2>4
<1>2. ASSUME NEW g, NEW h, NEW m \in Nat, NEW l \in Nat, Are(g, m), Are(h, l), NEW n \in Nat, n <= m, n <= l
      PROVE  g[n] = h[n]
  <2> SUFFICES ASSUME g[n] # h[n] PROVE FALSE
    OBVIOUS
  <2>1. PICK k \in 0..n : g[k] # h[k] /\ \A j \in 0..n : g[j] # h[j] => k <= j
    <3> DEFINE T == {j \in 0..n : g[j] # h[j]}
    <3>1. n \in T /\ T \in SUBSET Nat
      OBVIOUS
    <3>2. \E i \in T : \A j \in T : i <= j
      <4> HIDE DEF T
      <4> QED  BY <3>1, Least
    <3> QED  BY <3>2
  <2>2. CASE k = 0
    BY <1>2, <2>1, <2>2 DEF FirstTurns
  <2>3. CASE k # 0
    <3>1. k - 1 \in 0..n /\ g[k - 1] = h[k - 1] /\ k \in 1..m /\ k \in 1..l
      BY <1>2, <2>1, <2>3
    <3> QED  BY <1>2, <2>1, <3>1 DEF FirstTurns
  <2> QED  BY <2>2, <2>3
<1> DEFINE upTo(m) == CHOOSE g : Are(g, m)
           chain == [n \in Nat |-> upTo(n)[n]]
<1>3. \A m \in Nat : Are(upTo(m), m)
  BY <1>1
<1>4. chain = Step(chain)
  <2>1. ASSUME NEW n \in Nat PROVE chain[n] = Step(chain)[n]
    <3>1. CASE n = 0
      <4>1. Are(upTo(0), 0)
        BY <1>3
      <4> QED  BY <3>1, <4>1 DEF FirstTurns
    <3>2. CASE n # 0
      <4>1. n - 1 \in Nat /\ n \in 1..n /\ Are(upTo(n), n) /\ Are(upTo(n - 1), n - 1)
        BY <1>3, <3>2
      <4>2. upTo(n)[n - 1] = upTo(n - 1)[n - 1]
        <5> HIDE DEF Are, upTo
        <5> QED  BY <1>2, <4>1
      <4>3. upTo(n)[n] = Turn(p, upTo(n)[n - 1], load)
        BY <4>1 DEF FirstTurns
      <4>4. chain[n] = upTo(n)[n] /\ chain[n - 1] = upTo(n - 1)[n - 1]
        BY <4>1
      <4>5. Step(chain)[n] = Turn(p, chain[n - 1], load)
        BY <3>2
      <4> QED  BY <4>2, <4>3, <4>4, <4>5
    <3> QED  BY <3>1, <3>2
  <2>2. chain = [n \in Nat |-> chain[n]] /\ Step(chain) = [n \in Nat |-> Step(chain)[n]]
    OBVIOUS
  <2> QED  BY <2>1, <2>2
<1>5. Turns(p, load) = CHOOSE g : g = Step(g)
  BY DEF Turns
<1>6. Turns(p, load) = Step(Turns(p, load))
  <2> HIDE DEF Step, chain
  <2> QED  BY <1>4, <1>5
<1>7. Turns(p, load)[0] = Opening(p, load)
  BY <1>6
<1>8. ASSUME NEW n \in Nat PROVE Turns(p, load)[n + 1] = Turn(p, Turns(p, load)[n], load)
  <2>1. n + 1 \in Nat /\ n + 1 # 0 /\ (n + 1) - 1 = n
    OBVIOUS
  <2> QED  BY <1>6, <2>1
<1> QED  BY <1>7, <1>8
-----------------------------------------------------------------------------
(* What the loops know                                                     *)

Dated(p) == [chapter : PendingUploads(p), bucket : Nat, at : Int]
PerSeries == [SeriesKeys -> Nat]
LocalsType(p) ==
  [out : Seq(Dated(p)), cursor : PerSeries, spacing : Nat, bucket : Nat, placed : Nat,
   turn : 1..(Len(Series) + 1), progressed : BOOLEAN, per : PerSeries]

(* A load is of finitely many buckets.                                     *)
LoadFits(load) ==
  /\ IsFiniteSet(DOMAIN load)
  /\ \A b \in DOMAIN load : load[b] \in [total : Nat, perManga : PerSeries]

(* What a plan has put into a bucket, all in all and of a series.          *)
Here(s, b) == {i \in 1..Len(s.out) : s.out[i].bucket = b}
HereOf(s, b, key) == {i \in Here(s, b) : SeriesOf(s.out[i].chapter) = key}
Taken(s) == {s.out[i].chapter : i \in 1..Len(s.out)}

(* Chapters are taken series by series, in their order, each once.         *)
TakenInOrder(p, s) ==
  /\ \A key \in SeriesKeys : s.cursor[key] <= Backlog[p][key]
  /\ Taken(s) = UNION {{Chapter(key, p, i) : i \in 1..s.cursor[key]} : key \in SeriesKeys}
  /\ Cardinality(Taken(s)) = Len(s.out)

(* Buckets are gone through one by one, from the current one.              *)
Onwards(s) ==
  /\ Bucket(hour) <= s.bucket
  /\ \A i \in 1..Len(s.out) : s.out[i].bucket \in Bucket(hour)..s.bucket

(* The counters are the prior load and what has been put in since ...      *)
CountersAgree(s, load) ==
  /\ s.placed = Placed(load, s.bucket) + Cardinality(Here(s, s.bucket))
  /\ \A key \in SeriesKeys :
       s.per[key] = PlacedOf(load, s.bucket, key) + Cardinality(HereOf(s, s.bucket, key))

(* ... and no bucket has been given more than was free.                    *)
Capped(s, load) == \A b \in Nat :
  /\ PerDay = 0 \/ Here(s, b) = {} \/ Placed(load, b) + Cardinality(Here(s, b)) <= PerDay
  /\ PerMangaPerDay = 0 \/ \A key \in SeriesKeys :
       HereOf(s, b, key) = {} \/ PlacedOf(load, b, key) + Cardinality(HereOf(s, b, key)) <= PerMangaPerDay

(* The series that have had their turn in the current bucket.              *)
Served(p, s, load, key) ==
  \/ HereOf(s, s.bucket, key) # {} \/ PlacedOf(load, s.bucket, key) # 0
  \/ s.cursor[key] = Backlog[p][key] \/ ~Below(s.placed, PerDay)

(* In the first round of a bucket they are the ones up to the turn, and    *)
(* nobody has two chapters in it; in the later rounds they are all.        *)
TurnByTurn(p, s, load) ==
  \/ \A key \in SeriesKeys : Served(p, s, load, key)
  \/ /\ \A i \in 1..(s.turn - 1) : Served(p, s, load, Series[i])
     /\ \A i \in s.turn..Len(Series) : HereOf(s, s.bucket, Series[i]) = {}
     /\ \A key \in SeriesKeys : \A i, j \in HereOf(s, s.bucket, key) : i = j

(* NoSeriesWaits, of what has been placed so far.                          *)
Twice(s, b) == \E key \in SeriesKeys : \E i, j \in HereOf(s, b, key) : i # j
NobodyWaits(p, s, load) == \A b \in Nat, key \in SeriesKeys :
  Twice(s, b) /\ HereOf(s, b, key) = {} /\ PlacedOf(load, b, key) = 0 =>
    /\ s.cursor[key] = Backlog[p][key]
    /\ \A i \in 1..Len(s.out) : SeriesOf(s.out[i].chapter) = key => s.out[i].bucket < b

(* How many turns it has taken.                                            *)
Passed(s) == s.bucket - Bucket(hour)
InTime(p, s, load, n) ==
  /\ s.progressed => Here(s, s.bucket) # {}
  /\ (Bucket(hour)..(s.bucket - 1)) \subseteq DOMAIN load \cup {s.out[i].bucket : i \in 1..Len(s.out)}
  /\ \/ AllPlaced(p, s)
     \/ n + 1 <= (Len(Series) + 1) * ((Len(s.out) + Passed(s)) - (IF s.progressed THEN 1 ELSE 0)) + s.turn

LoopInv(p, s, load, n) ==
  /\ s \in LocalsType(p)
  /\ TakenInOrder(p, s) /\ Onwards(s)
  /\ CountersAgree(s, load) /\ Capped(s, load)
  /\ TurnByTurn(p, s, load) /\ NobodyWaits(p, s, load)
  /\ InTime(p, s, load, n)

LEMMA QuotientsAreNumbers == \A a \in Nat, b \in Nat \ {0} : a \div b \in Nat
  OBVIOUS

LEMMA SeriesInLine ==
  ASSUME hour \in Nat
  PROVE  /\ Bucket(hour) \in Nat /\ Len(Series) \in Nat
         /\ \A i \in 1..Len(Series) : Series[i] \in SeriesKeys
         /\ \A key \in SeriesKeys : \E i \in 1..Len(Series) : key = Series[i]
         /\ PerDay \in Nat /\ PerMangaPerDay \in Nat
<1>1. Bucket(hour) \in Nat
  <2>1. Interval \in Nat \ {0}
    BY SpreadAssumption
  <2> QED
    BY <2>1, QuotientsAreNumbers DEF Bucket
<1>2. Len(Series) \in Nat
  BY SpreadAssumption
<1> QED
  BY <1>1, <1>2, SpreadAssumption DEF SeriesKeys

LEMMA LoadsAreNumbers ==
  ASSUME NEW load, LoadFits(load), NEW b
  PROVE  /\ Placed(load, b) \in Nat
         /\ \A key \in SeriesKeys : PlacedOf(load, b, key) \in Nat
         /\ b \notin DOMAIN load => Placed(load, b) = 0 /\ \A key \in SeriesKeys : PlacedOf(load, b, key) = 0
  BY DEF LoadFits, Placed, PlacedOf, PerSeries

LEMMA HeresAreFinite ==
  ASSUME NEW p, NEW s \in LocalsType(p), NEW b, NEW key
  PROVE  /\ IsFiniteSet(Here(s, b)) /\ IsFiniteSet(HereOf(s, b, key))
         /\ Cardinality(Here(s, b)) \in Nat /\ Cardinality(HereOf(s, b, key)) \in Nat
<1>1. Len(s.out) \in Nat
  BY DEF LocalsType
<1>2. IsFiniteSet(1..Len(s.out))
  BY <1>1, FS_Interval
<1>3. Here(s, b) \subseteq 1..Len(s.out) /\ HereOf(s, b, key) \subseteq 1..Len(s.out)
  BY DEF Here, HereOf
<1> QED
  BY <1>2, <1>3, FS_Subset, FS_CardinalityType

LEMMA PendingIsFinite ==
  ASSUME NEW p \in Planners, hour \in Nat
  PROVE  IsFiniteSet(PendingUploads(p)) /\ Cardinality(PendingUploads(p)) \in Nat
<1> DEFINE Of(key) == {Chapter(key, p, i) : i \in 1..Backlog[p][key]}
           Ofs == {Of(key) : key \in SeriesKeys}
<1>1. ASSUME NEW key \in SeriesKeys PROVE IsFiniteSet(Of(key))
  <2>1. IsFiniteSet(1..Backlog[p][key])
    BY SpreadAssumption, FS_Interval
  <2> DEFINE f == [i \in 1..Backlog[p][key] |-> Chapter(key, p, i)]
  <2>2. f \in Surjection(1..Backlog[p][key], Of(key))
    BY DEF Surjection
  <2> QED
    BY <2>1, <2>2, FS_Surjection
<1>2. IsFiniteSet(SeriesKeys)
  <2>1. IsFiniteSet(1..Len(Series))
    BY SeriesInLine, FS_Interval
  <2>2. Series \in [1..Len(Series) -> SeriesKeys]
    BY SpreadAssumption
  <2>3. Series \in Surjection(1..Len(Series), SeriesKeys)
    BY <2>2, SeriesInLine DEF Surjection
  <2> QED
    BY <2>1, <2>3, FS_Surjection
<1>3. IsFiniteSet(Ofs)
  <2> DEFINE f == [key \in SeriesKeys |-> Of(key)]
  <2>1. f \in Surjection(SeriesKeys, Ofs)
    BY DEF Surjection
  <2> QED
    BY <1>2, <2>1, FS_Surjection
<1>4. IsFiniteSet(UNION Ofs)
  BY <1>1, <1>3, FS_UNION
<1> QED
  BY <1>4, FS_CardinalityType DEF PendingUploads
-----------------------------------------------------------------------------
(* The turns                                                               *)

(* A bucket begins with its prior load.                                    *)
LEMMA OpenedFits ==
  ASSUME NEW p \in Planners, NEW s \in LocalsType(p), NEW load, LoadFits(load), NEW b \in Nat
  PROVE  Opened(s, b, load) \in LocalsType(p)
<1>1. Placed(load, b) \in Nat /\ \A key \in SeriesKeys : PlacedOf(load, b, key) \in Nat
  BY LoadsAreNumbers
<1>2. 1 \in 1..(Len(Series) + 1)
  BY SpreadAssumption
<1> QED
  BY <1>1, <1>2 DEF Opened, LocalsType, PerSeries

LEMMA OpeningIsFresh ==
  ASSUME NEW p \in Planners, NEW load, LoadFits(load), hour \in Nat
  PROVE  LoopInv(p, Opening(p, load), load, 0)
<1> DEFINE s == Opening(p, load)
<1>0. Bucket(hour) \in Nat /\ Len(Series) \in Nat
  BY SeriesInLine
<1>1. \A crowded \in BOOLEAN : SpacingOf(crowded) \in Nat
  <2>1. PerDay > 0 => Interval \div PerDay \in Nat
    <3>1. PerDay \in Nat /\ Interval \in Nat
      BY SpreadAssumption
    <3> QED
      BY <3>1, QuotientsAreNumbers
  <2> QED
    BY <2>1, SpreadAssumption DEF SpacingOf
<1>2. \E r \in LocalsType(p) : r.out = <<>> /\ r.cursor = [key \in SeriesKeys |-> 0] /\ s = Opened(r, Bucket(hour), load)
  <2> DEFINE crowded == PerDay > 0 /\ Cardinality(PendingUploads(p)) + Placed(load, Bucket(hour)) > PerDay
             r == [out |-> <<>>, cursor |-> [key \in SeriesKeys |-> 0], spacing |-> SpacingOf(crowded),
                   bucket |-> Bucket(hour), placed |-> 0, turn |-> 1, progressed |-> FALSE,
                   per |-> [key \in SeriesKeys |-> 0]]
  <2>1. SpacingOf(crowded) \in Nat
    <3>1. crowded \in BOOLEAN
      OBVIOUS
    <3> HIDE DEF crowded
    <3> QED  BY <3>1, <1>1
  <2>2. s = Opened(r, Bucket(hour), load)
    BY DEF Opening
  <2>3. r \in LocalsType(p)
    <3> HIDE DEF crowded
    <3>1. << >> \in Seq(Dated(p)) /\ 1 \in 1..(Len(Series) + 1)
      BY <1>0
    <3> QED  BY <1>0, <2>1, <3>1 DEF LocalsType, PerSeries
  <2> QED
    BY <2>2, <2>3
<1>3. /\ s \in LocalsType(p)
      /\ s.out = <<>> /\ s.cursor = [key \in SeriesKeys |-> 0]
      /\ s.bucket = Bucket(hour) /\ s.placed = Placed(load, Bucket(hour)) /\ s.turn = 1 /\ s.progressed = FALSE
      /\ \A key \in SeriesKeys : s.per[key] = PlacedOf(load, Bucket(hour), key)
  <2>1. PICK r \in LocalsType(p) : r.out = <<>> /\ r.cursor = [key \in SeriesKeys |-> 0] /\ s = Opened(r, Bucket(hour), load)
    BY <1>2
  <2> HIDE DEF s
  <2>2. s \in LocalsType(p)
    BY <1>0, <2>1, OpenedFits
  <2> QED
    BY <1>0, <2>1, <2>2 DEF Opened, LocalsType
<1> HIDE DEF s
<1>4. Len(s.out) = 0 /\ 1..Len(s.out) = {}
  BY <1>3
<1>5. \A b, key : Here(s, b) = {} /\ HereOf(s, b, key) = {}
  BY <1>4 DEF Here, HereOf
<1>6. Cardinality({}) = 0
  BY FS_EmptySet
<1>7. TakenInOrder(p, s)
  <2>1. Taken(s) = {}
    BY <1>4 DEF Taken
  <2>2. UNION {{Chapter(key, p, i) : i \in 1..s.cursor[key]} : key \in SeriesKeys} = {}
    <3>1. \A key \in SeriesKeys : 1..s.cursor[key] = {}
      BY <1>3
    <3> QED  BY <3>1
  <2>3. \A key \in SeriesKeys : s.cursor[key] <= Backlog[p][key]
    BY <1>3, SpreadAssumption
  <2> QED
    BY <1>4, <1>6, <2>1, <2>2, <2>3 DEF TakenInOrder
<1>8. Onwards(s)
  BY <1>0, <1>3, <1>4 DEF Onwards
<1>9. CountersAgree(s, load)
  <2>1. Placed(load, Bucket(hour)) \in Nat /\ \A key \in SeriesKeys : PlacedOf(load, Bucket(hour), key) \in Nat
    BY LoadsAreNumbers
  <2>2. Cardinality(Here(s, s.bucket)) = 0 /\ \A key : Cardinality(HereOf(s, s.bucket, key)) = 0
    BY <1>5, <1>6
  <2>3. s.placed = Placed(load, s.bucket) + 0 /\ \A key \in SeriesKeys : s.per[key] = PlacedOf(load, s.bucket, key) + 0
    BY <1>3, <2>1
  <2> QED
    BY <2>2, <2>3 DEF CountersAgree
<1>10. Capped(s, load) /\ NobodyWaits(p, s, load)
  BY <1>5 DEF Capped, NobodyWaits, Twice
<1>11. TurnByTurn(p, s, load)
  <2>1. 1..(s.turn - 1) = {}
    BY <1>3
  <2> QED
    BY <1>5, <2>1 DEF TurnByTurn
<1>12. InTime(p, s, load, 0)
  <2>1. Bucket(hour)..(s.bucket - 1) = {}
    BY <1>0, <1>3
  <2>2. (Len(Series) + 1) * ((Len(s.out) + Passed(s)) - (IF s.progressed THEN 1 ELSE 0)) = 0
    <3>1. (Len(s.out) + Passed(s)) - (IF s.progressed THEN 1 ELSE 0) = 0
      BY <1>0, <1>3, <1>4 DEF Passed
    <3> QED  BY <1>0, <3>1
  <2>3. 0 + 1 <= (Len(Series) + 1) * ((Len(s.out) + Passed(s)) - (IF s.progressed THEN 1 ELSE 0)) + s.turn
    BY <1>3, <2>2
  <2> QED
    BY <1>3, <2>1, <2>3 DEF InTime
<1> QED
  BY <1>3, <1>7, <1>8, <1>9, <1>10, <1>11, <1>12 DEF s, LoopInv
(* A series is passed over: it is served, or has nothing left.             *)
LEMMA SeriesPassedOver ==
  ASSUME NEW p \in Planners, NEW load, LoadFits(load), hour \in Nat, NEW n \in Nat, NEW s, LoopInv(p, s, load, n),
         ~AllPlaced(p, s), s.turn <= Len(Series), ~Fits(p, s, Series[s.turn])
  PROVE  LoopInv(p, [s EXCEPT !.turn = @ + 1], load, n + 1)
<1> DEFINE o == [s EXCEPT !.turn = @ + 1]
           key0 == Series[s.turn]
<1>0. s \in LocalsType(p) /\ Len(Series) \in Nat /\ s.turn \in 1..Len(Series) /\ key0 \in SeriesKeys
  <2>1. s \in LocalsType(p) /\ Len(Series) \in Nat
    BY SeriesInLine DEF LoopInv
  <2>2. s.turn \in 1..Len(Series)
    BY <2>1 DEF LocalsType
  <2> QED
    BY <2>1, <2>2, SeriesInLine
<1>1. /\ o \in LocalsType(p)
      /\ o.out = s.out /\ o.cursor = s.cursor /\ o.bucket = s.bucket /\ o.placed = s.placed
      /\ o.per = s.per /\ o.progressed = s.progressed /\ o.turn = s.turn + 1
  <2>1. s.turn + 1 \in 1..(Len(Series) + 1)
    BY <1>0
  <2> QED
    BY <1>0, <2>1 DEF LocalsType
<1> HIDE DEF o
<1>2. /\ \A b : Here(o, b) = Here(s, b)
      /\ \A b, key : HereOf(o, b, key) = HereOf(s, b, key)
      /\ Taken(o) = Taken(s)
  BY <1>1 DEF Here, HereOf, Taken
<1>3. TakenInOrder(p, o) /\ Onwards(o)
  BY <1>1, <1>2 DEF LoopInv, TakenInOrder, Onwards
<1>4. CountersAgree(o, load) /\ Capped(o, load)
  BY <1>1, <1>2 DEF LoopInv, CountersAgree, Capped
<1>5. \A key \in SeriesKeys : Served(p, s, load, key) <=> Served(p, o, load, key)
  BY <1>1, <1>2 DEF Served
<1>6. Served(p, s, load, key0)
  <2> SUFFICES ASSUME Below(s.placed, PerDay), s.cursor[key0] # Backlog[p][key0]
               PROVE  HereOf(s, s.bucket, key0) # {} \/ PlacedOf(load, s.bucket, key0) # 0
    BY DEF Served
  <2>1. s.cursor[key0] \in Nat /\ Backlog[p][key0] \in Nat /\ s.cursor[key0] <= Backlog[p][key0] /\ s.per[key0] \in Nat
    <3>1. s.cursor[key0] \in Nat /\ s.per[key0] \in Nat
      BY <1>0 DEF LocalsType, PerSeries
    <3>2. Backlog[p][key0] \in Nat
      BY <1>0, SpreadAssumption
    <3>3. s.cursor[key0] <= Backlog[p][key0]
      BY <1>0 DEF LoopInv, TakenInOrder
    <3> QED
      BY <3>1, <3>2, <3>3
  <2>2. ~Below(s.per[key0], PerMangaPerDay)
    <3>1. s.cursor[key0] < Backlog[p][key0]
      BY <2>1
    <3>2. ~Fits(p, s, key0)
      OBVIOUS
    <3> QED
      BY <3>1, <3>2, Zenon DEF Fits
  <2>3. s.per[key0] # 0
    BY <2>1, <2>2, SeriesInLine DEF Below
  <2>4. s.per[key0] = PlacedOf(load, s.bucket, key0) + Cardinality(HereOf(s, s.bucket, key0))
    BY <1>0 DEF LoopInv, CountersAgree
  <2>5. Cardinality({}) = 0
    BY FS_EmptySet
  <2>6. CASE HereOf(s, s.bucket, key0) = {}
    <3>1. s.per[key0] = PlacedOf(load, s.bucket, key0) + 0
      BY <2>4, <2>5, <2>6
    <3>2. PlacedOf(load, s.bucket, key0) \in Nat
      BY <1>0, LoadsAreNumbers
    <3> QED
      BY <2>3, <3>1, <3>2
  <2> QED
    BY <2>6
<1>7. TurnByTurn(p, o, load)
  <2>1. CASE \A key \in SeriesKeys : Served(p, s, load, key)
    BY <1>5, <2>1 DEF TurnByTurn
  <2>2. CASE /\ \A i \in 1..(s.turn - 1) : Served(p, s, load, Series[i])
             /\ \A i \in s.turn..Len(Series) : HereOf(s, s.bucket, Series[i]) = {}
             /\ \A key \in SeriesKeys : \A i, j \in HereOf(s, s.bucket, key) : i = j
    <3>1. ASSUME NEW i \in 1..(o.turn - 1) PROVE Served(p, o, load, Series[i])
      <4>1. i \in 1..Len(Series) /\ (i = s.turn \/ i \in 1..(s.turn - 1))
        BY <1>0, <1>1
      <4>2. Series[i] \in SeriesKeys
        BY <4>1, SeriesInLine
      <4> QED
        BY <1>5, <1>6, <2>2, <4>1, <4>2
    <3>2. ASSUME NEW i \in o.turn..Len(Series) PROVE HereOf(o, o.bucket, Series[i]) = {}
      <4>1. i \in s.turn..Len(Series)
        BY <1>0, <1>1
      <4>2. HereOf(s, s.bucket, Series[i]) = {}
        BY <2>2, <4>1
      <4> QED
        BY <1>1, <1>2, <4>2
    <3>3. \A key \in SeriesKeys : \A i, j \in HereOf(o, o.bucket, key) : i = j
      BY <1>1, <1>2, <2>2
    <3> QED
      BY <3>1, <3>2, <3>3 DEF TurnByTurn
  <2> QED
    BY <2>1, <2>2 DEF LoopInv, TurnByTurn
<1>8. NobodyWaits(p, o, load)
  BY <1>1, <1>2 DEF LoopInv, NobodyWaits, Twice
<1>9. InTime(p, o, load, n + 1)
  <2> DEFINE spent == (Len(Series) + 1) * ((Len(s.out) + Passed(s)) - (IF s.progressed THEN 1 ELSE 0))
  <2>1. n + 1 <= spent + s.turn
    BY DEF LoopInv, InTime
  <2>2. spent \in Int
    <3>1. (Len(s.out) + Passed(s)) - (IF s.progressed THEN 1 ELSE 0) \in Int
      BY <1>0, SeriesInLine DEF LocalsType, Passed
    <3> QED  BY <1>0, <3>1
  <2> HIDE DEF spent
  <2>3. (n + 1) + 1 <= spent + o.turn
    BY <1>0, <1>1, <2>1, <2>2
  <2>4. (n + 1) + 1 <= (Len(Series) + 1) * ((Len(o.out) + Passed(o)) - (IF o.progressed THEN 1 ELSE 0)) + o.turn
    BY <1>1, <2>3 DEF spent, Passed
  <2> QED
    BY <1>1, <1>2, <2>4 DEF LoopInv, InTime
<1> QED
  BY <1>1, <1>3, <1>4, <1>7, <1>8, <1>9 DEF o, LoopInv
(* After a round, all are served.                                          *)
LEMMA AllAreServed ==
  ASSUME NEW p \in Planners, NEW load, hour \in Nat, NEW n \in Nat, NEW s, LoopInv(p, s, load, n),
         s.turn = Len(Series) + 1
  PROVE  \A key \in SeriesKeys : Served(p, s, load, key)
<1>1. CASE \A i \in 1..(s.turn - 1) : Served(p, s, load, Series[i])
  <2>1. Len(Series) \in Nat /\ \A key \in SeriesKeys : \E i \in 1..Len(Series) : key = Series[i]
    BY SeriesInLine
  <2>2. \A i \in 1..Len(Series) : i \in 1..(s.turn - 1)
    BY <2>1
  <2> QED
    BY <1>1, <2>1, <2>2
<1> QED
  BY <1>1 DEF LoopInv, TurnByTurn

(* Everybody has had a turn, some chapter was placed, and the bucket has   *)
(* room: another round.                                                    *)
LEMMA AnotherRound ==
  ASSUME NEW p \in Planners, NEW load, LoadFits(load), hour \in Nat, NEW n \in Nat, NEW s, LoopInv(p, s, load, n),
         ~AllPlaced(p, s), s.turn > Len(Series), s.progressed
  PROVE  LoopInv(p, [s EXCEPT !.turn = 1, !.progressed = FALSE], load, n + 1)
<1> DEFINE o == [s EXCEPT !.turn = 1, !.progressed = FALSE]
<1>0. s \in LocalsType(p) /\ Len(Series) \in Nat /\ s.turn = Len(Series) + 1
  BY SeriesInLine DEF LoopInv, LocalsType
<1>1. /\ o \in LocalsType(p)
      /\ o.out = s.out /\ o.cursor = s.cursor /\ o.bucket = s.bucket /\ o.placed = s.placed
      /\ o.per = s.per /\ o.progressed = FALSE /\ o.turn = 1
  <2>1. 1 \in 1..(Len(Series) + 1)
    BY <1>0
  <2> QED
    BY <1>0, <2>1 DEF LocalsType
<1> HIDE DEF o
<1>2. /\ \A b : Here(o, b) = Here(s, b)
      /\ \A b, key : HereOf(o, b, key) = HereOf(s, b, key)
      /\ Taken(o) = Taken(s)
  BY <1>1 DEF Here, HereOf, Taken
<1>3. TakenInOrder(p, o) /\ Onwards(o)
  BY <1>1, <1>2 DEF LoopInv, TakenInOrder, Onwards
<1>4. CountersAgree(o, load) /\ Capped(o, load)
  BY <1>1, <1>2 DEF LoopInv, CountersAgree, Capped
<1>5. \A key \in SeriesKeys : Served(p, s, load, key)
  BY <1>0, AllAreServed
<1>6. TurnByTurn(p, o, load)
  BY <1>1, <1>2, <1>5 DEF TurnByTurn, Served
<1>7. NobodyWaits(p, o, load)
  BY <1>1, <1>2 DEF LoopInv, NobodyWaits, Twice
<1>8. InTime(p, o, load, n + 1)
  <2> DEFINE x == (Len(s.out) + Passed(s)) - 1
             a == Len(Series) + 1
  <2>1. x \in Int /\ a \in Int
    BY <1>0, SeriesInLine DEF LocalsType, Passed
  <2>2. n + 1 <= a * x + a
    BY <1>0 DEF LoopInv, InTime
  <2>3. a * (x + 1) = a * x + a
    <3> HIDE DEF a, x
    <3> QED  BY <2>1
  <2>4. (Len(o.out) + Passed(o)) - (IF o.progressed THEN 1 ELSE 0) = x + 1
    BY <1>0, <1>1, SeriesInLine DEF LocalsType, Passed
  <2>5. (n + 1) + 1 <= a * (x + 1) + o.turn
    <3>1. a * x \in Int /\ a * (x + 1) \in Int
      <4> HIDE DEF a, x
      <4> QED  BY <2>1
    <3> HIDE DEF a, x
    <3> QED  BY <1>1, <2>1, <2>2, <2>3, <3>1
  <2>6. (n + 1) + 1 <= a * ((Len(o.out) + Passed(o)) - (IF o.progressed THEN 1 ELSE 0)) + o.turn
    BY <2>4, <2>5
  <2> QED
    BY <1>1, <1>2, <2>6 DEF LoopInv, InTime
<1> QED
  BY <1>1, <1>3, <1>4, <1>6, <1>7, <1>8 DEF o, LoopInv

(* The bucket is done with: the next one.  If it had no load and took      *)
(* nothing, everybody would have been served without a chapter or a load,  *)
(* so that nothing would be left.                                          *)
LEMMA NextBucket ==
  ASSUME NEW p \in Planners, NEW load, LoadFits(load), hour \in Nat, NEW n \in Nat, NEW s, LoopInv(p, s, load, n),
         ~AllPlaced(p, s), s.turn > Len(Series)
  PROVE  LoopInv(p, Opened(s, s.bucket + 1, load), load, n + 1)
<1> DEFINE o == Opened(s, s.bucket + 1, load)
<1>0. /\ s \in LocalsType(p) /\ Len(Series) \in Nat /\ s.turn = Len(Series) + 1
      /\ s.bucket \in Nat /\ Bucket(hour) \in Nat /\ Len(s.out) \in Nat
  BY SeriesInLine DEF LoopInv, LocalsType
<1>1. /\ o \in LocalsType(p)
      /\ o.out = s.out /\ o.cursor = s.cursor
      /\ o.bucket = s.bucket + 1 /\ o.placed = Placed(load, s.bucket + 1) /\ o.turn = 1 /\ o.progressed = FALSE
      /\ \A key \in SeriesKeys : o.per[key] = PlacedOf(load, s.bucket + 1, key)
  <2>1. s.bucket + 1 \in Nat
    BY <1>0
  <2>2. o \in LocalsType(p)
    BY <1>0, <2>1, OpenedFits
  <2> QED
    BY <1>0, <2>2 DEF Opened, LocalsType
<1> HIDE DEF o
<1>2. /\ \A b : Here(o, b) = Here(s, b)
      /\ \A b, key : HereOf(o, b, key) = HereOf(s, b, key)
      /\ Taken(o) = Taken(s)
  BY <1>1 DEF Here, HereOf, Taken
<1>3. TakenInOrder(p, o)
  BY <1>1, <1>2 DEF LoopInv, TakenInOrder
<1>4. Onwards(o)
  <2>1. \A i \in 1..Len(s.out) : s.out[i].bucket \in Bucket(hour)..s.bucket
    BY DEF LoopInv, Onwards
  <2>2. \A x \in Bucket(hour)..s.bucket : x \in Bucket(hour)..(s.bucket + 1)
    BY <1>0
  <2> QED
    BY <1>0, <1>1, <2>1, <2>2 DEF LoopInv, Onwards
<1>5. Here(o, o.bucket) = {} /\ \A key : HereOf(o, o.bucket, key) = {}
  <2>1. \A i \in 1..Len(s.out) : s.out[i].bucket # s.bucket + 1
    <3>1. \A i \in 1..Len(s.out) : s.out[i].bucket \in Bucket(hour)..s.bucket
      BY DEF LoopInv, Onwards
    <3>2. \A x \in Bucket(hour)..s.bucket : x # s.bucket + 1
      BY <1>0
    <3> QED  BY <3>1, <3>2
  <2> QED
    BY <1>1, <2>1 DEF Here, HereOf
<1>6. CountersAgree(o, load)
  <2>1. Cardinality({}) = 0
    BY FS_EmptySet
  <2>2. Placed(load, o.bucket) \in Nat /\ \A key \in SeriesKeys : PlacedOf(load, o.bucket, key) \in Nat
    BY LoadsAreNumbers
  <2>3. o.placed = Placed(load, o.bucket) + 0 /\ \A key \in SeriesKeys : o.per[key] = PlacedOf(load, o.bucket, key) + 0
    BY <1>1, <2>2
  <2> QED
    BY <1>5, <2>1, <2>3 DEF CountersAgree
<1>7. Capped(o, load)
  BY <1>2 DEF LoopInv, Capped
<1>8. TurnByTurn(p, o, load)
  <2>1. 1..(o.turn - 1) = {}
    BY <1>1
  <2> QED
    BY <1>5, <2>1 DEF TurnByTurn
<1>9. NobodyWaits(p, o, load)
  BY <1>1, <1>2 DEF LoopInv, NobodyWaits, Twice
<1>10. s.bucket \in DOMAIN load \cup {s.out[i].bucket : i \in 1..Len(s.out)}
  <2> SUFFICES ASSUME s.bucket \notin DOMAIN load, s.bucket \notin {s.out[i].bucket : i \in 1..Len(s.out)}
               PROVE  FALSE
    OBVIOUS
  <2>1. Here(s, s.bucket) = {} /\ \A key : HereOf(s, s.bucket, key) = {}
    BY DEF Here, HereOf
  <2>2. Placed(load, s.bucket) = 0 /\ \A key \in SeriesKeys : PlacedOf(load, s.bucket, key) = 0
    BY LoadsAreNumbers
  <2>3. s.placed = 0
    <3>1. Cardinality({}) = 0
      BY FS_EmptySet
    <3> QED
      BY <2>1, <2>2, <3>1 DEF LoopInv, CountersAgree
  <2>4. Below(s.placed, PerDay)
    BY <2>3, SeriesInLine DEF Below
  <2>5. \A key \in SeriesKeys : Served(p, s, load, key)
    BY <1>0, AllAreServed
  <2> QED
    BY <2>1, <2>2, <2>4, <2>5 DEF Served, AllPlaced
<1>11. InTime(p, o, load, n + 1)
  <2> DEFINE m == IF s.progressed THEN 1 ELSE 0
             x == Len(s.out) + Passed(s)
             a == Len(Series) + 1
  <2>1. x \in Int /\ a \in Nat /\ m \in 0..1
    BY <1>0 DEF Passed
  <2>2. n + 1 <= a * (x - m) + a
    <3>1. InTime(p, s, load, n)
      BY DEF LoopInv
    <3>2. n + 1 <= a * (x - m) + s.turn
      BY <3>1, Zenon DEF InTime
    <3> QED  BY <1>0, <3>2
  <2>3. a * (x + 1) = a * x + a /\ a * (x - m) <= a * x
    <3> HIDE DEF a, x, m
    <3>1. m = 0 \/ m = 1
      BY <2>1
    <3>2. a * (x - 1) = a * x - a
      BY <2>1
    <3> QED  BY <2>1, <3>1, <3>2
  <2>4. (Len(o.out) + Passed(o)) - (IF o.progressed THEN 1 ELSE 0) = x + 1
    BY <1>0, <1>1 DEF Passed
  <2>5. (n + 1) + 1 <= a * (x + 1) + o.turn
    <3>1. a * x \in Int /\ a * (x + 1) \in Int /\ a * (x - m) \in Int
      <4> HIDE DEF a, x, m
      <4> QED  BY <2>1
    <3> HIDE DEF a, x, m
    <3> QED  BY <1>1, <2>1, <2>2, <2>3, <3>1
  <2>6. (n + 1) + 1 <= a * ((Len(o.out) + Passed(o)) - (IF o.progressed THEN 1 ELSE 0)) + o.turn
    BY <2>4, <2>5
  <2>7. (Bucket(hour)..(o.bucket - 1)) \subseteq DOMAIN load \cup {o.out[i].bucket : i \in 1..Len(o.out)}
    <3>1. \A x1 \in Bucket(hour)..(o.bucket - 1) : x1 = s.bucket \/ x1 \in Bucket(hour)..(s.bucket - 1)
      BY <1>0, <1>1
    <3> QED
      BY <1>1, <1>10, <3>1 DEF LoopInv, InTime
  <2> QED
    BY <1>1, <2>6, <2>7 DEF InTime
<1> QED
  BY <1>1, <1>3, <1>4, <1>6, <1>7, <1>8, <1>9, <1>11 DEF o, LoopInv
(* A chapter goes into the bucket.                                         *)
NextRow(p, s) ==
  LET key == Series[s.turn] IN
  [chapter |-> Chapter(key, p, s.cursor[key] + 1), bucket |-> s.bucket,
   at |-> ReleaseAt(s.bucket, s.placed, s.spacing)]

LEMMA PushedIs ==
  ASSUME NEW p \in Planners, NEW load, LoadFits(load), hour \in Nat, NEW n \in Nat, NEW s, LoopInv(p, s, load, n),
         ~AllPlaced(p, s), s.turn <= Len(Series), Fits(p, s, Series[s.turn])
  PROVE  /\ Series[s.turn] \in SeriesKeys /\ NextRow(p, s) \in Dated(p)
         /\ s.cursor[Series[s.turn]] + 1 \in 1..Backlog[p][Series[s.turn]]
         /\ Place(p, s) \in LocalsType(p)
         /\ Place(p, s).out = Append(s.out, NextRow(p, s))
         /\ Place(p, s).cursor = [s.cursor EXCEPT ![Series[s.turn]] = s.cursor[Series[s.turn]] + 1]
         /\ Place(p, s).per = [s.per EXCEPT ![Series[s.turn]] = s.per[Series[s.turn]] + 1]
         /\ Place(p, s).bucket = s.bucket /\ Place(p, s).placed = s.placed + 1
         /\ Place(p, s).progressed /\ Place(p, s).turn = s.turn + 1
<1> DEFINE key == Series[s.turn]
           dated == [chapter |-> Chapter(key, p, s.cursor[key] + 1), bucket |-> s.bucket,
                   at |-> ReleaseAt(s.bucket, s.placed, s.spacing)]
<1>1. s \in LocalsType(p) /\ Len(Series) \in Nat /\ s.turn \in 1..Len(Series) /\ key \in SeriesKeys
  <2>1. s \in LocalsType(p) /\ Len(Series) \in Nat
    BY SeriesInLine DEF LoopInv
  <2>2. s.turn \in 1..Len(Series)
    BY <2>1 DEF LocalsType
  <2> QED
    BY <2>1, <2>2, SeriesInLine
<1>2. s.cursor[key] \in Nat /\ s.per[key] \in Nat /\ s.placed \in Nat /\ s.bucket \in Nat /\ s.spacing \in Nat
      /\ s.turn + 1 \in 1..(Len(Series) + 1)
  BY <1>1 DEF LocalsType, PerSeries
<1>3. s.cursor[key] + 1 \in 1..Backlog[p][key]
  <2>1. Backlog[p][key] \in Nat
    BY <1>1, SpreadAssumption
  <2>2. s.cursor[key] < Backlog[p][key]
    BY DEF Fits
  <2> HIDE DEF key
  <2> QED
    BY <1>2, <2>1, <2>2
<1>4. dated \in Dated(p)
  <2>1. Chapter(key, p, s.cursor[key] + 1) \in PendingUploads(p)
    BY <1>1, <1>3 DEF PendingUploads
  <2>2. ReleaseAt(s.bucket, s.placed, s.spacing) \in Int
    <3>1. s.placed * s.spacing \in Int /\ s.bucket * Interval \in Int /\ Interval \in Nat
      BY <1>2, SpreadAssumption
    <3> QED
      BY <3>1 DEF ReleaseAt, Start
  <2> QED
    BY <1>2, <2>1, <2>2 DEF Dated
<1>5. Place(p, s) = [out |-> Append(s.out, dated), cursor |-> [s.cursor EXCEPT ![key] = s.cursor[key] + 1],
                      spacing |-> s.spacing, bucket |-> s.bucket, placed |-> s.placed + 1, turn |-> s.turn + 1,
                      progressed |-> TRUE, per |-> [s.per EXCEPT ![key] = s.per[key] + 1]]
  <2>1. Place(p, s) = [Push(p, s, key) EXCEPT !.turn = @ + 1]
    BY DEF Place
  <2> HIDE DEF key
  <2>2. Push(p, s, key) = [s EXCEPT !.out = Append(s.out, dated), !.cursor = [s.cursor EXCEPT ![key] = s.cursor[key] + 1],
                              !.per = [s.per EXCEPT ![key] = s.per[key] + 1], !.placed = s.placed + 1,
                              !.progressed = TRUE]
    BY <1>1 DEF Push, LocalsType
  <2> DEFINE out1 == Append(s.out, dated)
             cursor1 == [s.cursor EXCEPT ![key] = s.cursor[key] + 1]
             per1 == [s.per EXCEPT ![key] = s.per[key] + 1]
             placed1 == s.placed + 1
  <2>3. Place(p, s) = [[s EXCEPT !.out = out1, !.cursor = cursor1, !.per = per1, !.placed = placed1, !.progressed = TRUE]
                       EXCEPT !.turn = @ + 1]
    BY <2>1, <2>2
  <2> HIDE DEF dated, out1, cursor1, per1, placed1
  <2>4. Place(p, s) = [out |-> out1, cursor |-> cursor1, spacing |-> s.spacing, bucket |-> s.bucket, placed |-> placed1,
                       turn |-> s.turn + 1, progressed |-> TRUE, per |-> per1]
    BY <1>1, <2>3 DEF LocalsType
  <2> QED
    BY <2>4 DEF out1, cursor1, per1, placed1
<1> HIDE DEF key, dated
<1>6. Append(s.out, dated) \in Seq(Dated(p))
  BY <1>1, <1>4 DEF LocalsType
<1>7. [s.cursor EXCEPT ![key] = s.cursor[key] + 1] \in PerSeries /\ [s.per EXCEPT ![key] = s.per[key] + 1] \in PerSeries
  BY <1>1, <1>2 DEF LocalsType, PerSeries
<1>8. Place(p, s) \in LocalsType(p)
  <2> DEFINE out1 == Append(s.out, dated)
             cursor1 == [s.cursor EXCEPT ![key] = s.cursor[key] + 1]
             per1 == [s.per EXCEPT ![key] = s.per[key] + 1]
             placed1 == s.placed + 1
             turn1 == s.turn + 1
  <2>1. /\ out1 \in Seq(Dated(p)) /\ cursor1 \in PerSeries /\ per1 \in PerSeries /\ placed1 \in Nat
        /\ turn1 \in 1..(Len(Series) + 1) /\ s.spacing \in Nat /\ s.bucket \in Nat
    BY <1>2, <1>6, <1>7
  <2>2. Place(p, s) = [out |-> out1, cursor |-> cursor1, spacing |-> s.spacing, bucket |-> s.bucket, placed |-> placed1,
                       turn |-> turn1, progressed |-> TRUE, per |-> per1]
    BY <1>5
  <2> HIDE DEF out1, cursor1, per1, placed1, turn1
  <2> QED
    BY <2>1, <2>2 DEF LocalsType
<1>9. /\ Place(p, s).out = Append(s.out, dated)
      /\ Place(p, s).cursor = [s.cursor EXCEPT ![key] = s.cursor[key] + 1]
      /\ Place(p, s).per = [s.per EXCEPT ![key] = s.per[key] + 1]
      /\ Place(p, s).bucket = s.bucket /\ Place(p, s).placed = s.placed + 1
      /\ Place(p, s).progressed /\ Place(p, s).turn = s.turn + 1
  BY <1>1, <1>5 DEF LocalsType
<1> QED
  BY <1>1, <1>3, <1>4, <1>8, <1>9 DEF key, dated, NextRow
LEMMA OneMoreOnTheList ==
  ASSUME NEW p \in Planners, NEW s \in LocalsType(p), NEW o, NEW dated \in Dated(p), o.out = Append(s.out, dated)
  PROVE  /\ Len(s.out) \in Nat /\ Len(o.out) = Len(s.out) + 1
         /\ \A i \in 1..Len(s.out) : i \in 1..Len(o.out) /\ o.out[i] = s.out[i]
         /\ o.out[Len(o.out)] = dated
         /\ \A i \in 1..Len(o.out) : i \in 1..Len(s.out) \/ i = Len(o.out)
         /\ Taken(o) = Taken(s) \cup {dated.chapter}
         /\ Here(o, dated.bucket) = Here(s, dated.bucket) \cup {Len(o.out)}
         /\ HereOf(o, dated.bucket, SeriesOf(dated.chapter)) = HereOf(s, dated.bucket, SeriesOf(dated.chapter)) \cup {Len(o.out)}
         /\ \A b, key : HereOf(o, b, key) = HereOf(s, b, key) \/ (b = dated.bucket /\ key = SeriesOf(dated.chapter))
         /\ \A b : Here(o, b) = Here(s, b) \/ b = dated.bucket
         /\ \A b : Len(o.out) \notin Here(s, b)
<1>1. s.out \in Seq(Dated(p))
  BY DEF LocalsType
<1>2. /\ Len(s.out) \in Nat /\ Len(o.out) = Len(s.out) + 1
      /\ \A i \in 1..Len(s.out) : i \in 1..Len(o.out) /\ o.out[i] = s.out[i]
      /\ o.out[Len(o.out)] = dated
      /\ \A i \in 1..Len(o.out) : i \in 1..Len(s.out) \/ i = Len(o.out)
      /\ Len(o.out) \in 1..Len(o.out)
      /\ Len(o.out) \notin 1..Len(s.out)
  BY <1>1
<1>3. Taken(o) = Taken(s) \cup {dated.chapter}
  <2>1. ASSUME NEW c \in Taken(o) PROVE c \in Taken(s) \cup {dated.chapter}
    <3>1. PICK i \in 1..Len(o.out) : c = o.out[i].chapter
      BY <2>1 DEF Taken
    <3> QED
      BY <1>2, <3>1 DEF Taken
  <2>2. ASSUME NEW c \in Taken(s) PROVE c \in Taken(o)
    <3>1. PICK i \in 1..Len(s.out) : c = s.out[i].chapter
      BY <2>2 DEF Taken
    <3> QED
      BY <1>2, <3>1 DEF Taken
  <2>3. dated.chapter \in Taken(o)
    BY <1>2 DEF Taken
  <2> QED
    BY <2>1, <2>2, <2>3
<1>4. /\ Here(o, dated.bucket) = Here(s, dated.bucket) \cup {Len(o.out)}
      /\ \A b : Here(o, b) = Here(s, b) \/ b = dated.bucket
      /\ \A b : Len(o.out) \notin Here(s, b)
  BY <1>2 DEF Here
<1>5. HereOf(o, dated.bucket, SeriesOf(dated.chapter)) = HereOf(s, dated.bucket, SeriesOf(dated.chapter)) \cup {Len(o.out)}
  BY <1>2, <1>4 DEF HereOf, Here
<1>6. \A b, key : HereOf(o, b, key) = HereOf(s, b, key) \/ (b = dated.bucket /\ key = SeriesOf(dated.chapter))
  <2> SUFFICES ASSUME NEW b, NEW key, ~(b = dated.bucket /\ key = SeriesOf(dated.chapter))
               PROVE  HereOf(o, b, key) = HereOf(s, b, key)
    OBVIOUS
  <2>1. \A i \in HereOf(o, b, key) : i \in HereOf(s, b, key)
    BY <1>2 DEF HereOf, Here
  <2>2. \A i \in HereOf(s, b, key) : i \in HereOf(o, b, key)
    BY <1>2 DEF HereOf, Here
  <2> QED
    BY <2>1, <2>2 DEF HereOf, Here
<1> QED
  BY <1>2, <1>3, <1>4, <1>5, <1>6

LEMMA PushKeepsOrder ==
  ASSUME NEW p \in Planners, NEW s \in LocalsType(p), NEW o \in LocalsType(p), TakenInOrder(p, s), hour \in Nat,
         NEW key0 \in SeriesKeys, s.cursor[key0] + 1 \in 1..Backlog[p][key0],
         o.cursor = [s.cursor EXCEPT ![key0] = s.cursor[key0] + 1],
         Taken(o) = Taken(s) \cup {Chapter(key0, p, s.cursor[key0] + 1)}, Len(o.out) = Len(s.out) + 1
  PROVE  TakenInOrder(p, o)
<1> DEFINE c == Chapter(key0, p, s.cursor[key0] + 1)
           all(r) == UNION {{Chapter(key, p, i) : i \in 1..r.cursor[key]} : key \in SeriesKeys}
<1>1. s.cursor \in PerSeries /\ o.cursor \in PerSeries
  BY DEF LocalsType
<1>2. \A key \in SeriesKeys : o.cursor[key] = IF key = key0 THEN s.cursor[key] + 1 ELSE s.cursor[key]
  BY <1>1 DEF PerSeries
<1>3. \A key \in SeriesKeys : o.cursor[key] <= Backlog[p][key]
  BY <1>1, <1>2, SpreadAssumption DEF TakenInOrder, PerSeries
<1>4. c \notin Taken(s)
  <2> SUFFICES ASSUME c \in Taken(s) PROVE FALSE
    OBVIOUS
  <2>1. PICK key \in SeriesKeys : \E i \in 1..s.cursor[key] : c = Chapter(key, p, i)
    BY DEF TakenInOrder
  <2>2. PICK i \in 1..s.cursor[key] : c = Chapter(key, p, i)
    BY <2>1
  <2>3. key = key0 /\ i = s.cursor[key0] + 1
    BY <2>2 DEF Chapter
  <2> QED
    BY <1>1, <2>2, <2>3 DEF PerSeries
<1>5. all(o) = all(s) \cup {c}
  <2>1. ASSUME NEW x \in all(o) PROVE x \in all(s) \cup {c}
    <3>0. PICK key \in SeriesKeys : \E i \in 1..o.cursor[key] : x = Chapter(key, p, i)
      BY <2>1
    <3>1. PICK i \in 1..o.cursor[key] : x = Chapter(key, p, i)
      BY <3>0
    <3>2. i \in 1..s.cursor[key] \/ (key = key0 /\ i = s.cursor[key0] + 1)
      BY <1>1, <1>2, <3>1 DEF PerSeries
    <3> QED
      BY <3>1, <3>2
  <2>2. ASSUME NEW x \in all(s) PROVE x \in all(o)
    <3>0. PICK key \in SeriesKeys : \E i \in 1..s.cursor[key] : x = Chapter(key, p, i)
      BY <2>2
    <3>1. PICK i \in 1..s.cursor[key] : x = Chapter(key, p, i)
      BY <3>0
    <3>2. i \in 1..o.cursor[key]
      BY <1>1, <1>2, <3>1 DEF PerSeries
    <3> QED
      BY <3>1, <3>2
  <2>3. c \in all(o)
    <3>1. s.cursor[key0] + 1 \in 1..o.cursor[key0]
      BY <1>1, <1>2 DEF PerSeries
    <3> QED
      BY <3>1
  <2> HIDE DEF c, all
  <2> QED
    BY <2>1, <2>2, <2>3
<1>6. IsFiniteSet(Taken(s))
  <2>1. Taken(s) = all(s) /\ \A key \in SeriesKeys : s.cursor[key] <= Backlog[p][key]
    BY DEF TakenInOrder
  <2>2. all(s) \subseteq PendingUploads(p)
    <3>1. ASSUME NEW key \in SeriesKeys, NEW i \in 1..s.cursor[key] PROVE i \in 1..Backlog[p][key]
      BY <1>1, <2>1, SpreadAssumption DEF PerSeries
    <3> QED
      BY <3>1 DEF PendingUploads
  <2> QED
    BY <2>1, <2>2, PendingIsFinite, FS_Subset
<1>7. Cardinality(Taken(o)) = Cardinality(Taken(s)) + 1
  BY <1>4, <1>6, FS_AddElement
<1>8. Taken(o) = all(o) /\ Cardinality(Taken(o)) = Len(o.out)
  BY <1>5, <1>7 DEF TakenInOrder
<1> QED
  BY <1>3, <1>8 DEF TakenInOrder
LEMMA ChapterPlaced ==
  ASSUME NEW p \in Planners, NEW load, LoadFits(load), hour \in Nat, NEW n \in Nat, NEW s, LoopInv(p, s, load, n),
         ~AllPlaced(p, s), s.turn <= Len(Series), Fits(p, s, Series[s.turn])
  PROVE  LoopInv(p, Place(p, s), load, n + 1)
<1> DEFINE o == Place(p, s)
           key0 == Series[s.turn]
           dated == NextRow(p, s)
           last == Len(o.out)
<1>1. /\ key0 \in SeriesKeys /\ dated \in Dated(p)
      /\ s.cursor[key0] + 1 \in 1..Backlog[p][key0]
      /\ o \in LocalsType(p)
      /\ o.out = Append(s.out, dated)
      /\ o.cursor = [s.cursor EXCEPT ![key0] = s.cursor[key0] + 1]
      /\ o.per = [s.per EXCEPT ![key0] = s.per[key0] + 1]
      /\ o.bucket = s.bucket /\ o.placed = s.placed + 1
      /\ o.progressed /\ o.turn = s.turn + 1
  BY PushedIs
<1>2. dated.bucket = s.bucket /\ dated.chapter = Chapter(key0, p, s.cursor[key0] + 1) /\ SeriesOf(dated.chapter) = key0
  BY DEF SeriesOf, Chapter, NextRow
<1>3. Below(s.placed, PerDay) /\ Below(s.per[key0], PerMangaPerDay) /\ s.cursor[key0] < Backlog[p][key0]
  BY DEF Fits
<1> HIDE DEF o, dated
<1>4. /\ s \in LocalsType(p) /\ Len(Series) \in Nat /\ s.turn \in 1..Len(Series)
      /\ s.bucket \in Nat /\ s.placed \in Nat /\ s.cursor \in PerSeries /\ s.per \in PerSeries
      /\ Bucket(hour) \in Nat /\ Bucket(hour) <= s.bucket
  <2>1. s \in LocalsType(p) /\ Len(Series) \in Nat /\ Bucket(hour) <= s.bucket
    BY SeriesInLine DEF LoopInv, Onwards
  <2>2. s.turn \in 1..Len(Series)
    BY <2>1 DEF LocalsType
  <2> QED
    BY <2>1, <2>2, SeriesInLine DEF LocalsType
<1> HIDE DEF key0
<1>5. /\ Len(s.out) \in Nat /\ last = Len(s.out) + 1
      /\ \A i \in 1..Len(s.out) : i \in 1..last /\ o.out[i] = s.out[i]
      /\ o.out[last] = dated
      /\ \A i \in 1..last : i \in 1..Len(s.out) \/ i = last
      /\ Taken(o) = Taken(s) \cup {dated.chapter}
      /\ Here(o, s.bucket) = Here(s, s.bucket) \cup {last}
      /\ HereOf(o, s.bucket, key0) = HereOf(s, s.bucket, key0) \cup {last}
      /\ \A b, key : HereOf(o, b, key) = HereOf(s, b, key) \/ (b = s.bucket /\ key = key0)
      /\ \A b : Here(o, b) = Here(s, b) \/ b = s.bucket
      /\ \A b : last \notin Here(s, b)
  <2>1. /\ Len(s.out) \in Nat /\ last = Len(s.out) + 1
        /\ \A i \in 1..Len(s.out) : i \in 1..last /\ o.out[i] = s.out[i]
        /\ o.out[last] = dated
        /\ \A i \in 1..last : i \in 1..Len(s.out) \/ i = last
        /\ Taken(o) = Taken(s) \cup {dated.chapter}
        /\ Here(o, dated.bucket) = Here(s, dated.bucket) \cup {last}
        /\ HereOf(o, dated.bucket, SeriesOf(dated.chapter)) = HereOf(s, dated.bucket, SeriesOf(dated.chapter)) \cup {last}
        /\ \A b, key : HereOf(o, b, key) = HereOf(s, b, key) \/ (b = dated.bucket /\ key = SeriesOf(dated.chapter))
        /\ \A b : Here(o, b) = Here(s, b) \/ b = dated.bucket
        /\ \A b : last \notin Here(s, b)
    BY <1>1, <1>4, OneMoreOnTheList
  <2> HIDE DEF last
  <2> QED
    BY <1>2, <2>1
<1> HIDE DEF last
<1>6. TakenInOrder(p, o)
  <2>1. TakenInOrder(p, s) /\ Taken(o) = Taken(s) \cup {Chapter(key0, p, s.cursor[key0] + 1)}
    BY <1>2, <1>5 DEF LoopInv
  <2>2. Len(o.out) = Len(s.out) + 1
    BY <1>5 DEF last
  <2> QED
    BY <1>1, <1>4, <2>1, <2>2, PushKeepsOrder
<1>7. Onwards(o)
  <2>1. \A i \in 1..Len(s.out) : s.out[i].bucket \in Bucket(hour)..s.bucket
    BY DEF LoopInv, Onwards
  <2>2. s.bucket \in Bucket(hour)..s.bucket
    BY <1>4
  <2>3. \A i \in 1..last : o.out[i].bucket \in Bucket(hour)..s.bucket
    BY <1>2, <1>5, <2>1, <2>2
  <2> QED
    BY <1>1, <1>4, <2>3 DEF last, Onwards
<1>8. /\ Cardinality(Here(o, s.bucket)) = Cardinality(Here(s, s.bucket)) + 1
      /\ Cardinality(HereOf(o, s.bucket, key0)) = Cardinality(HereOf(s, s.bucket, key0)) + 1
      /\ Cardinality(Here(s, s.bucket)) \in Nat /\ \A key : Cardinality(HereOf(s, s.bucket, key)) \in Nat
  <2>1. last \notin HereOf(s, s.bucket, key0)
    BY <1>5 DEF HereOf
  <2>2. /\ IsFiniteSet(Here(s, s.bucket)) /\ Cardinality(Here(s, s.bucket)) \in Nat
        /\ \A key : IsFiniteSet(HereOf(s, s.bucket, key)) /\ Cardinality(HereOf(s, s.bucket, key)) \in Nat
    BY <1>4, HeresAreFinite
  <2>3. last \notin Here(s, s.bucket)
    BY <1>5
  <2>4. Cardinality(Here(s, s.bucket) \cup {last}) = Cardinality(Here(s, s.bucket)) + 1
    BY <2>2, <2>3, FS_AddElement
  <2>5. Cardinality(HereOf(s, s.bucket, key0) \cup {last}) = Cardinality(HereOf(s, s.bucket, key0)) + 1
    BY <2>1, <2>2, FS_AddElement
  <2> QED
    BY <1>5, <2>2, <2>4, <2>5
<1>9. Placed(load, s.bucket) \in Nat /\ \A key \in SeriesKeys : PlacedOf(load, s.bucket, key) \in Nat
  BY LoadsAreNumbers
<1>10. \A key \in SeriesKeys : /\ o.per[key] = IF key = key0 THEN s.per[key] + 1 ELSE s.per[key]
                               /\ o.cursor[key] = IF key = key0 THEN s.cursor[key] + 1 ELSE s.cursor[key]
  BY <1>1, <1>4 DEF PerSeries
<1>11. CountersAgree(o, load)
  <2>1. s.placed = Placed(load, s.bucket) + Cardinality(Here(s, s.bucket))
    BY DEF LoopInv, CountersAgree
  <2>2. o.placed = Placed(load, o.bucket) + Cardinality(Here(o, o.bucket))
    BY <1>1, <1>8, <1>9, <2>1
  <2>3. ASSUME NEW key \in SeriesKeys
        PROVE  o.per[key] = PlacedOf(load, o.bucket, key) + Cardinality(HereOf(o, o.bucket, key))
    <3>1. s.per[key] = PlacedOf(load, s.bucket, key) + Cardinality(HereOf(s, s.bucket, key))
      BY DEF LoopInv, CountersAgree
    <3>2. CASE key = key0
      <4>1. o.per[key] = s.per[key] + 1
        BY <1>10, <3>2
      <4>2. Cardinality(HereOf(o, o.bucket, key)) = Cardinality(HereOf(s, s.bucket, key)) + 1
        BY <1>1, <1>8, <3>2
      <4> QED
        BY <1>1, <1>8, <1>9, <3>1, <4>1, <4>2
    <3>3. CASE key # key0
      BY <1>1, <1>5, <1>10, <3>1, <3>3
    <3> QED
      BY <3>2, <3>3
  <2> QED
    BY <2>2, <2>3 DEF CountersAgree
<1>12. Capped(o, load)
  <2>1. ASSUME NEW b \in Nat
        PROVE  PerDay = 0 \/ Here(o, b) = {} \/ Placed(load, b) + Cardinality(Here(o, b)) <= PerDay
    <3>1. CASE b = s.bucket
      <4>1. PerDay = 0 \/ s.placed + 1 <= PerDay
        BY <1>3, <1>4, SeriesInLine DEF Below
      <4> QED
        BY <1>1, <1>11, <3>1, <4>1 DEF CountersAgree
    <3>2. CASE b # s.bucket
      BY <1>5, <3>2 DEF LoopInv, Capped
    <3> QED
      BY <3>1, <3>2
  <2>2. ASSUME NEW b \in Nat, NEW key \in SeriesKeys, PerMangaPerDay # 0, HereOf(o, b, key) # {}
        PROVE  PlacedOf(load, b, key) + Cardinality(HereOf(o, b, key)) <= PerMangaPerDay
    <3>1. CASE b = s.bucket /\ key = key0
      <4>1. s.per[key0] + 1 <= PerMangaPerDay
        BY <1>1, <1>3, <1>4, <2>2, SeriesInLine DEF Below, PerSeries
      <4>2. o.per[key0] = PlacedOf(load, o.bucket, key0) + Cardinality(HereOf(o, o.bucket, key0))
        BY <1>1, <1>11 DEF CountersAgree
      <4>3. o.per[key0] = s.per[key0] + 1
        BY <1>1, <1>10
      <4> QED
        BY <1>1, <3>1, <4>1, <4>2, <4>3
    <3>2. CASE ~(b = s.bucket /\ key = key0)
      <4>1. HereOf(o, b, key) = HereOf(s, b, key)
        BY <1>5, <3>2
      <4> QED
        BY <2>2, <4>1 DEF LoopInv, Capped
    <3> QED
      BY <3>1, <3>2
  <2> QED
    BY <2>1, <2>2 DEF Capped
<1>13. HereOf(o, s.bucket, key0) # {}
  BY <1>5
<1>14. \A key \in SeriesKeys : Served(p, s, load, key) \/ key = key0 => Served(p, o, load, key)
  <2> SUFFICES ASSUME NEW key \in SeriesKeys, Served(p, s, load, key), key # key0
               PROVE  Served(p, o, load, key)
    BY <1>1, <1>13 DEF Served
  <2> QED
    BY <1>1, <1>3, <1>5, <1>10 DEF Served
<1>15. ASSUME ~ \A key \in SeriesKeys : Served(p, s, load, key)
       PROVE  /\ \A i \in 1..(o.turn - 1) : Served(p, o, load, Series[i])
              /\ \A i \in o.turn..Len(Series) : HereOf(o, o.bucket, Series[i]) = {}
              /\ \A key \in SeriesKeys : \A i, j \in HereOf(o, o.bucket, key) : i = j
  <2>1. /\ \A i \in 1..(s.turn - 1) : Served(p, s, load, Series[i])
        /\ \A i \in s.turn..Len(Series) : HereOf(s, s.bucket, Series[i]) = {}
        /\ \A key \in SeriesKeys : \A i, j \in HereOf(s, s.bucket, key) : i = j
    BY <1>15 DEF LoopInv, TurnByTurn
  <2>2. ASSUME NEW i \in 1..(o.turn - 1) PROVE Served(p, o, load, Series[i])
    <3>1. i \in 1..Len(Series) /\ (i = s.turn \/ i \in 1..(s.turn - 1))
      BY <1>1, <1>4
    <3>2. Series[i] \in SeriesKeys /\ (Served(p, s, load, Series[i]) \/ Series[i] = key0)
      BY <2>1, <3>1, SeriesInLine DEF key0
    <3> QED
      BY <1>14, <3>2
  <2>3. ASSUME NEW i \in o.turn..Len(Series) PROVE HereOf(o, o.bucket, Series[i]) = {}
    <3>1. i \in s.turn..Len(Series) /\ i \in 1..Len(Series) /\ i # s.turn
      BY <1>1, <1>4
    <3>2. Series[i] # key0
      BY <1>4, <3>1, SpreadAssumption DEF key0
    <3>3. HereOf(s, s.bucket, Series[i]) = {}
      BY <2>1, <3>1
    <3> QED
      BY <1>1, <1>5, <3>2, <3>3
  <2>4. ASSUME NEW key \in SeriesKeys, NEW i \in HereOf(o, o.bucket, key), NEW j \in HereOf(o, o.bucket, key) PROVE i = j
    <3>1. CASE key = key0
      <4>1. s.turn \in s.turn..Len(Series)
        BY <1>4
      <4>2. HereOf(s, s.bucket, key0) = {}
        BY <2>1, <4>1 DEF key0
      <4>3. HereOf(o, o.bucket, key) = {last}
        BY <1>1, <1>5, <3>1, <4>2
      <4> QED
        BY <4>3
    <3>2. CASE key # key0
      <4>1. HereOf(o, o.bucket, key) = HereOf(s, s.bucket, key)
        BY <1>1, <1>5, <3>2
      <4> QED
        BY <2>1, <4>1
    <3> QED
      BY <3>1, <3>2
  <2> QED
    BY <2>2, <2>3, <2>4
<1>16. TurnByTurn(p, o, load)
  BY <1>14, <1>15 DEF TurnByTurn
<1>17. NobodyWaits(p, o, load)
  <2> SUFFICES ASSUME NEW b \in Nat, NEW key \in SeriesKeys, Twice(o, b), HereOf(o, b, key) = {}, PlacedOf(load, b, key) = 0
               PROVE  /\ o.cursor[key] = Backlog[p][key]
                      /\ \A i \in 1..last : SeriesOf(o.out[i].chapter) = key => o.out[i].bucket < b
    BY DEF NobodyWaits, last
  <2>1. HereOf(s, b, key) = {}
    BY <1>5
  <2>2. /\ s.cursor[key] = Backlog[p][key]
        /\ \A i \in 1..Len(s.out) : SeriesOf(s.out[i].chapter) = key => s.out[i].bucket < b
    <3>1. CASE b = s.bucket
      <4>1. \A k \in SeriesKeys : Served(p, s, load, k)
        BY <1>1, <1>15, <3>1 DEF Twice
      <4>2. s.cursor[key] = Backlog[p][key]
        BY <1>3, <2>1, <3>1, <4>1 DEF Served
      <4>3. ASSUME NEW i \in 1..Len(s.out), SeriesOf(s.out[i].chapter) = key PROVE s.out[i].bucket < b
        <5>1. s.out[i].bucket # b
          BY <2>1, <4>3 DEF HereOf, Here
        <5>2. s.out[i].bucket \in Bucket(hour)..s.bucket
          BY DEF LoopInv, Onwards
        <5> QED
          BY <1>4, <3>1, <5>1, <5>2
      <4> QED
        BY <4>2, <4>3
    <3>2. CASE b # s.bucket
      <4>1. Twice(s, b)
        BY <1>5, <3>2 DEF Twice
      <4> QED
        BY <2>1, <4>1 DEF LoopInv, NobodyWaits
    <3> QED
      BY <3>1, <3>2
  <2>3. key # key0
    BY <1>1, <1>3, <1>4, <2>2 DEF PerSeries
  <2>4. o.cursor[key] = Backlog[p][key]
    BY <1>10, <2>2, <2>3
  <2>5. \A i \in 1..last : SeriesOf(o.out[i].chapter) = key => o.out[i].bucket < b
    BY <1>2, <1>5, <2>2, <2>3
  <2> QED
    BY <2>4, <2>5
<1>18. InTime(p, o, load, n + 1)
  <2> DEFINE m == IF s.progressed THEN 1 ELSE 0
             x == Len(s.out) + Passed(s)
             a == Len(Series) + 1
  <2>1. x \in Int /\ a \in Nat /\ m \in 0..1
    BY <1>4, <1>5 DEF Passed
  <2>2. n + 1 <= a * (x - m) + s.turn
    <3>1. InTime(p, s, load, n)
      BY DEF LoopInv
    <3> QED
      BY <3>1, Zenon DEF InTime
  <2>3. a * (x - m) <= a * x
    <3> HIDE DEF a, x, m
    <3>1. m = 0 \/ m = 1
      BY <2>1
    <3>2. a * (x - 1) = a * x - a
      BY <2>1
    <3> QED  BY <2>1, <3>1, <3>2
  <2>4. (Len(o.out) + Passed(o)) - (IF o.progressed THEN 1 ELSE 0) = x
    <3>1. Len(o.out) = Len(s.out) + 1
      BY <1>5 DEF last
    <3>2. Passed(o) = Passed(s) /\ Passed(s) \in Int
      BY <1>1, <1>4 DEF Passed
    <3>3. (IF o.progressed THEN 1 ELSE 0) = 1
      BY <1>1
    <3> QED
      BY <1>5, <3>1, <3>2, <3>3
  <2>5. (n + 1) + 1 <= a * x + o.turn
    <3>1. a * x \in Int /\ a * (x - m) \in Int
      <4> HIDE DEF a, x, m
      <4> QED  BY <2>1
    <3> HIDE DEF a, x, m
    <3> QED  BY <1>1, <1>4, <2>1, <2>2, <2>3, <3>1
  <2>6. (n + 1) + 1 <= a * ((Len(o.out) + Passed(o)) - (IF o.progressed THEN 1 ELSE 0)) + o.turn
    BY <2>4, <2>5
  <2>7. (Bucket(hour)..(o.bucket - 1)) \subseteq DOMAIN load \cup {o.out[i].bucket : i \in 1..last}
    <3>1. (Bucket(hour)..(s.bucket - 1)) \subseteq DOMAIN load \cup {s.out[i].bucket : i \in 1..Len(s.out)}
      BY DEF LoopInv, InTime
    <3>2. {s.out[i].bucket : i \in 1..Len(s.out)} \subseteq {o.out[i].bucket : i \in 1..last}
      <4>1. ASSUME NEW i \in 1..Len(s.out) PROVE s.out[i].bucket \in {o.out[j].bucket : j \in 1..last}
        <5>1. i \in 1..last /\ o.out[i] = s.out[i]
          BY <1>5
        <5> QED  BY <5>1
      <4> QED  BY <4>1
    <3> QED
      BY <1>1, <3>1, <3>2
  <2>8. Here(o, o.bucket) # {}
    BY <1>1, <1>5
  <2> QED
    BY <2>6, <2>7, <2>8 DEF InTime, last
<1> QED
  BY <1>1, <1>6, <1>7, <1>11, <1>12, <1>16, <1>17, <1>18 DEF o, LoopInv
(* Turn by turn, the loops know all of that, and so many turns place       *)
(* everything.                                                             *)
LEMMA TurnKeepsLoop ==
  ASSUME NEW p \in Planners, NEW load, LoadFits(load), hour \in Nat, NEW n \in Nat, NEW s, LoopInv(p, s, load, n)
  PROVE  LoopInv(p, Turn(p, s, load), load, n + 1)
<1>1. CASE AllPlaced(p, s)
  <2>1. Turn(p, s, load) = s
    BY <1>1 DEF Turn
  <2>2. InTime(p, s, load, n + 1)
    BY <1>1 DEF LoopInv, InTime
  <2> QED
    BY <2>1, <2>2 DEF LoopInv
<1>0. s.turn \in Nat /\ Len(Series) \in Nat
  BY SeriesInLine DEF LoopInv, LocalsType
<1>2. CASE ~AllPlaced(p, s) /\ s.turn <= Len(Series)
  <2>1. Turn(p, s, load) = Place(p, s)
    <3>1. ~(s.turn > Len(Series))
      BY <1>0, <1>2
    <3> QED
      BY <1>2, <3>1 DEF Turn
  <2>2. CASE Fits(p, s, Series[s.turn])
    BY <1>2, <2>1, <2>2, ChapterPlaced
  <2>3. CASE ~Fits(p, s, Series[s.turn])
    <3>1. Place(p, s) = [s EXCEPT !.turn = @ + 1]
      BY <2>3 DEF Place
    <3> QED
      BY <1>2, <2>1, <2>3, <3>1, SeriesPassedOver
  <2> QED
    BY <2>2, <2>3
<1>3. CASE ~AllPlaced(p, s) /\ ~(s.turn <= Len(Series))
  <2>0. s.turn > Len(Series)
    BY <1>3, SeriesInLine DEF LoopInv, LocalsType
  <2>1. Turn(p, s, load) = IF s.progressed /\ Below(s.placed, PerDay) THEN [s EXCEPT !.turn = 1, !.progressed = FALSE]
                           ELSE Opened(s, s.bucket + 1, load)
    BY <1>3, <2>0 DEF Turn
  <2>2. CASE s.progressed /\ Below(s.placed, PerDay)
    <3>1. Turn(p, s, load) = [s EXCEPT !.turn = 1, !.progressed = FALSE]
      BY <2>1, <2>2
    <3>2. LoopInv(p, [s EXCEPT !.turn = 1, !.progressed = FALSE], load, n + 1)
      BY <1>3, <2>0, <2>2, AnotherRound
    <3> QED
      BY <3>1, <3>2
  <2>3. CASE ~(s.progressed /\ Below(s.placed, PerDay))
    BY <1>3, <2>0, <2>1, <2>3, NextBucket
  <2> QED
    BY <2>2, <2>3
<1> QED
  BY <1>1, <1>2, <1>3

LEMMA TurnsKeepLoop ==
  ASSUME NEW p \in Planners, NEW load, LoadFits(load), hour \in Nat, NEW n \in Nat
  PROVE  LoopInv(p, Turns(p, load)[n], load, n)
<1> DEFINE Ok(k) == LoopInv(p, Turns(p, load)[k], load, k)
           T == {k \in Nat : ~Ok(k)}
<1> SUFFICES ASSUME T # {} PROVE FALSE
  OBVIOUS
<1>1. PICK k \in T : \A j \in T : k <= j
  <2>1. T \in SUBSET Nat
    OBVIOUS
  <2> HIDE DEF T
  <2> QED
    BY <2>1, Least
<1>2. k # 0
  BY <1>1, TurnsAreTurns, OpeningIsFresh
<1>3. k - 1 \in Nat /\ (k - 1) + 1 = k /\ k - 1 \notin T
  BY <1>1, <1>2
<1>4. LoopInv(p, Turns(p, load)[k - 1], load, k - 1)
  BY <1>3
<1>5. LoopInv(p, Turn(p, Turns(p, load)[k - 1], load), load, (k - 1) + 1)
  BY <1>3, <1>4, TurnKeepsLoop
<1>6. Turns(p, load)[(k - 1) + 1] = Turn(p, Turns(p, load)[k - 1], load)
  BY <1>3, TurnsAreTurns
<1> QED
  BY <1>1, <1>3, <1>5, <1>6

LEMMA WhatIsTakenIsPending ==
  ASSUME NEW p \in Planners, NEW s \in LocalsType(p), TakenInOrder(p, s), hour \in Nat
  PROVE  /\ Taken(s) \subseteq PendingUploads(p) /\ IsFiniteSet(Taken(s))
         /\ Len(s.out) <= Cardinality(PendingUploads(p))
         /\ AllPlaced(p, s) <=> Taken(s) = PendingUploads(p)
         /\ AllPlaced(p, s) <=> Len(s.out) = Cardinality(PendingUploads(p))
<1>1. s.cursor \in PerSeries /\ \A key \in SeriesKeys : s.cursor[key] \in Nat /\ Backlog[p][key] \in Nat
  BY SpreadAssumption DEF LocalsType, PerSeries
<1>2. Taken(s) \subseteq PendingUploads(p)
  <2>1. ASSUME NEW c \in Taken(s) PROVE c \in PendingUploads(p)
    <3>1. PICK key \in SeriesKeys : \E i \in 1..s.cursor[key] : c = Chapter(key, p, i)
      BY DEF TakenInOrder
    <3>2. PICK i \in 1..s.cursor[key] : c = Chapter(key, p, i)
      BY <3>1
    <3>3. i \in 1..Backlog[p][key]
      BY <1>1 DEF TakenInOrder
    <3> QED
      BY <3>2, <3>3 DEF PendingUploads
  <2> QED
    BY <2>1
<1>3. /\ IsFiniteSet(Taken(s))
      /\ Cardinality(Taken(s)) <= Cardinality(PendingUploads(p))
      /\ Cardinality(Taken(s)) = Cardinality(PendingUploads(p)) => Taken(s) = PendingUploads(p)
  BY <1>2, PendingIsFinite, FS_Subset
<1>4. ASSUME AllPlaced(p, s) PROVE Taken(s) = PendingUploads(p)
  BY <1>4 DEF AllPlaced, TakenInOrder, PendingUploads
<1>5. ASSUME Taken(s) = PendingUploads(p) PROVE AllPlaced(p, s)
  <2> SUFFICES ASSUME NEW key \in SeriesKeys PROVE s.cursor[key] = Backlog[p][key]
    BY DEF AllPlaced
  <2> SUFFICES ASSUME s.cursor[key] # Backlog[p][key] PROVE FALSE
    OBVIOUS
  <2>1. s.cursor[key] < Backlog[p][key] /\ Backlog[p][key] \in 1..Backlog[p][key]
    BY <1>1 DEF TakenInOrder
  <2>2. Chapter(key, p, Backlog[p][key]) \in Taken(s)
    BY <1>5, <2>1 DEF PendingUploads
  <2>3. PICK other \in SeriesKeys : \E i \in 1..s.cursor[other] : Chapter(key, p, Backlog[p][key]) = Chapter(other, p, i)
    BY <2>2 DEF TakenInOrder
  <2>4. PICK i \in 1..s.cursor[other] : Chapter(key, p, Backlog[p][key]) = Chapter(other, p, i)
    BY <2>3
  <2>5. other = key /\ i = Backlog[p][key]
    BY <2>4 DEF Chapter
  <2> QED
    BY <1>1, <2>1, <2>4, <2>5
<1> QED
  BY <1>2, <1>3, <1>4, <1>5 DEF TakenInOrder

LEMMA EnoughIsEnough ==
  ASSUME NEW p \in Planners, NEW load, LoadFits(load), hour \in Nat
  PROVE  Enough(p, load) \in Nat /\ AllPlaced(p, Turns(p, load)[Enough(p, load)])
<1> DEFINE many == Cardinality(PendingUploads(p))
           loaded == Cardinality(DOMAIN load)
           a == Len(Series) + 1
           n == Enough(p, load)
           s == Turns(p, load)[n]
<1>1. many \in Nat /\ loaded \in Nat /\ Len(Series) \in Nat /\ a \in Nat
  BY PendingIsFinite, SeriesInLine, FS_CardinalityType DEF LoadFits
<1>2. n = a * (2 * many + loaded + 1)
  BY DEF Enough
<1>3. n \in Nat
  <2> HIDE DEF many, loaded, a, n
  <2> QED  BY <1>1, <1>2
<1>4. LoopInv(p, s, load, n)
  <2> HIDE DEF n
  <2> QED  BY <1>3, TurnsKeepLoop
<1> SUFFICES ASSUME ~AllPlaced(p, s) PROVE FALSE
  BY <1>3
<1> HIDE DEF s, n
<1>5. s \in LocalsType(p) /\ Len(s.out) \in Nat /\ Len(s.out) <= many /\ Len(s.out) # many
  <2>1. s \in LocalsType(p) /\ TakenInOrder(p, s)
    BY <1>4 DEF LoopInv
  <2>2. Len(s.out) \in Nat
    BY <2>1 DEF LocalsType
  <2> QED
    BY <2>1, <2>2, WhatIsTakenIsPending
<1>6. Passed(s) \in Nat /\ Passed(s) <= loaded + Len(s.out)
  <2> DEFINE gone == Bucket(hour)..(s.bucket - 1)
             filled == {s.out[i].bucket : i \in 1..Len(s.out)}
  <2>1. gone \subseteq DOMAIN load \cup filled
    BY <1>4 DEF LoopInv, InTime
  <2>2. IsFiniteSet(filled) /\ Cardinality(filled) <= Len(s.out)
    <3> DEFINE f == [i \in 1..Len(s.out) |-> s.out[i].bucket]
    <3>1. f \in Surjection(1..Len(s.out), filled)
      BY DEF Surjection
    <3>2. IsFiniteSet(1..Len(s.out)) /\ Cardinality(1..Len(s.out)) = Len(s.out)
      BY <1>5, FS_Interval
    <3> HIDE DEF f, filled
    <3> QED
      BY <3>1, <3>2, FS_Surjection
  <2>3. /\ IsFiniteSet(DOMAIN load \cup filled)
        /\ Cardinality(DOMAIN load \cup filled) <= loaded + Cardinality(filled)
    <3> HIDE DEF filled
    <3>1. IsFiniteSet(DOMAIN load)
      BY DEF LoadFits
    <3>2. /\ IsFiniteSet(DOMAIN load \cup filled)
          /\ Cardinality(DOMAIN load \cup filled) = loaded + Cardinality(filled) - Cardinality(DOMAIN load \cap filled)
      BY <2>2, <3>1, FS_Union
    <3>3. Cardinality(DOMAIN load \cap filled) \in Nat /\ Cardinality(filled) \in Nat
      <4>1. IsFiniteSet(DOMAIN load \cap filled)
        BY <3>1, FS_Intersection
      <4> QED
        BY <2>2, <4>1, FS_CardinalityType
    <3> QED
      BY <1>1, <3>2, <3>3
  <2>4. Bucket(hour) \in Nat /\ s.bucket \in Nat /\ Bucket(hour) <= s.bucket
    BY <1>4, SeriesInLine DEF LoopInv, Onwards, LocalsType
  <2>5. Cardinality(gone) = Passed(s)
    <3>1. s.bucket - 1 \in Int /\ Bucket(hour) \in Int
      BY <2>4
    <3>2. Cardinality(gone) = IF Bucket(hour) > s.bucket - 1 THEN 0 ELSE (s.bucket - 1) - Bucket(hour) + 1
      BY <3>1, FS_Interval
    <3> HIDE DEF gone
    <3> QED
      BY <2>4, <3>2 DEF Passed
  <2>6. Cardinality(gone) <= Cardinality(DOMAIN load \cup filled)
    <3> HIDE DEF gone, filled
    <3> QED
      BY <2>1, <2>3, FS_Subset
  <2>7. Cardinality(DOMAIN load \cup filled) \in Nat /\ Cardinality(filled) \in Nat
    <3> HIDE DEF filled
    <3> QED
      BY <2>2, <2>3, FS_CardinalityType
  <2>8. Passed(s) \in Nat
    BY <2>4 DEF Passed
  <2> HIDE DEF gone, filled
  <2> QED
    BY <1>1, <1>5, <2>2, <2>3, <2>5, <2>6, <2>7, <2>8
<1> DEFINE m == IF s.progressed THEN 1 ELSE 0
           x == Len(s.out) + Passed(s)
           y == 2 * many + loaded
<1>7. n + 1 <= a * (x - m) + s.turn
  <2>1. InTime(p, s, load, n)
    BY <1>4 DEF LoopInv
  <2> QED
    BY <2>1, Zenon DEF InTime
<1>8. m \in 0..1 /\ x \in Nat /\ y \in Nat /\ x - m <= y
  <2> HIDE DEF many, loaded
  <2> QED
    BY <1>1, <1>5, <1>6
<1>9. s.turn <= a /\ s.turn \in Nat
  BY <1>1, <1>5 DEF LocalsType
<1>10. a * (x - m) <= a * y
  <2> HIDE DEF a, x, y, m
  <2> QED
    BY <1>1, <1>8
<1>11. n = a * y + a
  <2>1. n = a * (y + 1)
    BY <1>2
  <2> HIDE DEF a, x, y, m
  <2> QED
    BY <1>1, <1>8, <2>1
<1>12. a * (x - m) \in Int /\ a * y \in Int
  <2> HIDE DEF a, x, y, m
  <2> QED
    BY <1>1, <1>8
<1> HIDE DEF a, x, y, m
<1> QED
  BY <1>1, <1>3, <1>7, <1>9, <1>10, <1>11, <1>12
-----------------------------------------------------------------------------
(* The release schedule: the queue                                         *)

Todo(p) == planner[p].todo
Due(p, b) == {Todo(p)[i].chapter : i \in {j \in 1..Len(Todo(p)) : Todo(p)[j].bucket = b}}
DueOf(p, b, key) == {c \in Due(p, b) : SeriesOf(c) = key}

(* What a bucket has been given: the rows meant for it and dated inside    *)
(* it, and what plans under way will add.                                  *)
Given(b) == Filled(b) \cup UNION {Due(p, b) : p \in Planners}
GivenOf(b, key) == {c \in Given(b) : SeriesOf(c) = key}

PlannersFit ==
  /\ IsFiniteSet(DOMAIN queued) /\ \A c \in DOMAIN queued : queued[c].bucket \in Nat
  /\ hour \in Nat /\ overlaps \in Nat
  /\ planner \in [Planners -> [at : {"ready", "enqueue", "done"}, todo : Seq(UNION {Dated(p) : p \in Planners})]]
  /\ \A p \in Planners : /\ Todo(p) \in Seq(Dated(p))
                         /\ planner[p].at # "enqueue" => Todo(p) = <<>>

Allowances == \A b \in Nat :
  /\ IsFiniteSet(Given(b))
  /\ PerDay = 0 \/ Cardinality(Given(b)) <= PerDay * (1 + overlaps)
  /\ PerMangaPerDay = 0
     \/ \A key \in SeriesKeys : Cardinality(GivenOf(b, key)) <= PerMangaPerDay * (1 + overlaps)

(* What a plan has not enqueued has a row.                                 *)
PlansAreWhole == \A p \in Planners :
  /\ Len(Todo(p)) <= Cardinality(PendingUploads(p))
  /\ planner[p].at # "ready" =>
       PendingUploads(p) \subseteq DOMAIN queued \cup {Todo(p)[i].chapter : i \in 1..Len(Todo(p))}

BudgetInv == PlannersFit /\ Allowances /\ PlansAreWhole /\ NoSeriesWaits

LEMMA LoadsAreRead ==
  ASSUME PlannersFit
  PROVE  /\ LoadFits(ScheduledLoad)
         /\ \A b \in Nat : b >= Bucket(hour) =>
              /\ Placed(ScheduledLoad, b) = Cardinality(Rows(b))
              /\ \A key \in SeriesKeys : PlacedOf(ScheduledLoad, b, key) = Cardinality(RowsOf(b, key))
         /\ \A b : IsFiniteSet(Rows(b)) /\ \A key : IsFiniteSet(RowsOf(b, key))
<1> DEFINE buckets == {Bucket(queued[c].at) : c \in DOMAIN queued}
           read == buckets \cap {n \in Nat : n >= Bucket(hour)}
<1>1. \A b : IsFiniteSet(Rows(b)) /\ \A key : IsFiniteSet(RowsOf(b, key))
  <2>1. IsFiniteSet(DOMAIN queued) /\ \A b : Rows(b) \subseteq DOMAIN queued /\ \A key : RowsOf(b, key) \subseteq DOMAIN queued
    BY DEF PlannersFit, Rows, RowsOf
  <2> QED
    BY <2>1, FS_Subset
<1>2. IsFiniteSet(read)
  <2> DEFINE f == [c \in DOMAIN queued |-> Bucket(queued[c].at)]
  <2>1. f \in Surjection(DOMAIN queued, buckets)
    BY DEF Surjection
  <2>2. IsFiniteSet(buckets)
    <3> HIDE DEF f, buckets
    <3> QED
      BY <2>1, FS_Surjection DEF PlannersFit
  <2> QED
    BY <2>2, FS_Subset
<1>3. DOMAIN ScheduledLoad = read
  BY DEF ScheduledLoad
<1>4. ASSUME NEW b \in read
      PROVE  /\ ScheduledLoad[b] \in [total : Nat, perManga : PerSeries]
             /\ ScheduledLoad[b].total = Cardinality(Rows(b))
             /\ \A key \in SeriesKeys : ScheduledLoad[b].perManga[key] = Cardinality(RowsOf(b, key))
  <2>1. ScheduledLoad[b] = [total |-> Cardinality(Rows(b)), perManga |-> [key \in SeriesKeys |-> Cardinality(RowsOf(b, key))]]
    BY <1>4 DEF ScheduledLoad
  <2>2. Cardinality(Rows(b)) \in Nat /\ \A key \in SeriesKeys : Cardinality(RowsOf(b, key)) \in Nat
    BY <1>1, FS_CardinalityType
  <2> QED
    BY <2>1, <2>2 DEF PerSeries
<1>5. ASSUME NEW b \in Nat, b >= Bucket(hour), b \notin read
      PROVE  Cardinality(Rows(b)) = 0 /\ \A key : Cardinality(RowsOf(b, key)) = 0
  <2>1. Rows(b) = {} /\ \A key : RowsOf(b, key) = {}
    BY <1>5 DEF Rows, RowsOf
  <2> QED
    BY <2>1, FS_EmptySet
<1> HIDE DEF read
<1> QED
  BY <1>1, <1>2, <1>3, <1>4, <1>5 DEF LoadFits, Placed, PlacedOf

(* planUploadSchedule                                                      *)
LEMMA PlansKeepPromises ==
  ASSUME PlannersFit, NEW p \in Planners, NEW todo, todo = PlanUploadSchedule(p, ScheduledLoad)
  PROVE  /\ todo \in Seq(Dated(p)) /\ Len(todo) = Cardinality(PendingUploads(p))
         /\ {todo[i].chapter : i \in 1..Len(todo)} = PendingUploads(p)
         /\ \A i \in 1..Len(todo) : todo[i].bucket \in Nat /\ todo[i].bucket >= Bucket(hour)
         /\ \E s \in LocalsType(p) : s.out = todo /\ Capped(s, ScheduledLoad) /\ NobodyWaits(p, s, ScheduledLoad)
<1> DEFINE s == Turns(p, ScheduledLoad)[Enough(p, ScheduledLoad)]
<1>0. hour \in Nat /\ LoadFits(ScheduledLoad)
  BY LoadsAreRead DEF PlannersFit
<1>1. AllPlaced(p, s) /\ Enough(p, ScheduledLoad) \in Nat
  BY <1>0, EnoughIsEnough
<1>2. LoopInv(p, s, ScheduledLoad, Enough(p, ScheduledLoad))
  BY <1>0, <1>1, TurnsKeepLoop
<1>3. todo = s.out
  BY DEF PlanUploadSchedule
<1> HIDE DEF s
<1>4. s \in LocalsType(p) /\ TakenInOrder(p, s) /\ Onwards(s) /\ Capped(s, ScheduledLoad) /\ NobodyWaits(p, s, ScheduledLoad)
  BY <1>2 DEF LoopInv
<1>5. Taken(s) = PendingUploads(p) /\ Len(s.out) = Cardinality(PendingUploads(p))
  BY <1>0, <1>1, <1>4, WhatIsTakenIsPending
<1>6. s.out \in Seq(Dated(p)) /\ s.bucket \in Nat /\ Bucket(hour) \in Nat
  BY <1>0, <1>4, SeriesInLine DEF LocalsType
<1>7. \A i \in 1..Len(s.out) : s.out[i].bucket \in Nat /\ s.out[i].bucket >= Bucket(hour)
  <2>1. \A i \in 1..Len(s.out) : s.out[i].bucket \in Bucket(hour)..s.bucket
    BY <1>4 DEF Onwards
  <2>2. \A x \in Bucket(hour)..s.bucket : x \in Nat /\ x >= Bucket(hour)
    BY <1>6
  <2> QED
    BY <2>1, <2>2
<1> QED
  BY <1>3, <1>4, <1>5, <1>6, <1>7 DEF Taken
(* What is given is bounded by an allowance for every overlap: a plan that *)
(* is alone fills up what the rows leave, one that is not is counted.      *)
LEMMA OneAllowance ==
  ASSUME NEW cap \in Nat, NEW n \in Nat, NEW m \in Nat, NEW G, NEW R, NEW D,
         IsFiniteSet(G), IsFiniteSet(R), IsFiniteSet(D),
         Cardinality(G) <= cap * (1 + n), D = {} \/ Cardinality(R) + Cardinality(D) <= cap,
         m = n + 1 \/ (m = n /\ G \subseteq R)
  PROVE  Cardinality(G \cup D) <= cap * (1 + m)
<1>1. Cardinality(G) \in Nat /\ Cardinality(R) \in Nat /\ Cardinality(D) \in Nat /\ Cardinality(G \cap D) \in Nat
  BY FS_CardinalityType, FS_Intersection
<1>2. Cardinality(G \cup D) = Cardinality(G) + Cardinality(D) - Cardinality(G \cap D)
  BY FS_Union
<1>3. cap * (1 + (n + 1)) = cap * (1 + n) + cap /\ cap * (1 + n) \in Nat /\ cap <= cap * (1 + n)
  <2>1. cap * (1 + (n + 1)) = cap * (1 + n) + cap
    OBVIOUS
  <2>2. cap * (1 + n) = cap + cap * n /\ cap * n \in Nat
    OBVIOUS
  <2> QED
    BY <2>1, <2>2
<1>4. CASE m = n + 1
  <2>1. D = {} => Cardinality(D) = 0
    BY FS_EmptySet
  <2>2. Cardinality(D) <= cap
    BY <1>1, <2>1
  <2>3. Cardinality(G \cup D) <= cap * (1 + n) + cap
    BY <1>1, <1>2, <1>3, <2>2
  <2> QED
    BY <1>3, <1>4, <2>3
<1>5. CASE m = n /\ G \subseteq R
  <2>1. CASE D = {}
    <3>1. G \cup D = G
      BY <2>1
    <3> QED
      BY <1>5, <3>1
  <2>2. CASE D # {}
    <3>1. Cardinality(G) <= Cardinality(R)
      BY <1>5, FS_Subset
    <3>2. Cardinality(G \cup D) <= cap
      BY <1>1, <1>2, <2>2, <3>1
    <3>3. Cardinality(G \cup D) \in Nat
      BY FS_Union, FS_CardinalityType
    <3> QED
      BY <1>3, <1>5, <3>2, <3>3
  <2> QED
    BY <2>1, <2>2
<1> QED
  BY <1>4, <1>5

(* A step after which a bucket has been given no more.                     *)
LEMMA NoMoreGiven ==
  ASSUME PlannersFit, Allowances, overlaps' = overlaps, \A b \in Nat : Given(b)' \subseteq Given(b)
  PROVE  Allowances'
<1>1. ASSUME NEW b \in Nat
      PROVE  /\ IsFiniteSet(Given(b)')
             /\ PerDay = 0 \/ Cardinality(Given(b)') <= PerDay * (1 + overlaps)
             /\ PerMangaPerDay = 0
                \/ \A key \in SeriesKeys : Cardinality(GivenOf(b, key)') <= PerMangaPerDay * (1 + overlaps)
  <2>1. IsFiniteSet(Given(b)) /\ Given(b)' \subseteq Given(b)
    BY DEF Allowances
  <2>2. \A key : GivenOf(b, key)' \subseteq GivenOf(b, key) /\ GivenOf(b, key) \subseteq Given(b)
    BY <2>1 DEF GivenOf
  <2>3. /\ IsFiniteSet(Given(b)') /\ Cardinality(Given(b)') <= Cardinality(Given(b))
        /\ Cardinality(Given(b)') \in Nat /\ Cardinality(Given(b)) \in Nat
    BY <2>1, FS_Subset, FS_CardinalityType
  <2>4. ASSUME NEW key
        PROVE  /\ Cardinality(GivenOf(b, key)') <= Cardinality(GivenOf(b, key))
               /\ Cardinality(GivenOf(b, key)') \in Nat /\ Cardinality(GivenOf(b, key)) \in Nat
    <3>1. IsFiniteSet(GivenOf(b, key))
      BY <2>1, <2>2, FS_Subset
    <3> QED
      BY <2>2, <3>1, FS_Subset, FS_CardinalityType
  <2>5. PerDay * (1 + overlaps) \in Nat /\ PerMangaPerDay * (1 + overlaps) \in Nat
    <3>1. PerDay \in Nat /\ PerMangaPerDay \in Nat /\ overlaps \in Nat
      BY SpreadAssumption DEF PlannersFit
    <3> QED
      BY <3>1
  <2> QED
    BY <2>3, <2>4, <2>5 DEF Allowances
<1> QED
  BY <1>1 DEF Allowances

LEMMA BudgetStart ==
  ASSUME SpreadInit
  PROVE  BudgetInv
<1>1. /\ queued = <<>> /\ hour \in Clock /\ stops = 0 /\ overlaps = 0
      /\ planner = [p \in Planners |-> [at |-> "ready", todo |-> <<>>]]
  BY DEF SpreadInit
<1>2. DOMAIN queued = {}
  BY <1>1
<1>3. \A p \in Planners : Todo(p) = <<>> /\ Len(Todo(p)) = 0 /\ planner[p].at = "ready"
  BY <1>1 DEF Todo
<1>4. PlannersFit
  <2>1. IsFiniteSet(DOMAIN queued)
    BY <1>2, FS_EmptySet
  <2>2. hour \in Nat /\ overlaps \in Nat
    BY <1>1, SpreadAssumption
  <2>3. \A p \in Planners : Todo(p) \in Seq(Dated(p))
    <3>1. \A p : << >> \in Seq(Dated(p))
      OBVIOUS
    <3> QED
      BY <1>3, <3>1
  <2>4. planner \in [Planners -> [at : {"ready", "enqueue", "done"}, todo : Seq(UNION {Dated(p) : p \in Planners})]]
    <3>1. << >> \in Seq(UNION {Dated(p) : p \in Planners})
      OBVIOUS
    <3> QED
      BY <1>1, <3>1
  <2> QED
    BY <1>2, <1>3, <2>1, <2>2, <2>3, <2>4 DEF PlannersFit
<1>5. Allowances
  <2>1. \A b : Given(b) = {} /\ \A key : GivenOf(b, key) = {}
    <3>1. \A b : Filled(b) = {}
      BY <1>2 DEF Filled, Rows
    <3>2. \A b, p : p \in Planners => Due(p, b) = {}
      BY <1>3 DEF Due
    <3> QED
      BY <3>1, <3>2 DEF Given, GivenOf
  <2>2. Cardinality({}) = 0 /\ IsFiniteSet({})
    BY FS_EmptySet
  <2>3. PerDay * (1 + overlaps) >= 0 /\ PerMangaPerDay * (1 + overlaps) >= 0
    <3>1. PerDay * (1 + overlaps) = PerDay /\ PerMangaPerDay * (1 + overlaps) = PerMangaPerDay
      BY <1>1, SpreadAssumption
    <3> QED
      BY <3>1, SpreadAssumption
  <2> QED
    BY <2>1, <2>2, <2>3 DEF Allowances
<1>6. PlansAreWhole
  <2>1. \A p \in Planners : Cardinality(PendingUploads(p)) \in Nat
    BY <1>4, PendingIsFinite DEF PlannersFit
  <2> QED
    BY <1>3, <2>1 DEF PlansAreWhole
<1>7. NoSeriesWaits
  BY <1>3 DEF NoSeriesWaits, Todo
<1> QED
  BY <1>4, <1>5, <1>6, <1>7 DEF BudgetInv
(* NoSeriesWaits, of one run.                                              *)
InTurn(p) ==
  Len(Todo(p)) = Cardinality(PendingUploads(p)) =>
    \A i, j \in 1..Len(Todo(p)), key \in SeriesKeys :
      /\ i # j /\ SeriesOf(Todo(p)[i].chapter) = SeriesOf(Todo(p)[j].chapter)
      /\ Todo(p)[j].bucket = Todo(p)[i].bucket
      /\ \A l \in 1..Len(Todo(p)) :
           SeriesOf(Todo(p)[l].chapter) = key => Todo(p)[l].bucket # Todo(p)[i].bucket
      /\ RowsOf(Todo(p)[i].bucket, key) = {}
      => \A l \in 1..Len(Todo(p)) :
           SeriesOf(Todo(p)[l].chapter) = key => Todo(p)[l].bucket < Todo(p)[i].bucket

LEMMA WaitingIsByRun ==
  /\ NoSeriesWaits <=> \A p \in Planners : InTurn(p)
  /\ NoSeriesWaits' <=> \A p \in Planners : InTurn(p)'
<1>1. NoSeriesWaits <=> \A p \in Planners : InTurn(p)
  BY DEF NoSeriesWaits, InTurn, Todo
<1>2. NoSeriesWaits' <=> \A p \in Planners : InTurn(p)'
  BY DEF NoSeriesWaits, InTurn, Todo
<1> QED
  BY <1>1, <1>2

(* Chapters on a list are no more than its places.                         *)
LEMMA NoMoreThanPlaces ==
  ASSUME NEW todo, NEW places, IsFiniteSet(places)
  PROVE  /\ IsFiniteSet({todo[i].chapter : i \in places})
         /\ Cardinality({todo[i].chapter : i \in places}) <= Cardinality(places)
         /\ Cardinality({todo[i].chapter : i \in places}) \in Nat
<1> DEFINE f == [i \in places |-> todo[i].chapter]
           chapters == {todo[i].chapter : i \in places}
<1>1. f \in Surjection(places, chapters)
  BY DEF Surjection
<1> HIDE DEF f, chapters
<1>2. IsFiniteSet(chapters) /\ Cardinality(chapters) <= Cardinality(places)
  BY <1>1, FS_Surjection
<1> QED
  BY <1>2, FS_CardinalityType DEF chapters

LEMMA HeadAndTail ==
  ASSUME NEW S, NEW t \in Seq(S), t # <<>>
  PROVE  /\ Len(t) \in Nat \ {0} /\ Head(t) = t[1] /\ Head(t) \in S
         /\ Tail(t) \in Seq(S) /\ Len(Tail(t)) = Len(t) - 1
         /\ \A i \in 1..Len(Tail(t)) : i + 1 \in 1..Len(t) /\ Tail(t)[i] = t[i + 1]
         /\ \A i \in 1..Len(t) : i = 1 \/ (i - 1 \in 1..Len(Tail(t)) /\ Tail(t)[i - 1] = t[i])
  OBVIOUS

(* A plan gives a bucket what its rows leave.                              *)
LEMMA PlanAllows ==
  ASSUME BudgetInv, NEW p \in Planners, Plan(p), NEW b \in Nat
  PROVE  /\ IsFiniteSet(Given(b)')
         /\ PerDay = 0 \/ Cardinality(Given(b)') <= PerDay * (1 + overlaps')
         /\ PerMangaPerDay = 0
            \/ \A key \in SeriesKeys : Cardinality(GivenOf(b, key)') <= PerMangaPerDay * (1 + overlaps')
<1> DEFINE todo == PlanUploadSchedule(p, ScheduledLoad)
<1>1. /\ PlannersFit /\ Allowances /\ planner[p].at = "ready" /\ queued' = queued
      /\ planner' = [planner EXCEPT ![p] = [at |-> "enqueue", todo |-> todo]]
      /\ overlaps' = IF \E q \in Planners : planner[q].at = "enqueue" THEN overlaps + 1 ELSE overlaps
  BY DEF BudgetInv, Plan
<1>2. /\ \A i \in 1..Len(todo) : todo[i].bucket \in Nat /\ todo[i].bucket >= Bucket(hour)
      /\ \E s \in LocalsType(p) : s.out = todo /\ Capped(s, ScheduledLoad) /\ NobodyWaits(p, s, ScheduledLoad)
  BY <1>1, PlansKeepPromises
<1> HIDE DEF todo
<1>3. PICK s \in LocalsType(p) : s.out = todo /\ Capped(s, ScheduledLoad)
  BY <1>2
<1>4. /\ Todo(p) = <<>> /\ Todo(p)' = todo
      /\ \A q \in Planners \ {p} : Todo(q)' = Todo(q)
  BY <1>1 DEF PlannersFit, Todo
<1> DEFINE D == {todo[i].chapter : i \in Here(s, b)}
           DOf(key) == {todo[i].chapter : i \in HereOf(s, b, key)}
<1>5. Due(p, b)' = D /\ Due(p, b) = {} /\ \A q \in Planners \ {p} : Due(q, b)' = Due(q, b)
  <2>1. Due(p, b)' = D
    BY <1>3, <1>4 DEF Due, Here
  <2>2. Due(p, b) = {}
    BY <1>4 DEF Due
  <2>3. \A q \in Planners \ {p} : Due(q, b)' = Due(q, b)
    BY <1>4 DEF Due
  <2> QED
    BY <2>1, <2>2, <2>3
<1>6. Filled(b)' = Filled(b)
  BY <1>1 DEF Filled, Rows
<1>7. Given(b)' = Given(b) \cup D
  <2> HIDE DEF D
  <2> QED
    BY <1>5, <1>6 DEF Given
<1>8. \A key : {c \in D : SeriesOf(c) = key} = DOf(key)
  BY <1>3 DEF HereOf
<1>9. \A key : GivenOf(b, key)' = GivenOf(b, key) \cup DOf(key)
  <2> HIDE DEF D, DOf
  <2> QED
    BY <1>7, <1>8 DEF GivenOf
<1>10. /\ IsFiniteSet(Here(s, b)) /\ Cardinality(Here(s, b)) \in Nat
       /\ \A key : IsFiniteSet(HereOf(s, b, key)) /\ Cardinality(HereOf(s, b, key)) \in Nat
  BY HeresAreFinite
<1>11. /\ IsFiniteSet(D) /\ Cardinality(D) <= Cardinality(Here(s, b)) /\ Cardinality(D) \in Nat
       /\ Here(s, b) = {} => D = {}
  BY <1>10, NoMoreThanPlaces
<1>12. \A key : /\ IsFiniteSet(DOf(key)) /\ Cardinality(DOf(key)) <= Cardinality(HereOf(s, b, key))
                /\ Cardinality(DOf(key)) \in Nat
                /\ HereOf(s, b, key) = {} => DOf(key) = {}
  BY <1>10, NoMoreThanPlaces
<1>13. /\ IsFiniteSet(Given(b)) /\ IsFiniteSet(Rows(b))
       /\ \A key : IsFiniteSet(GivenOf(b, key)) /\ IsFiniteSet(RowsOf(b, key))
       /\ Cardinality(Rows(b)) \in Nat /\ \A key : Cardinality(RowsOf(b, key)) \in Nat
  <2>1. IsFiniteSet(Given(b)) /\ IsFiniteSet(Rows(b)) /\ \A key : IsFiniteSet(RowsOf(b, key))
    BY <1>1, LoadsAreRead DEF Allowances
  <2>2. \A key : GivenOf(b, key) \subseteq Given(b)
    BY DEF GivenOf
  <2> QED
    BY <2>1, <2>2, FS_Subset, FS_CardinalityType
<1>14. overlaps \in Nat /\ overlaps' \in Nat /\ PerDay \in Nat /\ PerMangaPerDay \in Nat
  BY <1>1, SpreadAssumption DEF PlannersFit
<1>15. overlaps' = overlaps + 1 \/ (overlaps' = overlaps /\ Given(b) \subseteq Rows(b) /\ \A key : GivenOf(b, key) \subseteq RowsOf(b, key))
  <2>1. CASE \E q \in Planners : planner[q].at = "enqueue"
    BY <1>1, <2>1
  <2>2. CASE ~\E q \in Planners : planner[q].at = "enqueue"
    <3>1. \A q \in Planners : Todo(q) = <<>>
      BY <1>1, <2>2 DEF PlannersFit
    <3>2. \A q \in Planners : Due(q, b) = {}
      BY <3>1 DEF Due
    <3>3. Given(b) \subseteq Rows(b)
      BY <3>2 DEF Given, Filled
    <3>4. \A key : GivenOf(b, key) \subseteq RowsOf(b, key)
      BY <3>3 DEF GivenOf, RowsOf
    <3> QED
      BY <1>1, <2>2, <3>3, <3>4
  <2> QED
    BY <2>1, <2>2
<1>16. Here(s, b) # {} => Placed(ScheduledLoad, b) = Cardinality(Rows(b))
                          /\ \A key \in SeriesKeys : PlacedOf(ScheduledLoad, b, key) = Cardinality(RowsOf(b, key))
  <2>1. Here(s, b) # {} => b >= Bucket(hour)
    BY <1>2, <1>3 DEF Here
  <2> QED
    BY <1>1, <2>1, LoadsAreRead
<1> HIDE DEF D, DOf
<1>17. ASSUME PerDay # 0
       PROVE  Cardinality(Given(b)') <= PerDay * (1 + overlaps')
  <2>1. Cardinality(Given(b)) <= PerDay * (1 + overlaps)
    BY <1>1, <1>17 DEF Allowances
  <2>2. D = {} \/ Cardinality(Rows(b)) + Cardinality(D) <= PerDay
    <3>1. Here(s, b) = {} \/ Placed(ScheduledLoad, b) + Cardinality(Here(s, b)) <= PerDay
      BY <1>3, <1>17 DEF Capped
    <3> QED
      BY <1>10, <1>11, <1>13, <1>14, <1>16, <3>1
  <2>3. Cardinality(Given(b) \cup D) <= PerDay * (1 + overlaps')
    BY <1>11, <1>13, <1>14, <1>15, <2>1, <2>2, OneAllowance
  <2> QED
    BY <1>7, <2>3
<1>18. ASSUME PerMangaPerDay # 0, NEW key \in SeriesKeys
       PROVE  Cardinality(GivenOf(b, key)') <= PerMangaPerDay * (1 + overlaps')
  <2>1. Cardinality(GivenOf(b, key)) <= PerMangaPerDay * (1 + overlaps)
    BY <1>1, <1>18 DEF Allowances
  <2>2. DOf(key) = {} \/ Cardinality(RowsOf(b, key)) + Cardinality(DOf(key)) <= PerMangaPerDay
    <3>1. HereOf(s, b, key) = {} \/ PlacedOf(ScheduledLoad, b, key) + Cardinality(HereOf(s, b, key)) <= PerMangaPerDay
      BY <1>3, <1>18 DEF Capped
    <3>2. HereOf(s, b, key) # {} => Here(s, b) # {}
      BY DEF HereOf
    <3>3. HereOf(s, b, key) # {} => PlacedOf(ScheduledLoad, b, key) = Cardinality(RowsOf(b, key))
      BY <1>16, <3>2
    <3>4. /\ Cardinality(HereOf(s, b, key)) \in Nat /\ Cardinality(RowsOf(b, key)) \in Nat
          /\ Cardinality(DOf(key)) <= Cardinality(HereOf(s, b, key)) /\ Cardinality(DOf(key)) \in Nat
          /\ HereOf(s, b, key) = {} => DOf(key) = {}
      BY <1>10, <1>12, <1>13
    <3> QED
      BY <1>14, <3>1, <3>3, <3>4
  <2>3. IsFiniteSet(GivenOf(b, key)) /\ IsFiniteSet(RowsOf(b, key)) /\ IsFiniteSet(DOf(key))
    BY <1>12, <1>13
  <2>4. overlaps' = overlaps + 1 \/ (overlaps' = overlaps /\ GivenOf(b, key) \subseteq RowsOf(b, key))
    BY <1>15
  <2>5. Cardinality(GivenOf(b, key) \cup DOf(key)) <= PerMangaPerDay * (1 + overlaps')
    BY <1>14, <2>1, <2>2, <2>3, <2>4, OneAllowance
  <2> QED
    BY <1>9, <2>5
<1>19. IsFiniteSet(Given(b)')
  BY <1>7, <1>11, <1>13, FS_Union
<1> QED
  BY <1>17, <1>18, <1>19

LEMMA PlanKeepsBudget ==
  ASSUME BudgetInv, NEW p \in Planners, Plan(p)
  PROVE  BudgetInv'
<1> DEFINE todo == PlanUploadSchedule(p, ScheduledLoad)
           dated == [at |-> "enqueue", todo |-> todo]
<1>1. /\ PlannersFit /\ PlansAreWhole /\ NoSeriesWaits /\ queued' = queued /\ hour' = hour
      /\ planner' = [planner EXCEPT ![p] = dated]
      /\ overlaps' = IF \E q \in Planners : planner[q].at = "enqueue" THEN overlaps + 1 ELSE overlaps
  BY DEF BudgetInv, Plan
<1>2. /\ todo \in Seq(Dated(p)) /\ Len(todo) = Cardinality(PendingUploads(p))
      /\ {todo[i].chapter : i \in 1..Len(todo)} = PendingUploads(p)
      /\ \A i \in 1..Len(todo) : todo[i].bucket \in Nat /\ todo[i].bucket >= Bucket(hour)
      /\ \E s \in LocalsType(p) : s.out = todo /\ NobodyWaits(p, s, ScheduledLoad)
  BY <1>1, PlansKeepPromises
<1> HIDE DEF todo
<1>3. /\ planner'[p] = dated /\ Todo(p)' = todo
      /\ \A q \in Planners \ {p} : planner'[q] = planner[q] /\ Todo(q)' = Todo(q)
  BY <1>1 DEF PlannersFit, Todo
<1>4. PlannersFit'
  <2>1. planner' \in [Planners -> [at : {"ready", "enqueue", "done"}, todo : Seq(UNION {Dated(q) : q \in Planners})]]
    <3>1. todo \in Seq(UNION {Dated(q) : q \in Planners})
      BY <1>2
    <3> QED
      BY <1>1, <3>1 DEF PlannersFit
  <2>2. \A q \in Planners : /\ Todo(q)' \in Seq(Dated(q))
                            /\ planner'[q].at # "enqueue" => Todo(q)' = <<>>
    BY <1>1, <1>2, <1>3 DEF PlannersFit
  <2>3. \A q : Dated(q)' = Dated(q)
    BY DEF Dated, PendingUploads
  <2>4. overlaps' \in Nat
    BY <1>1 DEF PlannersFit
  <2> QED
    BY <1>1, <2>1, <2>2, <2>3, <2>4 DEF PlannersFit
<1>5. Allowances'
  BY PlanAllows DEF Allowances
<1>6. PlansAreWhole'
  <2>1. ASSUME NEW q \in Planners
        PROVE  /\ Len(Todo(q)') <= Cardinality(PendingUploads(q))
               /\ planner'[q].at # "ready" =>
                    PendingUploads(q) \subseteq DOMAIN queued' \cup {Todo(q)'[i].chapter : i \in 1..Len(Todo(q)')}
    <3>1. CASE q = p
      <4>1. Cardinality(PendingUploads(p)) \in Nat
        BY <1>1, PendingIsFinite, FS_CardinalityType DEF PlannersFit
      <4> QED
        BY <1>2, <1>3, <3>1, <4>1
    <3>2. CASE q # p
      BY <1>1, <1>3, <3>2 DEF PlansAreWhole
    <3> QED
      BY <3>1, <3>2
  <2> QED
    BY <2>1 DEF PlansAreWhole
<1>7. NoSeriesWaits'
  <2>1. \A b, key : RowsOf(b, key)' = RowsOf(b, key)
    BY <1>1 DEF RowsOf, Rows
  <2>2. ASSUME NEW q \in Planners, q # p
        PROVE  InTurn(q)'
    <3>1. InTurn(q)
      BY <1>1, WaitingIsByRun
    <3> QED
      BY <1>3, <2>1, <2>2, <3>1 DEF InTurn
  <2>3. InTurn(p)'
    <3> SUFFICES ASSUME NEW i \in 1..Len(todo), NEW j \in 1..Len(todo), NEW key \in SeriesKeys,
                        i # j, SeriesOf(todo[i].chapter) = SeriesOf(todo[j].chapter),
                        todo[j].bucket = todo[i].bucket,
                        \A l \in 1..Len(todo) : SeriesOf(todo[l].chapter) = key => todo[l].bucket # todo[i].bucket,
                        RowsOf(todo[i].bucket, key) = {}
                 PROVE  \A l \in 1..Len(todo) : SeriesOf(todo[l].chapter) = key => todo[l].bucket < todo[i].bucket
      BY <1>3, <2>1 DEF InTurn
    <3>1. PICK s \in LocalsType(p) : s.out = todo /\ NobodyWaits(p, s, ScheduledLoad)
      BY <1>2
    <3> DEFINE b == todo[i].bucket
               series == SeriesOf(todo[i].chapter)
    <3>2. b \in Nat /\ b >= Bucket(hour)
      BY <1>2
    <3>3. series \in SeriesKeys
      <4>1. todo[i].chapter \in PendingUploads(p)
        BY <1>2
      <4> QED
        BY <4>1 DEF PendingUploads, Chapter, SeriesOf
    <3>4. i \in HereOf(s, b, series) /\ j \in HereOf(s, b, series)
      BY <3>1 DEF HereOf, Here
    <3>5. Twice(s, b)
      BY <3>3, <3>4 DEF Twice
    <3>6. HereOf(s, b, key) = {}
      BY <3>1 DEF HereOf, Here
    <3>7. PlacedOf(ScheduledLoad, b, key) = 0
      BY <1>1, <3>2, LoadsAreRead, FS_EmptySet
    <3>8. \A l \in 1..Len(s.out) : SeriesOf(s.out[l].chapter) = key => s.out[l].bucket < b
      BY <3>1, <3>2, <3>5, <3>6, <3>7 DEF NobodyWaits
    <3> QED
      BY <3>1, <3>8
  <2> QED
    BY <2>2, <2>3, WaitingIsByRun
<1> QED
  BY <1>4, <1>5, <1>6, <1>7 DEF BudgetInv

LEMMA EnqueueKeepsBudget ==
  ASSUME BudgetInv, NEW p \in Planners, Enqueue(p)
  PROVE  BudgetInv'
<1> DEFINE dated == Head(Todo(p))
<1>1. /\ PlannersFit /\ Allowances /\ PlansAreWhole /\ NoSeriesWaits
      /\ planner[p].at = "enqueue" /\ Todo(p) # <<>>
      /\ hour' = hour /\ overlaps' = overlaps
      /\ planner' = [planner EXCEPT ![p].todo = Tail(@)]
      /\ queued' = [c \in DOMAIN queued \cup {dated.chapter} |->
                      IF c \in DOMAIN queued THEN queued[c] ELSE [at |-> dated.at, bucket |-> dated.bucket]]
  BY DEF BudgetInv, Enqueue, Todo
<1>2. Todo(p) \in Seq(Dated(p))
  BY <1>1 DEF PlannersFit
<1>3. /\ Todo(p)' = Tail(Todo(p)) /\ planner'[p].at = planner[p].at
      /\ \A q \in Planners \ {p} : planner'[q] = planner[q] /\ Todo(q)' = Todo(q)
  BY <1>1 DEF PlannersFit, Todo
<1>4. /\ Len(Todo(p)) \in Nat \ {0} /\ dated = Todo(p)[1] /\ dated \in Dated(p)
      /\ Todo(p)' \in Seq(Dated(p)) /\ Len(Todo(p)') = Len(Todo(p)) - 1
      /\ \A i \in 1..Len(Todo(p)') : i + 1 \in 1..Len(Todo(p)) /\ Todo(p)'[i] = Todo(p)[i + 1]
      /\ \A i \in 1..Len(Todo(p)) : i = 1 \/ (i - 1 \in 1..Len(Todo(p)') /\ Todo(p)'[i - 1] = Todo(p)[i])
  BY <1>1, <1>2, <1>3, HeadAndTail
<1> HIDE DEF dated
<1>5. dated.bucket \in Nat
  BY <1>4 DEF Dated
<1>6. /\ DOMAIN queued' = DOMAIN queued \cup {dated.chapter}
      /\ \A c \in DOMAIN queued : queued'[c] = queued[c]
      /\ dated.chapter \notin DOMAIN queued => queued'[dated.chapter].bucket = dated.bucket
  BY <1>1
<1>7. PlannersFit'
  <2>1. IsFiniteSet(DOMAIN queued')
    BY <1>1, <1>6, FS_AddElement DEF PlannersFit
  <2>2. planner' \in [Planners -> [at : {"ready", "enqueue", "done"}, todo : Seq(UNION {Dated(q) : q \in Planners})]]
    <3>1. Tail(Todo(p)) \in Seq(UNION {Dated(q) : q \in Planners})
      BY <1>3, <1>4
    <3>2. planner' = [planner EXCEPT ![p] = [planner[p] EXCEPT !.todo = Tail(Todo(p))]]
      BY <1>1 DEF Todo
    <3>3. planner[p] \in [at : {"ready", "enqueue", "done"}, todo : Seq(UNION {Dated(q) : q \in Planners})]
      BY <1>1 DEF PlannersFit
    <3>4. [planner[p] EXCEPT !.todo = Tail(Todo(p))] \in [at : {"ready", "enqueue", "done"}, todo : Seq(UNION {Dated(q) : q \in Planners})]
      BY <3>1, <3>3
    <3> QED
      BY <1>1, <3>2, <3>4 DEF PlannersFit
  <2>3. \A q : Dated(q)' = Dated(q)
    BY DEF Dated, PendingUploads
  <2>4. \A q \in Planners : /\ Todo(q)' \in Seq(Dated(q))
                            /\ planner'[q].at # "enqueue" => Todo(q)' = <<>>
    BY <1>1, <1>3, <1>4 DEF PlannersFit
  <2>5. \A c \in DOMAIN queued' : queued'[c].bucket \in Nat
    BY <1>1, <1>5, <1>6 DEF PlannersFit
  <2> QED
    BY <1>1, <2>1, <2>2, <2>3, <2>4, <2>5 DEF PlannersFit
<1>8. Allowances'
  <2>1. ASSUME NEW b \in Nat
        PROVE  Given(b)' \subseteq Given(b)
    <3>1. ASSUME NEW c \in Filled(b)' PROVE c \in Given(b)
      <4>1. c \in DOMAIN queued' /\ Bucket(queued'[c].at) = b /\ queued'[c].bucket = b
        BY <3>1 DEF Filled, Rows, Bucket
      <4>2. CASE c \in DOMAIN queued
        BY <1>6, <4>1, <4>2 DEF Given, Filled, Rows
      <4>3. CASE c \notin DOMAIN queued
        <5>1. c = dated.chapter /\ dated.bucket = b
          BY <1>6, <4>1, <4>3
        <5>2. c \in Due(p, b)
          BY <1>4, <5>1 DEF Due
        <5> QED
          BY <5>2 DEF Given
      <4> QED
        BY <4>2, <4>3
    <3>2. ASSUME NEW q \in Planners PROVE Due(q, b)' \subseteq Due(q, b)
      <4>1. CASE q = p
        BY <1>4, <4>1 DEF Due
      <4>2. CASE q # p
        BY <1>3, <4>2 DEF Due
      <4> QED
        BY <4>1, <4>2
    <3>3. \A c \in Given(b)' : c \in Filled(b)' \/ \E q \in Planners : c \in Due(q, b)'
      BY DEF Given
    <3>4. \A c : (\E q \in Planners : c \in Due(q, b)) => c \in Given(b)
      BY DEF Given
    <3> QED
      BY <3>1, <3>2, <3>3, <3>4
  <2> QED
    BY <1>1, <2>1, NoMoreGiven
<1>9. PlansAreWhole'
  <2>1. ASSUME NEW q \in Planners
        PROVE  /\ Len(Todo(q)') <= Cardinality(PendingUploads(q))
               /\ planner'[q].at # "ready" =>
                    PendingUploads(q) \subseteq DOMAIN queued' \cup {Todo(q)'[i].chapter : i \in 1..Len(Todo(q)')}
    <3>1. CASE q = p
      <4>1. Cardinality(PendingUploads(p)) \in Nat
        BY <1>1, PendingIsFinite, FS_CardinalityType DEF PlannersFit
      <4>2. Len(Todo(p)) <= Cardinality(PendingUploads(p))
        BY <1>1 DEF PlansAreWhole
      <4>3. PendingUploads(p) \subseteq DOMAIN queued \cup {Todo(p)[i].chapter : i \in 1..Len(Todo(p))}
        BY <1>1 DEF PlansAreWhole
      <4>4. {Todo(p)[i].chapter : i \in 1..Len(Todo(p))}
              \subseteq {dated.chapter} \cup {Todo(p)'[i].chapter : i \in 1..Len(Todo(p)')}
        BY <1>4
      <4>5. PendingUploads(p) \subseteq DOMAIN queued' \cup {Todo(p)'[i].chapter : i \in 1..Len(Todo(p)')}
        BY <1>6, <4>3, <4>4
      <4> QED
        BY <1>4, <3>1, <4>1, <4>2, <4>5
    <3>2. CASE q # p
      BY <1>1, <1>3, <1>6, <3>2 DEF PlansAreWhole
    <3> QED
      BY <3>1, <3>2
  <2> QED
    BY <2>1 DEF PlansAreWhole
<1>10. NoSeriesWaits'
  <2>1. \A b, key : RowsOf(b, key) \subseteq RowsOf(b, key)'
    BY <1>6 DEF RowsOf, Rows
  <2>2. ASSUME NEW q \in Planners, q # p
        PROVE  InTurn(q)'
    <3>1. InTurn(q)
      BY <1>1, WaitingIsByRun
    <3>2. \A b, key : RowsOf(b, key)' = {} => RowsOf(b, key) = {}
      BY <2>1
    <3> QED
      BY <1>3, <2>2, <3>1, <3>2 DEF InTurn
  <2>3. InTurn(p)'
    <3>1. Len(Todo(p)) <= Cardinality(PendingUploads(p))
      BY <1>1 DEF PlansAreWhole
    <3>2. Cardinality(PendingUploads(p)) \in Nat
      BY <1>1, PendingIsFinite, FS_CardinalityType DEF PlannersFit
    <3>3. Len(Todo(p)') # Cardinality(PendingUploads(p))
      BY <1>4, <3>1, <3>2
    <3> QED
      BY <3>3 DEF InTurn
  <2> QED
    BY <2>2, <2>3, WaitingIsByRun
<1> QED
  BY <1>7, <1>8, <1>9, <1>10 DEF BudgetInv

(* A run that ends, or dies, leaves the queue as it is and has no plan.    *)
LEMMA EndingKeepsBudget ==
  ASSUME BudgetInv, NEW p \in Planners, Planned(p) \/ Stop(p)
  PROVE  BudgetInv'
<1>1. /\ PlannersFit /\ Allowances /\ PlansAreWhole /\ NoSeriesWaits
      /\ queued' = queued /\ hour' = hour /\ overlaps' = overlaps /\ planner[p].at = "enqueue"
  BY DEF BudgetInv, Planned, Stop
<1>2. /\ planner' \in [Planners -> [at : {"ready", "enqueue", "done"}, todo : Seq(UNION {Dated(q) : q \in Planners})]]
      /\ Todo(p)' = <<>> /\ planner'[p].at # "enqueue"
      /\ \A q \in Planners \ {p} : planner'[q] = planner[q] /\ Todo(q)' = Todo(q)
      /\ planner'[p].at = "ready" \/ Todo(p) = <<>>
  <2>1. CASE Planned(p)
    <3>1. Todo(p) = <<>> /\ planner' = [planner EXCEPT ![p].at = "done"]
      BY <2>1 DEF Planned, Todo
    <3>2. planner \in [Planners -> [at : {"ready", "enqueue", "done"}, todo : Seq(UNION {Dated(q) : q \in Planners})]]
      BY <1>1 DEF PlannersFit
    <3> HIDE DEF Planned
    <3> QED
      BY <3>1, <3>2 DEF Todo
  <2>2. CASE Stop(p)
    <3>1. planner' = [planner EXCEPT ![p] = [at |-> "ready", todo |-> <<>>]]
      BY <2>2 DEF Stop
    <3>2. planner \in [Planners -> [at : {"ready", "enqueue", "done"}, todo : Seq(UNION {Dated(q) : q \in Planners})]]
      BY <1>1 DEF PlannersFit
    <3>3. << >> \in Seq(UNION {Dated(q) : q \in Planners})
      OBVIOUS
    <3> QED
      BY <3>1, <3>2, <3>3 DEF Todo
  <2> QED
    BY <2>1, <2>2
<1>3. \A q : Dated(q)' = Dated(q)
  BY DEF Dated, PendingUploads
<1>4. PlannersFit'
  <2>1. \A q : << >> \in Seq(Dated(q))
    OBVIOUS
  <2>2. \A q \in Planners : /\ Todo(q)' \in Seq(Dated(q))
                            /\ planner'[q].at # "enqueue" => Todo(q)' = <<>>
    BY <1>1, <1>2, <2>1 DEF PlannersFit
  <2> QED
    BY <1>1, <1>2, <1>3, <2>2 DEF PlannersFit
<1>5. Allowances'
  <2>1. ASSUME NEW b \in Nat
        PROVE  Given(b)' \subseteq Given(b)
    <3>1. Filled(b)' = Filled(b)
      BY <1>1 DEF Filled, Rows
    <3>2. ASSUME NEW q \in Planners PROVE Due(q, b)' \subseteq Due(q, b)
      <4>1. CASE q = p
        BY <1>2, <4>1 DEF Due
      <4>2. CASE q # p
        BY <1>2, <4>2 DEF Due
      <4> QED
        BY <4>1, <4>2
    <3> QED
      BY <3>1, <3>2 DEF Given
  <2> QED
    BY <1>1, <2>1, NoMoreGiven
<1>6. PlansAreWhole'
  <2>1. Cardinality(PendingUploads(p)) \in Nat
    BY <1>1, PendingIsFinite, FS_CardinalityType DEF PlannersFit
  <2>2. Len(<<>>) = 0
    OBVIOUS
  <2>3. ASSUME NEW q \in Planners
        PROVE  /\ Len(Todo(q)') <= Cardinality(PendingUploads(q))
               /\ planner'[q].at # "ready" =>
                    PendingUploads(q) \subseteq DOMAIN queued' \cup {Todo(q)'[i].chapter : i \in 1..Len(Todo(q)')}
    <3>1. CASE q = p
      BY <1>1, <1>2, <2>1, <2>2, <3>1 DEF PlansAreWhole
    <3>2. CASE q # p
      BY <1>1, <1>2, <3>2 DEF PlansAreWhole
    <3> QED
      BY <3>1, <3>2
  <2> QED
    BY <2>3 DEF PlansAreWhole
<1>7. NoSeriesWaits'
  <2>1. \A b, key : RowsOf(b, key)' = RowsOf(b, key)
    BY <1>1 DEF RowsOf, Rows
  <2>2. ASSUME NEW q \in Planners, q # p
        PROVE  InTurn(q)'
    <3>1. InTurn(q)
      BY <1>1, WaitingIsByRun
    <3> QED
      BY <1>2, <2>1, <2>2, <3>1 DEF InTurn
  <2>3. InTurn(p)'
    <3>1. 1..Len(<<>>) = {}
      OBVIOUS
    <3> QED
      BY <1>2, <3>1 DEF InTurn
  <2> QED
    BY <2>2, <2>3, WaitingIsByRun
<1> QED
  BY <1>4, <1>5, <1>6, <1>7 DEF BudgetInv

LEMMA HoursKeepBudget ==
  ASSUME BudgetInv, HourPasses \/ UNCHANGED spreadVars
  PROVE  BudgetInv'
<1>1. /\ PlannersFit /\ Allowances /\ PlansAreWhole /\ NoSeriesWaits
      /\ queued' = queued /\ planner' = planner /\ overlaps' = overlaps /\ hour' \in Nat
  BY SpreadAssumption DEF BudgetInv, HourPasses, spreadVars, PlannersFit
<1>2. PlannersFit'
  BY <1>1 DEF PlannersFit, Todo, Dated, PendingUploads
<1>3. Allowances'
  <2>1. \A b \in Nat : Given(b)' = Given(b)
    BY <1>1 DEF Given, Filled, Rows, Due, Todo
  <2> QED
    BY <1>1, <2>1, NoMoreGiven
<1>4. PlansAreWhole'
  BY <1>1 DEF PlansAreWhole, Todo, PendingUploads
<1>5. NoSeriesWaits'
  <2>1. \A q \in Planners : InTurn(q)' = InTurn(q)
    BY <1>1 DEF InTurn, Todo, RowsOf, Rows, PendingUploads
  <2> QED
    BY <1>1, <2>1, WaitingIsByRun
<1> QED
  BY <1>2, <1>3, <1>4, <1>5 DEF BudgetInv

LEMMA BudgetSafe ==
  ASSUME BudgetInv
  PROVE  SpreadInv
<1>1. PlannersFit /\ Allowances /\ PlansAreWhole /\ NoSeriesWaits
  BY DEF BudgetInv
<1>2. BucketsFillOnce
  <2>1. ASSUME NEW c \in DOMAIN queued, NEW b, b = queued[c].bucket
        PROVE  /\ PerDay = 0 \/ Cardinality(Filled(b)) <= PerDay * (1 + overlaps)
               /\ PerMangaPerDay = 0
                  \/ \A key \in SeriesKeys : Cardinality(FilledOf(b, key)) <= PerMangaPerDay * (1 + overlaps)
    <3>1. b \in Nat
      BY <1>1, <2>1 DEF PlannersFit
    <3>2. IsFiniteSet(Given(b)) /\ Filled(b) \subseteq Given(b)
      BY <1>1, <3>1 DEF Allowances, Given
    <3>3. /\ Cardinality(Filled(b)) <= Cardinality(Given(b))
          /\ Cardinality(Filled(b)) \in Nat /\ Cardinality(Given(b)) \in Nat
      BY <3>2, FS_Subset, FS_CardinalityType
    <3>4. ASSUME NEW key
          PROVE  /\ Cardinality(FilledOf(b, key)) <= Cardinality(GivenOf(b, key))
                 /\ Cardinality(FilledOf(b, key)) \in Nat /\ Cardinality(GivenOf(b, key)) \in Nat
      <4>1. FilledOf(b, key) \subseteq GivenOf(b, key) /\ GivenOf(b, key) \subseteq Given(b)
        BY <3>2 DEF FilledOf, GivenOf
      <4>2. IsFiniteSet(GivenOf(b, key))
        BY <3>2, <4>1, FS_Subset
      <4> QED
        BY <4>1, <4>2, FS_Subset, FS_CardinalityType
    <3>5. PerDay * (1 + overlaps) \in Nat /\ PerMangaPerDay * (1 + overlaps) \in Nat
      <4>1. PerDay \in Nat /\ PerMangaPerDay \in Nat /\ overlaps \in Nat
        BY <1>1, SpreadAssumption DEF PlannersFit
      <4> QED
        BY <4>1
    <3> QED
      BY <1>1, <3>1, <3>3, <3>4, <3>5 DEF Allowances
  <2> QED
    BY <2>1 DEF BucketsFillOnce
<1>3. NothingIsWithheld
  <2>1. ASSUME NEW p \in Planners, planner[p].at = "done"
        PROVE  PendingUploads(p) \subseteq DOMAIN queued
    <3>1. Todo(p) = <<>>
      BY <1>1, <2>1 DEF PlannersFit
    <3>2. {Todo(p)[i].chapter : i \in 1..Len(Todo(p))} = {}
      BY <3>1
    <3> QED
      BY <1>1, <2>1, <3>2 DEF PlansAreWhole
  <2> QED
    BY <2>1 DEF NothingIsWithheld
<1> QED
  BY <1>1, <1>2, <1>3 DEF SpreadInv

(* planUploadSchedule and scheduledLoad: whatever the caps, the backlogs   *)
(* and the moments, and however often runs die and are processed again, a  *)
(* bucket is filled once and once more for each overlap, no series of a    *)
(* plan waits behind the second chapter of another, and a run that is done *)
(* has left a row for every chapter.                                       *)
THEOREM BudgetsAreKept == SpreadSpec => []SpreadInv
<1>1. SpreadInit => BudgetInv
  BY BudgetStart
<1>2. BudgetInv /\ [SpreadNext]_spreadVars => BudgetInv'
  <2> SUFFICES ASSUME BudgetInv, [SpreadNext]_spreadVars PROVE BudgetInv'
    OBVIOUS
  <2>1. ASSUME NEW p \in Planners, Plan(p) PROVE BudgetInv'
    BY <2>1, PlanKeepsBudget
  <2>2. ASSUME NEW p \in Planners, Enqueue(p) PROVE BudgetInv'
    BY <2>2, EnqueueKeepsBudget
  <2>3. ASSUME NEW p \in Planners, Planned(p) \/ Stop(p) PROVE BudgetInv'
    BY <2>3, EndingKeepsBudget
  <2>4. CASE HourPasses \/ UNCHANGED spreadVars
    BY <2>4, HoursKeepBudget
  <2> QED
    BY <2>1, <2>2, <2>3, <2>4 DEF SpreadNext
<1>3. BudgetInv => SpreadInv
  BY BudgetSafe
<1> QED
  BY <1>1, <1>2, <1>3, PTL DEF SpreadSpec
=============================================================================
