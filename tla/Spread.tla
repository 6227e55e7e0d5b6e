------------------------------- MODULE Spread -------------------------------
(***************************************************************************)
(* The release schedule of a CLEAN run's uploads: planUploadSchedule       *)
(* (src/core/processor/uploadSchedule.ts) as a function of what is to be   *)
(* released and of the load, and processRun's use of it: the load is read  *)
(* from the queue, and the rows are enqueued one by one afterwards, while  *)
(* another processor does the same.  Time is cut into buckets of Interval  *)
(* units, counted from 0.                                                  *)
(***************************************************************************)
EXTENDS Integers, Sequences, FiniteSets

CONSTANTS
  Planners,      \* runs that queue their uploads
  Series,        \* the series, in the order of their keys
  Backlog,       \* planner -> series -> how many chapters, oldest first
  PerDay, PerMangaPerDay,   \* the caps of the schedule; 0 is no limit
  Interval,      \* intervalMsOf
  Spacing,       \* spacingSeconds; 0 is automatic
  Clock,         \* the moments at which a run may plan (bound)
  MaxStops       \* bounds crashes

SeriesKeys == {Series[i] : i \in 1..Len(Series)}

ASSUME SpreadAssumption ==
  /\ Series \in Seq(SeriesKeys)
  /\ \A i, j \in 1..Len(Series) : Series[i] = Series[j] => i = j
  /\ Backlog \in [Planners -> [SeriesKeys -> Nat]]
  /\ PerDay \in Nat /\ PerMangaPerDay \in Nat /\ Interval \in Nat \ {0} /\ Spacing \in Nat
  /\ Clock \subseteq Nat

VARIABLES
  queued,    \* upload rows: <<series, planner, nth>> -> [at, bucket], the date and
             \* the bucket it was meant for
  planner,   \* planner -> [at, todo]: the dated chapters it has yet to enqueue
  hour,      \* now
  stops,
  overlaps   \* observer: how often a load was read while a plan was under way

spreadVars == <<queued, planner, hour, stops, overlaps>>

Chapter(key, p, i) == <<key, p, i>>
SeriesOf(c) == c[1]
PendingUploads(p) == UNION {{Chapter(key, p, i) : i \in 1..Backlog[p][key]} : key \in SeriesKeys}

Bucket(t) == t \div Interval
Below(n, limit) == limit = 0 \/ n < limit
Rows(b) == {c \in DOMAIN queued : Bucket(queued[c].at) = b}
RowsOf(b, key) == {c \in Rows(b) : SeriesOf(c) = key}

(* scheduledLoad: what is dated into a bucket, from the current one on.    *)
ScheduledLoad ==
  [b \in {Bucket(queued[c].at) : c \in DOMAIN queued} \cap {n \in Nat : n >= Bucket(hour)} |->
     [total |-> Cardinality(Rows(b)), perManga |-> [key \in SeriesKeys |-> Cardinality(RowsOf(b, key))]]]

(* Mutant: the load counts for the series and not for the day.             *)
PlacedBefore(load, b) == 0

Placed(load, b) == IF b \in DOMAIN load THEN load[b].total ELSE 0
PlacedOf(load, b, key) == IF b \in DOMAIN load THEN load[b].perManga[key] ELSE 0

(* spacingMsOf.  Without caps there is no schedule: all is due now.        *)
SpacingOf(crowded) ==
  IF PerDay = 0 /\ PerMangaPerDay = 0 THEN 0
  ELSE IF Spacing > 0 THEN Spacing
  ELSE IF crowded /\ PerDay > 0 THEN Interval \div PerDay ELSE 0

(* releaseAt: the nth upload of a bucket; the current bucket starts now.   *)
Start(bucket) == IF bucket * Interval > hour THEN bucket * Interval ELSE hour
ReleaseAt(bucket, slot, spacing) ==
  Start(bucket) + IF slot * spacing < Interval THEN slot * spacing ELSE Interval - 1

(* The locals of the loops: a bucket begins with its prior load, and with  *)
(* the first series.                                                       *)
Opened(s, b, load) ==
  [s EXCEPT !.bucket = b, !.placed = Placed(load, b), !.turn = 1, !.progressed = FALSE,
            !.per = [key \in SeriesKeys |-> PlacedOf(load, b, key)]]

Opening(p, load) ==
  LET now == Bucket(hour)
      crowded == PerDay > 0 /\ Cardinality(PendingUploads(p)) + Placed(load, now) > PerDay
  IN Opened([out |-> <<>>, cursor |-> [key \in SeriesKeys |-> 0], spacing |-> SpacingOf(crowded),
             bucket |-> now, placed |-> 0, turn |-> 1, progressed |-> FALSE,
             per |-> [key \in SeriesKeys |-> 0]], now, load)

AllPlaced(p, s) == \A key \in SeriesKeys : s.cursor[key] = Backlog[p][key]

Fits(p, s, key) ==
  Below(s.placed, PerDay) /\ Below(s.per[key], PerMangaPerDay) /\ s.cursor[key] < Backlog[p][key]

Push(p, s, key) ==
  [s EXCEPT !.out = Append(@, [chapter |-> Chapter(key, p, s.cursor[key] + 1), bucket |-> s.bucket,
                               at |-> ReleaseAt(s.bucket, s.placed, s.spacing)]),
            !.cursor[key] = @ + 1, !.per[key] = @ + 1, !.placed = @ + 1, !.progressed = TRUE]

(* Mutant: a series is emptied before the next one is looked at.           *)
PlaceOutright(p, s) ==
  LET key == Series[s.turn] IN
  IF Fits(p, s, key) THEN Push(p, s, key) ELSE [s EXCEPT !.turn = @ + 1]

(* One series in a round over all of them.                                 *)
Place(p, s) ==
  LET key == Series[s.turn] IN
  [(IF Fits(p, s, key) THEN Push(p, s, key) ELSE s) EXCEPT !.turn = @ + 1]

(* Mutant: the plan ends with its first bucket.                            *)
TurnOfOneBucket(p, s, load) ==
  IF s.turn <= Len(Series) THEN Place(p, s)
  ELSE IF s.progressed THEN [s EXCEPT !.turn = 1, !.progressed = FALSE] ELSE s

(* A turn of the loops: a series, another round, or the next bucket.  The  *)
(* last resort of the code, a bucket without load that takes nothing,      *)
(* needs a cap below one.                                                  *)
Turn(p, s, load) ==
  CASE AllPlaced(p, s) -> s
    [] ~AllPlaced(p, s) /\ s.turn <= Len(Series) -> Place(p, s)
    [] ~AllPlaced(p, s) /\ s.turn > Len(Series) ->
         IF s.progressed /\ Below(s.placed, PerDay) THEN [s EXCEPT !.turn = 1, !.progressed = FALSE]
         ELSE Opened(s, s.bucket + 1, load)

Turns(p, load) ==
  LET after[n \in Nat] == IF n = 0 THEN Opening(p, load) ELSE Turn(p, after[n - 1], load)
  IN after

(* A round places a chapter or is the last of its bucket, and a bucket     *)
(* takes a chapter or has a load: so many turns place everything.          *)
Enough(p, load) ==
  (Len(Series) + 1) * (2 * Cardinality(PendingUploads(p)) + Cardinality(DOMAIN load) + 1)

PlanUploadSchedule(p, load) == Turns(p, load)[Enough(p, load)].out

SpreadInit ==
  /\ queued = <<>> /\ hour \in Clock /\ stops = 0 /\ overlaps = 0
  /\ planner = [p \in Planners |-> [at |-> "ready", todo |-> <<>>]]

(* scheduledLoad and the plan                                              *)
Plan(p) ==
  /\ planner[p].at = "ready"
  /\ planner' = [planner EXCEPT ![p] =
       [at |-> "enqueue", todo |-> PlanUploadSchedule(p, ScheduledLoad)]]
  /\ overlaps' = IF \E q \in Planners : planner[q].at = "enqueue" THEN overlaps + 1 ELSE overlaps
  /\ UNCHANGED <<queued, hour, stops>>

(* enqueue: ON CONFLICT DO NOTHING.                                        *)
Enqueue(p) ==
  LET row == Head(planner[p].todo) IN
  /\ planner[p].at = "enqueue" /\ planner[p].todo # <<>>
  /\ queued' = [c \in DOMAIN queued \cup {row.chapter} |->
                  IF c \in DOMAIN queued THEN queued[c] ELSE [at |-> row.at, bucket |-> row.bucket]]
  /\ planner' = [planner EXCEPT ![p].todo = Tail(@)]
  /\ UNCHANGED <<hour, stops, overlaps>>

Planned(p) ==
  /\ planner[p].at = "enqueue" /\ planner[p].todo = <<>>
  /\ planner' = [planner EXCEPT ![p].at = "done"]
  /\ UNCHANGED <<queued, hour, stops, overlaps>>

(* The process dies while it enqueues, and the run is processed again.     *)
Stop(p) ==
  /\ planner[p].at = "enqueue" /\ stops < MaxStops
  /\ stops' = stops + 1
  /\ planner' = [planner EXCEPT ![p] = [at |-> "ready", todo |-> <<>>]]
  /\ UNCHANGED <<queued, hour, overlaps>>

HourPasses ==
  /\ \E t \in Clock : t > hour /\ hour' = t
  /\ UNCHANGED <<queued, planner, stops, overlaps>>

SpreadNext == (\E p \in Planners : Plan(p) \/ Enqueue(p) \/ Planned(p) \/ Stop(p)) \/ HourPasses

SpreadSpec == SpreadInit /\ [][SpreadNext]_spreadVars
-----------------------------------------------------------------------------
Filled(b) == {c \in Rows(b) : queued[c].bucket = b}
FilledOf(b, key) == {c \in Filled(b) : SeriesOf(c) = key}

(* A bucket is filled once, whatever the number of runs and series and     *)
(* however often a run is processed: of what is meant for it and dated     *)
(* inside it, more than a cap is only what plans that overlapped handed    *)
(* out, one allowance for each.                                            *)
BucketsFillOnce == \A b \in {queued[c].bucket : c \in DOMAIN queued} :
  /\ PerDay = 0 \/ Cardinality(Filled(b)) <= PerDay * (1 + overlaps)
  /\ PerMangaPerDay = 0
     \/ \A key \in SeriesKeys : Cardinality(FilledOf(b, key)) <= PerMangaPerDay * (1 + overlaps)

(* A backlog of one series does not hold up another: in a plan, no series  *)
(* is given a second chapter in a bucket while another one, with nothing   *)
(* dated there yet, waits for its first.                                   *)
NoSeriesWaits == \A p \in Planners :
  LET todo == planner[p].todo
      Of(i) == SeriesOf(todo[i].chapter)
  IN Len(todo) = Cardinality(PendingUploads(p)) =>
       \A i, j \in 1..Len(todo), key \in SeriesKeys :
         LET b == todo[i].bucket IN
         /\ i # j /\ Of(i) = Of(j) /\ todo[j].bucket = b
         /\ \A l \in 1..Len(todo) : Of(l) = key => todo[l].bucket # b
         /\ RowsOf(b, key) = {}
         => \A l \in 1..Len(todo) : Of(l) = key => todo[l].bucket < b

(* Nothing is dropped or withheld: when a run has queued its uploads, each *)
(* of its chapters has a row, the ones a full day has put off included.    *)
NothingIsWithheld == \A p \in Planners :
  planner[p].at = "done" => PendingUploads(p) \subseteq DOMAIN queued

(* What a plan promises the publishers: the caps, turns among series, and  *)
(* a date for everything.                                                  *)
SpreadInv == BucketsFillOnce /\ NoSeriesWaits /\ NothingIsWithheld
=============================================================================
