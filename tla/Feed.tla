-------------------------------- MODULE Feed --------------------------------
(***************************************************************************)
(* The feed of what is failing and the acknowledgements that empty it      *)
(* (src/core/observability/errorFeed.ts, over jobs, upload tasks and       *)
(* quarantined submissions).  Clearing reads which rows fail and when they *)
(* came to; what it then writes hides a row while its own time is not past *)
(* that.  Rows fail, are retried, touched and purged meanwhile, and an     *)
(* acknowledgement is of a failure, never of the row.                      *)
(***************************************************************************)
EXTENDS Naturals, FiniteSets

CONSTANTS
  Subjects,    \* rows of the three tables
  Clearers,    \* clearing requests handled at one time
  MaxAcks,     \* MAX_ACKNOWLEDGEMENTS: how many a reader loads
  MaxClear,    \* MAX_CLEAR_ALL: how many "clear all" takes
  MaxEvents    \* bound: changes of the rows and of the acknowledgements

ASSUME FeedAssumption == {MaxAcks, MaxClear, MaxEvents} \subseteq Nat

VARIABLES
  entry,      \* subject -> [is, at]; at: its updated_at
  acks,       \* subject -> [of, at]; of: error_at, at: cleared_at, 0: none
  clearing,   \* clearer -> [at, read: the <<subject, time>> it goes by]
  clock,
  read        \* observer: every <<subject, time>> a clearing read as failing

feedVars == <<entry, acks, clearing, clock, read>>

NoAck == [of |-> 0, at |-> 0]
Failing == {s \in Subjects : entry[s].is = "failing"}
AckedSubjects == {s \in Subjects : acks[s].at > 0}

FeedInit ==
  /\ entry = [s \in Subjects |-> [is |-> "fine", at |-> 0]]
  /\ acks = [s \in Subjects |-> NoAck]
  /\ clearing = [c \in Clearers |-> [at |-> "idle", read |-> {}]]
  /\ clock = 0 /\ read = {}

Ticks == clock < MaxEvents /\ clock' = clock + 1

(* A row fails, is retried or settles, is written to as it is, or goes.    *)
Changes(s, is) ==
  /\ entry[s].is # "gone" /\ Ticks
  /\ entry' = [entry EXCEPT ![s] = [is |-> is, at |-> clock']]
  /\ UNCHANGED <<acks, clearing, read>>

(* The acknowledgements a reader has loaded, the newest, and what they     *)
(* leave out of the feed, the dead letters, the quarantine and the counts. *)
Loaded == {s \in AckedSubjects : Cardinality({t \in Subjects : acks[t].at > acks[s].at}) < MaxAcks}
Excluded == {s \in Loaded : entry[s].at <= acks[s].of}
Outstanding == Failing \ Excluded
Newest(ss) == {s \in ss : Cardinality({t \in ss : entry[t].at > entry[s].at}) < MaxClear}

Reads(c, ss) ==
  LET seen == {<<s, entry[s].at>> : s \in ss} IN
  /\ clearing[c].at = "idle" /\ ss # {}
  /\ clearing' = [clearing EXCEPT ![c] = [at |-> "read", read |-> seen]]
  /\ read' = read \cup seen
  /\ UNCHANGED <<entry, acks, clock>>

(* By id, whether cleared already or not; or all that is outstanding.      *)
ResolveMatch(c, s) == s \in Failing /\ Reads(c, {s})
ReadOutstanding(c) == Reads(c, Newest(Outstanding))

Acknowledge(c, Of(_)) ==
  /\ clearing[c].at = "read" /\ Ticks
  /\ acks' = [s \in Subjects |-> IF \E t \in 0..MaxEvents : <<s, t>> \in clearing[c].read
                                 THEN [of |-> Of(s), at |-> clock'] ELSE acks[s]]
  /\ clearing' = [clearing EXCEPT ![c].at = "written"]
  /\ UNCHANGED <<entry, read>>

(* Mutant: an acknowledgement is dated when it is written.                 *)
ClearErrorsAsOfNow(c) == Acknowledge(c, LAMBDA s : clock)

ClearErrors(c) == Acknowledge(c, LAMBDA s : CHOOSE t \in 0..MaxEvents : <<s, t>> \in clearing[c].read)

(* Every clearing ends by dropping the acknowledgements of rows that went. *)
PruneClearedErrors(c) ==
  /\ clearing[c].at = "written"
  /\ acks' = [s \in Subjects |-> IF entry[s].is = "gone" THEN NoAck ELSE acks[s]]
  /\ clearing' = [clearing EXCEPT ![c] = [at |-> "idle", read |-> {}]]
  /\ UNCHANGED <<entry, clock, read>>

RestoreErrors(ss) ==
  /\ ss \cap AckedSubjects # {} /\ Ticks
  /\ acks' = [s \in Subjects |-> IF s \in ss THEN NoAck ELSE acks[s]]
  /\ UNCHANGED <<entry, clearing, read>>

FeedNext ==
  \/ \E s \in Subjects : \/ \E is \in {"fine", "failing", "gone"} : Changes(s, is)
                         \/ RestoreErrors({s})
                         \/ \E c \in Clearers : ResolveMatch(c, s)
  \/ RestoreErrors(Subjects)
  \/ \E c \in Clearers : ReadOutstanding(c) \/ ClearErrors(c) \/ PruneClearedErrors(c)

FeedSpec == FeedInit /\ [][FeedNext]_feedVars
-----------------------------------------------------------------------------
FeedTypeOK ==
  /\ entry \in [Subjects -> [is : {"fine", "failing", "gone"}, at : 0..MaxEvents]]
  /\ acks \in [Subjects -> [of : 0..MaxEvents, at : 0..MaxEvents]]
  /\ clearing \in [Clearers -> [at : {"idle", "read", "written"}, read : SUBSET read]]
  /\ clock \in 0..MaxEvents /\ read \subseteq Subjects \X (0..MaxEvents)

(* A failure the feed leaves out is one that some clearing read: a row     *)
(* that fails again while a clearing is under way, or between two of them, *)
(* is outstanding whatever the order in which they write.                  *)
HiddenWasRead == \A s \in Failing \cap Excluded : <<s, entry[s].at>> \in read

FeedInv == FeedTypeOK /\ HiddenWasRead
=============================================================================
