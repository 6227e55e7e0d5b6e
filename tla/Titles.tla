------------------------------- MODULE Titles -------------------------------
(***************************************************************************)
(* How one series of one extension gets its MangaDex title: the service    *)
(* that maps and creates titles (src/core/md/titleService.ts), the         *)
(* operators' routes over the queue of untracked series and the series map *)
(* (src/core/api/routes/admin.ts, src/core/store/trackedManga.ts), and the *)
(* processor that queues the series.  A series has one mapping and a queue *)
(* row for each language it was reported in.                               *)
(*                                                                         *)
(* One action per await.  Uploader, API and operators are staff: each does *)
(* one thing at a time, with what it has read.  Search shows every title   *)
(* of the series this service committed; one that others made under        *)
(* another name it may or may not show.                                    *)
(***************************************************************************)
EXTENDS Integers, Sequences, FiniteSets

CONSTANTS
  Staff,         \* processes and requests at work at one time
  Languages,     \* the queue rows of the series
  Attempts,      \* MAX_CREATE_ATTEMPTS
  MaxActs,       \* bounds the operators' acts
  MaxFaults      \* bounds crashes, refusals and statements that fail

ASSUME TitlesAssumption ==
  /\ IsFiniteSet(Staff) /\ Languages # {}
  /\ {Attempts, MaxActs, MaxFaults} \subseteq Nat

VARIABLES
  state,     \* untracked_manga.state, "none" when there is no row
  named,     \* untracked_manga.md_manga_id, 0 for none
  tries,     \* untracked_manga.attempts
  mapping,   \* tracked_manga.md_manga_id, 0 when the series is not mapped
  made,      \* the titles this service committed, as the rows they are for
  staff,     \* who is where, with what it has read
  acts, faults,
  torn       \* observer: a row was taken from its creator, or the mapping was
             \* removed while a row was being closed over it, or by halves

rowVars == <<state, named, tries>>
titleVars == <<rowVars, mapping, made, staff, acts, faults, torn>>

(* Title 1 is somebody else's; this service's are numbered from 2.         *)
MadeTitles == 2..(Len(made) + 1)
MadeFor(r) == {i \in DOMAIN made : made[i] = r}

AtRest == [at |-> "idle", row |-> CHOOSE r \in Languages : TRUE, title |-> 0, spent |-> 0, auto |-> FALSE]

TitlesInit ==
  /\ state = [r \in Languages |-> "none"]
  /\ named = [r \in Languages |-> 0] /\ tries = [r \in Languages |-> 0]
  /\ mapping = 0 /\ made = <<>>
  /\ staff = [s \in Staff |-> AtRest]
  /\ acts = 0 /\ faults = 0 /\ torn = FALSE

At(s, stage) == staff[s].at = stage
Goes(s, stage) == staff' = [staff EXCEPT ![s].at = stage]
Ends(s) == staff' = [staff EXCEPT ![s] = AtRest]
Begins(s, r, stage) == At(s, "idle") /\ staff' = [staff EXCEPT ![s].at = stage, ![s].row = r]
Act == acts < MaxActs /\ acts' = acts + 1
Fault == faults < MaxFaults /\ faults' = faults + 1
NothingElse == UNCHANGED <<acts, faults, torn>>

(* persistUntrackedManga: the map is read, and rows that are new inserted. *)
SeenUntracked(s, r) ==
  /\ state[r] = "none" /\ mapping = 0 /\ Begins(s, r, "report")
  /\ UNCHANGED <<rowVars, mapping, made>> /\ NothingElse

PersistUntracked(s) ==
  LET r == staff[s].row IN
  /\ At(s, "report") /\ Ends(s)
  /\ state' = [state EXCEPT ![r] = IF @ = "none" THEN "NEW" ELSE @]
  /\ UNCHANGED <<named, tries, mapping, made>> /\ NothingElse

(* autoMapByOfficialLink, officialLinkMatch: one candidate, or nobody.     *)
AutoMap(s, r) ==
  /\ state[r] = "NEW" /\ Begins(s, r, "match")
  /\ UNCHANGED <<rowVars, mapping, made>> /\ NothingElse

Match(s) ==
  /\ At(s, "match")
  /\ \E found \in {MadeTitles, MadeTitles \cup {1}} :
       IF Cardinality(found) = 1
       THEN staff' = [staff EXCEPT ![s].at = "mapCheck", ![s].title = CHOOSE t \in found : TRUE]
       ELSE Ends(s)
  /\ UNCHANGED <<rowVars, mapping, made>> /\ NothingElse

(* mapToExisting: the row is read before MangaDex is asked for the title.  *)
MapToExisting(s, r, t) ==
  /\ state[r] \notin {"none", "CREATING"} /\ ~(state[r] = "TRACKED" /\ named[r] \notin {0, t})
  /\ At(s, "idle") /\ Act
  /\ staff' = [staff EXCEPT ![s].at = "mapCheck", ![s].row = r, ![s].title = t]
  /\ UNCHANGED <<rowVars, mapping, made, faults, torn>>

(* writeMapping: look, upsert what is not there, close the row.            *)
MapCheck(s) ==
  /\ At(s, "mapCheck")
  /\ IF mapping \in {0, staff[s].title} THEN Goes(s, "mapWrite") ELSE Ends(s)
  /\ UNCHANGED <<rowVars, mapping, made>> /\ NothingElse

(* Mutant: the upsert repoints what it finds.                              *)
UpsertOver(title) == mapping' = title

Upsert(title) == mapping' = IF mapping = 0 THEN title ELSE mapping

MapWrite(s) ==
  /\ At(s, "mapWrite") /\ Upsert(staff[s].title) /\ Goes(s, "mapClose")
  /\ UNCHANGED <<rowVars, made>> /\ NothingElse

Tracked(r, title) ==
  /\ state' = [state EXCEPT ![r] = "TRACKED"]
  /\ named' = [named EXCEPT ![r] = title]

MapClose(s) ==
  /\ At(s, "mapClose") /\ Tracked(staff[s].row, staff[s].title) /\ Ends(s)
  /\ torn' = (torn \/ state[staff[s].row] = "CREATING")
  /\ UNCHANGED <<tries, mapping, made, acts, faults>>

(* tick: rows that are NEW and have attempts left.                         *)
Candidate(s, r) ==
  /\ state[r] = "NEW" /\ tries[r] < Attempts
  /\ At(s, "idle")
  /\ staff' = [staff EXCEPT ![s] = [AtRest EXCEPT !.at = "claim", !.row = r, !.spent = tries[r], !.auto = TRUE]]
  /\ UNCHANGED <<rowVars, mapping, made>> /\ NothingElse

(* The approve route and approve: the map, then the row is read.           *)
Approve(s, r) ==
  /\ mapping = 0 /\ state[r] \in {"NEW", "FAILED"} /\ Act
  /\ At(s, "idle")
  /\ staff' = [staff EXCEPT ![s] = [AtRest EXCEPT !.at = "reset", !.row = r, !.spent = tries[r]]]
  /\ UNCHANGED <<rowVars, mapping, made, faults, torn>>

FreshBudget(s) ==
  LET r == staff[s].row  failed == state[r] = "FAILED" IN
  /\ At(s, "reset") /\ Goes(s, "claim")
  /\ state' = [state EXCEPT ![r] = IF failed THEN "NEW" ELSE @]
  /\ tries' = [tries EXCEPT ![r] = IF failed THEN 0 ELSE @]
  /\ UNCHANGED <<named, mapping, made>> /\ NothingElse

(* Mutant: the row is claimed as it was read.                              *)
Claimable(r) == state[r] \in {"NEW", "CREATING"}

Unclaimed(r) == state[r] = "NEW"

(* createOne: the claim is a compare-and-set.                              *)
Claim(s) ==
  LET r == staff[s].row IN
  /\ At(s, "claim")
  /\ IF Unclaimed(r)
     THEN /\ state' = [state EXCEPT ![r] = "CREATING"] /\ tries' = [tries EXCEPT ![r] = @ + 1]
          /\ Goes(s, "recheck")
     ELSE Ends(s) /\ UNCHANGED <<state, tries>>
  /\ UNCHANGED <<named, mapping, made>> /\ NothingElse

Recheck(s) ==
  /\ At(s, "recheck")
  /\ staff' = [staff EXCEPT ![s].title = mapping,
       ![s].at = IF mapping # 0 THEN "adopt" ELSE IF staff[s].auto THEN "search" ELSE "commit"]
  /\ UNCHANGED <<rowVars, mapping, made>> /\ NothingElse

Adopt(s) ==
  /\ At(s, "adopt") /\ Tracked(staff[s].row, staff[s].title) /\ Ends(s)
  /\ UNCHANGED <<tries, mapping, made>> /\ NothingElse

(* Mutant: the search is for a person, and decides nothing.                *)
SearchAside(s) ==
  /\ At(s, "search") /\ Goes(s, "commit")
  /\ UNCHANGED <<rowVars, mapping, made>> /\ NothingElse

(* A title that looks like the series is left to a person.                 *)
SearchTitle(s) ==
  /\ At(s, "search")
  /\ \/ Goes(s, "refuse")
     \/ MadeTitles = {} /\ Goes(s, "commit")
  /\ UNCHANGED <<rowVars, mapping, made>> /\ NothingElse

Refuse(s) ==
  /\ At(s, "refuse") /\ Ends(s)
  /\ state' = [state EXCEPT ![staff[s].row] = "FAILED"]
  /\ UNCHANGED <<named, tries, mapping, made>> /\ NothingElse

(* createMangaDraft, commitMangaDraft; the answer may be lost.             *)
Commit(s) ==
  /\ At(s, "commit")
  /\ made' = Append(made, staff[s].row)
  /\ \/ staff' = [staff EXCEPT ![s].at = "track", ![s].title = Len(made) + 2] /\ UNCHANGED faults
     \/ Goes(s, "fail") /\ Fault
  /\ UNCHANGED <<rowVars, mapping, acts, torn>>

(* Mutant: the row is closed before the map is written.                    *)
CloseFirst(s) ==
  /\ At(s, "track") /\ Tracked(staff[s].row, staff[s].title) /\ Goes(s, "finish")
  /\ UNCHANGED <<tries, mapping, made>> /\ NothingElse

(* The map first, it is what unblocks uploads; then the row.               *)
Track(s) ==
  /\ At(s, "track") /\ Upsert(staff[s].title) /\ Goes(s, "finish")
  /\ UNCHANGED <<rowVars, made>> /\ NothingElse

Finish(s) ==
  /\ At(s, "finish") /\ Tracked(staff[s].row, staff[s].title) /\ Ends(s)
  /\ UNCHANGED <<tries, mapping, made>> /\ NothingElse

(* MangaDex refuses, or a statement fails: the catch gives the row back,   *)
(* by the attempts it was read with.                                       *)
Throws(s) ==
  /\ staff[s].at \in {"recheck", "adopt", "search", "refuse", "commit", "track", "finish"}
  /\ Goes(s, "fail") /\ Fault
  /\ UNCHANGED <<rowVars, mapping, made, acts, torn>>

GiveBack(s) ==
  LET out == staff[s].spent + 1 >= Attempts IN
  /\ At(s, "fail") /\ Ends(s)
  /\ state' = [state EXCEPT ![staff[s].row] = IF out THEN "FAILED" ELSE "NEW"]
  /\ UNCHANGED <<named, tries, mapping, made>> /\ NothingElse

(* The process dies, or a statement outside of createOne fails.            *)
Dies(s) ==
  /\ ~At(s, "idle") /\ Fault /\ Ends(s)
  /\ torn' = (torn \/ At(s, "release"))
  /\ UNCHANGED <<rowVars, mapping, made, acts>>

(* Triage                                                                  *)
Skip(r) ==
  /\ state[r] \in {"NEW", "FAILED"} /\ Act
  /\ state' = [state EXCEPT ![r] = "SKIPPED"]
  /\ UNCHANGED <<named, tries, mapping, made, staff, faults, torn>>

UnskipRead(s, r) ==
  /\ state[r] = "SKIPPED" /\ mapping = 0 /\ Begins(s, r, "unskip") /\ Act
  /\ UNCHANGED <<rowVars, mapping, made, faults, torn>>

Unskip(s) ==
  LET r == staff[s].row  skipped == state[r] = "SKIPPED" IN
  /\ At(s, "unskip") /\ Ends(s)
  /\ state' = [state EXCEPT ![r] = IF skipped THEN "NEW" ELSE @]
  /\ tries' = [tries EXCEPT ![r] = IF skipped THEN 0 ELSE @]
  /\ UNCHANGED <<named, mapping, made>> /\ NothingElse

(* untracked/reconcile: rows that claim a mapping the map does not have.   *)
Orphaned(s, r) ==
  /\ state[r] = "TRACKED" /\ mapping = 0 /\ Begins(s, r, "reconcile") /\ Act
  /\ UNCHANGED <<rowVars, mapping, made, faults, torn>>

Reconcile(s) ==
  /\ At(s, "reconcile") /\ Ends(s)
  /\ state' = [state EXCEPT ![staff[s].row] = "SKIPPED"]
  /\ torn' = (torn \/ state[staff[s].row] = "CREATING")
  /\ UNCHANGED <<named, tries, mapping, made, acts, faults>>

(* The series map: a mapping is set, pasted with the row closed behind it, *)
(* or removed with its rows let go, in one transaction or, by the route    *)
(* for a single one, in two statements.                                    *)
SetMapping(t) ==
  /\ mapping # t /\ mapping' = t /\ Act
  /\ UNCHANGED <<rowVars, made, staff, faults, torn>>

PasteMapping(s, r, t) ==
  /\ state[r] \notin {"none", "CREATING"} /\ mapping # t
  /\ mapping' = t /\ Begins(s, r, "close") /\ Act
  /\ UNCHANGED <<rowVars, made, faults, torn>>

CloseRow(s) ==
  LET r == staff[s].row IN
  /\ At(s, "close") /\ Ends(s)
  /\ state' = [state EXCEPT ![r] = "TRACKED"]
  /\ torn' = (torn \/ state[r] = "CREATING")
  /\ UNCHANGED <<named, tries, mapping, made, acts, faults>>

Closing == \E s \in Staff : staff[s].at \in {"adopt", "finish", "mapClose", "close"}

(* Mutant: the rows are left as they are.                                  *)
KeepQueueRows == UNCHANGED state

ReleaseQueueRows == state' = [r \in Languages |-> IF state[r] = "TRACKED" THEN "SKIPPED" ELSE state[r]]

RemoveMappings ==
  /\ mapping # 0 /\ mapping' = 0 /\ ReleaseQueueRows /\ Act
  /\ torn' = (torn \/ Closing)
  /\ UNCHANGED <<named, tries, made, staff, faults>>

RemoveMapping(s) ==
  /\ mapping # 0 /\ mapping' = 0 /\ Begins(s, AtRest.row, "release") /\ Act
  /\ torn' = (torn \/ Closing)
  /\ UNCHANGED <<rowVars, made, faults>>

Release(s) ==
  /\ At(s, "release") /\ ReleaseQueueRows /\ Ends(s)
  /\ UNCHANGED <<named, tries, mapping, made>> /\ NothingElse

Serves(s) ==
  \/ PersistUntracked(s) \/ Match(s) \/ MapCheck(s) \/ MapWrite(s) \/ MapClose(s)
  \/ FreshBudget(s) \/ Claim(s) \/ Recheck(s) \/ Adopt(s) \/ SearchTitle(s) \/ Refuse(s)
  \/ Commit(s) \/ Track(s) \/ Finish(s) \/ Throws(s) \/ GiveBack(s) \/ Dies(s)
  \/ \E r \in Languages : SeenUntracked(s, r) \/ AutoMap(s, r) \/ Candidate(s, r)

Operates(s) ==
  \/ \E r \in Languages : Approve(s, r) \/ UnskipRead(s, r) \/ Orphaned(s, r)
  \/ \E r \in Languages, t \in {1} \cup MadeTitles : MapToExisting(s, r, t) \/ PasteMapping(s, r, t)
  \/ Unskip(s) \/ Reconcile(s) \/ CloseRow(s) \/ RemoveMapping(s) \/ Release(s)

TitlesNext ==
  \/ \E s \in Staff : Serves(s) \/ Operates(s)
  \/ \E r \in Languages : Skip(r)
  \/ \E t \in {1} \cup MadeTitles : SetMapping(t)
  \/ RemoveMappings

TitlesSpec == TitlesInit /\ [][TitlesNext]_titleVars
-----------------------------------------------------------------------------
Creating == {"recheck", "adopt", "search", "refuse", "commit", "track", "finish", "fail"}
States == {"none", "NEW", "CREATING", "TRACKED", "FAILED", "SKIPPED"}

(* Every variable stays in its type, a failure pays for every attempt of a *)
(* row but the first, and a creator's row stays claimed while he is at it, *)
(* unless somebody closed it under him.                                    *)
TitlesTypeOK ==
  /\ state \in [Languages -> States] /\ tries \in [Languages -> 0..(faults + 1)]
  /\ {mapping} \cup {named[r] : r \in Languages} \subseteq {0, 1} \cup MadeTitles
  /\ \A s \in Staff : staff[s].at \in Creating /\ ~torn => state[staff[s].row] = "CREATING"

(* A series is repointed by an edit of the map and by nothing else: the    *)
(* passes, the creations and the one-click mapping leave a mapping they    *)
(* find as it is, also one that appeared after they looked.                *)
MappingSticks == [][\A s \in Staff :
  staff[s].at \in {"mapWrite", "track"} /\ staff'[s].at \in {"mapClose", "finish"} /\ mapping # 0
    => mapping' = mapping]_titleVars

(* One row has one creator at a time, however many processes read it as    *)
(* NEW, fail and give it back, unless somebody closed it under the creator. *)
OneCreator == \A s, q \in Staff :
  ~torn /\ s # q /\ {staff[s].at, staff[q].at} \subseteq Creating => staff[s].row # staff[q].row

(* A row that says TRACKED has a mapping behind it at every moment, a      *)
(* failure between two writes included; a removal that meets a row being   *)
(* closed, or that dies halfway, is the exception.                         *)
TrackedIsMapped ==
  ~torn /\ (\A s \in Staff : ~At(s, "release")) =>
    \A r \in Languages : state[r] = "TRACKED" => mapping # 0

(* The queue of series: its types, one creator of a row at a time, and no  *)
(* row that says TRACKED without a mapping.                                *)
TitlesInv == TitlesTypeOK /\ OneCreator /\ TrackedIsMapped

(* The machine makes no second title for a row, whatever failed after the  *)
(* first was committed.                                                    *)
NoMachineDuplicates == [][\A s \in Staff :
  ~torn /\ At(s, "commit") /\ made' # made /\ staff'[s] # staff[s] /\ staff[s].auto
    => MadeFor(staff[s].row) = {}]_titleVars

(* What the machine leaves to operators: the mapping it finds, and the     *)
(* title it made before.                                                   *)
MachinesYield == MappingSticks /\ NoMachineDuplicates
=============================================================================
