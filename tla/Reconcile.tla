----------------------------- MODULE Reconcile -----------------------------
(***************************************************************************)
(* Rebuilding the chapter tables from what MangaDex holds                  *)
(* (src/core/md/chapterReconcile.ts), in the background of core-api        *)
(* (src/core/md/reconcileRunner.ts; duplicateRunner.ts is the same): walk  *)
(* the group, archive its carded chapters, adopt its live ones, sweep      *)
(* uploaded_chapters for what is gone.  One action per await that reads or *)
(* writes what others write; the uploader, the processor and MangaDex move *)
(* in between.                                                             *)
(*                                                                         *)
(* One extension, one group.  The options are those of a full pass, and    *)
(* uploaded_ids, which nothing here reads, is left out.                    *)
(***************************************************************************)
EXTENDS Integers, FiniteSets

CONSTANTS
  Entries,   \* chapters, by the order of their ids in uploaded_chapters
  Grouped,   \* those of the group
  RowBatch,  \* ROW_BATCH
  Clicks,    \* passes under way at one time
  Nil,
  MaxTurns   \* bounds failures and what others do

ASSUME ReconcileAssumption ==
  /\ Entries \subseteq Nat \ {0} /\ IsFiniteSet(Entries) /\ Grouped \subseteq Entries
  /\ RowBatch \in Nat \ {0} /\ MaxTurns \in Nat /\ Nil \notin Entries

VARIABLES
  entry,        \* MangaDex: "live", "hidden" (not served), "carded", "gone"
  uploaded, unavailable, deleted,   \* the three tables
  fate,         \* the uploader's removal of the chapter: "none", "queued",
                \* "written" (to MangaDex), "filed" (in an archive), "over"
  settingsRow,  \* chapters_reconcile_state: what it says, and whether its
                \* beat is older than STALE_AFTER_MS
  work,         \* each pass: where it is, with what it has read
  turns

tables == <<uploaded, unavailable, deleted>>
reconcileVars == <<entry, tables, fate, settingsRow, work, turns>>

Archived == unavailable \cup deleted

(* quiet, started, had: observer; whether nothing but passes has moved     *)
(* since this one began, and the rows there were then.                     *)
NoWork == [at |-> "idle", seen |-> {}, pick |-> {}, todo |-> {}, cursor |-> 0, item |-> Nil,
           verdict |-> "none", back |-> "idle", quiet |-> FALSE, had |-> {}, walked |-> FALSE]

ReconcileInit ==
  /\ entry \in [Entries -> {"live", "hidden", "carded", "gone"}]
  /\ uploaded \in SUBSET Entries
  /\ unavailable \in SUBSET {i \in Entries \ uploaded : entry[i] \in {"carded", "gone"}}
  /\ deleted \in SUBSET {i \in Entries \ (uploaded \cup unavailable) : entry[i] = "gone"}
  /\ fate = [i \in Entries |-> "none"]
  /\ settingsRow = [says |-> "idle", stale |-> FALSE]
  /\ work = [c \in Clicks |-> NoWork]
  /\ turns = 0

Turn == turns < MaxTurns /\ turns' = turns + 1

Running == [says |-> "running", stale |-> FALSE]
Says(what) == [says |-> what, stale |-> FALSE]

(* Mutant: a state of running holds whoever wrote it.                      *)
BusyForEver == settingsRow.says = "running"

(* status                                                                  *)
Busy == settingsRow.says = "running" /\ ~settingsRow.stale

(* start: the state is read,                                               *)
Click(c) ==
  /\ work[c].at = "idle" /\ ~Busy
  /\ work' = [work EXCEPT ![c] = [NoWork EXCEPT !.at = "start"]]
  /\ UNCHANGED <<entry, tables, fate, settingsRow, turns>>

(* and written, and the pass begins: which groups are there.               *)
Start(c) ==
  /\ work[c].at = "start"
  /\ settingsRow' = Running
  /\ LET walked == uploaded \cap Grouped # {} IN
     work' = [work EXCEPT ![c] = [NoWork EXCEPT
       !.at = IF walked THEN "walk" ELSE "page", !.walked = walked, !.had = uploaded,
       !.quiet = /\ \A i \in Entries : fate[i] \in {"none", "over"}
                 /\ \A e \in Clicks : work[e].at \in {"idle", "start"} \/ work[e].quiet]]
  /\ UNCHANGED <<entry, tables, fate, turns>>

(* Progress is written as the pass goes, and not waited for.               *)
Goes(c, q) == work' = [work EXCEPT ![c] = q] /\ settingsRow' = Running

(* chapterAvailabilityForGroup: the walk that takes everything,            *)
WalkAll(c) ==
  /\ work[c].at = "walk"
  /\ LET all == {i \in Grouped : entry[i] # "gone"} IN
     Goes(c, [work[c] EXCEPT !.at = "served", !.seen = all,
                             !.pick = {i \in all : entry[i] = "carded"}])
  /\ UNCHANGED <<entry, tables, fate, turns>>

(* and the walk of what is served.  pick: the carded, then the live ones.  *)
WalkServed(c) ==
  /\ work[c].at = "served"
  /\ LET live == {i \in work[c].seen \ work[c].pick : entry[i] \in {"live", "carded"}} IN
     Goes(c, [work[c] EXCEPT !.at = "archive", !.todo = work[c].pick, !.pick = live])
  /\ UNCHANGED <<entry, tables, fate, turns>>

(* alreadyArchived, of a chapter about to be filed                         *)
Checked(q, i, verdict, back) ==
  IF i \in Archived THEN [q EXCEPT !.todo = @ \ {i}]
  ELSE [q EXCEPT !.at = "file", !.item = i, !.verdict = verdict, !.back = back]

ArchiveNext(c) ==
  /\ work[c].at = "archive"
  /\ IF work[c].todo = {} THEN Goes(c, [work[c] EXCEPT !.at = "missing"])
     ELSE \E i \in work[c].todo : Goes(c, Checked(work[c], i, "unavailable", "archive"))
  /\ UNCHANGED <<entry, tables, fate, turns>>

(* Mutant: what was filed stays in hand.                                   *)
StillInHand(q) == [q EXCEPT !.at = q.back, !.todo = @ \ {q.item}]

Filed(q) == [q EXCEPT !.at = q.back, !.todo = @ \ {q.item}, !.item = Nil]

(* archiveUnavailable, archiveDeleted: one transaction                     *)
FileIt(c) ==
  LET q == work[c] IN
  /\ q.at = "file"
  /\ uploaded' = uploaded \ {q.item}
  /\ unavailable' = IF q.verdict = "unavailable" THEN unavailable \cup {q.item} ELSE unavailable
  /\ deleted' = IF q.verdict = "deleted" THEN deleted \cup {q.item} ELSE deleted
  /\ Goes(c, Filed(q))
  /\ UNCHANGED <<entry, fate, turns>>

(* adoptLive: withoutRows, and the names of the titles from MangaDex;      *)
FindMissing(c) ==
  /\ work[c].at = "missing"
  /\ Goes(c, [work[c] EXCEPT !.at = "adopt", !.todo = work[c].pick \ (uploaded \cup Archived)])
  /\ UNCHANGED <<entry, tables, fate, turns>>

(* createMany, skipping what has a row by now.                             *)
Adopt(c) ==
  /\ work[c].at = "adopt"
  /\ uploaded' = uploaded \cup work[c].todo
  /\ Goes(c, [work[c] EXCEPT !.at = "page", !.todo = {}, !.pick = {}])
  /\ UNCHANGED <<entry, unavailable, deleted, fate, turns>>

(* Mutant: the page is found from the row of the cursor.                   *)
AfterReference(q) ==
  IF q.cursor = 0 THEN uploaded
  ELSE {i \in uploaded : q.cursor \in uploaded /\ i > q.cursor}

(* sweepUploaded: id > cursor                                              *)
AfterCursor(q) == {i \in uploaded : i > q.cursor}

FirstOf(rows) == {i \in rows : Cardinality({j \in rows : j < i}) < RowBatch}

Page(c) ==
  /\ work[c].at = "page"
  /\ LET rows == FirstOf(AfterCursor(work[c])) IN
     IF rows = {} THEN Goes(c, [work[c] EXCEPT !.at = "finish"])
     ELSE Goes(c, [work[c] EXCEPT !.at = "sweep", !.todo = rows,
                                  !.cursor = CHOOSE i \in rows : \A j \in rows : j <= i])
  /\ UNCHANGED <<entry, tables, fate, turns>>

(* Mutant: what is not served is taken for deleted.                        *)
UnservedIsDeleted(i) == IF entry[i] \in {"gone", "hidden"} THEN "deleted"
                        ELSE IF entry[i] = "carded" THEN "unavailable" ELSE "keep"

(* chapterById: 404, a card, or neither                                    *)
Verdict(i) == IF entry[i] = "gone" THEN "deleted"
              ELSE IF entry[i] = "carded" THEN "unavailable" ELSE "keep"

(* What the walk saw is not asked about.                                   *)
Sweep(c) ==
  LET q == work[c] IN
  /\ q.at = "sweep"
  /\ IF q.todo \ q.seen = {} THEN Goes(c, [q EXCEPT !.at = "page", !.todo = {}])
     ELSE \E i \in q.todo \ q.seen :
            Goes(c, IF Verdict(i) = "keep" THEN [q EXCEPT !.todo = @ \ {i}]
                    ELSE [q EXCEPT !.at = "check", !.item = i, !.verdict = Verdict(i)])
  /\ UNCHANGED <<entry, tables, fate, turns>>

CheckRow(c) ==
  /\ work[c].at = "check"
  /\ Goes(c, Checked([work[c] EXCEPT !.at = "sweep", !.item = Nil],
                     work[c].item, work[c].verdict, "sweep"))
  /\ UNCHANGED <<entry, tables, fate, turns>>

(* A progress write that was not waited for may land after the last one.   *)
Finish(c) ==
  /\ work[c].at = "finish"
  /\ work' = [work EXCEPT ![c] = NoWork]
  /\ \/ settingsRow' = Says("done") /\ UNCHANGED turns
     \/ settingsRow' = Running /\ Turn
  /\ UNCHANGED <<entry, tables, fate>>

(* The pass throws, or the process dies.                                   *)
Fails(c) ==
  /\ work[c].at \notin {"idle", "start"} /\ Turn
  /\ work' = [work EXCEPT ![c] = NoWork]
  /\ settingsRow' \in {Says("failed"), settingsRow}
  /\ UNCHANGED <<entry, tables, fate>>

(* Five minutes without a beat: nobody is working, or a page takes that    *)
(* long.                                                                   *)
Ages ==
  /\ Busy
  /\ settingsRow' = [settingsRow EXCEPT !.stale = TRUE]
  /\ \/ (\A c \in Clicks : work[c].at \in {"idle", "start"}) /\ UNCHANGED turns
     \/ Turn
  /\ UNCHANGED <<entry, tables, fate, work>>

(* The others.  Every pass under way ceases to be quiet.                   *)
Others == work' = [c \in Clicks |-> [work[c] EXCEPT !.quiet = FALSE]]

(* A removal is queued and the row ended (enqueueRemovals).                *)
QueueRemoval(i) ==
  /\ fate[i] = "none" /\ entry[i] = "live" /\ Turn /\ Others
  /\ fate' = [fate EXCEPT ![i] = "queued"]
  /\ uploaded' = uploaded \ {i}
  /\ UNCHANGED <<entry, unavailable, deleted, settingsRow>>

(* The uploader removes the chapter, files it, and ends its row again.     *)
TakeDown(i) ==
  /\ fate[i] = "queued" /\ Others
  /\ fate' = [fate EXCEPT ![i] = "written"]
  /\ entry' \in {[entry EXCEPT ![i] = "carded"], [entry EXCEPT ![i] = "gone"]}
  /\ UNCHANGED <<tables, settingsRow, turns>>

FileRemoval(i) ==
  /\ fate[i] = "written" /\ Others
  /\ fate' = [fate EXCEPT ![i] = "filed"]
  /\ unavailable' = IF entry[i] = "carded" THEN unavailable \cup {i} ELSE unavailable
  /\ deleted' = IF entry[i] = "gone" THEN deleted \cup {i} ELSE deleted
  /\ UNCHANGED <<entry, uploaded, settingsRow, turns>>

EndRow(i) ==
  /\ fate[i] = "filed" /\ Others
  /\ fate' = [fate EXCEPT ![i] = "over"]
  /\ uploaded' = uploaded \ {i}
  /\ UNCHANGED <<entry, unavailable, deleted, settingsRow, turns>>

(* MangaDex deletes a chapter or hides it.                                 *)
Moderate(i) ==
  /\ entry[i] # "gone" /\ fate[i] \in {"none", "over"} /\ Turn /\ Others
  /\ entry' \in {[entry EXCEPT ![i] = "gone"]}
       \cup (IF entry[i] = "live" THEN {[entry EXCEPT ![i] = "hidden"]} ELSE {})
  /\ UNCHANGED <<tables, fate, settingsRow>>

PassGoesOn(c) ==
  \/ Start(c) \/ WalkAll(c) \/ WalkServed(c) \/ ArchiveNext(c) \/ FileIt(c) \/ FindMissing(c)
  \/ Adopt(c) \/ Page(c) \/ Sweep(c) \/ CheckRow(c) \/ Finish(c)

ReconcileNext ==
  \/ \E c \in Clicks : Click(c) \/ PassGoesOn(c) \/ Fails(c)
  \/ Ages
  \/ \E i \in Entries : \/ QueueRemoval(i) \/ TakeDown(i) \/ FileRemoval(i) \/ EndRow(i)
                        \/ Moderate(i)

ReconcileSpec == ReconcileInit /\ [][ReconcileNext]_reconcileVars

(* A pass under way goes on; time passes.                                  *)
ReconcileFairness ==
  /\ \A c \in Clicks : WF_reconcileVars(PassGoesOn(c))
  /\ WF_reconcileVars(Ages)
-----------------------------------------------------------------------------
(* Types, and: a pass files only what it has in hand.                      *)
ReconcileTypeOK ==
  /\ entry \in [Entries -> {"live", "hidden", "carded", "gone"}]
  /\ uploaded \cup unavailable \cup deleted \subseteq Entries
  /\ fate \in [Entries -> {"none", "queued", "written", "filed", "over"}]
  /\ settingsRow \in [says : {"idle", "running", "done", "failed"}, stale : BOOLEAN]
  /\ \A c \in Clicks :
       /\ work[c].at \in {"idle", "start", "walk", "served", "archive", "file", "missing",
                          "adopt", "page", "sweep", "check", "finish"}
       /\ work[c].at \in {"file", "check"} <=> work[c].item # Nil
       /\ work[c].item # Nil => work[c].item \in work[c].todo
       /\ work[c].cursor \in Entries \cup {0}
  /\ turns \in 0..MaxTurns

(* What deleted_chapters says is gone from MangaDex, however old the       *)
(* reading was that filed it.                                              *)
DeletedAreGone == \A i \in deleted : entry[i] = "gone"

(* A pass during which nothing moved but other passes leaves the tables as *)
(* MangaDex is: the live chapters of the group recorded, no row for what   *)
(* is carded or gone, and each of those that was known in an archive.  A   *)
(* row of what an archive holds already is passed over, and stays.         *)
Agrees(q) ==
  /\ \A i \in uploaded \ Archived : entry[i] \in {"live", "hidden"}
  /\ \A i \in q.had : entry[i] \in {"carded", "gone"} => i \in Archived
  /\ q.walked => \A i \in Grouped : /\ entry[i] = "carded" => i \in Archived
                                    /\ entry[i] = "live" => i \in uploaded
QuietPassAgrees == \A c \in Clicks : work[c].at = "finish" /\ work[c].quiet => Agrees(work[c])

(* The types of the passes, and archives that say what MangaDex says.      *)
ReconcileInv == ReconcileTypeOK /\ DeletedAreGone /\ QuietPassAgrees

(* The state never stays running when nobody runs: an operator who comes   *)
(* back finds the button free.                                             *)
ButtonComesBack == []<>(~Busy)

(* Adoption never gives a row to a chapter that an archive holds, as the   *)
(* head of chapterReconcile.ts says.                                       *)
NeverAdoptedBack == [][\A c \in Clicks :
  work[c].at = "adopt" /\ work'[c].at = "page" =>
    (uploaded' \ uploaded) \cap Archived = {}]_reconcileVars
=============================================================================
