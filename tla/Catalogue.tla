----------------------------- MODULE Catalogue -----------------------------
(***************************************************************************)
(* What a run's report does to the chapters of one MangaDex title: the     *)
(* removal half of RunProcessor (src/core/processor/processor.ts) with the *)
(* decision of src/core/processor/dedupe.ts it rests on, against the tally *)
(* of RemovalChecks.                                                       *)
(*                                                                         *)
(* Two publishers may share a title.  An extension reports what it read of *)
(* its own; the processor reads MangaDex and uploaded_chapters, casts the  *)
(* votes of four passes, queues what is confirmed, and marks the run.  One *)
(* action per await: other processors, the uploader, the operators and the *)
(* publishers move in between, and a process may die anywhere and leave    *)
(* its run INGESTING.  processRun's uploads and edits are UploadQueue's    *)
(* rows; its duplicate scan is Decide's.                                   *)
(***************************************************************************)
EXTENDS RemovalChecks

CONSTANTS
  Exts,         \* extensions that publish to this title
  Procs,        \* concurrent RunProcessors
  Slots,        \* runs in INGESTING at one time; a slot is used again
  None,
  ExtOf,        \* whose publisher has the chapter
  LangOf,       \* the language of a chapter
  Speaks,       \* the languages an extension may publish
  Ours,         \* chapters the bot account uploaded
  Reports,      \* the kinds of run: [clean, scoped, updated, complete, failed]
  Shelves,      \* what a chapter may become at its publisher
  Standings,    \* what may become of an extension's hold on the title
  Endings,      \* what a removal leaves: "carded", "gone" (the removal mode)
  MaxUpsets     \* bounds crashes, failed statements and operators' acts

ASSUME CatalogueAssumption ==
  /\ ExtOf \in [Chapters -> Exts] /\ Ours \subseteq Chapters
  /\ None \notin Exts \cup Chapters
  /\ Shelves \subseteq {"listed", "expired", "dropped"}
  /\ Standings \subseteq {"active", "paused", "none"} /\ Endings \subseteq {"carded", "gone"}
  /\ MaxUpsets \in Nat

VARIABLES
  shelf,    \* the publisher's side: "listed", "expired" (paid by now), "dropped"
  md,       \* MangaDex's side: "live", "carded", "gone"
  row,      \* uploaded_chapters.extension, None when there is no row
  task,     \* the chapter's removal row: "none", "pending", "done"
  tracked,  \* tracked_manga: "active", "paused" (recheckAfter ahead), "none"
  runs,     \* slot -> the run waiting INGESTING there, or None
  proc,     \* processor -> where its processRun is, with what it has read
  upsets,
  days      \* observer: days with a counted miss since the last sighting.  An
            \* operator's word, and a sighting that was lost, stand for all.

lifeVars == <<shelf, md, task, tracked, upsets>>
catalogueVars == <<tallyVars, lifeVars, row, runs, proc, days>>

Idle == [at |-> "idle", pass |-> None, slot |-> None, run |-> None, seen |-> {},
         carded |-> {}, foreign |-> {}, todo |-> {}, half |-> None]

CatalogueInit ==
  /\ TallyInit
  /\ shelf = [c \in Chapters |-> "listed"]
  /\ md \in [Chapters -> {"live", "gone"}]
  /\ row = [c \in Chapters |-> IF c \in Ours THEN ExtOf[c] ELSE None]
  /\ task = [c \in Chapters |-> "none"]
  /\ tracked = [e \in Exts |-> "active"]
  /\ runs = [s \in Slots |-> None]
  /\ proc = [p \in Procs |-> Idle]
  /\ upsets = 0
  /\ days = [c \in Chapters |-> 0]

Upset == upsets < MaxUpsets /\ upsets' = upsets + 1

(* Publishers and the reports of their extensions                          *)
Shelve(c, to) ==
  /\ shelf[c] # to /\ shelf' = [shelf EXCEPT ![c] = to]
  /\ UNCHANGED <<tallyVars, md, row, task, tracked, runs, proc, upsets, days>>

OnShelf(e) == {c \in Chapters : ExtOf[c] = e /\ shelf[c] # "dropped"}

(* A run settles with its envelopes committed.  What it names is on the    *)
(* shelf, but not all of it need be named: an extension breaks, a page     *)
(* does not load.  trackedMangadexIds is what the worker had heard.        *)
Report(s, e, kind, names) ==
  /\ runs[s] = None
  /\ names \subseteq OnShelf(e)
  /\ kind.failed \/ ~kind.complete => names = {}
  /\ runs' = [runs EXCEPT ![s] =
       [ext |-> e, kind |-> kind, names |-> names, spent |-> {c \in names : shelf[c] = "expired"},
        tracks |-> tracked[e] # "none"]]
  /\ UNCHANGED <<tallyVars, lifeVars, row, proc, days>>

(* claimRun, loadEnvelopes, authoritativeTrackedIds, failedMdMangaIds      *)
(* activeTrackedTitles: what the table or the worker knows, less the       *)
(* series that are paused.                                                 *)
Tracks(run) == tracked[run.ext] = "active" \/ (run.tracks /\ tracked[run.ext] # "paused")

(* failedManga holds the publisher's ids; one no row maps is dropped.      *)
Held(run) == run.kind.failed /\ tracked[run.ext] # "none"

Visits(run) == run.kind.updated \/ run.kind.scoped \/ (run.kind.clean /\ run.names # {})

(* Of a title that was visited, the listing; null when there is none.      *)
Readable(q) == q.run.kind.complete /\ ~q.run.held

(* Mutant: what a pass had in hand goes on to the next.                    *)
StageKeeps(q, at, pass) == [q EXCEPT !.at = at, !.pass = pass]

Stage(q, at, pass) == [q EXCEPT !.at = at, !.pass = pass, !.todo = {}, !.half = None]
Done(q) == [Idle EXCEPT !.at = "mark", !.slot = q.slot]

(* Mutant: a title the listing does not name is not looked at.             *)
PassedOver(run) == FALSE

(* removeMangaWithoutExternalChapters: tracked, and not in the listing.    *)
Silent(run) ==
  ~run.kind.scoped /\ run.kind.clean /\ run.kind.complete /\ run.tracks /\ run.names = {}

TitleGone(q) == IF Silent(q.run) THEN Stage(q, "look", "manga-without-external-chapters")
                                 ELSE Done(q)

Claim(p, s) ==
  /\ proc[p].at = "idle" /\ runs[s] # None
  /\ LET run == [ext |-> runs[s].ext, kind |-> runs[s].kind, names |-> runs[s].names,
                 spent |-> runs[s].spent, tracks |-> Tracks(runs[s]), held |-> Held(runs[s])]
         q == [Idle EXCEPT !.slot = s, !.run = run]
     IN proc' = [proc EXCEPT ![p] = IF Visits(run) THEN Stage(q, "look", "no-longer-listed")
                                                   ELSE TitleGone(q)]
  /\ UNCHANGED <<tallyVars, lifeVars, row, runs, days>>

(* chaptersForManga                                                        *)
Look(p) ==
  /\ proc[p].at = "look"
  /\ proc' = [proc EXCEPT ![p].seen = {c \in Chapters : md[c] # "gone"},
                          ![p].carded = {c \in Chapters : md[c] = "carded"}, ![p].at = "sort"]
  /\ UNCHANGED <<tallyVars, lifeVars, row, runs, days>>

(* Mutant: every chapter under the group is this run's to judge.           *)
NobodyElse(q) == {}

(* foreignChapterIds: whom the rows attribute to another extension.        *)
ForeignChapterIds(q) == {c \in q.seen : row[c] \notin {None, q.run.ext}}

(* decideForManga: what the run says of each chapter it saw.               *)
Judged(q) == {c \in q.seen : c \in Ours /\ c \notin q.foreign /\ c \notin q.carded}

(* findExtraChapters: a language not ours to publish, or one the listing   *)
(* covers without the chapter.                                             *)
Covers(q, c) == q.run.names = {} \/ \E n \in q.run.names : LangOf[n] = LangOf[c]
FindExtraChapters(q) ==
  {c \in Judged(q) : LangOf[c] \notin Speaks[q.run.ext] \/ (Covers(q, c) /\ c \notin q.run.names)}

(* findPaywalledChapters                                                   *)
FindPaywalledChapters(q) == Judged(q) \cap q.run.spent

Nominated(q) == FindExtraChapters(q) \cup FindPaywalledChapters(q)

(* A duplicate of a chapter the run reported is recorded as its own.  A    *)
(* card's link no longer is the publisher's.                               *)
Matched(q) ==
  IF q.run.kind.updated \/ q.run.kind.clean THEN (q.run.names \cap q.seen) \ q.carded ELSE {}

Ballot(q) ==
  CASE q.pass = "no-longer-listed" -> FindExtraChapters(q)
    [] q.pass = "paywalled" -> FindPaywalledChapters(q)
    [] OTHER -> q.seen \ q.foreign

(* removeUntrackedManga, of a title this run visited                       *)
Untracked(q) == ~q.run.kind.scoped /\ ~q.run.tracks /\ q.seen # {}

CatalogueWide(q) == IF Untracked(q) THEN Stage(q, "sort", "manga-untracked") ELSE TitleGone(q)

Bookkeeping(q) == IF Matched(q) = {} THEN CatalogueWide(q)
                                     ELSE [Stage(q, "record", None) EXCEPT !.todo = Matched(q)]

AfterPass(q) ==
  CASE q.pass = "no-longer-listed" -> Stage(q, "vote", "paywalled")
    [] q.pass = "paywalled" -> Bookkeeping(q)
    [] q.pass = "manga-untracked" -> TitleGone(q)
    [] OTHER -> Done(q)

Sort(p) ==
  /\ proc[p].at = "sort"
  /\ LET q == [proc[p] EXCEPT !.foreign = ForeignChapterIds(proc[p])]
     IN proc' = [proc EXCEPT ![p] =
          IF q.pass # "no-longer-listed" THEN Stage(q, "vote", q.pass)
          ELSE IF Readable(q) THEN Stage(q, "forget", q.pass)
          ELSE Bookkeeping(q)]
  /\ UNCHANGED <<tallyVars, lifeVars, row, runs, days>>

(* forgetRemovalChecks: what was seen and is not nominated.  A failure is  *)
(* swallowed.                                                              *)
Forget(p) ==
  LET cs == proc[p].seen \ Nominated(proc[p]) IN
  /\ proc[p].at = "forget"
  /\ proc' = [proc EXCEPT ![p] = Stage(proc[p], "vote", proc[p].pass)]
  /\ \/ /\ Wipe(cs)
        /\ days' = [c \in Chapters |-> IF c \in cs THEN 0 ELSE days[c]]
        /\ UNCHANGED upsets
     \/ /\ Upset
        /\ days' = [c \in Chapters |-> IF c \in cs /\ misses[c] > 0 THEN Confirmations ELSE days[c]]
        /\ UNCHANGED tallyVars
  /\ UNCHANGED <<shelf, md, task, tracked, row, runs>>

Counted(cs) == days' = [c \in Chapters |->
  IF c \in cs /\ Counts(c) /\ (misses[c] = 0 \/ open[c]) THEN OneMore(days[c]) ELSE days[c]]

(* confirmRemovals: a vote that fails holds the whole pass.                *)
Vote(p) ==
  LET q == proc[p]  cs == Ballot(q)  ready == Confirmed(cs) IN
  /\ q.at = "vote"
  /\ CastVotes(cs) /\ Counted(cs)
  /\ proc' = [proc EXCEPT ![p] = IF ready = {} THEN AfterPass(q)
                                 ELSE [q EXCEPT !.at = "queue", !.todo = ready]]
  /\ UNCHANGED <<lifeVars, row, runs>>

VoteFails(p) ==
  /\ proc[p].at = "vote" /\ Ballot(proc[p]) # {} /\ Upset
  /\ proc' = [proc EXCEPT ![p] = AfterPass(proc[p])]
  /\ UNCHANGED <<tallyVars, shelf, md, task, tracked, row, runs, days>>

(* Mutant: an enqueue that fails is logged and passed over.                *)
QueueOrNot(p, c) ==
  /\ proc[p].at = "queue" /\ proc[p].half = None /\ c \in proc[p].todo
  /\ proc' = [proc EXCEPT ![p].half = c]
  /\ UNCHANGED <<tallyVars, lifeVars, row, runs, days>>

(* enqueueRemovals: per chapter the task, ON CONFLICT DO NOTHING, and then *)
(* the end of its row.                                                     *)
Queue(p, c) ==
  /\ proc[p].at = "queue" /\ proc[p].half = None /\ c \in proc[p].todo
  /\ task' = [task EXCEPT ![c] = IF @ = "none" THEN "pending" ELSE @]
  /\ proc' = [proc EXCEPT ![p].half = c]
  /\ UNCHANGED <<tallyVars, shelf, md, tracked, upsets, row, runs, days>>

Unrecord(p) ==
  LET c == proc[p].half  left == proc[p].todo \ {c} IN
  /\ c # None
  /\ row' = [row EXCEPT ![c] = None]
  /\ proc' = [proc EXCEPT ![p] = IF left = {} THEN AfterPass(proc[p])
                                 ELSE [proc[p] EXCEPT !.half = None, !.todo = left]]
  /\ UNCHANGED <<tallyVars, lifeVars, runs, days>>

(* recordUploaded: one upsert per chapter                                  *)
Record(p, c) ==
  LET left == proc[p].todo \ {c} IN
  /\ proc[p].at = "record" /\ c \in proc[p].todo
  /\ row' = [row EXCEPT ![c] = proc[p].run.ext]
  /\ proc' = [proc EXCEPT ![p] = IF left = {} THEN CatalogueWide(proc[p])
                                 ELSE [proc[p] EXCEPT !.todo = left]]
  /\ UNCHANGED <<tallyVars, lifeVars, runs, days>>

(* markProcessed.  A run another processor marked is gone, and so is the   *)
(* slot for whoever still holds it.                                        *)
Mark(p) ==
  /\ proc[p].at = "mark"
  /\ runs' = IF proc[p].slot = None THEN runs ELSE [runs EXCEPT ![proc[p].slot] = None]
  /\ proc' = [r \in Procs |-> IF r = p THEN Idle
                              ELSE IF proc[r].slot = proc[p].slot THEN [proc[r] EXCEPT !.slot = None]
                              ELSE proc[r]]
  /\ UNCHANGED <<tallyVars, lifeVars, row, days>>

(* The process dies, or a statement throws: the run stays INGESTING.       *)
Crash(p) ==
  /\ proc[p].at # "idle" /\ Upset
  /\ proc' = [proc EXCEPT ![p] = Idle]
  /\ UNCHANGED <<tallyVars, shelf, md, task, tracked, row, runs, days>>

(* The uploader: a removal is written when the chapter is ours.            *)
RemoveChapter(c) ==
  /\ task[c] = "pending"
  /\ task' = [task EXCEPT ![c] = "done"]
  /\ \E to \in Endings :
       md' = [md EXCEPT ![c] = IF @ = "live" /\ c \in Ours THEN to ELSE @]
  /\ UNCHANGED <<tallyVars, shelf, tracked, upsets, row, runs, proc, days>>

(* Operators                                                               *)
OperatorAdds(c) ==
  /\ AddByHand(c) /\ Upset /\ Counted({c})
  /\ UNCHANGED <<shelf, md, task, tracked, row, runs, proc>>

OperatorConfirms(c) ==
  /\ ConfirmNow(c) /\ Upset
  /\ days' = [days EXCEPT ![c] = Confirmations]
  /\ UNCHANGED <<shelf, md, task, tracked, row, runs, proc>>

OperatorClears(c) ==
  /\ misses[c] > 0 /\ Wipe({c}) /\ Upset
  /\ days' = [days EXCEPT ![c] = 0]
  /\ UNCHANGED <<shelf, md, task, tracked, row, runs, proc>>

OperatorTracks(e, to) ==
  /\ tracked[e] # to /\ tracked' = [tracked EXCEPT ![e] = to] /\ Upset
  /\ UNCHANGED <<tallyVars, shelf, md, task, row, runs, proc, days>>

TimePasses(c) ==
  /\ WindowOpens(c)
  /\ UNCHANGED <<lifeVars, row, runs, proc, days>>

ProcStep(p) ==
  \/ \E s \in Slots : Claim(p, s)
  \/ Look(p) \/ Sort(p) \/ Forget(p) \/ Vote(p) \/ VoteFails(p) \/ Unrecord(p) \/ Mark(p)
  \/ \E c \in Chapters : Queue(p, c) \/ Record(p, c)

CatalogueNext ==
  \/ \E p \in Procs : ProcStep(p) \/ Crash(p)
  \/ \E c \in Chapters, to \in Shelves : Shelve(c, to)
  \/ \E s \in Slots, e \in Exts, kind \in Reports, names \in SUBSET Chapters : Report(s, e, kind, names)
  \/ \E c \in Chapters : RemoveChapter(c) \/ OperatorAdds(c) \/ OperatorConfirms(c) \/ OperatorClears(c) \/ TimePasses(c)
  \/ \E e \in Exts, to \in Standings : OperatorTracks(e, to)

CatalogueSpec == CatalogueInit /\ [][CatalogueNext]_catalogueVars

(* A processor that has a run goes on; time passes.                        *)
CatalogueFairness ==
  /\ \A p \in Procs : WF_catalogueVars(ProcStep(p))
  /\ \A c \in Chapters : WF_catalogueVars(TimePasses(c))
-----------------------------------------------------------------------------
Runs == [ext : Exts, kind : Reports, names : SUBSET Chapters, spent : SUBSET Chapters, tracks : BOOLEAN]
HeldRuns == [ext : Exts, kind : Reports, names : SUBSET Chapters, spent : SUBSET Chapters,
             tracks : BOOLEAN, held : BOOLEAN]

(* Every variable stays in its type, tallies up to the threshold, and a    *)
(* processor has chapters in hand only where it works them off.            *)
CatalogueTypeOK ==
  /\ shelf \in [Chapters -> {"listed", "expired", "dropped"}]
  /\ md \in [Chapters -> {"live", "carded", "gone"}]
  /\ row \in [Chapters -> Exts \cup {None}] /\ task \in [Chapters -> {"none", "pending", "done"}]
  /\ tracked \in [Exts -> {"active", "paused", "none"}]
  /\ runs \in [Slots -> Runs \cup {None}] /\ upsets \in 0..MaxUpsets
  /\ \A p \in Procs :
       /\ proc[p].at \in {"idle", "look", "sort", "forget", "vote", "queue", "record", "mark"}
       /\ proc[p].at \in {"idle", "mark"} \/ proc[p].run \in HeldRuns
       /\ proc[p].todo \subseteq proc[p].seen /\ proc[p].half \in proc[p].todo \cup {None}
       /\ proc[p].todo # {} => proc[p].at \in {"queue", "record"}
  /\ days \in [Chapters -> 0..Confirmations]

(* A removal is voted through on absences of as many different days as     *)
(* REMOVAL_CONFIRMATIONS says, none of them before the last sighting that  *)
(* was recorded, however many runs, replays and processors report it; or   *)
(* an operator said so.                                                    *)
RemovedOnAStreak == [][\A p \in Procs, c \in Chapters :
  c \in proc'[p].todo /\ proc[p].at = "vote" /\ proc'[p].at = "queue" =>
    days'[c] >= Confirmations]_catalogueVars

(* On a title two publishers share, a chapter's removal is decided by a    *)
(* run of the extension that published it, whatever the other one's runs   *)
(* see, and whenever they read uploaded_chapters.                          *)
OwnersDecide == [][\A p \in Procs, c \in Ours :
  task[c] = "none" /\ task'[c] = "pending" /\ proc[p].half = None /\ proc'[p].half = c =>
    proc[p].run.ext = ExtOf[c]]_catalogueVars

(* A removal has grounds: a streak of absences, judged by the publisher    *)
(* whose chapter it is.                                                    *)
RemovalsAreGrounded == RemovedOnAStreak /\ OwnersDecide

(* A chapter of ours is in the books or in the removal queue at every      *)
(* moment, a crash between the two writes included.                        *)
InTheBooks == \A c \in Ours : row[c] = None => task[c] # "none"

(* The state of a title: its types, and a chapter that is always in the    *)
(* books or queued, through every await of the processor.                  *)
CatalogueInv == CatalogueTypeOK /\ InTheBooks

(* A chapter its publisher has dropped for good is queued for removal, as  *)
(* long as its extension goes on sweeping the title and tracking it, and   *)
(* no other extension's run forgets the tally.                             *)
Swept(c) == \E s \in Slots : LET run == runs[s] IN
  IF run = None THEN FALSE
  ELSE /\ run.ext = ExtOf[c] /\ run.names = OnShelf(run.ext)
       /\ run.kind.clean /\ run.kind.complete /\ ~run.kind.failed /\ ~run.kind.scoped
Strayed(c) == \E p \in Procs : proc[p].at = "forget" /\ proc[p].run.ext # ExtOf[c]
IsRemovedOnceRetired(c) ==
  (/\ <>[](shelf[c] = "dropped" /\ tracked[ExtOf[c]] = "active" /\ ~Strayed(c))
   /\ []<>Swept(c))
  => <>(task[c] # "none")
RetiredIsRemoved == \A c \in Ours : IsRemovedOnceRetired(c)

(* A title that the run could not read is held out of every judgement, as  *)
(* envelope.ts says of failedManga: such a run casts no vote.              *)
FailedTitlesAreHeldOut == [][\A p \in Procs :
  proc[p].at = "vote" /\ proc'[p] # proc[p] /\ proc[p].run.held => misses' = misses]_catalogueVars
=============================================================================
