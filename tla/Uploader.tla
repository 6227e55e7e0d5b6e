------------------------------ MODULE Uploader ------------------------------
(***************************************************************************)
(* core-uploader: one process, five drain loops and a house loop over the  *)
(* rows of UploadQueue, writing to MangaDex.                               *)
(*                                                                         *)
(*   drain loops   src/services/uploader.ts: claim, execute, settle; one   *)
(*                 per kind, each on one task at a time                    *)
(*   workers       src/core/md/taskWorkers.ts: what a task of each kind    *)
(*                 does, one action per await that reads or writes state   *)
(*   session lock  src/core/md/sessionLock.ts: FIFO over the stretches     *)
(*                 that hold the account's only upload session             *)
(*   MangaDex      external: chapters, their cards, one upload session     *)
(*                                                                         *)
(* A pause only keeps the loops from claiming, so every safety property    *)
(* below holds of a paused platform too.  Left out: the chapters are ours  *)
(* and external links (no ownership refusals, no images), `force` and      *)
(* cardOnUpload, and the writes other services make to uploaded_chapters.  *)
(***************************************************************************)
EXTENDS UploadQueue, Sequences

CONSTANTS
  Ids,       \* MangaDex chapter ids
  Old,       \* the chapters we uploaded before
  TargetOf,  \* mdChapterId of a payload; irrelevant for UPLOAD
  Allowed,   \* the rare events this instance has, each at most once in a
  Budget,    \* behaviour, and how many of them: bounds of the model
  None

(* overlap    a claim runs between another claim's snapshot and its update *)
(* overrun    a lease lapses under the loop that holds it                  *)
(* crash      the process dies between two awaits                          *)
(* lag        MangaDex commits a chapter and does not show it yet          *)
(* lost       the commit's reply never arrives, or carries no chapter      *)
(* error      another call to MangaDex or to the database throws           *)
(* requeue, remove, renumber   operators and runs                          *)
Events == {"overlap", "overrun", "crash", "lag", "lost", "error",
           "requeue", "remove", "renumber"}

ASSUME UploaderAssumption ==
  /\ Old \subseteq Ids /\ TargetOf \in [Tasks -> Ids]
  /\ Allowed \subseteq Events /\ Budget \in Nat
  /\ None \notin Ids \cup Tasks \cup Kinds \cup Int

VARIABLES
  pc,           \* each loop: the await it is at
  task,         \* the row it has in hand
  got,          \* what it carries between two awaits: a chapter id, or the
                \* round of the marker in the payload it claimed
  turn,         \* UploadSessionLock: holder first, then the waiters
  session,      \* MangaDex: whose upload session is open; "leaked" when the
                \* process that opened it is gone
  md,           \* MangaDex: each chapter
  shown,        \* MangaDex: the chapters its reads return
  landing,      \* MangaDex: chapters with a card committed and no page yet
  madeBy,       \* the UPLOAD row whose commit created the chapter
  committedLog, \* upload_logs: last COMMITTED chapter id of each row
  uploaded,     \* uploaded_chapters
  unavailable,  \* unavailable_chapters
  deleted,      \* deleted_chapters
  spent         \* rare events so far

loopVars    == <<pc, task, got, turn>>
mangadex    == <<session, md, shown, landing, madeBy>>
archiveVars == <<uploaded, unavailable, deleted>>
uploaderVars == <<queueVars, loopVars, mangadex, archiveVars, committedLog, spent>>

Places == {"idle", "claiming", "begin", "queued", "open", "write", "log", "record",
           "archiveGone", "dropUploaded", "dropCard", "archiveCard", "dropLive",
           "uncard", "clear", "defer", "done", "failing"}
ChapterStates == {"none", "live", "carded", "gone"}

UploaderInit ==
  /\ QueueInit
  /\ pc = [k \in Kinds |-> "idle"]
  /\ task = [k \in Kinds |-> None]
  /\ got = [k \in Kinds |-> None]
  /\ turn = <<>> /\ session = None
  /\ md = [i \in Ids |-> IF i \in Old THEN "live" ELSE "none"]
  /\ shown = Old /\ uploaded = Old
  /\ landing = {}
  /\ madeBy = [i \in Ids |-> None]
  /\ committedLog = [t \in Tasks |-> None]
  /\ unavailable = {} /\ deleted = {}
  /\ spent = {}

Spend(e) ==
  /\ e \in Allowed \ spent
  /\ Cardinality(spent) < Budget
  /\ spent' = spent \cup {e}

Visible(i) == i \in shown /\ md[i] \in {"live", "carded"}
Target(k)  == TargetOf[task[k]]
At(k, place) == pc[k] = place
Go(k, place) == pc' = [pc EXCEPT ![k] = place]

(* Mutant: the chain is not awaited.                                       *)
AnyTurn(k) == \E n \in DOMAIN turn : turn[n] = k

MyTurn(k) == turn # <<>> /\ Head(turn) = k

(* Mutant: the lock is not released when the function ends.                *)
ReleaseNothing(k) == k \in Kinds /\ turn' = turn

(* The holder's end lets the next in line go on.                           *)
Release(k) == turn' = IF MyTurn(k) THEN Tail(turn) ELSE turn

KeepQueue    == UNCHANGED queueVars
KeepMangaDex == UNCHANGED mangadex
KeepRecords  == UNCHANGED <<archiveVars, committedLog>>
KeepHands    == UNCHANGED <<task, got, turn>>

-----------------------------------------------------------------------------
(* The drain loops                                                         *)

(* Of the payload, the worker looks at the marker cardVerify only.         *)
Payload(t) == IF KindOf[t] = "UNAVAILABLE" THEN round[t] ELSE None

ClaimTask(k) ==
  /\ At(k, "idle")
  /\ \E t \in Tasks :
       /\ KindOf[t] = k
       /\ Claim(t)
       /\ task' = [task EXCEPT ![k] = t]
       /\ got'  = [got EXCEPT ![k] = Payload(t)]
  /\ Go(k, "begin")
  /\ KeepMangaDex /\ KeepRecords /\ UNCHANGED <<turn, spent>>

(* Two loops claim at once: under READ COMMITTED neither NOT EXISTS sees   *)
(* the other's row LEASED, and the rows they lock are different ones.      *)
Look(k) ==
  /\ At(k, "idle") /\ Spend("overlap")
  /\ \E t \in Tasks :
       /\ KindOf[t] = k
       /\ Claimable(t)
       /\ task' = [task EXCEPT ![k] = t]
  /\ Go(k, "claiming")
  /\ KeepQueue /\ KeepMangaDex /\ KeepRecords /\ UNCHANGED <<got, turn>>

Take(k) ==
  /\ At(k, "claiming")
  /\ IF tstate[task[k]] = "PENDING" /\ ripe[task[k]]
     THEN /\ TakeLease(task[k])
          /\ got' = [got EXCEPT ![k] = Payload(task[k])]
          /\ Go(k, "begin") /\ UNCHANGED task
     ELSE KeepQueue /\ Go(k, "idle") /\ task' = [task EXCEPT ![k] = None] /\ UNCHANGED got
  /\ KeepMangaDex /\ KeepRecords /\ UNCHANGED <<turn, spent>>

LetGo(k) ==
  /\ Go(k, "idle")
  /\ task' = [task EXCEPT ![k] = None]
  /\ got'  = [got EXCEPT ![k] = None]
  /\ KeepMangaDex /\ KeepRecords /\ UNCHANGED turn

(* completeDone, fail and defer all name the lease: when it was swept,     *)
(* they change nothing and the loop moves on.                              *)
IfHeld(k, settle) == IF tstate[task[k]] = "LEASED" THEN settle ELSE KeepQueue

FinishTask(k) ==
  /\ At(k, "done")
  /\ IfHeld(k, CompleteDone(task[k]))
  /\ LetGo(k) /\ UNCHANGED spent

DeferTask(k) ==
  /\ At(k, "defer")
  /\ IfHeld(k, Defer(task[k], got[k] + 1))
  /\ LetGo(k) /\ UNCHANGED spent

(* When fail itself throws, the loop goes on and the row stays LEASED.     *)
FailTask(k) ==
  /\ At(k, "failing")
  /\ \/ IfHeld(k, Fail(task[k])) /\ UNCHANGED spent
     \/ KeepQueue /\ Spend("error")
  /\ LetGo(k)

-----------------------------------------------------------------------------
(* The upload session                                                      *)

(* UploadSessionLock.run: join the chain ...                               *)
JoinQueue(k) == Go(k, "queued") /\ turn' = Append(turn, k)

(* ... and in its turn, delete whatever session the account has open and   *)
(* begin one (currentUploadSession, deleteUploadSession, create/edit       *)
(* session, beginWithLeakRecovery).                                        *)
OpenSession(k) ==
  /\ At(k, "queued") /\ MyTurn(k)
  /\ session' = k
  /\ Go(k, "open")
  /\ KeepQueue /\ KeepRecords
  /\ UNCHANGED <<md, shown, landing, madeBy, task, got, turn, spent>>

(* Reading, deleting or beginning a session throws: the lock is released,  *)
(* and what was open may be gone, or the new session be open unheard of.   *)
OpenFails(k) ==
  /\ At(k, "queued") /\ MyTurn(k) /\ Spend("error")
  /\ session' \in {session, None, "leaked"}
  /\ Release(k) /\ Go(k, "failing")
  /\ KeepQueue /\ KeepRecords /\ UNCHANGED <<md, shown, landing, madeBy, task, got>>

(* The session ends with the commit, and the lock with the function.       *)
EndSession(k) == session' = None /\ Release(k)

(* Anything thrown under the lock: safeDeleteSession, then the task fails. *)
(* safeDeleteSession may itself fail, and the session stays open.          *)
Abandoned(k) ==
  /\ \/ session' = None
     \/ session' = "leaked"
  /\ Release(k) /\ Go(k, "failing")
  /\ KeepQueue /\ KeepRecords /\ UNCHANGED <<md, shown, landing, madeBy, task, got>>

AbandonSession(k) == At(k, "open") /\ Spend("error") /\ Abandoned(k)

-----------------------------------------------------------------------------
(* UPLOAD                                                                  *)

(* Mutant: the COMMITTED row is not read.                                  *)
NeverThere(t) == FALSE /\ committedLog[t] # None

(* runUpload: the prior commit counts when MangaDex still shows it.        *)
AlreadyThere(t) == committedLog[t] # None /\ Visible(committedLog[t])

BeginUpload ==
  LET k == "UPLOAD" IN
  /\ At(k, "begin")
  /\ \/ /\ AlreadyThere(task[k])
        /\ got' = [got EXCEPT ![k] = committedLog[task[k]]]
        /\ Go(k, "record") /\ UNCHANGED turn
     \/ /\ ~AlreadyThere(task[k])
        /\ JoinQueue(k) /\ UNCHANGED got
  /\ KeepQueue /\ KeepMangaDex /\ KeepRecords /\ UNCHANGED <<task, spent>>

NewChapter(k, i) ==
  /\ md[i] = "none"
  /\ md' = [md EXCEPT ![i] = "live"]
  /\ madeBy' = [madeBy EXCEPT ![i] = task[k]]
  /\ EndSession(k)
  /\ UNCHANGED landing

(* commitUploadSession.                                                    *)
CommitUpload ==
  LET k == "UPLOAD" IN
  /\ At(k, "open") /\ session = k
  /\ \E i \in Ids :
       /\ NewChapter(k, i)
       /\ got' = [got EXCEPT ![k] = i]
       /\ \/ shown' = shown \cup {i} /\ UNCHANGED spent
          \/ UNCHANGED shown /\ Spend("lag")
  /\ Go(k, "log")
  /\ KeepQueue /\ KeepRecords /\ UNCHANGED task

(* The chapter exists and we do not learn its id: the reply is lost and    *)
(* the call throws, or it is a 2xx that carries no chapter.                *)
CommitUnheard ==
  LET k == "UPLOAD" IN
  /\ At(k, "open") /\ session = k /\ Spend("lost")
  /\ \E i \in Ids : NewChapter(k, i) /\ shown' = shown \cup {i}
  /\ \E place \in {"failing", "log"} : Go(k, place)
  /\ KeepQueue /\ KeepRecords /\ UNCHANGED <<task, got>>

(* upload_logs COMMITTED.  A row without an id is not found by the next    *)
(* attempt (NOT mdChapterId null), and nothing is recorded.                *)
LogCommit ==
  LET k == "UPLOAD" IN
  /\ At(k, "log")
  /\ committedLog' = IF got[k] = None THEN committedLog
                     ELSE [committedLog EXCEPT ![task[k]] = got[k]]
  /\ Go(k, IF got[k] = None THEN "done" ELSE "record")
  /\ KeepQueue /\ KeepMangaDex /\ KeepHands /\ UNCHANGED <<archiveVars, spent>>

(* The COMMITTED row cannot be written: to the retry it is a crash.        *)
LogFails ==
  LET k == "UPLOAD" IN
  /\ At(k, "log") /\ Spend("crash") /\ Go(k, "failing")
  /\ KeepQueue /\ KeepMangaDex /\ KeepRecords /\ KeepHands

(* recordUploadedChapter, after an upload, an edit or a restore.           *)
Record(k) ==
  /\ At(k, "record")
  /\ uploaded' = uploaded \cup {got[k]}
  /\ Go(k, "done")
  /\ KeepQueue /\ KeepMangaDex /\ KeepHands
  /\ UNCHANGED <<unavailable, deleted, committedLog, spent>>

-----------------------------------------------------------------------------
(* EDIT and DELETE, which open no session                                  *)

BeginEdit ==
  LET k == "EDIT" IN
  /\ At(k, "begin")
  /\ Go(k, IF Visible(Target(k)) THEN "write" ELSE "failing")
  /\ KeepQueue /\ KeepMangaDex /\ KeepRecords /\ KeepHands /\ UNCHANGED spent

(* editChapter changes fields that are not modelled; then appendEdit.      *)
WriteEdit ==
  LET k == "EDIT" IN
  /\ At(k, "write")
  /\ IF Visible(Target(k))
     THEN got' = [got EXCEPT ![k] = Target(k)] /\ Go(k, "record")
     ELSE UNCHANGED got /\ Go(k, "failing")
  /\ KeepQueue /\ KeepMangaDex /\ KeepRecords /\ UNCHANGED <<task, turn, spent>>

BeginDelete ==
  LET k == "DELETE" IN
  /\ At(k, "begin")
  /\ Go(k, IF Visible(Target(k)) THEN "write" ELSE "archiveGone")
  /\ KeepQueue /\ KeepMangaDex /\ KeepRecords /\ KeepHands /\ UNCHANGED spent

(* deleteChapter; a 404 is a success too, and its reply may be lost.       *)
WriteDelete ==
  LET k == "DELETE" IN
  /\ At(k, "write")
  /\ md' = [md EXCEPT ![Target(k)] = "gone"]
  /\ landing' = landing \ {Target(k)}
  /\ \/ Go(k, "archiveGone") /\ UNCHANGED spent
     \/ Go(k, "failing") /\ Spend("error")
  /\ KeepQueue /\ KeepRecords /\ KeepHands /\ UNCHANGED <<session, shown, madeBy>>

(* archiveDeleted, three statements.                                       *)
ArchiveGone(k) ==
  /\ At(k, "archiveGone")
  /\ deleted' = deleted \cup {Target(k)}
  /\ Go(k, "dropUploaded")
  /\ KeepQueue /\ KeepMangaDex /\ KeepHands
  /\ UNCHANGED <<uploaded, unavailable, committedLog, spent>>

DropUploaded(k) ==
  /\ At(k, "dropUploaded")
  /\ uploaded' = uploaded \ {Target(k)}
  /\ Go(k, "dropCard")
  /\ KeepQueue /\ KeepMangaDex /\ KeepHands
  /\ UNCHANGED <<unavailable, deleted, committedLog, spent>>

(* Mutant: only the uploaded archive is cleared.                           *)
DropNoCard(k) ==
  /\ At(k, "dropCard") /\ Go(k, "done")
  /\ KeepQueue /\ KeepMangaDex /\ KeepHands
  /\ UNCHANGED <<uploaded, unavailable, deleted, committedLog, spent>>

DropCard(k) ==
  /\ At(k, "dropCard")
  /\ unavailable' = unavailable \ {Target(k)}
  /\ Go(k, "done")
  /\ KeepQueue /\ KeepMangaDex /\ KeepHands
  /\ UNCHANGED <<uploaded, deleted, committedLog, spent>>

-----------------------------------------------------------------------------
(* UNAVAILABLE                                                             *)

(* runUnavailable without the marker.                                      *)
BeginCard ==
  LET k == "UNAVAILABLE" IN
  /\ At(k, "begin") /\ got[k] = 0
  /\ \/ ~Visible(Target(k)) /\ Go(k, "archiveGone") /\ UNCHANGED turn
     \/ Visible(Target(k)) /\ md[Target(k)] = "carded" /\ Go(k, "archiveCard") /\ UNCHANGED turn
     \/ Visible(Target(k)) /\ md[Target(k)] = "live" /\ JoinQueue(k)
  /\ KeepQueue /\ KeepMangaDex /\ KeepRecords /\ UNCHANGED <<task, got, spent>>

(* The commit is accepted; whether and when its page appears is MangaDex's *)
(* affair (see Land).  The task comes back to look, if it hears of it.     *)
CommitCard ==
  LET k == "UNAVAILABLE" IN
  /\ At(k, "open") /\ session = k /\ md[Target(k)] # "gone"
  /\ landing' = landing \cup {Target(k)}
  /\ EndSession(k)
  /\ \/ Go(k, "defer") /\ UNCHANGED spent
     \/ Go(k, "failing") /\ Spend("error")
  /\ KeepQueue /\ KeepRecords /\ UNCHANGED <<md, shown, madeBy, task, got>>

(* Mutant: the delays are counted from one, and a round too many is made.  *)
AnotherRoundAndOne(r) == r <= Rounds

(* CARD_VERIFY_DELAYS_SECONDS[round]: is there a later look?               *)
AnotherRound(r) == r < Rounds

(* verifyCard: a claim of a row that carries the marker.                   *)
VerifyCard ==
  LET k == "UNAVAILABLE"  r == got[k] IN
  /\ At(k, "begin") /\ r > 0
  /\ \/ ~Visible(Target(k)) /\ Go(k, "archiveGone")
     \/ Visible(Target(k)) /\ md[Target(k)] = "carded" /\ Go(k, "archiveCard")
     \/ Visible(Target(k)) /\ md[Target(k)] = "live" /\ AnotherRound(r) /\ Go(k, "defer")
     \/ Visible(Target(k)) /\ md[Target(k)] = "live" /\ ~AnotherRound(r) /\ Go(k, "clear")
  /\ KeepQueue /\ KeepMangaDex /\ KeepRecords /\ KeepHands /\ UNCHANGED spent

(* The marker comes off before the task fails, so the retry cards again.   *)
ClearMarker ==
  LET k == "UNAVAILABLE" IN
  /\ At(k, "clear")
  /\ ClearVerifyState(task[k])
  /\ Go(k, "failing")
  /\ KeepMangaDex /\ KeepRecords /\ KeepHands /\ UNCHANGED spent

(* archiveUnavailable, two statements.                                     *)
ArchiveCard(k) ==
  /\ At(k, "archiveCard")
  /\ unavailable' = unavailable \cup {Target(k)}
  /\ Go(k, "dropLive")
  /\ KeepQueue /\ KeepMangaDex /\ KeepHands
  /\ UNCHANGED <<uploaded, deleted, committedLog, spent>>

DropLive(k) ==
  /\ At(k, "dropLive")
  /\ uploaded' = uploaded \ {Target(k)}
  /\ Go(k, "done")
  /\ KeepQueue /\ KeepMangaDex /\ KeepHands
  /\ UNCHANGED <<unavailable, deleted, committedLog, spent>>

-----------------------------------------------------------------------------
(* RESTORE                                                                 *)

BeginRestore ==
  LET k == "RESTORE" IN
  /\ At(k, "begin")
  /\ \/ ~Visible(Target(k)) /\ Go(k, "done") /\ UNCHANGED turn
     \/ Visible(Target(k)) /\ md[Target(k)] = "live" /\ Go(k, "uncard") /\ UNCHANGED turn
     \/ Visible(Target(k)) /\ md[Target(k)] = "carded" /\ JoinQueue(k)
  /\ KeepQueue /\ KeepMangaDex /\ KeepRecords /\ UNCHANGED <<task, got, spent>>

(* Commit without pages, repoint the link, and read the chapter back under *)
(* the lock: the task goes on only when the page is seen to be gone.       *)
CommitRestore ==
  LET k == "RESTORE" IN
  /\ At(k, "open") /\ session = k /\ md[Target(k)] # "gone"
  /\ md' = [md EXCEPT ![Target(k)] = "live"]
  /\ landing' = landing \ {Target(k)}
  /\ EndSession(k)
  /\ \/ Go(k, "uncard") /\ UNCHANGED spent
     \/ Go(k, "failing") /\ Spend("error")
  /\ KeepQueue /\ KeepRecords /\ UNCHANGED <<shown, madeBy, task, got>>

(* archiveRestored, first statement; the second is Record.                 *)
Uncard ==
  LET k == "RESTORE" IN
  /\ At(k, "uncard")
  /\ unavailable' = unavailable \ {Target(k)}
  /\ got' = [got EXCEPT ![k] = Target(k)]
  /\ Go(k, "record")
  /\ KeepQueue /\ KeepMangaDex
  /\ UNCHANGED <<uploaded, deleted, committedLog, task, turn, spent>>

(* The session was begun on a chapter that is gone by now.                 *)
CommitRefused(k) ==
  /\ k \in {"UNAVAILABLE", "RESTORE"} /\ At(k, "open")
  /\ md[Target(k)] = "gone"
  /\ Abandoned(k) /\ UNCHANGED spent

(* Any other await of a worker, or the settling update of drain, throws.   *)
Break(k) ==
  /\ pc[k] \in {"begin", "write", "record", "archiveGone", "dropUploaded", "dropCard",
                "archiveCard", "dropLive", "uncard", "clear", "done", "defer"}
  /\ Spend("error") /\ Go(k, "failing")
  /\ KeepQueue /\ KeepMangaDex /\ KeepRecords /\ KeepHands

-----------------------------------------------------------------------------
(* Producers, operators, MangaDex, time and crashes                        *)

(* A row about a chapter of MangaDex is made from a chapter seen there.    *)
Known(t) == KindOf[t] = "UPLOAD" \/ md[TargetOf[t]] # "none"

KeepProcess == UNCHANGED <<loopVars, mangadex, archiveVars, committedLog>>

Produce(t) == Known(t) /\ Enqueue(t) /\ KeepProcess /\ UNCHANGED spent

Operate(t) ==
  /\ Known(t)
  /\ \/ Spend("requeue") /\ (Requeue(t) \/ Retry(t) \/ Postpone(t))
     \/ Spend("remove") /\ (Abandon(t) \/ \E completed \in BOOLEAN : Remove(t, completed))
  /\ KeepProcess

Report(s) ==
  /\ Spend("renumber")
  /\ \E keep \in SUBSET InScope(s) : SupersedeRenumbered(s, keep)
  /\ KeepProcess

InHand(t) == \E k \in Kinds : task[k] = t /\ pc[k] # "claiming"

(* LEASE_TTL_SECONDS: the lease of a dead process lapses, and so may that  *)
(* of a task that waits for the session or uploads for longer than that.   *)
Lapse(t) ==
  /\ LeaseLapses(t)
  /\ IF InHand(t) THEN Spend("overrun") ELSE UNCHANGED spent
  /\ KeepProcess

Sweep == SweepExpired /\ KeepProcess /\ UNCHANGED spent
Due(t) == FallsDue(t) /\ KeepProcess /\ UNCHANGED spent

Show(i) ==
  /\ md[i] # "none" /\ i \notin shown
  /\ shown' = shown \cup {i}
  /\ KeepQueue /\ KeepRecords
  /\ UNCHANGED <<session, md, landing, madeBy, loopVars, spent>>

Land(i) ==
  /\ i \in landing
  /\ landing' = landing \ {i}
  /\ md' = [md EXCEPT ![i] = "carded"]
  /\ KeepQueue /\ KeepRecords /\ UNCHANGED <<session, shown, madeBy, loopVars, spent>>

(* The process dies, and its successor starts with empty hands.  The rows  *)
(* stay LEASED and an open session stays open.                             *)
Crash ==
  /\ \E k \in Kinds : pc[k] # "idle"
  /\ Spend("crash")
  /\ pc' = [k \in Kinds |-> "idle"]
  /\ task' = [k \in Kinds |-> None]
  /\ got' = [k \in Kinds |-> None]
  /\ turn' = <<>>
  /\ session' = IF session = None THEN None ELSE "leaked"
  /\ KeepQueue /\ KeepRecords /\ UNCHANGED <<md, shown, landing, madeBy>>

-----------------------------------------------------------------------------
UploadStep == BeginUpload \/ CommitUpload \/ CommitUnheard \/ LogCommit \/ LogFails
EditStep == BeginEdit \/ WriteEdit
DeleteStep == BeginDelete \/ WriteDelete
CardStep == BeginCard \/ CommitCard \/ VerifyCard \/ ClearMarker
RestoreStep == BeginRestore \/ CommitRestore \/ Uncard
WorkerStep(k) ==
  \/ Record(k) \/ ArchiveGone(k) \/ DropUploaded(k) \/ DropCard(k)
  \/ ArchiveCard(k) \/ DropLive(k)
  \/ OpenSession(k) \/ OpenFails(k) \/ AbandonSession(k) \/ CommitRefused(k) \/ Break(k)
LoopStep(k) ==
  ClaimTask(k) \/ Look(k) \/ Take(k) \/ FinishTask(k) \/ FailTask(k) \/ DeferTask(k)
TaskStep(t) == Produce(t) \/ Operate(t) \/ Lapse(t) \/ Due(t)
MangaDexStep(i) == Show(i) \/ Land(i)

UploaderNext ==
  \/ \E k \in Kinds : LoopStep(k) \/ WorkerStep(k)
  \/ UploadStep \/ EditStep \/ DeleteStep \/ CardStep \/ RestoreStep
  \/ \E t \in Tasks : TaskStep(t)
  \/ \E s \in Scopes : Report(s)
  \/ \E i \in Ids : MangaDexStep(i)
  \/ Sweep \/ Crash

UploaderSpec == UploaderInit /\ [][UploaderNext]_uploaderVars

(* Every loop goes on, the house loop sweeps, and time passes.  Nothing is *)
(* assumed of MangaDex: a card may never land.                             *)
UploaderFairness ==
  /\ \A k \in Kinds : WF_uploaderVars(LoopStep(k) \/ WorkerStep(k))
  /\ WF_uploaderVars(UploadStep) /\ WF_uploaderVars(EditStep) /\ WF_uploaderVars(DeleteStep)
  /\ WF_uploaderVars(CardStep) /\ WF_uploaderVars(RestoreStep)
  /\ \A t \in Tasks : WF_uploaderVars(Due(t)) /\ WF_uploaderVars(Lapse(t) /\ ~InHand(t))
  /\ WF_uploaderVars(Sweep)

FairUploaderSpec == UploaderSpec /\ UploaderFairness
-----------------------------------------------------------------------------
(* Properties                                                              *)

UploaderTypeOK ==
  /\ QueueTypeOK
  /\ pc \in [Kinds -> Places] /\ task \in [Kinds -> Tasks \cup {None}]
  /\ got \in [Kinds -> Ids \cup (0..Rounds) \cup {None}]
  /\ session \in Kinds \cup {None, "leaked"}
  /\ md \in [Ids -> ChapterStates] /\ shown \subseteq Ids
  /\ madeBy \in [Ids -> Tasks \cup {None}]
  /\ committedLog \in [Tasks -> Ids \cup {None}]
  /\ uploaded \cup unavailable \cup deleted \cup landing \subseteq Ids

(* The session a worker puts pages into is its own until it commits or     *)
(* gives up: nobody deletes it as a leftover (sessionLock.ts:13-17), also  *)
(* when leases lapse, claims overlap or the process dies and comes back.   *)
OneSession == \A k \in Kinds : At(k, "open") => session = k

(* The uploader's types, and the one session of the account.               *)
UploaderInv == UploaderTypeOK /\ OneSession

(* One upload row makes one chapter.  Every further copy is owed to a      *)
(* commit we did not get to hear of or to write down, or to one MangaDex   *)
(* did not show when the next attempt asked; never to a lapsed lease, an   *)
(* overlapping claim, a retry, or an operator who deletes a DONE row.      *)
Copies(t) == {i \in Ids : madeBy[i] = t /\ md[i] # "gone"}

CopiesArePaidFor ==
  \A t \in Tasks :
    Cardinality(Copies(t)) <= 1 + Cardinality(spent \cap {"crash", "lost", "lag"})

(* Two loops are never at work on the same publisher chapter.  It needs    *)
(* claims that do not overlap and leases that outlive their task.          *)
OneWorkerPerScope ==
  \A k, l \in Kinds :
    k # l /\ task[k] # None /\ task[l] # None /\ InHand(task[k]) /\ InHand(task[l])
      => ScopeOf[task[k]] # ScopeOf[task[l]]

IdsOf(s) == {TargetOf[t] : t \in {u \in InScope(s) : KindOf[u] # "UPLOAD"}}
              \cup {i \in Ids : madeBy[i] \in InScope(s)}

(* Nothing about the chapter is queued, at work, or dead-lettered.         *)
Quiet(s) ==
  /\ \A t \in InScope(s) : tstate[t] \in {"ABSENT", "DONE"}
  /\ \A k \in Kinds : task[k] \notin InScope(s)

(* When all is done, the archives say what MangaDex has: what is gone is   *)
(* archived as deleted and nowhere else, and what is archived as           *)
(* unavailable is what carries a card.  Every archive is written in        *)
(* several statements, by several kinds of task, and each may die in       *)
(* between.  A carded chapter may also be in `uploaded`: an edit of the    *)
(* card leaves it there, whatever taskWorkers.ts:906 says.                 *)
ArchivesAgree ==
  \A s \in Scopes : Quiet(s) =>
    \A i \in IdsOf(s) :
      /\ i \in deleted     <=> md[i] = "gone"
      /\ i \in unavailable <=> md[i] = "carded"
      /\ i \in uploaded     => md[i] # "gone"

(* Every row is worked off or dead-lettered in the end: deferrals and      *)
(* attempts are finite, every lease is given back or swept, and the        *)
(* session lock is FIFO.                                                   *)
EveryTaskSettles ==
  \A t \in Tasks : tstate[t] = "PENDING" ~> tstate[t] \in Settled \cup {"ABSENT"}
=============================================================================
