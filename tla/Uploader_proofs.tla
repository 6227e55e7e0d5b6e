-------------------------- MODULE Uploader_proofs ---------------------------
(***************************************************************************)
(* Proofs about the uploader, for any rows, chapters and bounds and any of *)
(* the rare events: the account's one upload session, what the copies of a *)
(* chapter are owed to, and, when claims do not overlap and leases outlive *)
(* their tasks, one worker per publisher chapter, and archives that agree  *)
(* with MangaDex when it is done.                                          *)
(***************************************************************************)
EXTENDS Uploader, UploadQueue_proofs, FiniteSetTheorems

(* What a loop has in hand suits the await it is at.                       *)
Fits(k) ==
  /\ task[k] = None <=> pc[k] = "idle"
  /\ task[k] # None => KindOf[task[k]] = k
  /\ pc[k] = "claiming" => tries[task[k]] < ClaimBound
  /\ pc[k] = "record" => got[k] \in Ids
  /\ pc[k] = "defer" => got[k] \in 0..(Rounds - 1)
  /\ k = "UPLOAD" => got[k] \in Ids \cup {None}
  /\ k = "UNAVAILABLE" /\ pc[k] = "begin" => got[k] \in 0..Rounds
  /\ k = "UNAVAILABLE" /\ pc[k] \in {"queued", "open"} => got[k] = 0

HandsFit == \A k \in Kinds : Fits(k)

(* Who has a session open is first in line, and it is his.                 *)
SessionHeld ==
  /\ turn \in Seq(Kinds)
  /\ \A k \in Kinds : At(k, "open") => MyTurn(k) /\ session = k

(* Chapters that we made are there or gone, and no card lands on a chapter *)
(* that is gone.                                                           *)
ChaptersLast ==
  /\ \A i \in Ids : madeBy[i] # None => md[i] # "none"
  /\ \A i \in landing : md[i] # "gone"

(* Excuses: what may cost a copy.  As long as a row has no more copies     *)
(* than that, nothing follows; when it has one more, the next attempt will *)
(* find the one that is written down, and a loop that is about to commit   *)
(* has seen that there is none.                                            *)
Excused == Cardinality(spent \cap {"crash", "lost", "lag"})

CopiesKnown ==
  /\ IsFiniteSet(spent)
  /\ \A t \in Tasks :
       /\ IsFiniteSet(Copies(t))
       /\ Cardinality(Copies(t)) <= 1 + Excused
       /\ At("UPLOAD", "queued") \/ At("UPLOAD", "open") =>
            (task["UPLOAD"] = t => Cardinality(Copies(t)) <= Excused)
       /\ Cardinality(Copies(t)) > Excused =>
            (IF task["UPLOAD"] = t /\ At("UPLOAD", "log") THEN got["UPLOAD"] ELSE committedLog[t])
              \in Copies(t) \cap shown

UInv == UploaderTypeOK /\ HandsFit /\ SessionHeld /\ ChaptersLast /\ CopiesKnown

LEMMA InHandIsKnown ==
  ASSUME UInv, NEW k \in Kinds, pc[k] # "idle"
  PROVE  task[k] \in Tasks /\ task[k] # None /\ KindOf[task[k]] = k /\ Target(k) \in Ids /\ Target(k) # None
  BY UploaderAssumption DEF UInv, UploaderTypeOK, HandsFit, Fits, Target

-----------------------------------------------------------------------------
(* The rows                                                                *)

(* An overlapping claim: the row is leased, whatever its rivals are.       *)
OverlapClaim(t) == tstate[t] = "PENDING" /\ ripe[t] /\ tries[t] < ClaimBound /\ TakeLease(t)

(* The process drives the queue by its statements, and by claims that may  *)
(* overlap.                                                                *)
LEMMA QueueSteps ==
  ASSUME UInv, UploaderNext
  PROVE  [QueueNext]_queueVars \/ \E k \in Kinds : At(k, "claiming") /\ OverlapClaim(task[k])
<1> USE DEF DrainStep, ProducerStep, OperatorStep
<1>1. ASSUME NEW k \in Kinds, LoopStep(k)
      PROVE  [QueueNext]_queueVars \/ \E l \in Kinds : At(l, "claiming") /\ OverlapClaim(task[l])
  <2>1. CASE ClaimTask(k)
    BY <2>1 DEF ClaimTask, QueueNext
  <2>2. CASE Look(k)
    BY <2>2 DEF Look, KeepQueue
  <2>3. CASE Take(k)
    BY <2>3 DEF Take, KeepQueue, OverlapClaim, UInv, HandsFit, Fits, At
  <2>4. CASE FinishTask(k)
    BY <2>4, InHandIsKnown DEF FinishTask, At, IfHeld, KeepQueue, QueueNext
  <2>5. CASE DeferTask(k)
    <3>1. got[k] + 1 \in 1..Rounds
      BY <2>5, QueueAssumption DEF DeferTask, At, UInv, HandsFit, Fits
    <3> QED
      BY <2>5, <3>1, InHandIsKnown DEF DeferTask, At, IfHeld, KeepQueue, QueueNext
  <2>6. CASE FailTask(k)
    BY <2>6, InHandIsKnown DEF FailTask, At, IfHeld, KeepQueue, QueueNext
  <2> QED
    BY <1>1, <2>1, <2>2, <2>3, <2>4, <2>5, <2>6 DEF LoopStep
<1>2. ASSUME NEW k \in Kinds, WorkerStep(k) PROVE UNCHANGED queueVars
  BY <1>2 DEF WorkerStep, Record, ArchiveGone, DropUploaded, DropCard, ArchiveCard, DropLive, OpenSession,
     OpenFails, AbandonSession, CommitRefused, Abandoned, Break, KeepQueue
<1>3. CASE UploadStep \/ EditStep \/ DeleteStep \/ RestoreStep
  BY <1>3 DEF UploadStep, BeginUpload, CommitUpload, CommitUnheard, LogCommit, LogFails, EditStep, BeginEdit,
     WriteEdit, DeleteStep, BeginDelete, WriteDelete, RestoreStep, BeginRestore, CommitRestore, Uncard, KeepQueue
<1>4. CASE CardStep
  <2>1. CASE ClearMarker
    BY <2>1, InHandIsKnown DEF ClearMarker, At, QueueNext, Kinds
  <2> QED
    BY <1>4, <2>1 DEF CardStep, BeginCard, CommitCard, VerifyCard, KeepQueue
<1>5. CASE \E t \in Tasks : TaskStep(t)
  BY <1>5 DEF TaskStep, Produce, Operate, Lapse, Due, QueueNext
<1>6. CASE \E s \in Scopes : Report(s)
  BY <1>6 DEF Report, QueueNext
<1>7. CASE (\E i \in Ids : MangaDexStep(i)) \/ Sweep \/ Crash
  BY <1>7 DEF MangaDexStep, Show, Land, Sweep, Crash, KeepQueue, QueueNext
<1> QED
  BY <1>1, <1>2, <1>3, <1>4, <1>5, <1>6, <1>7 DEF UploaderNext

(* Only a lease costs an attempt.                                          *)
LEMMA OthersCostNothing ==
  ASSUME QueueTypeOK,
         \/ SweepExpired \/ UNCHANGED queueVars \/ \E gone : Deleted(gone)
         \/ \E u \in Tasks :
              \/ ProducerStep(u) \/ OperatorStep(u) \/ FallsDue(u) \/ LeaseLapses(u)
              \/ CompleteDone(u) \/ Fail(u) \/ ClearVerifyState(u) \/ \E r : Defer(u, r)
  PROVE  \A t \in Tasks : tries'[t] <= tries[t]
<1> USE QueueAssumption DEF QueueTypeOK
<1>1. \A t \in Tasks : tries[t] \in Nat
  OBVIOUS
<1>2. ASSUME NEW gone, Deleted(gone) PROVE \A t \in Tasks : tries'[t] <= tries[t]
  BY <1>1, <1>2 DEF Deleted
<1>3. ASSUME NEW u \in Tasks, \/ Enqueue(u) \/ Requeue(u) \/ CompleteDone(u) \/ Fail(u) \/ ClearVerifyState(u)
                             \/ Retry(u) \/ Abandon(u) \/ Postpone(u) \/ FallsDue(u) \/ LeaseLapses(u)
      PROVE  \A t \in Tasks : tries'[t] <= tries[t]
  BY <1>1, <1>3 DEF Enqueue, Requeue, Queued, CompleteDone, Fail, FailAgain, FailForGood, ClearVerifyState,
     Retry, Abandon, Postpone, FallsDue, LeaseLapses
<1>4. ASSUME NEW u \in Tasks, NEW r, Defer(u, r) PROVE \A t \in Tasks : tries'[t] <= tries[t]
  BY <1>1, <1>4 DEF Defer, Handed
<1>5. CASE SweepExpired \/ UNCHANGED queueVars
  <2>1. UNCHANGED tries
    BY <1>5 DEF SweepExpired, queueVars
  <2> QED
    BY <1>1, <2>1
<1> QED
  BY <1>2, <1>3, <1>4, <1>5 DEF ProducerStep, OperatorStep, Remove

LEMMA RowsKept ==
  ASSUME UInv, UploaderNext
  PROVE  QueueTypeOK'
<1>1. QueueTypeOK
  BY DEF UInv, UploaderTypeOK
<1>2. ASSUME NEW k \in Kinds, At(k, "claiming") PROVE task[k] \in Tasks
  BY <1>2, InHandIsKnown DEF At
<1>3. ASSUME NEW t \in Tasks, OverlapClaim(t) PROVE QueueTypeOK'
  BY <1>1, <1>3, LeaseTypes DEF OverlapClaim
<1> QED
  BY <1>1, <1>2, <1>3, QueueSteps, QueueTypesKept

-----------------------------------------------------------------------------
(* The types                                                               *)

Gots == Ids \cup (0..Rounds) \cup {None}

LEMMA Types ==
  UInv => /\ pc \in [Kinds -> Places] /\ task \in [Kinds -> Tasks \cup {None}] /\ got \in [Kinds -> Gots]
          /\ session \in Kinds \cup {None, "leaked"} /\ md \in [Ids -> ChapterStates] /\ shown \subseteq Ids
          /\ madeBy \in [Ids -> Tasks \cup {None}] /\ committedLog \in [Tasks -> Ids \cup {None}]
          /\ uploaded \subseteq Ids /\ unavailable \subseteq Ids /\ deleted \subseteq Ids /\ landing \subseteq Ids
          /\ QueueTypeOK
  BY DEF UInv, UploaderTypeOK, Gots

LEMMA TypesOf ==
  ASSUME pc' \in [Kinds -> Places], task' \in [Kinds -> Tasks \cup {None}], got' \in [Kinds -> Gots],
         session' \in Kinds \cup {None, "leaked"}, md' \in [Ids -> ChapterStates], shown' \subseteq Ids,
         madeBy' \in [Ids -> Tasks \cup {None}], committedLog' \in [Tasks -> Ids \cup {None}],
         uploaded' \subseteq Ids, unavailable' \subseteq Ids, deleted' \subseteq Ids, landing' \subseteq Ids,
         QueueTypeOK'
  PROVE  UploaderTypeOK'
  BY DEF UploaderTypeOK, Gots

LEMMA GoTypes ==
  ASSUME UInv, NEW k, NEW place \in Places, Go(k, place)
  PROVE  pc' \in [Kinds -> Places]
  BY Types DEF Go

LEMMA TypesKept == ASSUME UInv, UploaderNext PROVE UploaderTypeOK'
<1> USE Types, UploaderAssumption, TypesOf DEF KeepMangaDex, KeepRecords, KeepHands, mangadex, archiveVars
<1>0. QueueTypeOK'
  BY RowsKept
<1>1. \A t \in Tasks : Payload(t) \in Gots
  BY DEF Payload, Gots, QueueTypeOK
<1>2. ASSUME NEW k \in Kinds, LoopStep(k) PROVE UploaderTypeOK'
  <2>1. CASE ClaimTask(k)
    BY <1>0, <1>1, <2>1, GoTypes DEF ClaimTask, Places
  <2>2. CASE Look(k)
    BY <1>0, <2>2, GoTypes DEF Look, Places
  <2>3. CASE Take(k)
    BY <1>0, <1>1, <2>3, InHandIsKnown, GoTypes DEF Take, Places, At
  <2>4. CASE LetGo(k)
    <3>1. None \in Gots
      BY DEF Gots
    <3> QED
      BY <1>0, <2>4, <3>1, GoTypes DEF LetGo, Places
  <2> QED
    BY <1>2, <2>1, <2>2, <2>3, <2>4 DEF LoopStep, FinishTask, DeferTask, FailTask
<1>3. ASSUME NEW k \in Kinds, WorkerStep(k) PROVE UploaderTypeOK'
  <2>1. CASE Record(k)
    <3>1. got[k] \in Ids
      BY <2>1 DEF Record, At, UInv, HandsFit, Fits
    <3> QED
      BY <1>0, <2>1, <3>1, GoTypes DEF Record, Places
  <2>2. CASE ArchiveGone(k) \/ DropUploaded(k) \/ DropCard(k) \/ ArchiveCard(k) \/ DropLive(k)
    <3>1. Target(k) \in Ids
      BY <2>2, InHandIsKnown DEF ArchiveGone, DropUploaded, DropCard, ArchiveCard, DropLive, At
    <3> QED
      BY <1>0, <2>2, <3>1, GoTypes DEF ArchiveGone, DropUploaded, DropCard, ArchiveCard, DropLive, Places
  <2>3. CASE OpenSession(k)
    BY <1>0, <2>3, GoTypes DEF OpenSession, Places
  <2>4. CASE OpenFails(k) \/ AbandonSession(k) \/ CommitRefused(k)
    BY <1>0, <2>4, GoTypes DEF OpenFails, AbandonSession, CommitRefused, Abandoned, Places
  <2>5. CASE Break(k)
    BY <1>0, <2>5, GoTypes DEF Break, Places
  <2> QED
    BY <1>3, <2>1, <2>2, <2>3, <2>4, <2>5 DEF WorkerStep
<1>4. CASE UploadStep
  <2> USE DEF Kinds
  <2>1. CASE BeginUpload
    BY <1>0, <2>1, GoTypes, InHandIsKnown DEF BeginUpload, AlreadyThere, At, JoinQueue, Places, Gots
  <2>2. CASE CommitUpload \/ CommitUnheard
    BY <1>0, <2>2, GoTypes, InHandIsKnown DEF CommitUpload, CommitUnheard, NewChapter, EndSession, At, Places,
       Gots, ChapterStates
  <2>3. CASE LogCommit
    <3>1. got["UPLOAD"] \in Ids \cup {None} /\ task["UPLOAD"] \in Tasks
      BY <2>3, InHandIsKnown DEF LogCommit, At, UInv, HandsFit, Fits
    <3> QED
      BY <1>0, <2>3, <3>1, GoTypes DEF LogCommit, Places
  <2>4. CASE LogFails
    BY <1>0, <2>4, GoTypes DEF LogFails, Places
  <2> QED
    BY <1>4, <2>1, <2>2, <2>3, <2>4 DEF UploadStep
<1>5. CASE EditStep \/ DeleteStep
  <2> USE DEF Kinds
  <2>1. CASE BeginEdit \/ BeginDelete
    BY <1>0, <2>1, GoTypes DEF BeginEdit, BeginDelete, Places
  <2>2. CASE WriteEdit
    BY <1>0, <2>2, GoTypes, InHandIsKnown DEF WriteEdit, At, Places, Gots
  <2>3. CASE WriteDelete
    BY <1>0, <2>3, GoTypes, InHandIsKnown DEF WriteDelete, At, Places, ChapterStates
  <2> QED
    BY <1>5, <2>1, <2>2, <2>3 DEF EditStep, DeleteStep
<1>6. CASE CardStep
  <2> USE DEF Kinds
  <2>1. CASE BeginCard \/ VerifyCard \/ ClearMarker
    BY <1>0, <2>1, GoTypes DEF BeginCard, VerifyCard, ClearMarker, JoinQueue, Places
  <2>2. CASE CommitCard
    BY <1>0, <2>2, GoTypes, InHandIsKnown DEF CommitCard, EndSession, At, Places
  <2> QED
    BY <1>6, <2>1, <2>2 DEF CardStep
<1>7. CASE RestoreStep
  <2> USE DEF Kinds
  <2>1. CASE BeginRestore
    BY <1>0, <2>1, GoTypes DEF BeginRestore, JoinQueue, Places
  <2>2. CASE CommitRestore
    BY <1>0, <2>2, GoTypes, InHandIsKnown DEF CommitRestore, EndSession, At, Places, ChapterStates
  <2>3. CASE Uncard
    BY <1>0, <2>3, GoTypes, InHandIsKnown DEF Uncard, At, Places, Gots
  <2> QED
    BY <1>7, <2>1, <2>2, <2>3 DEF RestoreStep
<1>8. CASE KeepProcess
  BY <1>0, <1>8 DEF KeepProcess, loopVars
<1>9. ASSUME NEW i \in Ids, MangaDexStep(i) PROVE UploaderTypeOK'
  BY <1>0, <1>9 DEF MangaDexStep, Show, Land, loopVars, ChapterStates
<1>10. CASE Crash
  BY <1>0, <1>10 DEF Crash, Places, Gots
<1> QED
  BY <1>2, <1>3, <1>4, <1>5, <1>6, <1>7, <1>8, <1>9, <1>10 DEF UploaderNext, TaskStep, Produce, Operate, Lapse,
     Due, Report, Sweep

-----------------------------------------------------------------------------
(* The hands                                                               *)

(* One loop moves; a row another loop is about to lease is of its own kind *)
(* and nobody else leases it.                                              *)
LEMMA OneHandMoves ==
  ASSUME UInv, QueueTypeOK', NEW k \in Kinds,
         \A l \in Kinds \ {k} : pc'[l] = pc[l] /\ task'[l] = task[l] /\ got'[l] = got[l],
         \A t \in Tasks : KindOf[t] = k \/ tries'[t] <= tries[t],
         Fits(k)'
  PROVE  HandsFit'
<1> SUFFICES ASSUME NEW l \in Kinds PROVE Fits(l)'
  BY DEF HandsFit
<1>1. CASE l = k
  BY <1>1
<1>2. CASE l # k
  <2>1. Fits(l) /\ pc'[l] = pc[l] /\ task'[l] = task[l] /\ got'[l] = got[l]
    BY <1>2 DEF UInv, HandsFit
  <2>2. pc[l] = "claiming" => task[l] \in Tasks /\ KindOf[task[l]] = l /\ tries'[task[l]] <= tries[task[l]]
    BY <1>2, InHandIsKnown
  <2>3. \A t \in Tasks : tries[t] \in Nat /\ tries'[t] \in Nat
    BY QueueAssumption, Types DEF QueueTypeOK
  <2>4. pc'[l] = "claiming" => tries'[task'[l]] < ClaimBound
    BY QueueAssumption, <2>1, <2>2, <2>3 DEF Fits
  <2> QED
    BY <2>1, <2>4 DEF Fits
<1> QED
  BY <1>1, <1>2

(* A loop that goes on at one await, with what it has.                     *)
LEMMA HandGoes ==
  ASSUME UInv, QueueTypeOK', \A t \in Tasks : tries'[t] <= tries[t],
         NEW k \in Kinds, pc[k] # "idle", UNCHANGED task,
         NEW place \in Places, Go(k, place), place \notin {"idle", "claiming", "begin"},
         got' \in [Kinds -> Gots], \A l \in Kinds \ {k} : got'[l] = got[l],
         k = "UPLOAD" => got'[k] \in Ids \cup {None},
         place = "record" => got'[k] \in Ids,
         place = "defer" => got'[k] \in 0..(Rounds - 1),
         k = "UNAVAILABLE" /\ place \in {"queued", "open"} => got'[k] = 0
  PROVE  HandsFit'
<1>1. pc'[k] = place /\ \A l \in Kinds \ {k} : pc'[l] = pc[l]
  BY Types DEF Go
<1>2. task[k] # None /\ KindOf[task[k]] = k
  BY InHandIsKnown
<1>3. Fits(k)'
  BY <1>1, <1>2 DEF Fits
<1> QED
  BY <1>1, <1>3, OneHandMoves

LEMMA HandsKept == ASSUME UInv, UploaderNext PROVE HandsFit'
<1> USE Types, UploaderAssumption DEF KeepMangaDex, KeepRecords, KeepHands
<1>0. QueueTypeOK'
  BY RowsKept
<1>1. \A t \in Tasks : tries[t] \in Nat
  BY QueueAssumption DEF QueueTypeOK
<1>2. UNCHANGED queueVars => \A t \in Tasks : tries'[t] <= tries[t]
  BY <1>1 DEF queueVars
<1>3. \A k \in Kinds : Fits(k)
  BY DEF UInv, HandsFit
<1>4. ASSUME NEW k \in Kinds, LoopStep(k) PROVE HandsFit'
  <2>1. CASE ClaimTask(k)
    <3>1. PICK t \in Tasks : KindOf[t] = k /\ Claim(t) /\ task' = [task EXCEPT ![k] = t]
                             /\ got' = [got EXCEPT ![k] = Payload(t)]
      BY <2>1 DEF ClaimTask
    <3>2. \A u \in Tasks \ {t} : tries'[u] = tries[u]
      BY <3>1 DEF Claim, TakeLease, QueueTypeOK
    <3>3. pc'[k] = "begin" /\ \A l \in Kinds \ {k} : pc'[l] = pc[l] /\ task'[l] = task[l] /\ got'[l] = got[l]
      BY <2>1, <3>1 DEF ClaimTask, Go
    <3>4. task'[k] = t /\ got'[k] = Payload(t)
      BY <3>1
    <3>5. Fits(k)'
      BY <3>1, <3>3, <3>4 DEF Fits, Payload, QueueTypeOK
    <3>6. \A u \in Tasks : KindOf[u] = k \/ tries'[u] <= tries[u]
      BY <1>1, <3>1, <3>2
    <3> QED
      BY <1>0, <3>3, <3>5, <3>6, OneHandMoves
  <2>2. CASE Look(k)
    <3>1. PICK t \in Tasks : KindOf[t] = k /\ Claimable(t) /\ task' = [task EXCEPT ![k] = t]
      BY <2>2 DEF Look
    <3>2. pc'[k] = "claiming" /\ task'[k] = t /\ UNCHANGED <<queueVars, got>>
          /\ \A l \in Kinds \ {k} : pc'[l] = pc[l] /\ task'[l] = task[l]
      BY <2>2, <3>1 DEF Look, Go, KeepQueue
    <3>3. tries'[t] < ClaimBound
      BY <3>1, <3>2 DEF Claimable, queueVars
    <3>4. Fits(k)'
      BY <1>3, <3>1, <3>2, <3>3 DEF Fits
    <3> QED
      BY <1>0, <1>2, <3>2, <3>4, OneHandMoves
  <2>3. CASE Take(k)
    <3>1. task[k] \in Tasks /\ KindOf[task[k]] = k /\ At(k, "claiming")
      BY <2>3, InHandIsKnown DEF Take, At
    <3>2. CASE TakeLease(task[k]) /\ got' = [got EXCEPT ![k] = Payload(task[k])] /\ Go(k, "begin") /\ UNCHANGED task
      <4>1. \A u \in Tasks \ {task[k]} : tries'[u] = tries[u]
        BY <3>1, <3>2 DEF TakeLease, QueueTypeOK
      <4>2. pc'[k] = "begin" /\ got'[k] = Payload(task[k])
            /\ \A l \in Kinds \ {k} : pc'[l] = pc[l] /\ got'[l] = got[l]
        BY <3>2 DEF Go
      <4>3. Fits(k)'
        BY <3>1, <3>2, <4>2 DEF Fits, Payload, QueueTypeOK
      <4>4. \A u \in Tasks : KindOf[u] = k \/ tries'[u] <= tries[u]
        BY <1>1, <3>1, <4>1
      <4> QED
        BY <1>0, <3>2, <4>2, <4>3, <4>4, OneHandMoves
    <3>3. CASE UNCHANGED queueVars /\ Go(k, "idle") /\ task' = [task EXCEPT ![k] = None] /\ UNCHANGED got
      <4>1. pc'[k] = "idle" /\ task'[k] = None
            /\ \A l \in Kinds \ {k} : pc'[l] = pc[l] /\ task'[l] = task[l]
        BY <3>3 DEF Go
      <4>2. Fits(k)'
        BY <1>3, <3>3, <4>1 DEF Fits
      <4> QED
        BY <1>0, <1>2, <3>3, <4>1, <4>2, OneHandMoves
    <3> QED
      BY <2>3, <3>2, <3>3 DEF Take, KeepQueue
  <2>4. CASE LetGo(k) /\ \A t \in Tasks : tries'[t] <= tries[t]
    <3>1. pc'[k] = "idle" /\ task'[k] = None /\ got'[k] = None
          /\ \A l \in Kinds \ {k} : pc'[l] = pc[l] /\ task'[l] = task[l] /\ got'[l] = got[l]
      BY <2>4 DEF LetGo, Go
    <3>2. Fits(k)'
      BY <3>1 DEF Fits
    <3> QED
      BY <1>0, <2>4, <3>1, <3>2, OneHandMoves
  <2>5. CASE FinishTask(k) \/ DeferTask(k) \/ FailTask(k)
    <3>1. task[k] \in Tasks
      BY <2>5, InHandIsKnown DEF FinishTask, DeferTask, FailTask, At
    <3>2. \A t \in Tasks : tries'[t] <= tries[t]
      BY <2>5, <3>1, OthersCostNothing DEF FinishTask, DeferTask, FailTask, IfHeld, KeepQueue
    <3> QED
      BY <2>4, <2>5, <3>2 DEF FinishTask, DeferTask, FailTask
  <2> QED
    BY <1>4, <2>1, <2>2, <2>3, <2>5 DEF LoopStep
<1>5. ASSUME NEW k \in Kinds, WorkerStep(k) PROVE HandsFit'
  <2>1. PICK place \in Places : Go(k, place) /\ place \notin {"idle", "claiming", "begin", "record", "defer", "queued"}
                                /\ (place = "open" => At(k, "queued"))
    BY <1>5 DEF WorkerStep, Record, ArchiveGone, DropUploaded, DropCard, ArchiveCard, DropLive, OpenSession,
       OpenFails, AbandonSession, CommitRefused, Abandoned, Break, Places
  <2>2. UNCHANGED <<queueVars, task, got>> /\ pc[k] # "idle"
    BY <1>5 DEF WorkerStep, Record, ArchiveGone, DropUploaded, DropCard, ArchiveCard, DropLive, OpenSession,
       OpenFails, AbandonSession, CommitRefused, Abandoned, Break, KeepQueue, At
  <2>3. Fits(k)
    BY <1>3
  <2>4. k = "UNAVAILABLE" /\ place \in {"queued", "open"} => got[k] = 0
    BY <2>1, <2>3 DEF Fits, At
  <2>5. k = "UPLOAD" => got[k] \in Ids \cup {None}
    BY <2>3 DEF Fits
  <2> QED
    BY <1>0, <1>2, <2>1, <2>2, <2>4, <2>5, HandGoes
<1>6. CASE UploadStep
  <2> USE DEF Kinds
  <2> DEFINE k == "UPLOAD"
  <2>1. UNCHANGED <<queueVars, task>> /\ pc[k] # "idle"
    BY <1>6 DEF UploadStep, BeginUpload, CommitUpload, CommitUnheard, LogCommit, LogFails, KeepQueue, At
  <2>2. task[k] \in Tasks /\ got[k] \in Ids \cup {None}
    BY <1>3, <2>1, InHandIsKnown DEF Fits
  <2>3. PICK place \in Places : Go(k, place) /\ place \notin {"idle", "claiming", "begin", "defer"}
                                /\ (place = "record" => got'[k] \in Ids)
    BY <1>6, <2>2 DEF UploadStep, BeginUpload, CommitUpload, CommitUnheard, LogCommit, LogFails, Places, JoinQueue,
       AlreadyThere
  <2>4. got'[k] \in Ids \cup {None} /\ got' \in [Kinds -> Gots] /\ \A l \in Kinds \ {k} : got'[l] = got[l]
    BY <1>6, <2>2 DEF UploadStep, BeginUpload, CommitUpload, CommitUnheard, LogCommit, LogFails, AlreadyThere, Gots
  <2> QED
    BY <1>0, <1>2, <2>1, <2>3, <2>4, HandGoes
<1>7. CASE EditStep \/ DeleteStep \/ RestoreStep
  <2> USE DEF Kinds
  <2>1. PICK k \in {"EDIT", "DELETE", "RESTORE"}, place \in Places :
          /\ Go(k, place) /\ place \notin {"idle", "claiming", "begin", "defer"} /\ pc[k] # "idle"
          /\ got' = [got EXCEPT ![k] = Target(k)] \/ (UNCHANGED got /\ place # "record")
          /\ UNCHANGED <<queueVars, task>>
    BY <1>7 DEF EditStep, BeginEdit, WriteEdit, DeleteStep, BeginDelete, WriteDelete, RestoreStep, BeginRestore,
       CommitRestore, Uncard, Places, KeepQueue, At, JoinQueue
  <2>2. Target(k) \in Ids
    BY <2>1, InHandIsKnown
  <2>3. got' \in [Kinds -> Gots] /\ (\A l \in Kinds \ {k} : got'[l] = got[l]) /\ (place = "record" => got'[k] \in Ids)
    BY <2>1, <2>2 DEF Gots
  <2> QED
    BY <1>0, <1>2, <2>1, <2>3, HandGoes
<1>8. CASE CardStep
  <2> USE DEF Kinds
  <2> DEFINE k == "UNAVAILABLE"
  <2>1. PICK place \in Places : /\ Go(k, place) /\ pc[k] # "idle"
                                /\ place \notin {"idle", "claiming", "begin", "record", "open"}
                                /\ place = "queued" => got[k] = 0
                                /\ place = "defer" => \/ At(k, "begin") /\ got[k] > 0 /\ got[k] < Rounds
                                                      \/ At(k, "open")
    BY <1>8 DEF CardStep, BeginCard, VerifyCard, CommitCard, ClearMarker, Places, At, JoinQueue, AnotherRound
  <2>2. UNCHANGED <<task, got>>
    BY <1>8 DEF CardStep, BeginCard, VerifyCard, CommitCard, ClearMarker
  <2>3. place = "defer" => got[k] \in 0..(Rounds - 1)
    BY <1>3, <2>1, QueueAssumption DEF Fits, At
  <2>4. \A t \in Tasks : tries'[t] <= tries[t]
    BY <1>1, <1>8 DEF CardStep, BeginCard, VerifyCard, CommitCard, ClearMarker, ClearVerifyState, KeepQueue, queueVars
  <2> QED
    BY <1>0, <2>1, <2>2, <2>3, <2>4, HandGoes
<1>9. CASE (\E t \in Tasks : TaskStep(t)) \/ (\E s \in Scopes : Report(s)) \/ Sweep
  <2>1. UNCHANGED loopVars
    BY <1>9 DEF TaskStep, Produce, Operate, Lapse, Due, Report, Sweep, KeepProcess
  <2>2. \A t \in Tasks : tries'[t] <= tries[t]
    BY <1>9, OthersCostNothing DEF TaskStep, Produce, Operate, Lapse, Due, Report, Sweep, ProducerStep,
       OperatorStep, SupersedeRenumbered
  <2>4. UNCHANGED <<pc, task, got>>
    BY <2>1 DEF loopVars
  <2>5. \A t \in Tasks : tries[t] \in Nat /\ tries'[t] \in Nat
    BY <1>0, QueueAssumption DEF QueueTypeOK
  <2>6. \A l \in Kinds : pc[l] = "claiming" => task[l] \in Tasks
    BY InHandIsKnown
  <2>7. \A l \in Kinds : pc[l] = "claiming" => tries'[task[l]] < ClaimBound
    BY <1>3, <2>2, <2>5, <2>6, QueueAssumption DEF Fits
  <2> QED
    BY <1>3, <2>4, <2>7 DEF HandsFit, Fits
<1>10. ASSUME NEW i \in Ids, MangaDexStep(i) PROVE HandsFit'
  <2>1. UNCHANGED <<queueVars, pc, task, got>>
    BY <1>10 DEF MangaDexStep, Show, Land, loopVars, KeepQueue
  <2> QED
    BY <1>3, <2>1 DEF HandsFit, Fits, queueVars
<1>11. CASE Crash
  BY <1>11 DEF Crash, HandsFit, Fits
<1> QED
  BY <1>4, <1>5, <1>6, <1>7, <1>8, <1>9, <1>10, <1>11 DEF UploaderNext

-----------------------------------------------------------------------------
(* The session                                                             *)

LEMMA LineStays ==
  ASSUME SessionHeld, UNCHANGED <<turn, session>>, \A k \in Kinds : At(k, "open")' => At(k, "open")
  PROVE  SessionHeld'
  BY DEF SessionHeld, MyTurn

(* Who joins the line gets behind whoever is in it.                        *)
LEMMA LineGrows ==
  ASSUME UInv, NEW k \in Kinds, JoinQueue(k), UNCHANGED session
  PROVE  SessionHeld'
<1>1. turn \in Seq(Kinds) /\ turn' = Append(turn, k)
  BY DEF UInv, SessionHeld, JoinQueue
<1>2. turn' \in Seq(Kinds) /\ (turn # <<>> => turn' # <<>> /\ Head(turn') = Head(turn))
  BY <1>1
<1>3. \A l \in Kinds : At(l, "open")' => At(l, "open")
  BY Types DEF JoinQueue, Go, At
<1> QED
  BY <1>2, <1>3 DEF UInv, SessionHeld, MyTurn

(* Who lets go of the session was the only one to have it.                 *)
LEMMA HolderGoes ==
  ASSUME UInv, NEW k \in Kinds, NEW place, MyTurn(k), Release(k), Go(k, place), place # "open"
  PROVE  SessionHeld'
<1>1. turn' \in Seq(Kinds)
  BY DEF UInv, SessionHeld, MyTurn, Release
<1>2. \A l \in Kinds : ~At(l, "open")'
  BY Types DEF UInv, SessionHeld, MyTurn, Go, At
<1> QED
  BY <1>1, <1>2 DEF SessionHeld

LEMMA SessionKept == ASSUME UInv, UploaderNext PROVE SessionHeld'
<1> USE Types DEF KeepMangaDex, KeepRecords, KeepHands, mangadex
<1>0. SessionHeld
  BY DEF UInv
<1>1. ASSUME NEW k \in Kinds, LoopStep(k) PROVE SessionHeld'
  <2>1. UNCHANGED <<turn, session>>
    BY <1>1 DEF LoopStep, ClaimTask, Look, Take, FinishTask, DeferTask, FailTask, LetGo
  <2>2. \A l \in Kinds : At(l, "open")' => At(l, "open")
    BY <1>1 DEF LoopStep, ClaimTask, Look, Take, FinishTask, DeferTask, FailTask, LetGo, Go, At
  <2> QED
    BY <1>0, <2>1, <2>2, LineStays
<1>2. ASSUME NEW k \in Kinds, WorkerStep(k) PROVE SessionHeld'
  <2>1. CASE OpenSession(k)
    BY <1>0, <2>1 DEF OpenSession, SessionHeld, At, MyTurn, Go
  <2>2. CASE OpenFails(k) \/ AbandonSession(k) \/ CommitRefused(k)
    <3>1. MyTurn(k) /\ Release(k) /\ Go(k, "failing")
      BY <1>0, <2>2 DEF OpenFails, AbandonSession, CommitRefused, Abandoned, SessionHeld
    <3> QED
      BY <3>1, HolderGoes
  <2>3. CASE Record(k) \/ ArchiveGone(k) \/ DropUploaded(k) \/ DropCard(k) \/ ArchiveCard(k) \/ DropLive(k) \/ Break(k)
    <3>1. UNCHANGED <<turn, session>> /\ \A l \in Kinds : At(l, "open")' => At(l, "open")
      BY <2>3 DEF Record, ArchiveGone, DropUploaded, DropCard, ArchiveCard, DropLive, Break, Go, At
    <3> QED
      BY <1>0, <3>1, LineStays
  <2> QED
    BY <1>2, <2>1, <2>2, <2>3 DEF WorkerStep
<1>3. ASSUME NEW k \in Kinds, At(k, "open"), EndSession(k), NEW place, Go(k, place), place # "open"
      PROVE  SessionHeld'
  BY <1>0, <1>3, HolderGoes DEF SessionHeld, EndSession
<1>4. CASE CommitUpload \/ CommitUnheard
  BY <1>3, <1>4 DEF CommitUpload, CommitUnheard, NewChapter, Kinds
<1>5. CASE CommitCard \/ CommitRestore
  BY <1>3, <1>5 DEF CommitCard, CommitRestore, Kinds
<1>6. CASE BeginUpload \/ BeginCard \/ BeginRestore
  <2>1. CASE \E k \in Kinds : JoinQueue(k) /\ UNCHANGED session
    BY <2>1, LineGrows
  <2>2. CASE UNCHANGED <<turn, session>> /\ \A l \in Kinds : At(l, "open")' => At(l, "open")
    BY <1>0, <2>2, LineStays
  <2> QED
    BY <1>6, <2>1, <2>2 DEF BeginUpload, BeginCard, BeginRestore, Kinds, Go, At
<1>7. CASE LogCommit \/ LogFails \/ EditStep \/ DeleteStep \/ VerifyCard \/ ClearMarker \/ Uncard
  <2>1. UNCHANGED <<turn, session>> /\ \A l \in Kinds : At(l, "open")' => At(l, "open")
    BY <1>7 DEF LogCommit, LogFails, EditStep, BeginEdit, WriteEdit, DeleteStep, BeginDelete, WriteDelete,
       VerifyCard, ClearMarker, Uncard, Go, At
  <2> QED
    BY <1>0, <2>1, LineStays
<1>8. CASE KeepProcess \/ \E i \in Ids : MangaDexStep(i)
  <2>1. UNCHANGED <<turn, session, pc>>
    BY <1>8 DEF KeepProcess, MangaDexStep, Show, Land, loopVars
  <2> QED
    BY <1>0, <2>1, LineStays DEF At
<1>9. CASE Crash
  BY <1>9 DEF Crash, SessionHeld, At
<1> QED
  BY <1>1, <1>2, <1>4, <1>5, <1>6, <1>7, <1>8, <1>9 DEF UploaderNext, UploadStep, CardStep, RestoreStep, TaskStep,
     Produce, Operate, Lapse, Due, Report, Sweep

-----------------------------------------------------------------------------
(* The chapters                                                            *)

LEMMA ChaptersKept == ASSUME UInv, UploaderNext PROVE ChaptersLast'
<1> USE Types DEF KeepMangaDex, mangadex, UInv, ChaptersLast
<1>1. ASSUME NEW k \in Kinds, LoopStep(k) \/ WorkerStep(k) PROVE UNCHANGED <<md, madeBy, landing>>
  BY <1>1 DEF LoopStep, ClaimTask, Look, Take, FinishTask, DeferTask, FailTask, LetGo, WorkerStep, Record, ArchiveGone,
     DropUploaded, DropCard, ArchiveCard, DropLive, OpenSession, OpenFails, AbandonSession, CommitRefused, Abandoned, Break
<1>2. CASE CommitUpload \/ CommitUnheard
  BY <1>2 DEF CommitUpload, CommitUnheard, NewChapter
<1>3. CASE WriteDelete
  BY <1>3 DEF WriteDelete
<1>4. CASE CommitCard
  BY <1>4 DEF CommitCard
<1>5. CASE CommitRestore
  BY <1>5 DEF CommitRestore
<1>6. ASSUME NEW i \in Ids, MangaDexStep(i) PROVE ChaptersLast'
  BY <1>6 DEF MangaDexStep, Show, Land
<1>7. CASE BeginUpload \/ LogCommit \/ LogFails \/ EditStep \/ BeginDelete \/ BeginCard \/ VerifyCard
           \/ ClearMarker \/ BeginRestore \/ Uncard \/ Crash \/ KeepProcess
  <2>1. UNCHANGED <<md, madeBy, landing>>
    BY <1>7 DEF BeginUpload, LogCommit, LogFails, EditStep, BeginEdit, WriteEdit, BeginDelete, BeginCard, VerifyCard,
       ClearMarker, BeginRestore, Uncard, Crash, KeepProcess
  <2> QED
    BY <2>1
<1> QED
  BY <1>1, <1>2, <1>3, <1>4, <1>5, <1>6, <1>7 DEF UploaderNext, UploadStep, DeleteStep, CardStep, RestoreStep, TaskStep,
     Produce, Operate, Lapse, Due, Report, Sweep

-----------------------------------------------------------------------------
(* The copies                                                              *)

(* The copy the next attempt at t finds.                                   *)
Remembered(t) == IF task["UPLOAD"] = t /\ At("UPLOAD", "log") THEN got["UPLOAD"] ELSE committedLog[t]
AboutToCommit == At("UPLOAD", "queued") \/ At("UPLOAD", "open")

LEMMA CopiesFact ==
  ASSUME UInv
  PROVE  /\ IsFiniteSet(spent) /\ Excused \in Nat
         /\ \A t \in Tasks :
              /\ IsFiniteSet(Copies(t)) /\ Cardinality(Copies(t)) \in Nat
              /\ Cardinality(Copies(t)) <= 1 + Excused
              /\ AboutToCommit /\ task["UPLOAD"] = t => Cardinality(Copies(t)) <= Excused
              /\ Cardinality(Copies(t)) > Excused => Remembered(t) \in Copies(t) \cap shown
<1>1. IsFiniteSet(spent) /\ \A t \in Tasks : IsFiniteSet(Copies(t))
  BY DEF UInv, CopiesKnown
<1>2. IsFiniteSet(spent \cap {"crash", "lost", "lag"})
  BY <1>1, FS_Subset
<1>3. Excused \in Nat /\ \A t \in Tasks : Cardinality(Copies(t)) \in Nat
  BY <1>1, <1>2, FS_CardinalityType DEF Excused
<1> QED
  BY <1>1, <1>3 DEF UInv, CopiesKnown, Remembered, AboutToCommit

LEMMA CopiesOK ==
  ASSUME IsFiniteSet(spent'),
         \A t \in Tasks :
           /\ IsFiniteSet(Copies(t)') /\ Cardinality(Copies(t)') <= 1 + Excused'
           /\ AboutToCommit' /\ task'["UPLOAD"] = t => Cardinality(Copies(t)') <= Excused'
           /\ Cardinality(Copies(t)') > Excused' => Remembered(t)' \in Copies(t)' \cap shown'
  PROVE  CopiesKnown'
  BY DEF CopiesKnown, Remembered, AboutToCommit

(* Excuses are used up one at a time, each once.                           *)
LEMMA SpentGrows ==
  ASSUME UInv, UNCHANGED spent \/ \E e : Spend(e)
  PROVE  IsFiniteSet(spent') /\ Excused' \in Nat /\ Excused' >= Excused
<1>1. IsFiniteSet(spent) /\ Excused \in Nat
  BY CopiesFact
<1>2. IsFiniteSet(spent') /\ spent \subseteq spent'
  BY <1>1, FS_AddElement DEF Spend
<1>3. IsFiniteSet(spent' \cap {"crash", "lost", "lag"})
  BY <1>2, FS_Subset
<1>4. spent \cap {"crash", "lost", "lag"} \subseteq spent' \cap {"crash", "lost", "lag"}
  BY <1>2
<1> QED
  BY <1>1, <1>2, <1>3, <1>4, FS_Subset, FS_CardinalityType DEF Excused

LEMMA ExcuseSpent ==
  ASSUME UInv, NEW e \in {"crash", "lost", "lag"}, Spend(e)
  PROVE  IsFiniteSet(spent') /\ Excused' = Excused + 1
<1>1. IsFiniteSet(spent') /\ IsFiniteSet(spent \cap {"crash", "lost", "lag"})
  BY CopiesFact, SpentGrows, FS_Subset
<1>2. spent' \cap {"crash", "lost", "lag"} = (spent \cap {"crash", "lost", "lag"}) \cup {e}
      /\ e \notin spent \cap {"crash", "lost", "lag"}
  BY DEF Spend
<1> QED
  BY <1>1, <1>2, FS_AddElement DEF Excused

(* What is remembered stays, or there is one more excuse.                  *)
MindStays ==
  /\ AboutToCommit' => AboutToCommit /\ task'["UPLOAD"] = task["UPLOAD"]
  /\ At("UPLOAD", "log")' => At("UPLOAD", "log")
  /\ At("UPLOAD", "log") => /\ At("UPLOAD", "log")'
                            /\ task'["UPLOAD"] = task["UPLOAD"] /\ got'["UPLOAD"] = got["UPLOAD"]

LEMMA CopiesStay ==
  ASSUME UInv, UNCHANGED <<madeBy, committedLog>>, \A i \in Ids : md'[i] = "gone" <=> md[i] = "gone",
         shown \subseteq shown', UNCHANGED spent \/ \E e : Spend(e), MindStays
  PROVE  CopiesKnown'
<1>1. \A t : Copies(t)' = Copies(t)
  BY DEF Copies
<1>2. IsFiniteSet(spent') /\ Excused' \in Nat /\ Excused' >= Excused /\ Excused \in Nat
  BY CopiesFact, SpentGrows
<1>3. \A t : Remembered(t)' = Remembered(t)
  BY DEF Remembered, MindStays
<1>4. ASSUME NEW t \in Tasks
      PROVE  /\ IsFiniteSet(Copies(t)') /\ Cardinality(Copies(t)') <= 1 + Excused'
             /\ AboutToCommit' /\ task'["UPLOAD"] = t => Cardinality(Copies(t)') <= Excused'
             /\ Cardinality(Copies(t)') > Excused' => Remembered(t)' \in Copies(t)' \cap shown'
  <2>1. /\ IsFiniteSet(Copies(t)) /\ Cardinality(Copies(t)) \in Nat
        /\ Cardinality(Copies(t)) <= 1 + Excused
        /\ AboutToCommit /\ task["UPLOAD"] = t => Cardinality(Copies(t)) <= Excused
        /\ Cardinality(Copies(t)) > Excused => Remembered(t) \in Copies(t) \cap shown
    BY CopiesFact
  <2>2. AboutToCommit' /\ task'["UPLOAD"] = t => Cardinality(Copies(t)) <= Excused
    BY <2>1 DEF MindStays
  <2>3. Cardinality(Copies(t)) > Excused => Remembered(t)' \in Copies(t) \cap shown'
    BY <1>3, <2>1
  <2> QED
    BY <1>1, <1>2, <2>1, <2>2, <2>3
<1> QED
  BY <1>2, <1>4, CopiesOK

(* The process dies or cannot write its commit down: one more excuse.      *)
LEMMA CopiesForgotten ==
  ASSUME UInv, UNCHANGED <<madeBy, md, shown, committedLog>>, Spend("crash"), ~AboutToCommit', ~At("UPLOAD", "log")'
  PROVE  CopiesKnown'
<1>1. \A t : Copies(t)' = Copies(t)
  BY DEF Copies
<1>2. IsFiniteSet(spent') /\ Excused' = Excused + 1 /\ Excused \in Nat
  BY CopiesFact, ExcuseSpent
<1>3. ASSUME NEW t \in Tasks
      PROVE  /\ IsFiniteSet(Copies(t)') /\ Cardinality(Copies(t)') <= 1 + Excused'
             /\ AboutToCommit' /\ task'["UPLOAD"] = t => Cardinality(Copies(t)') <= Excused'
             /\ Cardinality(Copies(t)') > Excused' => Remembered(t)' \in Copies(t)' \cap shown'
  <2>1. IsFiniteSet(Copies(t)) /\ Cardinality(Copies(t)) \in Nat /\ Cardinality(Copies(t)) <= 1 + Excused
    BY CopiesFact
  <2> QED
    BY <1>1, <1>2, <2>1
<1> QED
  BY <1>2, <1>3, CopiesOK

(* A commit: one copy more of the row that was about to be committed, with *)
(* an excuse or remembered and shown.                                      *)
LEMMA CopyMade ==
  ASSUME UInv, At("UPLOAD", "open"), NEW i \in Ids, NewChapter("UPLOAD", i), ~AboutToCommit',
         UNCHANGED <<task, committedLog>>, shown \subseteq shown',
         \/ /\ UNCHANGED spent /\ At("UPLOAD", "log")' /\ got'["UPLOAD"] = i /\ i \in shown'
         \/ \E e \in {"lost", "lag"} : Spend(e)
  PROVE  CopiesKnown'
<1>0. PICK t : t = task["UPLOAD"]
  OBVIOUS
<1>1. t \in Tasks /\ AboutToCommit /\ ~At("UPLOAD", "log")
  BY <1>0, InHandIsKnown DEF At, AboutToCommit, Kinds
<1>2. madeBy[i] = None /\ md[i] = "none" /\ None \notin Tasks
  BY UploaderAssumption DEF UInv, ChaptersLast, NewChapter
<1>3. /\ madeBy' = [madeBy EXCEPT ![i] = t] /\ md' = [md EXCEPT ![i] = "live"]
  BY <1>0 DEF NewChapter
<1>4. Copies(t)' = Copies(t) \cup {i} /\ i \notin Copies(t)
  BY <1>1, <1>2, <1>3, Types DEF Copies
<1>5. \A u \in Tasks \ {t} : Copies(u)' = Copies(u)
  BY <1>2, <1>3, Types DEF Copies
<1>6. /\ IsFiniteSet(spent') /\ Excused' \in Nat /\ Excused \in Nat
      /\ \/ Excused' = Excused + 1
         \/ Excused' = Excused /\ At("UPLOAD", "log")' /\ got'["UPLOAD"] = i /\ i \in shown'
  <2>1. CASE UNCHANGED spent
    BY <1>1, <2>1, CopiesFact, SpentGrows, ExcuseSpent DEF Excused
  <2>2. CASE \E e \in {"lost", "lag"} : Spend(e)
    BY <2>2, CopiesFact, ExcuseSpent
  <2> QED
    BY <2>1, <2>2
<1>7. ASSUME NEW u \in Tasks
      PROVE  /\ IsFiniteSet(Copies(u)') /\ Cardinality(Copies(u)') <= 1 + Excused'
             /\ AboutToCommit' /\ task'["UPLOAD"] = u => Cardinality(Copies(u)') <= Excused'
             /\ Cardinality(Copies(u)') > Excused' => Remembered(u)' \in Copies(u)' \cap shown'
  <2>1. /\ IsFiniteSet(Copies(u)) /\ Cardinality(Copies(u)) \in Nat
        /\ Cardinality(Copies(u)) <= 1 + Excused
        /\ AboutToCommit /\ task["UPLOAD"] = u => Cardinality(Copies(u)) <= Excused
        /\ Cardinality(Copies(u)) > Excused => Remembered(u) \in Copies(u) \cap shown
    BY CopiesFact
  <2>2. CASE u = t
    <3>1. Cardinality(Copies(u)) <= Excused
      BY <1>0, <1>1, <2>1, <2>2
    <3>2. IsFiniteSet(Copies(u)') /\ Cardinality(Copies(u)') = Cardinality(Copies(u)) + 1
      BY <1>4, <2>1, <2>2, FS_AddElement
    <3>3. Excused' = Excused => Remembered(u)' \in Copies(u)' \cap shown'
      <4> SUFFICES ASSUME Excused' = Excused PROVE Remembered(u)' \in Copies(u)' \cap shown'
        OBVIOUS
      <4>1. At("UPLOAD", "log")' /\ got'["UPLOAD"] = i /\ i \in shown'
        BY <1>6
      <4>2. Remembered(u)' = i
        BY <1>0, <2>2, <4>1 DEF Remembered
      <4> QED
        BY <1>4, <2>2, <4>1, <4>2
    <3> QED
      BY <1>6, <2>1, <3>1, <3>2, <3>3
  <2>3. CASE u # t
    <3>1. Remembered(u)' = Remembered(u)
      BY <1>0, <1>1, <2>3 DEF Remembered
    <3>2. Copies(u)' = Copies(u)
      BY <1>5, <2>3
    <3> QED
      BY <1>6, <2>1, <3>1, <3>2
  <2> QED
    BY <2>2, <2>3
<1> QED
  BY <1>6, <1>7, CopiesOK

(* A deletion may take the copy that is remembered: then it is no longer   *)
(* one too many.                                                           *)
LEMMA CopyGone ==
  ASSUME UInv, NEW i \in Ids, md' = [md EXCEPT ![i] = "gone"], UNCHANGED <<madeBy, shown, committedLog>>,
         UNCHANGED spent \/ \E e : Spend(e), MindStays
  PROVE  CopiesKnown'
<1>1. \A t : Copies(t)' = Copies(t) \ {i}
  BY Types DEF Copies
<1>2. IsFiniteSet(spent') /\ Excused' \in Nat /\ Excused' >= Excused /\ Excused \in Nat
  BY CopiesFact, SpentGrows
<1>3. \A t : Remembered(t)' = Remembered(t)
  BY DEF Remembered, MindStays
<1>4. ASSUME NEW t \in Tasks
      PROVE  /\ IsFiniteSet(Copies(t)') /\ Cardinality(Copies(t)') <= 1 + Excused'
             /\ AboutToCommit' /\ task'["UPLOAD"] = t => Cardinality(Copies(t)') <= Excused'
             /\ Cardinality(Copies(t)') > Excused' => Remembered(t)' \in Copies(t)' \cap shown'
  <2>1. /\ IsFiniteSet(Copies(t)) /\ Cardinality(Copies(t)) \in Nat
        /\ Cardinality(Copies(t)) <= 1 + Excused
        /\ AboutToCommit /\ task["UPLOAD"] = t => Cardinality(Copies(t)) <= Excused
        /\ Cardinality(Copies(t)) > Excused => Remembered(t) \in Copies(t) \cap shown
    BY CopiesFact
  <2>2. /\ IsFiniteSet(Copies(t)') /\ Cardinality(Copies(t)') \in Nat
        /\ Cardinality(Copies(t)') = IF i \in Copies(t) THEN Cardinality(Copies(t)) - 1 ELSE Cardinality(Copies(t))
    BY <1>1, <2>1, FS_RemoveElement, FS_CardinalityType
  <2>3. AboutToCommit' /\ task'["UPLOAD"] = t => Cardinality(Copies(t)) <= Excused
    BY <2>1 DEF MindStays
  <2>4. CASE i \in Copies(t)
    BY <1>2, <2>1, <2>2, <2>4
  <2>5. CASE i \notin Copies(t)
    <3>1. Copies(t)' = Copies(t)
      BY <1>1, <2>5
    <3>2. Cardinality(Copies(t)) > Excused => Remembered(t)' \in Copies(t)' \cap shown'
      BY <1>3, <2>1, <3>1
    <3> QED
      BY <1>2, <2>1, <2>2, <2>3, <2>5, <3>2
  <2> QED
    BY <2>4, <2>5
<1> QED
  BY <1>2, <1>4, CopiesOK

LEMMA CopiesKept == ASSUME UInv, UploaderNext PROVE CopiesKnown'
<1> USE DEF KeepMangaDex, mangadex, KeepRecords, KeepHands
<1>0. Kinds = {"RESTORE", "DELETE", "EDIT", "UPLOAD", "UNAVAILABLE"}
  BY DEF Kinds
<1>1. ASSUME NEW k \in Kinds, NEW place,
             Go(k, place), k = "UPLOAD" => place \notin {"queued", "log"} /\ ~At(k, "log")
                                            /\ (place = "open" => AboutToCommit),
             \A l \in Kinds \ {k} : task'[l] = task[l] /\ got'[l] = got[l],
             place = "open" => UNCHANGED task
      PROVE  MindStays
  BY <1>0, <1>1, Types DEF MindStays, AboutToCommit, Go, At
<1>2. ASSUME NEW k \in Kinds, LoopStep(k) PROVE CopiesKnown'
  <2>1. UNCHANGED <<mangadex, committedLog>>
    BY <1>2 DEF LoopStep, ClaimTask, Look, Take, FinishTask, DeferTask, FailTask, LetGo
  <2>2. UNCHANGED spent \/ \E e : Spend(e)
    BY <1>2 DEF LoopStep, ClaimTask, Look, Take, FinishTask, DeferTask, FailTask
  <2>3. PICK place : Go(k, place) /\ place \in {"begin", "claiming", "idle"}
    BY <1>2 DEF LoopStep, ClaimTask, Look, Take, FinishTask, DeferTask, FailTask, LetGo
  <2>4. ~At(k, "log") /\ \A l \in Kinds \ {k} : task'[l] = task[l] /\ got'[l] = got[l]
    BY <1>2, Types DEF LoopStep, ClaimTask, Look, Take, FinishTask, DeferTask, FailTask, LetGo, At
  <2> QED
    BY <1>1, <2>1, <2>2, <2>3, <2>4, CopiesStay
<1>3. ASSUME NEW k \in Kinds, WorkerStep(k) PROVE CopiesKnown'
  <2>1. UNCHANGED <<md, shown, madeBy, committedLog, task, got>>
    BY <1>3 DEF WorkerStep, Record, ArchiveGone, DropUploaded, DropCard, ArchiveCard, DropLive, OpenSession, OpenFails,
       AbandonSession, CommitRefused, Abandoned, Break
  <2>2. UNCHANGED spent \/ \E e : Spend(e)
    BY <1>3 DEF WorkerStep, Record, ArchiveGone, DropUploaded, DropCard, ArchiveCard, DropLive, OpenSession, OpenFails,
       AbandonSession, CommitRefused, Break
  <2>3. ~At(k, "log") /\ \E place : /\ Go(k, place) /\ place \notin {"queued", "log"}
                                    /\ place = "open" => At(k, "queued")
    BY <1>3 DEF WorkerStep, Record, ArchiveGone, DropUploaded, DropCard, ArchiveCard, DropLive, OpenSession, OpenFails,
       AbandonSession, CommitRefused, Abandoned, Break, At
  <2> QED
    BY <1>1, <2>1, <2>2, <2>3, CopiesStay DEF AboutToCommit
<1>4. CASE BeginUpload
  <2> DEFINE k == "UPLOAD"
  <2>1. UNCHANGED <<md, shown, madeBy, committedLog, task, spent>> /\ At(k, "begin") /\ task[k] \in Tasks
    BY <1>0, <1>4, InHandIsKnown DEF BeginUpload, At
  <2>2. CASE Go(k, "record")
    <3>1. MindStays
      BY <1>0, <2>1, <2>2, Types DEF MindStays, AboutToCommit, Go, At
    <3> QED
      BY <2>1, <3>1, CopiesStay
  <2>3. CASE Go(k, "queued") /\ ~AlreadyThere(task[k])
    <3>1. /\ pc'[k] = "queued" /\ task'[k] = task[k] /\ ~At(k, "log") /\ ~At(k, "log")'
          /\ \A t \in Tasks : Remembered(t)' = Remembered(t) /\ Copies(t)' = Copies(t)
      BY <1>0, <2>1, <2>3, Types DEF Go, At, Remembered, Copies
    <3>2. Excused' = Excused
      BY <2>1 DEF Excused
    <3>3. Remembered(task[k]) \notin Copies(task[k]) \cap shown
      <4>1. Remembered(task[k]) = committedLog[task[k]]
        BY <3>1 DEF Remembered
      <4>2. committedLog[task[k]] \in Ids \cup {None} /\ None \notin Ids
        BY <2>1, Types, UploaderAssumption
      <4>3. \A i \in Copies(task[k]) : i \in Ids /\ md[i] \in {"live", "carded"}
        BY <2>1, Types, UploaderAssumption DEF Copies, UInv, ChaptersLast, ChapterStates
      <4> QED
        BY <2>3, <4>1, <4>2, <4>3 DEF AlreadyThere, Visible
    <3>4. IsFiniteSet(spent')
      BY <2>1, CopiesFact
    <3>5. ASSUME NEW t \in Tasks
          PROVE  /\ IsFiniteSet(Copies(t)') /\ Cardinality(Copies(t)') <= 1 + Excused'
                 /\ AboutToCommit' /\ task'["UPLOAD"] = t => Cardinality(Copies(t)') <= Excused'
                 /\ Cardinality(Copies(t)') > Excused' => Remembered(t)' \in Copies(t)' \cap shown'
      <4>1. /\ IsFiniteSet(Copies(t)) /\ Cardinality(Copies(t)) \in Nat /\ Excused \in Nat
            /\ Cardinality(Copies(t)) <= 1 + Excused
            /\ Cardinality(Copies(t)) > Excused => Remembered(t) \in Copies(t) \cap shown
        BY CopiesFact
      <4>2. task[k] = t => Cardinality(Copies(t)) <= Excused
        BY <3>3, <4>1
      <4> QED
        BY <2>1, <3>1, <3>2, <4>1, <4>2
    <3> QED
      BY <3>4, <3>5, CopiesOK
  <2> QED
    BY <1>4, <2>2, <2>3 DEF BeginUpload, JoinQueue
<1>5. CASE CommitUpload \/ CommitUnheard
  <2> DEFINE k == "UPLOAD"
  <2>1. ~AboutToCommit' /\ UNCHANGED <<task, committedLog>> /\ At(k, "open")
    BY <1>0, <1>5, Types DEF CommitUpload, CommitUnheard, AboutToCommit, Go, At
  <2>2. PICK i \in Ids : /\ NewChapter(k, i) /\ shown \subseteq shown'
                         /\ \/ /\ UNCHANGED spent /\ Go(k, "log") /\ got' = [got EXCEPT ![k] = i] /\ i \in shown'
                            \/ \E e \in {"lost", "lag"} : Spend(e)
    BY <1>5 DEF CommitUpload, CommitUnheard
  <2>3. \/ UNCHANGED spent /\ At(k, "log")' /\ got'[k] = i /\ i \in shown'
        \/ \E e \in {"lost", "lag"} : Spend(e)
    BY <1>0, <2>2, Types DEF Go, At
  <2> QED
    BY <2>1, <2>2, <2>3, CopyMade
<1>6. CASE LogCommit
  <2> DEFINE k == "UPLOAD"
  <2>1. UNCHANGED <<md, shown, madeBy, task, spent>> /\ At(k, "log") /\ task[k] \in Tasks
    BY <1>0, <1>6, InHandIsKnown DEF LogCommit, At
  <2>2. ~AboutToCommit' /\ ~At(k, "log")'
    BY <1>0, <1>6, Types DEF LogCommit, AboutToCommit, Go, At
  <2>3. \A t \in Tasks : committedLog'[t] = IF t = task[k] /\ got[k] # None THEN got[k] ELSE committedLog[t]
    BY <1>6, Types DEF LogCommit
  <2>4. \A t \in Tasks : Copies(t)' = Copies(t) /\ Remembered(t)' = committedLog'[t]
    BY <2>1, <2>2 DEF Copies, Remembered
  <2>5. Excused' = Excused /\ IsFiniteSet(spent')
    BY <2>1, CopiesFact DEF Excused
  <2>6. \A t \in Tasks : Remembered(t) = IF t = task[k] THEN got[k] ELSE committedLog[t]
    BY <2>1 DEF Remembered
  <2>7. \A t \in Tasks : None \notin Copies(t)
    BY UploaderAssumption DEF Copies
  <2>8. ASSUME NEW t \in Tasks
        PROVE  /\ IsFiniteSet(Copies(t)') /\ Cardinality(Copies(t)') <= 1 + Excused'
               /\ AboutToCommit' /\ task'["UPLOAD"] = t => Cardinality(Copies(t)') <= Excused'
               /\ Cardinality(Copies(t)') > Excused' => Remembered(t)' \in Copies(t)' \cap shown'
    <3>1. /\ IsFiniteSet(Copies(t)) /\ Cardinality(Copies(t)) <= 1 + Excused
          /\ Cardinality(Copies(t)) > Excused => Remembered(t) \in Copies(t) \cap shown
      BY CopiesFact
    <3>2. Remembered(t) \in Copies(t) => Remembered(t)' = Remembered(t)
      BY <2>3, <2>4, <2>6, <2>7
    <3> QED
      BY <2>1, <2>2, <2>4, <2>5, <3>1, <3>2
  <2> QED
    BY <2>5, <2>8, CopiesOK
<1>7. CASE LogFails
  <2>1. ~AboutToCommit' /\ ~At("UPLOAD", "log")'
    BY <1>0, <1>7, Types DEF LogFails, AboutToCommit, Go, At
  <2> QED
    BY <1>7, <2>1, CopiesForgotten DEF LogFails
<1>8. CASE WriteDelete
  <2>1. Target("DELETE") \in Ids /\ MindStays
    BY <1>0, <1>8, InHandIsKnown, Types DEF WriteDelete, MindStays, AboutToCommit, Go, At
  <2> QED
    BY <1>8, <2>1, CopyGone DEF WriteDelete
<1>9. CASE EditStep \/ BeginDelete \/ CardStep \/ RestoreStep
  <2>1. PICK k \in Kinds \ {"UPLOAD"} :
          \E place : Go(k, place) /\ UNCHANGED task /\ \A l \in Kinds \ {k} : got'[l] = got[l]
    BY <1>0, <1>9, Types DEF EditStep, BeginEdit, WriteEdit, BeginDelete, CardStep, BeginCard, VerifyCard, CommitCard, ClearMarker,
       RestoreStep, BeginRestore, CommitRestore, Uncard, JoinQueue
  <2>2. MindStays
    BY <1>1, <2>1
  <2>3. UNCHANGED <<shown, madeBy, committedLog>> /\ (UNCHANGED spent \/ \E e : Spend(e))
    BY <1>9 DEF EditStep, BeginEdit, WriteEdit, BeginDelete, CardStep, BeginCard, VerifyCard, CommitCard, ClearMarker,
       RestoreStep, BeginRestore, CommitRestore, Uncard
  <2>4. \A i \in Ids : md'[i] = "gone" <=> md[i] = "gone"
    <3>1. CASE CommitRestore
      BY <3>1, Types DEF CommitRestore
    <3> QED
      BY <1>9, <3>1 DEF EditStep, BeginEdit, WriteEdit, BeginDelete, CardStep, BeginCard, VerifyCard, CommitCard, ClearMarker,
         RestoreStep, BeginRestore, Uncard
  <2> QED
    BY <2>2, <2>3, <2>4, CopiesStay
<1>10. CASE (\E t \in Tasks : TaskStep(t)) \/ (\E s \in Scopes : Report(s)) \/ Sweep
  <2>1. UNCHANGED <<md, shown, madeBy, committedLog, pc, task, got>>
    BY <1>10 DEF TaskStep, Produce, Operate, Lapse, Due, Report, Sweep, KeepProcess, loopVars
  <2>2. UNCHANGED spent \/ \E e : Spend(e)
    BY <1>10 DEF TaskStep, Produce, Operate, Lapse, Due, Report, Sweep
  <2> QED
    BY <2>1, <2>2, CopiesStay DEF MindStays, AboutToCommit, At
<1>11. ASSUME NEW i \in Ids, MangaDexStep(i) PROVE CopiesKnown'
  <2>1. UNCHANGED <<madeBy, committedLog, pc, task, got, spent>> /\ shown \subseteq shown'
    BY <1>11 DEF MangaDexStep, Show, Land, loopVars
  <2>2. \A j \in Ids : md'[j] = "gone" <=> md[j] = "gone"
    BY <1>11, Types DEF MangaDexStep, Show, Land, UInv, ChaptersLast
  <2> QED
    BY <2>1, <2>2, CopiesStay DEF MindStays, AboutToCommit, At
<1>12. CASE Crash
  <2>1. ~AboutToCommit' /\ ~At("UPLOAD", "log")'
    BY <1>0, <1>12 DEF Crash, AboutToCommit, At
  <2> QED
    BY <1>12, <2>1, CopiesForgotten DEF Crash
<1> QED
  BY <1>2, <1>3, <1>4, <1>5, <1>6, <1>7, <1>8, <1>9, <1>10, <1>11, <1>12 DEF UploaderNext, UploadStep, DeleteStep

-----------------------------------------------------------------------------
(* What holds in every state                                               *)

(* An idle process, an empty queue and a MangaDex that has what we         *)
(* uploaded before.                                                        *)
LEMMA StartOK == UploaderInit => UInv
<1> SUFFICES ASSUME UploaderInit PROVE UInv
  OBVIOUS
<1> USE UploaderAssumption DEF UploaderInit
<1>1. UploaderTypeOK
  <2>1. QueueTypeOK
    BY QueueInitOK DEF QueueInv
  <2> QED
    BY <2>1 DEF UploaderTypeOK, Places, ChapterStates
<1>2. HandsFit
  BY DEF HandsFit, Fits, Kinds
<1>3. SessionHeld
  BY DEF SessionHeld, At
<1>4. ChaptersLast
  BY DEF ChaptersLast
<1>5. CopiesKnown
  <2>1. IsFiniteSet({}) /\ Cardinality({}) = 0
    BY FS_EmptySet
  <2>2. \A t \in Tasks : Copies(t) = {}
    <3>1. \A i \in Ids, t \in Tasks : madeBy[i] # t
      OBVIOUS
    <3> QED
      BY <3>1 DEF Copies
  <2>3. IsFiniteSet(spent) /\ Excused = 0
    <3>1. spent \cap {"crash", "lost", "lag"} = {} /\ spent = {}
      OBVIOUS
    <3> QED
      BY <2>1, <3>1 DEF Excused
  <2>4. ~At("UPLOAD", "queued") /\ ~At("UPLOAD", "open")
    BY DEF At, Kinds
  <2>5. \A t \in Tasks : IsFiniteSet(Copies(t)) /\ Cardinality(Copies(t)) = 0
    BY <2>1, <2>2
  <2> HIDE DEF UploaderInit
  <2> QED
    BY <2>3, <2>4, <2>5 DEF CopiesKnown
<1> QED
  BY <1>1, <1>2, <1>3, <1>4, <1>5 DEF UInv

LEMMA UploaderStep == UInv /\ [UploaderNext]_uploaderVars => UInv'
<1>1. ASSUME UInv, UploaderNext PROVE UInv'
  BY <1>1, TypesKept, HandsKept, SessionKept, ChaptersKept, CopiesKept DEF UInv
<1>2. ASSUME UInv, UNCHANGED uploaderVars PROVE UInv'
  <2> USE <1>2 DEF uploaderVars, loopVars, mangadex, archiveVars, queueVars, UInv
  <2>1. UploaderTypeOK' /\ ChaptersLast'
    BY DEF UploaderTypeOK, QueueTypeOK, ChaptersLast
  <2>2. HandsFit' /\ SessionHeld'
    BY DEF HandsFit, Fits, SessionHeld, At, MyTurn
  <2>3. CopiesKnown'
    BY DEF CopiesKnown, Copies, Excused, At
  <2> QED
    BY <2>1, <2>2, <2>3
<1> QED
  BY <1>1, <1>2

(* The invariant of the loops, the session lock, MangaDex and the archives, *)
(* for any rows, loops and rounds.                                          *)
THEOREM UploaderInductive == UploaderSpec => []UInv
  BY StartOK, UploaderStep, PTL DEF UploaderSpec

(* The account's one upload session belongs to the worker who puts pages   *)
(* into it, whatever lapses, overlaps or crashes.                          *)
THEOREM UploaderSafe == UploaderSpec => []UploaderInv
<1>1. UInv => UploaderInv
  BY DEF UInv, UploaderInv, OneSession, SessionHeld
<1> QED
  BY <1>1, UploaderInductive, PTL

(* A second copy of a chapter is owed to an event that hid the first.      *)
THEOREM CopiesAreOwed == UploaderSpec => []CopiesArePaidFor
<1>1. UInv => CopiesArePaidFor
  BY DEF UInv, CopiesKnown, CopiesArePaidFor, Excused
<1> QED
  BY <1>1, UploaderInductive, PTL

(* The process never queues a DONE upload again, though its claims may     *)
(* overlap and so be no statement of the queue.                            *)
THEOREM DoneUploadsInPlay == UploaderSpec => DoneUploadsStay
<1>1. ASSUME UInv, [UploaderNext]_uploaderVars PROVE [Stays]_queueVars
  <2>1. QueueTypeOK
    BY <1>1 DEF UInv, UploaderTypeOK
  <2>2. CASE [QueueNext]_queueVars
    BY <2>1, <2>2, DoneUploadsStep
  <2>3. ASSUME NEW k \in Kinds, At(k, "claiming"), OverlapClaim(task[k]) PROVE Stays
    BY <2>1, <2>3 DEF OverlapClaim, TakeLease, Stays, QueueTypeOK
  <2>4. CASE UNCHANGED uploaderVars
    BY <2>4 DEF uploaderVars
  <2> QED
    BY <1>1, <2>2, <2>3, <2>4, QueueSteps
<1> QED
  BY <1>1, UploaderInductive, PTL DEF UploaderSpec, DoneUploadsStay, Stays

-----------------------------------------------------------------------------
(* When claims are atomic                                                  *)

(* No claim runs between another claim's snapshot and its update ...       *)
ClaimsAreAtomic == "overlap" \notin Allowed
(* ... and no lease lapses under the loop that holds it.                   *)
LeasesOutlast == "overrun" \notin Allowed

NotClaiming == \A k \in Kinds : pc[k] # "claiming"

LEMMA NotClaimingKept ==
  ASSUME ClaimsAreAtomic, UInv, NotClaiming, UploaderNext
  PROVE  NotClaiming'
<1> USE Types
<1>1. ASSUME NEW k \in Kinds, NEW place \in Places \ {"claiming"}, Go(k, place) PROVE NotClaiming'
  BY <1>1 DEF Go, NotClaiming
<1>2. ASSUME UNCHANGED pc PROVE NotClaiming'
  BY <1>2 DEF NotClaiming
<1>3. {"idle", "begin", "queued", "open", "write", "log", "record", "archiveGone", "dropUploaded", "dropCard",
       "archiveCard", "dropLive", "uncard", "clear", "defer", "done", "failing"} = Places \ {"claiming"}
  BY DEF Places
<1>4. {"UPLOAD", "EDIT", "DELETE", "UNAVAILABLE", "RESTORE"} = Kinds
  BY DEF Kinds
<1>5. ASSUME NEW k \in Kinds, LoopStep(k) PROVE NotClaiming'
  <2>1. ~Look(k) /\ ~Take(k)
    BY DEF Look, Spend, Take, At, ClaimsAreAtomic, NotClaiming
  <2> QED
    BY <1>1, <1>3, <1>5, <2>1 DEF LoopStep, ClaimTask, FinishTask, DeferTask, FailTask, LetGo
<1>6. ASSUME NEW k \in Kinds, WorkerStep(k) PROVE NotClaiming'
  BY <1>1, <1>3, <1>6 DEF WorkerStep, Record, ArchiveGone, DropUploaded, DropCard, ArchiveCard, DropLive,
     OpenSession, OpenFails, AbandonSession, CommitRefused, Abandoned, Break
<1>7. CASE UploadStep
  <2>1. ASSUME LogCommit PROVE NotClaiming'
    <3>1. (IF got["UPLOAD"] = None THEN "done" ELSE "record") \in Places \ {"claiming"}
      BY DEF Places
    <3> QED
      BY <1>1, <1>4, <2>1, <3>1 DEF LogCommit
  <2> QED
    BY <1>1, <1>3, <1>4, <1>7, <2>1 DEF UploadStep, BeginUpload, CommitUpload, CommitUnheard, LogFails, JoinQueue
<1>8. CASE EditStep
  <2>1. (IF Visible(Target("EDIT")) THEN "write" ELSE "failing") \in Places \ {"claiming"}
    BY DEF Places
  <2> QED
    BY <1>1, <1>3, <1>4, <1>8, <2>1 DEF EditStep, BeginEdit, WriteEdit
<1>9. CASE DeleteStep
  <2>1. (IF Visible(Target("DELETE")) THEN "write" ELSE "archiveGone") \in Places \ {"claiming"}
    BY DEF Places
  <2> QED
    BY <1>1, <1>3, <1>4, <1>9, <2>1 DEF DeleteStep, BeginDelete, WriteDelete
<1>10. CASE CardStep \/ RestoreStep
  BY <1>1, <1>3, <1>4, <1>10 DEF CardStep, BeginCard, CommitCard, VerifyCard, ClearMarker, RestoreStep,
     BeginRestore, CommitRestore, Uncard, JoinQueue
<1>11. CASE (\E t \in Tasks : TaskStep(t)) \/ (\E s \in Scopes : Report(s)) \/ (\E i \in Ids : MangaDexStep(i)) \/ Sweep
  BY <1>2, <1>11 DEF TaskStep, Produce, Operate, Lapse, Due, Report, MangaDexStep, Show, Land, Sweep, KeepProcess, loopVars
<1>12. CASE Crash
  BY <1>12 DEF Crash, NotClaiming
<1> QED
  BY <1>5, <1>6, <1>7, <1>8, <1>9, <1>10, <1>11, <1>12 DEF UploaderNext

LEMMA NotClaimingInductive ==
  ASSUME ClaimsAreAtomic
  PROVE  UploaderSpec => []NotClaiming
<1>1. UploaderInit => NotClaiming
  BY DEF UploaderInit, NotClaiming
<1>2. UInv /\ NotClaiming /\ [UploaderNext]_uploaderVars => NotClaiming'
  BY NotClaimingKept DEF uploaderVars, loopVars, NotClaiming
<1> QED
  BY <1>1, <1>2, UploaderInductive, PTL DEF UploaderSpec

LEMMA QueueStepsOnly ==
  ASSUME UInv, NotClaiming, [UploaderNext]_uploaderVars
  PROVE  [QueueNext]_queueVars
  BY QueueSteps DEF NotClaiming, At, uploaderVars

(* With atomic claims, the uploader, the producers and the operators drive *)
(* the queue by its statements and nothing else: whatever the queue        *)
(* promises holds of the whole process, the interlock for one.             *)
THEOREM UploaderDrivesQueue ==
  ASSUME ClaimsAreAtomic
  PROVE  UploaderSpec => QueueSpec
<1>1. UploaderInit => QueueInit
  BY DEF UploaderInit
<1>2. UInv /\ NotClaiming /\ [UploaderNext]_uploaderVars => [QueueNext]_queueVars
  BY QueueStepsOnly
<1> QED
  BY <1>1, <1>2, UploaderInductive, NotClaimingInductive, PTL DEF UploaderSpec, QueueSpec

(* Who has a row in hand has its lease, and it has not lapsed.             *)
HandsHold == \A k \in Kinds : task[k] # None => tstate[task[k]] = "LEASED" /\ ~lapsed[task[k]]

SameLease(t) == tstate'[t] = tstate[t] /\ lapsed'[t] = lapsed[t]

(* A loop holds its row still, when nobody else writes it.                 *)
LEMMA HandsStayOnTheirRows ==
  ASSUME HandsHold, UNCHANGED task, \A k \in Kinds : task[k] # None => SameLease(task[k])
  PROVE  HandsHold'
  BY DEF HandsHold, SameLease

(* A claim leases the row it takes in hand, a settling step lets go of its *)
(* own, and no producer, operator, run or sweep touches a LEASED row.      *)
LEMMA HandsHoldKept ==
  ASSUME LeasesOutlast, ClaimsAreAtomic, UInv, NotClaiming, HandsHold, UploaderNext
  PROVE  HandsHold'
<1> USE Types
<1>0. QueueTypeOK /\ HandsFit
  BY DEF UInv, UploaderTypeOK
<1>1. \A k \in Kinds : task[k] # None =>
        task[k] \in Tasks /\ tstate[task[k]] = "LEASED" /\ ~lapsed[task[k]] /\ KindOf[task[k]] = k
  BY <1>0 DEF HandsHold, HandsFit, Fits
<1>2. ASSUME NEW k \in Kinds, LoopStep(k) PROVE HandsHold'
  <2>1. ASSUME NEW t \in Tasks, KindOf[t] = k, task' = [task EXCEPT ![k] = t] \/ task' = [task EXCEPT ![k] = None],
               \A u \in Tasks \ {t} : SameLease(u),
               task'[k] # None => tstate'[t] = "LEASED" /\ ~lapsed'[t]
        PROVE  HandsHold'
    <3> SUFFICES ASSUME NEW l \in Kinds, task'[l] # None
                 PROVE  tstate'[task'[l]] = "LEASED" /\ ~lapsed'[task'[l]]
      BY DEF HandsHold
    <3>1. CASE l = k
      BY <2>1, <3>1
    <3>2. CASE l # k
      <4>1. task'[l] = task[l] /\ task[l] # t
        BY <1>1, <2>1, <3>2
      <4> QED
        BY <1>1, <2>1, <4>1 DEF SameLease
    <3> QED
      BY <3>1, <3>2
  <2>2. CASE ClaimTask(k)
    <3>1. PICK t \in Tasks : KindOf[t] = k /\ TakeLease(t) /\ task' = [task EXCEPT ![k] = t]
      BY <2>2 DEF ClaimTask, Claim
    <3>2. \A u \in Tasks \ {t} : SameLease(u)
      BY <1>0, <3>1 DEF TakeLease, QueueTypeOK, SameLease
    <3>3. tstate'[t] = "LEASED" /\ ~lapsed'[t]
      BY <1>0, <3>1 DEF TakeLease, QueueTypeOK
    <3> QED
      BY <2>1, <3>1, <3>2, <3>3
  <2>3. CASE FinishTask(k) \/ DeferTask(k) \/ FailTask(k)
    <3>1. pc[k] # "idle" /\ task' = [task EXCEPT ![k] = None]
      BY <2>3 DEF FinishTask, DeferTask, FailTask, LetGo, At
    <3>2. PICK t \in Tasks : t = task[k] /\ KindOf[t] = k
      BY <3>1, InHandIsKnown
    <3>3. KeepQueue \/ CompleteDone(t) \/ Fail(t) \/ \E r : Defer(t, r)
      BY <2>3, <3>2 DEF FinishTask, DeferTask, FailTask, IfHeld
    <3>4. \A u \in Tasks \ {t} : SameLease(u)
      BY <1>0, <3>3 DEF KeepQueue, queueVars, CompleteDone, Fail, FailAgain, FailForGood, Defer, QueueTypeOK, SameLease
    <3> QED
      BY <2>1, <3>1, <3>2, <3>4
  <2>4. ~Look(k) /\ ~Take(k)
    BY DEF Look, Spend, Take, At, ClaimsAreAtomic, NotClaiming
  <2> QED
    BY <1>2, <2>2, <2>3, <2>4 DEF LoopStep
<1>3. ASSUME UNCHANGED <<task, tstate, lapsed>> PROVE HandsHold'
  BY <1>3, HandsStayOnTheirRows DEF SameLease
<1>4. ASSUME NEW k \in Kinds, WorkerStep(k) PROVE HandsHold'
  BY <1>3, <1>4 DEF WorkerStep, Record, ArchiveGone, DropUploaded, DropCard, ArchiveCard, DropLive,
     OpenSession, OpenFails, AbandonSession, CommitRefused, Abandoned, Break, KeepQueue, queueVars, KeepHands
<1>5. CASE UploadStep \/ EditStep \/ DeleteStep \/ CardStep \/ RestoreStep
  BY <1>3, <1>5 DEF UploadStep, BeginUpload, CommitUpload, CommitUnheard, LogCommit, LogFails, EditStep, BeginEdit,
     WriteEdit, DeleteStep, BeginDelete, WriteDelete, CardStep, BeginCard, CommitCard, VerifyCard, ClearMarker,
     ClearVerifyState, RestoreStep, BeginRestore, CommitRestore, Uncard, KeepQueue, queueVars, KeepHands
<1>6. ASSUME NEW t \in Tasks, TaskStep(t) PROVE HandsHold'
  <2>1. UNCHANGED task
    BY <1>6 DEF TaskStep, Produce, Operate, Lapse, Due, KeepProcess, loopVars
  <2>2. CASE Lapse(t)
    <3>1. \A k \in Kinds : task[k] # t
      BY <2>2 DEF Lapse, InHand, Spend, LeasesOutlast, NotClaiming
    <3>2. \A u \in Tasks \ {t} : SameLease(u)
      BY <1>0, <2>2 DEF Lapse, LeaseLapses, QueueTypeOK, SameLease
    <3> QED
      BY <1>1, <2>1, <3>1, <3>2, HandsStayOnTheirRows
  <2>3. CASE Produce(t) \/ Operate(t) \/ Due(t)
    <3>1. \A u \in Tasks : tstate[u] = "LEASED" => SameLease(u)
      BY <1>0, <2>3 DEF Produce, Enqueue, Queued, Operate, Requeue, Retry, Postpone, Abandon, Remove, Removable, Deleted,
         Due, FallsDue, Settled, QueueTypeOK, SameLease
    <3> QED
      BY <1>1, <2>1, <3>1, HandsStayOnTheirRows
  <2> QED
    BY <1>6, <2>2, <2>3 DEF TaskStep
<1>7. CASE (\E s \in Scopes : Report(s)) \/ Sweep
  <2>1. UNCHANGED task
    BY <1>7 DEF Report, Sweep, KeepProcess, loopVars
  <2>2. \A u \in Tasks : tstate[u] = "LEASED" /\ ~lapsed[u] => SameLease(u)
    BY <1>0, <1>7 DEF Report, SupersedeRenumbered, Renumbered, Deleted, Sweep, SweepExpired, Overdue, QueueTypeOK, SameLease
  <2> QED
    BY <1>1, <2>1, <2>2, HandsStayOnTheirRows
<1>8. CASE \E i \in Ids : MangaDexStep(i)
  BY <1>3, <1>8 DEF MangaDexStep, Show, Land, KeepQueue, queueVars, loopVars
<1>9. CASE Crash
  BY <1>9 DEF Crash, HandsHold
<1> QED
  BY <1>2, <1>4, <1>5, <1>6, <1>7, <1>8, <1>9 DEF UploaderNext

(* Two loops at work on one publisher chapter would hold two leases there. *)
LEMMA HandsApart == UInv /\ HandsHold /\ OneLeasePerScope => OneWorkerPerScope
<1> SUFFICES ASSUME UInv, HandsHold, OneLeasePerScope, NEW k \in Kinds, NEW l \in Kinds,
                    k # l, task[k] # None, task[l] # None
             PROVE  ScopeOf[task[k]] # ScopeOf[task[l]]
  BY DEF OneWorkerPerScope
<1>1. task[k] \in Tasks /\ task[l] \in Tasks /\ KindOf[task[k]] = k /\ KindOf[task[l]] = l
  BY Types DEF UInv, HandsFit, Fits
<1>2. tstate[task[k]] = "LEASED" /\ tstate[task[l]] = "LEASED"
  BY DEF HandsHold
<1> QED
  BY <1>1, <1>2 DEF OneLeasePerScope, Rivals, InScope

LEMMA HandsAlways ==
  ASSUME ClaimsAreAtomic, LeasesOutlast
  PROVE  UploaderSpec => []HandsHold
<1>1. UploaderInit => HandsHold
  BY DEF UploaderInit, HandsHold
<1>2. UInv /\ NotClaiming /\ HandsHold /\ [UploaderNext]_uploaderVars => HandsHold'
  BY HandsHoldKept DEF uploaderVars, loopVars, queueVars, HandsHold
<1> QED
  BY <1>1, <1>2, UploaderInductive, NotClaimingInductive, PTL DEF UploaderSpec

(* Two loops are never at work on the same publisher chapter, as long as   *)
(* claims are atomic and leases outlive their tasks: what the uploader's   *)
(* loops assume of each other, and what the leases alone do not give.      *)
THEOREM WorkersKeepApart ==
  ASSUME ClaimsAreAtomic, LeasesOutlast
  PROVE  UploaderSpec => []OneWorkerPerScope
<1>1. UploaderSpec => []OneLeasePerScope
  BY UploaderDrivesQueue, Interlock
<1> QED
  BY <1>1, HandsAlways, HandsApart, UploaderInductive, PTL
-----------------------------------------------------------------------------
(* The archives                                                            *)

(* MangaDex shows a chapter as soon as it has it ...                       *)
ShownAtOnce == "lag" \notin Allowed
(* ... and no operator cancels or removes a row before it is worked off.   *)
NobodyCancels == "remove" \notin Allowed

(* A chapter of MangaDex is the upload of one publisher chapter: the rows  *)
(* about it carry the scope of the row that made it.                       *)
OneScopeEach == \A r, s \in Scopes : r # s => IdsOf(r) \cap IdsOf(s) = {}

(* A row that will be worked on, or is dead-lettered.                      *)
Alive(t) == tstate[t] \notin {"ABSENT", "DONE"}
Owes(i, kind) == \E t \in Tasks : KindOf[t] = kind /\ TargetOf[t] = i /\ Alive(t)

Buried(i) == i \in deleted /\ i \notin uploaded /\ i \notin unavailable

(* Where the archives and MangaDex differ about a chapter, a row is alive  *)
(* whose kind puts that right: it made the difference, or it would see it. *)
(* A card that may still land is such a difference.                        *)
Straight(i) ==
  /\ i \in deleted => md[i] = "gone"
  /\ i \in unavailable \/ i \in landing => md[i] # "none"
  /\ md[i] # "none" => i \in shown
  /\ md[i] = "gone" /\ ~Buried(i) => Owes(i, "DELETE")
  /\ md[i] = "carded" /\ i \notin unavailable => Owes(i, "UNAVAILABLE")
  /\ md[i] = "live" /\ i \in landing => Owes(i, "UNAVAILABLE")
  /\ md[i] = "live" /\ i \in unavailable => Owes(i, "RESTORE")

(* The awaits a worker of each kind comes to.                              *)
AwaitsOf(k) ==
  {"idle", "begin", "done", "failing"} \cup
  CASE k = "UPLOAD" -> {"queued", "open", "log", "record"}
    [] k = "EDIT" -> {"write", "record"}
    [] k = "DELETE" -> {"write", "archiveGone", "dropUploaded", "dropCard"}
    [] k = "UNAVAILABLE" -> {"queued", "open", "defer", "clear", "archiveGone", "dropUploaded", "dropCard",
                             "archiveCard", "dropLive"}
    [] k = "RESTORE" -> {"queued", "open", "uncard", "record"}

(* What a worker knows of its chapter at each of them, for nobody else is  *)
(* at work on it.                                                          *)
FindsNew == got["UPLOAD"] # None =>
  /\ madeBy[got["UPLOAD"]] = task["UPLOAD"]
  /\ pc["UPLOAD"] \in {"log", "record", "done", "failing"}
  /\ pc["UPLOAD"] \in {"log", "record"} => md[got["UPLOAD"]] # "gone"

FindsEdited(i) == At("EDIT", "record") => got["EDIT"] = i /\ md[i] # "gone"

FindsGone(k, i) ==
  /\ pc[k] \in {"archiveGone", "dropUploaded", "dropCard"} => md[i] = "gone"
  /\ pc[k] \in {"dropUploaded", "dropCard"} => i \in deleted
  /\ pc[k] = "dropCard" => i \notin uploaded

FindsDeleted(i) == FindsGone("DELETE", i) /\ (At("DELETE", "done") => md[i] = "gone" /\ Buried(i))

FindsCarded(i) ==
  /\ FindsGone("UNAVAILABLE", i)
  /\ pc["UNAVAILABLE"] \in {"archiveCard", "dropLive"} => md[i] = "carded"
  /\ At("UNAVAILABLE", "dropLive") => i \in unavailable
  /\ At("UNAVAILABLE", "done") => (md[i] = "gone" /\ Buried(i)) \/ (md[i] = "carded" /\ i \in unavailable)

(* The page may land again under a restore that saw none, and then the row *)
(* that carded the chapter is still to come.                               *)
FindsFree(i) ==
  /\ pc["RESTORE"] \in {"uncard", "record"} => md[i] # "gone"
  /\ At("RESTORE", "uncard") /\ md[i] = "carded" => Owes(i, "UNAVAILABLE")
  /\ At("RESTORE", "record") => got["RESTORE"] = i /\ i \notin unavailable
  /\ At("RESTORE", "done") => md[i] = "gone" \/ i \notin unavailable

Finds(k) ==
  /\ pc[k] \in AwaitsOf(k)
  /\ CASE k = "UPLOAD" -> FindsNew
       [] k = "EDIT" -> FindsEdited(Target(k))
       [] k = "DELETE" -> FindsDeleted(Target(k))
       [] k = "UNAVAILABLE" -> FindsCarded(Target(k))
       [] k = "RESTORE" -> FindsFree(Target(k))

(* Rows are about chapters that exist, and what upload_logs calls the      *)
(* commit of a row is a chapter that row made.                             *)
RowsKnow == \A t \in Tasks : KindOf[t] # "UPLOAD" /\ tstate[t] # "ABSENT" => md[TargetOf[t]] # "none"
Logged == \A t \in Tasks : committedLog[t] # None => madeBy[committedLog[t]] = t

BooksInv ==
  /\ \A i \in Ids : Straight(i)
  /\ \A k \in Kinds : task[k] # None => Finds(k)
  /\ RowsKnow /\ Logged

(* What the rest of the uploader guarantees under these conditions.        *)
Orderly == UInv /\ NotClaiming /\ HandsHold /\ OneWorkerPerScope /\ OneScopeEach

-----------------------------------------------------------------------------
(* Rows and chapters that last                                             *)

(* A row that is no upload stays alive until its worker is done.           *)
LEMMA AliveStays ==
  ASSUME ClaimsAreAtomic, NobodyCancels, UInv, NotClaiming, UploaderNext, NEW t \in Tasks, KindOf[t] # "UPLOAD", Alive(t)
  PROVE  Alive(t)' \/ (FinishTask(KindOf[t]) /\ task[KindOf[t]] = t)
<1> USE QueueAssumption DEF QueueTypeOK
<1>0. QueueTypeOK
  BY Types
<1>1. ASSUME NEW k \in Kinds, LoopStep(k) PROVE Alive(t)' \/ (FinishTask(KindOf[t]) /\ task[KindOf[t]] = t)
  <2>1. CASE ClaimTask(k)
    BY <1>0, <2>1 DEF ClaimTask, Claim, TakeLease, Alive
  <2>2. CASE FinishTask(k)
    <3>1. task[k] \in Tasks /\ KindOf[task[k]] = k
      BY <2>2, InHandIsKnown DEF FinishTask, At
    <3> QED
      BY <1>0, <2>2, <3>1 DEF FinishTask, IfHeld, CompleteDone, KeepQueue, queueVars, Alive
  <2>3. CASE FailTask(k) \/ DeferTask(k)
    BY <1>0, <2>3 DEF FailTask, DeferTask, IfHeld, Fail, FailAgain, FailForGood, Defer, KeepQueue, queueVars, Alive
  <2>4. ~Look(k) /\ ~Take(k)
    BY DEF Look, Spend, Take, At, ClaimsAreAtomic, NotClaiming
  <2> QED
    BY <1>1, <2>1, <2>2, <2>3, <2>4 DEF LoopStep
<1>2. ASSUME tstate' = tstate PROVE Alive(t)'
  BY <1>2 DEF Alive
<1>3. ASSUME NEW k \in Kinds, WorkerStep(k) PROVE tstate' = tstate
  BY <1>3 DEF WorkerStep, Record, ArchiveGone, DropUploaded, DropCard, ArchiveCard, DropLive,
     OpenSession, OpenFails, AbandonSession, CommitRefused, Abandoned, Break, KeepQueue, queueVars
<1>4. CASE UploadStep \/ EditStep \/ DeleteStep \/ CardStep \/ RestoreStep
  <2>1. tstate' = tstate
    BY <1>4 DEF UploadStep, BeginUpload, CommitUpload, CommitUnheard, LogCommit, LogFails, EditStep, BeginEdit,
     WriteEdit, DeleteStep, BeginDelete, WriteDelete, CardStep, BeginCard, CommitCard, VerifyCard, ClearMarker,
     ClearVerifyState, RestoreStep, BeginRestore, CommitRestore, Uncard, KeepQueue, queueVars
  <2> QED
    BY <1>2, <2>1
<1>5. ASSUME NEW u \in Tasks, TaskStep(u) PROVE Alive(t)'
  BY <1>0, <1>5 DEF TaskStep, Produce, Operate, Lapse, Due, Enqueue, Requeue, Queued, Retry, Postpone, FallsDue,
     LeaseLapses, Spend, NobodyCancels, Alive
<1>6. ASSUME NEW s \in Scopes, Report(s) PROVE Alive(t)'
  BY <1>0, <1>6 DEF Report, SupersedeRenumbered, Renumbered, Deleted, Alive
<1>7. CASE Sweep
  BY <1>0, <1>7 DEF Sweep, SweepExpired, Alive
<1>8. CASE (\E i \in Ids : MangaDexStep(i)) \/ Crash
  <2>1. tstate' = tstate
    BY <1>8 DEF MangaDexStep, Show, Land, Crash, KeepQueue, queueVars
  <2> QED
    BY <1>2, <2>1
<1> QED
  BY <1>1, <1>2, <1>3, <1>4, <1>5, <1>6, <1>7, <1>8 DEF UploaderNext

(* What a chapter is owed is owed until the worker on it is done.          *)
LEMMA OwedStays ==
  ASSUME ClaimsAreAtomic, NobodyCancels, UInv, NotClaiming, UploaderNext,
         NEW i, NEW kind \in Kinds \ {"UPLOAD"}, Owes(i, kind), ~(FinishTask(kind) /\ Target(kind) = i)
  PROVE  Owes(i, kind)'
<1>1. PICK t \in Tasks : KindOf[t] = kind /\ TargetOf[t] = i /\ Alive(t)
  BY DEF Owes
<1>2. Alive(t)'
  BY <1>1, AliveStays DEF Target
<1> QED
  BY <1>1, <1>2 DEF Owes

(* A chapter that exists goes on existing, and one that is gone is gone.   *)
LEMMA ChaptersGoOn ==
  ASSUME UInv, UploaderNext, NEW i \in Ids
  PROVE  /\ md[i] # "none" => md'[i] # "none"
         /\ md[i] = "gone" => md'[i] = "gone"
<1> USE Types, UploaderAssumption DEF KeepMangaDex, mangadex, KeepProcess
<1>1. \A j \in landing : md[j] # "gone"
  BY DEF UInv, ChaptersLast
<1>2. ASSUME NEW k \in Kinds, LoopStep(k) \/ WorkerStep(k) PROVE md' = md
  BY <1>2 DEF LoopStep, ClaimTask, Look, Take, FinishTask, FailTask, DeferTask, LetGo, WorkerStep, Record, ArchiveGone,
     DropUploaded, DropCard, ArchiveCard, DropLive, OpenSession, OpenFails, AbandonSession, CommitRefused, Abandoned, Break
<1>3. CASE UploadStep
  BY <1>3 DEF UploadStep, BeginUpload, CommitUpload, CommitUnheard, NewChapter, LogCommit, LogFails
<1>4. CASE EditStep \/ DeleteStep
  BY <1>4 DEF EditStep, BeginEdit, WriteEdit, DeleteStep, BeginDelete, WriteDelete
<1>5. CASE CardStep \/ RestoreStep
  BY <1>5 DEF CardStep, BeginCard, CommitCard, VerifyCard, ClearMarker, RestoreStep, BeginRestore, CommitRestore, Uncard
<1>6. CASE \E j \in Ids : MangaDexStep(j)
  BY <1>1, <1>6 DEF MangaDexStep, Show, Land
<1>7. CASE (\E t \in Tasks : TaskStep(t)) \/ (\E s \in Scopes : Report(s)) \/ Sweep \/ Crash
  BY <1>7 DEF TaskStep, Produce, Operate, Lapse, Due, Report, Sweep, Crash
<1> QED
  BY <1>2, <1>3, <1>4, <1>5, <1>6, <1>7 DEF UploaderNext
-----------------------------------------------------------------------------
(* Every worker minds its own chapter                                      *)

Mine(k) == IF k = "UPLOAD" THEN got[k] ELSE Target(k)

SameAt(i) ==
  /\ md'[i] = md[i]
  /\ i \in deleted' <=> i \in deleted
  /\ i \in unavailable' <=> i \in unavailable
  /\ i \in uploaded' <=> i \in uploaded

LEMMA KindsAre == Kinds = {"UPLOAD", "EDIT", "DELETE", "UNAVAILABLE", "RESTORE"}
  BY DEF Kinds

LEMMA FindsIs ==
  /\ Finds("UPLOAD") <=> pc["UPLOAD"] \in {"idle", "begin", "done", "failing", "queued", "open", "log", "record"} /\ FindsNew
  /\ Finds("EDIT") <=> pc["EDIT"] \in {"idle", "begin", "done", "failing", "write", "record"} /\ FindsEdited(Target("EDIT"))
  /\ Finds("DELETE") <=>
       /\ pc["DELETE"] \in {"idle", "begin", "done", "failing", "write", "archiveGone", "dropUploaded", "dropCard"}
       /\ FindsDeleted(Target("DELETE"))
  /\ Finds("UNAVAILABLE") <=>
       /\ pc["UNAVAILABLE"] \in {"idle", "begin", "done", "failing", "queued", "open", "defer", "clear", "archiveGone",
                                 "dropUploaded", "dropCard", "archiveCard", "dropLive"}
       /\ FindsCarded(Target("UNAVAILABLE"))
  /\ Finds("RESTORE") <=>
       pc["RESTORE"] \in {"idle", "begin", "done", "failing", "queued", "open", "uncard", "record"} /\ FindsFree(Target("RESTORE"))
  BY DEF Finds, AwaitsOf

(* A worker has a chapter that exists, and the row it has in hand is alive. *)
LEMMA HandKnows ==
  ASSUME Orderly, BooksInv, NEW k \in Kinds, task[k] # None
  PROVE  /\ Finds(k) /\ task[k] \in Tasks /\ KindOf[task[k]] = k /\ pc[k] # "idle"
         /\ Alive(task[k]) /\ (k # "UPLOAD" => Target(k) \in Ids /\ md[Target(k)] # "none" /\ Owes(Target(k), k))
<1>1. pc[k] # "idle"
  BY DEF Orderly, UInv, HandsFit, Fits
<1>2. task[k] \in Tasks /\ KindOf[task[k]] = k /\ Target(k) \in Ids
  BY <1>1, InHandIsKnown DEF Orderly
<1>3. tstate[task[k]] = "LEASED"
  BY DEF Orderly, HandsHold
<1> QED
  BY <1>1, <1>2, <1>3 DEF BooksInv, RowsKnow, Alive, Owes, Target

LEMMA HandIsOf ==
  ASSUME Orderly, NEW k \in Kinds, pc[k] # "idle"
  PROVE  task[k] # None
  BY DEF Orderly, UInv, HandsFit, Fits

(* Two workers are at different chapters.                                  *)
LEMMA MineApart ==
  ASSUME Orderly, BooksInv, NEW k \in Kinds, NEW l \in Kinds, k # l, task[k] # None, task[l] # None, Mine(k) # None
  PROVE  Mine(k) # Mine(l)
<1> USE HandKnows, Types, QueueAssumption, UploaderAssumption
<1>1. ScopeOf[task[k]] # ScopeOf[task[l]]
  BY DEF Orderly, OneWorkerPerScope, InHand, NotClaiming
<1>2. ASSUME NEW j \in Kinds, task[j] # None, Mine(j) # None PROVE Mine(j) \in IdsOf(ScopeOf[task[j]])
  <2>1. CASE j = "UPLOAD"
    <3>1. got[j] # None /\ got[j] \in Ids /\ madeBy[got[j]] = task[j]
      BY <1>2, <2>1, FindsIs DEF Mine, FindsNew, Orderly, UInv, HandsFit, Fits
    <3> QED
      BY <1>2, <2>1, <3>1 DEF Mine, IdsOf, InScope
  <2>2. CASE j # "UPLOAD"
    BY <1>2, <2>2 DEF Mine, Target, IdsOf, InScope
  <2> QED
    BY <2>1, <2>2
<1>3. ScopeOf[task[k]] \in Scopes /\ ScopeOf[task[l]] \in Scopes
  OBVIOUS
<1> QED
  BY <1>1, <1>2, <1>3 DEF Orderly, OneScopeEach

LEMMA StraightStays ==
  ASSUME NEW i, Straight(i), SameAt(i), i \in landing' => i \in landing, i \in shown => i \in shown',
         \A kind \in {"DELETE", "UNAVAILABLE", "RESTORE"} : Owes(i, kind) => Owes(i, kind)'
  PROVE  Straight(i)'
  BY DEF Straight, SameAt, Buried

LEMMA FindsStays ==
  ASSUME NEW k \in Kinds, Finds(k), pc'[k] = pc[k], task'[k] = task[k], got'[k] = got[k],
         k = "UPLOAD" /\ got[k] # None => madeBy'[got[k]] = madeBy[got[k]] /\ (md'[got[k]] = "gone" => md[got[k]] = "gone"),
         k # "UPLOAD" => SameAt(Target(k)),
         \A i : Owes(i, "UNAVAILABLE") => Owes(i, "UNAVAILABLE")'
  PROVE  Finds(k)'
<1>1. Target(k)' = Target(k)
  BY DEF Target
<1>2. CASE k = "UPLOAD"
  BY <1>2 DEF Finds, FindsNew
<1>3. CASE k = "EDIT"
  BY <1>1, <1>3 DEF Finds, FindsEdited, SameAt, At
<1>4. CASE k = "DELETE"
  BY <1>1, <1>4 DEF Finds, FindsDeleted, FindsGone, Buried, SameAt, At
<1>5. CASE k = "UNAVAILABLE"
  BY <1>1, <1>5 DEF Finds, FindsCarded, FindsGone, Buried, SameAt, At
<1>6. CASE k = "RESTORE"
  BY <1>1, <1>6 DEF Finds, FindsFree, SameAt, At
<1> QED
  BY <1>2, <1>3, <1>4, <1>5, <1>6, KindsAre

(* One worker goes on, and writes about its own chapter only.              *)
LEMMA WorkerMoves ==
  ASSUME Orderly, BooksInv, NEW k \in Kinds, task[k] # None, NEW mine, mine = Mine(k),
         task' = task, tstate' = tstate, madeBy' = madeBy, shown' = shown, Logged',
         \A l \in Kinds \ {k} : pc'[l] = pc[l] /\ got'[l] = got[l],
         \A j \in Ids : j # mine => SameAt(j) /\ (j \in landing' => j \in landing),
         \A j \in Ids : md'[j] = "none" => md[j] = "none",
         Finds(k)', mine \in Ids => Straight(mine)'
  PROVE  BooksInv'
<1> USE Types, UploaderAssumption DEF Orderly
<1>0. \A i, kind : Owes(i, kind)' = Owes(i, kind)
  BY DEF Owes, Alive
<1>1. ASSUME NEW i \in Ids PROVE Straight(i)'
  <2>1. CASE i = mine
    BY <2>1
  <2>2. CASE i # mine
    <3>1. Straight(i) /\ SameAt(i) /\ (i \in landing' => i \in landing)
      BY <2>2 DEF BooksInv
    <3> QED
      BY <1>0, <3>1, StraightStays
  <2> QED
    BY <2>1, <2>2
<1>2. ASSUME NEW l \in Kinds, task'[l] # None PROVE Finds(l)'
  <2>1. CASE l = k
    BY <2>1
  <2>2. CASE l # k
    <3>1. task[l] # None /\ Finds(l) /\ pc'[l] = pc[l] /\ task'[l] = task[l] /\ got'[l] = got[l]
      BY <1>2, <2>2 DEF BooksInv
    <3>2. Mine(l) # None => Mine(l) # Mine(k)
      BY <2>2, <3>1, MineApart
    <3>3. l # "UPLOAD" => Mine(l) = Target(l) /\ Target(l) \in Ids /\ Target(l) # None
      BY <3>1, HandKnows DEF Mine
    <3>4. l = "UPLOAD" /\ got[l] # None => Mine(l) = got[l] /\ got[l] \in Ids
      BY DEF Mine, UInv, HandsFit, Fits
    <3>5. l # "UPLOAD" => SameAt(Target(l))
      BY <3>2, <3>3
    <3>6. l = "UPLOAD" /\ got[l] # None => SameAt(got[l])
      BY <3>2, <3>4
    <3> QED
      BY <1>0, <3>1, <3>5, <3>6, FindsStays DEF SameAt
  <2> QED
    BY <2>1, <2>2
<1>3. RowsKnow'
  BY QueueAssumption DEF BooksInv, RowsKnow
<1> QED
  BY <1>1, <1>2, <1>3 DEF BooksInv

(* ... and may write nothing at all.                                       *)
LEMMA WorkerGoes ==
  ASSUME Orderly, BooksInv, NEW k \in Kinds, pc[k] # "idle", NEW place, Go(k, place), task' = task, tstate' = tstate,
         UNCHANGED <<md, shown, madeBy, uploaded, unavailable, deleted, committedLog>>,
         landing' \subseteq landing, \A l \in Kinds \ {k} : got'[l] = got[l], Finds(k)'
  PROVE  BooksInv'
<1> USE Types, UploaderAssumption DEF Orderly
<1>1. task[k] # None /\ \A l \in Kinds \ {k} : pc'[l] = pc[l]
  BY HandIsOf DEF Go
<1>2. \A j \in Ids : SameAt(j) /\ (j \in landing' => j \in landing)
  BY DEF SameAt
<1>3. \A i, kind : Owes(i, kind)' = Owes(i, kind)
  BY DEF Owes, Alive
<1>4. \A j \in Ids : Straight(j)'
  BY <1>2, <1>3, StraightStays DEF BooksInv
<1>5. PICK mine : mine = Mine(k)
  OBVIOUS
<1>6. Logged'
  BY DEF BooksInv, Logged
<1> QED
  BY <1>1, <1>2, <1>4, <1>5, <1>6, WorkerMoves
-----------------------------------------------------------------------------
(* The rows move                                                           *)

(* A row that was not there is made of a chapter that is known.            *)
LEMMA RowsAreMade ==
  ASSUME UInv, UploaderNext, NEW t \in Tasks, tstate[t] = "ABSENT", tstate'[t] # "ABSENT"
  PROVE  Known(t)
<1>1. QueueTypeOK
  BY Types
<1>2. ASSUME NEW k \in Kinds, LoopStep(k) PROVE FALSE
  BY <1>1, <1>2, InHandIsKnown DEF LoopStep, ClaimTask, Look, Take, FinishTask, FailTask, DeferTask, IfHeld, Claim, Claimable, TakeLease,
     CompleteDone, Fail, FailAgain, FailForGood, Defer, At, KeepQueue, queueVars, QueueTypeOK
<1>3. tstate' # tstate
  OBVIOUS
<1>4. ASSUME NEW k \in Kinds, WorkerStep(k) PROVE FALSE
  BY <1>3, <1>4 DEF WorkerStep, Record, ArchiveGone, DropUploaded, DropCard, ArchiveCard, DropLive,
     OpenSession, OpenFails, AbandonSession, CommitRefused, Abandoned, Break, KeepQueue, queueVars
<1>5. ~(UploadStep \/ EditStep \/ DeleteStep \/ CardStep \/ RestoreStep)
  BY <1>3 DEF UploadStep, BeginUpload, CommitUpload, CommitUnheard, LogCommit, LogFails, EditStep, BeginEdit,
     WriteEdit, DeleteStep, BeginDelete, WriteDelete, CardStep, BeginCard, CommitCard, VerifyCard, ClearMarker,
     ClearVerifyState, RestoreStep, BeginRestore, CommitRestore, Uncard, KeepQueue, queueVars
<1>6. ASSUME NEW u \in Tasks, TaskStep(u) PROVE u = t /\ (Produce(u) \/ Operate(u))
  BY <1>1, <1>6 DEF TaskStep, Produce, Operate, Lapse, Due, Enqueue, Requeue, Queued, Retry, Postpone, Abandon, Remove,
     Removable, Deleted, FallsDue, LeaseLapses, QueueTypeOK
<1>7. ~Sweep /\ ~\E s \in Scopes : Report(s)
  BY <1>1 DEF Sweep, SweepExpired, Overdue, Report, SupersedeRenumbered, Deleted, QueueTypeOK
<1>8. ~Crash /\ ~\E i \in Ids : MangaDexStep(i)
  BY <1>3 DEF MangaDexStep, Show, Land, Crash, KeepQueue, queueVars
<1> QED
  BY <1>2, <1>4, <1>5, <1>6, <1>7, <1>8 DEF UploaderNext, Produce, Operate

LEMMA RowsKnowKept == ASSUME UInv, RowsKnow, UploaderNext PROVE RowsKnow'
<1> SUFFICES ASSUME NEW t \in Tasks, KindOf[t] # "UPLOAD", tstate'[t] # "ABSENT" PROVE md'[TargetOf[t]] # "none"
  BY DEF RowsKnow
<1> QED
  BY UploaderAssumption, RowsAreMade, ChaptersGoOn DEF RowsKnow, Known

(* Rows move and no chapter does; at most the loop k takes one in hand, or *)
(* settles it.                                                             *)
LEMMA RowsMove ==
  ASSUME ClaimsAreAtomic, NobodyCancels, Orderly, BooksInv, UploaderNext,
         UNCHANGED <<md, shown, madeBy, uploaded, unavailable, deleted, landing, committedLog>>,
         NEW k \in Kinds, \A l \in Kinds \ {k} : pc'[l] = pc[l] /\ task'[l] = task[l] /\ got'[l] = got[l],
         task'[k] # None => Finds(k)',
         NEW mine, FinishTask(k) => mine = Target(k),
         FinishTask(k) /\ mine \in Ids => Straight(mine)'
  PROVE  BooksInv'
<1> USE DEF Orderly
<1>1. \A i \in Ids : SameAt(i)
  BY DEF SameAt
<1>2. ASSUME NEW i \in Ids, NEW kind \in {"DELETE", "UNAVAILABLE", "RESTORE"}, Owes(i, kind), ~(FinishTask(k) /\ i = mine)
      PROVE  Owes(i, kind)'
  <2>1. kind \in Kinds \ {"UPLOAD"}
    BY KindsAre
  <2>2. FinishTask(kind) => kind = k
    BY <2>1, Types DEF FinishTask, LetGo, Go, At
  <2> QED
    BY <1>2, <2>1, <2>2, OwedStays
<1>3. ASSUME NEW i \in Ids PROVE Straight(i)'
  <2>1. CASE FinishTask(k) /\ i = mine
    BY <2>1
  <2>2. CASE ~(FinishTask(k) /\ i = mine)
    <3>1. Straight(i) /\ SameAt(i)
      BY <1>1 DEF BooksInv
    <3> QED
      BY <1>2, <2>2, <3>1, StraightStays
  <2> QED
    BY <2>1, <2>2
<1>4. ASSUME NEW l \in Kinds \ {k}, task'[l] # None PROVE Finds(l)'
  <2>1. task[l] # None /\ Finds(l) /\ pc'[l] = pc[l] /\ task'[l] = task[l] /\ got'[l] = got[l]
    BY <1>4 DEF BooksInv
  <2>2. l # "UPLOAD" => Target(l) \in Ids /\ SameAt(Target(l))
    BY <1>1, <2>1, HandKnows
  <2>3. ASSUME l = "RESTORE", Owes(Target(l), "UNAVAILABLE") PROVE Owes(Target(l), "UNAVAILABLE")'
    <3>1. PICK i \in Ids : i = Target(l)
      BY <2>2, <2>3
    <3>2. FinishTask(k) => task[k] # None
      BY HandIsOf DEF FinishTask, At
    <3>3. FinishTask(k) /\ k = "UNAVAILABLE" => i # mine
      <4>1. k = "UNAVAILABLE" => Mine(k) = Target(k) /\ Mine(l) = Target(l)
        BY <2>3 DEF Mine
      <4>2. FinishTask(k) /\ k = "UNAVAILABLE" => Mine(k) # None
        BY <3>2, <4>1, HandKnows, UploaderAssumption
      <4> QED
        BY <2>1, <3>1, <3>2, <4>1, <4>2, MineApart
    <3>4. ~(FinishTask("UNAVAILABLE") /\ Target("UNAVAILABLE") = i)
      BY <3>3, Types, KindsAre DEF FinishTask, LetGo, Go, At
    <3>5. Owes(i, "UNAVAILABLE")'
      BY <2>3, <3>1, <3>4, OwedStays, KindsAre
    <3>6. Target(l)' = i
      BY <2>1, <3>1 DEF Target
    <3> QED
      BY <3>5, <3>6
  <2>4. CASE l = "RESTORE"
    BY <1>1, <2>1, <2>2, <2>3, <2>4 DEF Finds, FindsFree, SameAt, Target, At
  <2>5. CASE l # "RESTORE"
    <3>1. CASE l = "UPLOAD"
      BY <2>1, <3>1, FindsIs DEF FindsNew, Finds
    <3>2. CASE l \in {"EDIT", "DELETE", "UNAVAILABLE"}
      BY <2>1, <2>2, <2>5, <3>2 DEF Finds, FindsEdited, FindsDeleted, FindsCarded, FindsGone, Buried, SameAt, Target, At
    <3> QED
      BY <2>5, <3>1, <3>2, KindsAre
  <2> QED
    BY <2>4, <2>5
<1>5. RowsKnow' /\ Logged'
  BY RowsKnowKept DEF BooksInv, Logged
<1> QED
  BY <1>3, <1>4, <1>5 DEF BooksInv
(* A claim starts from nothing, a settled row is straight.                 *)
LEMMA LoopKeepsBooks ==
  ASSUME ClaimsAreAtomic, NobodyCancels, Orderly, BooksInv, UploaderNext, NEW k \in Kinds, LoopStep(k)
  PROVE  BooksInv'
<1> USE Types, UploaderAssumption DEF Orderly
<1>1. UNCHANGED <<md, shown, madeBy, uploaded, unavailable, deleted, landing, committedLog>>
  BY DEF LoopStep, ClaimTask, Look, Take, FinishTask, FailTask, DeferTask, LetGo, KeepMangaDex, KeepRecords, mangadex, archiveVars
<1>2. \A l \in Kinds \ {k} : pc'[l] = pc[l] /\ task'[l] = task[l] /\ got'[l] = got[l]
  BY DEF LoopStep, ClaimTask, Look, Take, FinishTask, FailTask, DeferTask, LetGo, Go
<1>3. ~Look(k) /\ ~Take(k)
  BY DEF Look, Spend, Take, At, ClaimsAreAtomic, NotClaiming
<1>4. CASE ClaimTask(k)
  <2>1. PICK t \in Tasks : KindOf[t] = k /\ task' = [task EXCEPT ![k] = t] /\ got' = [got EXCEPT ![k] = Payload(t)]
    BY <1>4 DEF ClaimTask
  <2>2. pc'[k] = "begin" /\ task'[k] = t /\ got'[k] = Payload(t)
    BY <1>4, <2>1 DEF ClaimTask, Go
  <2>3. k = "UPLOAD" => got'[k] = None
    BY <2>1, <2>2 DEF Payload
  <2>4. Finds(k)'
    BY <2>2, <2>3, KindsAre DEF Finds, AwaitsOf, FindsNew, FindsEdited, FindsDeleted, FindsCarded, FindsGone, FindsFree, At
  <2>5. ~FinishTask(k)
    BY <1>4 DEF ClaimTask, FinishTask, At
  <2>6. PICK mine : mine = Target(k)
    OBVIOUS
  <2> QED
    BY <1>1, <1>2, <2>4, <2>5, <2>6, RowsMove
<1>5. CASE DeferTask(k) \/ FailTask(k)
  <2>1. task'[k] = None /\ ~FinishTask(k)
    BY <1>5 DEF DeferTask, FailTask, LetGo, FinishTask, At
  <2>2. PICK mine : mine = Target(k)
    OBVIOUS
  <2> QED
    BY <1>1, <1>2, <2>1, <2>2, RowsMove
<1>6. CASE FinishTask(k)
  <2>1. task'[k] = None /\ At(k, "done") /\ task[k] # None
    BY <1>6, HandIsOf DEF LetGo, FinishTask, At
  <2>2. PICK i \in Ids : i = Target(k)
    BY <2>1, InHandIsKnown DEF At
  <2>3. Finds(k) /\ Straight(i)
    BY <2>1 DEF BooksInv
  <2>4. ASSUME NEW kind \in {"DELETE", "UNAVAILABLE", "RESTORE"} \ {k}, Owes(i, kind) PROVE Owes(i, kind)'
    <3>1. kind \in Kinds \ {"UPLOAD"}
      BY KindsAre
    <3>2. ~FinishTask(kind)
      BY <1>6, <3>1 DEF FinishTask, LetGo, Go, At
    <3> QED
      BY <2>4, <3>1, <3>2, OwedStays
  <2>5. SameAt(i)
    BY <1>1 DEF SameAt
  <2>6. /\ k = "DELETE" => md[i] = "gone" /\ Buried(i)
        /\ k = "UNAVAILABLE" => (md[i] = "gone" /\ Buried(i)) \/ (md[i] = "carded" /\ i \in unavailable)
        /\ k = "RESTORE" => md[i] = "gone" \/ i \notin unavailable
    BY <2>1, <2>2, <2>3, FindsIs DEF FindsDeleted, FindsCarded, FindsFree
  <2>7. Straight(i)'
    BY <1>1, <2>3, <2>4, <2>5, <2>6 DEF Straight, SameAt, Buried
  <2> QED
    BY <1>1, <1>2, <2>1, <2>2, <2>7, RowsMove
<1> QED
  BY <1>3, <1>4, <1>5, <1>6 DEF LoopStep

(* What producers, operators, runs and time do to rows concerns no chapter. *)
LEMMA RowsKeepBooks ==
  ASSUME ClaimsAreAtomic, NobodyCancels, Orderly, BooksInv, UploaderNext,
         (\E t \in Tasks : TaskStep(t)) \/ (\E s \in Scopes : Report(s)) \/ Sweep
  PROVE  BooksInv'
<1> USE DEF Orderly
<1>1. KeepProcess
  BY DEF TaskStep, Produce, Operate, Lapse, Due, Report, Sweep
<1>2. UNCHANGED <<md, shown, madeBy, uploaded, unavailable, deleted, landing, committedLog, pc, task, got>>
  BY <1>1 DEF KeepProcess, loopVars, mangadex, archiveVars
<1>3. \A k \in Kinds : ~FinishTask(k)
  BY <1>2, Types DEF FinishTask, LetGo, Go, At
<1>4. ASSUME NEW i, Owes(i, "UNAVAILABLE") PROVE Owes(i, "UNAVAILABLE")'
  BY <1>3, <1>4, OwedStays, KindsAre
<1>5. PICK k \in Kinds : k = "UPLOAD"
  BY KindsAre
<1>6. task'[k] # None => Finds(k)'
  BY <1>2, <1>4, <1>5, FindsStays DEF BooksInv
<1>7. PICK mine : mine = Target(k)
  OBVIOUS
<1> QED
  BY <1>2, <1>3, <1>6, <1>7, RowsMove

-----------------------------------------------------------------------------
(* The workers                                                             *)

LEMMA GoIs ==
  ASSUME UInv, NEW k \in Kinds, NEW place, Go(k, place)
  PROVE  pc'[k] = place /\ \A l \in Kinds \ {k} : pc'[l] = pc[l]
  BY Types DEF Go

(* MangaDex shows what it has, so what is not visible is gone.             *)
LEMMA UnseenIsGone ==
  ASSUME UInv, BooksInv, NEW i \in Ids, md[i] # "none"
  PROVE  (Visible(i) <=> md[i] # "gone") /\ md[i] \in {"live", "carded", "gone"}
  BY Types DEF BooksInv, Straight, Visible, ChapterStates

(* A worker that goes on and finds nothing new.                            *)
LEMMA FindsLittle ==
  ASSUME UInv, NEW k \in Kinds, Finds(k), NEW place \in AwaitsOf(k), Go(k, place), task' = task, got' = got,
         \/ place \in {"failing", "write", "queued", "open", "defer", "clear"} /\ (k = "UPLOAD" => place = "failing" \/ got[k] = None)
         \/ place = "done" /\ k \in {"UPLOAD", "EDIT"}
         \/ place = "log" /\ got[k] = None,
         madeBy' = madeBy
  PROVE  Finds(k)'
<1>1. pc'[k] = place
  BY GoIs
<1>2. CASE k = "UPLOAD"
  BY <1>1, <1>2 DEF Finds, FindsNew
<1>3. CASE k = "EDIT"
  BY <1>1, <1>3 DEF Finds, FindsEdited, At
<1>4. CASE k \in {"DELETE", "UNAVAILABLE", "RESTORE"}
  BY <1>1, <1>4 DEF Finds, AwaitsOf, FindsDeleted, FindsCarded, FindsGone, FindsFree, At
<1> QED
  BY <1>2, <1>3, <1>4, KindsAre
(* Opening, abandoning and losing a session, and any await that throws.    *)
LEMMA SessionKeepsBooks ==
  ASSUME Orderly, BooksInv, NEW k \in Kinds,
         OpenSession(k) \/ OpenFails(k) \/ AbandonSession(k) \/ CommitRefused(k) \/ Break(k)
  PROVE  BooksInv'
<1> USE DEF Orderly
<1>1. UNCHANGED <<md, shown, madeBy, uploaded, unavailable, deleted, landing, committedLog, task, got, tstate>>
  BY DEF OpenSession, OpenFails, AbandonSession, CommitRefused, Abandoned, Break, KeepQueue, queueVars, KeepRecords,
     KeepMangaDex, KeepHands, mangadex, archiveVars
<1>2. pc[k] # "idle" /\ Finds(k)
  <2>1. pc[k] # "idle"
    BY DEF OpenSession, OpenFails, AbandonSession, CommitRefused, Break, At
  <2> QED
    BY <2>1, HandIsOf DEF BooksInv
<1>3. CASE OpenSession(k)
  <2>1. At(k, "queued") /\ Go(k, "open")
    BY <1>3 DEF OpenSession
  <2>2. "open" \in AwaitsOf(k) /\ (k = "UPLOAD" => got[k] = None)
    BY <1>2, <2>1, KindsAre DEF Finds, AwaitsOf, FindsNew, At
  <2>3. Finds(k)'
    BY <1>1, <1>2, <2>1, <2>2, FindsLittle
  <2> QED
    BY <1>1, <1>2, <2>1, <2>3, WorkerGoes
<1>4. CASE Go(k, "failing")
  <2>1. Finds(k)'
    BY <1>1, <1>2, <1>4, FindsLittle DEF AwaitsOf
  <2> QED
    BY <1>1, <1>2, <1>4, <2>1, WorkerGoes
<1> QED
  BY <1>3, <1>4 DEF OpenFails, AbandonSession, CommitRefused, Abandoned, Break

(* One statement about the chapter at hand.                                *)
LEMMA RecordKeepsBooks == ASSUME Orderly, BooksInv, NEW k \in Kinds, Record(k) PROVE BooksInv'
<1> USE DEF Orderly
<1>1. UNCHANGED <<md, shown, madeBy, unavailable, deleted, landing, committedLog, task, got, tstate>>
  BY DEF Record, KeepQueue, queueVars, KeepMangaDex, KeepHands, mangadex
<1>2. At(k, "record") /\ Go(k, "done") /\ uploaded' = uploaded \cup {got[k]} /\ task[k] # None /\ Finds(k)
  BY HandIsOf DEF Record, At, BooksInv
<1>3. k \in {"UPLOAD", "EDIT", "RESTORE"}
  BY <1>2, FindsIs, KindsAre DEF At
<1>4. got[k] \in Ids /\ got[k] # None /\ Mine(k) = got[k] /\ md[got[k]] # "gone"
  <2>1. got[k] \in Ids
    BY <1>2 DEF UInv, HandsFit, Fits, At
  <2> QED
    BY <1>2, <1>3, <2>1, FindsIs, UploaderAssumption DEF FindsNew, FindsEdited, FindsFree, Mine, At
<1>5. PICK i \in Ids : i = got[k]
  BY <1>4
<1>6. \A j \in Ids : j # i => SameAt(j)
  BY <1>1, <1>2, <1>5 DEF SameAt
<1>7. Straight(i)'
  BY <1>1, <1>2, <1>4, <1>5 DEF BooksInv, Straight, Owes, Alive, Buried
<1>8. Finds(k)'
  <2>1. pc'[k] = "done"
    BY <1>2, GoIs
  <2>2. CASE k \in {"UPLOAD", "EDIT"}
    BY <1>1, <1>2, <2>2, FindsLittle DEF AwaitsOf
  <2>3. CASE k = "RESTORE"
    BY <1>1, <1>2, <2>1, <2>3, FindsIs DEF Finds, AwaitsOf, FindsFree, Target, At
  <2> QED
    BY <1>3, <2>2, <2>3
<1>9. Logged' /\ \A l \in Kinds \ {k} : pc'[l] = pc[l]
  BY <1>1, <1>2, GoIs DEF BooksInv, Logged
<1> QED
  BY <1>1, <1>2, <1>4, <1>5, <1>6, <1>7, <1>8, <1>9, WorkerMoves

LEMMA ArchiveKeepsBooks ==
  ASSUME Orderly, BooksInv, NEW k \in Kinds,
         ArchiveGone(k) \/ DropUploaded(k) \/ DropCard(k) \/ ArchiveCard(k) \/ DropLive(k)
  PROVE  BooksInv'
<1> USE DEF Orderly
<1>1. UNCHANGED <<md, shown, madeBy, landing, committedLog, task, got, tstate>>
  BY DEF ArchiveGone, DropUploaded, DropCard, ArchiveCard, DropLive, KeepQueue, queueVars, KeepMangaDex, KeepHands, mangadex
<1>2. task[k] # None
  BY HandIsOf DEF ArchiveGone, DropUploaded, DropCard, ArchiveCard, DropLive, At
<1>3. k \in {"DELETE", "UNAVAILABLE"} /\ (ArchiveCard(k) \/ DropLive(k) => k = "UNAVAILABLE")
  BY <1>2, HandKnows, FindsIs, KindsAre DEF ArchiveGone, DropUploaded, DropCard, ArchiveCard, DropLive, At
<1>4. PICK i \in Ids : i = Target(k) /\ i = Mine(k)
  BY <1>2, <1>3, HandKnows DEF Mine
<1>5. FindsGone(k, i) /\ (k = "UNAVAILABLE" => FindsCarded(i)) /\ Straight(i)
  BY <1>2, <1>3, <1>4, FindsIs DEF BooksInv, FindsDeleted, FindsCarded
<1>6. \A j \in Ids : j # i => SameAt(j)
  BY <1>1, <1>4 DEF ArchiveGone, DropUploaded, DropCard, ArchiveCard, DropLive, SameAt
<1>7. Straight(i)'
  <2>1. \A kind : Owes(i, kind)' = Owes(i, kind)
    BY <1>1 DEF Owes, Alive
  <2>2. CASE ArchiveGone(k) \/ DropUploaded(k) \/ DropCard(k)
    BY <1>1, <1>4, <1>5, <2>1, <2>2 DEF ArchiveGone, DropUploaded, DropCard, FindsGone, Straight, Buried, At
  <2>3. CASE ArchiveCard(k) \/ DropLive(k)
    BY <1>1, <1>3, <1>4, <1>5, <2>1, <2>3 DEF ArchiveCard, DropLive, FindsCarded, Straight, Buried, At
  <2> QED
    BY <2>2, <2>3
<1>8. Finds(k)'
  <2>1. ASSUME NEW place, Go(k, place) PROVE pc'[k] = place /\ Target(k)' = i
    BY <1>1, <1>4, <2>1, GoIs DEF Target
  <2>2. CASE ArchiveGone(k) \/ DropUploaded(k) \/ DropCard(k)
    <3>1. /\ md'[i] = "gone" /\ pc'[k] \in {"dropUploaded", "dropCard", "done"} /\ i \in deleted'
          /\ pc'[k] \in {"dropCard", "done"} => i \notin uploaded'
          /\ pc'[k] = "done" => i \notin unavailable'
      BY <1>1, <1>4, <1>5, <2>1, <2>2 DEF ArchiveGone, DropUploaded, DropCard, FindsGone, At
    <3>2. Target(k)' = i
      BY <2>1, <2>2 DEF ArchiveGone, DropUploaded, DropCard
    <3> QED
      BY <1>3, <3>1, <3>2 DEF Finds, AwaitsOf, FindsDeleted, FindsCarded, FindsGone, Buried, At
  <2>3. CASE ArchiveCard(k) \/ DropLive(k)
    <3>1. md'[i] = "carded" /\ i \in unavailable' /\ pc'[k] \in {"dropLive", "done"}
      BY <1>1, <1>3, <1>4, <1>5, <2>1, <2>3 DEF ArchiveCard, DropLive, FindsCarded, At
    <3>2. Target(k)' = i /\ k = "UNAVAILABLE"
      BY <1>3, <2>1, <2>3 DEF ArchiveCard, DropLive
    <3> QED
      BY <3>1, <3>2 DEF Finds, AwaitsOf, FindsCarded, FindsGone, At
  <2> QED
    BY <2>2, <2>3
<1>9. Logged' /\ \A l \in Kinds \ {k} : pc'[l] = pc[l]
  BY <1>1, GoIs DEF BooksInv, Logged, ArchiveGone, DropUploaded, DropCard, ArchiveCard, DropLive
<1> QED
  BY <1>1, <1>2, <1>4, <1>6, <1>7, <1>8, <1>9, WorkerMoves
(* A new chapter is in no archive, and no worker is at it.                 *)
LEMMA NewChapterKeepsBooks ==
  ASSUME Orderly, BooksInv, NEW i \in Ids, NewChapter("UPLOAD", i), shown' = shown \cup {i}, At("UPLOAD", "open"),
         UNCHANGED <<uploaded, unavailable, deleted, committedLog, task, tstate>>,
         \A l \in Kinds \ {"UPLOAD"} : pc'[l] = pc[l] /\ got'[l] = got[l],
         Finds("UPLOAD")'
  PROVE  BooksInv'
<1> USE Types, UploaderAssumption DEF Orderly
<1>1. /\ md[i] = "none" /\ md'[i] = "live" /\ landing' = landing
      /\ \A j \in Ids \ {i} : md'[j] = md[j] /\ madeBy'[j] = madeBy[j]
  BY DEF NewChapter
<1>2. \A j, kind : Owes(j, kind)' = Owes(j, kind)
  BY DEF Owes, Alive
<1>3. ASSUME NEW j \in Ids PROVE Straight(j)'
  <2>1. CASE j = i
    BY <1>1, <2>1 DEF BooksInv, Straight
  <2>2. CASE j # i
    <3>1. Straight(j) /\ SameAt(j)
      BY <1>1, <2>2 DEF BooksInv, SameAt
    <3> QED
      BY <1>1, <1>2, <3>1, StraightStays
  <2> QED
    BY <2>1, <2>2
<1>4. ASSUME NEW l \in Kinds \ {"UPLOAD"}, task'[l] # None PROVE Finds(l)'
  <2>1. Finds(l) /\ Target(l) \in Ids /\ md[Target(l)] # "none"
    BY <1>4, HandKnows
  <2>2. SameAt(Target(l))
    BY <1>1, <2>1 DEF SameAt
  <2>3. \A j : Owes(j, "UNAVAILABLE") => Owes(j, "UNAVAILABLE")'
    BY DEF Owes, Alive
  <2>4. pc'[l] = pc[l] /\ task'[l] = task[l] /\ got'[l] = got[l]
    OBVIOUS
  <2> QED
    BY <2>1, <2>2, <2>3, <2>4, FindsStays
<1>5. RowsKnow'
  BY <1>1 DEF BooksInv, RowsKnow
<1>6. ASSUME NEW t \in Tasks, committedLog[t] # None PROVE madeBy'[committedLog[t]] = t
  <2>1. committedLog[t] \in Ids /\ madeBy[committedLog[t]] = t /\ t # None
    BY <1>6 DEF BooksInv, Logged
  <2>2. committedLog[t] # i
    BY <1>1, <2>1 DEF UInv, ChaptersLast
  <2> QED
    BY <1>1, <2>1, <2>2
<1> QED
  BY <1>3, <1>4, <1>5, <1>6 DEF BooksInv, Logged

LEMMA UploadKeepsBooks == ASSUME ShownAtOnce, Orderly, BooksInv, UploadStep PROVE BooksInv'
<1> USE Types, UploaderAssumption DEF Orderly
<1>0. PICK k \in Kinds : k = "UPLOAD"
  BY KindsAre
<1>1. tstate' = tstate /\ UNCHANGED <<task, uploaded, unavailable, deleted>>
  BY DEF UploadStep, BeginUpload, CommitUpload, CommitUnheard, LogCommit, LogFails, KeepQueue, queueVars, KeepRecords, KeepHands, archiveVars
<1>2. pc[k] # "idle" /\ task[k] # None /\ task[k] \in Tasks
  <2>1. pc[k] # "idle"
    BY <1>0 DEF UploadStep, BeginUpload, CommitUpload, CommitUnheard, LogCommit, LogFails, At
  <2> QED
    BY <2>1, HandIsOf, HandKnows
<1>3. Finds(k) /\ FindsNew
  BY <1>0, <1>2, FindsIs DEF BooksInv
<1>4. ASSUME NEW place, Go(k, place) PROVE pc'[k] = place /\ \A l \in Kinds \ {k} : pc'[l] = pc[l]
  BY <1>4, GoIs
<1>5. CASE BeginUpload
  <2> USE <1>5 DEF BeginUpload
  <2>1. got[k] = None /\ UNCHANGED <<md, shown, madeBy, landing, committedLog>> /\ \A l \in Kinds \ {k} : got'[l] = got[l]
    BY <1>0, <1>3 DEF FindsNew, At, KeepMangaDex, mangadex, KeepRecords
  <2>2. CASE AlreadyThere(task[k]) /\ got' = [got EXCEPT ![k] = committedLog[task[k]]] /\ Go(k, "record")
    <3>1. got'[k] = committedLog[task[k]] /\ committedLog[task[k]] # None /\ pc'[k] = "record"
      BY <1>4, <2>2 DEF AlreadyThere
    <3>2. madeBy[committedLog[task[k]]] = task[k] /\ md[committedLog[task[k]]] # "gone"
      BY <1>2, <2>2 DEF BooksInv, Logged, AlreadyThere, Visible
    <3>3. Finds(k)'
      BY <1>0, <1>1, <2>1, <3>1, <3>2 DEF Finds, AwaitsOf, FindsNew
    <3> QED
      BY <1>1, <1>2, <2>1, <2>2, <3>3, WorkerGoes
  <2>3. CASE Go(k, "queued") /\ UNCHANGED got
    <3>1. "queued" \in AwaitsOf(k)
      BY <1>0 DEF AwaitsOf
    <3>2. Finds(k)'
      BY <1>1, <1>3, <2>1, <2>3, <3>1, FindsLittle
    <3> QED
      BY <1>1, <1>2, <2>1, <2>3, <3>2, WorkerGoes
  <2> QED
    BY <1>0, <2>2, <2>3 DEF JoinQueue
<1>6. CASE CommitUpload
  <2>1. PICK i \in Ids : /\ NewChapter(k, i) /\ got' = [got EXCEPT ![k] = i]
                         /\ shown' = shown \cup {i}
    BY <1>0, <1>6 DEF CommitUpload, Spend, ShownAtOnce
  <2>2. Go(k, "log") /\ committedLog' = committedLog /\ At(k, "open")
    BY <1>0, <1>6 DEF CommitUpload, KeepRecords
  <2>3. pc'[k] = "log" /\ got'[k] = i /\ madeBy'[i] = task[k] /\ md'[i] = "live"
    BY <1>4, <2>1, <2>2 DEF NewChapter
  <2>4. Finds(k)'
    BY <1>0, <1>1, <2>3 DEF Finds, AwaitsOf, FindsNew
  <2>5. \A l \in Kinds \ {k} : pc'[l] = pc[l] /\ got'[l] = got[l]
    BY <1>4, <2>1, <2>2
  <2> QED
    BY <1>0, <1>1, <2>1, <2>2, <2>4, <2>5, NewChapterKeepsBooks
<1>7. CASE CommitUnheard
  <2>1. PICK i \in Ids : NewChapter(k, i) /\ shown' = shown \cup {i}
    BY <1>0, <1>7 DEF CommitUnheard
  <2>2. got' = got /\ committedLog' = committedLog /\ At(k, "open") /\ got[k] = None
    BY <1>0, <1>3, <1>7 DEF CommitUnheard, KeepRecords, FindsNew, At
  <2>3. PICK place \in {"failing", "log"} : Go(k, place)
    BY <1>0, <1>7 DEF CommitUnheard
  <2>4. Finds(k)'
    BY <1>0, <1>4, <2>2, <2>3 DEF Finds, AwaitsOf, FindsNew
  <2>5. \A l \in Kinds \ {k} : pc'[l] = pc[l] /\ got'[l] = got[l]
    BY <1>4, <2>2, <2>3
  <2> QED
    BY <1>0, <1>1, <2>1, <2>2, <2>4, <2>5, NewChapterKeepsBooks
<1>8. CASE LogCommit
  <2> USE <1>8 DEF LogCommit
  <2>1. UNCHANGED <<md, shown, madeBy, landing, got>> /\ At(k, "log")
    BY <1>0 DEF KeepMangaDex, mangadex, KeepHands
  <2>2. Logged'
    BY <1>0, <1>1, <1>2, <1>3, <2>1 DEF BooksInv, Logged, FindsNew
  <2>3. PICK place \in {"done", "record"} : Go(k, place) /\ (got[k] = None => place = "done")
    BY <1>0
  <2>4. Finds(k)'
    BY <1>0, <1>1, <1>3, <1>4, <2>1, <2>3 DEF Finds, AwaitsOf, FindsNew, At
  <2>5. \A j \in Ids : SameAt(j)
    BY <1>1, <2>1 DEF SameAt
  <2>6. \A j \in Ids : Straight(j)'
    BY <1>1, <2>1 DEF BooksInv, Straight, Owes, Alive, Buried
  <2>7. PICK mine : mine = Mine(k)
    OBVIOUS
  <2>8. \A l \in Kinds \ {k} : pc'[l] = pc[l]
    BY <1>4, <2>3
  <2> QED
    BY <1>1, <1>2, <2>1, <2>2, <2>4, <2>5, <2>6, <2>7, <2>8, WorkerMoves
<1>9. CASE LogFails
  <2>1. UNCHANGED <<md, shown, madeBy, landing, got, committedLog>> /\ Go(k, "failing")
    BY <1>0, <1>9 DEF LogFails, KeepMangaDex, mangadex, KeepHands, KeepRecords
  <2>2. Finds(k)'
    BY <1>1, <1>3, <2>1, FindsLittle DEF AwaitsOf
  <2> QED
    BY <1>1, <1>2, <2>1, <2>2, WorkerGoes
<1> QED
  BY <1>5, <1>6, <1>7, <1>8, <1>9 DEF UploadStep

LEMMA EditKeepsBooks == ASSUME Orderly, BooksInv, EditStep PROVE BooksInv'
<1> USE DEF Orderly
<1>0. PICK k \in Kinds : k = "EDIT"
  BY KindsAre
<1>1. UNCHANGED <<md, shown, madeBy, uploaded, unavailable, deleted, landing, committedLog, task, tstate>>
  BY DEF EditStep, BeginEdit, WriteEdit, KeepQueue, queueVars, KeepRecords, KeepHands, KeepMangaDex, mangadex, archiveVars
<1>2. pc[k] # "idle" /\ task[k] # None
  BY <1>0, HandIsOf DEF EditStep, BeginEdit, WriteEdit, At
<1>3. Finds(k) /\ Target(k) \in Ids /\ md[Target(k)] # "none"
  BY <1>0, <1>2, HandKnows
<1>4. CASE UNCHANGED got /\ \E place \in {"write", "failing"} : Go(k, place)
  <2>1. PICK place \in {"write", "failing"} : Go(k, place)
    BY <1>4
  <2>2. place \in AwaitsOf(k)
    BY <1>0 DEF AwaitsOf
  <2>3. Finds(k)'
    BY <1>0, <1>1, <1>3, <1>4, <2>1, <2>2, FindsLittle
  <2> QED
    BY <1>1, <1>2, <1>4, <2>1, <2>3, WorkerGoes
<1>5. CASE Visible(Target(k)) /\ got' = [got EXCEPT ![k] = Target(k)] /\ Go(k, "record")
  <2>1. got'[k] = Target(k) /\ pc'[k] = "record" /\ md[Target(k)] # "gone"
    BY <1>5, GoIs, Types DEF Visible
  <2>2. Finds(k)'
    BY <1>0, <1>1, <2>1 DEF Finds, AwaitsOf, FindsEdited, Target, At
  <2> QED
    BY <1>1, <1>2, <1>5, <2>2, WorkerGoes
<1> QED
  BY <1>0, <1>4, <1>5 DEF EditStep, BeginEdit, WriteEdit, KeepHands

LEMMA DeleteKeepsBooks == ASSUME Orderly, BooksInv, DeleteStep PROVE BooksInv'
<1> USE DEF Orderly
<1>0. PICK k \in Kinds : k = "DELETE"
  BY KindsAre
<1>1. UNCHANGED <<shown, madeBy, uploaded, unavailable, deleted, committedLog, task, got, tstate>>
  BY DEF DeleteStep, BeginDelete, WriteDelete, KeepQueue, queueVars, KeepRecords, KeepHands, KeepMangaDex, mangadex, archiveVars
<1>2. pc[k] # "idle" /\ task[k] # None
  BY <1>0, HandIsOf DEF DeleteStep, BeginDelete, WriteDelete, At
<1>3. PICK i \in Ids : i = Target(k) /\ i = Mine(k) /\ md[i] # "none" /\ Owes(i, k)
  BY <1>0, <1>2, HandKnows DEF Mine
<1>4. Finds(k) /\ Target(k)' = i
  BY <1>1, <1>2, <1>3, HandKnows DEF Target
<1>5. CASE BeginDelete
  <2>1. UNCHANGED <<md, landing>>
    BY <1>5 DEF BeginDelete, KeepMangaDex, mangadex
  <2>2. PICK place \in {"write", "archiveGone"} : Go(k, place) /\ (place = "archiveGone" => md[i] = "gone")
    BY <1>0, <1>3, <1>5, UnseenIsGone DEF BeginDelete
  <2>3. Finds(k)'
    BY <1>0, <1>1, <1>4, <2>1, <2>2, GoIs DEF Finds, AwaitsOf, FindsDeleted, FindsGone, At
  <2> QED
    BY <1>1, <1>2, <2>1, <2>2, <2>3, WorkerGoes
<1>6. CASE WriteDelete
  <2>1. md' = [md EXCEPT ![i] = "gone"] /\ landing' = landing \ {i}
    BY <1>0, <1>3, <1>6 DEF WriteDelete
  <2>2. PICK place \in {"archiveGone", "failing"} : Go(k, place)
    BY <1>0, <1>6 DEF WriteDelete
  <2>3. md'[i] = "gone" /\ \A j \in Ids \ {i} : md'[j] = md[j]
    BY <2>1, Types
  <2>4. Finds(k)'
    BY <1>0, <1>1, <1>4, <2>2, <2>3, GoIs DEF Finds, AwaitsOf, FindsDeleted, FindsGone, At
  <2>5. Straight(i)'
    BY <1>0, <1>1, <1>3, <2>1, <2>3 DEF BooksInv, Straight, Owes, Alive, Buried
  <2>6. \A j \in Ids : j # i => SameAt(j) /\ (j \in landing' => j \in landing)
    BY <1>1, <2>1, <2>3 DEF SameAt
  <2>7. Logged' /\ \A l \in Kinds \ {k} : pc'[l] = pc[l]
    BY <1>1, <2>2, GoIs DEF BooksInv, Logged
  <2> QED
    BY <1>1, <1>2, <1>3, <2>3, <2>4, <2>5, <2>6, <2>7, WorkerMoves
<1> QED
  BY <1>5, <1>6 DEF DeleteStep
LEMMA CardKeepsBooks == ASSUME Orderly, BooksInv, CardStep PROVE BooksInv'
<1> USE DEF Orderly
<1>0. PICK k \in Kinds : k = "UNAVAILABLE"
  BY KindsAre
<1>1. UNCHANGED <<md, shown, madeBy, uploaded, unavailable, deleted, committedLog, task, got, tstate>>
  BY DEF CardStep, BeginCard, CommitCard, VerifyCard, ClearMarker, ClearVerifyState, KeepQueue, queueVars, KeepRecords, KeepHands,
     KeepMangaDex, mangadex, archiveVars
<1>2. pc[k] # "idle" /\ task[k] # None
  BY <1>0, HandIsOf DEF CardStep, BeginCard, CommitCard, VerifyCard, ClearMarker, At
<1>3. PICK i \in Ids : i = Target(k) /\ i = Mine(k) /\ md[i] # "none" /\ Owes(i, k)
  BY <1>0, <1>2, HandKnows DEF Mine
<1>4. Finds(k) /\ Target(k)' = i
  BY <1>1, <1>2, <1>3, HandKnows DEF Target
<1>5. CASE BeginCard \/ VerifyCard \/ ClearMarker
  <2>1. landing' = landing
    BY <1>5 DEF BeginCard, VerifyCard, ClearMarker, KeepMangaDex, mangadex
  <2>2. PICK place \in {"queued", "defer", "clear", "failing", "archiveGone", "archiveCard"} :
          /\ Go(k, place)
          /\ place = "archiveGone" => md[i] = "gone"
          /\ place = "archiveCard" => md[i] = "carded"
    BY <1>0, <1>3, <1>5, UnseenIsGone DEF BeginCard, VerifyCard, ClearMarker, JoinQueue
  <2>3. Finds(k)'
    BY <1>0, <1>1, <1>4, <2>2, GoIs DEF Finds, AwaitsOf, FindsCarded, FindsGone, At
  <2> QED
    BY <1>1, <1>2, <2>1, <2>2, <2>3, WorkerGoes
<1>6. CASE CommitCard
  <2>1. landing' = landing \cup {i}
    BY <1>0, <1>3, <1>6 DEF CommitCard
  <2>2. PICK place \in {"defer", "failing"} : Go(k, place)
    BY <1>0, <1>6 DEF CommitCard
  <2>3. Finds(k)'
    BY <1>0, <1>1, <1>4, <2>2, GoIs DEF Finds, AwaitsOf, FindsCarded, FindsGone, At
  <2>4. Straight(i)'
    BY <1>0, <1>1, <1>3, <2>1 DEF BooksInv, Straight, Owes, Alive, Buried
  <2>5. \A j \in Ids : j # i => SameAt(j) /\ (j \in landing' => j \in landing)
    BY <1>1, <2>1 DEF SameAt
  <2>6. Logged' /\ \A l \in Kinds \ {k} : pc'[l] = pc[l]
    BY <1>1, <2>2, GoIs DEF BooksInv, Logged
  <2> QED
    BY <1>1, <1>2, <1>3, <2>3, <2>4, <2>5, <2>6, WorkerMoves
<1> QED
  BY <1>5, <1>6 DEF CardStep

LEMMA RestoreKeepsBooks == ASSUME Orderly, BooksInv, RestoreStep PROVE BooksInv'
<1> USE Types DEF Orderly
<1>0. PICK k \in Kinds : k = "RESTORE"
  BY KindsAre
<1>1. UNCHANGED <<shown, madeBy, uploaded, deleted, committedLog, task, tstate>>
  BY DEF RestoreStep, BeginRestore, CommitRestore, Uncard, KeepQueue, queueVars, KeepRecords, KeepMangaDex, mangadex, archiveVars
<1>2. pc[k] # "idle" /\ task[k] # None
  BY <1>0, HandIsOf DEF RestoreStep, BeginRestore, CommitRestore, Uncard, At
<1>3. PICK i \in Ids : i = Target(k) /\ i = Mine(k) /\ md[i] # "none" /\ Owes(i, k)
  BY <1>0, <1>2, HandKnows DEF Mine
<1>4. Finds(k) /\ FindsFree(i) /\ Target(k)' = i
  BY <1>0, <1>1, <1>2, <1>3, HandKnows, FindsIs DEF Target
<1>5. \A kind : Owes(i, kind)' = Owes(i, kind)
  BY <1>1 DEF Owes, Alive
<1>6. CASE BeginRestore
  <2>1. UNCHANGED <<md, landing, unavailable, got>>
    BY <1>6 DEF BeginRestore, KeepMangaDex, mangadex, KeepRecords, archiveVars
  <2>2. PICK place \in {"queued", "done", "uncard"} :
          /\ Go(k, place)
          /\ place = "done" => md[i] = "gone"
          /\ place = "uncard" => md[i] = "live"
    BY <1>0, <1>3, <1>6, UnseenIsGone DEF BeginRestore, JoinQueue
  <2>3. pc'[k] = place
    BY <2>2, GoIs
  <2>4. Finds(k)'
    BY <1>0, <1>4, <2>1, <2>2, <2>3 DEF Finds, AwaitsOf, FindsFree, At
  <2> QED
    BY <1>1, <1>2, <2>1, <2>2, <2>4, WorkerGoes
<1>7. CASE CommitRestore
  <2>1. md[i] # "gone" /\ md' = [md EXCEPT ![i] = "live"] /\ landing' = landing \ {i} /\ UNCHANGED <<got, unavailable>>
    BY <1>0, <1>3, <1>7 DEF CommitRestore, KeepRecords, archiveVars
  <2>2. PICK place \in {"uncard", "failing"} : Go(k, place)
    BY <1>0, <1>7 DEF CommitRestore
  <2>3. md'[i] = "live" /\ pc'[k] = place /\ \A j \in Ids \ {i} : md'[j] = md[j]
    BY <2>1, <2>2, GoIs
  <2>4. Finds(k)'
    BY <1>0, <1>4, <2>2, <2>3 DEF Finds, AwaitsOf, FindsFree, At
  <2>5. Straight(i)'
    BY <1>0, <1>1, <1>3, <1>5, <2>1, <2>3 DEF BooksInv, Straight, Buried
  <2>6. \A j \in Ids : j # i => SameAt(j) /\ (j \in landing' => j \in landing)
    BY <1>1, <2>1, <2>3 DEF SameAt
  <2>7. Logged' /\ \A l \in Kinds \ {k} : pc'[l] = pc[l]
    BY <1>1, <2>2, GoIs DEF BooksInv, Logged
  <2> QED
    BY <1>1, <1>2, <1>3, <2>1, <2>3, <2>4, <2>5, <2>6, <2>7, WorkerMoves
<1>8. CASE Uncard
  <2>1. /\ UNCHANGED <<md, landing>> /\ unavailable' = unavailable \ {i} /\ got' = [got EXCEPT ![k] = i]
        /\ At(k, "uncard") /\ Go(k, "record")
    BY <1>0, <1>3, <1>8 DEF Uncard, KeepMangaDex, mangadex
  <2>2. got'[k] = i /\ pc'[k] = "record" /\ md[i] # "gone"
    BY <1>0, <1>4, <2>1, GoIs DEF FindsFree, At
  <2>3. Finds(k)'
    BY <1>0, <1>4, <2>1, <2>2 DEF Finds, AwaitsOf, FindsFree, At
  <2>4. Straight(i)'
    BY <1>0, <1>1, <1>4, <1>5, <2>1, <2>2 DEF BooksInv, Straight, FindsFree, Buried, At
  <2>5. \A j \in Ids : j # i => SameAt(j)
    BY <1>1, <2>1 DEF SameAt
  <2>6. Logged' /\ \A l \in Kinds \ {k} : pc'[l] = pc[l] /\ got'[l] = got[l]
    BY <1>1, <2>1, GoIs DEF BooksInv, Logged
  <2> QED
    BY <1>1, <1>2, <1>3, <2>1, <2>3, <2>4, <2>5, <2>6, WorkerMoves
<1> QED
  BY <1>6, <1>7, <1>8 DEF RestoreStep

(* A page lands: the row that carded the chapter is to come, whoever else  *)
(* is at the chapter.                                                      *)
LEMMA MangaDexKeepsBooks ==
  ASSUME Orderly, BooksInv, NEW i \in Ids, MangaDexStep(i)
  PROVE  BooksInv'
<1> USE Types, UploaderAssumption DEF Orderly
<1>1. UNCHANGED <<madeBy, uploaded, unavailable, deleted, committedLog, pc, task, got, tstate>>
  BY DEF MangaDexStep, Show, Land, KeepQueue, queueVars, KeepRecords, loopVars, archiveVars
<1>2. \A j, kind : Owes(j, kind)' = Owes(j, kind)
  BY <1>1 DEF Owes, Alive
<1>3. \A j \in Ids : j # i => md'[j] = md[j]
  BY DEF MangaDexStep, Show, Land
<1>4. \/ md'[i] = md[i]
      \/ md[i] \in {"live", "carded"} /\ md'[i] = "carded" /\ (i \notin unavailable => Owes(i, "UNAVAILABLE"))
         /\ (md[i] = "live" => Owes(i, "UNAVAILABLE"))
  <2>1. CASE Show(i)
    BY <2>1 DEF Show
  <2>2. CASE Land(i)
    <3>1. md'[i] = "carded" /\ i \in landing /\ md[i] \in ChapterStates /\ md[i] # "gone"
      BY <2>2 DEF Land, UInv, ChaptersLast
    <3>2. Straight(i)
      BY DEF BooksInv
    <3> QED
      BY <3>1, <3>2 DEF Straight, ChapterStates
  <2> QED
    BY <2>1, <2>2 DEF MangaDexStep
<1>5. shown \subseteq shown' /\ landing' \subseteq landing /\ (md'[i] # md[i] => i \notin landing')
  BY DEF MangaDexStep, Show, Land
<1>6. ASSUME NEW j \in Ids PROVE Straight(j)'
  <2>1. Straight(j)
    BY DEF BooksInv
  <2>2. CASE md'[j] = md[j]
    BY <1>1, <1>2, <1>5, <2>1, <2>2, StraightStays DEF SameAt
  <2>3. CASE md'[j] # md[j]
    <3>1. j = i /\ md[i] \in {"live", "carded"} /\ md'[i] = "carded" /\ (i \notin unavailable => Owes(i, "UNAVAILABLE"))
      BY <1>3, <1>4, <2>3
    <3> QED
      BY <1>1, <1>2, <1>5, <2>1, <3>1 DEF Straight
  <2> QED
    BY <2>2, <2>3
<1>7. ASSUME NEW l \in Kinds, task'[l] # None PROVE Finds(l)'
  <2>1. Finds(l) /\ pc'[l] = pc[l] /\ task'[l] = task[l] /\ got'[l] = got[l]
    BY <1>1, <1>7 DEF BooksInv
  <2>2. l # "UPLOAD" => Target(l) \in Ids /\ Target(l)' = Target(l)
    BY <1>1, <1>7, HandKnows DEF Target
  <2>3. l = "UPLOAD" /\ got[l] # None => got[l] \in Ids
    BY DEF UInv, HandsFit, Fits
  <2>4. CASE l = "UPLOAD"
    <3>1. got[l] # None /\ md'[got[l]] = "gone" => md[got[l]] = "gone"
      BY <1>3, <1>4, <2>3, <2>4
    <3> QED
      BY <1>1, <2>1, <2>4, <3>1 DEF Finds, FindsNew
  <2>5. CASE l # "UPLOAD" /\ md'[Target(l)] = md[Target(l)]
    BY <1>1, <1>2, <2>1, <2>5, FindsStays DEF SameAt
  <2>6. CASE l # "UPLOAD" /\ md'[Target(l)] # md[Target(l)]
    <3>1. Target(l) = i /\ Target(l)' = i
      BY <1>3, <2>2, <2>6
    <3>2. md[i] \in {"live", "carded"} /\ md'[i] = "carded" /\ (md[i] = "live" => Owes(i, "UNAVAILABLE"))
      BY <1>4, <2>6, <3>1
    <3>3. Owes(i, "UNAVAILABLE")' = Owes(i, "UNAVAILABLE")
      BY <1>2
    <3>4. CASE l = "EDIT"
      BY <1>1, <2>1, <3>1, <3>2, <3>4 DEF Finds, AwaitsOf, FindsEdited, At
    <3>5. CASE l \in {"DELETE", "UNAVAILABLE"}
      BY <1>1, <2>1, <3>1, <3>2, <3>5 DEF Finds, AwaitsOf, FindsDeleted, FindsCarded, FindsGone, At
    <3>6. CASE l = "RESTORE"
      BY <1>1, <2>1, <3>1, <3>2, <3>3, <3>6 DEF Finds, AwaitsOf, FindsFree, At
    <3> QED
      BY <2>6, <3>4, <3>5, <3>6, KindsAre
  <2> QED
    BY <2>4, <2>5, <2>6
<1>8. RowsKnow'
  BY <1>1, <1>3, <1>4, QueueAssumption DEF BooksInv, RowsKnow
<1>9. Logged'
  BY <1>1 DEF BooksInv, Logged
<1> QED
  BY <1>6, <1>7, <1>8, <1>9 DEF BooksInv

LEMMA CrashKeepsBooks == ASSUME BooksInv, Crash PROVE BooksInv'
<1>1. UNCHANGED <<md, shown, landing, madeBy, uploaded, unavailable, deleted, committedLog, tstate>>
  BY DEF Crash, KeepQueue, queueVars, KeepRecords, archiveVars
<1>2. \A k \in Kinds : task'[k] = None
  BY DEF Crash
<1>3. \A i \in Ids : Straight(i)'
  BY <1>1 DEF BooksInv, Straight, Owes, Alive, Buried
<1>4. RowsKnow' /\ Logged'
  BY <1>1 DEF BooksInv, RowsKnow, Logged
<1> QED
  BY <1>2, <1>3, <1>4 DEF BooksInv

LEMMA BooksStart == UploaderInit => BooksInv
<1> SUFFICES ASSUME UploaderInit PROVE BooksInv
  OBVIOUS
<1> USE UploaderAssumption DEF UploaderInit, QueueInit
<1>1. \A i \in Ids : Straight(i)
  BY DEF Straight
<1>2. RowsKnow /\ Logged
  BY DEF RowsKnow, Logged
<1> QED
  BY <1>1, <1>2 DEF BooksInv

LEMMA BooksStep ==
  ASSUME ClaimsAreAtomic, NobodyCancels, ShownAtOnce
  PROVE  Orderly /\ BooksInv /\ [UploaderNext]_uploaderVars => BooksInv'
<1>1. ASSUME Orderly, BooksInv, UploaderNext PROVE BooksInv'
  <2>1. ASSUME NEW k \in Kinds, WorkerStep(k) PROVE BooksInv'
    BY <1>1, <2>1, SessionKeepsBooks, RecordKeepsBooks, ArchiveKeepsBooks DEF WorkerStep
  <2> QED
    BY <1>1, <2>1, LoopKeepsBooks, UploadKeepsBooks, EditKeepsBooks, DeleteKeepsBooks, CardKeepsBooks, RestoreKeepsBooks,
       RowsKeepBooks, MangaDexKeepsBooks, CrashKeepsBooks DEF UploaderNext
<1>2. ASSUME BooksInv, UNCHANGED uploaderVars PROVE BooksInv'
  <2>1. UNCHANGED <<md, shown, landing, madeBy, uploaded, unavailable, deleted, committedLog, tstate, pc, task, got>>
    BY <1>2 DEF uploaderVars, loopVars, mangadex, archiveVars, queueVars
  <2>2. \A i \in Ids : Straight(i)'
    BY <1>2, <2>1 DEF BooksInv, Straight, Owes, Alive, Buried
  <2>3. ASSUME NEW k \in Kinds, task'[k] # None PROVE Finds(k)'
    BY <1>2, <2>1, <2>3, FindsStays DEF BooksInv, SameAt, Owes, Alive
  <2>4. RowsKnow' /\ Logged'
    BY <1>2, <2>1 DEF BooksInv, RowsKnow, Logged
  <2> QED
    BY <2>2, <2>3, <2>4 DEF BooksInv
<1> QED
  BY <1>1, <1>2

(* In a quiet scope no row owes its chapters anything.                     *)
LEMMA QuietIsStraight == UInv /\ OneScopeEach /\ BooksInv => ArchivesAgree
<1> SUFFICES ASSUME UInv, OneScopeEach, BooksInv, NEW s \in Scopes, Quiet(s), NEW i \in IdsOf(s)
             PROVE  /\ i \in deleted <=> md[i] = "gone"
                    /\ i \in unavailable <=> md[i] = "carded"
                    /\ i \in uploaded => md[i] # "gone"
  BY DEF ArchivesAgree
<1> USE QueueAssumption, UploaderAssumption
<1>1. i \in Ids
  BY DEF IdsOf, InScope
<1>2. ASSUME NEW kind \in Kinds \ {"UPLOAD"}, Owes(i, kind) PROVE FALSE
  <2>1. PICK t \in Tasks : KindOf[t] = kind /\ TargetOf[t] = i /\ Alive(t)
    BY <1>2 DEF Owes
  <2>2. ScopeOf[t] \in Scopes /\ i \in IdsOf(ScopeOf[t])
    BY <2>1 DEF IdsOf, InScope
  <2>3. ScopeOf[t] = s
    BY <2>2 DEF OneScopeEach
  <2> QED
    BY <2>1, <2>3 DEF Quiet, InScope, Alive
<1>3. ~Owes(i, "DELETE") /\ ~Owes(i, "UNAVAILABLE") /\ ~Owes(i, "RESTORE")
  BY <1>2, KindsAre
<1>4. Straight(i) /\ md[i] \in ChapterStates
  BY <1>1, Types DEF BooksInv
<1> QED
  BY <1>3, <1>4 DEF Straight, Buried, ChapterStates

(* Once nothing about a publisher chapter is queued, at work or            *)
(* dead-lettered, the archives say what MangaDex has of it, wherever the   *)
(* five workers failed, died or had a reply lost in between.  It takes     *)
(* atomic claims, leases that outlive their tasks, a MangaDex that shows   *)
(* what it has, and operators who let a row finish: without any one of     *)
(* them there is a behaviour that ends otherwise.                          *)
THEOREM ArchivesAreRight ==
  ASSUME ClaimsAreAtomic, LeasesOutlast, ShownAtOnce, NobodyCancels
  PROVE  UploaderSpec /\ []OneScopeEach => []ArchivesAgree
<1>1. UploaderSpec => []HandsHold
  BY HandsAlways
<1>2. UploaderSpec => []OneWorkerPerScope
  BY WorkersKeepApart
<1>3. UInv /\ NotClaiming /\ HandsHold /\ OneWorkerPerScope /\ OneScopeEach /\ BooksInv /\ [UploaderNext]_uploaderVars => BooksInv'
  BY BooksStep DEF Orderly
<1>4. UInv /\ OneScopeEach /\ BooksInv => ArchivesAgree
  BY QuietIsStraight
<1> QED
  BY <1>1, <1>2, <1>3, <1>4, BooksStart, UploaderInductive, NotClaimingInductive, PTL DEF UploaderSpec
=============================================================================
