---------------------------- MODULE UploadQueue ----------------------------
(***************************************************************************)
(* The table upload_tasks (src/core/store/uploadTasks.ts): the queue of    *)
(* writes to MangaDex.  A row is named by its kind and dedupe key, which   *)
(* the unique constraint makes an identity, and every action below is ONE  *)
(* statement on it.                                                        *)
(*                                                                         *)
(* There are no lease ids here.  One process drains the queue, with one    *)
(* loop per kind that works on one row at a time, so the lease a loop      *)
(* quotes is the row's own exactly when the row is still LEASED: only that *)
(* loop could have leased it again.                                        *)
(*                                                                         *)
(* Clocks are abstracted to the comparisons made with now(): a row is due  *)
(* or not, a lease has lapsed or not.  FAILED is in the enum and is never  *)
(* written.                                                                *)
(***************************************************************************)
EXTENDS Integers, FiniteSets

CONSTANTS
  Tasks,       \* rows of upload_tasks, by (kind, dedupe_key)
  KindOf,
  Scopes,      \* publisher chapters
  ScopeOf,     \* scopeKeySql: extension, publisher chapter, language
  MaxTries,    \* upload_tasks.max_attempts
  Rounds,      \* Len(CARD_VERIFY_DELAYS_SECONDS)
  ClaimBound   \* bound of the model: claims of a row since it was (re)queued

Kinds == {"RESTORE", "DELETE", "EDIT", "UPLOAD", "UNAVAILABLE"}
QueueStates == {"ABSENT", "PENDING", "LEASED", "DONE", "DEAD_LETTER"}

ASSUME QueueAssumption ==
  /\ KindOf \in [Tasks -> Kinds]
  /\ ScopeOf \in [Tasks -> Scopes]
  /\ MaxTries \in Nat \ {0}
  /\ Rounds \in Nat \ {0}
  /\ ClaimBound \in Nat \ {0}

VARIABLES
  tstate,  \* upload_tasks.state, "ABSENT" when there is no row
  tries,   \* upload_tasks.attempt
  lapsed,  \* upload_tasks.lease_expires_at < now(), of a LEASED row; every
           \* step out of LEASED resets it, for no other row is asked
  ripe,    \* upload_tasks.not_before <= now()
  round    \* chapter.cardVerify.round, 0 without the marker

queueVars == <<tstate, tries, lapsed, ripe, round>>

Settled == {"DONE", "DEAD_LETTER"}
InScope(s) == {t \in Tasks : ScopeOf[t] = s}
Rivals(t) == InScope(ScopeOf[t]) \ {t}

QueueInit ==
  /\ tstate = [t \in Tasks |-> "ABSENT"]
  /\ tries  = [t \in Tasks |-> 0]
  /\ lapsed = [t \in Tasks |-> FALSE]
  /\ ripe   = [t \in Tasks |-> TRUE]
  /\ round  = [t \in Tasks |-> 0]

-----------------------------------------------------------------------------
(* Producers                                                               *)

(* A fresh row, or a settled one reset in place.                           *)
Queued(t, isRipe) ==
  /\ tstate' = [tstate EXCEPT ![t] = "PENDING"]
  /\ tries'  = [tries EXCEPT ![t] = 0]
  /\ ripe'   = [ripe EXCEPT ![t] = isRipe]
  /\ round'  = [round EXCEPT ![t] = 0]
  /\ UNCHANGED lapsed

(* enqueue, createManual: ON CONFLICT DO NOTHING.  The date may lie in the *)
(* future (notBefore, spacing).                                            *)
Enqueue(t) ==
  /\ tstate[t] = "ABSENT"
  /\ \E isRipe \in BOOLEAN : Queued(t, isRipe)

(* Mutant: UPLOAD rows are accepted too.                                   *)
RequeueAnyKind(t) ==
  /\ tstate[t] \in Settled \cup {"ABSENT"}
  /\ Queued(t, TRUE)

(* requeueForChapter, with the new payload and a fresh budget.             *)
Requeue(t) ==
  /\ KindOf[t] # "UPLOAD"
  /\ tstate[t] \in Settled \cup {"ABSENT"}
  /\ Queued(t, TRUE)

Deleted(gone) ==
  /\ tstate' = [t \in Tasks |-> IF t \in gone THEN "ABSENT" ELSE tstate[t]]
  /\ tries'  = [t \in Tasks |-> IF t \in gone THEN 0 ELSE tries[t]]
  /\ ripe'   = [t \in Tasks |-> IF t \in gone THEN TRUE ELSE ripe[t]]
  /\ round'  = [t \in Tasks |-> IF t \in gone THEN 0 ELSE round[t]]
  /\ UNCHANGED lapsed

(* supersedeRenumbered: the run reported chapter s under the numbers of    *)
(* keep, and every other PENDING upload of s is retired.                   *)
Renumbered(s, keep) ==
  {t \in InScope(s) \ keep : KindOf[t] = "UPLOAD" /\ tstate[t] = "PENDING"}

SupersedeRenumbered(s, keep) ==
  /\ Renumbered(s, keep) # {}
  /\ Deleted(Renumbered(s, keep))

-----------------------------------------------------------------------------
(* The drain loops                                                         *)

(* Mutant: the interlock looks at the rows of its own kind only.           *)
ClaimableByKind(t) ==
  /\ tstate[t] = "PENDING" /\ ripe[t] /\ tries[t] < ClaimBound
  /\ \A u \in Rivals(t) : KindOf[u] = KindOf[t] => tstate[u] # "LEASED"

(* What the claim's snapshot must show: the row is due, and no other row   *)
(* about the same chapter is LEASED.                                       *)
Claimable(t) ==
  /\ tstate[t] = "PENDING"
  /\ ripe[t]
  /\ \A u \in Rivals(t) : tstate[u] # "LEASED"
  /\ tries[t] < ClaimBound

TakeLease(t) ==
  /\ tstate' = [tstate EXCEPT ![t] = "LEASED"]
  /\ tries'  = [tries EXCEPT ![t] = @ + 1]
  /\ lapsed' = [lapsed EXCEPT ![t] = FALSE]
  /\ UNCHANGED <<ripe, round>>

(* claim, when nothing else claims between its snapshot and its update.    *)
Claim(t) == Claimable(t) /\ TakeLease(t)

CompleteDone(t) ==
  /\ tstate[t] = "LEASED"
  /\ tstate' = [tstate EXCEPT ![t] = "DONE"]
  /\ lapsed' = [lapsed EXCEPT ![t] = FALSE]
  /\ UNCHANGED <<tries, ripe, round>>

(* defer: back in the queue for later, and the attempt is handed back.     *)
Handed(n) == IF n > 0 THEN n - 1 ELSE 0
Defer(t, r) ==
  /\ tstate[t] = "LEASED"
  /\ tstate' = [tstate EXCEPT ![t] = "PENDING"]
  /\ tries'  = [tries EXCEPT ![t] = Handed(@)]
  /\ lapsed' = [lapsed EXCEPT ![t] = FALSE]
  /\ ripe'   = [ripe EXCEPT ![t] = FALSE]
  /\ round'  = [round EXCEPT ![t] = r]

FailAgain(t) ==
  /\ tries[t] < MaxTries
  /\ tstate' = [tstate EXCEPT ![t] = "PENDING"]
  /\ lapsed' = [lapsed EXCEPT ![t] = FALSE]
  /\ ripe'   = [ripe EXCEPT ![t] = FALSE]
  /\ UNCHANGED <<tries, round>>

FailForGood(t) ==
  /\ tries[t] >= MaxTries
  /\ tstate' = [tstate EXCEPT ![t] = "DEAD_LETTER"]
  /\ lapsed' = [lapsed EXCEPT ![t] = FALSE]
  /\ UNCHANGED <<tries, ripe, round>>

Fail(t) == tstate[t] = "LEASED" /\ (FailAgain(t) \/ FailForGood(t))

(* clearVerifyState: by id, whatever became of the row meanwhile.          *)
ClearVerifyState(t) ==
  /\ round' = [round EXCEPT ![t] = 0]
  /\ UNCHANGED <<tstate, tries, lapsed, ripe>>

(* sweepExpired, of the house loop or of an operator: all of them at once. *)
(* The attempts are not looked at, so a row whose uploader dies every time *)
(* is never dead-lettered.                                                 *)
Overdue == {t \in Tasks : tstate[t] = "LEASED" /\ lapsed[t]}

SweepExpired ==
  /\ Overdue # {}
  /\ tstate' = [t \in Tasks |-> IF t \in Overdue THEN "PENDING" ELSE tstate[t]]
  /\ lapsed' = [t \in Tasks |-> IF t \in Overdue THEN FALSE ELSE lapsed[t]]
  /\ UNCHANGED <<tries, ripe, round>>

-----------------------------------------------------------------------------
(* Operators                                                               *)

(* retryMany, POST /upload-tasks/:id/retry.  The payload is kept.          *)
Retry(t) ==
  /\ tstate[t] = "DEAD_LETTER"
  /\ tstate' = [tstate EXCEPT ![t] = "PENDING"]
  /\ tries'  = [tries EXCEPT ![t] = 0]
  /\ ripe'   = [ripe EXCEPT ![t] = TRUE]
  /\ UNCHANGED <<lapsed, round>>

(* removeMany, purge: DONE only when the operator says so.                 *)
Removable(includeCompleted) ==
  {"PENDING", "DEAD_LETTER"} \cup (IF includeCompleted THEN {"DONE"} ELSE {})

Remove(t, includeCompleted) ==
  /\ tstate[t] \in Removable(includeCompleted)
  /\ Deleted({t})

(* POST /upload-tasks/:id/cancel: there is no CANCELLED state.             *)
Abandon(t) ==
  /\ tstate[t] \in {"PENDING", "DEAD_LETTER"}
  /\ tstate' = [tstate EXCEPT ![t] = "DONE"]
  /\ UNCHANGED <<tries, lapsed, ripe, round>>

(* reorder, restagger: a PENDING row gets another date.  Bringing one      *)
(* forward is FallsDue early.                                              *)
Postpone(t) ==
  /\ tstate[t] = "PENDING" /\ ripe[t]
  /\ ripe' = [ripe EXCEPT ![t] = FALSE]
  /\ UNCHANGED <<tstate, tries, lapsed, round>>

-----------------------------------------------------------------------------
(* Time                                                                    *)

FallsDue(t) ==
  /\ tstate[t] = "PENDING" /\ ~ripe[t]
  /\ ripe' = [ripe EXCEPT ![t] = TRUE]
  /\ UNCHANGED <<tstate, tries, lapsed, round>>

LeaseLapses(t) ==
  /\ tstate[t] = "LEASED" /\ ~lapsed[t]
  /\ lapsed' = [lapsed EXCEPT ![t] = TRUE]
  /\ UNCHANGED <<tstate, tries, ripe, round>>

-----------------------------------------------------------------------------
ProducerStep(t) == Enqueue(t) \/ Requeue(t)
DrainStep(t) ==
  \/ Claim(t) \/ CompleteDone(t) \/ Fail(t) \/ ClearVerifyState(t)
  \/ \E r \in 1..Rounds : Defer(t, r)
OperatorStep(t) ==
  \/ Retry(t) \/ Abandon(t) \/ Postpone(t)
  \/ \E includeCompleted \in BOOLEAN : Remove(t, includeCompleted)

QueueNext ==
  \/ \E t \in Tasks : ProducerStep(t) \/ DrainStep(t) \/ OperatorStep(t)
  \/ \E t \in Tasks : FallsDue(t) \/ LeaseLapses(t)
  \/ \E s \in Scopes : \E keep \in SUBSET InScope(s) : SupersedeRenumbered(s, keep)
  \/ SweepExpired

QueueSpec == QueueInit /\ [][QueueNext]_queueVars

-----------------------------------------------------------------------------
(* Properties                                                              *)

(* The columns keep their types, and a row that is not there carries       *)
(* nothing over to the row that takes its key next.                        *)
QueueTypeOK ==
  /\ tstate \in [Tasks -> QueueStates]
  /\ tries  \in [Tasks -> 0..ClaimBound]
  /\ lapsed \in [Tasks -> BOOLEAN]
  /\ ripe   \in [Tasks -> BOOLEAN]
  /\ round  \in [Tasks -> 0..Rounds]
  /\ \A t \in Tasks : tstate[t] = "ABSENT" => tries[t] = 0 /\ round[t] = 0

(* The interlock of the claim: no two rows about one chapter are LEASED.   *)
OneLeasePerScope ==
  \A t \in Tasks : \A u \in Rivals(t) : ~(tstate[t] = "LEASED" /\ tstate[u] = "LEASED")

(* A DONE upload is never queued again: it is half of the guard against    *)
(* uploading a chapter twice (REMOVABLE_STATES, requeueForChapter).  The   *)
(* only way out is an operator who deletes it.                             *)
DoneUploadsStay ==
  [][\A t \in Tasks : KindOf[t] = "UPLOAD" /\ tstate[t] = "DONE"
       => tstate'[t] \in {"DONE", "ABSENT"}]_queueVars
=============================================================================
