------------------------ MODULE UploadQueue_proofs ------------------------
(***************************************************************************)
(* What the statements of the upload queue guarantee for any set of rows,  *)
(* publisher chapters, kinds and bounds: the types, the interlock between  *)
(* rows about one chapter, and the half of the double-upload guard that    *)
(* the queue holds.                                                        *)
(***************************************************************************)
EXTENDS UploadQueue, TLAPS

(* The interlock needs no more than the types of the columns to be kept by *)
(* every statement.                                                        *)
QueueInv == QueueTypeOK /\ OneLeasePerScope

(* A statement after which no row is LEASED that was not before keeps the  *)
(* interlock: all of them but the claim.                                   *)
NoNewLease == \A t \in Tasks : tstate'[t] = "LEASED" => tstate[t] = "LEASED"

(* The interlock survives a step that leases no row: the fact that every   *)
(* statement but claim relies on.                                          *)
LEMMA NoNewLeaseKeepsInterlock ==
  ASSUME OneLeasePerScope, NoNewLease
  PROVE  OneLeasePerScope'
  BY DEF OneLeasePerScope, NoNewLease, Rivals, InScope

(* A fresh queue has no leases, and its columns have their defaults.       *)
LEMMA QueueInitOK == QueueInit => QueueInv
  BY QueueAssumption DEF QueueInit, QueueInv, QueueTypeOK, OneLeasePerScope, QueueStates

(* enqueue and requeueForChapter write a PENDING row with a fresh budget.  *)
LEMMA ProducerKeeps ==
  ASSUME QueueTypeOK, NEW t \in Tasks, ProducerStep(t)
  PROVE  QueueTypeOK' /\ NoNewLease
<1>1. PICK isRipe \in BOOLEAN : Queued(t, isRipe)
  BY DEF ProducerStep, Enqueue, Requeue
<1>2. QueueTypeOK'
  BY <1>1, QueueAssumption DEF QueueTypeOK, Queued, QueueStates
<1>3. NoNewLease
  BY <1>1 DEF Queued, NoNewLease, QueueTypeOK
<1> QED
  BY <1>2, <1>3

(* A lease that is taken costs an attempt.                                 *)
LEMMA LeaseTypes ==
  ASSUME QueueTypeOK, NEW t \in Tasks, TakeLease(t), tries[t] < ClaimBound
  PROVE  QueueTypeOK'
  BY QueueAssumption DEF QueueTypeOK, TakeLease, QueueStates

(* claim: the rivals were not LEASED in its snapshot, and it leases one    *)
(* row.                                                                    *)
LEMMA ClaimKeeps ==
  ASSUME QueueInv, NEW t \in Tasks, Claim(t)
  PROVE  QueueInv'
<1>1. QueueTypeOK'
  BY LeaseTypes DEF QueueInv, Claim, Claimable
<1>2. OneLeasePerScope'
  <2> SUFFICES ASSUME NEW a \in Tasks, NEW b \in Rivals(a),
                      tstate'[a] = "LEASED", tstate'[b] = "LEASED"
               PROVE  FALSE
    BY DEF OneLeasePerScope, Rivals, InScope
  <2>1. b \in Tasks /\ a # b /\ ScopeOf[a] = ScopeOf[b]
    BY DEF Rivals, InScope
  <2>2. \A u \in Rivals(t) : tstate[u] # "LEASED" /\ tstate'[u] = tstate[u]
    BY DEF Claim, Claimable, TakeLease, Rivals, InScope, QueueInv, QueueTypeOK
  <2>3. CASE a = t
    BY <2>1, <2>2, <2>3 DEF Rivals, InScope
  <2>4. CASE b = t
    BY <2>1, <2>2, <2>4 DEF Rivals, InScope
  <2>5. CASE a # t /\ b # t
    <3>1. tstate[a] = "LEASED" /\ tstate[b] = "LEASED"
      BY <2>1, <2>5 DEF Claim, TakeLease, QueueInv, QueueTypeOK
    <3> QED
      BY <2>1, <3>1 DEF QueueInv, OneLeasePerScope
  <2> QED
    BY <2>3, <2>4, <2>5
<1> QED
  BY <1>1, <1>2 DEF QueueInv

(* completeDone, fail, defer and clearVerifyState take leases away only.   *)
LEMMA SettleKeeps ==
  ASSUME QueueTypeOK, NEW t \in Tasks,
         CompleteDone(t) \/ Fail(t) \/ ClearVerifyState(t) \/ \E r \in 1..Rounds : Defer(t, r)
  PROVE  QueueTypeOK' /\ NoNewLease
<1>1. CASE CompleteDone(t)
  <2>1. QueueTypeOK'
    BY <1>1 DEF QueueTypeOK, CompleteDone, QueueStates
  <2>2. NoNewLease
    BY <1>1 DEF CompleteDone, NoNewLease, QueueTypeOK
  <2> QED
    BY <2>1, <2>2
<1>2. CASE Fail(t)
  <2>1. QueueTypeOK'
    BY <1>2 DEF QueueTypeOK, Fail, FailAgain, FailForGood, QueueStates
  <2>2. NoNewLease
    BY <1>2 DEF Fail, FailAgain, FailForGood, NoNewLease, QueueTypeOK
  <2> QED
    BY <2>1, <2>2
<1>3. CASE ClearVerifyState(t)
  <2>1. QueueTypeOK'
    BY <1>3, QueueAssumption DEF QueueTypeOK, ClearVerifyState
  <2>2. NoNewLease
    BY <1>3 DEF ClearVerifyState, NoNewLease
  <2> QED
    BY <2>1, <2>2
<1>4. CASE \E r \in 1..Rounds : Defer(t, r)
  <2>1. PICK r \in 1..Rounds : Defer(t, r)
    BY <1>4
  <2>2. QueueTypeOK'
    BY <2>1, QueueAssumption DEF QueueTypeOK, Defer, Handed, QueueStates
  <2>3. NoNewLease
    BY <2>1 DEF Defer, NoNewLease, QueueTypeOK
  <2> QED
    BY <2>2, <2>3
<1> QED
  BY <1>1, <1>2, <1>3, <1>4

(* A deletion (removeMany, purge, supersedeRenumbered) leaves nothing of   *)
(* the rows it takes.                                                      *)
LEMMA DeletedKeeps ==
  ASSUME QueueTypeOK, NEW gone \in SUBSET Tasks, Deleted(gone)
  PROVE  QueueTypeOK' /\ NoNewLease
<1>1. QueueTypeOK'
  <2>1. /\ 0 \in 0..ClaimBound /\ 0 \in 0..Rounds
        /\ "ABSENT" \in QueueStates /\ TRUE \in BOOLEAN
    BY QueueAssumption DEF QueueStates
  <2>2. tstate' \in [Tasks -> QueueStates]
    BY <2>1 DEF QueueTypeOK, Deleted
  <2>3. tries' \in [Tasks -> 0..ClaimBound]
    BY <2>1 DEF QueueTypeOK, Deleted
  <2>4. lapsed' \in [Tasks -> BOOLEAN] /\ ripe' \in [Tasks -> BOOLEAN]
    BY DEF QueueTypeOK, Deleted
  <2>5. round' \in [Tasks -> 0..Rounds]
    BY <2>1 DEF QueueTypeOK, Deleted
  <2>6. ASSUME NEW t \in Tasks, tstate'[t] = "ABSENT"
        PROVE  tries'[t] = 0 /\ round'[t] = 0
    BY <2>6 DEF QueueTypeOK, Deleted
  <2> QED
    BY <2>2, <2>3, <2>4, <2>5, <2>6 DEF QueueTypeOK
<1>2. NoNewLease
  BY DEF Deleted, NoNewLease, QueueTypeOK
<1> QED
  BY <1>1, <1>2

(* retry, cancel and removal never touch a LEASED row, nor lease one.      *)
LEMMA OperatorKeeps ==
  ASSUME QueueTypeOK, NEW t \in Tasks, OperatorStep(t)
  PROVE  QueueTypeOK' /\ NoNewLease
<1>1. CASE Retry(t) \/ Abandon(t) \/ Postpone(t)
  <2>1. QueueTypeOK'
    <3>1. /\ 0 \in 0..ClaimBound
          /\ tstate[t] \in {"PENDING", "DEAD_LETTER"}
          /\ \A u \in Tasks : tstate'[u] = "ABSENT" => tstate[u] = "ABSENT"
      BY <1>1, QueueAssumption DEF QueueTypeOK, Retry, Abandon, Postpone
    <3>2. CASE Retry(t)
      BY <3>1, <3>2 DEF QueueTypeOK, Retry, QueueStates
    <3>3. CASE Abandon(t)
      BY <3>1, <3>3 DEF QueueTypeOK, Abandon, QueueStates
    <3>4. CASE Postpone(t)
      BY <3>1, <3>4 DEF QueueTypeOK, Postpone, QueueStates
    <3> QED
      BY <1>1, <3>2, <3>3, <3>4
  <2>2. NoNewLease
    BY <1>1 DEF Retry, Abandon, Postpone, NoNewLease, QueueTypeOK
  <2> QED
    BY <2>1, <2>2
<1>2. CASE \E includeCompleted \in BOOLEAN : Remove(t, includeCompleted)
  BY <1>2, DeletedKeeps DEF Remove
<1> QED
  BY <1>1, <1>2 DEF OperatorStep

(* Time and the sweep.                                                     *)
LEMMA ClockKeeps ==
  ASSUME QueueTypeOK,
         SweepExpired \/ \E t \in Tasks : FallsDue(t) \/ LeaseLapses(t)
  PROVE  QueueTypeOK' /\ NoNewLease
<1>1. QueueTypeOK'
  BY DEF QueueTypeOK, SweepExpired, FallsDue, LeaseLapses, QueueStates
<1>2. NoNewLease
  BY DEF SweepExpired, FallsDue, LeaseLapses, NoNewLease, QueueTypeOK
<1> QED
  BY <1>1, <1>2

(* Every statement of the store but the claim.                             *)
LEMMA OtherStatements ==
  ASSUME QueueTypeOK, [QueueNext]_queueVars, \A t \in Tasks : ~Claim(t)
  PROVE  QueueTypeOK' /\ NoNewLease
<1>1. CASE \E t \in Tasks : ProducerStep(t)
  BY <1>1, ProducerKeeps
<1>2. CASE \E t \in Tasks : DrainStep(t)
  BY <1>2, SettleKeeps DEF DrainStep
<1>3. CASE \E t \in Tasks : OperatorStep(t)
  BY <1>3, OperatorKeeps
<1>4. CASE SweepExpired \/ \E t \in Tasks : FallsDue(t) \/ LeaseLapses(t)
  BY <1>4, ClockKeeps
<1>5. CASE \E s \in Scopes : \E keep \in SUBSET InScope(s) : SupersedeRenumbered(s, keep)
  <2>1. \A s \in Scopes : \A keep \in SUBSET InScope(s) : Renumbered(s, keep) \in SUBSET Tasks
    BY DEF Renumbered, InScope
  <2> QED
    BY <1>5, <2>1, DeletedKeeps DEF SupersedeRenumbered
<1>6. CASE UNCHANGED queueVars
  BY <1>6 DEF queueVars, QueueTypeOK, NoNewLease
<1> QED
  BY <1>1, <1>2, <1>3, <1>4, <1>5, <1>6 DEF QueueNext

(* Every statement of the store keeps the types, and the invariant.        *)
LEMMA QueueTypesKept == QueueTypeOK /\ [QueueNext]_queueVars => QueueTypeOK'
<1>1. ASSUME QueueTypeOK, NEW t \in Tasks, Claim(t) PROVE QueueTypeOK'
  BY <1>1, LeaseTypes DEF Claim, Claimable
<1> QED
  BY <1>1, OtherStatements

LEMMA QueueStepOK == QueueInv /\ [QueueNext]_queueVars => QueueInv'
  BY ClaimKeeps, OtherStatements, NoNewLeaseKeepsInterlock DEF QueueInv

(* The invariant holds in every state the statements can reach.            *)
THEOREM QueueInductive == QueueSpec => []QueueInv
<1>1. QueueInit => QueueInv
  BY QueueInitOK
<1>2. QueueInv /\ [QueueNext]_queueVars => QueueInv'
  BY QueueStepOK
<1> QED
  BY <1>1, <1>2, PTL DEF QueueSpec

(* As long as every claim is one atomic statement, two rows about the same *)
(* publisher chapter are never LEASED together, whatever their kinds and   *)
(* whoever enqueues, fails, defers, sweeps or removes rows meanwhile.      *)
THEOREM Interlock == QueueSpec => []OneLeasePerScope
<1>1. QueueInv => OneLeasePerScope
  BY DEF QueueInv
<1> QED
  BY <1>1, QueueInductive, PTL

(* No producer, retry, sweep or failure makes a DONE upload PENDING again. *)
Stays == \A t \in Tasks : KindOf[t] = "UPLOAD" /\ tstate[t] = "DONE" => tstate'[t] \in {"DONE", "ABSENT"}

LEMMA DoneUploadsStep == QueueTypeOK /\ [QueueNext]_queueVars => Stays
<1> SUFFICES ASSUME QueueTypeOK, [QueueNext]_queueVars,
                    NEW t \in Tasks, KindOf[t] = "UPLOAD", tstate[t] = "DONE"
             PROVE  tstate'[t] \in {"DONE", "ABSENT"}
  BY DEF Stays
<1> USE DEF QueueTypeOK
<1>1. CASE \E u \in Tasks : ProducerStep(u)
  BY <1>1 DEF ProducerStep, Enqueue, Requeue, Queued, Settled
<1>2. CASE \E u \in Tasks : DrainStep(u)
  BY <1>2 DEF DrainStep, Claim, Claimable, TakeLease, CompleteDone, Fail, FailAgain,
              FailForGood, ClearVerifyState, Defer
<1>3. CASE \E u \in Tasks : OperatorStep(u)
  BY <1>3 DEF OperatorStep, Retry, Abandon, Postpone, Remove, Deleted
<1>4. CASE SweepExpired \/ \E u \in Tasks : FallsDue(u) \/ LeaseLapses(u)
  BY <1>4 DEF SweepExpired, Overdue, FallsDue, LeaseLapses
<1>5. CASE \E s \in Scopes : \E keep \in SUBSET InScope(s) : SupersedeRenumbered(s, keep)
  BY <1>5 DEF SupersedeRenumbered, Deleted
<1> QED
  BY <1>1, <1>2, <1>3, <1>4, <1>5 DEF QueueNext, queueVars

(* A DONE upload leaves the queue by deletion only.                        *)
THEOREM DoneUploads == QueueSpec => DoneUploadsStay
<1>1. QueueInv /\ [QueueNext]_queueVars => [Stays]_queueVars
  BY DoneUploadsStep DEF QueueInv
<1> QED
  BY <1>1, QueueInductive, PTL DEF QueueSpec, DoneUploadsStay, Stays
=============================================================================
