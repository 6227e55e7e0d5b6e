-------------------------------- MODULE Desk --------------------------------
(***************************************************************************)
(* One row of upload_tasks, the card for one chapter, between the people   *)
(* who queue, correct, retry and remove it (src/core/api/routes/queues.ts  *)
(* and chapters.ts over src/core/store/uploadTasks.ts) and the worker that *)
(* carries it out (src/core/md/taskWorkers.ts).  What staff want of the    *)
(* card is a set of orders in the row's payload.  A worker that has        *)
(* written a card puts the row back with a marker in the payload           *)
(* (cardVerify): the next claim looks for the card and writes none.        *)
(***************************************************************************)
EXTENDS Naturals

CONSTANTS
  Clerks,                  \* requests of the edit route handled at one time
  MaxOrders, MaxOverruns   \* bounds: orders given, leases outlived

ASSUME DeskAssumption == {MaxOrders, MaxOverruns} \subseteq Nat

VARIABLES
  slot,      \* the row: [state, orders, marker]
  hand,      \* the worker's copy: [at, orders, marker, mine, same]; mine: its
             \* lease is the row's, same: the row has not been deleted since
  desk,      \* clerk -> what it read: [at, orders, marker, fresh]; fresh: its
             \* updatedAt is still the row's
  fate,      \* observer: what became of each order
  overruns

deskVars == <<slot, hand, desk, fate, overruns>>

Orders == 1..MaxOrders
Fates == {"free", "accepted", "carried", "moot", "late", "withdrawn", "overwritten"}
Settled == {"DONE", "DEAD_LETTER"}
NoSlot == [state |-> "ABSENT", orders |-> {}, marker |-> FALSE]
NoHand == [at |-> "none", orders |-> {}, marker |-> FALSE, mine |-> FALSE, same |-> FALSE]
NotReading == [at |-> "idle", orders |-> {}, marker |-> FALSE, fresh |-> FALSE]

DeskInit ==
  /\ slot = NoSlot /\ hand = NoHand
  /\ desk = [c \in Clerks |-> NotReading]
  /\ fate = [o \in Orders |-> "free"] /\ overruns = 0

(* Every statement on the row stamps updated_at, and a read before it is   *)
(* stale.                                                                  *)
Stale(d) == [c \in Clerks |-> [d[c] EXCEPT !.fresh = FALSE]]
Writes(row) == slot' = row /\ desk' = Stale(desk)

NextOrder(o) == fate[o] = "free" /\ \A p \in 1..(o - 1) : fate[p] # "free"
Ending(os, how) == [o \in Orders |-> IF o \in os /\ fate[o] = "accepted" THEN how ELSE fate[o]]
-----------------------------------------------------------------------------
(* Staff.  A new order replaces a settled row's payload, in one statement  *)
(* that no other state lets through.                                       *)
Queue(o, states) ==
  /\ NextOrder(o) /\ slot.state \in states
  /\ Writes([state |-> "PENDING", orders |-> {o}, marker |-> FALSE])
  /\ fate' = [Ending(slot.orders, "withdrawn") EXCEPT ![o] = "accepted"]
  /\ UNCHANGED <<hand, overruns>>

QueueAction(o) == Queue(o, {"ABSENT"} \cup Settled)
CreateManual(o) == Queue(o, {"ABSENT"})

(* The processor's own row, without an order.                              *)
Enqueue ==
  /\ slot.state = "ABSENT"
  /\ Writes([NoSlot EXCEPT !.state = "PENDING"])
  /\ UNCHANGED <<hand, fate, overruns>>

(* The edit route reads the row and merges the change into what it read;   *)
(* the write names the version it read.                                    *)
ReadRow(c) ==
  /\ desk[c].at = "idle" /\ slot.state = "PENDING"
  /\ desk' = [desk EXCEPT ![c] = [at |-> "merging", orders |-> slot.orders,
                                  marker |-> slot.marker, fresh |-> TRUE]]
  /\ UNCHANGED <<slot, hand, fate, overruns>>

Merge(c, o) ==
  /\ NextOrder(o) /\ slot.state = "PENDING"
  /\ slot' = [state |-> "PENDING", orders |-> desk[c].orders \cup {o}, marker |-> desk[c].marker]
  /\ desk' = [Stale(desk) EXCEPT ![c] = NotReading]
  /\ fate' = [fate EXCEPT ![o] = IF desk[c].marker THEN "late" ELSE "accepted"]
  /\ UNCHANGED <<hand, overruns>>

(* Mutant: the write of the edit route does not name the version it read.  *)
PatchRowUnpinned(c, o) == desk[c].at = "merging" /\ Merge(c, o)

PatchRow(c, o) == desk[c].at = "merging" /\ desk[c].fresh /\ Merge(c, o)

LoseRace(c) ==
  /\ desk[c].at = "merging" /\ ~desk[c].fresh
  /\ desk' = [desk EXCEPT ![c] = NotReading]
  /\ UNCHANGED <<slot, hand, fate, overruns>>

RetryRow ==
  /\ slot.state = "DEAD_LETTER" /\ Writes([slot EXCEPT !.state = "PENDING"])
  /\ UNCHANGED <<hand, fate, overruns>>

RemoveRow ==
  /\ slot.state \in {"PENDING"} \cup Settled /\ Writes(NoSlot)
  /\ hand' = [hand EXCEPT !.mine = FALSE, !.same = FALSE]
  /\ fate' = Ending(slot.orders, "withdrawn")
  /\ UNCHANGED overruns

(* Another date, for one row or for a spaced queue.                        *)
Reorder ==
  /\ slot.state = "PENDING" /\ \E c \in Clerks : desk[c].fresh
  /\ Writes(slot)
  /\ UNCHANGED <<hand, fate, overruns>>
-----------------------------------------------------------------------------
(* The worker.                                                             *)
ClaimRow ==
  /\ hand.at = "none" /\ slot.state = "PENDING"
  /\ Writes([slot EXCEPT !.state = "LEASED"])
  /\ hand' = [at |-> "working", orders |-> slot.orders, marker |-> slot.marker,
              mine |-> TRUE, same |-> TRUE]
  /\ UNCHANGED <<fate, overruns>>

(* What a worker reports stands while its lease is the row's.              *)
Reports(row, f) ==
  /\ hand' = NoHand
  /\ IF hand.mine THEN Writes(row) /\ fate' = f ELSE UNCHANGED <<slot, desk, fate>>
  /\ UNCHANGED overruns

(* A card is committed; the row comes back later, marked.                  *)
WriteCard ==
  /\ hand.at = "working" /\ ~hand.marker
  /\ hand' = [hand EXCEPT !.at = "written", !.marker = TRUE]
  /\ fate' = Ending(hand.orders, "carried")
  /\ UNCHANGED <<slot, desk, overruns>>
DeferRow ==
  /\ hand.at = "written" \/ (hand.at = "working" /\ hand.marker)
  /\ Reports([state |-> "PENDING", orders |-> hand.orders, marker |-> TRUE], fate)

(* Nothing to card (gone, carded already, another account's), or the card  *)
(* has landed.                                                             *)
FinishRow ==
  /\ hand.at = "working"
  /\ Reports([slot EXCEPT !.state = "DONE"],
             IF hand.marker THEN fate ELSE Ending(hand.orders, "moot"))

(* Out of rounds: the marker is taken off by the row's id, with the        *)
(* worker's own copy of the payload, and the task then fails.              *)
ClearVerifyState ==
  /\ hand.at = "working" /\ hand.marker
  /\ IF hand.same
     THEN /\ Writes([slot EXCEPT !.orders = hand.orders, !.marker = FALSE])
          /\ fate' = Ending(slot.orders \ hand.orders, "overwritten")
     ELSE UNCHANGED <<slot, desk, fate>>
  /\ hand' = [hand EXCEPT !.at = "failing"]
  /\ UNCHANGED overruns

FailRow ==
  /\ hand.at \in {"working", "failing"}
  /\ \E state \in {"PENDING", "DEAD_LETTER"} : Reports([slot EXCEPT !.state = state], fate)

(* The worker dies; the lease runs out, under a living one too.            *)
Crash ==
  /\ hand.at # "none" /\ hand' = NoHand
  /\ UNCHANGED <<slot, desk, fate, overruns>>
SweepRow ==
  /\ slot.state = "LEASED" /\ Writes([slot EXCEPT !.state = "PENDING"])
  /\ hand' = [hand EXCEPT !.mine = FALSE]
  /\ IF hand.mine THEN overruns < MaxOverruns /\ overruns' = overruns + 1
                  ELSE UNCHANGED overruns
  /\ UNCHANGED fate

DeskNext ==
  \/ \E o \in Orders : QueueAction(o) \/ CreateManual(o)
  \/ \E c \in Clerks : ReadRow(c) \/ LoseRace(c) \/ \E o \in Orders : PatchRow(c, o)
  \/ Enqueue \/ RetryRow \/ RemoveRow \/ Reorder
  \/ ClaimRow \/ WriteCard \/ DeferRow \/ FinishRow \/ ClearVerifyState \/ FailRow
  \/ Crash \/ SweepRow

DeskSpec == DeskInit /\ [][DeskNext]_deskVars
-----------------------------------------------------------------------------
DeskTypeOK ==
  /\ slot \in [state : {"ABSENT", "PENDING", "LEASED"} \cup Settled,
               orders : SUBSET Orders, marker : BOOLEAN]
  /\ hand \in [at : {"none", "working", "written", "failing"}, orders : SUBSET Orders,
               marker : BOOLEAN, mine : BOOLEAN, same : BOOLEAN]
  /\ desk \in [Clerks -> [at : {"idle", "merging"}, orders : SUBSET Orders,
                          marker : BOOLEAN, fresh : BOOLEAN]]
  /\ fate \in [Orders -> Fates] /\ overruns \in 0..MaxOverruns

(* An order the platform accepted is neither lost nor reported done before *)
(* a card carried it: the row still holds it, waiting, in hand or dead,    *)
(* and so does the copy the worker goes by.  Two edits at once, an edit    *)
(* across a claim or a sweep, and a worker past its lease do not undo it.  *)
(* Left out are the orders given to a row that only waits for its card,    *)
(* and those the clearing of a marker by a worker past its lease writes    *)
(* over (the README lists both).                                           *)
OrdersStand ==
  \A o \in Orders : fate[o] = "accepted" =>
    /\ slot.state \in {"PENDING", "LEASED", "DEAD_LETTER"} /\ o \in slot.orders
    /\ hand.mine => o \in hand.orders

(* A row is only taken to be waiting for its card when a card has been     *)
(* written for what the row asks.                                          *)
MarkersAreTrue ==
  slot.marker => \A o \in slot.orders : fate[o] # "accepted"

DeskInv == DeskTypeOK /\ OrdersStand /\ MarkersAreTrue
=============================================================================
