------------------------------ MODULE Console -------------------------------
(***************************************************************************)
(* What the console's routes do to rows that others work on: a queued row  *)
(* is edited (Desk), a listing is walked (Paging), a feed is cleared       *)
(* (Feed).  They share no table.                                           *)
(***************************************************************************)
EXTENDS Desk, Paging, Feed

ConsoleSpec == DeskSpec /\ PagingSpec /\ FeedSpec

(* At the console: an order given to a row stands, a listing walked under  *)
(* change misses and repeats nothing it should not, and the feed hides     *)
(* only what somebody has cleared.                                         *)
ConsoleInv == DeskInv /\ PagingInv /\ FeedInv
=============================================================================
