------------------------------- MODULE Paging -------------------------------
(***************************************************************************)
(* A listing of the console, read page by page while the table changes     *)
(* (src/core/store/ordering.ts and the listings over it).  A column's      *)
(* order is a key for blank, a key for the value and the row's id; a page  *)
(* ends with a cursor, the keys of its last row.  The sweep of an archive  *)
(* goes by id alone, since what it does to a row rewrites the row; the     *)
(* catalogue's default order goes by creation, and its cursor is a row.    *)
(***************************************************************************)
EXTENDS Integers, FiniteSets

CONSTANTS
  MaxRow,     \* row ids are 1..MaxRow
  MaxValue,   \* what a column holds: 1..MaxValue, or blank
  Limit,      \* rows to a page
  MaxChurn    \* bound: changes to the table during a walk

ASSUME PagingAssumption == {MaxRow, MaxValue, MaxChurn} \subseteq Nat /\ Limit \in Nat \ {0}

VARIABLES
  table,    \* row -> its value, Blank, or Gone when no row (that matches)
  walk,     \* [by, dir, probe, at, cursor]; probe: pages ask for a row more
  listed,   \* row -> how often it was listed, 2 for more
  steady,   \* rows there since the walk began, untouched where that matters
  churn

pagingVars == <<table, walk, listed, steady, churn>>

Rows == 1..MaxRow
Blank == 0
Gone == -1
There == {r \in Rows : table[r] # Gone}

Listings ==
  [by : {"column"}, dir : {"asc", "desc"}, probe : BOOLEAN]
    \cup {[by |-> "id", dir |-> "asc", probe |-> TRUE], [by |-> "created", dir |-> "desc", probe |-> FALSE]}

PagingInit ==
  /\ \E l \in Listings :
       /\ table \in [Rows -> {Gone} \cup (IF l.by = "column" THEN {Blank} ELSE {}) \cup 1..MaxValue]
       /\ walk = [by |-> l.by, dir |-> l.dir, probe |-> l.probe, at |-> "on", cursor |-> <<>>]
  /\ listed = [r \in Rows |-> 0] /\ steady = There /\ churn = 0

(* The blank key holds its direction, so that blanks come last either way. *)
Keys(r) ==
  IF walk.by = "id" THEN <<0, 0, r>>
  ELSE <<IF table[r] = Blank THEN 1 ELSE 0, table[r], r>>
Descends(i) == i > 1 /\ walk.dir = "desc"

(* Equal on a prefix of the keys, then strictly on, at one of the first n. *)
Onward(k, l, n) ==
  \E i \in 1..n : /\ \A j \in 1..(i - 1) : k[j] = l[j]
                  /\ IF Descends(i) THEN k[i] < l[i] ELSE k[i] > l[i]
Precedes(r, s) == Onward(Keys(s), Keys(r), 3)
(* Mutant: the cursor's predicate leaves the row's id out.                 *)
AfterTies(r, cursor) == cursor = <<>> \/ Onward(Keys(r), cursor, 2)

After(r, cursor) == cursor = <<>> \/ Onward(Keys(r), cursor, 3)

Left == {r \in There : After(r, walk.cursor)}
FirstOf(rows) == {r \in rows : Cardinality({s \in rows : Precedes(s, r)}) < Limit}
LastOf(rows) == CHOOSE r \in rows : \A s \in rows \ {r} : Precedes(s, r)

(* Another page to come: a row beyond this one, or a page that is full.    *)
More(rows) == Cardinality(rows) > (IF walk.probe THEN Limit ELSE Limit - 1)

NextPage ==
  /\ walk.at = "on"
  /\ walk.by = "created" /\ walk.cursor # <<>> => walk.cursor[3] \in There
  /\ LET page == FirstOf(Left) IN
     /\ listed' = [r \in Rows |-> IF r \in page /\ listed[r] < 2 THEN listed[r] + 1 ELSE listed[r]]
     /\ walk' = IF More(Left) THEN [walk EXCEPT !.cursor = Keys(LastOf(page))]
                              ELSE [walk EXCEPT !.at = "ended"]
  /\ UNCHANGED <<table, steady, churn>>

(* The row a cursor names has been deleted: the request is refused.        *)
UnknownCursor ==
  /\ walk.at = "on" /\ walk.by = "created" /\ walk.cursor # <<>>
  /\ walk.cursor[3] \notin There
  /\ walk' = [walk EXCEPT !.at = "refused"]
  /\ UNCHANGED <<table, listed, steady, churn>>

(* Meanwhile a row comes, goes, or moves; the date of its creation stays,  *)
(* and so does its id.                                                     *)
Change(r, v) ==
  /\ walk.at = "on" /\ churn < MaxChurn /\ v # table[r]
  /\ walk.by = "column" \/ v # Blank
  /\ walk.by = "created" => v = Gone \/ (table[r] = Gone /\ listed[r] = 0)
  /\ table' = [table EXCEPT ![r] = v]
  /\ steady' = IF walk.by = "id" /\ v # Gone THEN steady ELSE steady \ {r}
  /\ churn' = churn + 1
  /\ UNCHANGED <<walk, listed>>

PagingNext == NextPage \/ UnknownCursor \/ \E r \in Rows, v \in Gone..MaxValue : Change(r, v)

PagingSpec == PagingInit /\ [][PagingNext]_pagingVars
-----------------------------------------------------------------------------
PagingTypeOK ==
  /\ table \in [Rows -> Gone..MaxValue]
  /\ walk.at \in {"on", "ended", "refused"}
  /\ walk.cursor = <<>> \/ walk.cursor \in (0..1) \X (0..MaxValue) \X Rows
  /\ listed \in [Rows -> 0..2] /\ steady \subseteq There /\ churn \in 0..MaxChurn

(* A row that keeps its place while a listing is walked is on exactly one  *)
(* page of it, whatever comes, goes and moves around it and wherever a run *)
(* of equal values or of blanks is cut; a sweep gets to every row that     *)
(* stays, once, though the sweep's own work rewrites it.                   *)
WalksAreWhole ==
  \A r \in steady : listed[r] <= 1 /\ (walk.at = "ended" => listed[r] = 1)

PagingInv == PagingTypeOK /\ WalksAreWhole
=============================================================================
