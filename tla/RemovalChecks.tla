--------------------------- MODULE RemovalChecks ---------------------------
(***************************************************************************)
(* The table chapter_removal_checks (src/core/store/removalChecks.ts): the *)
(* tally behind every removal that rests on "the extension did not list    *)
(* it".  One row per MangaDex chapter, one action per statement.           *)
(*                                                                         *)
(* The clock is one comparison: whether not_before has been reached.  It   *)
(* lies 24 to 32 hours after the vote that last counted.                   *)
(***************************************************************************)
EXTENDS Integers, FiniteSets

CONSTANTS
  Chapters,       \* chapters on MangaDex
  Confirmations   \* REMOVAL_CONFIRMATIONS

ASSUME TallyAssumption == Confirmations \in Nat \ {0}

VARIABLES
  misses,   \* chapter_removal_checks.misses, 0 when there is no row.  What is
            \* above the threshold changes nothing and is not counted on.
  open      \* not_before <= now()

tallyVars == <<misses, open>>

TallyInit ==
  /\ misses = [c \in Chapters |-> 0]
  /\ open   = [c \in Chapters |-> FALSE]

(* Mutant: the tally of a chapter that was confirmed goes on growing.      *)
OneMoreEach(n) == n + 1

OneMore(n) == IF n < Confirmations THEN n + 1 ELSE n

(* Mutant: a report inside the window counts as well.                      *)
CountsAlways(c) == TRUE

(* A report counts when it is the first, or falls into an open window.     *)
Counts(c) == misses[c] = 0 \/ open[c]

(* What the tallies of cs become, and which of them RETURNING calls        *)
(* confirmed: counted just now or not.                                     *)
Voted(cs) == [c \in Chapters |-> IF c \in cs /\ Counts(c) THEN OneMore(misses[c]) ELSE misses[c]]
Confirmed(cs) == {c \in cs : Voted(cs)[c] >= Confirmations}

(* vote: one upsert for the whole batch.  Only a vote that counted moves   *)
(* the window.                                                             *)
CastVotes(cs) ==
  LET counted == {c \in cs : Counts(c)} IN
  /\ misses' = Voted(cs)
  /\ open'   = [c \in Chapters |-> open[c] /\ c \notin counted]

(* clear, clearExtension: the rows are deleted.                            *)
Wipe(cs) ==
  /\ misses' = [c \in Chapters |-> IF c \in cs THEN 0 ELSE misses[c]]
  /\ open'   = [c \in Chapters |-> open[c] /\ c \notin cs]

(* add: an operator casts the first vote; a tally that exists keeps its    *)
(* count and its window.                                                   *)
AddByHand(c) == misses[c] = 0 /\ CastVotes({c})

(* confirmNow: the tally is topped up and its window opened.  A chapter    *)
(* without a tally is left alone.                                          *)
ConfirmNow(c) ==
  /\ misses[c] > 0
  /\ misses' = [misses EXCEPT ![c] = Confirmations]
  /\ open'   = [open EXCEPT ![c] = TRUE]

(* A day or more passes.                                                   *)
WindowOpens(c) ==
  /\ misses[c] > 0 /\ ~open[c]
  /\ open' = [open EXCEPT ![c] = TRUE]
  /\ UNCHANGED misses
=============================================================================
