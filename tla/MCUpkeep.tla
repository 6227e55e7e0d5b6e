------------------------------ MODULE MCUpkeep ------------------------------
(***************************************************************************)
(* Small instances of the two jobs that put the catalogue right: the       *)
(* deletion of duplicates and the rebuilding of the chapter tables.  As in *)
(* MCServices one run takes them one after the other, and scene names the  *)
(* instance a behaviour is about.                                          *)
(***************************************************************************)
EXTENDS Duplicates, Reconcile

CONSTANTS p1, p2, Scenes

VARIABLE scene

(* Three copies of a chapter, the third with the number of the first.      *)
(* Where MangaDex gives no createdAt, a run's pass would spare the newest: *)
(* that is left out.                                                       *)
MCNumberOf == <<1, 2, 1>>

CopiesScene ==
  /\ scene = "copies" /\ DuplicatesNext
  /\ dated \/ \A p \in Passes : pass'[p].kind # "run"
  /\ UNCHANGED <<scene, reconcileVars>>

(* Two passes over two chapters, one of them in no group.                  *)
RebuildScene ==
  /\ scene = "rebuild" /\ ReconcileNext
  /\ UNCHANGED <<scene, duplicatesVars>>

vars == <<scene, duplicatesVars, reconcileVars>>

MCInit ==
  /\ scene \in Scenes
  /\ DuplicatesInit /\ Cardinality(comments) <= 1
  /\ (scene # "copies" => dated /\ declared = {} /\ \A c \in Copies : copy[c] = "none")
  /\ ReconcileInit /\ \A i \in Entries : entry[i] # "hidden"
  /\ (scene # "rebuild" => uploaded = Entries /\ \A i \in Entries : entry[i] = "live")

MCNext == CopiesScene \/ RebuildScene

MCSpec ==
  /\ MCInit /\ [][MCNext]_vars
  /\ \A p \in Passes : WF_duplicatesVars(scene = "copies" /\ PassStep(p))
  /\ WF_duplicatesVars(scene = "copies" /\ UploaderStep)
  /\ \A c \in Clicks : WF_reconcileVars(scene = "rebuild" /\ PassGoesOn(c))
  /\ WF_reconcileVars(scene = "rebuild" /\ Ages)
-----------------------------------------------------------------------------
(* Both jobs get done: no duplicate is left for ever, and a pass, finished *)
(* or dead, frees the button for the next.                                 *)
UpkeepGoesOn == EveryDuplicateGoes /\ ButtonComesBack
=============================================================================
