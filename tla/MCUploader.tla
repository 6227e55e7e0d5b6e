---------------------------- MODULE MCUploader ----------------------------
(* Instances of the uploader: rows about one publisher chapter, at most    *)
(* one of each kind, and a few of the rare events (Allowed, Budget).       *)
EXTENDS Uploader, TLC

CONSTANTS up, del, card, rest, edit, m, n1, n2, s1

Kind(t) == CASE t = up -> "UPLOAD" [] t = del -> "DELETE" [] t = card -> "UNAVAILABLE"
             [] t = rest -> "RESTORE" [] t = edit -> "EDIT"

MCKindOf   == [t \in Tasks |-> Kind(t)]
MCScopeOf  == [t \in Tasks |-> s1]
MCTargetOf == [t \in Tasks |-> m]

Symmetry == Permutations({n1, n2} \cap Ids)
=============================================================================
