----------------------------- MODULE MCJobPlane -----------------------------
(* Instances of the job plane: one run of one or two jobs, and a few of    *)
(* the rare events (Allowed, Budget).                                      *)
EXTENDS JobPlane, TLC

CONSTANTS r1, j1, j2, e1, w1, w2, h1, h2, l1, l2

MCRunOf   == [j \in Jobs |-> r1]
MCExtOf   == [r \in Runs |-> e1]
MCCapable == Workers \X Jobs

Symmetry == Permutations(Jobs) \cup Permutations(Workers)
              \cup Permutations(Leases) \cup Permutations(Handlers)
=============================================================================
