----------------------------- MODULE MCJobStore -----------------------------
(* A run of two jobs, two workers and as many leases as the budget allows  *)
(* plus one that only a replay or a pause release can reach.               *)
EXTENDS JobStore, TLC

CONSTANTS r1, j1, j2, e1, w1, w2, l1, l2, l3, l4

MCRunOf   == [j \in Jobs |-> r1]
MCExtOf   == [r \in Runs |-> e1]
MCCapable == Workers \X Jobs

Symmetry == Permutations(Jobs) \cup Permutations(Workers) \cup Permutations(Leases)
=============================================================================
