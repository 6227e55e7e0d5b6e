---------------------------- MODULE RunContract -----------------------------
(* What the job plane promises the processor about a run, with no leases,  *)
(* attempts or retries in it: results are accepted one job at a time, a    *)
(* run becomes ready only when it has all of them, and from then on nothing*)
(* but finishing or stopping happens to it.  A stopped run may be reopened *)
(* only while a result is still missing.  JobStore implements this.        *)
CONSTANTS Jobs, Runs, RunOf

VARIABLES
  committed, \* jobs whose result was accepted
  phase      \* where each run stands

contractVars == <<committed, phase>>

Phases == {"open", "ready", "done", "stopped"}
Missing(r) == {j \in Jobs : RunOf[j] = r} \ committed

ContractInit ==
  /\ committed = {}
  /\ phase = [r \in Runs |-> "open"]

Accept(j) ==
  /\ j \notin committed
  /\ committed' = committed \cup {j}
  /\ UNCHANGED phase

Move(r, from, to) ==
  /\ phase[r] \in from
  /\ phase' = [phase EXCEPT ![r] = to]
  /\ UNCHANGED committed

Ready(r)  == Move(r, {"open"}, "ready") /\ Missing(r) = {}
Finish(r) == Move(r, {"ready"}, "done")
Stop(r)   == Move(r, {"open", "ready"}, "stopped")
Reopen(r) == Move(r, {"stopped"}, "open") /\ Missing(r) # {}

ContractNext ==
  \/ \E j \in Jobs : Accept(j)
  \/ \E r \in Runs : Ready(r) \/ Finish(r) \/ Stop(r) \/ Reopen(r)

ContractSpec == ContractInit /\ [][ContractNext]_contractVars
=============================================================================
