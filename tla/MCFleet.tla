------------------------------ MODULE MCFleet -------------------------------
(***************************************************************************)
(* Small instances of the fleet: the job plane of MCJobPlane, and around   *)
(* it the worker hosts that enrol, the execution of one job on a host, and *)
(* the accounts of the operators.  One run takes several of them one after *)
(* the other: scene names the instance a behaviour is about.               *)
(***************************************************************************)
EXTENDS MCJobPlane, Enrolment, Execution, Accounts

CONSTANTS a1, a2, t1, p1, p2, q1, q2, Scenes

VARIABLE scene

PlaneScene ==
  /\ scene = "plane" /\ PlaneNext
  /\ UNCHANGED <<scene, enrolmentVars, executionVars, accountVars>>

EnrolScene ==
  /\ scene = "enrol" /\ EnrolmentNext
  /\ UNCHANGED <<scene, planeVars, executionVars, accountVars>>

ExecuteScene ==
  /\ scene = "execute" /\ ExecutionNext
  /\ UNCHANGED <<scene, planeVars, enrolmentVars, accountVars>>

AccountsScene ==
  /\ scene = "accounts" /\ AccountsNext
  /\ UNCHANGED <<scene, planeVars, enrolmentVars, executionVars>>

vars == <<scene, planeVars, enrolmentVars, executionVars, accountVars>>

MCInit ==
  /\ scene \in Scenes
  /\ PlaneInit /\ EnrolmentInit /\ ExecutionInit /\ AccountsInit
  /\ (scene # "enrol" => \A h \in Hosts : site[h].room)

MCNext == PlaneScene \/ EnrolScene \/ ExecuteScene \/ AccountsScene

MCSpec == MCInit /\ [][MCNext]_vars

(* The fairness of JobPlane where the plane is at work, and of Execution.  *)
Here == scene = "plane"
FairMCSpec ==
  /\ MCSpec
  /\ \A w \in Workers : WF_planeVars(Here /\ AgentStep(w)) /\ WF_planeVars(Here /\ RenewStep(w))
  /\ \A w \in Workers : WF_planeVars(Here /\ (FinishJob(w) \/ EndSubmit(w)))
  /\ \A h \in Handlers : WF_planeVars(Here /\ IngestStep(h))
  /\ \A j \in Jobs : /\ WF_planeVars(Here /\ Sweep(j)) /\ WF_planeVars(Here /\ Backoff(j))
                     /\ WF_planeVars(Here /\ Expire(j) /\ Unrenewed(j))
  /\ \A r \in Runs : WF_planeVars(Here /\ Advance(r)) /\ WF_planeVars(Here /\ Process(r))
  /\ WF_planeVars(Here /\ Cooldown) /\ WF_planeVars(Here /\ Resume) /\ WF_planeVars(Here /\ OpStep)
  /\ \A a \in Agents : WF_executionVars(scene = "execute" /\ JobGoesOn(a))

(* Work that was taken ends: a run that was created is settled, and a job  *)
(* that a host took is done with, whatever fails on the way.               *)
WorkEnds == EveryRunSettles /\ EveryJobEnds
=============================================================================
