------------------------------ MODULE Restart -------------------------------
(***************************************************************************)
(* Restarting a service by its own exit (src/core/sysops/restartSignal.ts, *)
(* the restart route, and the loops of core-scheduler, core-processor and  *)
(* core-uploader that poll).  One settings row holds the last request; one *)
(* more row per service says which request it obeyed, and is written       *)
(* before the exit.  The runtime starts again what has exited.             *)
(***************************************************************************)
EXTENDS Naturals

CONSTANTS
  Services,      \* the services that poll
  Lifetime,      \* RESTART_REQUEST_TTL_MS, in ticks
  MaxRequests, MaxTime, MaxMishaps   \* bounds

ASSUME RestartAssumption ==
  {Lifetime, MaxRequests, MaxTime, MaxMishaps} \subseteq Nat

VARIABLES
  request,    \* the row: [target: set of services, n], n = 0: none
  askedAt,    \* requests so far -> the instant each was made
  obeyed,     \* service -> the request its row names, 0: none
  loop,       \* service -> [at, holds]; holds: the request it has read
  time, mishaps,
  exits       \* observer: service -> request -> exits on its account

restartVars == <<request, askedAt, obeyed, loop, time, mishaps, exits>>

Requests == 1..MaxRequests
Idle == [at |-> "working", holds |-> 0]

RestartInit ==
  /\ request = [target |-> {}, n |-> 0] /\ askedAt = <<>>
  /\ obeyed = [s \in Services |-> 0]
  /\ loop = [s \in Services |-> Idle]
  /\ time = 0 /\ mishaps = 0
  /\ exits = [s \in Services |-> [n \in Requests |-> 0]]

Ask(target) ==
  LET n == request.n + 1 IN
  /\ n \in Requests
  /\ request' = [target |-> target, n |-> n] /\ askedAt' = [m \in 1..n |-> IF m < n THEN askedAt[m] ELSE time]
  /\ UNCHANGED <<obeyed, loop, time, mishaps, exits>>

RestartApplies(s) == s \in request.target /\ time - askedAt[request.n] <= Lifetime

(* The poll at the top of a loop: the request, the row of what was obeyed, *)
(* that row written, the exit.                                             *)
ReadRequest(s) ==
  /\ loop[s].at = "working" /\ RestartApplies(s)
  /\ loop' = [loop EXCEPT ![s] = [at |-> "requested", holds |-> request.n]]
  /\ UNCHANGED <<request, askedAt, obeyed, time, mishaps, exits>>

(* Mutant: nothing is written before the exit.                             *)
HonourUnrecorded(s) ==
  /\ loop[s].at = "requested"
  /\ loop' = IF obeyed[s] = loop[s].holds THEN [loop EXCEPT ![s] = Idle]
                                          ELSE [loop EXCEPT ![s].at = "leaving"]
  /\ UNCHANGED <<request, askedAt, obeyed, time, mishaps, exits>>

HonourRestartRequest(s) ==
  /\ loop[s].at = "requested"
  /\ IF obeyed[s] = loop[s].holds
     THEN loop' = [loop EXCEPT ![s] = Idle] /\ UNCHANGED obeyed
     ELSE /\ obeyed' = [obeyed EXCEPT ![s] = loop[s].holds]
          /\ loop' = [loop EXCEPT ![s].at = "leaving"]
  /\ UNCHANGED <<request, askedAt, time, mishaps, exits>>

(* The exit, through the loop's own shutdown; the runtime starts it again. *)
Exit(s) ==
  /\ loop[s].at = "leaving"
  /\ exits' = [exits EXCEPT ![s][loop[s].holds] = @ + 1]
  /\ loop' = [loop EXCEPT ![s] = Idle]
  /\ UNCHANGED <<request, askedAt, obeyed, time, mishaps>>

(* A settings read or write fails, which only ends the poll; or the        *)
(* service dies on its own.                                                *)
Mishap(s) ==
  /\ loop[s].at # "working" /\ mishaps < MaxMishaps /\ mishaps' = mishaps + 1
  /\ loop' = [loop EXCEPT ![s] = Idle]
  /\ UNCHANGED <<request, askedAt, obeyed, time, exits>>

TimePasses ==
  /\ time < MaxTime /\ time' = time + 1
  /\ UNCHANGED <<request, askedAt, obeyed, loop, mishaps, exits>>

RestartNext ==
  \/ \E target \in {Services} \cup {{s} : s \in Services} : Ask(target)
  \/ \E s \in Services : ReadRequest(s) \/ HonourRestartRequest(s) \/ Exit(s) \/ Mishap(s)
  \/ TimePasses

RestartSpec == RestartInit /\ [][RestartNext]_restartVars
-----------------------------------------------------------------------------
RestartTypeOK ==
  /\ request \in [target : SUBSET Services, n : 0..MaxRequests]
  /\ askedAt \in [1..request.n -> 0..MaxTime]
  /\ obeyed \in [Services -> 0..MaxRequests]
  /\ loop \in [Services -> [at : {"working", "requested", "leaving"}, holds : 0..MaxRequests]]
  /\ exits \in [Services -> [Requests -> Nat]]
  /\ time \in 0..MaxTime /\ mishaps \in 0..MaxMishaps

(* A service that is back before its request has run out does not exit for *)
(* it again, whatever was asked in the meantime and whatever failed.       *)
RestartsOnce == \A s \in Services, n \in Requests : exits[s][n] <= 1

RestartInv == RestartTypeOK /\ RestartsOnce
=============================================================================
