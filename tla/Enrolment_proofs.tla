-------------------------- MODULE Enrolment_proofs ---------------------------
(* Proofs about Enrolment, for every number of hosts, tokens and worker     *)
(* rows, and whatever goes wrong; about Accounts, for any people, requests  *)
(* and number of links; and about Execution, for any agents of a host,      *)
(* files, pages and attempts.                                               *)
EXTENDS Enrolment, Execution, Accounts, FiniteSetTheorems, TLAPS

(* What a request that has made a row, and not yet been answered, may rely  *)
(* on: the row stands, it is nobody else's, and the token names it exactly  *)
(* once the request has consumed it.                                        *)
Made == {"consuming", "losing", "enrolled"}
CallsKnow ==
  \A c \in Calls : call[c].at \in Made =>
    LET i == call[c].id IN
    /\ i \in Ids /\ Enrolled(i) /\ identity[i].by = call[c].token
    /\ Used(i) <=> call[c].at = "enrolled"
    /\ \A h \in Hosts : ~Has(h, i)
    /\ \A d \in Calls : call[d].at \in Made /\ call[d].id = i => d = c

(* A spent token names the worker it made.                                  *)
TicketsName ==
  \A t \in Tokens : LET i == ticket[t].usedBy IN i # 0 => Enrolled(i) /\ identity[i].by = t

SavingHasId == \A h \in Hosts : host[h].at = "saving" => host[h].id # 0

(* Until something goes wrong every request has a caller that waits for it, *)
(* and a host between its probe and its save has room on its disk.          *)
Calm ==
  mishaps = 0 =>
    /\ \A h \in Hosts, n \in 1..Sends : call[<<h, n>>].at # "none" => Waits(h, <<h, n>>)
    /\ \A h \in Hosts : Exposed(h) => site[h].room

EInv == EnrolmentInv /\ CallsKnow /\ TicketsName /\ SavingHasId /\ Calm

-----------------------------------------------------------------------------
LEMMA InitHolds == EnrolmentInit => EInv
<1> SUFFICES ASSUME EnrolmentInit PROVE EInv
  OBVIOUS
<1> USE EnrolmentAssumption DEF EnrolmentInit
<1>1. NoCall.token \in Tokens /\ NoCall.at = "none" /\ NoCall.id = 0
  BY DEF NoCall
<1>2. EnrolmentTypeOK
  <2>1. NoCall \in [at : {"none"}, token : Tokens, id : {0}]
    BY DEF NoCall
  <2>2. /\ identity \in [Ids -> [status : {"free"}, by : Tokens]]
        /\ call \in [Calls -> [at : {"none"}, token : Tokens, id : {0}]]
        /\ host \in [Hosts -> [at : {"down"}, try : {0}, id : {0}]]
        /\ site \in [Hosts -> [token : Tokens, file : {0}, room : BOOLEAN]]
    BY <1>1, <2>1 DEF Down
  <2> QED
    BY <2>2 DEF EnrolmentTypeOK
<1>3. OneWorkerPerToken /\ IdentitiesStand /\ TokensAreNotWasted
  BY <1>2 DEF OneWorkerPerToken, IdentitiesStand, TokensAreNotWasted, Enrolled, Has, Down, EnrolmentTypeOK
<1>4. CallsKnow /\ TicketsName /\ SavingHasId /\ Calm
  BY <1>1 DEF CallsKnow, TicketsName, SavingHasId, Calm, Exposed, Down, Made, Calls
<1> QED
  BY <1>2, <1>3, <1>4 DEF EInv, EnrolmentInv

-----------------------------------------------------------------------------
(* Hosts: they come and go, keep what they have or lose it.                 *)
HostType == [at : {"down", "probing", "sending", "calling", "saving", "up"},
             try : 0..Sends, id : {0} \cup Ids]
SiteType == [token : Tokens, file : {0} \cup Ids, room : BOOLEAN]

LEMMA HostMoves ==
  ASSUME EInv, UNCHANGED <<ticket, identity, call, saved>>, NEW h \in Hosts,
         host' \in [Hosts -> HostType], site' \in [Hosts -> SiteType], mishaps' \in 0..MaxMishaps,
         \A g \in Hosts \ {h} : host'[g] = host[g] /\ site'[g] = site[g],
         {host'[h].id, site'[h].file} \subseteq {0, host[h].id, site[h].file},
         host'[h].at = "saving" => host[h].at = "saving" /\ host'[h].id = host[h].id,
         mishaps' = mishaps \/ mishaps' > 0,
         mishaps' = 0 => /\ Exposed(h)' => site'[h].room
                         /\ host[h].at = "saving" => host'[h].at = "saving"
                         /\ host[h].at = "calling" => host'[h].at = "calling" /\ host'[h].try = host[h].try
  PROVE  EInv'
<1> USE DEF EInv, EnrolmentInv
<1>0. EnrolmentTypeOK'
  BY DEF EnrolmentTypeOK, HostType, SiteType
<1>1. SavingHasId'
  BY DEF SavingHasId
<1>2. mishaps \in Nat
  BY EnrolmentAssumption DEF EnrolmentTypeOK
<1>3. \A g \in Hosts : \A i : Has(g, i)' => Has(g, i)
  BY DEF Has
<1>4. IdentitiesStand'
  BY <1>3 DEF IdentitiesStand, Enrolled, Used
<1>5. OneWorkerPerToken' /\ CallsKnow' /\ TicketsName'
  BY <1>2, <1>3 DEF OneWorkerPerToken, CallsKnow, TicketsName, Enrolled, Used, AtTheCore
<1>6. TokensAreNotWasted'
  BY <1>2 DEF TokensAreNotWasted, OnTheWay
<1>7. Calm'
  BY <1>2 DEF Calm, Waits, Exposed
<1> QED
  BY <1>0, <1>1, <1>4, <1>5, <1>6, <1>7

(* A call is tried again, or given up.                                      *)
LEMMA TryOrGiveUp ==
  ASSUME host \in [Hosts -> HostType], NEW h \in Hosts, TriesAgain(h)
  PROVE  \E v \in HostType : /\ host' = [host EXCEPT ![h] = v]
                             /\ v.at \in {"sending", "down"} /\ v.id \in {0, host[h].id}
<1>1. host[h] \in HostType /\ host[h].try \in 0..Sends /\ host[h].id \in {0} \cup Ids
  BY DEF HostType
<1>2. Sends \in Nat /\ 0 \in 0..Sends /\ (host[h].try < Sends => host[h].try + 1 \in 0..Sends)
  BY <1>1, EnrolmentAssumption
<1>3. CASE host[h].try < Sends
  <2>1. host' = [host EXCEPT ![h] = [at |-> "sending", try |-> host[h].try + 1, id |-> host[h].id]]
    BY <1>1, <1>3 DEF TriesAgain, HostType
  <2>2. [at |-> "sending", try |-> host[h].try + 1, id |-> host[h].id] \in HostType
    BY <1>1, <1>2, <1>3 DEF HostType
  <2> QED
    BY <2>1, <2>2
<1>4. CASE ~(host[h].try < Sends)
  <2>1. host' = [host EXCEPT ![h] = Down]
    BY <1>4 DEF TriesAgain
  <2>2. Down \in HostType /\ Down.at = "down" /\ Down.id = 0
    BY <1>2 DEF HostType, Down
  <2> QED
    BY <2>1, <2>2
<1> QED
  BY <1>3, <1>4

LEMMA HostStepHolds ==
  ASSUME EInv, NEW h \in Hosts,
         \/ LoadCredentials(h) \/ AssertWritable(h) \/ LoseAnswer(h) \/ Authenticate(h)
         \/ CrashHost(h) \/ DiskFillsOrClears(h) \/ \E t \in Tokens : Provision(h, t)
  PROVE  EInv'
<1>1. /\ host \in [Hosts -> HostType] /\ site \in [Hosts -> SiteType]
      /\ mishaps \in 0..MaxMishaps /\ mishaps \in Nat /\ {0, 1} \subseteq 0..Sends
  BY EnrolmentAssumption DEF EInv, EnrolmentInv, EnrolmentTypeOK, HostType, SiteType
<1>2. Mishap => mishaps' \in 0..MaxMishaps /\ mishaps' > 0
  BY <1>1, EnrolmentAssumption DEF Mishap
<1>3. mishaps = 0 => (Exposed(h) => site[h].room)
  BY DEF EInv, Calm
<1>4. Down \in HostType /\ Down.at = "down" /\ Down.id = 0
  BY <1>1 DEF HostType, Down
<1>5. ASSUME NEW v \in HostType, host' = [host EXCEPT ![h] = v], UNCHANGED <<ticket, identity, call, saved, site>>,
             v.id \in {0, host[h].id, site[h].file}, v.at # "saving",
             \/ UNCHANGED mishaps /\ host[h].at \notin {"calling", "saving"}
             \/ Mishap,
             mishaps' = 0 /\ v.at \in {"sending", "calling"} => site[h].room
      PROVE  EInv'
  <2>1. /\ host' \in [Hosts -> HostType] /\ host'[h] = v /\ site' \in [Hosts -> SiteType]
        /\ \A g \in Hosts \ {h} : host'[g] = host[g] /\ site'[g] = site[g]
    BY <1>1, <1>5
  <2>2. mishaps' \in 0..MaxMishaps /\ (mishaps' = mishaps \/ mishaps' > 0)
        /\ (mishaps' = 0 => UNCHANGED mishaps /\ host[h].at \notin {"calling", "saving"})
    BY <1>1, <1>2, <1>5
  <2>3. mishaps' = 0 => (Exposed(h)' => site'[h].room)
    BY <1>5, <2>1 DEF Exposed
  <2> QED
    BY <1>5, <2>1, <2>2, <2>3, HostMoves
<1>6. ASSUME NEW s \in SiteType, site' = [site EXCEPT ![h] = s], UNCHANGED <<ticket, identity, call, saved, host>>,
             s.file \in {0, site[h].file}, mishaps' \in 0..MaxMishaps, UNCHANGED mishaps \/ mishaps' > 0,
             mishaps' = 0 => (Exposed(h) => s.room)
      PROVE  EInv'
  BY <1>1, <1>6, HostMoves DEF Exposed, HostType
<1>7. CASE LoadCredentials(h)
  <2>1. PICK pc \in {"probing", "up"} :
          host' = [host EXCEPT ![h] = [Down EXCEPT !.at = pc, !.id = site[h].file]]
    BY <1>7 DEF LoadCredentials
  <2>2. PICK v : v = [Down EXCEPT !.at = pc, !.id = site[h].file]
    OBVIOUS
  <2>3. site[h].file \in {0} \cup Ids
    BY <1>1 DEF SiteType
  <2>4. v \in HostType /\ v.id = site[h].file /\ v.at = pc
    BY <1>4, <2>2, <2>3 DEF HostType
  <2> QED
    BY <1>5, <1>7, <2>1, <2>2, <2>4 DEF LoadCredentials
<1>8. CASE AssertWritable(h)
  <2>1. [at |-> "sending", try |-> 1, id |-> 0] \in HostType
    BY <1>1 DEF HostType
  <2> QED
    BY <1>4, <1>5, <1>8, <2>1 DEF AssertWritable
<1>9. CASE LoseAnswer(h)
  <2>1. Mishap /\ TriesAgain(h) /\ UNCHANGED <<ticket, identity, call, site, saved>>
    BY <1>9 DEF LoseAnswer
  <2>2. PICK v \in HostType : /\ host' = [host EXCEPT ![h] = v]
                              /\ v.at \in {"sending", "down"} /\ v.id \in {0, host[h].id}
    BY <1>1, <2>1, TryOrGiveUp
  <2>3. mishaps' # 0 /\ v.at # "saving" /\ v.id \in {0, host[h].id, site[h].file}
    BY <1>1, <1>2, <2>1, <2>2
  <2> QED
    BY <1>5, <2>1, <2>2, <2>3
<1>10. CASE Authenticate(h) \/ CrashHost(h)
  BY <1>4, <1>5, <1>10 DEF Authenticate, CrashHost, Exposed
<1>11. CASE DiskFillsOrClears(h)
  <2> DEFINE s == [site[h] EXCEPT !.room = ~@]
  <2>1. s \in SiteType /\ s.file = site[h].file /\ (s.room = ~site[h].room) /\ site[h].room \in BOOLEAN
    BY <1>1 DEF SiteType
  <2>2. site' = [site EXCEPT ![h] = s]
    BY <1>11 DEF DiskFillsOrClears
  <2> HIDE DEF s
  <2>3. mishaps' \in 0..MaxMishaps /\ (UNCHANGED mishaps \/ mishaps' > 0) /\ (mishaps' = 0 => (Exposed(h) => s.room))
    BY <1>1, <1>2, <1>3, <1>11, <2>1 DEF DiskFillsOrClears
  <2> QED
    BY <1>6, <1>11, <2>1, <2>2, <2>3 DEF DiskFillsOrClears
<1>12. ASSUME NEW t \in Tokens, Provision(h, t) PROVE EInv'
  <2>1. PICK file \in {site[h].file, 0} : site' = [site EXCEPT ![h] = [site[h] EXCEPT !.token = t, !.file = file]]
    BY <1>12 DEF Provision
  <2> DEFINE s == [site[h] EXCEPT !.token = t, !.file = file]
  <2>2. s \in SiteType /\ s.file = file
    BY <1>1 DEF SiteType
  <2>3. site' = [site EXCEPT ![h] = s]
    BY <2>1
  <2> HIDE DEF s
  <2> QED
    BY <1>1, <1>6, <1>12, <2>2, <2>3 DEF Provision, Exposed
<1> QED
  BY <1>7, <1>8, <1>9, <1>10, <1>11, <1>12
-----------------------------------------------------------------------------
(* Requests at the core                                                     *)

CallType == [at : {"none", "sent", "creating", "consuming", "losing", "enrolled", "refused"},
             token : Tokens, id : {0} \cup Ids]

TicketType == [usedBy : {0} \cup Ids, revoked : BOOLEAN, expired : BOOLEAN]
IdentityType == [status : {"free", "ACTIVE", "REVOKED", "deleted"}, by : Tokens]

LEMMA Types ==
  EInv => /\ ticket \in [Tokens -> TicketType] /\ identity \in [Ids -> IdentityType]
          /\ call \in [Calls -> CallType] /\ host \in [Hosts -> HostType] /\ site \in [Hosts -> SiteType]
          /\ mishaps \in 0..MaxMishaps /\ mishaps \in Nat /\ 0 \notin Ids
  BY EnrolmentAssumption DEF EInv, EnrolmentInv, EnrolmentTypeOK, TicketType, IdentityType, CallType, HostType, SiteType, Ids

(* A request that has not made a row, or has been answered, holds none.     *)
LEMMA CallMoves ==
  ASSUME EInv, UNCHANGED <<ticket, identity, site, saved, mishaps>>, host' \in [Hosts -> HostType],
         \A g \in Hosts : /\ host'[g].id = host[g].id /\ (host'[g].at = "saving" <=> host[g].at = "saving")
                          /\ Exposed(g)' => Exposed(g)
                          /\ \A d \in Calls : Waits(g, d) => Waits(g, d)',
         NEW c \in Calls, call' \in [Calls -> CallType], \A d \in Calls \ {c} : call'[d] = call[d],
         call[c].at \in {"none", "sent"}, call'[c].at \in {"sent", "creating", "refused"},
         call[c].at = "none" => Waits(c[1], c)'
  PROVE  EInv'
<1> USE Types DEF EInv, EnrolmentInv
<1>1. EnrolmentTypeOK' /\ SavingHasId' /\ TicketsName' /\ IdentitiesStand'
  BY DEF EnrolmentTypeOK, CallType, HostType, SavingHasId, TicketsName, IdentitiesStand, Has, Enrolled, Used
<1>2. \A d \in Calls : (call'[d].at \in Made <=> call[d].at \in Made)
                       /\ (call[d].at \in Made => call'[d] = call[d])
  BY DEF Made
<1>3. CallsKnow'
  BY <1>2 DEF CallsKnow, Has, Enrolled, Used
<1>4. OneWorkerPerToken'
  BY <1>2 DEF OneWorkerPerToken, AtTheCore, Enrolled, Used, Made
<1>5. TokensAreNotWasted'
  BY <1>2 DEF TokensAreNotWasted, OnTheWay, Made
<1>6. Calm'
  <2> SUFFICES ASSUME mishaps = 0, NEW h \in Hosts, NEW n \in 1..Sends, call'[<<h, n>>].at # "none"
               PROVE  Waits(h, <<h, n>>)'
    BY DEF Calm
  <2>1. <<h, n>> \in Calls
    BY DEF Calls
  <2>2. CASE <<h, n>> = c /\ call[c].at = "none"
    BY <2>2
  <2>3. CASE call[<<h, n>>].at # "none"
    BY <2>1, <2>3 DEF Calm
  <2> QED
    BY <2>1, <2>2, <2>3
<1> QED
  BY <1>1, <1>3, <1>4, <1>5, <1>6

LEMMA ReadTokenHolds == ASSUME EInv, NEW c \in Calls, ReadToken(c) PROVE EInv'
<1>1. PICK a \in {"creating", "refused"} : call' = [call EXCEPT ![c].at = a]
  BY DEF ReadToken
<1> QED
  BY <1>1, Types, CallMoves DEF ReadToken, CallType, Waits, Exposed

(* A row that is made is fresh: nobody has it, and no token names it.       *)
LEMMA CreateWorkerHolds == ASSUME EInv, NEW c \in Calls, CreateWorker(c) PROVE EInv'
<1> USE DEF EInv, EnrolmentInv
<1>1. PICK i \in Ids :
        /\ \A k \in Ids : identity[k].status = "free" <=> k >= i
        /\ identity' = [identity EXCEPT ![i] = [status |-> "ACTIVE", by |-> call[c].token]]
        /\ call' = [call EXCEPT ![c].at = "consuming", ![c].id = i]
  BY DEF CreateWorker
<1>2. UNCHANGED <<ticket, host, site, saved, mishaps>> /\ call[c].at = "creating"
  BY DEF CreateWorker
<1>3. identity[i].status = "free" /\ ~Enrolled(i) /\ i # 0
  BY <1>1, Types DEF Enrolled, Ids
<1>4. call[c] \in CallType /\ call'[c] = [at |-> "consuming", token |-> call[c].token, id |-> i]
      /\ \A d \in Calls \ {c} : call'[d] = call[d]
  BY <1>1, Types DEF CallType
<1>5. /\ identity'[i].status = "ACTIVE" /\ identity'[i].by = call[c].token
      /\ \A k \in Ids \ {i} : identity'[k] = identity[k]
  BY <1>1 DEF EnrolmentTypeOK
<1>6. \A d \in Calls : call[d].at \in Made => call[d].id # i
  BY <1>3 DEF CallsKnow
<1>7. (\A h \in Hosts : ~Has(h, i)) /\ (\A t \in Tokens : ticket[t].usedBy # i)
  BY <1>3 DEF IdentitiesStand, TicketsName
<1>8. EnrolmentTypeOK'
  BY <1>1, <1>2, <1>4, Types DEF EnrolmentTypeOK, CallType
<1>9. \A k \in Ids : k # i => (Enrolled(k)' <=> Enrolled(k)) /\ (Used(k)' <=> Used(k))
  BY <1>2, <1>5 DEF Enrolled, Used
<1>10. Enrolled(i)' /\ ~Used(i)'
  BY <1>2, <1>5, <1>7, <1>4 DEF Enrolled, Used, CallType
<1>11. CallsKnow'
  <2> SUFFICES ASSUME NEW d \in Calls, call'[d].at \in Made, NEW k, k = call'[d].id
               PROVE  /\ k \in Ids /\ Enrolled(k)' /\ identity'[k].by = call'[d].token
                      /\ Used(k)' <=> call'[d].at = "enrolled"
                      /\ \A h \in Hosts : ~Has(h, k)'
                      /\ \A b \in Calls : call'[b].at \in Made /\ call'[b].id = k => b = d
    BY DEF CallsKnow
  <2>1. CASE d = c
    BY <1>2, <1>4, <1>5, <1>6, <1>7, <1>10, <2>1 DEF Has
  <2>2. CASE d # c
    <3>1. call[d].at \in Made /\ k = call[d].id /\ k # i /\ k \in Ids /\ call'[d] = call[d]
      BY <1>4, <1>6, <2>2 DEF CallsKnow
    <3> QED
      BY <1>2, <1>4, <1>5, <1>9, <2>2, <3>1 DEF CallsKnow, Has
  <2> QED
    BY <2>1, <2>2
<1>12. TicketsName' /\ SavingHasId' /\ Calm'
  <2>1. TicketsName'
    BY <1>2, <1>5, <1>7, <1>9, Types DEF TicketsName, EnrolmentTypeOK
  <2>2. \A d \in Calls : call'[d].at # "none" => call[d].at # "none"
    BY <1>2, <1>4
  <2>3. Calm'
    BY <1>2, <2>2 DEF Calm, Waits, Exposed, Calls
  <2> QED
    BY <1>2, <2>1, <2>3 DEF SavingHasId
<1>13. OneWorkerPerToken'
  <2>1. AtTheCore(i)'
    BY <1>4 DEF AtTheCore
  <2>2. \A k \in Ids : AtTheCore(k) => AtTheCore(k)'
    BY <1>2, <1>4 DEF AtTheCore
  <2> QED
    BY <1>2, <1>9, <2>1, <2>2 DEF OneWorkerPerToken
<1>14. IdentitiesStand'
  BY <1>2, <1>7, <1>9 DEF IdentitiesStand, Has
<1>15. TokensAreNotWasted'
  <2>1. \A k : OnTheWay(k) => OnTheWay(k)'
    BY <1>2, <1>4 DEF OnTheWay
  <2> QED
    BY <1>2, <2>1 DEF TokensAreNotWasted
<1> QED
  BY <1>8, <1>11, <1>12, <1>13, <1>14, <1>15
(* A token is marked once; who loses that race keeps a row nobody named.    *)
LEMMA ConsumeTokenHolds == ASSUME EInv, NEW c \in Calls, ConsumeToken(c) PROVE EInv'
<1> USE DEF EInv, EnrolmentInv
<1>1. PICK t \in Tokens, i \in Ids : t = call[c].token /\ i = call[c].id /\ Enrolled(i)
                                     /\ identity[i].by = t /\ ~Used(i)
  BY Types DEF ConsumeToken, CallsKnow, Made, CallType
<1>2. call[c].at = "consuming" /\ UNCHANGED <<identity, host, site, saved, mishaps>> /\ i # 0
  BY <1>1, Types DEF ConsumeToken
<1>3. CASE ticket[t].usedBy = 0 /\ ~ticket[t].revoked
  <2>1. ticket' = [ticket EXCEPT ![t].usedBy = i] /\ call' = [call EXCEPT ![c].at = "enrolled"]
    BY <1>1, <1>3 DEF ConsumeToken
  <2>2. /\ call'[c].at = "enrolled" /\ call'[c].id = i /\ call'[c].token = t
        /\ \A d \in Calls \ {c} : call'[d] = call[d]
    BY <1>1, <2>1, Types DEF CallType
  <2>3. ticket'[t].usedBy = i /\ \A s \in Tokens \ {t} : ticket'[s] = ticket[s]
    BY <2>1 DEF EnrolmentTypeOK
  <2>4. \A k \in Ids : Enrolled(k)' <=> Enrolled(k)
    BY <1>2 DEF Enrolled
  <2>5. \A k \in Ids : identity[k].by \in Tokens
    BY DEF EnrolmentTypeOK
  <2>6. \A k \in Ids : Used(k)' <=> Used(k) \/ k = i
    BY <1>1, <1>2, <1>3, <2>3, <2>5, Types DEF Used
  <2>7. EnrolmentTypeOK'
    <3>1. call[c] \in CallType /\ call'[c] = [call[c] EXCEPT !.at = "enrolled"]
      BY <2>1, Types
    <3>2. call' \in [Calls -> CallType]
      BY <2>1, <3>1, Types DEF CallType
    <3>3. [ticket[t] EXCEPT !.usedBy = i] \in TicketType
      BY <1>1, Types DEF TicketType
    <3>4. ticket' \in [Tokens -> TicketType]
      BY <2>1, <3>3, Types
    <3> QED
      BY <1>2, <3>2, <3>4 DEF EnrolmentTypeOK, CallType, TicketType
  <2>8. OneWorkerPerToken'
    <3>1. \A k \in Ids : AtTheCore(k) => AtTheCore(k)' \/ k = i
      BY <1>1, <2>2 DEF AtTheCore
    <3> QED
      BY <1>2, <2>4, <2>6, <3>1 DEF OneWorkerPerToken
  <2>9. CallsKnow'
    <3> SUFFICES ASSUME NEW d \in Calls, call'[d].at \in Made, NEW k, k = call'[d].id
                 PROVE  /\ k \in Ids /\ Enrolled(k)' /\ identity'[k].by = call'[d].token
                        /\ Used(k)' <=> call'[d].at = "enrolled"
                        /\ \A h \in Hosts : ~Has(h, k)'
                        /\ \A b \in Calls : call'[b].at \in Made /\ call'[b].id = k => b = d
      BY DEF CallsKnow
    <3>1. /\ k \in Ids /\ Enrolled(k) /\ identity[k].by = call[d].token /\ k = call[d].id
          /\ Used(k) <=> call[d].at = "enrolled"
          /\ \A h \in Hosts : ~Has(h, k)
          /\ \A b \in Calls : call[b].at \in Made /\ call[b].id = k => b = d
      BY <1>1, <1>2, <2>2 DEF CallsKnow, Made
    <3>2. \A b \in Calls : call'[b].at \in Made => call[b].at \in Made /\ call[b].id = call'[b].id
      BY <1>1, <1>2, <2>2 DEF Made
    <3>3. k = i <=> d = c
      BY <1>1, <1>2, <2>2, <3>1 DEF Made
    <3> QED
      BY <1>1, <1>2, <2>2, <2>4, <2>6, <3>1, <3>2, <3>3 DEF Has
  <2>10. TicketsName'
    BY <1>1, <1>2, <2>3, <2>4, Types DEF TicketsName, EnrolmentTypeOK
  <2>11. IdentitiesStand'
    BY <1>2, <2>4, <2>6 DEF IdentitiesStand, Has
  <2>12. TokensAreNotWasted'
    <3>1. OnTheWay(i)' /\ \A k : OnTheWay(k) => OnTheWay(k)'
      BY <1>2, <2>2 DEF OnTheWay
    <3> QED
      BY <1>2, <2>3, <3>1 DEF TokensAreNotWasted
  <2>13. Calm' /\ SavingHasId'
    BY <1>2, <2>2 DEF Calm, Waits, Exposed, Calls, SavingHasId
  <2> QED
    BY <2>7, <2>8, <2>9, <2>10, <2>11, <2>12, <2>13
<1>4. CASE ~(ticket[t].usedBy = 0 /\ ~ticket[t].revoked)
  <2>1. UNCHANGED ticket /\ call' = [call EXCEPT ![c].at = "losing"]
    BY <1>1, <1>4 DEF ConsumeToken
  <2>2. /\ call'[c].at = "losing" /\ call'[c].id = i /\ call'[c].token = t
        /\ \A d \in Calls \ {c} : call'[d] = call[d]
    BY <1>1, <2>1, Types DEF CallType
  <2>3. EnrolmentTypeOK'
    <3>1. call[c] \in CallType /\ call'[c] = [call[c] EXCEPT !.at = "losing"]
      BY <2>1, Types
    <3>2. call' \in [Calls -> CallType]
      BY <2>1, <3>1, Types DEF CallType
    <3> QED
      BY <1>2, <2>1, <3>2 DEF EnrolmentTypeOK, CallType
  <2>4. \A k \in Ids : (Enrolled(k)' <=> Enrolled(k)) /\ (Used(k)' <=> Used(k))
    BY <1>2, <2>1 DEF Enrolled, Used
  <2>5. \A d \in Calls : /\ call'[d].at \in Made <=> call[d].at \in Made
                         /\ call'[d].id = call[d].id /\ call'[d].token = call[d].token
                         /\ call'[d].at = "enrolled" <=> call[d].at = "enrolled"
                         /\ call'[d].at = "none" <=> call[d].at = "none"
    BY <1>1, <1>2, <2>2 DEF Made
  <2>6. OneWorkerPerToken'
    <3>1. \A k \in Ids : AtTheCore(k) => AtTheCore(k)'
      BY <2>2, <1>1 DEF AtTheCore
    <3> QED
      BY <1>2, <2>4, <3>1 DEF OneWorkerPerToken
  <2>7. CallsKnow'
    BY <1>2, <2>4, <2>5 DEF CallsKnow, Has
  <2>8. TicketsName' /\ SavingHasId' /\ IdentitiesStand'
    BY <1>2, <2>1 DEF TicketsName, SavingHasId, IdentitiesStand, Enrolled, Used, Has
  <2>9. Calm'
    BY <1>2, <2>5 DEF Calm, Waits, Exposed, Calls
  <2>10. TokensAreNotWasted'
    BY <1>2, <2>1, <2>5 DEF TokensAreNotWasted, OnTheWay
  <2> QED
    BY <2>3, <2>6, <2>7, <2>8, <2>9, <2>10
<1> QED
  BY <1>3, <1>4

(* The row that is taken back is the loser's own.                           *)
LEMMA RollBackHolds == ASSUME EInv, NEW c \in Calls, RollBack(c) PROVE EInv'
<1> USE DEF EInv, EnrolmentInv
<1>1. PICK i \in Ids : /\ i = call[c].id /\ ~Used(i) /\ identity[i].by = call[c].token
                       /\ \A h \in Hosts : ~Has(h, i)
                       /\ \A d \in Calls : call[d].at \in Made /\ call[d].id = i => d = c
  BY DEF RollBack, CallsKnow, Made
<1>2. call[c].at = "losing" /\ UNCHANGED <<ticket, host, site, saved, mishaps>>
  BY DEF RollBack
<1>3. /\ identity' = [identity EXCEPT ![i].status = "deleted"]
      /\ call' = [call EXCEPT ![c].at = "refused", ![c].id = 0]
  BY <1>1 DEF RollBack
<1>4. /\ identity'[i].status = "deleted" /\ identity'[i].by = identity[i].by
      /\ \A k \in Ids \ {i} : identity'[k] = identity[k]
  BY <1>3 DEF EnrolmentTypeOK
<1>5. call'[c].at = "refused" /\ \A d \in Calls \ {c} : call'[d] = call[d]
  BY <1>3, Types DEF CallType
<1>6. EnrolmentTypeOK'
  <2>1. call[c] \in CallType /\ call'[c] = [call[c] EXCEPT !.at = "refused", !.id = 0]
    BY <1>3, Types
  <2>2. call'[c] \in CallType
    BY <2>1 DEF CallType
  <2>3. call' \in [Calls -> CallType]
    BY <1>3, <2>2, Types
  <2>4. [identity[i] EXCEPT !.status = "deleted"] \in IdentityType
    BY Types DEF IdentityType
  <2>5. identity' \in [Ids -> IdentityType]
    BY <1>3, <2>4, Types
  <2> QED
    BY <1>2, <2>3, <2>5 DEF EnrolmentTypeOK, CallType, IdentityType
<1>7. /\ \A k \in Ids : Used(k)' <=> Used(k)
      /\ \A k \in Ids : Enrolled(k)' <=> Enrolled(k) /\ k # i
  BY <1>2, <1>4 DEF Enrolled, Used
<1>8. OneWorkerPerToken'
  <2>1. \A k \in Ids : AtTheCore(k) => AtTheCore(k)' \/ k = i
    BY <1>1, <1>5 DEF AtTheCore
  <2> QED
    BY <1>2, <1>7, <2>1 DEF OneWorkerPerToken
<1>9. CallsKnow'
  <2> SUFFICES ASSUME NEW d \in Calls, call'[d].at \in Made, NEW k, k = call'[d].id
               PROVE  /\ k \in Ids /\ Enrolled(k)' /\ identity'[k].by = call'[d].token
                      /\ Used(k)' <=> call'[d].at = "enrolled"
                      /\ \A h \in Hosts : ~Has(h, k)'
                      /\ \A b \in Calls : call'[b].at \in Made /\ call'[b].id = k => b = d
    BY DEF CallsKnow
  <2>1. d # c /\ call'[d] = call[d]
    BY <1>5 DEF Made
  <2>2. /\ k \in Ids /\ Enrolled(k) /\ identity[k].by = call[d].token
        /\ Used(k) <=> call[d].at = "enrolled"
        /\ \A h \in Hosts : ~Has(h, k)
        /\ \A b \in Calls : call[b].at \in Made /\ call[b].id = k => b = d
    BY <2>1 DEF CallsKnow
  <2>3. k # i
    BY <1>1, <2>1
  <2> QED
    BY <1>2, <1>4, <1>5, <1>7, <2>1, <2>2, <2>3 DEF Has, Made
<1>10. TicketsName'
  <2>1. \A t \in Tokens : ticket[t].usedBy # i
    BY <1>1, Types DEF TicketsName, Used
  <2> QED
    BY <1>2, <1>4, <1>7, <2>1, Types DEF TicketsName, EnrolmentTypeOK
<1>11. IdentitiesStand'
  BY <1>1, <1>2, <1>7 DEF IdentitiesStand, Has
<1>12. TokensAreNotWasted'
  <2>1. \A k : OnTheWay(k) => OnTheWay(k)'
    BY <1>2, <1>5 DEF OnTheWay
  <2> QED
    BY <1>2, <2>1 DEF TokensAreNotWasted
<1>13. Calm' /\ SavingHasId'
  BY <1>2, <1>5 DEF Calm, Waits, Exposed, Calls, SavingHasId
<1> QED
  BY <1>6, <1>8, <1>9, <1>10, <1>11, <1>12, <1>13

-----------------------------------------------------------------------------
(* Answers.  A request that is over, with whatever its caller made of it.   *)
LEMMA CallEnds ==
  ASSUME EInv, UNCHANGED <<ticket, identity, site, saved>>, NEW h \in Hosts, NEW c \in Calls,
         call' = [call EXCEPT ![c] = NoCall],
         host' \in [Hosts -> HostType], \A g \in Hosts \ {h} : host'[g] = host[g],
         mishaps' \in 0..MaxMishaps, mishaps' = mishaps \/ mishaps' > 0,
         \/ host'[h].id \in {0, host[h].id} /\ host'[h].at # "saving"
         \/ host'[h] = host[h]
         \/ /\ host'[h].at = "saving" /\ host'[h].id = call[c].id
            /\ call[c].at = "enrolled" /\ host[h].at = "calling",
         call[c].at = "enrolled" /\ mishaps' = 0 => host'[h].at = "saving" /\ host'[h].id = call[c].id,
         mishaps' = 0 => /\ Exposed(h)' => Exposed(h)
                         /\ host[h].at = "saving" => host'[h] = host[h]
                         /\ \A d \in Calls \ {c} : Waits(h, d) => Waits(h, d)',
         call[c].at \in {"consuming", "losing"} => mishaps' > 0
  PROVE  EInv'
<1> USE Types DEF EInv, EnrolmentInv
<1>1. NoCall \in CallType /\ NoCall.at = "none"
  BY EnrolmentAssumption DEF NoCall, CallType
<1>2. /\ call'[c] = NoCall /\ \A d \in Calls \ {c} : call'[d] = call[d]
      /\ call' \in [Calls -> CallType]
  BY <1>1
<1>3. EnrolmentTypeOK'
  BY <1>2 DEF EnrolmentTypeOK, CallType, HostType
<1>4. \A d \in Calls : call'[d].at \in Made => call[d].at \in Made /\ d # c /\ call'[d] = call[d]
  BY <1>1, <1>2 DEF Made
<1>5. \A k \in Ids : (Enrolled(k)' <=> Enrolled(k)) /\ (Used(k)' <=> Used(k))
  BY DEF Enrolled, Used
<1>6. \A g \in Hosts, k \in Ids :
        Has(g, k)' => Has(g, k) \/ (g = h /\ k = call[c].id /\ call[c].at = "enrolled")
  BY DEF Has
<1>7. call[c].at = "enrolled" => LET i == call[c].id IN
        /\ i \in Ids /\ Enrolled(i) /\ Used(i) /\ \A g \in Hosts : ~Has(g, i)
        /\ \A d \in Calls : call[d].at \in Made /\ call[d].id = i => d = c
  BY DEF CallsKnow, Made
<1>8. IdentitiesStand'
  BY <1>5, <1>6, <1>7 DEF IdentitiesStand
<1>9. CallsKnow'
  <2> SUFFICES ASSUME NEW d \in Calls, call'[d].at \in Made, NEW k, k = call'[d].id
               PROVE  /\ k \in Ids /\ Enrolled(k)' /\ identity'[k].by = call'[d].token
                      /\ Used(k)' <=> call'[d].at = "enrolled"
                      /\ \A g \in Hosts : ~Has(g, k)'
                      /\ \A b \in Calls : call'[b].at \in Made /\ call'[b].id = k => b = d
    BY DEF CallsKnow
  <2>1. d # c /\ call'[d] = call[d] /\ call[d].at \in Made /\ k = call[d].id
    BY <1>4
  <2>2. /\ k \in Ids /\ Enrolled(k) /\ identity[k].by = call[d].token
        /\ Used(k) <=> call[d].at = "enrolled"
        /\ \A g \in Hosts : ~Has(g, k)
        /\ \A b \in Calls : call[b].at \in Made /\ call[b].id = k => b = d
    BY <2>1 DEF CallsKnow
  <2>3. \A g \in Hosts : ~Has(g, k)'
    BY <1>6, <1>7, <2>1, <2>2
  <2> QED
    BY <1>4, <1>5, <2>1, <2>2, <2>3
<1>10. TicketsName'
  BY <1>5 DEF TicketsName, EnrolmentTypeOK
<1>11. SavingHasId'
  BY <1>7 DEF SavingHasId
<1>12. OneWorkerPerToken'
  <2>1. \A k \in Ids : AtTheCore(k) => AtTheCore(k)' \/ mishaps' > 0
    BY <1>2 DEF AtTheCore
  <2> QED
    BY <1>5, <2>1 DEF OneWorkerPerToken
<1>13. TokensAreNotWasted'
  <2>1. ASSUME mishaps' = 0, NEW k, OnTheWay(k) PROVE OnTheWay(k)'
    <3>1. CASE \E d \in Calls : call[d].at = "enrolled" /\ call[d].id = k
      BY <1>2, <2>1, <3>1 DEF OnTheWay
    <3>2. CASE \E g \in Hosts : host[g].at = "saving" /\ host[g].id = k
      BY <2>1, <3>2 DEF OnTheWay
    <3> QED
      BY <2>1, <3>1, <3>2 DEF OnTheWay
  <2>2. mishaps' \in Nat /\ (mishaps' = 0 => mishaps = 0)
    BY EnrolmentAssumption
  <2> QED
    BY <2>1, <2>2 DEF TokensAreNotWasted
<1>14. Calm'
  <2> SUFFICES ASSUME mishaps' = 0 PROVE
        /\ \A g \in Hosts, n \in 1..Sends : call'[<<g, n>>].at # "none" => Waits(g, <<g, n>>)'
        /\ \A g \in Hosts : Exposed(g)' => site[g].room
    BY DEF Calm
  <2>1. mishaps = 0
    OBVIOUS
  <2>2. ASSUME NEW g \in Hosts, NEW n \in 1..Sends, call'[<<g, n>>].at # "none" PROVE Waits(g, <<g, n>>)'
    <3>1. <<g, n>> \in Calls /\ <<g, n>> # c /\ call[<<g, n>>].at # "none"
      BY <1>1, <1>2, <2>2 DEF Calls
    <3>2. Waits(g, <<g, n>>)
      BY <2>1, <3>1 DEF Calm
    <3> QED
      BY <3>1, <3>2 DEF Waits
  <2>3. \A g \in Hosts : Exposed(g)' => Exposed(g)
    BY DEF Exposed
  <2> QED
    BY <2>1, <2>2, <2>3 DEF Calm
<1> QED
  BY <1>3, <1>8, <1>9, <1>10, <1>11, <1>12, <1>13, <1>14

LEMMA BreakCallHolds == ASSUME EInv, NEW h \in Hosts, NEW n \in 1..Sends, BreakCall(h, n) PROVE EInv'
<1>1. PICK c \in Calls : c = <<h, n>>
  BY DEF Calls
<1>2. mishaps' \in 0..MaxMishaps /\ mishaps' > 0
  BY Types, EnrolmentAssumption DEF BreakCall, Mishap
<1>3. call' = [call EXCEPT ![c] = NoCall] /\ UNCHANGED <<ticket, identity, site, saved>>
  BY <1>1 DEF BreakCall
<1>4. CASE ~Waits(h, c)
  <2>1. UNCHANGED host
    BY <1>1, <1>4 DEF BreakCall
  <2>2. mishaps' # 0 /\ host \in [Hosts -> HostType] /\ \A g \in Hosts : host'[g] = host[g]
    BY <1>2, <2>1, Types
  <2> QED
    BY <1>2, <1>3, <2>1, <2>2, CallEnds
<1>5. CASE Waits(h, c)
  <2>1. PICK v \in HostType : /\ host' = [host EXCEPT ![h] = v]
                              /\ v.at \in {"sending", "down"} /\ v.id \in {0, host[h].id}
    BY <1>1, <1>5, TryOrGiveUp, Types DEF BreakCall
  <2>2. host' \in [Hosts -> HostType] /\ host'[h] = v /\ \A g \in Hosts \ {h} : host'[g] = host[g]
    BY <2>1, Types
  <2>3. mishaps' # 0
    BY <1>2, Types
  <2> QED
    BY <1>2, <1>3, <2>1, <2>2, <2>3, CallEnds
<1> QED
  BY <1>4, <1>5

(* The worker that is answered with is nobody's yet.                        *)
LEMMA AnswerCallHolds == ASSUME EInv, NEW h \in Hosts, NEW n \in 1..Sends, AnswerCall(h, n) PROVE EInv'
<1>1. PICK c \in Calls : c = <<h, n>>
  BY DEF Calls
<1>2. /\ call' = [call EXCEPT ![c] = NoCall] /\ UNCHANGED <<ticket, identity, site, saved, mishaps>>
      /\ call[c].at \in {"enrolled", "refused"}
  BY <1>1 DEF AnswerCall
<1>3. CASE ~Waits(h, c)
  <2>1. UNCHANGED host
    BY <1>1, <1>3 DEF AnswerCall
  <2>2. mishaps > 0
    BY <1>1, <1>2, <1>3, Types DEF EInv, Calm
  <2>3. mishaps' # 0 /\ mishaps' \in 0..MaxMishaps /\ host \in [Hosts -> HostType]
        /\ call[c].at \notin {"consuming", "losing"} /\ \A g \in Hosts : host'[g] = host[g]
    BY <1>2, <2>1, <2>2, Types
  <2> QED
    BY <1>2, <2>1, <2>3, CallEnds
<1>4. CASE Waits(h, c)
  <2>1. host[h].at = "calling" /\ \A d \in Calls \ {c} : ~Waits(h, d)
    BY <1>1, <1>4 DEF Waits
  <2>2. call[c].at = "enrolled" => call[c].id \in Ids
    BY <1>1 DEF EInv, CallsKnow, Made
  <2>3. PICK v \in HostType :
          /\ host' = [host EXCEPT ![h] = v]
          /\ \/ call[c].at = "refused" /\ v.id = 0 /\ v.at = "down"
             \/ call[c].at = "enrolled" /\ v.id = call[c].id /\ v.at = "saving"
    <3>1. CASE call[c].at = "refused"
      <4>1. Down \in HostType /\ Down.at = "down" /\ Down.id = 0
        BY EnrolmentAssumption DEF HostType, Down
      <4> QED
        BY <1>1, <1>4, <3>1, <4>1 DEF AnswerCall
    <3>2. CASE call[c].at = "enrolled"
      <4>1. PICK v : v = [host[h] EXCEPT !.at = "saving", !.id = call[c].id]
        OBVIOUS
      <4>2. v \in HostType /\ v.at = "saving" /\ v.id = call[c].id
        BY <2>2, <3>2, <4>1, Types DEF HostType
      <4>3. host' = [host EXCEPT ![h].at = "saving", ![h].id = call[c].id]
        BY <1>1, <1>4, <3>2 DEF AnswerCall
      <4>4. host' = [host EXCEPT ![h] = v]
        BY <4>1, <4>3, Types
      <4> QED
        BY <3>2, <4>2, <4>4
    <3> QED
      BY <1>2, <3>1, <3>2
  <2>4. host' \in [Hosts -> HostType] /\ host'[h] = v /\ \A g \in Hosts \ {h} : host'[g] = host[g]
    BY <2>3, Types
  <2>5. Exposed(h)
    BY <2>1 DEF Exposed
  <2> QED
    BY <1>1, <1>2, <2>1, <2>3, <2>4, <2>5, Types, CallEnds
<1> QED
  BY <1>3, <1>4

(* A host that calls waits for the request it sends.  (No try is numbered   *)
(* 0; a call outside the table would change nothing.)                       *)
LEMMA EnrollHolds == ASSUME EInv, NEW h \in Hosts, Enroll(h) PROVE EInv'
<1>0. PICK c : c = <<h, host[h].try>>
  OBVIOUS
<1>1. /\ host[h].at = "sending" /\ call[c].at = "none" /\ host' = [host EXCEPT ![h].at = "calling"]
      /\ UNCHANGED <<ticket, identity, site, saved, mishaps>>
  BY <1>0 DEF Enroll, HostGoes
<1>2. [host[h] EXCEPT !.at = "calling"] \in HostType
  BY Types DEF HostType
<1>3. /\ host' \in [Hosts -> HostType] /\ host'[h] = [host[h] EXCEPT !.at = "calling"]
      /\ \A g \in Hosts \ {h} : host'[g] = host[g]
  BY <1>1, <1>2, Types
<1>4. host'[h].at = "calling" /\ host'[h].id = host[h].id /\ host'[h].try = host[h].try
  BY <1>3, Types DEF HostType
<1>5. PICK r : r = [at |-> "sent", token |-> site[h].token, id |-> 0]
  OBVIOUS
<1>6. call' = [call EXCEPT ![c] = r] /\ r \in CallType /\ r.at = "sent"
  BY <1>0, <1>5, Types DEF Enroll, CallType, SiteType
<1>7. CASE c \in Calls
  <2>1. /\ call' \in [Calls -> CallType] /\ call'[c] = r /\ \A d \in Calls \ {c} : call'[d] = call[d]
    BY <1>6, <1>7, Types
  <2>2. Waits(c[1], c)'
    BY <1>0, <1>4 DEF Waits
  <2>3. \A g \in Hosts : /\ host'[g].id = host[g].id /\ (host'[g].at = "saving" <=> host[g].at = "saving")
                         /\ Exposed(g)' => Exposed(g)
                         /\ \A d \in Calls : Waits(g, d) => Waits(g, d)'
    BY <1>1, <1>3, <1>4 DEF Exposed, Waits
  <2> QED
    BY <1>1, <1>3, <1>6, <1>7, <2>1, <2>2, <2>3, CallMoves
<1>8. CASE c \notin Calls
  <2>1. UNCHANGED call
    BY <1>6, <1>8, Types
  <2>2. Exposed(h) /\ (mishaps = 0 => site[h].room)
    BY <1>1 DEF EInv, Calm, Exposed
  <2> QED
    BY <1>1, <1>3, <1>4, <2>1, <2>2, Types, HostMoves
<1> QED
  BY <1>7, <1>8

LEMMA SaveCredentialsHolds == ASSUME EInv, NEW h \in Hosts, SaveCredentials(h) PROVE EInv'
<1> USE DEF EInv, EnrolmentInv
<1>1. host[h].at = "saving" /\ UNCHANGED <<ticket, identity, call, mishaps>>
  BY DEF SaveCredentials
<1>2. PICK i \in Ids : i = host[h].id
  BY <1>1, Types DEF SavingHasId, HostType
<1>3. CASE ~site[h].room
  <2>1. host' = [host EXCEPT ![h] = Down] /\ UNCHANGED <<site, saved>>
    BY <1>3 DEF SaveCredentials
  <2>2. mishaps > 0
    BY <1>1, <1>3, Types DEF Calm, Exposed
  <2>3. Down \in HostType /\ Down.at = "down" /\ Down.id = 0
    BY EnrolmentAssumption DEF HostType, Down
  <2> QED
    BY <1>1, <2>1, <2>2, <2>3, Types, HostMoves
<1>4. CASE site[h].room
  <2>1. /\ host' = [host EXCEPT ![h].at = "up"] /\ saved' = saved \cup {i}
        /\ site' = [site EXCEPT ![h].file = i]
    BY <1>2, <1>4 DEF SaveCredentials, HostGoes
  <2>2. [host[h] EXCEPT !.at = "up"] \in HostType /\ [site[h] EXCEPT !.file = i] \in SiteType
    BY Types DEF HostType, SiteType
  <2>3. /\ host' \in [Hosts -> HostType] /\ host'[h] = [host[h] EXCEPT !.at = "up"]
        /\ site' \in [Hosts -> SiteType] /\ site'[h] = [site[h] EXCEPT !.file = i]
        /\ \A g \in Hosts \ {h} : host'[g] = host[g] /\ site'[g] = site[g]
    BY <2>1, <2>2, Types
  <2>4. host'[h].at = "up" /\ host'[h].id = i /\ site'[h].file = i /\ site'[h].room = site[h].room
    BY <1>2, <2>3, Types DEF HostType, SiteType
  <2>5. EnrolmentTypeOK'
    BY <1>1, <2>1, <2>3 DEF EnrolmentTypeOK, HostType, SiteType
  <2>6. \A g \in Hosts : \A k : Has(g, k)' => Has(g, k)
    BY <1>2, <2>3, <2>4 DEF Has
  <2>7. \A k : (Enrolled(k)' <=> Enrolled(k)) /\ (Used(k)' <=> Used(k)) /\ (AtTheCore(k)' <=> AtTheCore(k))
    BY <1>1 DEF Enrolled, Used, AtTheCore
  <2>8. IdentitiesStand' /\ OneWorkerPerToken' /\ TicketsName'
    BY <1>1, <2>6, <2>7 DEF IdentitiesStand, OneWorkerPerToken, TicketsName
  <2>9. CallsKnow'
    BY <1>1, <2>6, <2>7 DEF CallsKnow
  <2>10. SavingHasId'
    BY <2>3, <2>4 DEF SavingHasId
  <2>11. Calm'
    <3> SUFFICES ASSUME mishaps = 0 PROVE
          /\ \A g \in Hosts, n \in 1..Sends : call'[<<g, n>>].at # "none" => Waits(g, <<g, n>>)'
          /\ \A g \in Hosts : Exposed(g)' => site'[g].room
      BY <1>1 DEF Calm
    <3>1. \A g \in Hosts, n \in 1..Sends : call[<<g, n>>].at # "none" => Waits(g, <<g, n>>) /\ g # h
      BY <1>1 DEF Calm, Waits
    <3>2. \A g \in Hosts : Exposed(g)' => Exposed(g) /\ g # h
      BY <2>3, <2>4 DEF Exposed
    <3> QED
      BY <1>1, <2>3, <3>1, <3>2 DEF Calm, Waits
  <2>12. TokensAreNotWasted'
    <3>1. \A k : OnTheWay(k) => OnTheWay(k)' \/ k = i
      BY <1>1, <1>2, <2>3 DEF OnTheWay
    <3> QED
      BY <1>1, <2>1, <3>1 DEF TokensAreNotWasted
  <2> QED
    BY <2>5, <2>8, <2>9, <2>10, <2>11, <2>12
<1> QED
  BY <1>3, <1>4

-----------------------------------------------------------------------------
(* People: a token is withdrawn or runs out, a worker revoked or restored.  *)
LEMMA PeopleHold ==
  ASSUME EInv, \/ \E t \in Tokens : RevokeToken(t) \/ ExpireToken(t)
               \/ \E i \in Ids, s \in {"ACTIVE", "REVOKED"} : SetStatus(i, s)
  PROVE  EInv'
<1> USE DEF EInv, EnrolmentInv
<1>1. UNCHANGED <<call, host, site, saved, mishaps>>
  BY DEF RevokeToken, ExpireToken, SetStatus
<1>2. /\ ticket' \in [Tokens -> TicketType] /\ identity' \in [Ids -> IdentityType]
      /\ \A t \in Tokens : ticket'[t].usedBy = ticket[t].usedBy
      /\ \A k \in Ids : (Enrolled(k)' <=> Enrolled(k)) /\ identity'[k].by = identity[k].by
  <2>1. CASE \E t \in Tokens : RevokeToken(t) \/ ExpireToken(t)
    <3>1. PICK t \in Tokens : RevokeToken(t) \/ ExpireToken(t)
      BY <2>1
    <3>2. PICK v : v = ticket'[t]
      OBVIOUS
    <3>3. v \in TicketType /\ v.usedBy = ticket[t].usedBy
      BY <3>1, <3>2, Types DEF RevokeToken, ExpireToken, TicketType
    <3>4. ticket' = [ticket EXCEPT ![t] = v] /\ UNCHANGED identity
      BY <3>1, <3>2, Types DEF RevokeToken, ExpireToken
    <3> QED
      BY <3>3, <3>4, Types DEF Enrolled
  <2>2. CASE \E i \in Ids, s \in {"ACTIVE", "REVOKED"} : SetStatus(i, s)
    <3>1. PICK i \in Ids, s \in {"ACTIVE", "REVOKED"} : SetStatus(i, s)
      BY <2>2
    <3>2. PICK v : v = [identity[i] EXCEPT !.status = s]
      OBVIOUS
    <3>3. v \in IdentityType /\ v.by = identity[i].by /\ v.status = s
      BY <3>2, Types DEF IdentityType
    <3>4. identity' = [identity EXCEPT ![i] = v] /\ UNCHANGED ticket /\ Enrolled(i)
      BY <3>1, <3>2, Types DEF SetStatus, Enrolled, IdentityType
    <3> QED
      BY <3>3, <3>4, Types DEF Enrolled
  <2> QED
    BY <2>1, <2>2
<1>3. \A k \in Ids : identity[k].by \in Tokens
  BY Types DEF IdentityType
<1>4. \A k \in Ids : Used(k)' <=> Used(k)
  BY <1>2, <1>3 DEF Used
<1>5. EnrolmentTypeOK' /\ SavingHasId'
  BY <1>1, <1>2 DEF EnrolmentTypeOK, TicketType, IdentityType, SavingHasId
<1>6. OneWorkerPerToken' /\ IdentitiesStand'
  BY <1>1, <1>2, <1>4 DEF OneWorkerPerToken, IdentitiesStand, AtTheCore, Has
<1>7. CallsKnow' /\ TicketsName'
  <2>1. \A t \in Tokens : ticket[t].usedBy \in {0} \cup Ids
    BY Types DEF TicketType
  <2> QED
    BY <1>1, <1>2, <1>4, <2>1 DEF CallsKnow, TicketsName, Has
<1>8. TokensAreNotWasted' /\ Calm'
  BY <1>1, <1>2 DEF TokensAreNotWasted, OnTheWay, Calm, Waits, Exposed
<1> QED
  BY <1>5, <1>6, <1>7, <1>8

-----------------------------------------------------------------------------
LEMMA EInvNext == EInv /\ [EnrolmentNext]_enrolmentVars => EInv'
<1> SUFFICES ASSUME EInv, [EnrolmentNext]_enrolmentVars PROVE EInv'
  OBVIOUS
<1>1. CASE UNCHANGED enrolmentVars
  BY <1>1 DEF enrolmentVars, EInv, EnrolmentInv, EnrolmentTypeOK, OneWorkerPerToken, IdentitiesStand,
     TokensAreNotWasted, CallsKnow, TicketsName, SavingHasId, Calm, Enrolled, Used, AtTheCore, OnTheWay,
     Has, Waits, Exposed
<1>2. CASE EnrolmentNext
  BY <1>2, ReadTokenHolds, CreateWorkerHolds, ConsumeTokenHolds, RollBackHolds, BreakCallHolds,
     AnswerCallHolds, HostStepHolds, EnrollHolds, SaveCredentialsHolds, PeopleHold DEF EnrolmentNext
<1> QED
  BY <1>1, <1>2

(* However requests, answers, retries, crashes and full disks fall: a token *)
(* makes one worker, an identity is one host's and stands, and a token is   *)
(* spent for nothing only when something went wrong (the enroll route,      *)
(* ensureCredentials).                                                      *)
THEOREM EnrolmentSafe == EnrolmentSpec => []EnrolmentInv
<1>1. EInv => EnrolmentInv
  BY DEF EInv
<1> QED
  BY <1>1, InitHolds, EInvNext, PTL DEF EnrolmentSpec

-----------------------------------------------------------------------------
(***************************************************************************)
(* The accounts and the links mailed to them (Accounts.tla), for any       *)
(* people, number of links and number of requests at a time.               *)
(***************************************************************************)
LinkType == [of : People, state : {"free", "outstanding", "consumed", "revoked"}]
InquiryType == [at : {"idle", "demoting", "removing", "issuing", "mailing", "redeeming"},
                of : People, link : {0} \cup Links, stale : BOOLEAN]
Taking == {"demoting", "removing"}

(* A request that is to take an owner away has counted another one, unless *)
(* an owner came or went since; and it is about an account.                *)
Counted(q) == inquiry[q].at \in Taking =>
  /\ inquiry[q].of \in Accounts
  /\ ~inquiry[q].stale /\ inquiry[q].of \in Owners => Owners \ {inquiry[q].of} # {}
OwnersKnown == OwnersStand /\ \A q \in Admins : Counted(q)

(* Who redeems a link has it alone, and it has opened nothing yet.         *)
Redeems(q) == inquiry[q].at = "redeeming"
ClicksKnown ==
  /\ \A q \in Admins : Redeems(q) =>
       /\ inquiry[q].link \in Links
       /\ link[inquiry[q].link].state \in {"consumed", "revoked"} /\ opened[inquiry[q].link] = 0
       /\ \A k \in Admins \ {q} : Redeems(k) => inquiry[k].link # inquiry[q].link
  /\ \A n \in Links : opened[n] <= 1 /\ (link[n].state \in {"free", "outstanding"} => opened[n] = 0)

(* Between the retiring of the earlier links and the new one there is none, *)
(* and nobody else is at it for the same account.                          *)
Mails(q, p) == inquiry[q].at \in Mailing /\ inquiry[q].of = p
OneWayIn(p) ==
  /\ \A q, k \in Admins : Mails(q, p) /\ Mails(k, p) => q = k
  /\ \A q \in Admins : inquiry[q].at = "issuing" /\ inquiry[q].of = p => Outstanding(p) = {}
  /\ \A m, n \in Outstanding(p) : m = n
MailsKnown == \A p \in People : p \in crossed \/ OneWayIn(p)

AInv == AccountsTypeOK /\ OwnersKnown /\ ClicksKnown /\ MailsKnown

LEMMA AccountShapes ==
  ASSUME AInv
  PROVE  /\ role \in [People -> {"none", "ADMIN", "OWNER"}]
         /\ link \in [Links -> LinkType] /\ inquiry \in [Admins -> InquiryType]
         /\ opened \in [Links -> Nat] /\ Owner \in People /\ 0 \notin Links
         /\ MaxLinks \in Nat /\ MaxStarts \in Nat
  BY AccountsAssumption DEF AInv, AccountsTypeOK, LinkType, InquiryType, Links

-----------------------------------------------------------------------------
(* What leaves the links alone, or takes some out of use.                  *)
OnlyRetires == \A n \in Links :
  /\ link'[n].of = link[n].of
  /\ \/ link'[n].state = link[n].state
     \/ link[n].state # "free" /\ link'[n].state = "revoked"

(* Of the requests that deal with links, none is new.                      *)
NoNewMail == \A q \in Admins :
  \/ inquiry'[q].at \in {"idle"} \cup Taking
  \/ inquiry'[q].at = inquiry[q].at /\ inquiry'[q].of = inquiry[q].of /\ inquiry'[q].link = inquiry[q].link

LEMMA OutstandingShrinks ==
  ASSUME OnlyRetires, NEW p
  PROVE  Outstanding(p)' \subseteq Outstanding(p)
  BY DEF OnlyRetires, Outstanding

LEMMA MailsStay ==
  ASSUME AInv, NoNewMail, NEW p \in People, OneWayIn(p), Outstanding(p)' \subseteq Outstanding(p)
  PROVE  OneWayIn(p)'
<1>1. \A q \in Admins : /\ Mails(q, p)' => Mails(q, p)
                        /\ inquiry'[q].at = "issuing" /\ inquiry'[q].of = p
                             => inquiry[q].at = "issuing" /\ inquiry[q].of = p
  BY DEF NoNewMail, Mails, Mailing, Taking
<1> QED  BY <1>1 DEF OneWayIn

LEMMA LinksStay ==
  ASSUME AInv, NoNewMail, OnlyRetires, opened' = opened, crossed' = crossed
  PROVE  ClicksKnown' /\ MailsKnown'
<1>1. MailsKnown'
  BY OutstandingShrinks, MailsStay DEF AInv, MailsKnown
<1>2. \A q \in Admins : Redeems(q)' => Redeems(q) /\ inquiry'[q].link = inquiry[q].link
  BY DEF NoNewMail, Redeems, Taking
<1>3. ClicksKnown'
  BY <1>2 DEF OnlyRetires, AInv, ClicksKnown
<1> QED  BY <1>1, <1>3

(* What leaves the accounts alone, and starts no demotion.                 *)
NoNewCount == \A q \in Admins : inquiry'[q].at \in Taking => inquiry'[q] = inquiry[q]

LEMMA CountsStay ==
  ASSUME AInv, UNCHANGED <<role, raced>>, NoNewCount
  PROVE  OwnersKnown'
<1>1. Owners' = Owners /\ Accounts' = Accounts
  BY DEF Owners, Accounts
<1>2. OwnersStand'
  BY <1>1 DEF AInv, OwnersKnown, OwnersStand
<1>3. \A q \in Admins : Counted(q)'
  BY <1>1 DEF AInv, OwnersKnown, NoNewCount, Counted
<1> QED  BY <1>2, <1>3 DEF OwnersKnown

(* Asks and Leaves.                                                        *)
LEMMA AskOf ==
  ASSUME AInv, NEW q \in Admins, NEW p \in People, NEW n \in {0} \cup Links,
         NEW at \in {"demoting", "removing", "issuing", "redeeming"}, Asks(q, at, p, n)
  PROVE  /\ inquiry' \in [Admins -> InquiryType]
         /\ inquiry'[q].at = at /\ inquiry'[q].of = p /\ inquiry'[q].link = n /\ ~inquiry'[q].stale
         /\ inquiry[q].at = "idle"
         /\ \A k \in Admins \ {q} : inquiry'[k] = inquiry[k]
<1>1. [at |-> at, of |-> p, link |-> n, stale |-> FALSE] \in InquiryType
  BY DEF InquiryType
<1>2. PICK r \in InquiryType : r = [at |-> at, of |-> p, link |-> n, stale |-> FALSE]
  BY <1>1
<1>3. r.at = at /\ r.of = p /\ r.link = n /\ ~r.stale
  BY <1>2
<1>4. inquiry' = [inquiry EXCEPT ![q] = r] /\ inquiry[q].at = "idle"
  BY <1>2 DEF Asks
<1> QED  BY <1>3, <1>4, AccountShapes

LEMMA Nobody == ASSUME AInv PROVE NoInquiry \in InquiryType /\ NoInquiry.at = "idle"
  BY AccountShapes DEF NoInquiry, InquiryType

LEMMA LeaveOf ==
  ASSUME AInv, NEW q \in Admins, Leaves(q)
  PROVE  /\ inquiry' \in [Admins -> InquiryType]
         /\ inquiry'[q].at = "idle"
         /\ \A k \in Admins \ {q} : inquiry'[k] = inquiry[k]
  BY AccountShapes, Nobody DEF Leaves

LEMMA RetiredOf ==
  ASSUME AInv, NEW p, NEW except
  PROVE  /\ Retired(p, except) \in [Links -> LinkType]
         /\ \A n \in Links :
              /\ Retired(p, except)[n].of = link[n].of
              /\ Retired(p, except)[n].state = IF n \in Outstanding(p) \ except THEN "revoked" ELSE link[n].state
<1>1. ASSUME NEW n \in Links
      PROVE  /\ Retired(p, except)[n] \in LinkType
             /\ Retired(p, except)[n].of = link[n].of
             /\ Retired(p, except)[n].state = IF n \in Outstanding(p) \ except THEN "revoked" ELSE link[n].state
  <2>1. PICK l \in LinkType : l = link[n]
    BY AccountShapes
  <2>2. [l EXCEPT !.state = "revoked"] \in LinkType /\ [l EXCEPT !.state = "revoked"].of = l.of
        /\ [l EXCEPT !.state = "revoked"].state = "revoked"
    BY DEF LinkType
  <2>3. Retired(p, except)[n] = IF n \in Outstanding(p) \ except THEN [l EXCEPT !.state = "revoked"] ELSE l
    BY <2>1 DEF Retired
  <2> QED  BY <2>1, <2>2, <2>3
<1> QED  BY <1>1 DEF Retired

LEMMA RetiresOnly ==
  ASSUME AInv, NEW p, NEW except, link' = Retired(p, except)
  PROVE  link' \in [Links -> LinkType] /\ OnlyRetires
  BY RetiredOf DEF OnlyRetires, Outstanding

LEMMA OutdatedOf ==
  ASSUME AInv, NEW open \in [Admins -> InquiryType], NEW gone
  PROVE  /\ Outdated(open, gone) \in [Admins -> InquiryType]
         /\ \A k \in Admins : \/ open[k].of \in gone /\ Outdated(open, gone)[k].at = "idle"
                              \/ /\ open[k].of \notin gone
                                 /\ Outdated(open, gone)[k].at = open[k].at
                                 /\ Outdated(open, gone)[k].of = open[k].of
                                 /\ Outdated(open, gone)[k].link = open[k].link
                                 /\ open[k].at \in Taking => Outdated(open, gone)[k].stale
<1>1. ASSUME NEW k \in Admins
      PROVE  /\ Outdated(open, gone)[k] \in InquiryType
             /\ \/ open[k].of \in gone /\ Outdated(open, gone)[k].at = "idle"
                \/ /\ open[k].of \notin gone
                   /\ Outdated(open, gone)[k].at = open[k].at
                   /\ Outdated(open, gone)[k].of = open[k].of
                   /\ Outdated(open, gone)[k].link = open[k].link
                   /\ open[k].at \in Taking => Outdated(open, gone)[k].stale
  <2>1. PICK r \in InquiryType : r = open[k]
    OBVIOUS
  <2> DEFINE b == open[k].at \in {"demoting", "removing"}
  <2>2. b \in BOOLEAN
    OBVIOUS
  <2>3. PICK s : s = [r EXCEPT !.stale = b]
    OBVIOUS
  <2>4. s \in InquiryType /\ s.at = r.at /\ s.of = r.of /\ s.link = r.link /\ s.stale = b
    <3> HIDE DEF b
    <3> QED  BY <2>2, <2>3 DEF InquiryType
  <2>5. Outdated(open, gone)[k] = IF r.of \in gone THEN NoInquiry ELSE s
    BY <2>1, <2>2, <2>3 DEF Outdated
  <2> QED  BY <2>1, <2>2, <2>4, <2>5, Nobody DEF Taking
<1> QED  BY <1>1 DEF Outdated
-----------------------------------------------------------------------------
(* Accounts                                                                *)

(* An account that is added: requests about its person are none that take  *)
(* an owner away, so that nobody has counted it out.                       *)
LEMMA NewAccountKeeps ==
  ASSUME AInv, NEW p \in People, p \notin Accounts, NEW as \in {"ADMIN", "OWNER"},
         role' = [role EXCEPT ![p] = as], approved' \in SUBSET (approved \cup {p}),
         UNCHANGED <<link, inquiry, opened, raced, crossed, starts>>
  PROVE  AInv'
<1>1. Accounts' = Accounts \cup {p} /\ Owners \subseteq Owners' /\ Owners' \subseteq Owners \cup {p}
      /\ role' \in [People -> {"none", "ADMIN", "OWNER"}]
  BY AccountShapes DEF Accounts, Owners
<1>2. AccountsTypeOK'
  BY <1>1 DEF AInv, AccountsTypeOK, Links
<1>3. \A q \in Admins : Counted(q)'
  BY <1>1 DEF AInv, OwnersKnown, Counted
<1>4. OwnersKnown'
  BY <1>1, <1>3 DEF AInv, OwnersKnown, OwnersStand
<1>5. NoNewMail /\ OnlyRetires
  BY DEF NoNewMail, OnlyRetires
<1> QED  BY <1>2, <1>4, <1>5, LinksStay DEF AInv

LEMMA SignUpKeeps == ASSUME AInv, NEW p \in People, SignUp(p) PROVE AInv'
  BY NewAccountKeeps DEF SignUp

LEMMA InviteKeeps ==
  ASSUME AInv, NEW p \in People, NEW as \in {"ADMIN", "OWNER"}, Invite(p, as) PROVE AInv'
  BY NewAccountKeeps DEF Invite

LEMMA ApproveKeeps == ASSUME AInv, NEW p \in People, Approve(p) PROVE AInv'
<1>1. NoNewMail /\ OnlyRetires /\ NoNewCount
  BY DEF Approve, NoNewMail, OnlyRetires, NoNewCount
<1>2. AccountsTypeOK'
  BY DEF Approve, AInv, AccountsTypeOK, Accounts
<1> QED  BY <1>1, <1>2, LinksStay, CountsStay DEF Approve, AInv

(* Whoever had counted owners is told by its observer that it is late.     *)
LEMMA OutdatedKeeps ==
  ASSUME AInv, NEW open \in [Admins -> InquiryType], NEW gone,
         inquiry' = Outdated(open, gone),
         \A k \in Admins : open[k] = inquiry[k] \/ open[k].at = "idle",
         role' \in [People -> {"none", "ADMIN", "OWNER"}],
         Accounts \ gone \subseteq Accounts', Owners' # {} \/ raced'
  PROVE  inquiry' \in [Admins -> InquiryType] /\ OwnersKnown' /\ NoNewMail
<1>1. /\ inquiry' \in [Admins -> InquiryType]
      /\ \A k \in Admins : \/ inquiry'[k].at = "idle"
                           \/ /\ open[k].of \notin gone
                              /\ inquiry'[k].at = open[k].at /\ inquiry'[k].of = open[k].of
                              /\ inquiry'[k].link = open[k].link
                              /\ open[k].at \in Taking => inquiry'[k].stale
  BY OutdatedOf
<1>2. NoNewMail
  BY <1>1 DEF NoNewMail
<1>3. \A k \in Admins : Counted(k)'
  <2> SUFFICES ASSUME NEW k \in Admins, inquiry'[k].at \in Taking
               PROVE  inquiry'[k].of \in Accounts' /\ inquiry'[k].stale
    BY DEF Counted
  <2>1. inquiry'[k].at # "idle"
    BY DEF Taking
  <2>2. open[k].of \notin gone /\ inquiry'[k].at = open[k].at /\ inquiry'[k].of = open[k].of
        /\ inquiry'[k].stale
    BY <1>1, <2>1
  <2>3. open[k] = inquiry[k]
    BY <2>1, <2>2
  <2>4. open[k].of \in Accounts
    BY <2>2, <2>3 DEF AInv, OwnersKnown, Counted
  <2> QED  BY <2>2, <2>4
<1> QED  BY <1>1, <1>2, <1>3 DEF OwnersKnown, OwnersStand

LEMMA PromoteKeeps == ASSUME AInv, NEW p \in People, Promote(p) PROVE AInv'
<1>1. role' \in [People -> {"none", "ADMIN", "OWNER"}] /\ role'[p] = "OWNER"
      /\ \A r \in People \ {p} : role'[r] = role[r]
  BY AccountShapes DEF Promote
<1>2. Accounts' = Accounts /\ Owners' # {}
  BY <1>1 DEF Promote, Accounts, Owners
<1>3. inquiry' \in [Admins -> InquiryType] /\ OwnersKnown' /\ NoNewMail
  BY <1>1, <1>2, AccountShapes, OutdatedKeeps DEF Promote
<1>4. OnlyRetires
  BY DEF Promote, OnlyRetires
<1>5. AccountsTypeOK'
  BY <1>1, <1>2, <1>3 DEF Promote, AInv, AccountsTypeOK, InquiryType, Links
<1> QED  BY <1>3, <1>4, <1>5, LinksStay DEF Promote, AInv

LEMMA EnsureOwnerKeeps == ASSUME AInv, EnsureOwner PROVE AInv'
<1>1. role' \in [People -> {"none", "ADMIN", "OWNER"}] /\ role'[Owner] = "OWNER"
      /\ \A r \in People \ {Owner} : role'[r] = role[r]
  BY AccountShapes DEF EnsureOwner
<1>2. Accounts' = Accounts \cup {Owner} /\ Owners' # {}
  BY <1>1, AccountShapes DEF Accounts, Owners
<1>3. inquiry' \in [Admins -> InquiryType] /\ OwnersKnown' /\ NoNewMail
  BY <1>1, <1>2, AccountShapes, OutdatedKeeps DEF EnsureOwner
<1>4. OnlyRetires
  BY DEF EnsureOwner, OnlyRetires
<1>5. starts' \in 0..MaxStarts
  BY AccountShapes DEF EnsureOwner, AInv, AccountsTypeOK
<1>6. AccountsTypeOK'
  BY <1>1, <1>2, <1>3, <1>5 DEF EnsureOwner, AInv, AccountsTypeOK, InquiryType, Links
<1> QED  BY <1>3, <1>4, <1>6, LinksStay DEF EnsureOwner, AInv

LEMMA CountKeeps ==
  ASSUME AInv, NEW q \in Admins, NEW p \in People, NEW at \in Taking, CountOthers(q, p, at)
  PROVE  AInv'
<1>1. /\ inquiry' \in [Admins -> InquiryType]
      /\ inquiry'[q].at = at /\ inquiry'[q].of = p
      /\ \A k \in Admins \ {q} : inquiry'[k] = inquiry[k]
  BY AskOf DEF CountOthers, Taking
<1>2. NoNewMail /\ OnlyRetires
  BY <1>1 DEF CountOthers, NoNewMail, OnlyRetires
<1>3. Accounts' = Accounts /\ Owners' = Owners
  BY DEF CountOthers, Accounts, Owners
<1>4. Counted(q)'
  BY <1>1, <1>3 DEF CountOthers, Counted
<1>5. \A k \in Admins \ {q} : Counted(k)'
  BY <1>1, <1>3 DEF AInv, OwnersKnown, Counted
<1>6. OwnersKnown'
  BY <1>3, <1>4, <1>5 DEF CountOthers, AInv, OwnersKnown, OwnersStand
<1>7. AccountsTypeOK'
  BY <1>1, <1>3 DEF CountOthers, AInv, AccountsTypeOK, InquiryType, Links
<1> QED  BY <1>2, <1>6, <1>7, LinksStay DEF CountOthers, AInv

(* The one that takes away: if it had counted lately, somebody is left.    *)
LEMMA TakeAwayKeeps == ASSUME AInv, NEW q \in Admins, TakeAway(q) PROVE AInv'
<1> DEFINE p == inquiry[q].of
           removed == inquiry[q].at = "removing"
           left == [inquiry EXCEPT ![q] = NoInquiry]
           gone == IF removed THEN {p} ELSE {}
<1>1. /\ role' = [role EXCEPT ![p] = IF removed THEN "none" ELSE "ADMIN"]
      /\ approved' = approved \ gone
      /\ link' = [n \in Links |-> IF link[n].of \in gone /\ link[n].state # "free"
                                  THEN [link[n] EXCEPT !.state = "revoked"] ELSE link[n]]
      /\ raced' = (raced \/ (p \in Owners /\ inquiry[q].stale))
      /\ inquiry' = IF p \in Owners \cup gone THEN Outdated(left, gone) ELSE left
      /\ UNCHANGED <<opened, crossed, starts>> /\ inquiry[q].at \in Taking
  BY DEF TakeAway, Taking
<1>2. p \in People /\ inquiry[q].stale \in BOOLEAN
  BY AccountShapes DEF InquiryType
<1>3. /\ left \in [Admins -> InquiryType] /\ left[q].at = "idle"
      /\ \A k \in Admins \ {q} : left[k] = inquiry[k]
  BY AccountShapes, Nobody
<1>4. /\ role' \in [People -> {"none", "ADMIN", "OWNER"}]
      /\ role'[p] # "OWNER" /\ (~removed => role'[p] # "none")
      /\ \A r \in People \ {p} : role'[r] = role[r]
  BY <1>1, <1>2, AccountShapes
<1>5. Accounts \ gone \subseteq Accounts' /\ Owners' = Owners \ {p} /\ approved' \subseteq Accounts'
  <2>1. approved \subseteq Accounts
    BY DEF AInv, AccountsTypeOK
  <2> QED  BY <1>1, <1>2, <1>4, <2>1 DEF Accounts, Owners
<1>6. Counted(q) /\ OwnersStand
  BY DEF AInv, OwnersKnown
<1>7. raced' \in BOOLEAN /\ (Owners' # {} \/ raced')
  <2>1. raced \in BOOLEAN
    BY DEF AInv, AccountsTypeOK
  <2> HIDE DEF p
  <2>2. CASE p \in Owners
    <3>1. CASE inquiry[q].stale
      BY <1>1, <2>2, <3>1
    <3>2. CASE ~inquiry[q].stale
      <4>1. Owners \ {p} # {}
        BY <1>1, <1>6, <2>2, <3>2 DEF Counted, p
      <4> QED  BY <1>1, <1>5, <2>1, <2>2, <3>2, <4>1
    <3> QED  BY <3>1, <3>2
  <2>3. CASE p \notin Owners
    BY <1>1, <1>5, <1>6, <2>1, <2>3 DEF OwnersStand
  <2> QED  BY <2>2, <2>3
<1>8. link' \in [Links -> LinkType] /\ OnlyRetires
  <2>1. ASSUME NEW n \in Links
        PROVE  /\ link'[n] \in LinkType /\ link'[n].of = link[n].of
               /\ \/ link'[n].state = link[n].state
                  \/ link[n].state # "free" /\ link'[n].state = "revoked"
    <3>1. PICK l \in LinkType : l = link[n]
      BY AccountShapes
    <3>2. PICK m : m = [l EXCEPT !.state = "revoked"]
      OBVIOUS
    <3>3. m \in LinkType /\ m.of = l.of /\ m.state = "revoked"
      BY <3>2 DEF LinkType
    <3>4. link'[n] = IF l.of \in gone /\ l.state # "free" THEN m ELSE l
      BY <1>1, <3>1, <3>2
    <3> QED  BY <3>1, <3>3, <3>4
  <2> QED  BY <1>1, <2>1 DEF OnlyRetires
<1>9. inquiry' \in [Admins -> InquiryType] /\ OwnersKnown' /\ NoNewMail
  <2>1. \A k \in Admins : left[k] = inquiry[k] \/ left[k].at = "idle"
    BY <1>3
  <2>2. CASE p \in Owners \cup gone
    <3>1. inquiry' = Outdated(left, gone)
      BY <1>1, <2>2
    <3> HIDE DEF left, gone
    <3> QED  BY <1>3, <1>4, <1>5, <1>7, <2>1, <3>1, OutdatedKeeps
  <2>3. CASE p \notin Owners \cup gone
    <3>1. inquiry' = left /\ ~removed /\ Owners' = Owners
      BY <1>1, <1>5, <2>3
    <3> HIDE DEF left
    <3>2. NoNewMail
      BY <1>3, <3>1 DEF NoNewMail
    <3>3. Accounts \subseteq Accounts'
      BY <1>5, <3>1
    <3>4. \A k \in Admins : Counted(k)'
      BY <1>3, <3>1, <3>3 DEF AInv, OwnersKnown, Counted, Taking
    <3> QED  BY <1>3, <1>7, <3>1, <3>2, <3>4 DEF OwnersKnown, OwnersStand
  <2> QED  BY <2>2, <2>3
<1>10. AccountsTypeOK'
  BY <1>1, <1>4, <1>5, <1>7, <1>8, <1>9 DEF AInv, AccountsTypeOK, InquiryType, LinkType, Links
<1> QED  BY <1>1, <1>8, <1>9, <1>10, LinksStay DEF AInv
-----------------------------------------------------------------------------
(* Links                                                                   *)

LEMMA RetireKeeps == ASSUME AInv, NEW p \in People, RetireLinks(p) PROVE AInv'
<1>1. link' \in [Links -> LinkType] /\ OnlyRetires
  BY RetiresOnly DEF RetireLinks
<1>2. NoNewMail /\ NoNewCount
  BY DEF RetireLinks, NoNewMail, NoNewCount
<1>3. AccountsTypeOK'
  BY <1>1 DEF RetireLinks, AInv, AccountsTypeOK, LinkType, Links, Accounts
<1> QED  BY <1>1, <1>2, <1>3, LinksStay, CountsStay DEF RetireLinks, AInv

LEMMA ExpiryKeeps == ASSUME AInv, NEW n \in Links, LinkExpires(n) PROVE AInv'
<1>1. PICK l \in LinkType : l = link[n]
  BY AccountShapes
<1>2. PICK m : m = [l EXCEPT !.state = "revoked"]
  OBVIOUS
<1>3. m \in LinkType /\ m.of = l.of /\ m.state = "revoked"
  BY <1>2 DEF LinkType
<1>4. link' = [link EXCEPT ![n] = m] /\ l.state = "outstanding"
  BY <1>1, <1>2 DEF LinkExpires
<1>5. link' \in [Links -> LinkType] /\ OnlyRetires
  BY <1>1, <1>3, <1>4, AccountShapes DEF OnlyRetires
<1>6. NoNewMail /\ NoNewCount
  BY DEF LinkExpires, NoNewMail, NoNewCount
<1>7. AccountsTypeOK'
  BY <1>5 DEF LinkExpires, AInv, AccountsTypeOK, LinkType, Links, Accounts
<1> QED  BY <1>5, <1>6, <1>7, LinksStay, CountsStay DEF LinkExpires, AInv

LEMMA EndSendKeeps == ASSUME AInv, NEW q \in Admins, EndSend(q) PROVE AInv'
<1>1. link' \in [Links -> LinkType] /\ OnlyRetires
  <2>1. CASE link' = link
    BY <2>1, AccountShapes DEF OnlyRetires
  <2>2. CASE link' = Retired(inquiry[q].of, {})
    BY <2>2, RetiresOnly
  <2> QED  BY <2>1, <2>2 DEF EndSend
<1>2. inquiry' \in [Admins -> InquiryType] /\ NoNewMail /\ NoNewCount
  BY LeaveOf DEF EndSend, NoNewMail, NoNewCount, Taking
<1>3. AccountsTypeOK'
  BY <1>1, <1>2 DEF EndSend, AInv, AccountsTypeOK, LinkType, InquiryType, Links, Accounts
<1> QED  BY <1>1, <1>2, <1>3, LinksStay, CountsStay DEF EndSend, AInv

(* The earlier links are out of use, and if another mail is on its way the *)
(* observer says so.                                                       *)
LEMMA BeginSendKeeps ==
  ASSUME AInv, NEW q \in Admins, NEW p \in People, BeginSend(q, p) PROVE AInv'
<1>1. /\ inquiry' \in [Admins -> InquiryType]
      /\ inquiry'[q].at = "issuing" /\ inquiry'[q].of = p /\ inquiry[q].at = "idle"
      /\ \A k \in Admins \ {q} : inquiry'[k] = inquiry[k]
  BY AskOf DEF BeginSend
<1>2. link' \in [Links -> LinkType] /\ OnlyRetires
  BY RetiresOnly DEF BeginSend
<1>3. Outstanding(p)' = {}
  BY RetiredOf DEF BeginSend, Outstanding
<1>4. NoNewCount
  BY <1>1 DEF NoNewCount, Taking
<1>5. AccountsTypeOK'
  BY <1>1, <1>2 DEF BeginSend, AInv, AccountsTypeOK, LinkType, InquiryType, Links, Accounts
<1>6. ClicksKnown'
  <2>1. \A k \in Admins : Redeems(k)' => Redeems(k) /\ inquiry'[k] = inquiry[k]
    BY <1>1 DEF Redeems
  <2> QED  BY <1>2, <2>1 DEF BeginSend, OnlyRetires, AInv, ClicksKnown
<1>7. ASSUME NEW r \in People \ crossed'
      PROVE  OneWayIn(r)'
  <2>1. CASE r = p
    <3>1. ~\E k \in Admins : inquiry[k].at \in Mailing /\ inquiry[k].of = p
      BY <1>7, <2>1 DEF BeginSend
    <3>2. \A k \in Admins : Mails(k, p)' => k = q
      BY <1>1, <3>1 DEF Mails
    <3> QED  BY <1>3, <2>1, <3>2 DEF OneWayIn
  <2>2. CASE r # p
    <3>1. OneWayIn(r)
      BY <1>7, <2>2 DEF BeginSend, AInv, MailsKnown
    <3>2. \A k \in Admins : Mails(k, r)' => Mails(k, r) /\ inquiry'[k] = inquiry[k]
      BY <1>1, <2>2 DEF Mails
    <3>3. \A k \in Admins : inquiry'[k].at = "issuing" /\ inquiry'[k].of = r =>
            inquiry[k].at = "issuing" /\ inquiry[k].of = r
      BY <1>1, <2>2
    <3> QED  BY <1>2, <3>1, <3>2, <3>3, OutstandingShrinks DEF OneWayIn
  <2> QED  BY <2>1, <2>2
<1> QED  BY <1>4, <1>5, <1>6, <1>7, CountsStay DEF BeginSend, AInv, MailsKnown

(* The new link is the only one, if nobody else was mailing one.           *)
LEMMA CreateLinkKeeps == ASSUME AInv, NEW q \in Admins, CreateLink(q) PROVE AInv'
<1> DEFINE p == inquiry[q].of
<1>1. PICK n \in Links : /\ \A m \in Links : link[m].state = "free" <=> m >= n
                         /\ link' = [link EXCEPT ![n] = [of |-> p, state |-> "outstanding"]]
                         /\ inquiry' = [inquiry EXCEPT ![q].at = "mailing"]
  BY DEF CreateLink
<1>2. link[n].state = "free"
  BY <1>1, AccountShapes DEF Links
<1>3. PICK i \in InquiryType : i = inquiry[q] /\ i.at = "issuing"
  BY AccountShapes DEF CreateLink
<1>4. PICK j : j = [i EXCEPT !.at = "mailing"]
  OBVIOUS
<1>5. j \in InquiryType /\ j.at = "mailing" /\ j.of = p
  BY <1>3, <1>4 DEF InquiryType
<1>6. inquiry' \in [Admins -> InquiryType] /\ inquiry'[q] = j
      /\ \A k \in Admins \ {q} : inquiry'[k] = inquiry[k]
  BY <1>1, <1>3, <1>4, <1>5, AccountShapes
<1>7. PICK l \in LinkType : l = [of |-> p, state |-> "outstanding"]
  BY AccountShapes DEF LinkType, InquiryType
<1>8. link' \in [Links -> LinkType] /\ link'[n] = l /\ l.of = p /\ l.state = "outstanding"
      /\ \A m \in Links \ {n} : link'[m] = link[m]
  BY <1>1, <1>7, AccountShapes
<1>9. AccountsTypeOK'
  BY <1>6, <1>8 DEF CreateLink, AInv, AccountsTypeOK, LinkType, InquiryType, Links, Accounts
<1>10. NoNewCount
  BY <1>5, <1>6 DEF NoNewCount, Taking
<1>11. ClicksKnown'
  <2>1. \A k \in Admins : Redeems(k)' => k # q /\ Redeems(k) /\ inquiry'[k] = inquiry[k]
    BY <1>5, <1>6 DEF Redeems
  <2>2. \A k \in Admins : Redeems(k) => inquiry[k].link # n
    BY <1>2 DEF AInv, ClicksKnown
  <2>3. opened[n] = 0
    BY <1>2 DEF AInv, ClicksKnown
  <2> QED  BY <1>8, <2>1, <2>2, <2>3 DEF CreateLink, AInv, ClicksKnown
<1>12. ASSUME NEW r \in People \ crossed'
       PROVE  OneWayIn(r)'
  <2>1. OneWayIn(r)
    BY <1>12 DEF CreateLink, AInv, MailsKnown
  <2>2. \A k \in Admins : Mails(k, r)' => Mails(k, r)
    BY <1>3, <1>5, <1>6 DEF Mails, Mailing
  <2>3. \A k \in Admins : inquiry'[k].at = "issuing" => k # q /\ inquiry'[k] = inquiry[k]
    BY <1>5, <1>6
  <2>4. CASE r = p
    <3>1. Mails(q, r)
      BY <1>3, <2>4 DEF Mails, Mailing
    <3>2. Outstanding(r) = {}
      BY <1>3, <2>1, <2>4 DEF OneWayIn
    <3>3. Outstanding(r)' \subseteq {n}
      BY <1>8, <3>2 DEF Outstanding
    <3>4. ~\E k \in Admins : inquiry'[k].at = "issuing" /\ inquiry'[k].of = r
      BY <2>1, <2>3, <3>1 DEF OneWayIn, Mails, Mailing
    <3> QED  BY <2>1, <2>2, <3>3, <3>4 DEF OneWayIn
  <2>5. CASE r # p
    <3>1. Outstanding(r)' \subseteq Outstanding(r)
      BY <1>8, <2>5 DEF Outstanding
    <3> QED  BY <2>1, <2>2, <2>3, <3>1 DEF OneWayIn
  <2> QED  BY <2>4, <2>5
<1> QED  BY <1>9, <1>10, <1>11, <1>12, CountsStay DEF CreateLink, AInv, MailsKnown

(* Of two clicks one has the link.                                         *)
LEMMA ClaimLinkKeeps ==
  ASSUME AInv, NEW q \in Admins, NEW n \in Links, ClaimLink(q, n) PROVE AInv'
<1>1. PICK l \in LinkType : l = link[n] /\ l.state = "outstanding"
  BY AccountShapes DEF ClaimLink
<1>2. l.of \in People
  BY DEF LinkType
<1>3. /\ inquiry' \in [Admins -> InquiryType]
      /\ inquiry'[q].at = "redeeming" /\ inquiry'[q].link = n
      /\ \A k \in Admins \ {q} : inquiry'[k] = inquiry[k]
  BY <1>1, <1>2, AskOf DEF ClaimLink
<1>4. PICK m : m = [l EXCEPT !.state = "consumed"]
  OBVIOUS
<1>5. m \in LinkType /\ m.of = l.of /\ m.state = "consumed"
  BY <1>4 DEF LinkType
<1>6. link' = [link EXCEPT ![n] = m]
  BY <1>1, <1>4 DEF ClaimLink
<1>7. link' \in [Links -> LinkType] /\ link'[n] = m /\ \A k \in Links \ {n} : link'[k] = link[k]
  BY <1>5, <1>6, AccountShapes
<1>8. AccountsTypeOK'
  BY <1>3, <1>7 DEF ClaimLink, AInv, AccountsTypeOK, LinkType, InquiryType, Links, Accounts
<1>9. NoNewCount
  BY <1>3 DEF NoNewCount, Taking
<1>10. ClicksKnown'
  <2>1. opened[n] = 0 /\ \A k \in Admins : Redeems(k) => inquiry[k].link # n
    BY <1>1 DEF AInv, ClicksKnown
  <2>2. \A k \in Admins \ {q} : Redeems(k)' => Redeems(k) /\ inquiry'[k] = inquiry[k]
    BY <1>3 DEF Redeems
  <2> QED  BY <1>3, <1>5, <1>7, <2>1, <2>2 DEF ClaimLink, AInv, ClicksKnown
<1>11. \A r \in People : Outstanding(r)' \subseteq Outstanding(r)
  BY <1>5, <1>7 DEF Outstanding
<1>12. MailsKnown'
  <2>1. \A r \in People, k \in Admins :
          /\ Mails(k, r)' => Mails(k, r)
          /\ inquiry'[k].at = "issuing" => inquiry'[k] = inquiry[k]
    BY <1>3 DEF Mails, Mailing
  <2> QED  BY <1>11, <2>1 DEF ClaimLink, AInv, MailsKnown, OneWayIn
<1> QED  BY <1>8, <1>9, <1>10, <1>12, CountsStay DEF ClaimLink, AInv

LEMMA EndRedeemKeeps == ASSUME AInv, NEW q \in Admins, EndRedeem(q) PROVE AInv'
<1> DEFINE n == inquiry[q].link
<1>1. n \in Links /\ opened[n] = 0 /\ link[n].state \in {"consumed", "revoked"}
      /\ \A k \in Admins \ {q} : Redeems(k) => inquiry[k].link # n
  BY DEF EndRedeem, AInv, ClicksKnown, Redeems
<1>2. link' \in [Links -> LinkType] /\ OnlyRetires
  BY RetiresOnly DEF EndRedeem
<1>3. /\ inquiry' \in [Admins -> InquiryType] /\ inquiry'[q].at = "idle"
      /\ \A k \in Admins \ {q} : inquiry'[k] = inquiry[k]
  BY LeaveOf DEF EndRedeem
<1>4. opened' \in [Links -> Nat] /\ opened'[n] = 1 /\ \A m \in Links \ {n} : opened'[m] = opened[m]
  BY <1>1, AccountShapes DEF EndRedeem
<1>5. NoNewMail /\ NoNewCount
  BY <1>3 DEF NoNewMail, NoNewCount, Taking
<1>6. AccountsTypeOK'
  BY <1>2, <1>3, <1>4 DEF EndRedeem, AInv, AccountsTypeOK, LinkType, InquiryType, Links, Accounts
<1>7. ClicksKnown'
  <2>1. \A k \in Admins : Redeems(k)' => k # q /\ Redeems(k) /\ inquiry'[k] = inquiry[k]
    BY <1>3 DEF Redeems
  <2>2. \A k \in Admins : Redeems(k)' => inquiry'[k].link # n
    BY <1>1, <2>1
  <2>3. \A m \in Links : opened'[m] <= 1 /\ (link'[m].state \in {"free", "outstanding"} => opened'[m] = 0)
    BY <1>1, <1>2, <1>4 DEF OnlyRetires, AInv, ClicksKnown
  <2>4. ASSUME NEW k \in Admins, Redeems(k)'
        PROVE  /\ inquiry'[k].link \in Links
               /\ link'[inquiry'[k].link].state \in {"consumed", "revoked"} /\ opened'[inquiry'[k].link] = 0
               /\ \A j \in Admins \ {k} : Redeems(j)' => inquiry'[j].link # inquiry'[k].link
    BY <1>2, <1>4, <2>1, <2>2, <2>4 DEF OnlyRetires, AInv, ClicksKnown
  <2> QED  BY <2>3, <2>4 DEF ClicksKnown
<1>8. MailsKnown'
  BY <1>2, <1>5, OutstandingShrinks, MailsStay DEF EndRedeem, AInv, MailsKnown
<1> QED  BY <1>5, <1>6, <1>7, <1>8, CountsStay DEF EndRedeem, AInv

LEMMA AccountsInductive ==
  ASSUME AInv, [AccountsNext]_accountVars
  PROVE  AInv'
<1>1. ASSUME NEW p \in People, SignUp(p) \/ Approve(p) \/ Promote(p) \/ RetireLinks(p)
      PROVE  AInv'
  BY <1>1, SignUpKeeps, ApproveKeeps, PromoteKeeps, RetireKeeps
<1>2. ASSUME NEW p \in People, NEW as \in {"ADMIN", "OWNER"}, Invite(p, as)
      PROVE  AInv'
  BY <1>2, InviteKeeps
<1>3. ASSUME NEW p \in People, NEW q \in Admins,
             BeginSend(q, p) \/ \E at \in {"demoting", "removing"} : CountOthers(q, p, at)
      PROVE  AInv'
  BY <1>3, BeginSendKeeps, CountKeeps DEF Taking
<1>4. ASSUME NEW q \in Admins, TakeAway(q) \/ CreateLink(q) \/ EndSend(q) \/ EndRedeem(q)
      PROVE  AInv'
  BY <1>4, TakeAwayKeeps, CreateLinkKeeps, EndSendKeeps, EndRedeemKeeps
<1>5. ASSUME NEW q \in Admins, NEW n \in Links, ClaimLink(q, n)
      PROVE  AInv'
  BY <1>5, ClaimLinkKeeps
<1>6. CASE EnsureOwner
  BY <1>6, EnsureOwnerKeeps
<1>7. ASSUME NEW n \in Links, LinkExpires(n)
      PROVE  AInv'
  BY <1>7, ExpiryKeeps
<1>8. CASE UNCHANGED accountVars
  <2>1. NoNewMail /\ OnlyRetires /\ NoNewCount
    BY <1>8 DEF accountVars, NoNewMail, OnlyRetires, NoNewCount
  <2>2. AccountsTypeOK'
    BY <1>8 DEF accountVars, AInv, AccountsTypeOK, Accounts
  <2> QED  BY <1>8, <2>1, <2>2, LinksStay, CountsStay DEF accountVars, AInv
<1> QED  BY <1>1, <1>2, <1>3, <1>4, <1>5, <1>6, <1>7, <1>8 DEF AccountsNext

LEMMA AccountsStart == AccountsInit => AInv
<1> SUFFICES ASSUME AccountsInit PROVE AInv
  OBVIOUS
<1>1. role \in [People -> {"none", "ADMIN", "OWNER"}] /\ role[Owner] = "OWNER" /\ Owner \in People
  BY AccountsAssumption DEF AccountsInit
<1>2. Owner \in Accounts /\ Owner \in Owners
  BY <1>1 DEF Accounts, Owners
<1>3. \A q \in Admins : inquiry[q].at = "idle" /\ inquiry[q] = NoInquiry
  BY DEF AccountsInit, NoInquiry
<1>4. AccountsTypeOK
  <2>1. [of |-> Owner, state |-> "free"] \in LinkType /\ NoInquiry \in InquiryType
    BY <1>1 DEF LinkType, InquiryType, NoInquiry
  <2>2. link \in [Links -> LinkType] /\ inquiry \in [Admins -> InquiryType]
    BY <2>1 DEF AccountsInit
  <2>3. starts \in 0..MaxStarts
    BY AccountsAssumption DEF AccountsInit
  <2>4. opened \in [Links -> Nat] /\ raced \in BOOLEAN /\ crossed \subseteq People
    BY DEF AccountsInit
  <2>5. approved \subseteq Accounts
    BY <1>2 DEF AccountsInit
  <2> QED  BY <1>1, <2>2, <2>3, <2>4, <2>5 DEF AccountsTypeOK, LinkType, InquiryType
<1>5. OwnersKnown
  BY <1>2, <1>3 DEF OwnersKnown, OwnersStand, Counted, Taking
<1>6. ClicksKnown
  BY <1>3 DEF AccountsInit, ClicksKnown, Redeems
<1>7. \A p \in People : Outstanding(p) = {}
  BY DEF AccountsInit, Outstanding
<1>8. MailsKnown
  BY <1>3, <1>7 DEF MailsKnown, OneWayIn, Mails, Mailing
<1> QED  BY <1>4, <1>5, <1>6, <1>8 DEF AInv

(* Demotions and removals leave an owner, unless two of them overlap; a    *)
(* link opens one session for however many clicks; and after a mail        *)
(* (requestMagicLink) no earlier link of the account opens one, unless two *)
(* were sent at the same time.                                             *)
THEOREM AccountsSafe == AccountsSpec => []AccountsInv
<1>1. AInv => AccountsInv
  <2> SUFFICES ASSUME AInv, NEW p \in People, p \notin crossed
               PROVE  Cardinality(Outstanding(p)) <= 1
    BY DEF AInv, AccountsInv, OwnersKnown, ClicksKnown, LinksWorkOnce, OneLinkAtATime
  <2>1. \A m, n \in Outstanding(p) : m = n
    BY DEF AInv, MailsKnown, OneWayIn
  <2>2. CASE Outstanding(p) = {}
    BY <2>2, FS_EmptySet
  <2>3. ASSUME NEW n \in Outstanding(p)
        PROVE  Cardinality(Outstanding(p)) <= 1
    <3>1. Outstanding(p) = {n}
      BY <2>1
    <3> QED  BY <3>1, FS_Singleton
  <2> QED  BY <2>2, <2>3
<1> QED  BY <1>1, AccountsStart, AccountsInductive, PTL DEF AccountsSpec

-----------------------------------------------------------------------------
(***************************************************************************)
(* A job on a host (Execution.tla), for any number of agents, of entries   *)
(* of a bundle, of pages and attempts.  What is true of one agent's job is *)
(* said of the records that hold it.                                       *)
(***************************************************************************)
WorkType == [at : {"idle", "begun", "extracting", "publishing", "ready", "running", "uploading", "ended"},
             told : {"no", "late", "lease-lost", "cancelled"}, page : 0..(Pages + 1),
             try : 0..Uploads, ids : Seq(Nat)]
RunnerType == [at : {"none", "alive", "doomed", "closed"}, late : BOOLEAN,
               line : {"none", "ok", "TRANSIENT", "PERMANENT"}, images : SUBSET (1..Pages)]
VerdictType == [status : {"none", "ok", "TRANSIENT", "PERMANENT"}, ids : Seq(Nat)]
JobTypes(w, r, s, v, f) ==
  /\ w \in WorkType /\ r \in RunnerType /\ s \in Directories /\ v \in VerdictType
  /\ f \in Seq(1..Pages)

(* What is being extracted is not marked before it is whole.               *)
TreeAgrees(w, s) ==
  /\ w.at = "publishing" => s = Whole
  /\ w.at = "extracting" => ~s.marker
  /\ w.at \notin {"extracting", "publishing"} => s = Absent

(* A runner is there between its start and its end; the pages of one that  *)
(* is closed are stored only for a job that was not to stop.               *)
RunnerAgrees(w, r) ==
  /\ w.at = "running" <=> r.at \in {"alive", "doomed"}
  /\ w.at \in {"idle", "begun", "extracting", "publishing", "ready"} => r.at = "none"
  /\ w.at = "uploading" => r.at = "closed" /\ w.told \in {"no", "late"}
  /\ w.told = "late" => w.at \in {"uploading", "ended"}

Heeds(w, r, v) == w.at = "ended" /\ r.at = "closed" =>
  /\ w.told = "lease-lost" => v.status = "none"
  /\ w.told = "cancelled" => v.status = "TRANSIENT"

(* ids name rows, of the images below a page, of each of them and in order. *)
Stored(ids, rows, images, page) ==
  /\ \A k \in DOMAIN ids : ids[k] \in DOMAIN rows /\ rows[ids[k]] \in images /\ rows[ids[k]] < page
  /\ \A j, k \in DOMAIN ids : j < k => rows[ids[j]] < rows[ids[k]]
  /\ \A p \in images : p < page => \E k \in DOMAIN ids : rows[ids[k]] = p

PagesAgree(w, r, v, f) ==
  /\ w.at # "uploading" => w.ids = <<>>
  /\ w.at = "uploading" => w.page >= 1 /\ Stored(w.ids, f, r.images, w.page)
  /\ v.status = "ok" => w.at = "ended" /\ Stored(v.ids, f, r.images, Pages + 1)

JobAgrees(w, r, s, v, f) ==
  TreeAgrees(w, s) /\ RunnerAgrees(w, r) /\ Heeds(w, r, v) /\ PagesAgree(w, r, v, f)

ShapesOK ==
  /\ work \in [Agents -> WorkType] /\ runner \in [Agents -> RunnerType]
  /\ staging \in [Agents -> Directories] /\ verdict \in [Agents -> VerdictType]
  /\ artifact \in [Agents -> Seq(1..Pages)] /\ faults \in 0..MaxFaults

XInv ==
  /\ ShapesOK /\ TreesAreWhole
  /\ \A a \in Agents : JobAgrees(work[a], runner[a], staging[a], verdict[a], artifact[a])

LEMMA NoneTyped ==
  /\ NoWork \in WorkType /\ NoRunner \in RunnerType /\ NoVerdict \in VerdictType
  /\ Absent \in Directories /\ Whole \in Directories /\ <<>> \in Seq(1..Pages)
  /\ NoWork.at = "idle" /\ NoWork.told = "no" /\ NoWork.ids = <<>> /\ NoRunner.at = "none"
  /\ NoVerdict.status = "none" /\ ~Absent.marker
<1>1. Pages \in Nat /\ Uploads \in Nat /\ Entries \in Nat
  BY ExecutionAssumption
<1>2. NoWork \in WorkType /\ NoWork.at = "idle" /\ NoWork.told = "no" /\ NoWork.ids = <<>>
  BY <1>1 DEF NoWork, WorkType
<1>3. NoRunner \in RunnerType /\ NoRunner.at = "none"
  BY DEF NoRunner, RunnerType
<1>4. NoVerdict \in VerdictType /\ NoVerdict.status = "none"
  BY DEF NoVerdict, VerdictType
<1>5. Absent \in Directories /\ Whole \in Directories /\ ~Absent.marker
  BY <1>1 DEF Absent, Whole, Directories
<1> QED  BY <1>2, <1>3, <1>4, <1>5

(* A job of nobody agrees.                                                 *)
LEMMA NoJobAgrees == JobAgrees(NoWork, NoRunner, Absent, NoVerdict, <<>>)
  BY NoneTyped DEF JobAgrees, TreeAgrees, RunnerAgrees, Heeds, PagesAgree

LEMMA ExecutionShapes ==
  ASSUME XInv, NEW a \in Agents
  PROVE  /\ work[a] \in WorkType /\ runner[a] \in RunnerType /\ staging[a] \in Directories
         /\ verdict[a] \in VerdictType /\ artifact[a] \in Seq(1..Pages)
         /\ JobAgrees(work[a], runner[a], staging[a], verdict[a], artifact[a])
         /\ work[a].at \in {"ready", "running"} => tree = Whole
         /\ tree \in {Absent, Whole} /\ faults \in 0..MaxFaults
  BY DEF XInv, ShapesOK, TreesAreWhole

(* A step of one agent, whatever else it leaves as it was.                 *)
Wrote(a, w, r, s, v, f) ==
  /\ work' = [work EXCEPT ![a] = w] /\ runner' = [runner EXCEPT ![a] = r]
  /\ staging' = [staging EXCEPT ![a] = s] /\ verdict' = [verdict EXCEPT ![a] = v]
  /\ artifact' = [artifact EXCEPT ![a] = f]

LEMMA OneAgent ==
  ASSUME XInv, NEW a \in Agents, NEW w, NEW r, NEW s, NEW v, NEW f, Wrote(a, w, r, s, v, f),
         JobTypes(w, r, s, v, f), JobAgrees(w, r, s, v, f), faults' \in 0..MaxFaults,
         tree' \in {Absent, Whole}, tree = Whole => tree' = Whole,
         w.at \in {"ready", "running"} => tree' = Whole
  PROVE  XInv'
<1>1. ShapesOK'
  BY DEF XInv, ShapesOK, JobTypes, Wrote
<1>2. /\ work'[a] = w /\ runner'[a] = r /\ staging'[a] = s /\ verdict'[a] = v /\ artifact'[a] = f
      /\ \A b \in Agents \ {a} : /\ work'[b] = work[b] /\ runner'[b] = runner[b]
                                 /\ staging'[b] = staging[b] /\ verdict'[b] = verdict[b]
                                 /\ artifact'[b] = artifact[b]
  BY DEF XInv, ShapesOK, Wrote
<1>3. ASSUME NEW b \in Agents
      PROVE  JobAgrees(work'[b], runner'[b], staging'[b], verdict'[b], artifact'[b])
  <2>1. CASE b = a
    BY <1>2, <2>1
  <2>2. CASE b # a
    BY <1>2, <2>2 DEF XInv
  <2> QED  BY <2>1, <2>2
<1>4. ASSUME NEW b \in Agents, work'[b].at \in {"ready", "running"}
      PROVE  tree' = Whole
  <2>1. CASE b = a
    BY <1>2, <1>4, <2>1
  <2>2. CASE b # a
    BY <1>2, <1>4, <2>2 DEF XInv, TreesAreWhole
  <2> QED  BY <2>1, <2>2
<1>5. TreesAreWhole'
  BY <1>4 DEF TreesAreWhole
<1> QED  BY <1>1, <1>3, <1>5 DEF XInv

(* What is not written is written as it is.                                *)
LEMMA SameAgain ==
  ASSUME XInv, NEW a \in Agents
  PROVE  /\ work = [work EXCEPT ![a] = work[a]] /\ runner = [runner EXCEPT ![a] = runner[a]]
         /\ staging = [staging EXCEPT ![a] = staging[a]] /\ verdict = [verdict EXCEPT ![a] = verdict[a]]
         /\ artifact = [artifact EXCEPT ![a] = artifact[a]]
<1>1. /\ work \in [Agents -> WorkType] /\ runner \in [Agents -> RunnerType]
      /\ staging \in [Agents -> Directories] /\ verdict \in [Agents -> VerdictType]
      /\ artifact \in [Agents -> Seq(1..Pages)]
  BY DEF XInv, ShapesOK
<1> QED  BY <1>1

(* The end of a job, with or without an envelope.                          *)
LEMMA EndsAs ==
  ASSUME XInv, NEW a \in Agents, NEW status \in {"none", "ok", "TRANSIENT", "PERMANENT"},
         NEW ids \in Seq(Nat), Ends(a, status, ids)
  PROVE  \E w \in WorkType, v \in VerdictType :
           /\ work' = [work EXCEPT ![a] = w] /\ verdict' = [verdict EXCEPT ![a] = v]
           /\ w.at = "ended" /\ w.told = work[a].told /\ w.ids = <<>>
           /\ v.status = status /\ v.ids = ids
<1>1. PICK told \in {"no", "late", "lease-lost", "cancelled"} : told = work[a].told
  BY ExecutionShapes DEF WorkType
<1>2. PICK w : w = [NoWork EXCEPT !.at = "ended", !.told = told]
  OBVIOUS
<1>3. PICK v : v = [status |-> status, ids |-> ids]
  OBVIOUS
<1>4. w \in WorkType /\ w.at = "ended" /\ w.told = told /\ w.ids = <<>>
  BY <1>2, NoneTyped DEF WorkType
<1>5. v \in VerdictType /\ v.status = status /\ v.ids = ids
  BY <1>3 DEF VerdictType
<1>6. work' = [work EXCEPT ![a] = w] /\ verdict' = [verdict EXCEPT ![a] = v]
  BY <1>1, <1>2, <1>3 DEF Ends
<1> QED  BY <1>1, <1>4, <1>5, <1>6

LEMMA EndsBare ==
  ASSUME XInv, NEW a \in Agents, NEW status \in {"none", "TRANSIENT", "PERMANENT"}, Ends(a, status, <<>>)
  PROVE  \E w \in WorkType, v \in VerdictType :
           /\ work' = [work EXCEPT ![a] = w] /\ verdict' = [verdict EXCEPT ![a] = v]
           /\ w.at = "ended" /\ w.told = work[a].told /\ w.ids = <<>> /\ v.status = status
<1>1. PICK ids : ids = <<>>
  OBVIOUS
<1>2. ids \in Seq(Nat) /\ status \in {"none", "ok", "TRANSIENT", "PERMANENT"} /\ Ends(a, status, ids)
  BY <1>1
<1>3. PICK w \in WorkType, v \in VerdictType :
        /\ work' = [work EXCEPT ![a] = w] /\ verdict' = [verdict EXCEPT ![a] = v]
        /\ w.at = "ended" /\ w.told = work[a].told /\ w.ids = <<>> /\ v.status = status
  BY <1>2, EndsAs
<1> QED  BY <1>3

(* A move from one place to another, with nothing else of the job changed. *)
LEMMA MovesTo ==
  ASSUME XInv, NEW a \in Agents, NEW from,
         NEW to \in {"idle", "begun", "extracting", "publishing", "ready", "running", "uploading", "ended"},
         Moves(a, from, to)
  PROVE  \E w \in WorkType : /\ work' = [work EXCEPT ![a] = w] /\ w.at = to /\ work[a].at = from
                             /\ w.told = work[a].told /\ w.ids = work[a].ids
<1>1. PICK q \in WorkType : q = work[a]
  BY ExecutionShapes
<1>2. PICK w : w = [q EXCEPT !.at = to]
  OBVIOUS
<1>3. w \in WorkType /\ w.at = to /\ w.told = q.told /\ w.ids = q.ids
  BY <1>1, <1>2 DEF WorkType
<1> QED  BY <1>1, <1>2, <1>3 DEF Moves

LEMMA LookUpKeeps == ASSUME XInv, NEW a \in Agents, LookUp(a) PROVE XInv'
<1>1. /\ tree' = tree /\ staging' = staging /\ runner' = runner /\ artifact' = artifact
      /\ verdict' = verdict /\ faults' = faults
  BY DEF LookUp
<1>2. PICK to \in {"ready", "extracting"} : Moves(a, "begun", to) /\ (to = "ready" => tree.marker)
  BY DEF LookUp
<1>3. PICK w \in WorkType : work' = [work EXCEPT ![a] = w] /\ w.at = to /\ work[a].at = "begun"
                          /\ w.told = work[a].told /\ w.ids = work[a].ids
  BY <1>2, MovesTo
<1>4. to = "ready" => tree = Whole
  BY <1>2, ExecutionShapes, NoneTyped
<1>5. JobTypes(w, runner[a], staging[a], verdict[a], artifact[a])
  BY <1>3, ExecutionShapes DEF JobTypes
<1>6. JobAgrees(w, runner[a], staging[a], verdict[a], artifact[a])
  BY <1>3, ExecutionShapes, NoneTyped DEF JobAgrees, TreeAgrees, RunnerAgrees, Heeds, PagesAgree
<1>7. Wrote(a, w, runner[a], staging[a], verdict[a], artifact[a])
  BY <1>1, <1>3, SameAgain DEF Wrote
<1> QED  BY <1>1, <1>3, <1>4, <1>5, <1>6, <1>7, OneAgent, ExecutionShapes

LEMMA ExtractKeeps == ASSUME XInv, NEW a \in Agents, Extract(a) PROVE XInv'
<1>1. /\ tree' = tree /\ runner' = runner /\ artifact' = artifact /\ verdict' = verdict /\ faults' = faults
  BY DEF Extract
<1>2. PICK s \in Directories : s = staging[a]
  BY ExecutionShapes
<1>3. work[a].at = "extracting" /\ ~s.marker
  BY <1>2, ExecutionShapes DEF Extract, JobAgrees, TreeAgrees
<1>4. CASE staging[a].entries < Entries
  <2>1. PICK t : t = [s EXCEPT !.entries = s.entries + 1]
    OBVIOUS
  <2>2. t \in Directories /\ ~t.marker
    BY <1>2, <1>3, <1>4, <2>1, ExecutionAssumption DEF Directories
  <2>3. staging' = [staging EXCEPT ![a] = t] /\ work' = work
    BY <1>2, <1>4, <2>1 DEF Extract
  <2>4. JobTypes(work[a], runner[a], t, verdict[a], artifact[a])
    BY <2>2, ExecutionShapes DEF JobTypes
  <2>5. JobAgrees(work[a], runner[a], t, verdict[a], artifact[a])
    BY <1>3, <2>2, ExecutionShapes DEF JobAgrees, TreeAgrees
  <2>6. Wrote(a, work[a], runner[a], t, verdict[a], artifact[a])
    BY <1>1, <2>3, SameAgain DEF Wrote
  <2> QED  BY <1>1, <2>4, <2>5, <2>6, OneAgent, ExecutionShapes
<1>5. CASE ~(staging[a].entries < Entries)
  <2>1. PICK t : t = [s EXCEPT !.marker = TRUE]
    OBVIOUS
  <2>2. s.entries = Entries
    BY <1>2, <1>5, ExecutionAssumption DEF Directories
  <2>3. t = Whole
    BY <1>2, <2>1, <2>2 DEF Directories, Whole
  <2>4. staging' = [staging EXCEPT ![a] = t] /\ Moves(a, "extracting", "publishing")
    BY <1>2, <1>5, <2>1 DEF Extract
  <2>5. PICK w \in WorkType : work' = [work EXCEPT ![a] = w] /\ w.at = "publishing"
                            /\ w.told = work[a].told /\ w.ids = work[a].ids
    BY <2>4, MovesTo
  <2>6. JobTypes(w, runner[a], t, verdict[a], artifact[a])
    BY <2>3, <2>5, ExecutionShapes, NoneTyped DEF JobTypes
  <2>7. JobAgrees(w, runner[a], t, verdict[a], artifact[a])
    BY <1>3, <2>3, <2>5, ExecutionShapes DEF JobAgrees, TreeAgrees, RunnerAgrees, Heeds, PagesAgree
  <2>8. Wrote(a, w, runner[a], t, verdict[a], artifact[a])
    BY <1>1, <2>4, <2>5, SameAgain DEF Wrote
  <2> QED  BY <1>1, <2>5, <2>6, <2>7, <2>8, OneAgent, ExecutionShapes
<1> QED  BY <1>4, <1>5

(* What a step that ends a job leaves: nothing in staging, no good         *)
(* envelope, and no runner that was there.                                 *)
LEMMA EndedEarly ==
  ASSUME XInv, NEW a \in Agents, NEW w \in WorkType, NEW v \in VerdictType, w.at = "ended", w.ids = <<>>,
         work[a].at \in {"idle", "begun", "extracting", "publishing", "ready"},
         v.status # "ok"
  PROVE  JobTypes(w, runner[a], Absent, v, artifact[a]) /\ JobAgrees(w, runner[a], Absent, v, artifact[a])
<1>1. JobTypes(w, runner[a], Absent, v, artifact[a])
  BY ExecutionShapes, NoneTyped DEF JobTypes
<1>2. JobAgrees(w, runner[a], Absent, v, artifact[a])
  BY ExecutionShapes DEF JobAgrees, TreeAgrees, RunnerAgrees, Heeds, PagesAgree
<1> QED  BY <1>1, <1>2

LEMMA PublishKeeps == ASSUME XInv, NEW a \in Agents, Publish(a) PROVE XInv'
<1>1. work[a].at = "publishing"
  BY DEF Publish, Moves
<1>2. staging[a] = Whole
  BY <1>1, ExecutionShapes DEF JobAgrees, TreeAgrees
<1>3. tree' = Whole
  BY <1>2, ExecutionShapes DEF Publish
<1>4. Moves(a, "publishing", "ready") /\ verdict' = verdict
  BY <1>3 DEF Publish, Whole
<1>5. PICK w \in WorkType : work' = [work EXCEPT ![a] = w] /\ w.at = "ready"
                          /\ w.told = work[a].told /\ w.ids = work[a].ids
  BY <1>4, MovesTo
<1>6. staging' = [staging EXCEPT ![a] = Absent] /\ runner' = runner /\ artifact' = artifact /\ faults' = faults
  BY DEF Publish
<1>7. JobTypes(w, runner[a], Absent, verdict[a], artifact[a])
  BY <1>5, ExecutionShapes, NoneTyped DEF JobTypes
<1>8. JobAgrees(w, runner[a], Absent, verdict[a], artifact[a])
  BY <1>1, <1>5, ExecutionShapes DEF JobAgrees, TreeAgrees, RunnerAgrees, Heeds, PagesAgree
<1>9. Wrote(a, w, runner[a], Absent, verdict[a], artifact[a])
  BY <1>4, <1>5, <1>6, SameAgain DEF Wrote
<1> QED  BY <1>3, <1>5, <1>6, <1>7, <1>8, <1>9, OneAgent, ExecutionShapes

LEMMA FetchFailsKeeps == ASSUME XInv, NEW a \in Agents, FetchFails(a) PROVE XInv'
<1>1. /\ work[a].at \in {"extracting", "publishing", "ready"} /\ Ends(a, "none", <<>>)
      /\ staging' = [staging EXCEPT ![a] = Absent] /\ tree' = tree /\ runner' = runner
      /\ artifact' = artifact /\ faults' \in 0..MaxFaults
  BY ExecutionShapes, ExecutionAssumption DEF FetchFails, Fault
<1>2. PICK w \in WorkType, v \in VerdictType :
        /\ work' = [work EXCEPT ![a] = w] /\ verdict' = [verdict EXCEPT ![a] = v]
        /\ w.at = "ended" /\ w.ids = <<>> /\ v.status = "none"
  BY <1>1, EndsBare
<1>3. Wrote(a, w, runner[a], Absent, v, artifact[a])
  BY <1>1, <1>2, SameAgain DEF Wrote
<1>4. JobTypes(w, runner[a], Absent, v, artifact[a]) /\ JobAgrees(w, runner[a], Absent, v, artifact[a])
  BY <1>1, <1>2, EndedEarly
<1> QED  BY <1>1, <1>2, <1>3, <1>4, OneAgent, ExecutionShapes

LEMMA SpawnFailsKeeps == ASSUME XInv, NEW a \in Agents, SpawnFails(a) PROVE XInv'
<1>1. /\ work[a].at = "ready" /\ Ends(a, "PERMANENT", <<>>) /\ staging' = staging
      /\ tree' = tree /\ runner' = runner /\ artifact' = artifact /\ faults' \in 0..MaxFaults
  BY ExecutionShapes, ExecutionAssumption DEF SpawnFails, Fault
<1>2. PICK w \in WorkType, v \in VerdictType :
        /\ work' = [work EXCEPT ![a] = w] /\ verdict' = [verdict EXCEPT ![a] = v]
        /\ w.at = "ended" /\ w.ids = <<>> /\ v.status = "PERMANENT"
  BY <1>1, EndsBare
<1>3. staging[a] = Absent
  BY <1>1, ExecutionShapes DEF JobAgrees, TreeAgrees
<1>4. Wrote(a, w, runner[a], Absent, v, artifact[a])
  BY <1>1, <1>2, <1>3, SameAgain DEF Wrote
<1>5. JobTypes(w, runner[a], Absent, v, artifact[a]) /\ JobAgrees(w, runner[a], Absent, v, artifact[a])
  BY <1>1, <1>2, EndedEarly
<1> QED  BY <1>1, <1>2, <1>4, <1>5, OneAgent, ExecutionShapes

-----------------------------------------------------------------------------
(* The runner.                                                             *)
LEMMA TerminateOf ==
  ASSUME NEW r \in RunnerType
  PROVE  /\ Terminate(r) \in RunnerType
         /\ Terminate(r).images = r.images /\ Terminate(r).line = r.line
         /\ Terminate(r).at \in {"alive", "doomed"} <=> r.at \in {"alive", "doomed"}
         /\ r.at \notin {"alive", "doomed"} => Terminate(r).at = r.at
<1>1. PICK at \in {"none", "alive", "doomed", "closed"} :
        at = IF r.at = "alive" THEN "doomed" ELSE r.at
  BY DEF RunnerType
<1>2. PICK q : q = [r EXCEPT !.at = at]
  OBVIOUS
<1>3. Terminate(r) = q
  BY <1>1, <1>2 DEF Terminate
<1>4. q \in RunnerType /\ q.at = at /\ q.images = r.images /\ q.line = r.line
  BY <1>2 DEF RunnerType
<1> QED  BY <1>1, <1>3, <1>4

(* A step that changes the runner only, before it is closed, or not the    *)
(* part of it that a job goes by.                                          *)
LEMMA RunnerKeeps ==
  ASSUME XInv, NEW a \in Agents, NEW r \in RunnerType, runner' = [runner EXCEPT ![a] = r],
         tree' = tree, staging' = staging, work' = work, artifact' = artifact,
         verdict' = verdict, faults' = faults,
         runner[a].at \in {"alive", "doomed"}, r.at \in {"alive", "doomed"}
  PROVE  XInv'
<1>1. work[a].at = "running"
  BY ExecutionShapes DEF JobAgrees, RunnerAgrees
<1>2. JobAgrees(work[a], r, staging[a], verdict[a], artifact[a])
  BY <1>1, ExecutionShapes DEF JobAgrees, TreeAgrees, RunnerAgrees, Heeds, PagesAgree
<1>3. JobTypes(work[a], r, staging[a], verdict[a], artifact[a])
  BY ExecutionShapes DEF JobTypes
<1>4. Wrote(a, work[a], r, staging[a], verdict[a], artifact[a])
  BY SameAgain DEF Wrote
<1> QED  BY <1>2, <1>3, <1>4, OneAgent, ExecutionShapes

LEMMA PrintLineKeeps == ASSUME XInv, NEW a \in Agents, PrintLine(a) PROVE XInv'
<1>1. PICK r \in RunnerType : r = runner[a] /\ r.at \in {"alive", "doomed"}
  BY ExecutionShapes DEF PrintLine, Alive
<1>2. ASSUME NEW line \in {"TRANSIENT", "PERMANENT"}, runner' = [runner EXCEPT ![a].line = line]
      PROVE  XInv'
  <2>1. PICK q : q = [r EXCEPT !.line = line]
    OBVIOUS
  <2>2. q \in RunnerType /\ q.at = r.at
    BY <1>1, <2>1 DEF RunnerType
  <2>3. runner' = [runner EXCEPT ![a] = q]
    BY <1>1, <1>2, <2>1
  <2> QED  BY <1>1, <2>2, <2>3, RunnerKeeps DEF PrintLine
<1>3. ASSUME NEW images \in SUBSET (1..Pages),
             runner' = [runner EXCEPT ![a].line = "ok", ![a].images = images]
      PROVE  XInv'
  <2>1. PICK q : q = [r EXCEPT !.line = "ok", !.images = images]
    OBVIOUS
  <2>2. q \in RunnerType /\ q.at = r.at
    BY <1>1, <2>1 DEF RunnerType
  <2>3. runner' = [runner EXCEPT ![a] = q]
    BY <1>1, <1>3, <2>1
  <2> QED  BY <1>1, <2>2, <2>3, RunnerKeeps DEF PrintLine
<1> QED  BY <1>2, <1>3 DEF PrintLine

LEMMA TimeoutKeeps == ASSUME XInv, NEW a \in Agents, Timeout(a) PROVE XInv'
<1>1. PICK r \in RunnerType : r = runner[a] /\ r.at \in {"alive", "doomed"}
  BY ExecutionShapes DEF Timeout, Alive
<1>2. PICK t \in RunnerType : t = Terminate(r) /\ t.at \in {"alive", "doomed"}
  BY <1>1, TerminateOf
<1>3. PICK q : q = [t EXCEPT !.late = TRUE]
  OBVIOUS
<1>4. q \in RunnerType /\ q.at = t.at
  BY <1>2, <1>3 DEF RunnerType
<1>5. runner' = [runner EXCEPT ![a] = q]
  BY <1>1, <1>2, <1>3 DEF Timeout
<1> QED  BY <1>1, <1>2, <1>4, <1>5, RunnerKeeps DEF Timeout

LEMMA SpawnKeeps == ASSUME XInv, NEW a \in Agents, Spawn(a) PROVE XInv'
<1>1. Moves(a, "ready", "running")
  BY DEF Spawn
<1>2. PICK w \in WorkType : work' = [work EXCEPT ![a] = w] /\ w.at = "running" /\ work[a].at = "ready"
                          /\ w.told = work[a].told /\ w.ids = work[a].ids
  BY <1>1, MovesTo
<1>3. PICK q : q = [NoRunner EXCEPT !.at = "alive"]
  OBVIOUS
<1>4. q \in RunnerType /\ q.at = "alive"
  BY <1>3, NoneTyped DEF RunnerType
<1>5. PICK r \in RunnerType : r = (IF work[a].told = "no" THEN q ELSE Terminate(q)) /\ r.at \in {"alive", "doomed"}
  BY <1>4, TerminateOf
<1>6. /\ runner' = [runner EXCEPT ![a] = r] /\ tree' = tree /\ staging' = staging
      /\ artifact' = artifact /\ verdict' = verdict /\ faults' = faults
  BY <1>3, <1>5 DEF Spawn
<1>7. JobTypes(w, r, staging[a], verdict[a], artifact[a])
  BY ExecutionShapes DEF JobTypes
<1>8. JobAgrees(w, r, staging[a], verdict[a], artifact[a])
  BY <1>2, <1>5, ExecutionShapes DEF JobAgrees, TreeAgrees, RunnerAgrees, Heeds, PagesAgree
<1>9. Wrote(a, w, r, staging[a], verdict[a], artifact[a])
  BY <1>2, <1>6, SameAgain DEF Wrote
<1> QED  BY <1>2, <1>6, <1>7, <1>8, <1>9, OneAgent, ExecutionShapes

LEMMA AbortKeeps ==
  ASSUME XInv, NEW a \in Agents, NEW why \in {"lease-lost", "cancelled"}, Abort(a, why)
  PROVE  XInv'
<1>1. PICK w \in WorkType : w = work[a] /\ w.at \notin {"idle", "ended"}
  BY ExecutionShapes DEF Abort
<1>2. PICK r \in RunnerType : r = runner[a]
  BY ExecutionShapes
<1>3. PICK t \in RunnerType : /\ t = Terminate(r) /\ t.images = r.images
                              /\ t.at \in {"alive", "doomed"} <=> r.at \in {"alive", "doomed"}
                              /\ r.at \notin {"alive", "doomed"} => t.at = r.at
  BY TerminateOf
<1>4. PICK told \in {"late", "lease-lost", "cancelled"} :
        told = IF w.at = "uploading" THEN "late" ELSE why
  OBVIOUS
<1>5. PICK u : u = [w EXCEPT !.told = told]
  OBVIOUS
<1>6. u \in WorkType /\ u.at = w.at /\ u.page = w.page /\ u.ids = w.ids /\ u.told = told
  BY <1>1, <1>5 DEF WorkType
<1>7. /\ work' = [work EXCEPT ![a] = u] /\ runner' = [runner EXCEPT ![a] = t]
      /\ tree' = tree /\ staging' = staging /\ artifact' = artifact /\ verdict' = verdict
      /\ faults' = faults
  BY <1>1, <1>2, <1>3, <1>4, <1>5 DEF Abort
<1>8. JobTypes(u, t, staging[a], verdict[a], artifact[a])
  BY <1>6, ExecutionShapes DEF JobTypes
<1>9. JobAgrees(u, t, staging[a], verdict[a], artifact[a])
  <2>1. TreeAgrees(u, staging[a]) /\ RunnerAgrees(u, t)
    BY <1>1, <1>2, <1>3, <1>4, <1>6, ExecutionShapes DEF JobAgrees, TreeAgrees, RunnerAgrees
  <2>2. Heeds(u, t, verdict[a])
    BY <1>1, <1>6 DEF Heeds
  <2>3. PagesAgree(u, t, verdict[a], artifact[a])
    BY <1>1, <1>2, <1>3, <1>6, ExecutionShapes DEF JobAgrees, PagesAgree
  <2> QED  BY <2>1, <2>2, <2>3 DEF JobAgrees
<1>10. Wrote(a, u, t, staging[a], verdict[a], artifact[a])
  BY <1>7, SameAgain DEF Wrote
<1> QED  BY <1>1, <1>6, <1>7, <1>8, <1>9, <1>10, OneAgent, ExecutionShapes

(* Closed with a reason to stop, the job ends as the reason says; with a   *)
(* good line and none, its pages are stored from the first.                *)
LEMMA CloseKeeps == ASSUME XInv, NEW a \in Agents, Close(a) PROVE XInv'
<1>1. PICK r \in RunnerType : r = runner[a] /\ r.at \in {"alive", "doomed"}
  BY ExecutionShapes DEF Close, Alive
<1>2. PICK q : q = [r EXCEPT !.at = "closed"]
  OBVIOUS
<1>3. q \in RunnerType /\ q.at = "closed" /\ q.images = r.images
  BY <1>1, <1>2 DEF RunnerType
<1>4. PICK w \in WorkType : w = work[a] /\ w.at = "running"
  BY <1>1, ExecutionShapes DEF JobAgrees, RunnerAgrees
<1>5. /\ runner' = [runner EXCEPT ![a] = q] /\ tree' = tree /\ staging' = staging
      /\ artifact' = artifact /\ faults' = faults
  BY <1>1, <1>2 DEF Close
<1>6. ASSUME NEW status \in {"none", "TRANSIENT", "PERMANENT"}, Ends(a, status, <<>>),
             w.told = "lease-lost" => status = "none",
             w.told = "cancelled" => status = "TRANSIENT"
      PROVE  XInv'
  <2>1. PICK u \in WorkType, v \in VerdictType :
          /\ work' = [work EXCEPT ![a] = u] /\ verdict' = [verdict EXCEPT ![a] = v]
          /\ u.at = "ended" /\ u.told = w.told /\ u.ids = <<>> /\ v.status = status
    BY <1>4, <1>6, EndsBare
  <2>2. JobTypes(u, q, staging[a], v, artifact[a])
    BY <1>3, ExecutionShapes DEF JobTypes
  <2>3. JobAgrees(u, q, staging[a], v, artifact[a])
    BY <1>3, <1>4, <1>6, <2>1, ExecutionShapes DEF JobAgrees, TreeAgrees, RunnerAgrees, Heeds, PagesAgree
  <2>4. Wrote(a, u, q, staging[a], v, artifact[a])
    BY <1>5, <2>1, SameAgain DEF Wrote
  <2> QED  BY <1>5, <2>1, <2>2, <2>3, <2>4, OneAgent, ExecutionShapes
<1>7. CASE w.told = "lease-lost"
  <2>1. Ends(a, "none", <<>>)
    BY <1>4, <1>7 DEF Close
  <2> QED  BY <1>6, <1>7, <2>1
<1>8. CASE w.told = "cancelled"
  <2>1. Ends(a, "TRANSIENT", <<>>)
    BY <1>4, <1>8 DEF Close
  <2> QED  BY <1>6, <1>8, <2>1
<1>9. CASE w.told = "no" /\ r.line = "ok"
  <2>1. PICK u : u = [w EXCEPT !.at = "uploading", !.page = 1, !.try = 1]
    OBVIOUS
  <2>2. work' = [work EXCEPT ![a] = u] /\ verdict' = verdict
    BY <1>1, <1>4, <1>9, <2>1 DEF Close
  <2>3. u \in WorkType /\ u.at = "uploading" /\ u.told = "no" /\ u.page = 1 /\ u.ids = w.ids
    <3>1. 1 \in 0..(Pages + 1) /\ 1 \in 0..Uploads
      BY ExecutionAssumption
    <3>2. u \in WorkType
      BY <2>1, <3>1 DEF WorkType
    <3> QED  BY <1>9, <2>1, <3>2 DEF WorkType
  <2>4. w.ids = <<>>
    BY <1>4, ExecutionShapes DEF JobAgrees, PagesAgree
  <2>5. Stored(u.ids, artifact[a], q.images, u.page)
    <3>1. DOMAIN u.ids = {}
      BY <2>3, <2>4
    <3>2. q.images \subseteq 1..Pages
      BY <1>3 DEF RunnerType
    <3> QED  BY <2>3, <3>1, <3>2, ExecutionAssumption DEF Stored
  <2>6. JobTypes(u, q, staging[a], verdict[a], artifact[a])
    BY <1>3, <2>3, ExecutionShapes DEF JobTypes
  <2>7. JobAgrees(u, q, staging[a], verdict[a], artifact[a])
    BY <1>3, <1>4, <2>3, <2>5, ExecutionShapes DEF JobAgrees, TreeAgrees, RunnerAgrees, Heeds, PagesAgree
  <2>8. Wrote(a, u, q, staging[a], verdict[a], artifact[a])
    BY <1>5, <2>2, SameAgain DEF Wrote
  <2> QED  BY <1>5, <2>3, <2>6, <2>7, <2>8, OneAgent, ExecutionShapes
<1>10. CASE w.told \notin {"lease-lost", "cancelled"} /\ ~(w.told = "no" /\ r.line = "ok")
  <2>1. PICK status : status = IF r.line = "none" THEN "TRANSIENT" ELSE r.line
    OBVIOUS
  <2>2. Ends(a, status, <<>>)
    BY <1>1, <1>4, <1>10, <2>1 DEF Close
  <2>3. r.line # "ok"
    <3>1. w.told # "late"
      BY <1>4, ExecutionShapes DEF JobAgrees, RunnerAgrees
    <3> QED  BY <1>10, <3>1 DEF WorkType
  <2>4. status \in {"none", "TRANSIENT", "PERMANENT"}
    BY <1>1, <2>1, <2>3 DEF RunnerType
  <2> QED  BY <1>6, <1>10, <2>2, <2>4
<1> QED  BY <1>7, <1>8, <1>9, <1>10
-----------------------------------------------------------------------------
(* The pages.                                                              *)

(* Another row leaves what is stored stored, and one named for a page      *)
(* stores the page.                                                        *)
LEMMA AnotherRow ==
  ASSUME NEW ids \in Seq(Nat), NEW rows \in Seq(1..Pages), NEW images, NEW page \in 1..Pages,
         NEW upto \in 1..(Pages + 1), Stored(ids, rows, images, upto)
  PROVE  /\ Append(rows, page) \in Seq(1..Pages)
         /\ Len(Append(rows, page)) \in DOMAIN Append(rows, page)
         /\ Append(rows, page)[Len(Append(rows, page))] = page
         /\ Len(Append(rows, page)) \in Nat
         /\ \A k \in DOMAIN ids : ids[k] \in DOMAIN Append(rows, page) /\ Append(rows, page)[ids[k]] = rows[ids[k]]
         /\ Stored(ids, Append(rows, page), images, upto)
<1>1. PICK more : more = Append(rows, page)
  OBVIOUS
<1> more \in Seq(1..Pages)
  BY <1>1
<1>2. Len(more) = Len(rows) + 1 /\ more[Len(rows) + 1] = page /\ Len(rows) \in Nat
      /\ \A i \in 1..Len(rows) : more[i] = rows[i]
  BY <1>1
<1>3. Len(more) \in DOMAIN more /\ more[Len(more)] = page /\ Len(more) \in Nat
  BY <1>1, <1>2
<1>4. DOMAIN rows = 1..Len(rows) /\ DOMAIN more = 1..Len(more)
  OBVIOUS
<1>5. \A k \in DOMAIN ids : ids[k] \in DOMAIN rows
  BY DEF Stored
<1>6. \A k \in DOMAIN ids : ids[k] \in DOMAIN more /\ more[ids[k]] = rows[ids[k]]
  BY <1>2, <1>4, <1>5
<1>7. Stored(ids, more, images, upto)
  BY <1>6 DEF Stored
<1> QED  BY <1>1, <1>3, <1>6, <1>7

LEMMA PageStored ==
  ASSUME NEW ids \in Seq(Nat), NEW rows \in Seq(1..Pages), NEW images \in SUBSET (1..Pages),
         NEW page \in images, NEW row \in Nat, row \in DOMAIN rows, rows[row] = page,
         Stored(ids, rows, images, page)
  PROVE  Append(ids, row) \in Seq(Nat) /\ Stored(Append(ids, row), rows, images, page + 1)
<1>1. PICK more : more = Append(ids, row)
  OBVIOUS
<1> more \in Seq(Nat)
  BY <1>1
<1>2. /\ Len(ids) \in Nat /\ Len(more) = Len(ids) + 1 /\ more[Len(ids) + 1] = row
      /\ \A i \in 1..Len(ids) : more[i] = ids[i]
      /\ DOMAIN ids = 1..Len(ids) /\ DOMAIN more = 1..Len(more)
  BY <1>1
<1>3. page \in 1..Pages /\ \A k \in DOMAIN ids : rows[ids[k]] \in 1..Pages /\ rows[ids[k]] < page
  BY DEF Stored
<1>4. ASSUME NEW k \in DOMAIN more
      PROVE  more[k] \in DOMAIN rows /\ rows[more[k]] \in images /\ rows[more[k]] < page + 1
  <2>1. CASE k \in DOMAIN ids
    BY <1>2, <1>3, <2>1, ExecutionAssumption DEF Stored
  <2>2. CASE k = Len(ids) + 1
    BY <1>2, <1>3, <2>2, ExecutionAssumption
  <2> QED  BY <1>2, <1>4, <2>1, <2>2
<1>5. ASSUME NEW j \in DOMAIN more, NEW k \in DOMAIN more, j < k
      PROVE  rows[more[j]] < rows[more[k]]
  <2>1. j \in DOMAIN ids
    BY <1>2, <1>5
  <2>2. CASE k \in DOMAIN ids
    BY <1>2, <1>5, <2>1, <2>2 DEF Stored
  <2>3. CASE k = Len(ids) + 1
    BY <1>2, <1>3, <2>1, <2>3
  <2> QED  BY <1>2, <1>5, <2>2, <2>3
<1>6. ASSUME NEW p \in images, p < page + 1
      PROVE  \E k \in DOMAIN more : rows[more[k]] = p
  <2>1. CASE p = page
    <3>1. Len(ids) + 1 \in DOMAIN more /\ rows[more[Len(ids) + 1]] = p
      BY <1>2, <2>1
    <3> QED  BY <3>1
  <2>2. CASE p < page
    <3>1. PICK k \in DOMAIN ids : rows[ids[k]] = p
      BY <2>2 DEF Stored
    <3> QED  BY <1>2, <3>1
  <2>3. p \in Nat /\ page \in Nat
    BY ExecutionAssumption
  <2>4. p = page \/ p < page
    BY <1>6, <2>3
  <2> QED  BY <2>1, <2>2, <2>4
<1>7. Stored(more, rows, images, page + 1)
  BY <1>4, <1>5, <1>6 DEF Stored
<1> QED  BY <1>1, <1>7

(* A step of a job that stores its pages, which leaves it there.           *)
LEMMA UploadingKeeps ==
  ASSUME XInv, NEW a \in Agents, NEW w \in WorkType, NEW f \in Seq(1..Pages),
         work[a].at = "uploading", w.at = "uploading", w.told = work[a].told, w.page >= 1,
         Stored(w.ids, f, runner[a].images, w.page),
         work' = [work EXCEPT ![a] = w], artifact' = [artifact EXCEPT ![a] = f],
         tree' = tree, staging' = staging, runner' = runner, verdict' = verdict,
         faults' \in 0..MaxFaults
  PROVE  XInv'
<1>1. JobTypes(w, runner[a], staging[a], verdict[a], f)
  BY ExecutionShapes DEF JobTypes
<1>2. JobAgrees(w, runner[a], staging[a], verdict[a], f)
  BY ExecutionShapes DEF JobAgrees, TreeAgrees, RunnerAgrees, Heeds, PagesAgree
<1>3. Wrote(a, w, runner[a], staging[a], verdict[a], f)
  BY SameAgain DEF Wrote
<1> QED  BY <1>1, <1>2, <1>3, OneAgent, ExecutionShapes

(* What a job that stores its pages is.                                    *)
LEMMA UploadingIs ==
  ASSUME XInv, NEW a \in Agents, work[a].at = "uploading"
  PROVE  /\ work[a].page \in 1..(Pages + 1) /\ work[a].ids \in Seq(Nat)
         /\ Stored(work[a].ids, artifact[a], runner[a].images, work[a].page)
         /\ runner[a].images \in SUBSET (1..Pages) /\ artifact[a] \in Seq(1..Pages)
         /\ runner[a].at = "closed" /\ work[a].told \in {"no", "late"}
<1>1. PICK w \in WorkType : w = work[a]
  BY ExecutionShapes
<1>2. PICK r \in RunnerType : r = runner[a]
  BY ExecutionShapes
<1>3. w.page >= 1 /\ w.page \in 0..(Pages + 1) /\ w.ids \in Seq(Nat)
  BY <1>1, ExecutionShapes DEF JobAgrees, PagesAgree, WorkType
<1>4. w.page \in 1..(Pages + 1)
  BY <1>3, ExecutionAssumption
<1>5. r.images \in SUBSET (1..Pages)
  BY DEF RunnerType
<1>6. /\ Stored(work[a].ids, artifact[a], runner[a].images, work[a].page)
      /\ artifact[a] \in Seq(1..Pages)
      /\ runner[a].at = "closed" /\ work[a].told \in {"no", "late"}
  BY ExecutionShapes DEF JobAgrees, PagesAgree, RunnerAgrees
<1> QED  BY <1>1, <1>2, <1>3, <1>4, <1>5, <1>6

LEMMA DropPageKeeps == ASSUME XInv, NEW a \in Agents, DropPage(a) PROVE XInv'
<1>1. PICK w \in WorkType : w = work[a] /\ w.at = "uploading"
  BY ExecutionShapes DEF DropPage
<1>2. PICK u : u = [w EXCEPT !.page = w.page + 1, !.try = 1]
  OBVIOUS
<1>3. w.page \in 1..Pages /\ w.page \notin runner[a].images
  BY <1>1 DEF DropPage
<1>4. /\ u \in WorkType /\ u.at = "uploading" /\ u.told = w.told /\ u.ids = w.ids
      /\ u.page = w.page + 1
  <2>1. w.page + 1 \in 0..(Pages + 1) /\ 1 \in 0..Uploads
    BY <1>3, ExecutionAssumption
  <2>2. u \in WorkType
    BY <1>2, <2>1 DEF WorkType
  <2> QED  BY <1>1, <1>2, <2>2 DEF WorkType
<1>5. /\ work' = [work EXCEPT ![a] = u] /\ tree' = tree /\ staging' = staging /\ runner' = runner
      /\ artifact' = artifact /\ verdict' = verdict /\ faults' = faults
  BY <1>1, <1>2 DEF DropPage
<1>6. Stored(u.ids, artifact[a], runner[a].images, u.page)
  <2>1. \A k \in DOMAIN w.ids : artifact[a][w.ids[k]] \in 1..Pages
    BY <1>1, UploadingIs DEF Stored
  <2>2. runner[a].images \subseteq 1..Pages /\ Stored(w.ids, artifact[a], runner[a].images, w.page)
    BY <1>1, UploadingIs
  <2> QED  BY <1>3, <1>4, <2>1, <2>2, ExecutionAssumption DEF Stored
<1>7. artifact' = [artifact EXCEPT ![a] = artifact[a]]
  BY <1>5, SameAgain
<1>8. u.page >= 1
  BY <1>3, <1>4, ExecutionAssumption
<1> QED  BY <1>1, <1>4, <1>5, <1>6, <1>7, <1>8, UploadingKeeps, ExecutionShapes

LEMMA UploadPageKeeps == ASSUME XInv, NEW a \in Agents, UploadPage(a) PROVE XInv'
<1>1. PICK w \in WorkType : w = work[a] /\ w.at = "uploading" /\ w.page \in runner[a].images
  BY ExecutionShapes DEF UploadPage
<1>2. PICK f : f = Append(artifact[a], w.page)
  OBVIOUS
<1>3. artifact' = [artifact EXCEPT ![a] = f] /\ artifact'[a] = f
  BY <1>1, <1>2 DEF UploadPage, Stores, XInv, ShapesOK
<1>4. PICK ids : ids = Append(w.ids, Len(f))
  OBVIOUS
<1>5. PICK u : u = [w EXCEPT !.ids = ids, !.page = w.page + 1, !.try = 1]
  OBVIOUS
<1>6. /\ work' = [work EXCEPT ![a] = u] /\ tree' = tree /\ staging' = staging /\ runner' = runner
      /\ verdict' = verdict /\ faults' = faults
  <2>1. work' = [work EXCEPT ![a].ids = ids, ![a].page = w.page + 1, ![a].try = 1]
    BY <1>1, <1>3, <1>4 DEF UploadPage
  <2>2. work' = [work EXCEPT ![a] = u]
    BY <1>1, <1>5, <2>1
  <2> QED  BY <2>2 DEF UploadPage
<1>7. /\ w.page \in 1..Pages /\ w.page \in 1..(Pages + 1) /\ runner[a].images \in SUBSET (1..Pages)
      /\ w.ids \in Seq(Nat) /\ artifact[a] \in Seq(1..Pages)
      /\ Stored(w.ids, artifact[a], runner[a].images, w.page)
  BY <1>1, UploadingIs
<1>8. /\ f \in Seq(1..Pages) /\ Len(f) \in DOMAIN f /\ f[Len(f)] = w.page /\ Len(f) \in Nat
      /\ Stored(w.ids, f, runner[a].images, w.page)
  BY <1>2, <1>7, AnotherRow
<1>9. ids \in Seq(Nat) /\ Stored(ids, f, runner[a].images, w.page + 1)
  BY <1>1, <1>4, <1>7, <1>8, PageStored
<1>10. /\ u \in WorkType /\ u.at = "uploading" /\ u.told = w.told /\ u.ids = ids
       /\ u.page = w.page + 1
  <2>1. w.page + 1 \in 0..(Pages + 1) /\ 1 \in 0..Uploads
    BY <1>7, ExecutionAssumption
  <2>2. u \in WorkType
    BY <1>5, <1>9, <2>1 DEF WorkType
  <2> QED  BY <1>1, <1>5, <2>2 DEF WorkType
<1>11. u.page >= 1
  BY <1>7, <1>10, ExecutionAssumption
<1> QED  BY <1>1, <1>3, <1>6, <1>8, <1>9, <1>10, <1>11, UploadingKeeps, ExecutionShapes

LEMMA UploadFailsKeeps == ASSUME XInv, NEW a \in Agents, UploadFails(a) PROVE XInv'
<1>1. PICK w \in WorkType : w = work[a] /\ w.at = "uploading" /\ w.page \in runner[a].images
  BY ExecutionShapes DEF UploadFails
<1>2. /\ w.page \in 1..Pages /\ w.page \in 1..(Pages + 1) /\ runner[a].images \in SUBSET (1..Pages)
      /\ w.ids \in Seq(Nat) /\ artifact[a] \in Seq(1..Pages) /\ w.told \in {"no", "late"}
      /\ Stored(w.ids, artifact[a], runner[a].images, w.page)
  BY <1>1, UploadingIs
<1>3. tree' = tree /\ staging' = staging /\ runner' = runner /\ faults' \in 0..MaxFaults
  BY ExecutionShapes, ExecutionAssumption DEF UploadFails, Fault
<1>4. PICK f : /\ artifact' = [artifact EXCEPT ![a] = f] /\ f \in Seq(1..Pages)
               /\ Stored(w.ids, f, runner[a].images, w.page)
  <2>1. CASE Stores(a)
    <3>1. PICK f : f = Append(artifact[a], w.page)
      OBVIOUS
    <3>2. f \in Seq(1..Pages) /\ Stored(w.ids, f, runner[a].images, w.page)
      BY <1>2, <3>1, AnotherRow
    <3>3. artifact' = [artifact EXCEPT ![a] = f]
      BY <1>1, <2>1, <3>1 DEF Stores
    <3> QED  BY <3>2, <3>3
  <2>2. CASE artifact' = artifact
    BY <1>2, <2>2, SameAgain
  <2> QED  BY <2>1, <2>2 DEF UploadFails
<1>5. CASE w.try < Uploads
  <2>1. PICK u : u = [w EXCEPT !.try = w.try + 1]
    OBVIOUS
  <2>2. u \in WorkType /\ u.at = "uploading" /\ u.told = w.told /\ u.ids = w.ids /\ u.page = w.page
    <3>1. w.try + 1 \in 0..Uploads
      BY <1>5, ExecutionAssumption DEF WorkType
    <3>2. u \in WorkType
      BY <2>1, <3>1 DEF WorkType
    <3> QED  BY <1>1, <2>1, <3>2 DEF WorkType
  <2>3. work' = [work EXCEPT ![a] = u] /\ verdict' = verdict
    BY <1>1, <1>5, <2>1 DEF UploadFails
  <2>4. u.page >= 1
    BY <1>2, <2>2, ExecutionAssumption
  <2> QED  BY <1>1, <1>3, <1>4, <2>2, <2>3, <2>4, UploadingKeeps
<1>6. CASE ~(w.try < Uploads)
  <2>1. Ends(a, "PERMANENT", <<>>)
    BY <1>1, <1>6 DEF UploadFails
  <2>2. PICK u \in WorkType, v \in VerdictType :
          /\ work' = [work EXCEPT ![a] = u] /\ verdict' = [verdict EXCEPT ![a] = v]
          /\ u.at = "ended" /\ u.told = w.told /\ u.ids = <<>> /\ v.status = "PERMANENT"
    BY <1>1, <2>1, EndsBare
  <2>3. JobTypes(u, runner[a], staging[a], v, f)
    BY <1>4, ExecutionShapes DEF JobTypes
  <2>4. JobAgrees(u, runner[a], staging[a], v, f)
    BY <1>1, <1>2, <2>2, ExecutionShapes DEF JobAgrees, TreeAgrees, RunnerAgrees, Heeds, PagesAgree
  <2>5. Wrote(a, u, runner[a], staging[a], v, f)
    BY <1>3, <1>4, <2>2, SameAgain DEF Wrote
  <2> QED  BY <1>3, <2>2, <2>3, <2>4, <2>5, OneAgent, ExecutionShapes
<1> QED  BY <1>5, <1>6

(* Past the last page there is an image of each.                           *)
LEMMA BuildEnvelopeKeeps == ASSUME XInv, NEW a \in Agents, BuildEnvelope(a) PROVE XInv'
<1>1. PICK w \in WorkType : w = work[a] /\ w.at = "uploading" /\ w.page = Pages + 1
  BY ExecutionShapes DEF BuildEnvelope
<1>2. /\ w.ids \in Seq(Nat) /\ w.told \in {"no", "late"}
      /\ Stored(w.ids, artifact[a], runner[a].images, Pages + 1)
  BY <1>1, UploadingIs
<1>3. /\ Ends(a, "ok", w.ids) /\ tree' = tree /\ staging' = staging /\ runner' = runner
      /\ artifact' = artifact /\ faults' = faults
  BY <1>1 DEF BuildEnvelope
<1>4. PICK u \in WorkType, v \in VerdictType :
        /\ work' = [work EXCEPT ![a] = u] /\ verdict' = [verdict EXCEPT ![a] = v]
        /\ u.at = "ended" /\ u.told = w.told /\ u.ids = <<>> /\ v.status = "ok" /\ v.ids = w.ids
  BY <1>1, <1>2, <1>3, EndsAs
<1>5. JobTypes(u, runner[a], staging[a], v, artifact[a])
  BY ExecutionShapes DEF JobTypes
<1>6. JobAgrees(u, runner[a], staging[a], v, artifact[a])
  BY <1>1, <1>2, <1>4, ExecutionShapes DEF JobAgrees, TreeAgrees, RunnerAgrees, Heeds, PagesAgree
<1>7. Wrote(a, u, runner[a], staging[a], v, artifact[a])
  BY <1>3, <1>4, SameAgain DEF Wrote
<1> QED  BY <1>3, <1>4, <1>5, <1>6, <1>7, OneAgent, ExecutionShapes
-----------------------------------------------------------------------------
LEMMA TakeJobKeeps == ASSUME XInv, NEW a \in Agents, TakeJob(a) PROVE XInv'
<1>1. work[a].at = "idle" /\ Moves(a, "idle", "begun")
  BY DEF TakeJob, Moves
<1>2. PICK w \in WorkType : /\ work' = [work EXCEPT ![a] = w] /\ w.at = "begun"
                            /\ w.told = work[a].told /\ w.ids = work[a].ids
  BY <1>1, MovesTo
<1>3. JobTypes(w, runner[a], staging[a], verdict[a], artifact[a])
  BY ExecutionShapes DEF JobTypes
<1>4. JobAgrees(w, runner[a], staging[a], verdict[a], artifact[a])
  BY <1>1, <1>2, ExecutionShapes DEF JobAgrees, TreeAgrees, RunnerAgrees, Heeds, PagesAgree
<1>5. Wrote(a, w, runner[a], staging[a], verdict[a], artifact[a])
  BY <1>2, SameAgain DEF Wrote, TakeJob
<1> QED  BY <1>2, <1>3, <1>4, <1>5, OneAgent, ExecutionShapes DEF TakeJob

(* An agent done with its job, and one that died.                          *)
LEMMA ClearedKeeps ==
  ASSUME XInv, NEW a \in Agents, work' = [work EXCEPT ![a] = NoWork],
         runner' = [runner EXCEPT ![a] = NoRunner], staging' = [staging EXCEPT ![a] = Absent],
         verdict' = [verdict EXCEPT ![a] = NoVerdict], artifact' = [artifact EXCEPT ![a] = <<>>],
         tree' = tree, faults' \in 0..MaxFaults
  PROVE  XInv'
<1>1. PICK none : none = <<>>
  OBVIOUS
<1>2. none \in Seq(1..Pages)
  BY <1>1
<1>3. JobTypes(NoWork, NoRunner, Absent, NoVerdict, none)
  BY <1>2, NoneTyped DEF JobTypes
<1>4. JobAgrees(NoWork, NoRunner, Absent, NoVerdict, none)
  BY <1>1, NoJobAgrees
<1>5. Wrote(a, NoWork, NoRunner, Absent, NoVerdict, none)
  BY <1>1 DEF Wrote
<1> QED  BY <1>3, <1>4, <1>5, OneAgent, ExecutionShapes, NoneTyped

LEMMA LeaveJobKeeps == ASSUME XInv, NEW a \in Agents, LeaveJob(a) PROVE XInv'
<1>1. staging[a] = Absent
  BY ExecutionShapes DEF LeaveJob, JobAgrees, TreeAgrees
<1>2. staging' = [staging EXCEPT ![a] = Absent]
  BY <1>1, SameAgain DEF LeaveJob
<1> QED  BY <1>2, ClearedKeeps, ExecutionShapes DEF LeaveJob

LEMMA KillAgentKeeps == ASSUME XInv, NEW a \in Agents, KillAgent(a) PROVE XInv'
<1>1. faults' \in 0..MaxFaults
  BY ExecutionShapes, ExecutionAssumption DEF KillAgent, Fault
<1> QED  BY <1>1, ClearedKeeps DEF KillAgent

LEMMA ExecutionInitHolds == ExecutionInit => XInv
<1> SUFFICES ASSUME ExecutionInit PROVE XInv
  OBVIOUS
<1>1. PICK none : none = <<>>
  OBVIOUS
<1>2. none \in Seq(1..Pages)
  BY <1>1
<1>3. /\ work = [a \in Agents |-> NoWork] /\ runner = [a \in Agents |-> NoRunner]
      /\ staging = [a \in Agents |-> Absent] /\ verdict = [a \in Agents |-> NoVerdict]
      /\ artifact = [a \in Agents |-> none] /\ tree = Absent /\ faults = 0
  BY <1>1 DEF ExecutionInit
<1>4. ShapesOK
  BY <1>2, <1>3, NoneTyped, ExecutionAssumption DEF ShapesOK
<1>5. TreesAreWhole
  BY <1>3, NoneTyped DEF TreesAreWhole
<1>6. ASSUME NEW a \in Agents
      PROVE  JobAgrees(work[a], runner[a], staging[a], verdict[a], artifact[a])
  BY <1>1, <1>3, NoJobAgrees
<1> QED  BY <1>4, <1>5, <1>6 DEF XInv

LEMMA ExecutionStep == XInv /\ [ExecutionNext]_executionVars => XInv'
<1> SUFFICES ASSUME XInv, [ExecutionNext]_executionVars PROVE XInv'
  OBVIOUS
<1>1. CASE UNCHANGED executionVars
  BY <1>1 DEF executionVars, XInv, ShapesOK, TreesAreWhole
<1>2. ASSUME NEW a \in Agents, JobGoesOn(a) PROVE XInv'
  BY <1>2, LookUpKeeps, ExtractKeeps, PublishKeeps, SpawnKeeps, TimeoutKeeps, CloseKeeps,
     DropPageKeeps, UploadPageKeeps, BuildEnvelopeKeeps, LeaveJobKeeps DEF JobGoesOn
<1>3. ASSUME NEW a \in Agents, NEW why \in {"lease-lost", "cancelled"}, Abort(a, why) PROVE XInv'
  BY <1>3, AbortKeeps
<1>4. ASSUME NEW a \in Agents,
             \/ TakeJob(a) \/ FetchFails(a) \/ SpawnFails(a) \/ PrintLine(a) \/ Close(a)
             \/ UploadFails(a) \/ KillAgent(a)
      PROVE  XInv'
  BY <1>4, TakeJobKeeps, FetchFailsKeeps, SpawnFailsKeeps, PrintLineKeeps, CloseKeeps,
     UploadFailsKeeps, KillAgentKeeps
<1> QED  BY <1>1, <1>2, <1>3, <1>4 DEF ExecutionNext

LEMMA XInvImplies == XInv => ExecutionInv
<1> SUFFICES ASSUME XInv PROVE ExecutionInv
  OBVIOUS
<1>1. ExecutionTypeOK
  <2>1. ASSUME NEW a \in Agents
        PROVE  /\ work[a].at \in {"idle", "begun", "extracting", "publishing", "ready", "running",
                                  "uploading", "ended"}
               /\ work[a].told \in {"no", "late", "lease-lost", "cancelled"}
               /\ work[a].page \in 0..(Pages + 1) /\ work[a].try \in 0..Uploads
    BY ExecutionShapes DEF WorkType
  <2>2. ASSUME NEW a \in Agents
        PROVE  runner[a] \in RunnerType /\ verdict[a].status \in {"none", "ok", "TRANSIENT", "PERMANENT"}
    BY ExecutionShapes DEF VerdictType
  <2>3. tree \in Directories /\ staging \in [Agents -> Directories] /\ faults \in 0..MaxFaults
    BY NoneTyped DEF XInv, ShapesOK, TreesAreWhole
  <2> QED  BY <2>1, <2>2, <2>3 DEF ExecutionTypeOK, RunnerType
<1>2. ToldIsHeeded
  BY DEF XInv, JobAgrees, Heeds, ToldIsHeeded
<1>3. NoStrayRunner
  BY DEF XInv, JobAgrees, RunnerAgrees, NoStrayRunner, Alive
<1>4. ASSUME NEW a \in Agents, verdict[a].status = "ok"
      PROVE  /\ {artifact[a][verdict[a].ids[k]] : k \in DOMAIN verdict[a].ids} = runner[a].images
             /\ \A j, k \in DOMAIN verdict[a].ids :
                  j < k => artifact[a][verdict[a].ids[j]] < artifact[a][verdict[a].ids[k]]
  <2>1. Stored(verdict[a].ids, artifact[a], runner[a].images, Pages + 1)
    BY <1>4 DEF XInv, JobAgrees, PagesAgree
  <2>2. \A p \in runner[a].images : p < Pages + 1
    BY ExecutionShapes, ExecutionAssumption DEF RunnerType
  <2> QED  BY <2>1, <2>2 DEF Stored
<1>5. GoodMeansAllPages
  BY <1>4 DEF GoodMeansAllPages
<1> QED  BY <1>1, <1>2, <1>3, <1>5 DEF ExecutionInv, XInv

(* A job on a host (src/worker/executor.ts, bundleCache.ts): runners are   *)
(* started in whole trees and none outlives its job, a job that was told   *)
(* to stop submits no more than that allows, and a good envelope names a   *)
(* stored copy of every image in order, for any number of agents that      *)
(* share the host, files, pages, attempts and faults.                      *)
THEOREM JobsOnAHostAgree == ExecutionSpec => []ExecutionInv
<1>1. XInv /\ [ExecutionNext]_executionVars => XInv'
  BY ExecutionStep
<1> QED  BY <1>1, ExecutionInitHolds, XInvImplies, PTL DEF ExecutionSpec
=============================================================================
