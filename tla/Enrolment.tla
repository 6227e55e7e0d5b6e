----------------------------- MODULE Enrolment ------------------------------
(***************************************************************************)
(* How a worker host gets its identity (src/worker/credentials.ts and      *)
(* coreApi.ts, the enroll route and src/core/store/workers.ts).  An        *)
(* operator mints a token that is good for one enrolment and puts it into  *)
(* a host's environment, or into two.  A host that has no credential on    *)
(* disk exchanges its token for one, retrying a call that brought no       *)
(* answer, and saves what it got; the core takes an exchange in four       *)
(* statements.  The core keeps hashes only: a credential that no host has  *)
(* saved is lost, and its token is spent.                                  *)
(***************************************************************************)
EXTENDS Naturals

CONSTANTS
  Hosts, Tokens,
  Sends,                 \* attempts of one call (withRetry)
  MaxRows, MaxMishaps    \* bounds: worker rows, things that go wrong

ASSUME EnrolmentAssumption ==
  {Sends, MaxRows, MaxMishaps} \subseteq Nat /\ Sends >= 1 /\ Tokens # {}

VARIABLES
  ticket,    \* enroll_tokens: token -> [usedBy, revoked, expired]
  identity,  \* workers: id -> [status, by], by: the token it was made for
  call,      \* <<host, attempt>> -> the request at the core: [at, token, id]
  host,      \* host -> its process: [at, try, id]
  site,      \* host -> what it stands on: [token, file, room]
  saved,     \* observer: ids that a host had on disk at some time
  mishaps

enrolmentVars == <<ticket, identity, call, host, site, saved, mishaps>>

Ids == 1..MaxRows
Calls == Hosts \X (1..Sends)
NoCall == [at |-> "none", token |-> CHOOSE t \in Tokens : TRUE, id |-> 0]
Down == [at |-> "down", try |-> 0, id |-> 0]

EnrolmentInit ==
  /\ ticket = [t \in Tokens |-> [usedBy |-> 0, revoked |-> FALSE, expired |-> FALSE]]
  /\ identity = [i \in Ids |-> [status |-> "free", by |-> NoCall.token]]
  /\ call = [c \in Calls |-> NoCall]
  /\ host = [h \in Hosts |-> Down]
  /\ site \in [Hosts -> [token : {NoCall.token}, file : {0}, room : BOOLEAN]]
  /\ saved = {} /\ mishaps = 0

Mishap == mishaps < MaxMishaps /\ mishaps' = mishaps + 1
HostGoes(h, at) == host' = [host EXCEPT ![h].at = at]
-----------------------------------------------------------------------------
(* The core: enroll.  The token is read, a worker row is created, the      *)
(* token is marked under a guard, and who lost that race takes its row     *)
(* back.  Expiry is looked at in the read only.                            *)
ReadToken(c) ==
  /\ call[c].at = "sent"
  /\ LET t == ticket[call[c].token] IN
       call' = [call EXCEPT ![c].at =
         IF t.revoked \/ t.expired \/ t.usedBy # 0 THEN "refused" ELSE "creating"]
  /\ UNCHANGED <<ticket, identity, host, site, saved, mishaps>>

CreateWorker(c) ==
  /\ call[c].at = "creating"
  /\ \E i \in Ids :
       /\ \A k \in Ids : identity[k].status = "free" <=> k >= i
       /\ identity' = [identity EXCEPT ![i] = [status |-> "ACTIVE", by |-> call[c].token]]
       /\ call' = [call EXCEPT ![c].at = "consuming", ![c].id = i]
  /\ UNCHANGED <<ticket, host, site, saved, mishaps>>

(* Mutant: the update that consumes a token does not ask whether it has    *)
(* been used since it was read.                                            *)
ConsumeUnguarded(c) ==
  /\ call[c].at = "consuming"
  /\ LET t == call[c].token IN
       IF ~ticket[t].revoked
       THEN /\ ticket' = [ticket EXCEPT ![t].usedBy = call[c].id]
            /\ call' = [call EXCEPT ![c].at = "enrolled"]
       ELSE call' = [call EXCEPT ![c].at = "losing"] /\ UNCHANGED ticket
  /\ UNCHANGED <<identity, host, site, saved, mishaps>>

ConsumeToken(c) ==
  /\ call[c].at = "consuming"
  /\ LET t == call[c].token IN
       IF ticket[t].usedBy = 0 /\ ~ticket[t].revoked
       THEN /\ ticket' = [ticket EXCEPT ![t].usedBy = call[c].id]
            /\ call' = [call EXCEPT ![c].at = "enrolled"]
       ELSE call' = [call EXCEPT ![c].at = "losing"] /\ UNCHANGED ticket
  /\ UNCHANGED <<identity, host, site, saved, mishaps>>

RollBack(c) ==
  /\ call[c].at = "losing"
  /\ identity' = [identity EXCEPT ![call[c].id].status = "deleted"]
  /\ call' = [call EXCEPT ![c].at = "refused", ![c].id = 0]
  /\ UNCHANGED <<ticket, host, site, saved, mishaps>>

Waits(h, c) == host[h].at = "calling" /\ c = <<h, host[h].try>>

(* What a caller does without an answer: one more attempt, or it exits.    *)
TriesAgain(h) ==
  host' = [host EXCEPT ![h] =
             IF host[h].try < Sends THEN [at |-> "sending", try |-> host[h].try + 1, id |-> host[h].id]
                                    ELSE Down]

(* A statement of a request fails or the core dies with it; nothing is     *)
(* undone, and a caller that still waits is told.                          *)
BreakCall(h, n) ==
  /\ call[<<h, n>>].at # "none" /\ Mishap
  /\ call' = [call EXCEPT ![<<h, n>>] = NoCall]
  /\ IF Waits(h, <<h, n>>) THEN TriesAgain(h) ELSE UNCHANGED host
  /\ UNCHANGED <<ticket, identity, site, saved>>

(* The answer, to a caller that may have given the attempt up.             *)
AnswerCall(h, n) ==
  /\ call[<<h, n>>].at \in {"enrolled", "refused"}
  /\ call' = [call EXCEPT ![<<h, n>>] = NoCall]
  /\ host' = IF ~Waits(h, <<h, n>>) THEN host
             ELSE IF call[<<h, n>>].at = "refused" THEN [host EXCEPT ![h] = Down]
             ELSE [host EXCEPT ![h].at = "saving", ![h].id = call[<<h, n>>].id]
  /\ UNCHANGED <<ticket, identity, site, saved, mishaps>>
-----------------------------------------------------------------------------
(* The host: ensureCredentials, and what the agent lives on.               *)
LoadCredentials(h) ==
  /\ host[h].at = "down"
  /\ host' = [host EXCEPT ![h] = [Down EXCEPT !.at = IF site[h].file = 0 THEN "probing" ELSE "up",
                                              !.id = site[h].file]]
  /\ UNCHANGED <<ticket, identity, call, site, saved, mishaps>>

AssertWritable(h) ==
  /\ host[h].at = "probing"
  /\ host' = [host EXCEPT ![h] = IF site[h].room THEN [at |-> "sending", try |-> 1, id |-> 0] ELSE Down]
  /\ UNCHANGED <<ticket, identity, call, site, saved, mishaps>>

Enroll(h) ==
  /\ host[h].at = "sending" /\ call[<<h, host[h].try>>].at = "none"
  /\ call' = [call EXCEPT ![<<h, host[h].try>>] = [at |-> "sent", token |-> site[h].token, id |-> 0]]
  /\ HostGoes(h, "calling")
  /\ UNCHANGED <<ticket, identity, site, saved, mishaps>>

(* The connection breaks or twenty seconds pass; the core works on.        *)
LoseAnswer(h) ==
  /\ host[h].at = "calling" /\ Mishap /\ TriesAgain(h)
  /\ UNCHANGED <<ticket, identity, call, site, saved>>

SaveCredentials(h) ==
  /\ host[h].at = "saving"
  /\ IF site[h].room
     THEN /\ site' = [site EXCEPT ![h].file = host[h].id]
          /\ saved' = saved \cup {host[h].id} /\ HostGoes(h, "up")
     ELSE host' = [host EXCEPT ![h] = Down] /\ UNCHANGED <<site, saved>>
  /\ UNCHANGED <<ticket, identity, call, mishaps>>

(* The agent asks for work: a credential the core does not know, or has    *)
(* revoked, ends the process.                                              *)
Authenticate(h) ==
  /\ host[h].at = "up" /\ identity[host[h].id].status # "ACTIVE"
  /\ host' = [host EXCEPT ![h] = Down]
  /\ UNCHANGED <<ticket, identity, call, site, saved, mishaps>>

Exposed(h) == host[h].at \in {"sending", "calling", "saving"}

CrashHost(h) ==
  /\ host[h].at # "down" /\ host' = [host EXCEPT ![h] = Down]
  /\ IF Exposed(h) THEN Mishap ELSE UNCHANGED mishaps
  /\ UNCHANGED <<ticket, identity, call, site, saved>>
-----------------------------------------------------------------------------
(* People, clocks and disks.                                               *)
RevokeToken(t) ==
  /\ ~ticket[t].revoked /\ ticket' = [ticket EXCEPT ![t].revoked = TRUE]
  /\ UNCHANGED <<identity, call, host, site, saved, mishaps>>

ExpireToken(t) ==
  /\ ~ticket[t].expired /\ ticket' = [ticket EXCEPT ![t].expired = TRUE]
  /\ UNCHANGED <<identity, call, host, site, saved, mishaps>>

SetStatus(i, status) ==
  /\ identity[i].status \notin {"free", "deleted"}
  /\ identity' = [identity EXCEPT ![i].status = status]
  /\ UNCHANGED <<ticket, call, host, site, saved, mishaps>>

(* Another token for the host, on its old volume or on a new one.          *)
Provision(h, t) ==
  /\ host[h].at = "down"
  /\ \E file \in {site[h].file, 0} : site' = [site EXCEPT ![h].token = t, ![h].file = file]
  /\ UNCHANGED <<ticket, identity, call, host, saved, mishaps>>

DiskFillsOrClears(h) ==
  /\ site' = [site EXCEPT ![h].room = ~@]
  /\ IF site[h].room /\ Exposed(h) THEN Mishap ELSE UNCHANGED mishaps
  /\ UNCHANGED <<ticket, identity, call, host, saved>>

EnrolmentNext ==
  \/ \E c \in Calls : ReadToken(c) \/ CreateWorker(c) \/ ConsumeToken(c) \/ RollBack(c)
  \/ \E h \in Hosts, n \in 1..Sends : BreakCall(h, n) \/ AnswerCall(h, n)
  \/ \E h \in Hosts :
       \/ LoadCredentials(h) \/ AssertWritable(h) \/ Enroll(h) \/ LoseAnswer(h)
       \/ SaveCredentials(h) \/ Authenticate(h) \/ CrashHost(h) \/ DiskFillsOrClears(h)
       \/ \E t \in Tokens : Provision(h, t)
  \/ \E t \in Tokens : RevokeToken(t) \/ ExpireToken(t)
  \/ \E i \in Ids, s \in {"ACTIVE", "REVOKED"} : SetStatus(i, s)

EnrolmentSpec == EnrolmentInit /\ [][EnrolmentNext]_enrolmentVars
-----------------------------------------------------------------------------
EnrolmentTypeOK ==
  /\ ticket \in [Tokens -> [usedBy : {0} \cup Ids, revoked : BOOLEAN, expired : BOOLEAN]]
  /\ identity \in [Ids -> [status : {"free", "ACTIVE", "REVOKED", "deleted"}, by : Tokens]]
  /\ call \in [Calls -> [at : {"none", "sent", "creating", "consuming", "losing", "enrolled", "refused"},
                         token : Tokens, id : {0} \cup Ids]]
  /\ host \in [Hosts -> [at : {"down", "probing", "sending", "calling", "saving", "up"},
                         try : 0..Sends, id : {0} \cup Ids]]
  /\ site \in [Hosts -> [token : Tokens, file : {0} \cup Ids, room : BOOLEAN]]
  /\ saved \subseteq Ids /\ mishaps \in 0..MaxMishaps

Enrolled(i) == identity[i].status \in {"ACTIVE", "REVOKED"}
Used(i) == ticket[identity[i].by].usedBy = i
AtTheCore(i) == \E c \in Calls : call[c].at \in {"consuming", "losing"} /\ call[c].id = i
OnTheWay(i) == \/ \E c \in Calls : call[c].at = "enrolled" /\ call[c].id = i
               \/ \E h \in Hosts : host[h].at = "saving" /\ host[h].id = i

(* A token makes one worker, however many hosts hold it and however often  *)
(* they call (enroll): every row beside the one it was marked with is      *)
(* about to be taken back, unless a request broke off half way.            *)
OneWorkerPerToken == \A i \in Ids : Enrolled(i) => Used(i) \/ AtTheCore(i) \/ mishaps > 0

(* An identity a host is given, uses or has on disk is a worker the core   *)
(* knows, made for a token that names it, and no other host's.             *)
Has(h, i) == i # 0 /\ i \in {host[h].id, site[h].file}
IdentitiesStand ==
  /\ \A h \in Hosts, i \in Ids : Has(h, i) => Enrolled(i) /\ Used(i)
  /\ \A h, k \in Hosts, i \in Ids : Has(h, i) /\ Has(k, i) => h = k

(* A token is spent for a credential that somebody has, or will have: a    *)
(* full disk, two hosts with one token, a token withdrawn or run out and   *)
(* a process that dies elsewhere waste none.  It takes an answer lost, a   *)
(* request broken off, or a host that dies or whose disk fills up between  *)
(* its probe and its save (assertWritable).                                *)
TokensAreNotWasted ==
  \A t \in Tokens : LET i == ticket[t].usedBy IN
    i # 0 => i \in saved \/ OnTheWay(i) \/ mishaps > 0

EnrolmentInv == EnrolmentTypeOK /\ OneWorkerPerToken /\ IdentitiesStand /\ TokensAreNotWasted
=============================================================================
