----------------------------- MODULE Publishing -----------------------------
(***************************************************************************)
(* How one extension's repository and the platform keep each other up to   *)
(* date.  Bundles are published from it by the poll of autoSync and by the *)
(* push webhook (src/core/webhooks), into src/core/store/bundles.ts, whose *)
(* publish also imports the map file; the weekly sync of src/core/mapsync  *)
(* writes the series map back.  The map is the mapping of one series among *)
(* others; a bundle is what it was built from.                             *)
(***************************************************************************)
EXTENDS Integers, Sequences

CONSTANTS
  Drafts,      \* what contributors may push: [version, code]
  Pushers,     \* deliveries of the webhook handled at one time
  Poll,        \* the poll on the scheduler's tick
  Syncers,     \* core-api replicas that run the map sync
  MaxCommits, MaxWeeks, MaxFailures, MaxEdits   \* bounds

ASSUME PublishingAssumption ==
  Poll \notin Pushers /\ {MaxCommits, MaxWeeks, MaxFailures, MaxEdits} \subseteq Nat

VARIABLES
  git,         \* the default branch: [version, code, map], oldest first
  deliveries,  \* pushes the webhook has not been told of yet
  bundles,     \* version -> [content, at, yanked]; at orders published_at
  synced,      \* the commit github_synced_head names, 0 when unset
  mapped,      \* the series' tracked_manga row: [to, source], to = 0: none
  pub,         \* the publishers: where each is, with the commit it holds
  sync,        \* replica -> where its map sync is
  week, lastRun,   \* now, and map_sync_last_run, 0 when unset
  started,     \* observer: week -> syncs begun in it
  failures, edits

repoVars == <<git, deliveries>>
storeVars == <<bundles, synced, mapped>>
syncVars == <<sync, week, lastRun, started>>
publishingVars == <<repoVars, storeVars, pub, syncVars, failures, edits>>

Publishers == Pushers \cup {Poll}
Tip == Len(git)
Versions == {d.version : d \in Drafts}

PublishingInit ==
  /\ \E d \in Drafts, m \in 0..2 : git = <<[version |-> d.version, code |-> d.code, map |-> m]>>
  /\ deliveries = {} /\ bundles = <<>> /\ synced = 0
  /\ mapped = [to |-> 0, source |-> "none"]
  /\ pub = [p \in Publishers |-> [at |-> "idle", commit |-> 0]]
  /\ sync = [s \in Syncers |-> [at |-> "idle", raw |-> 0, rows |-> 0, base |-> 0]]
  /\ week = 1 /\ lastRun = 0 /\ started = [w \in 1..MaxWeeks |-> 0]
  /\ failures = 0 /\ edits = 0

(* A contributor pushes code, or a line of the map.                        *)
Push(content) ==
  /\ Tip < MaxCommits /\ content # git[Tip]
  /\ git' = Append(git, content) /\ deliveries' = deliveries \cup {Tip + 1}
  /\ UNCHANGED <<storeVars, pub, syncVars, failures, edits>>

(* The webhook: a delivery is handled, late or out of order, or is lost.   *)
Deliver(p, commit) ==
  /\ p # Poll /\ pub[p].at = "idle" /\ commit \in deliveries
  /\ deliveries' = deliveries \ {commit}
  /\ pub' = [pub EXCEPT ![p] = [at |-> "store", commit |-> commit]]
  /\ UNCHANGED <<git, storeVars, syncVars, failures, edits>>

Lose(commit) ==
  /\ commit \in deliveries /\ deliveries' = deliveries \ {commit}
  /\ UNCHANGED <<git, storeVars, pub, syncVars, failures, edits>>

(* autoSyncExtensions: the head, against the one that was synced last.     *)
PollHead ==
  /\ pub[Poll].at = "idle" /\ synced # Tip
  /\ pub' = [pub EXCEPT ![Poll] = [at |-> "store", commit |-> Tip]]
  /\ UNCHANGED <<repoVars, storeVars, syncVars, failures, edits>>

(* Mutant: a bundle that was there already does not count as a success.    *)
AfterStoreIfCreated(p, created) == IF p = Poll /\ created THEN "record" ELSE "idle"

AfterPublish(p, created) == IF p = Poll THEN "record" ELSE "idle"

Moves(p, to) == pub' = [pub EXCEPT ![p].at = to]
Latest == CHOOSE n \in {0} \cup {bundles[v].at : v \in DOMAIN bundles} :
            \A v \in DOMAIN bundles : bundles[v].at <= n

(* BundleStore.publish: known bytes are left as they are.  A version that  *)
(* is published anew keeps its place.                                      *)
Store(p) ==
  LET content == git[pub[p].commit]  v == content.version IN
  /\ pub[p].at = "store"
  /\ IF \E w \in DOMAIN bundles : bundles[w].content = content
     THEN Moves(p, AfterPublish(p, FALSE)) /\ UNCHANGED bundles
     ELSE /\ bundles' = [w \in DOMAIN bundles \cup {v} |->
               IF w # v THEN bundles[w]
               ELSE [content |-> content, yanked |-> FALSE,
                     at |-> IF v \in DOMAIN bundles THEN bundles[v].at ELSE Latest + 1]]
          /\ Moves(p, "reconcile")
  /\ UNCHANGED <<repoVars, synced, mapped, syncVars, failures, edits>>

(* reconcileTrackedManga: the table is read, and then a pair is inserted,  *)
(* or corrected when it came from an import.                               *)
File(p) == git[pub[p].commit].map
ReconcileMap(p) ==
  /\ pub[p].at = "reconcile"
  /\ Moves(p, IF File(p) \in {0, mapped.to} THEN AfterPublish(p, TRUE)
             ELSE IF mapped.to = 0 THEN "insert"
             ELSE IF mapped.source = "import" THEN "correct" ELSE AfterPublish(p, TRUE))
  /\ UNCHANGED <<repoVars, storeVars, syncVars, failures, edits>>

Insert(p) ==
  /\ pub[p].at = "insert" /\ Moves(p, AfterPublish(p, TRUE))
  /\ mapped' = IF mapped.to = 0 THEN [to |-> File(p), source |-> "import"] ELSE mapped
  /\ UNCHANGED <<repoVars, bundles, synced, syncVars, failures, edits>>

(* Mutant: the row is corrected whoever wrote it.                          *)
CorrectAsRead(p) ==
  /\ pub[p].at = "correct" /\ Moves(p, AfterPublish(p, TRUE))
  /\ mapped' = IF mapped.source # "none" THEN [mapped EXCEPT !.to = File(p)] ELSE mapped
  /\ UNCHANGED <<repoVars, bundles, synced, syncVars, failures, edits>>

Correct(p) ==
  /\ pub[p].at = "correct" /\ Moves(p, AfterPublish(p, TRUE))
  /\ mapped' = IF mapped.source = "import" THEN [mapped EXCEPT !.to = File(p)] ELSE mapped
  /\ UNCHANGED <<repoVars, bundles, synced, syncVars, failures, edits>>

Record ==
  /\ pub[Poll].at = "record" /\ Moves(Poll, "idle")
  /\ synced' = pub[Poll].commit
  /\ UNCHANGED <<repoVars, bundles, mapped, syncVars, failures, edits>>

(* Mutant: a commit is recorded also when an extension failed.             *)
RecordedAnyway(p) == IF p = Poll /\ pub[p].at # "record" THEN "record" ELSE "idle"

Abandoned(p) == "idle"

(* A build, a download or a statement fails, or the process dies.          *)
PublishFails(p) ==
  /\ pub[p].at # "idle" /\ failures < MaxFailures /\ failures' = failures + 1
  /\ Moves(p, Abandoned(p))
  /\ UNCHANGED <<repoVars, storeVars, syncVars, edits>>

(* Operators                                                               *)
OperatorMaps(to) ==
  /\ edits < MaxEdits /\ edits' = edits + 1
  /\ mapped' = [to |-> to, source |-> IF to = 0 THEN "none" ELSE "operator"]
  /\ UNCHANGED <<repoVars, bundles, synced, pub, syncVars, failures>>

Yank(v) ==
  /\ edits < MaxEdits /\ edits' = edits + 1
  /\ v \in DOMAIN bundles /\ bundles' = [bundles EXCEPT ![v].yanked = TRUE]
  /\ UNCHANGED <<repoVars, synced, mapped, pub, syncVars, failures>>

(* runIfDue: the first time the row is made, and nothing is synced.        *)
Due(s) ==
  /\ sync[s].at = "idle" /\ week > lastRun
  /\ sync' = [sync EXCEPT ![s].at = IF lastRun = 0 THEN "seed" ELSE "claim", ![s].raw = lastRun]
  /\ UNCHANGED <<repoVars, storeVars, pub, week, lastRun, started, failures, edits>>

SeedFirstRun(s) ==
  /\ sync[s].at = "seed" /\ sync' = [sync EXCEPT ![s].at = "idle"]
  /\ lastRun' = IF lastRun = 0 THEN week ELSE lastRun
  /\ UNCHANGED <<repoVars, storeVars, pub, week, started, failures, edits>>

(* Mutant: the timestamp is written whatever it says by now.               *)
Unchallenged(s) == TRUE

StillRaw(s) == lastRun = sync[s].raw

SyncClaim(s) ==
  /\ sync[s].at = "claim"
  /\ IF StillRaw(s)
     THEN /\ lastRun' = week /\ sync' = [sync EXCEPT ![s].at = "rows"]
          /\ started' = [started EXCEPT ![week] = @ + 1]
     ELSE /\ sync' = [sync EXCEPT ![s].at = "idle"] /\ UNCHANGED <<lastRun, started>>
  /\ UNCHANGED <<repoVars, storeVars, pub, week, failures, edits>>

(* sync: the rows; then the file, with the sha a write has to name.        *)
TrackedByExtension(s) ==
  /\ sync[s].at = "rows" /\ sync' = [sync EXCEPT ![s].at = "file", ![s].rows = mapped.to]
  /\ UNCHANGED <<repoVars, storeVars, pub, week, lastRun, started, failures, edits>>

GetFile(s) ==
  LET base == git[Tip].map IN
  /\ sync[s].at = "file"
  /\ sync' = [sync EXCEPT ![s].at = IF sync[s].rows = base THEN "idle" ELSE "put", ![s].base = base]
  /\ UNCHANGED <<repoVars, storeVars, pub, week, lastRun, started, failures, edits>>

(* GitHub refuses a write over a file that is not the one that was read.   *)
(* The webhook ignores the commit by its marker.                           *)
PutFile(s) ==
  /\ sync[s].at = "put" /\ sync' = [sync EXCEPT ![s].at = "idle"]
  /\ git' = IF git[Tip].map = sync[s].base THEN Append(git, [git[Tip] EXCEPT !.map = sync[s].rows]) ELSE git
  /\ UNCHANGED <<deliveries, storeVars, pub, week, lastRun, started, failures, edits>>

SyncFails(s) ==
  /\ sync[s].at # "idle" /\ failures < MaxFailures /\ failures' = failures + 1
  /\ sync' = [sync EXCEPT ![s].at = "idle"]
  /\ UNCHANGED <<repoVars, storeVars, pub, week, lastRun, started, edits>>

WeekPasses ==
  /\ week < MaxWeeks /\ week' = week + 1
  /\ UNCHANGED <<repoVars, storeVars, pub, sync, lastRun, started, failures, edits>>

PublisherStep(p) == Store(p) \/ ReconcileMap(p) \/ Insert(p) \/ Correct(p)
PollStep == PollHead \/ PublisherStep(Poll) \/ Record

PublishingNext ==
  \/ \E d \in Drafts, m \in 0..2 : Push([version |-> d.version, code |-> d.code, map |-> m])
  \/ \E commit \in deliveries : Lose(commit) \/ \E p \in Pushers : Deliver(p, commit)
  \/ PollStep
  \/ \E p \in Publishers : PublishFails(p)
  \/ \E p \in Pushers : PublisherStep(p)
  \/ \E to \in 0..2 : OperatorMaps(to)
  \/ \E v \in Versions : Yank(v)
  \/ \E s \in Syncers : Due(s) \/ SeedFirstRun(s) \/ SyncClaim(s) \/ TrackedByExtension(s)
                        \/ GetFile(s) \/ PutFile(s) \/ SyncFails(s)
  \/ WeekPasses

(* The scheduler goes on polling.                                          *)
PublishingSpec == PublishingInit /\ [][PublishingNext]_publishingVars /\ WF_publishingVars(PollStep)
-----------------------------------------------------------------------------
(* Every variable stays in its type.                                       *)
PublishingTypeOK ==
  /\ synced \in 0..Tip /\ deliveries \subseteq 2..Tip
  /\ \A v \in DOMAIN bundles : bundles[v].content \in {git[i] : i \in 1..Tip} /\ bundles[v].content.version = v
  /\ mapped.to \in 0..2 /\ (mapped.to = 0 <=> mapped.source = "none")
  /\ \A p \in Publishers : pub[p].at # "idle" => pub[p].commit \in 1..Tip
  /\ lastRun \in 0..week

(* What an operator mapped by hand outlives every publish, also one that   *)
(* read the table before.                                                  *)
OperatorsWordStands == [][\A p \in Publishers :
  pub'[p] # pub[p] /\ mapped.source = "operator" => mapped' = mapped]_publishingVars

(* However many replicas ask, one of them syncs in a week, and none in the *)
(* week the job was armed.                                                 *)
OneSyncAWeek == \A w \in 1..MaxWeeks : started[w] <= 1

(* The types of the repository's side, and one sync a week.                *)
PublishingInv == PublishingTypeOK /\ OneSyncAWeek

(* The poll gets to the head of a repository that has come to rest,        *)
(* whatever failed on the way.                                             *)
HeadIsReached == <>[](synced = Tip)

(* When the poll has synced the head, the bundle latest() resolves to, but *)
(* for what operators yanked, is what the repository says, as autoSync.ts  *)
(* says of it.                                                             *)
SyncedMeansLatest ==
  synced = Tip => \E v \in DOMAIN bundles : bundles[v].at = Latest /\ bundles[v].content = git[Tip]
=============================================================================
