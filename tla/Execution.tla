----------------------------- MODULE Execution ------------------------------
(***************************************************************************)
(* One leased job on a worker host (src/worker/executor.ts and             *)
(* bundleCache.ts, called by agent.ts): the bundle is fetched into a       *)
(* directory the host's agents share, a runner is started in it, and what  *)
(* the runner leaves behind, a line on its stdout and page images, becomes *)
(* an envelope, for which every page is first stored by the core.          *)
(* Meanwhile the job's lease may be lost or its run cancelled.  What the   *)
(* agents and ingest then do with the envelope is in JobPlane.             *)
(***************************************************************************)
EXTENDS Naturals, Sequences

CONSTANTS
  Agents,
  Entries,      \* the files of a bundle
  Pages,        \* the images of a chapter, 1..Pages
  Uploads,        \* attempts of an upload (withRetry)
  MaxFaults     \* bound: things that go wrong

ASSUME ExecutionAssumption == {Entries, Pages, Uploads, MaxFaults} \subseteq Nat /\ Uploads >= 1

VARIABLES
  tree,      \* the bundle's directory: [entries, marker]
  staging,   \* agent -> the directory it extracts into
  work,      \* agent -> its job: [at, told, page, try, ids]
  runner,    \* agent -> its process: [at, late, line, images]
  artifact,  \* agent -> rows made for its job, in order: the page each holds
  verdict,   \* agent -> what it submits: [status, ids], or "none"
  faults

executionVars == <<tree, staging, work, runner, artifact, verdict, faults>>

Absent == [entries |-> 0, marker |-> FALSE]
Whole == [entries |-> Entries, marker |-> TRUE]
NoRunner == [at |-> "none", late |-> FALSE, line |-> "none", images |-> {}]
NoWork == [at |-> "idle", told |-> "no", page |-> 0, try |-> 0, ids |-> <<>>]
NoVerdict == [status |-> "none", ids |-> <<>>]

ExecutionInit ==
  /\ tree = Absent /\ staging = [a \in Agents |-> Absent]
  /\ work = [a \in Agents |-> NoWork] /\ runner = [a \in Agents |-> NoRunner]
  /\ artifact = [a \in Agents |-> <<>>] /\ verdict = [a \in Agents |-> NoVerdict] /\ faults = 0

Fault == faults < MaxFaults /\ faults' = faults + 1
Moves(a, from, to) == work[a].at = from /\ work' = [work EXCEPT ![a].at = to]

(* The end of execute: an envelope to submit, or none when it throws.      *)
Ends(a, status, ids) ==
  /\ work' = [work EXCEPT ![a] = [NoWork EXCEPT !.at = "ended", !.told = work[a].told]]
  /\ verdict' = [verdict EXCEPT ![a] = [status |-> status, ids |-> ids]]
-----------------------------------------------------------------------------
(* BundleCache.ensure.  The marker is the last file of a tree, and a tree  *)
(* is put in its place whole.                                              *)
LookUp(a) ==
  /\ \/ tree.marker /\ Moves(a, "begun", "ready")
     \/ ~tree.marker /\ Moves(a, "begun", "extracting")
  /\ UNCHANGED <<tree, staging, runner, artifact, verdict, faults>>

Extract(a) ==
  /\ work[a].at = "extracting"
  /\ IF staging[a].entries < Entries
     THEN staging' = [staging EXCEPT ![a].entries = @ + 1] /\ UNCHANGED work
     ELSE staging' = [staging EXCEPT ![a].marker = TRUE] /\ Moves(a, "extracting", "publishing")
  /\ UNCHANGED <<tree, runner, artifact, verdict, faults>>

(* Mutant: the tree is copied into its place, marker first.                *)
PublishByCopy(a) ==
  /\ work[a].at = "publishing"
  /\ tree' = [entries |-> IF tree.entries < Entries THEN tree.entries + 1 ELSE Entries, marker |-> TRUE]
  /\ IF tree'.entries < Entries THEN UNCHANGED <<staging, work>>
     ELSE staging' = [staging EXCEPT ![a] = Absent] /\ Moves(a, "publishing", "ready")
  /\ UNCHANGED <<runner, artifact, verdict, faults>>

(* A rename fails where another agent's tree is already.                   *)
Publish(a) ==
  /\ tree' = IF tree = Absent THEN staging[a] ELSE tree
  /\ IF tree'.marker THEN Moves(a, "publishing", "ready") /\ UNCHANGED verdict
     ELSE work[a].at = "publishing" /\ Ends(a, "none", <<>>)
  /\ staging' = [staging EXCEPT ![a] = Absent]
  /\ UNCHANGED <<runner, artifact, faults>>

(* No download, a bad archive, a full disk: ensure throws, and execute     *)
(* with it, outside its try.  Inside, what fails is reported, even for a   *)
(* job that is no longer its own.                                          *)
FetchFails(a) ==
  /\ work[a].at \in {"extracting", "publishing", "ready"} /\ Fault
  /\ Ends(a, "none", <<>>) /\ staging' = [staging EXCEPT ![a] = Absent]
  /\ UNCHANGED <<tree, runner, artifact>>

SpawnFails(a) ==
  /\ work[a].at = "ready" /\ Fault
  /\ Ends(a, "PERMANENT", <<>>)
  /\ UNCHANGED <<tree, staging, runner, artifact>>
-----------------------------------------------------------------------------
(* runRunner.                                                              *)
(* Mutant: SIGTERM alone, which a runner ignores.                          *)
TerminateKindly(r) == r

(* terminate: SIGTERM to the group now and SIGKILL after the grace.        *)
Terminate(r) == [r EXCEPT !.at = IF @ = "alive" THEN "doomed" ELSE @]

Spawn(a) ==
  /\ Moves(a, "ready", "running")
  /\ LET r == [NoRunner EXCEPT !.at = "alive"] IN
       runner' = [runner EXCEPT ![a] = IF work[a].told = "no" THEN r ELSE Terminate(r)]
  /\ UNCHANGED <<tree, staging, artifact, verdict, faults>>

Alive(a) == runner[a].at \in {"alive", "doomed"}

(* The runner writes its images and prints its line; a line that does not  *)
(* parse is none.                                                          *)
PrintLine(a) ==
  /\ Alive(a) /\ runner[a].line = "none"
  /\ \/ \E line \in {"TRANSIENT", "PERMANENT"} : runner' = [runner EXCEPT ![a].line = line]
     \/ \E images \in SUBSET (1..Pages) :
          runner' = [runner EXCEPT ![a].line = "ok", ![a].images = images]
  /\ UNCHANGED <<tree, staging, work, artifact, verdict, faults>>

Timeout(a) ==
  /\ Alive(a) /\ ~runner[a].late
  /\ runner' = [runner EXCEPT ![a] = [Terminate(@) EXCEPT !.late = TRUE]]
  /\ UNCHANGED <<tree, staging, work, artifact, verdict, faults>>

(* The renewal timer was told: the signal is raised at any time, and acts  *)
(* through the runner only.                                                *)
Abort(a, why) ==
  /\ work[a].at \notin {"idle", "ended"} /\ work[a].told = "no"
  /\ work' = [work EXCEPT ![a].told = IF work[a].at = "uploading" THEN "late" ELSE why]
  /\ runner' = [runner EXCEPT ![a] = Terminate(@)]
  /\ UNCHANGED <<tree, staging, artifact, verdict, faults>>

(* The process and its pipes are closed, by itself or killed.  A reason to *)
(* stop goes before what the runner printed, and what it printed before    *)
(* the clock.                                                              *)
Close(a) ==
  /\ Alive(a) /\ runner' = [runner EXCEPT ![a].at = "closed"]
  /\ LET r == runner[a] IN
       CASE work[a].told = "lease-lost" -> Ends(a, "none", <<>>)
         [] work[a].told = "cancelled" -> Ends(a, "TRANSIENT", <<>>)
         [] work[a].told = "no" /\ r.line = "ok" ->
              UNCHANGED verdict /\ work' = [work EXCEPT ![a].at = "uploading", ![a].page = 1, ![a].try = 1]
         [] OTHER -> Ends(a, IF r.line = "none" THEN "TRANSIENT" ELSE r.line, <<>>)
  /\ UNCHANGED <<tree, staging, artifact, faults>>
-----------------------------------------------------------------------------
(* uploadImages, one page at a time.  A page of no image type is dropped.  *)
DropPage(a) ==
  /\ work[a].at = "uploading" /\ work[a].page \in 1..Pages \ runner[a].images
  /\ work' = [work EXCEPT ![a].page = @ + 1, ![a].try = 1]
  /\ UNCHANGED <<tree, staging, runner, artifact, verdict, faults>>

Stores(a) == artifact' = [artifact EXCEPT ![a] = Append(@, work[a].page)]

UploadPage(a) ==
  /\ work[a].at = "uploading" /\ work[a].page \in runner[a].images
  /\ Stores(a)
  /\ work' = [work EXCEPT ![a].ids = Append(@, Len(artifact'[a])), ![a].page = @ + 1, ![a].try = 1]
  /\ UNCHANGED <<tree, staging, runner, verdict, faults>>

(* An attempt fails, before or after the row is there: the retry makes     *)
(* another row.  Out of attempts, execute answers for itself.              *)
UploadFails(a) ==
  /\ work[a].at = "uploading" /\ work[a].page \in runner[a].images /\ Fault
  /\ Stores(a) \/ UNCHANGED artifact
  /\ IF work[a].try < Uploads THEN work' = [work EXCEPT ![a].try = @ + 1] /\ UNCHANGED verdict
                            ELSE Ends(a, "PERMANENT", <<>>)
  /\ UNCHANGED <<tree, staging, runner>>

BuildEnvelope(a) ==
  /\ work[a].at = "uploading" /\ work[a].page = Pages + 1
  /\ Ends(a, "ok", work[a].ids)
  /\ UNCHANGED <<tree, staging, runner, artifact, faults>>
-----------------------------------------------------------------------------
(* The agent takes a job, and the next one when it is done with it.        *)
TakeJob(a) ==
  /\ work[a].at = "idle" /\ work' = [work EXCEPT ![a].at = "begun"]
  /\ UNCHANGED <<tree, staging, runner, artifact, verdict, faults>>

LeaveJob(a) ==
  /\ work[a].at = "ended"
  /\ work' = [work EXCEPT ![a] = NoWork] /\ runner' = [runner EXCEPT ![a] = NoRunner]
  /\ verdict' = [verdict EXCEPT ![a] = NoVerdict]
  /\ artifact' = [artifact EXCEPT ![a] = <<>>]
  /\ UNCHANGED <<tree, staging, faults>>

(* The container dies, its runner with it; what was extracted stays under  *)
(* a name nobody looks for.                                                *)
KillAgent(a) ==
  /\ work[a].at # "idle" /\ Fault
  /\ work' = [work EXCEPT ![a] = NoWork] /\ runner' = [runner EXCEPT ![a] = NoRunner]
  /\ staging' = [staging EXCEPT ![a] = Absent] /\ verdict' = [verdict EXCEPT ![a] = NoVerdict]
  /\ artifact' = [artifact EXCEPT ![a] = <<>>]
  /\ UNCHANGED tree

JobGoesOn(a) ==
  \/ LookUp(a) \/ Extract(a) \/ Publish(a) \/ Spawn(a) \/ Timeout(a)
  \/ runner[a].at = "doomed" /\ Close(a)
  \/ DropPage(a) \/ UploadPage(a) \/ BuildEnvelope(a) \/ LeaveJob(a)

ExecutionNext ==
  \E a \in Agents :
    \/ TakeJob(a) \/ JobGoesOn(a) \/ FetchFails(a) \/ SpawnFails(a) \/ PrintLine(a) \/ Close(a)
    \/ \E why \in {"lease-lost", "cancelled"} : Abort(a, why)
    \/ UploadFails(a) \/ KillAgent(a)

ExecutionSpec == ExecutionInit /\ [][ExecutionNext]_executionVars
-----------------------------------------------------------------------------
Directories == [entries : 0..Entries, marker : BOOLEAN]
ExecutionTypeOK ==
  /\ tree \in Directories /\ staging \in [Agents -> Directories]
  /\ \A a \in Agents :
       /\ work[a].at \in {"idle", "begun", "extracting", "publishing", "ready", "running", "uploading", "ended"}
       /\ work[a].told \in {"no", "late", "lease-lost", "cancelled"}
       /\ work[a].page \in 0..(Pages + 1) /\ work[a].try \in 0..Uploads
       /\ runner[a] \in [at : {"none", "alive", "doomed", "closed"}, late : BOOLEAN,
                         line : {"none", "ok", "TRANSIENT", "PERMANENT"}, images : SUBSET (1..Pages)]
       /\ verdict[a].status \in {"none", "ok", "TRANSIENT", "PERMANENT"}
  /\ faults \in 0..MaxFaults

(* A runner is only ever started in a whole tree, and a tree that is in    *)
(* its place is whole, whoever else fetches it, fails or dies.             *)
TreesAreWhole ==
  /\ tree \in {Absent, Whole}
  /\ \A a \in Agents : work[a].at \in {"ready", "running"} => tree = Whole

(* An agent that hears it has lost its lease before its runner is closed   *)
(* submits nothing, and one that hears of a cancellation reports a         *)
(* failure, whatever the runner printed.                                   *)
ToldIsHeeded ==
  \A a \in Agents : work[a].at = "ended" /\ runner[a].at = "closed" =>
    /\ work[a].told = "lease-lost" => verdict[a].status = "none"
    /\ work[a].told = "cancelled" => verdict[a].status = "TRANSIENT"

(* A good envelope names a stored copy of each image the runner wrote, in  *)
(* order, whatever answers were lost on the way.                           *)
GoodMeansAllPages ==
  \A a \in Agents : verdict[a].status = "ok" =>
    LET Held(k) == artifact[a][verdict[a].ids[k]]
        named == DOMAIN verdict[a].ids
    IN /\ {Held(k) : k \in named} = runner[a].images
       /\ \A j, k \in named : j < k => Held(j) < Held(k)

(* No runner outlives its job.                                             *)
NoStrayRunner == \A a \in Agents : Alive(a) <=> work[a].at = "running"

ExecutionInv == ExecutionTypeOK /\ TreesAreWhole /\ ToldIsHeeded /\ GoodMeansAllPages /\ NoStrayRunner

(* A job that was taken ends, the runner that hangs and the one that does  *)
(* not listen included.                                                    *)
EveryJobEnds == \A a \in Agents : work[a].at = "begun" ~> work[a].at = "idle"
=============================================================================
