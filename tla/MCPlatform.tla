----------------------------- MODULE MCPlatform -----------------------------
(***************************************************************************)
(* Small instances of the platform's dealings with MangaDex, with the      *)
(* extensions' repositories and with the people at the console.  As in     *)
(* MCServices one run takes them one after the other: scene names the      *)
(* instance a behaviour is about.                                          *)
(***************************************************************************)
EXTENDS MdClient, Titles, Publishing, Restart, Console

CONSTANTS r1, Scenes

VARIABLE scene

consoleVars == <<deskVars, pagingVars, feedVars, restartVars>>

(* Two concurrent callers of one MangaDex client.                          *)
ClientScene ==
  /\ scene = "client" /\ MdNext
  /\ UNCHANGED <<scene, titleVars, publishingVars, consoleVars>>

(* Two members of staff on one series.                                     *)
TriageScene ==
  /\ scene = "triage" /\ TitlesNext
  /\ UNCHANGED <<scene, mdVars, publishingVars, consoleVars>>

(* Two versions, the second with other code than the first.  The webhook   *)
(* beside the poll; two replicas that sync, with commits to the map only;  *)
(* and the poll alone, with contributors that never go back and operators  *)
(* that do not yank.                                                       *)
MCDrafts == {[version |-> 1, code |-> 1], [version |-> 2, code |-> 2]}
Repository == [
  hooks |-> [hooked |-> TRUE,  syncers |-> {r1},    weeks |-> MaxWeeks, codes |-> {1, 2}, fresh |-> FALSE],
  sync  |-> [hooked |-> FALSE, syncers |-> Syncers, weeks |-> MaxWeeks, codes |-> {1},    fresh |-> FALSE],
  poll  |-> [hooked |-> FALSE, syncers |-> {},      weeks |-> 1,        codes |-> {1, 2}, fresh |-> TRUE]]
Repo == Repository[scene]

RepositoryScene ==
  /\ scene \in DOMAIN Repository
  /\ PublishingNext
  /\ Repo.hooked \/ \A p \in Pushers : pub'[p] = pub[p] /\ deliveries \subseteq deliveries'
  /\ git'[Len(git')].code \in Repo.codes
  /\ \A s \in Syncers \ Repo.syncers : sync'[s] = sync[s]
  /\ week' <= Repo.weeks
  /\ Repo.fresh => /\ git' # git => \A i \in DOMAIN git : git[i] # git'[Len(git')]
                   /\ \A v \in DOMAIN bundles' : ~bundles'[v].yanked
  /\ UNCHANGED <<scene, mdVars, titleVars, consoleVars>>

(* One row of the queue, two requests that edit it and its worker; a       *)
(* listing walked while the table changes; two people who clear the feed;  *)
(* and the services that restart on request.                               *)
ConsoleScene ==
  /\ \/ scene = "desk" /\ DeskNext /\ UNCHANGED <<pagingVars, feedVars, restartVars>>
     \/ scene = "pages" /\ PagingNext /\ UNCHANGED <<deskVars, feedVars, restartVars>>
     \/ scene = "feed" /\ FeedNext /\ UNCHANGED <<deskVars, pagingVars, restartVars>>
     \/ scene = "restart" /\ RestartNext /\ UNCHANGED <<deskVars, pagingVars, feedVars>>
  /\ UNCHANGED <<scene, mdVars, titleVars, publishingVars>>

vars == <<scene, mdVars, titleVars, publishingVars, consoleVars>>

MCInit ==
  /\ scene \in Scenes
  /\ MdInit /\ (scene # "client" => token = "good" /\ refresh = "good")
  /\ TitlesInit
  /\ PublishingInit /\ git[1].map = 1
                    /\ (scene \in DOMAIN Repository => git[1].code \in Repo.codes)
                    /\ (scene \notin DOMAIN Repository => git[1].code = 1)
  /\ DeskInit /\ FeedInit /\ RestartInit
  /\ PagingInit /\ (scene # "pages" => walk.by = "id" /\ There = {})

MCNext == ClientScene \/ TriageScene \/ RepositoryScene \/ ConsoleScene

MCSpec ==
  /\ MCInit /\ [][MCNext]_vars
  /\ WF_mdVars(scene = "client" /\ TimeGoesBy)
  /\ \A c \in Callers : WF_mdVars(scene = "client" /\ CallerStep(c))
  /\ WF_publishingVars(scene \in DOMAIN Repository /\ PollStep)
-----------------------------------------------------------------------------
(* In the scenes the poll is on, it gets to the head; and while it is the  *)
(* only publisher and no content comes back, what it then has published is *)
(* what the repository says.                                               *)
PollKeepsUp ==
  /\ scene \in DOMAIN Repository => HeadIsReached
  /\ [](scene = "poll" => SyncedMeansLatest)

(* No request of the client and no poll of the repository stops half way.  *)
PlatformGoesOn == EveryRequestEnds /\ PollKeepsUp
=============================================================================
