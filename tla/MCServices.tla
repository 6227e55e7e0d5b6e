----------------------------- MODULE MCServices -----------------------------
(***************************************************************************)
(* Small instances of the services around the job plane and the uploader.  *)
(* They share no state, so one run takes them one after the other: scene   *)
(* names the instance a behaviour is about, and the others stay as they    *)
(* began.                                                                  *)
(***************************************************************************)
EXTENDS Catalogue, Scheduler, Spread, Intake, TLC

CONSTANTS a, d, x, y, p1, p2, r1, r2, Scenes

VARIABLE scene

(* The catalogue: a is x's chapter, d is y's, in a language x has not.     *)
MCExtOf  == (a :> x) @@ (d :> y)
MCLangOf == (a :> "en") @@ (d :> "fr")
MCSpeaks == (x :> {"en"}) @@ (y :> {"en", "fr"})

Cleaning == [clean |-> TRUE, scoped |-> FALSE, updated |-> FALSE, complete |-> TRUE, failed |-> FALSE]
Unread   == [Cleaning EXCEPT !.failed = TRUE]
Update   == [Cleaning EXCEPT !.clean = FALSE, !.updated = TRUE]
Probe    == [Cleaning EXCEPT !.scoped = TRUE]
Mute     == [Cleaning EXCEPT !.updated = TRUE, !.complete = FALSE]
MCReports == {Cleaning, Unread, Update, Probe, Mute}

(* Two publishers on one title; two processors on one publisher's; and one *)
(* of each with every kind of run, every fate and one mishap.              *)
Titles == [
  shared |-> [crew |-> {p1}, exts |-> {x, y}, kinds |-> {Cleaning, Update},
              there |-> {a, d}, shelves |-> {"listed", "dropped"}, upsets |-> 0],
  race   |-> [crew |-> {p1, p2}, exts |-> {x}, kinds |-> {Cleaning, Update},
              there |-> {a}, shelves |-> {"listed", "dropped"}, upsets |-> 0],
  mishap |-> [crew |-> {p1}, exts |-> {x}, kinds |-> MCReports,
              there |-> {a}, shelves |-> Shelves, upsets |-> MaxUpsets],
  none   |-> [crew |-> {}, exts |-> {}, kinds |-> {}, there |-> {}, shelves |-> {}, upsets |-> 0]]
Title == IF scene \in DOMAIN Titles THEN Titles[scene] ELSE Titles.none

CatalogueScene ==
  /\ scene \in DOMAIN Titles
  /\ CatalogueNext
  /\ \A p \in Procs \ Title.crew : proc'[p] = proc[p]
  /\ upsets' <= Title.upsets
  /\ \A c \in Chapters : shelf'[c] \in IF c \in Title.there THEN Title.shelves ELSE {"listed"}
  /\ \A s \in Slots : LET run == runs'[s] IN
       IF run = None THEN TRUE
       ELSE run.ext \in Title.exts /\ run.kind \in Title.kinds /\ run.names \subseteq Title.there
  /\ UNCHANGED <<scene, schedulerVars, spreadVars, intakeVars>>

(* The scheduler: alone, with polls and a switch, and with a second one.   *)
MCSchedule == <<
  [ext |-> "e1", kind |-> "UPDATE", minute |-> 1, days |-> {}],
  [ext |-> "e2", kind |-> "FORCE",  minute |-> 1, days |-> {}],
  [ext |-> "e1", kind |-> "CLEAN",  minute |-> 0, days |-> {1}]>>

SchedulerScene ==
  /\ SchedulerNext
  /\ \/ scene = "alone" /\ sched'[r2] = sched[r2]
     \/ scene = "replicas" /\ switches' = 0
  /\ UNCHANGED <<scene, catalogueVars, spreadVars, intakeVars>>

(* The release schedule of two runs' uploads.                              *)
MCSeries  == <<"s", "t", "u">>
MCBacklog == (p1 :> [s |-> 3, t |-> 1, u |-> 2]) @@ (p2 :> [s |-> 2, t |-> 2, u |-> 0])

SpreadScene ==
  /\ scene = "spread" /\ SpreadNext
  /\ UNCHANGED <<scene, catalogueVars, schedulerVars, intakeVars>>

(* The uploads: a chapter that changes its number, with a failure; one     *)
(* that two processors see to; and an entry of declared parts.  Of a       *)
(* chapter every run reports the whole.                                    *)
Uploads == [
  renumbered |-> [crew |-> {p1},     parts |-> {},      entries |-> {{1}, {2}}, changes |-> 1, failures |-> 1],
  doubles    |-> [crew |-> {p1, p2}, parts |-> {},      entries |-> {{1}, {2}}, changes |-> 1, failures |-> 0],
  parts      |-> [crew |-> {p1},     parts |-> Numbers, entries |-> Entries,    changes |-> 2, failures |-> 1],
  none       |-> [crew |-> {},       parts |-> {},      entries |-> {{1}},      changes |-> 0, failures |-> 0]]
Upload == IF scene \in DOMAIN Uploads THEN Uploads[scene] ELSE Uploads.none

IntakeScene ==
  /\ scene \in DOMAIN Uploads
  /\ IntakeNext
  /\ \A k \in Clerks \ Upload.crew : clerk'[k] = clerk[k]
  /\ parts = {} => whole' = (waiting' # {})
  /\ entry' \in Upload.entries /\ changes' <= Upload.changes /\ failures' <= Upload.failures
  /\ UNCHANGED <<scene, catalogueVars, schedulerVars, spreadVars>>

vars == <<scene, catalogueVars, schedulerVars, spreadVars, intakeVars>>

MCInit ==
  /\ scene \in Scenes
  /\ CatalogueInit /\ {c \in Chapters : md[c] = "live"} = Title.there
  /\ SchedulerInit /\ polling = (scene = "alone")
  /\ SpreadInit /\ (scene # "spread" => hour = 3)
  /\ IntakeInit /\ entry \in Upload.entries /\ parts = Upload.parts

MCNext == CatalogueScene \/ SchedulerScene \/ SpreadScene \/ IntakeScene

MCSpec ==
  /\ MCInit /\ [][MCNext]_vars
  /\ WF_catalogueVars(ProcStep(p1)) /\ WF_catalogueVars(TimePasses(a))
  /\ WF_intakeVars(ClerkStep(p1)) /\ WF_intakeVars(Drain)
  /\ WF_schedulerVars(scene \in {"alone", "replicas"} /\ TickStep(r1))
-----------------------------------------------------------------------------
(* Expired leases go on being swept, in the scenes the scheduler is on: no *)
(* pass of a tick that fails keeps them waiting.                           *)
AloneSweepsGoOn == scene \in {"alone", "replicas"} => SweepsGoOn

(* The copies of an entry converge, in the scenes the uploads are on: with *)
(* its number, unless a second processor may hold an older report.         *)
CopiesConverge ==
  []<>Sweeping => <>[](OneEach /\ (scene # "doubles" => RightNumber))

(* A retired chapter of the extension in focus is removed.                 *)
TheRetiredIsRemoved == IsRemovedOnceRetired(a)

(* No loop of the services starves what it is there for.                   *)
ServicesGoOn == AloneSweepsGoOn /\ CopiesConverge /\ TheRetiredIsRemoved
=============================================================================
