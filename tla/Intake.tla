------------------------------- MODULE Intake -------------------------------
(***************************************************************************)
(* What a run's report puts on MangaDex: the upload half of RunProcessor   *)
(* (src/core/processor/processor.ts) with decideForManga and               *)
(* findDuplicateChapters (src/core/processor/dedupe.ts), up to the rows of *)
(* upload_tasks and what the uploader makes of them.                       *)
(*                                                                         *)
(* It is about ONE entry of a publisher: one link, in one language.  The   *)
(* entry is a chapter, and its number may change; or it is several, and    *)
(* has a number for each.  The copies on MangaDex with that link are       *)
(* numbered as they were created, and known to be the bot's.  One action   *)
(* per await: the publisher, other processors and the uploader move in     *)
(* between, and a processor may fail anywhere and leave its run waiting.   *)
(***************************************************************************)
EXTENDS Integers, FiniteSets, Functions

CONSTANTS
  Numbers,     \* chapter numbers the entry may have
  Entries,     \* what the entry may be at its publisher: sets of numbers
  Clerks,      \* concurrent RunProcessors
  MaxChanges,  \* bounds how often the publisher changes the entry
  MaxFailures  \* bounds the failures of processors and of their statements

ASSUME IntakeAssumption ==
  /\ Numbers \subseteq Nat \ {0} /\ IsFiniteSet(Numbers)
  /\ Entries \subseteq (SUBSET Numbers) \ {{}}
  /\ MaxChanges \in Nat /\ MaxFailures \in Nat

VARIABLES
  entry,       \* the numbers the publisher has it under
  parts,       \* multi_chapters of the entry, {} when it is not in there
  onMd,        \* MangaDex: the number of each copy that exists
  made,        \* MangaDex: how many copies were ever created
  upload,      \* number -> its UPLOAD row, "none" before there is one
  edit,        \* copy -> its EDIT row, and the number it writes
  doom,        \* copy -> its DELETE row
  waiting,     \* the run that is INGESTING: what it reported, {} without one
  whole,       \* ... and whether that is the whole entry, from a CLEAN run
  clerk,       \* processor -> where its processRun is, with what it has read
  changes, failures

mdVars     == <<onMd, made>>
rowVars    == <<upload, edit, doom>>
reportVars == <<waiting, whole>>
intakeVars == <<entry, parts, mdVars, rowVars, reportVars, clerk, changes, failures>>

(* A copy for each UPLOAD row, and a number has one row.                   *)
Copies == 1..Cardinality(Numbers)
NoEdit == [at |-> "none", to |-> 0]
Free   == [at |-> "idle", says |-> {}, its |-> FALSE, seen |-> << >>, ids |-> {},
           adds |-> {}, todo |-> {}]

IntakeInit ==
  /\ entry \in Entries /\ parts \in {{}, Numbers}
  /\ onMd = << >> /\ made = 0
  /\ upload = [n \in Numbers |-> "none"]
  /\ edit = [c \in Copies |-> NoEdit]
  /\ doom = [c \in Copies |-> "none"]
  /\ waiting = {} /\ whole = FALSE
  /\ clerk = [k \in Clerks |-> Free]
  /\ changes = 0 /\ failures = 0

Failure == failures < MaxFailures /\ failures' = failures + 1

-----------------------------------------------------------------------------
(* The publisher, and the runs of its extension.                           *)
Reissue(numbers) ==
  /\ numbers # entry /\ changes < MaxChanges /\ changes' = changes + 1
  /\ entry' = numbers
  /\ UNCHANGED <<parts, mdVars, rowVars, reportVars, clerk, failures>>

(* A run settles.  A CLEAN one has the listing; an UPDATE names what its   *)
(* extension flags as new, or part of it.                                  *)
Settles(numbers, clean) ==
  /\ waiting = {} /\ numbers # {} /\ numbers \subseteq entry /\ (clean => numbers = entry)
  /\ waiting' = numbers /\ whole' = clean
  /\ UNCHANGED <<entry, parts, mdVars, rowVars, clerk, changes, failures>>

-----------------------------------------------------------------------------
(* claimRun: no lease, only the date of its last claim.  Another processor *)
(* may take the same run.                                                  *)
ClaimRun(k) ==
  /\ clerk[k].at = "idle" /\ waiting # {}
  /\ clerk' = [clerk EXCEPT ![k] = [Free EXCEPT !.at = "read", !.says = waiting, !.its = TRUE]]
  /\ UNCHANGED <<entry, parts, mdVars, rowVars, reportVars, changes, failures>>

(* chaptersForManga                                                        *)
ChaptersForManga(k) ==
  /\ clerk[k].at = "read"
  /\ clerk' = [clerk EXCEPT ![k].at = "decide", ![k].seen = onMd]
  /\ UNCHANGED <<entry, parts, mdVars, rowVars, reportVars, changes, failures>>

(* splitChapterIds: the run itself says so, or multi_chapters does.        *)
IsSplit(q) == Cardinality(q.says) > 1 \/ parts # {}

(* checkForDuplicate: the copy of the same number; else, when the entry is *)
(* one chapter, the first that chaptersForManga listed, the newest.        *)
Unmatched(q) == q.says \ Range(q.seen)
FirstMatch(q) == CHOOSE c \in DOMAIN q.seen : \A d \in DOMAIN q.seen : d <= c

ToUpload(q) == IF IsSplit(q) \/ q.seen = << >> THEN Unmatched(q) ELSE {}

(* Mutant: a number is no reason to edit.                                  *)
NeverEdits(q) == {}

(* buildEdit: of the fields it compares, the number.                       *)
ToEdit(q) ==
  IF ~IsSplit(q) /\ q.seen # << >> /\ Unmatched(q) # {} THEN {FirstMatch(q)} ELSE {}

(* Where processRun goes on when there is nothing left to do of one kind.  *)
FromUploads(q) == [q EXCEPT !.at = IF q.adds = {} THEN "dupes" ELSE "upload", !.todo = q.adds]
FromEdits(q)   == IF q.todo = {} THEN FromUploads(q) ELSE [q EXCEPT !.at = "edit"]

(* aggregateFor, which the run keeps, and decideForManga.                  *)
DecideForManga(k) ==
  /\ clerk[k].at = "decide"
  /\ LET q == clerk[k] IN clerk' = [clerk EXCEPT ![k] =
       FromEdits([q EXCEPT !.ids = DOMAIN onMd, !.adds = ToUpload(q), !.todo = ToEdit(q),
                           !.seen = << >>])]
  /\ UNCHANGED <<entry, parts, mdVars, rowVars, reportVars, changes, failures>>

(* enqueue of an EDIT: ON CONFLICT DO NOTHING, by the copy.                *)
EnqueueEdit(k, c) ==
  /\ clerk[k].at = "edit" /\ c \in clerk[k].todo
  /\ \E n \in clerk[k].says :
       edit' = IF edit[c] = NoEdit THEN [edit EXCEPT ![c] = [at |-> "pending", to |-> n]] ELSE edit
  /\ LET q == clerk[k] IN clerk' = [clerk EXCEPT ![k] = FromEdits([q EXCEPT !.todo = @ \ {c}])]
  /\ UNCHANGED <<entry, parts, mdVars, upload, doom, reportVars, changes, failures>>

(* enqueue of an UPLOAD: ON CONFLICT DO NOTHING, by the number.            *)
EnqueueUpload(k, n) ==
  /\ clerk[k].at = "upload" /\ n \in clerk[k].todo
  /\ upload' = [upload EXCEPT ![n] = IF @ = "none" THEN "pending" ELSE @]
  /\ clerk' = [clerk EXCEPT ![k].todo = @ \ {n},
                            ![k].at = IF clerk[k].todo = {n} THEN "supersede" ELSE "upload"]
  /\ UNCHANGED <<entry, parts, mdVars, edit, doom, reportVars, changes, failures>>

(* supersedeRenumbered: the entry's other PENDING uploads go.  Its failure *)
(* is swallowed.                                                           *)
SupersedeOthers(k) ==
  /\ clerk[k].at = "supersede"
  /\ clerk' = [clerk EXCEPT ![k].at = "dupes"]
  /\ \/ /\ upload' = [n \in Numbers |->
             IF upload[n] = "pending" /\ n \notin clerk[k].adds THEN "none" ELSE upload[n]]
        /\ UNCHANGED failures
     \/ Failure /\ UNCHANGED upload
  /\ UNCHANGED <<entry, parts, mdVars, edit, doom, reportVars, changes>>

(* Mutant: the copies that are not what the run reported go as well.       *)
SparedAsReported(k, cs, c) == onMd[c] \in clerk[k].says

(* findDuplicateChapters over the copies cs, the oldest first: of a link   *)
(* that is not declared the oldest is spared; a declared number is, while  *)
(* some declared number has not been met.                                  *)
IsSpared(k, cs, c) ==
  LET older == {e \in cs : e < c} IN
  \/ Cardinality(cs) = 1
  \/ parts = {} /\ older = {}
  \/ onMd[c] \in parts /\ ~(parts \subseteq {onMd[e] : e \in older})

(* deleteDuplicates: chaptersByIds of the ids the aggregate had.           *)
FindDuplicates(k) ==
  LET cs == clerk[k].ids \cap DOMAIN onMd
      surplus == {c \in cs : ~IsSpared(k, cs, c)}
  IN /\ clerk[k].at = "dupes"
     /\ clerk' = [clerk EXCEPT ![k].at = IF surplus = {} THEN "mark" ELSE "delete",
                               ![k].todo = surplus]
     /\ UNCHANGED <<entry, parts, mdVars, rowVars, reportVars, changes, failures>>

EnqueueDelete(k, c) ==
  /\ clerk[k].at = "delete" /\ c \in clerk[k].todo
  /\ doom' = [doom EXCEPT ![c] = IF @ = "none" THEN "pending" ELSE @]
  /\ clerk' = [clerk EXCEPT ![k].todo = @ \ {c},
                            ![k].at = IF clerk[k].todo = {c} THEN "mark" ELSE "delete"]
  /\ UNCHANGED <<entry, parts, mdVars, upload, edit, reportVars, changes, failures>>

(* markProcessed: the run may have been marked by another, and be gone.    *)
MarkProcessed(k) ==
  /\ clerk[k].at = "mark"
  /\ IF clerk[k].its
     THEN /\ waiting' = {} /\ whole' = FALSE
          /\ clerk' = [l \in Clerks |-> IF l = k THEN Free ELSE [clerk[l] EXCEPT !.its = FALSE]]
     ELSE /\ clerk' = [clerk EXCEPT ![k] = Free]
          /\ UNCHANGED reportVars
  /\ UNCHANGED <<entry, parts, mdVars, rowVars, changes, failures>>

(* A call throws, or the process dies: the run stays INGESTING.            *)
Breaks(k) ==
  /\ clerk[k].at # "idle" /\ Failure
  /\ clerk' = [clerk EXCEPT ![k] = Free]
  /\ UNCHANGED <<entry, parts, mdVars, rowVars, reportVars, changes>>

-----------------------------------------------------------------------------
(* The uploader: one row of the entry at a time.  A DELETE may lack the    *)
(* entry's id, and is not held by the interlock.                           *)
NoneLeased == \A n \in Numbers : upload[n] # "leased"

LeaseUpload(n) ==
  /\ NoneLeased /\ upload[n] = "pending"
  /\ upload' = [upload EXCEPT ![n] = "leased"]
  /\ UNCHANGED <<entry, parts, mdVars, edit, doom, reportVars, clerk, changes, failures>>

(* runUpload                                                               *)
CommitUpload(n) ==
  /\ upload[n] = "leased"
  /\ upload' = [upload EXCEPT ![n] = "done"]
  /\ made' = made + 1
  /\ onMd' = [c \in DOMAIN onMd \cup {made + 1} |-> IF c = made + 1 THEN n ELSE onMd[c]]
  /\ UNCHANGED <<entry, parts, edit, doom, reportVars, clerk, changes, failures>>

(* runEdit: a copy that is gone fails it, time after time.                 *)
RunEdit(c) ==
  /\ NoneLeased /\ edit[c].at = "pending"
  /\ edit' = [edit EXCEPT ![c].at = IF c \in DOMAIN onMd THEN "done" ELSE "dead"]
  /\ onMd' = [e \in DOMAIN onMd |-> IF e = c THEN edit[c].to ELSE onMd[e]]
  /\ UNCHANGED <<entry, parts, made, upload, doom, reportVars, clerk, changes, failures>>

(* runDelete                                                               *)
RunDelete(c) ==
  /\ doom[c] = "pending"
  /\ doom' = [doom EXCEPT ![c] = "done"]
  /\ onMd' = Restrict(onMd, DOMAIN onMd \ {c})
  /\ UNCHANGED <<entry, parts, made, upload, edit, reportVars, clerk, changes, failures>>

-----------------------------------------------------------------------------
ClerkStep(k) ==
  \/ ClaimRun(k) \/ ChaptersForManga(k) \/ DecideForManga(k)
  \/ SupersedeOthers(k) \/ FindDuplicates(k) \/ MarkProcessed(k)
  \/ \E c \in Copies : EnqueueEdit(k, c) \/ EnqueueDelete(k, c)
  \/ \E n \in Numbers : EnqueueUpload(k, n)

Drain ==
  \/ \E n \in Numbers : LeaseUpload(n) \/ CommitUpload(n)
  \/ \E c \in Copies : RunEdit(c) \/ RunDelete(c)

IntakeNext ==
  \/ \E numbers \in Entries : Reissue(numbers)
  \/ \E numbers \in SUBSET Numbers, clean \in BOOLEAN : Settles(numbers, clean)
  \/ \E k \in Clerks : ClerkStep(k) \/ Breaks(k)
  \/ Drain

IntakeSpec == IntakeInit /\ [][IntakeNext]_intakeVars

(* A processor that runs goes on, and the uploader drains its queue.       *)
IntakeFairness == WF_intakeVars(Drain) /\ \A k \in Clerks : WF_intakeVars(ClerkStep(k))
-----------------------------------------------------------------------------
RowStates == {"none", "pending", "leased", "done"}
IntakeTypeOK ==
  /\ entry \in Entries /\ parts \subseteq Numbers
  /\ made \in 0..Cardinality(Numbers)
  /\ DOMAIN onMd \subseteq 1..made /\ Range(onMd) \subseteq Numbers
  /\ upload \in [Numbers -> RowStates]
  /\ edit \in [Copies -> [at : {"none", "pending", "done", "dead"}, to : Numbers \cup {0}]]
  /\ doom \in [Copies -> RowStates \ {"leased"}]
  /\ waiting \subseteq Numbers /\ whole \in BOOLEAN
  /\ changes \in 0..MaxChanges /\ failures \in 0..MaxFailures
  /\ \A k \in Clerks :
       /\ clerk[k].at \in {"idle", "read", "decide", "edit", "upload", "supersede", "dupes",
                           "delete", "mark"}
       /\ (clerk[k].at = "idle") = (clerk[k].says = {})
       /\ clerk[k].ids \subseteq Copies /\ clerk[k].adds \subseteq clerk[k].says

(* An entry that was published stays published: between the processors,    *)
(* each with its own and older sight of MangaDex, some copy is spared.     *)
EntryStays == made > 0 => onMd # << >>

(* The types, and an entry that does not vanish.                           *)
IntakeInv == IntakeTypeOK /\ EntryStays

(* While whole listings go on being processed, what is on MangaDex should  *)
(* become what the publisher has, and no more: every part of a declared    *)
(* split has one copy, and a chapter has one, whoever raced.               *)
Sweeping == waiting # {} /\ whole
CopiesOf(n) == {c \in DOMAIN onMd : onMd[c] = n}
OneEach ==
  IF parts # {} THEN \A n \in entry : Cardinality(CopiesOf(n)) = 1
                ELSE Cardinality(DOMAIN onMd) = 1

(* And it has the number the publisher gives it.  That needs one processor *)
(* and one change: a copy is edited once.                                  *)
RightNumber == entry \subseteq Range(onMd)
=============================================================================
