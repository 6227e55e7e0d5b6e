----------------------------- MODULE Duplicates -----------------------------
(***************************************************************************)
(* Copies of one chapter on MangaDex, and the three passes that delete all *)
(* but one: the operator's scan of a group or of a series                  *)
(* (src/core/md/duplicateScan.ts) and the pass at the end of every run     *)
(* (deleteDuplicates, src/core/processor/processor.ts).  They share the    *)
(* decision of src/core/processor/dedupe.ts and nothing else: each reads   *)
(* MangaDex, decides, and queues one copy at a time, while the others and  *)
(* the uploader go on.                                                     *)
(*                                                                         *)
(* The copies are the bot's, in its group, in one language and with one    *)
(* link; 1 is the oldest.                                                  *)
(***************************************************************************)
EXTENDS Integers, FiniteSets

CONSTANTS
  Copies,      \* 1..n, in the order of createdAt
  NumberOf,    \* the chapter number of a copy
  Overrides,   \* what multi_chapters may declare for the link: sets of numbers
  Passes,      \* passes under way at one time
  Nobody,
  MaxMishaps   \* bounds the failures and what operators do

ASSUME DuplicatesAssumption ==
  /\ Copies \subseteq Nat /\ IsFiniteSet(Copies) /\ Nobody \notin Copies
  /\ MaxMishaps \in Nat

VARIABLES
  copy,        \* MangaDex: "none" (yet), "live", "carded", "gone"
  comments,    \* MangaDex: the copies that have comments
  remembered,  \* chapter_comment_count: copies found to have comments
  books,       \* uploaded_chapters
  removal,     \* the copy's DELETE row: "none", "pending", "leased", "done", "dead"
  hand,        \* the copy the uploader is at
  pass,        \* where each pass is, with what it holds
  dated,       \* MangaDex supplies createdAt
  declared,    \* multi_chapters for this link; {} when it is not in there
  mishaps

duplicatesVars ==
  <<copy, comments, remembered, books, removal, hand, pass, dated, declared, mishaps>>

NoPass == [at |-> "idle", kind |-> "whole", doomed |-> {}, half |-> Nobody, discussed |-> {}]

DuplicatesInit ==
  /\ copy \in [Copies -> {"none", "live"}]
  /\ \A c, later \in Copies : c < later /\ copy[later] = "live" => copy[c] = "live"
  /\ comments \in SUBSET {c \in Copies : copy[c] = "live"} /\ remembered = {}
  /\ books = {c \in Copies : copy[c] = "live"}
  /\ removal = [c \in Copies |-> "none"] /\ hand = Nobody
  /\ pass = [p \in Passes |-> NoPass]
  /\ dated \in BOOLEAN /\ declared \in Overrides
  /\ mishaps = 0

Mishap == mishaps < MaxMishaps /\ mishaps' = mishaps + 1

(* Mutant: the scoped fetch is left as it came.                            *)
AsItCame(kind, e, c) == IF dated \/ kind = "whole" THEN e < c ELSE e > c

(* Whether a pass meets copy e before copy c: findDuplicateChapters goes   *)
(* by createdAt, or as the listing came.  chaptersForGroup asks for the    *)
(* oldest first, the scoped scan reverses chaptersForManga, and a run's    *)
(* chaptersByIds comes newest first.                                       *)
Before(kind, e, c) == IF dated \/ kind # "run" THEN e < c ELSE e > c

(* A declared number is spared as long as some declared number has not     *)
(* been seen; of a link that is not declared the first copy is spared.     *)
Spared(kind, cs, c) ==
  LET seen == {NumberOf[e] : e \in {e \in cs : Before(kind, e, c)}} IN
  IF declared = {} THEN seen = {} ELSE NumberOf[c] \in declared /\ ~(declared \subseteq seen)

(* findDuplicateChapters                                                   *)
FindDuplicateChapters(kind, cs) ==
  IF Cardinality(cs) <= 1 THEN {} ELSE {c \in cs : ~Spared(kind, cs, c)}

Live == {c \in Copies : copy[c] = "live"}

(* chaptersFor and the decision of scanGroup; deleteDuplicates up to it.   *)
(* A run asks nobody about comments.                                       *)
ReadCopies(p, kind) ==
  LET doomed == FindDuplicateChapters(kind, Live) IN
  /\ pass[p].at = "idle" /\ doomed # {}
  /\ pass' = [pass EXCEPT ![p] =
       [at |-> IF kind = "run" THEN "queue" ELSE "ask", kind |-> kind, doomed |-> doomed,
        half |-> Nobody, discussed |-> {}]]
  /\ UNCHANGED <<copy, comments, remembered, books, removal, hand, dated, declared, mishaps>>

(* Mutant: what MangaDex did not answer for counts as no comments.         *)
HeldUnheard(p) == remembered

(* When MangaDex will not say, everything not remembered is held as well.  *)
HeldWhenUnanswered(p) == pass[p].doomed

Settled(q, held) ==
  LET left == q.doomed \ held IN
  IF left = {} THEN NoPass ELSE [q EXCEPT !.at = "queue", !.doomed = left]

(* commentCounts: the remembered positives first, then chapterStatistics   *)
(* for the rest; the new positives are remembered, unless that fails.      *)
Ask(p) ==
  LET asked == pass[p].doomed \ remembered
      found == asked \cap comments
      q     == [pass[p] EXCEPT !.discussed = comments \cup remembered]
  IN /\ pass[p].at = "ask"
     /\ \/ /\ pass' = [pass EXCEPT ![p] = Settled(q, remembered \cup found)]
           /\ remembered' = remembered \cup found /\ UNCHANGED mishaps
        \/ /\ pass' = [pass EXCEPT ![p] = Settled(q, remembered \cup found)]
           /\ found # {} /\ Mishap /\ UNCHANGED remembered
        \/ /\ pass' = [pass EXCEPT ![p] = Settled(q, HeldWhenUnanswered(p))]
           /\ asked # {} /\ Mishap /\ UNCHANGED remembered
     /\ UNCHANGED <<copy, comments, books, removal, hand, dated, declared>>

Without(q, c) ==
  IF q.doomed = {c} THEN NoPass
  ELSE [q EXCEPT !.at = "queue", !.doomed = @ \ {c}, !.half = Nobody]

(* Mutants: a row is rearmed whatever its state; or never.                 *)
RearmsAny(c) == TRUE
RearmsNone(c) == removal[c] = "none"

(* requeueForChapter: inserts, or rearms a row that has settled.           *)
Rearms(c) == removal[c] \in {"none", "done", "dead"}

(* queueDelete.  A statement that fails is reported and passed over.       *)
QueueDelete(p, c) ==
  /\ pass[p].at = "queue" /\ pass[p].kind # "run" /\ c \in pass[p].doomed
  /\ pass' = [pass EXCEPT ![p] = Without(@, c)]
  /\ \/ /\ removal' = IF Rearms(c) THEN [removal EXCEPT ![c] = "pending"] ELSE removal
        /\ UNCHANGED mishaps
     \/ Mishap /\ UNCHANGED removal
  /\ UNCHANGED <<copy, comments, remembered, books, hand, dated, declared>>

(* enqueueRemovals of the processor: ON CONFLICT DO NOTHING, and the row   *)
(* of uploaded_chapters goes in a second statement.                        *)
EnqueueRemoval(p, c) ==
  /\ pass[p].at = "queue" /\ pass[p].kind = "run" /\ c \in pass[p].doomed
  /\ removal' = IF removal[c] = "none" THEN [removal EXCEPT ![c] = "pending"] ELSE removal
  /\ pass' = [pass EXCEPT ![p].at = "unrecord", ![p].half = c]
  /\ UNCHANGED <<copy, comments, remembered, books, hand, dated, declared, mishaps>>

DropRow(p) ==
  /\ pass[p].at = "unrecord"
  /\ pass' = [pass EXCEPT ![p] = Without(@, @.half)]
  /\ books' = books \ {pass[p].half}
  /\ UNCHANGED <<copy, comments, remembered, removal, hand, dated, declared, mishaps>>

PassDies(p) ==
  /\ pass[p].at # "idle" /\ Mishap
  /\ pass' = [pass EXCEPT ![p] = NoPass]
  /\ UNCHANGED <<copy, comments, remembered, books, removal, hand, dated, declared>>

(* The uploader, one DELETE at a time; Uploader has its steps.             *)
LeaseRemoval(c) ==
  /\ hand = Nobody /\ removal[c] = "pending"
  /\ hand' = c /\ removal' = [removal EXCEPT ![c] = "leased"]
  /\ UNCHANGED <<copy, comments, remembered, books, pass, dated, declared, mishaps>>

Delete ==
  /\ hand # Nobody /\ hand' = Nobody
  /\ \/ /\ copy' = [copy EXCEPT ![hand] = "gone"] /\ books' = books \ {hand}
        /\ removal' = [removal EXCEPT ![hand] = "done"] /\ UNCHANGED mishaps
     \/ /\ removal' = [removal EXCEPT ![hand] = "dead"] /\ Mishap
        /\ UNCHANGED <<copy, books>>
  /\ UNCHANGED <<comments, remembered, pass, dated, declared>>

(* A copy is uploaded, carded by a removal, commented on; a comment is     *)
(* taken down.                                                             *)
Upload(c) ==
  /\ copy[c] = "none" /\ \A e \in Copies : e < c => copy[e] # "none"
  /\ copy' = [copy EXCEPT ![c] = "live"] /\ books' = books \cup {c}
  /\ UNCHANGED <<comments, remembered, removal, hand, pass, dated, declared, mishaps>>

Card(c) ==
  /\ copy[c] = "live" /\ Mishap
  /\ copy' = [copy EXCEPT ![c] = "carded"] /\ books' = books \ {c}
  /\ UNCHANGED <<comments, remembered, removal, hand, pass, dated, declared>>

Comment(c) ==
  /\ copy[c] = "live" /\ Mishap
  /\ comments' = IF c \in comments THEN comments \ {c} ELSE comments \cup {c}
  /\ UNCHANGED <<copy, remembered, books, removal, hand, pass, dated, declared>>

PassStep(p) ==
  \/ Ask(p) \/ DropRow(p)
  \/ \E c \in Copies : QueueDelete(p, c) \/ EnqueueRemoval(p, c)

UploaderStep == Delete \/ \E c \in Copies : LeaseRemoval(c)

DuplicatesNext ==
  \/ \E p \in Passes : \/ \E kind \in {"whole", "scoped", "run"} : ReadCopies(p, kind)
                       \/ PassStep(p) \/ PassDies(p)
  \/ UploaderStep
  \/ \E c \in Copies : Upload(c) \/ Card(c) \/ Comment(c)

DuplicatesSpec == DuplicatesInit /\ [][DuplicatesNext]_duplicatesVars

(* A pass that has begun goes on; the uploader drains its queue.           *)
DuplicatesFairness ==
  /\ \A p \in Passes : WF_duplicatesVars(PassStep(p))
  /\ WF_duplicatesVars(UploaderStep)
-----------------------------------------------------------------------------
(* The types, and: the row the uploader holds is LEASED and no other is,   *)
(* whatever the passes queue meanwhile.                                    *)
DuplicatesTypeOK ==
  /\ copy \in [Copies -> {"none", "live", "carded", "gone"}]
  /\ comments \subseteq Copies /\ remembered \subseteq Copies /\ books \subseteq Copies
  /\ removal \in [Copies -> {"none", "pending", "leased", "done", "dead"}]
  /\ {c \in Copies : removal[c] = "leased"} = {hand} \ {Nobody}
  /\ \A p \in Passes : pass[p].at \in {"idle", "ask", "queue", "unrecord"}
  /\ dated \in BOOLEAN /\ declared \in Overrides /\ mishaps \in 0..MaxMishaps

(* However the passes interleave, and whatever each had read, they do not  *)
(* between them delete every copy: one stays of the link, and one of each  *)
(* number that multi_chapters declares.                                    *)
Stays(cs) == (\E c \in cs : copy[c] # "none") => \E c \in cs : copy[c] \in {"live", "carded"}
LastCopyStays ==
  IF declared = {} THEN Stays(Copies)
  ELSE \A n \in declared : Stays({c \in Copies : NumberOf[c] = n})

(* The types of the passes, and a copy that outlives them.                 *)
DuplicatesInv == DuplicatesTypeOK /\ LastCopyStays

(* A scan queues no copy that had comments when it asked, or of which an   *)
(* earlier scan remembered some: not when MangaDex does not answer, nor    *)
(* when the remembering failed.                                            *)
DiscussedIsKept == [][\A p \in Passes, c \in Copies :
  /\ pass[p].at = "queue" /\ pass[p].kind # "run"
  /\ c \in pass[p].doomed \ pass'[p].doomed
  /\ removal[c] # "pending" /\ removal'[c] = "pending"
  => c \notin pass[p].discussed]_duplicatesVars

(* While scans go on, no copy without comments stays a duplicate for ever, *)
(* though its deletion failed before.                                      *)
Surplus(c) ==
  /\ declared = {} /\ dated /\ copy[c] = "live" /\ c \notin comments \cup remembered
  /\ \E e \in Copies : e < c /\ copy[e] = "live"
EveryDuplicateGoes ==
  \A c \in Copies : []<>(\E p \in Passes : pass[p].at = "ask") => ~<>[]Surplus(c)
=============================================================================
