--------------------------- MODULE Upkeep_proofs ----------------------------
(***************************************************************************)
(* Proofs about what puts the catalogue right: the rebuilding of the       *)
(* chapter tables (Reconcile.tla).                                         *)
(***************************************************************************)
EXTENDS Duplicates, Reconcile, FiniteSetTheorems, WellFoundedInduction, TLAPS

(* A set of naturals that is not empty has a least, and a finite one a     *)
(* greatest, element.                                                      *)
LEMMA Least ==
  ASSUME NEW T \in SUBSET Nat, T # {}
  PROVE  \E m \in T : \A n \in T : m <= n
<1>1. PICK m \in T : \A n \in T : ~ (<<n, m>> \in OpToRel(<, Nat))
  BY WFMin, NatLessThanWellFounded
<1>2. \A n \in T : ~(n < m)
  BY <1>1 DEF OpToRel
<1> QED  BY <1>2

LEMMA Greatest ==
  ASSUME NEW S \in SUBSET Nat, IsFiniteSet(S), S # {}
  PROVE  \E m \in S : \A n \in S : n <= m
<1> DEFINE Above(i) == {j \in S : j > i}
           T == {Cardinality(Above(i)) : i \in S}
<1>1. ASSUME NEW i
      PROVE  IsFiniteSet(Above(i)) /\ Cardinality(Above(i)) \in Nat
  BY FS_Subset, FS_CardinalityType
<1>2. T \in SUBSET Nat /\ T # {}
  BY <1>1
<1>3. PICK l \in T : \A n \in T : l <= n
  <2> HIDE DEF T
  <2> QED  BY <1>2, Least
<1>4. PICK m \in S : l = Cardinality(Above(m))
  BY <1>3
<1>5. ASSUME NEW n \in S PROVE n <= m
  <2>1. SUFFICES ASSUME n > m PROVE FALSE
    OBVIOUS
  <2> HIDE DEF T
  <2>2. \A j \in Above(n) : j \in S /\ j > m
    <3>1. \A j \in S : j > n => j > m
      BY <2>1
    <3> QED  BY <3>1
  <2>3. Above(n) \subseteq Above(m) /\ n \in Above(m) /\ n \notin Above(n)
    <3>1. \A j \in Above(n) : j \in Above(m)
      BY <2>2
    <3>2. n \in Above(m)
      BY <2>1
    <3>3. ~(n > n)
      OBVIOUS
    <3> QED  BY <3>1, <3>2, <3>3
  <2>4. Cardinality(Above(n)) \in T
    BY DEF T
  <2> HIDE DEF Above
  <2>5. Cardinality(Above(n)) <= Cardinality(Above(m)) /\ Cardinality(Above(n)) # Cardinality(Above(m))
    BY <1>1, <2>3, FS_Subset
  <2> QED  BY <1>1, <1>3, <1>4, <2>4, <2>5
<1> QED  BY <1>5
-----------------------------------------------------------------------------
(***************************************************************************)
(* The rebuilding, for any chapters and groups, any size of a batch, any   *)
(* number of passes under way and whatever goes wrong.  What is true of    *)
(* one pass is said of the record it is.                                   *)
(***************************************************************************)
PassType == [at : {"idle", "start", "walk", "served", "archive", "file", "missing",
                   "adopt", "page", "sweep", "check", "finish"},
             seen : SUBSET Entries, pick : SUBSET Entries, todo : SUBSET Entries,
             cursor : Entries \cup {0}, item : Entries \cup {Nil},
             verdict : {"none", "unavailable", "deleted"}, back : {"idle", "archive", "sweep"},
             quiet : BOOLEAN, had : SUBSET Entries, walked : BOOLEAN]

RebuildTypes ==
  /\ entry \in [Entries -> {"live", "hidden", "carded", "gone"}]
  /\ uploaded \in SUBSET Entries /\ unavailable \in SUBSET Entries /\ deleted \in SUBSET Entries
  /\ fate \in [Entries -> {"none", "queued", "written", "filed", "over"}]
  /\ settingsRow \in [says : {"idle", "running", "done", "failed"}, stale : BOOLEAN]
  /\ work \in [Clicks -> PassType] /\ turns \in 0..MaxTurns

(* A chapter is never taken down twice over, and what an archive holds is  *)
(* not served again.                                                       *)
Over(i) == entry[i] \in {"carded", "gone"}
ArchivesAreTrue ==
  /\ \A i \in Entries : fate[i] = "queued" => entry[i] = "live"
  /\ \A i \in Archived : Over(i)
  /\ \A i \in deleted : entry[i] = "gone"

(* What a pass has in hand was so when it was read, and is still.          *)
Filing(q) == q.at = "archive" \/ (q.at = "file" /\ q.back = "archive")
Sweeping(q) == q.at \in {"page", "sweep", "check", "finish"} \/ (q.at = "file" /\ q.back = "sweep")
InHand(q) ==
  /\ q.at \in {"file", "check"} <=> q.item # Nil
  /\ q.item # Nil => /\ q.item \in q.todo /\ Over(q.item) /\ q.verdict \in {"unavailable", "deleted"}
                     /\ q.verdict = "deleted" => entry[q.item] = "gone"
  /\ q.at = "file" => q.back \in {"archive", "sweep"}
  /\ Filing(q) => \A i \in q.todo : Over(i)
  /\ q.at = "served" => \A i \in q.pick : Over(i)

(* What a pass during which nothing else moved has made of the tables.     *)
LiveGrouped == {i \in Grouped : entry[i] = "live"}
Walked(q) ==
  /\ q.at = "walk" => q.walked
  /\ ~q.walked => Sweeping(q) /\ q.seen = {}
  /\ q.walked /\ q.at # "walk" => q.seen = {i \in Grouped : entry[i] # "gone"}
  /\ q.at = "served" => q.pick = {i \in q.seen : entry[i] = "carded"}
Filed1(q) ==
  /\ Filing(q) \/ q.at = "missing" => q.pick = LiveGrouped
  /\ Filing(q) => \A i \in q.seen : entry[i] = "carded" => i \in Archived \cup q.todo
  /\ q.at \in {"missing", "adopt"} \/ Sweeping(q) =>
       \A i \in q.seen : entry[i] = "carded" => i \in Archived
Adopted(q) ==
  /\ q.at = "adopt" => LiveGrouped \subseteq uploaded \cup q.todo /\ \A i \in q.todo : entry[i] = "live"
  /\ Sweeping(q) /\ q.walked => LiveGrouped \subseteq uploaded
Swept(q) ==
  /\ ~Sweeping(q) => q.cursor = 0
  /\ q.at \in {"page", "finish"} => q.todo = {}
  /\ Sweeping(q) => \A i \in uploaded \ Archived : i <= q.cursor /\ i \notin q.todo \ q.seen => ~Over(i)
  /\ q.at = "finish" => \A i \in uploaded \ Archived : ~Over(i)
Steady(q) ==
  /\ q.at \notin {"idle", "start"} /\ q.had \subseteq uploaded \cup Archived
  /\ Walked(q) /\ Filed1(q) /\ Adopted(q) /\ Swept(q)

(* A quiet pass has none but quiet ones beside it.                         *)
QuietTogether ==
  \A c \in Clicks : work[c].quiet =>
    /\ \A i \in Entries : fate[i] \in {"none", "over"}
    /\ \A e \in Clicks : work[e].at \in {"idle", "start"} \/ work[e].quiet

RInv ==
  /\ RebuildTypes /\ ArchivesAreTrue /\ QuietTogether
  /\ \A c \in Clicks : InHand(work[c]) /\ (work[c].quiet => Steady(work[c]))

LEMMA ReconcileShapes ==
  ASSUME RInv
  PROVE  /\ RebuildTypes /\ ArchivesAreTrue /\ QuietTogether /\ Archived \subseteq Entries
         /\ Grouped \subseteq Entries /\ Entries \subseteq Nat \ {0} /\ MaxTurns \in Nat /\ Nil \notin Entries
         /\ \A c \in Clicks : /\ work[c] \in PassType /\ InHand(work[c])
                              /\ work[c].quiet => Steady(work[c])
         /\ NoWork \in PassType /\ NoWork.at = "idle" /\ ~NoWork.quiet /\ NoWork.item = Nil
         /\ NoWork.todo = {} /\ NoWork.seen = {} /\ NoWork.cursor = 0
<1>1. NoWork \in PassType
  BY DEF NoWork, PassType
<1>2. NoWork.at = "idle" /\ ~NoWork.quiet /\ NoWork.item = Nil /\ NoWork.todo = {} /\ NoWork.seen = {} /\ NoWork.cursor = 0
  BY DEF NoWork
<1>3. Archived \subseteq Entries /\ \A c \in Clicks : work[c] \in PassType
  BY DEF RInv, RebuildTypes, Archived
<1> QED  BY <1>1, <1>2, <1>3, ReconcileAssumption DEF RInv

(* A pass that is not under way has nothing in hand.                       *)
LEMMA IdleInHand ==
  ASSUME NEW q, q.at \in {"idle", "start"}, q.item = Nil
  PROVE  InHand(q)
  BY DEF InHand, Filing

(* What quiet passes may do to the tables leaves what a pass relies on.    *)
LEMMA SteadyStays ==
  ASSUME NEW q, Steady(q), entry' = entry, Archived \subseteq Archived',
         \A i \in uploaded : i \in uploaded' \/ (i \in Archived' /\ Over(i)),
         \A i \in uploaded' \ uploaded : entry[i] = "live"
  PROVE  Steady(q)'
<1>1. q.had \subseteq uploaded' \cup Archived'
  BY DEF Steady
<1>2. \A i \in uploaded : entry[i] = "live" => i \in uploaded'
  BY DEF Over
<1>3. LiveGrouped' = LiveGrouped /\ \A i : Over(i)' = Over(i)
  BY DEF LiveGrouped, Over
<1>4. Walked(q)' /\ Filed1(q)'
  BY <1>3 DEF Steady, Walked, Filed1, Filing, Sweeping
<1>5. Adopted(q)'
  BY <1>2, <1>3 DEF Steady, Adopted, LiveGrouped, Sweeping
<1>6. Swept(q)'
  BY <1>3 DEF Steady, Swept, Sweeping, Over
<1> QED  BY <1>1, <1>4, <1>5, <1>6 DEF Steady

(* A step of one pass.                                                     *)
LEMMA OnePass ==
  ASSUME RInv, NEW c \in Clicks, NEW p \in PassType, work' = [work EXCEPT ![c] = p],
         entry' = entry, Archived \subseteq Archived',
         \A i \in uploaded : i \in uploaded' \/ (i \in Archived' /\ Over(i)),
         (\E e \in Clicks : work[e].quiet) => \A i \in uploaded' \ uploaded : entry[i] = "live",
         RebuildTypes', ArchivesAreTrue', QuietTogether', InHand(p)', p.quiet => Steady(p)'
  PROVE  RInv'
<1>1. work'[c] = p /\ \A e \in Clicks \ {c} : work'[e] = work[e]
  BY DEF RInv, RebuildTypes
<1>2. ASSUME NEW e \in Clicks, NEW q, q = work'[e]
      PROVE  InHand(q)' /\ (q.quiet => Steady(q)')
  <2>1. CASE e = c
    BY <1>1, <1>2, <2>1
  <2>2. CASE e # c
    <3>1. q = work[e]
      BY <1>1, <1>2, <2>2
    <3>2. InHand(q) /\ (q.quiet => Steady(q))
      BY <3>1, ReconcileShapes
    <3>3. InHand(q)'
      BY <3>2 DEF InHand, Filing, Over
    <3>4. ASSUME q.quiet PROVE Steady(q)'
      <4>1. \A i \in uploaded' \ uploaded : entry[i] = "live"
        BY <3>1, <3>4
      <4> QED  BY <3>2, <3>4, <4>1, SteadyStays
    <3> QED  BY <3>3, <3>4
  <2> QED  BY <2>1, <2>2
<1>3. \A e \in Clicks : InHand(work[e])' /\ (work'[e].quiet => Steady(work[e])')
  <2>1. ASSUME NEW e \in Clicks PROVE InHand(work[e])' /\ (work'[e].quiet => Steady(work[e])')
    <3>1. PICK q : q = work'[e]
      OBVIOUS
    <3>2. InHand(q)' /\ (q.quiet => Steady(q)')
      BY <1>2, <3>1
    <3> QED  BY <3>1, <3>2 DEF InHand, Filing, Over, Steady, Walked, Filed1, Adopted, Swept, Sweeping
  <2> QED  BY <2>1
<1> QED  BY <1>3 DEF RInv

(* A step of a pass under way that leaves the tables alone.                *)
LEMMA HandOnly ==
  ASSUME RInv, NEW c \in Clicks, NEW p \in PassType, Goes(c, p),
         entry' = entry, fate' = fate, turns' = turns,
         uploaded' = uploaded, unavailable' = unavailable, deleted' = deleted,
         work[c].at \notin {"idle", "start"}, p.at \notin {"idle", "start"}, p.quiet = work[c].quiet,
         InHand(p), p.quiet => Steady(p)
  PROVE  RInv'
<1>1. work' = [work EXCEPT ![c] = p] /\ settingsRow' = Running
  BY DEF Goes
<1>2. Archived' = Archived
  BY DEF Archived
<1>3. RebuildTypes'
  BY <1>1 DEF RInv, RebuildTypes, Running
<1>4. ArchivesAreTrue'
  BY <1>2 DEF RInv, ArchivesAreTrue, Over
<1>5. work'[c] = p /\ \A e \in Clicks \ {c} : work'[e] = work[e]
  BY <1>1 DEF RInv, RebuildTypes
<1>6. QuietTogether'
  <2>1. \A e \in Clicks : /\ work'[e].quiet = work[e].quiet
                          /\ work'[e].at \in {"idle", "start"} <=> work[e].at \in {"idle", "start"}
    BY <1>5
  <2> QED  BY <2>1 DEF RInv, QuietTogether
<1>7. InHand(p)'
  BY DEF InHand, Filing, Over
<1>8. p.quiet => Steady(p)'
  BY <1>2, SteadyStays
<1> QED  BY <1>1, <1>2, <1>3, <1>4, <1>6, <1>7, <1>8, OnePass

LEMMA WalkAllKeeps == ASSUME RInv, NEW c \in Clicks, WalkAll(c) PROVE RInv'
<1>1. PICK q \in PassType : /\ q = work[c] /\ q.at = "walk" /\ InHand(q) /\ (q.quiet => Steady(q))
  BY ReconcileShapes DEF WalkAll
<1>2. PICK all : all = {i \in Grouped : entry[i] # "gone"}
  OBVIOUS
<1>3. PICK cards : cards = {i \in all : entry[i] = "carded"}
  OBVIOUS
<1>4. PICK p : p = [q EXCEPT !.at = "served", !.seen = all, !.pick = cards]
  OBVIOUS
<1>5. all \subseteq Entries /\ cards \subseteq Entries
  BY <1>2, <1>3, ReconcileShapes
<1>6. /\ p \in PassType /\ p.at = "served" /\ p.seen = all /\ p.pick = cards
      /\ p.todo = q.todo /\ p.cursor = q.cursor /\ p.item = q.item /\ p.quiet = q.quiet
      /\ p.had = q.had /\ p.walked = q.walked
  BY <1>1, <1>4, <1>5 DEF PassType
<1>7. Goes(c, p)
  BY <1>1, <1>2, <1>3, <1>4 DEF WalkAll
<1>8. InHand(p)
  BY <1>1, <1>3, <1>6 DEF InHand, Filing, Over
<1>9. p.quiet => Steady(p)
  BY <1>1, <1>2, <1>3, <1>6 DEF Steady, Walked, Filed1, Adopted, Swept, Filing, Sweeping
<1> QED  BY <1>1, <1>6, <1>7, <1>8, <1>9, HandOnly DEF WalkAll, tables

LEMMA WalkServedKeeps == ASSUME RInv, NEW c \in Clicks, WalkServed(c) PROVE RInv'
<1>1. PICK q \in PassType : /\ q = work[c] /\ q.at = "served" /\ InHand(q) /\ (q.quiet => Steady(q))
  BY ReconcileShapes DEF WalkServed
<1>2. PICK live : live = {i \in q.seen \ q.pick : entry[i] \in {"live", "carded"}}
  OBVIOUS
<1>3. PICK p : p = [q EXCEPT !.at = "archive", !.todo = q.pick, !.pick = live]
  OBVIOUS
<1>4. live \subseteq Entries /\ q.pick \subseteq Entries
  BY <1>1, <1>2 DEF PassType
<1>5. /\ p \in PassType /\ p.at = "archive" /\ p.seen = q.seen /\ p.pick = live
      /\ p.todo = q.pick /\ p.cursor = q.cursor /\ p.item = q.item /\ p.quiet = q.quiet
      /\ p.had = q.had /\ p.walked = q.walked
  BY <1>1, <1>3, <1>4 DEF PassType
<1>6. Goes(c, p)
  BY <1>1, <1>2, <1>3 DEF WalkServed
<1>7. InHand(p)
  BY <1>1, <1>5 DEF InHand, Filing
<1>8. ASSUME p.quiet PROVE Steady(p)
  <2>1. /\ q.had \subseteq uploaded \cup Archived /\ q.walked /\ q.cursor = 0
        /\ q.seen = {i \in Grouped : entry[i] # "gone"}
        /\ q.pick = {i \in q.seen : entry[i] = "carded"}
    BY <1>1, <1>5, <1>8 DEF Steady, Walked, Swept, Sweeping
  <2>2. live = LiveGrouped
    BY <1>2, <2>1 DEF LiveGrouped
  <2> QED  BY <1>5, <2>1, <2>2 DEF Steady, Walked, Filed1, Adopted, Swept, Filing, Sweeping
<1> QED  BY <1>1, <1>5, <1>6, <1>7, <1>8, HandOnly DEF WalkServed, tables

(* What Checked makes of a pass: the chapter off its list, or in its hand. *)
LEMMA CheckedIs ==
  ASSUME RInv, NEW q \in PassType, NEW i \in q.todo, NEW verdict \in {"unavailable", "deleted"},
         NEW back \in {"archive", "sweep"}
  PROVE  \E p \in PassType :
           /\ p = Checked(q, i, verdict, back)
           /\ p.seen = q.seen /\ p.pick = q.pick /\ p.cursor = q.cursor /\ p.quiet = q.quiet
           /\ p.had = q.had /\ p.walked = q.walked
           /\ \/ i \in Archived /\ p.at = q.at /\ p.todo = q.todo \ {i} /\ p.item = q.item
              \/ /\ i \notin Archived /\ p.at = "file" /\ p.todo = q.todo /\ p.item = i
                 /\ p.verdict = verdict /\ p.back = back
<1>1. i \in Entries
  BY DEF PassType
<1>2. CASE i \in Archived
  <2>1. PICK p : p = [q EXCEPT !.todo = q.todo \ {i}]
    OBVIOUS
  <2>2. p = Checked(q, i, verdict, back)
    BY <1>2, <2>1 DEF Checked
  <2>3. p \in PassType
    BY <2>1 DEF PassType
  <2>4. /\ p.seen = q.seen /\ p.pick = q.pick /\ p.cursor = q.cursor /\ p.quiet = q.quiet
        /\ p.had = q.had /\ p.walked = q.walked /\ p.at = q.at /\ p.todo = q.todo \ {i} /\ p.item = q.item
    BY <2>1 DEF PassType
  <2> QED  BY <1>2, <2>2, <2>3, <2>4
<1>3. CASE i \notin Archived
  <2>1. PICK p : p = [q EXCEPT !.at = "file", !.item = i, !.verdict = verdict, !.back = back]
    OBVIOUS
  <2>2. p = Checked(q, i, verdict, back)
    BY <1>3, <2>1 DEF Checked
  <2>3. p \in PassType
    BY <1>1, <2>1 DEF PassType
  <2>4. /\ p.seen = q.seen /\ p.pick = q.pick /\ p.cursor = q.cursor /\ p.quiet = q.quiet
        /\ p.had = q.had /\ p.walked = q.walked /\ p.at = "file" /\ p.todo = q.todo /\ p.item = i
        /\ p.verdict = verdict /\ p.back = back
    BY <2>1 DEF PassType
  <2> QED  BY <1>3, <2>2, <2>3, <2>4
<1> QED  BY <1>2, <1>3

LEMMA ArchiveNextKeeps == ASSUME RInv, NEW c \in Clicks, ArchiveNext(c) PROVE RInv'
<1>1. PICK q \in PassType : /\ q = work[c] /\ q.at = "archive" /\ InHand(q) /\ (q.quiet => Steady(q))
  BY ReconcileShapes DEF ArchiveNext
<1>2. q.item = Nil /\ \A i \in q.todo : Over(i)
  BY <1>1 DEF InHand, Filing
<1>3. CASE q.todo = {}
  <2>1. PICK p : p = [q EXCEPT !.at = "missing"]
    OBVIOUS
  <2>2. /\ p \in PassType /\ p.at = "missing" /\ p.seen = q.seen /\ p.pick = q.pick
        /\ p.todo = q.todo /\ p.cursor = q.cursor /\ p.item = q.item /\ p.quiet = q.quiet
        /\ p.had = q.had /\ p.walked = q.walked
    BY <1>1, <2>1 DEF PassType
  <2>3. Goes(c, p)
    BY <1>1, <1>3, <2>1 DEF ArchiveNext
  <2>4. InHand(p)
    BY <1>2, <2>2 DEF InHand, Filing
  <2>5. p.quiet => Steady(p)
    BY <1>1, <1>3, <2>2 DEF Steady, Walked, Filed1, Adopted, Swept, Filing, Sweeping
  <2> QED  BY <1>1, <2>2, <2>3, <2>4, <2>5, HandOnly DEF ArchiveNext, tables
<1>4. CASE q.todo # {}
  <2>1. PICK i \in q.todo : Goes(c, Checked(q, i, "unavailable", "archive"))
    BY <1>1, <1>4 DEF ArchiveNext
  <2>2. PICK p \in PassType :
          /\ p = Checked(q, i, "unavailable", "archive")
          /\ p.seen = q.seen /\ p.pick = q.pick /\ p.cursor = q.cursor /\ p.quiet = q.quiet
          /\ p.had = q.had /\ p.walked = q.walked
          /\ \/ i \in Archived /\ p.at = q.at /\ p.todo = q.todo \ {i} /\ p.item = q.item
             \/ /\ i \notin Archived /\ p.at = "file" /\ p.todo = q.todo /\ p.item = i
                /\ p.verdict = "unavailable" /\ p.back = "archive"
    BY CheckedIs
  <2>3. i # Nil
    BY ReconcileShapes DEF PassType
  <2>4. InHand(p)
    BY <1>1, <1>2, <2>2, <2>3 DEF InHand, Filing
  <2>5. p.quiet => Steady(p)
    BY <1>1, <2>2 DEF Steady, Walked, Filed1, Adopted, Swept, Filing, Sweeping
  <2>6. p.at \in {"archive", "file"} /\ Goes(c, p)
    BY <1>1, <2>1, <2>2
  <2> QED  BY <1>1, <2>2, <2>4, <2>5, <2>6, HandOnly DEF ArchiveNext, tables
<1> QED  BY <1>3, <1>4

LEMMA FindMissingKeeps == ASSUME RInv, NEW c \in Clicks, FindMissing(c) PROVE RInv'
<1>1. PICK q \in PassType : /\ q = work[c] /\ q.at = "missing" /\ InHand(q) /\ (q.quiet => Steady(q))
  BY ReconcileShapes DEF FindMissing
<1>2. PICK lack : lack = q.pick \ (uploaded \cup Archived)
  OBVIOUS
<1>3. PICK p : p = [q EXCEPT !.at = "adopt", !.todo = lack]
  OBVIOUS
<1>4. /\ p \in PassType /\ p.at = "adopt" /\ p.seen = q.seen /\ p.pick = q.pick
      /\ p.todo = lack /\ p.cursor = q.cursor /\ p.item = q.item /\ p.quiet = q.quiet
      /\ p.had = q.had /\ p.walked = q.walked
  BY <1>1, <1>2, <1>3 DEF PassType
<1>5. Goes(c, p)
  BY <1>1, <1>2, <1>3 DEF FindMissing
<1>6. InHand(p)
  BY <1>1, <1>4 DEF InHand, Filing
<1>7. ASSUME p.quiet PROVE Steady(p)
  <2>1. Steady(q) /\ q.pick = LiveGrouped
    BY <1>1, <1>4, <1>7 DEF Steady, Filed1
  <2>2. \A i \in LiveGrouped : i \notin Archived
    BY ReconcileShapes DEF ArchivesAreTrue, Over, LiveGrouped
  <2>3. LiveGrouped \subseteq uploaded \cup lack /\ \A i \in lack : entry[i] = "live"
    BY <1>2, <2>1, <2>2 DEF LiveGrouped
  <2> QED  BY <1>1, <1>4, <2>1, <2>3 DEF Steady, Walked, Filed1, Adopted, Swept, Filing, Sweeping
<1> QED  BY <1>1, <1>4, <1>5, <1>6, <1>7, HandOnly DEF FindMissing, tables

LEMMA CheckRowKeeps == ASSUME RInv, NEW c \in Clicks, CheckRow(c) PROVE RInv'
<1>1. PICK q \in PassType : /\ q = work[c] /\ q.at = "check" /\ InHand(q) /\ (q.quiet => Steady(q))
  BY ReconcileShapes DEF CheckRow
<1>2. PICK r : r = [q EXCEPT !.at = "sweep", !.item = Nil]
  OBVIOUS
<1>3. /\ r \in PassType /\ r.at = "sweep" /\ r.seen = q.seen /\ r.pick = q.pick /\ r.todo = q.todo
      /\ r.cursor = q.cursor /\ r.item = Nil /\ r.quiet = q.quiet /\ r.had = q.had /\ r.walked = q.walked
  BY <1>2 DEF PassType
<1>4. PICK i \in q.todo : /\ i = q.item /\ i # Nil /\ Over(i) /\ q.verdict \in {"unavailable", "deleted"}
                          /\ q.verdict = "deleted" => entry[i] = "gone"
  BY <1>1 DEF InHand
<1>5. PICK p \in PassType :
        /\ p = Checked(r, i, q.verdict, "sweep")
        /\ p.seen = r.seen /\ p.pick = r.pick /\ p.cursor = r.cursor /\ p.quiet = r.quiet
        /\ p.had = r.had /\ p.walked = r.walked
        /\ \/ i \in Archived /\ p.at = r.at /\ p.todo = r.todo \ {i} /\ p.item = r.item
           \/ /\ i \notin Archived /\ p.at = "file" /\ p.todo = r.todo /\ p.item = i
              /\ p.verdict = q.verdict /\ p.back = "sweep"
  BY <1>3, <1>4, CheckedIs
<1>6. Goes(c, p)
  BY <1>1, <1>2, <1>4, <1>5 DEF CheckRow
<1>7. InHand(p)
  BY <1>3, <1>4, <1>5 DEF InHand, Filing
<1>8. p.quiet => Steady(p)
  BY <1>1, <1>3, <1>5 DEF Steady, Walked, Filed1, Adopted, Swept, Filing, Sweeping
<1>9. p.at \in {"sweep", "file"} /\ p.quiet = q.quiet
  BY <1>3, <1>5
<1> QED  BY <1>1, <1>6, <1>7, <1>8, <1>9, HandOnly DEF CheckRow, tables

LEMMA SweepKeeps == ASSUME RInv, NEW c \in Clicks, Sweep(c) PROVE RInv'
<1>1. PICK q \in PassType : /\ q = work[c] /\ q.at = "sweep" /\ InHand(q) /\ (q.quiet => Steady(q))
  BY ReconcileShapes DEF Sweep
<1>2. q.item = Nil
  BY <1>1 DEF InHand
<1>3. CASE q.todo \ q.seen = {}
  <2>1. PICK p : p = [q EXCEPT !.at = "page", !.todo = {}]
    OBVIOUS
  <2>2. /\ p \in PassType /\ p.at = "page" /\ p.seen = q.seen /\ p.pick = q.pick
        /\ p.todo = {} /\ p.cursor = q.cursor /\ p.item = q.item /\ p.quiet = q.quiet
        /\ p.had = q.had /\ p.walked = q.walked
    BY <1>1, <2>1 DEF PassType
  <2>3. Goes(c, p)
    BY <1>1, <1>3, <2>1 DEF Sweep
  <2>4. InHand(p)
    BY <1>2, <2>2 DEF InHand, Filing
  <2>5. p.quiet => Steady(p)
    BY <1>1, <1>3, <2>2 DEF Steady, Walked, Filed1, Adopted, Swept, Filing, Sweeping
  <2> QED  BY <1>1, <2>2, <2>3, <2>4, <2>5, HandOnly DEF Sweep, tables
<1>4. CASE q.todo \ q.seen # {}
  <2>1. PICK i \in q.todo \ q.seen :
          Goes(c, IF Verdict(i) = "keep" THEN [q EXCEPT !.todo = q.todo \ {i}]
                  ELSE [q EXCEPT !.at = "check", !.item = i, !.verdict = Verdict(i)])
    BY <1>1, <1>4 DEF Sweep
  <2>2. i \in Entries /\ i # Nil
    BY ReconcileShapes DEF PassType
  <2>3. CASE Verdict(i) = "keep"
    <3>1. PICK p : p = [q EXCEPT !.todo = q.todo \ {i}]
      OBVIOUS
    <3>2. /\ p \in PassType /\ p.at = "sweep" /\ p.seen = q.seen /\ p.pick = q.pick
          /\ p.todo = q.todo \ {i} /\ p.cursor = q.cursor /\ p.item = q.item /\ p.quiet = q.quiet
          /\ p.had = q.had /\ p.walked = q.walked
      BY <1>1, <3>1 DEF PassType
    <3>3. Goes(c, p)
      BY <2>1, <2>3, <3>1
    <3>4. InHand(p)
      BY <1>2, <3>2 DEF InHand, Filing
    <3>5. ~Over(i)
      BY <2>3 DEF Verdict, Over
    <3>6. p.quiet => Steady(p)
      BY <1>1, <3>2, <3>5 DEF Steady, Walked, Filed1, Adopted, Swept, Filing, Sweeping
    <3> QED  BY <1>1, <3>2, <3>3, <3>4, <3>6, HandOnly DEF Sweep, tables
  <2>4. CASE Verdict(i) # "keep"
    <3>1. PICK v \in {"unavailable", "deleted"} : /\ v = Verdict(i) /\ Over(i)
                                                  /\ v = "deleted" => entry[i] = "gone"
      BY <2>4 DEF Verdict, Over
    <3>2. PICK p : p = [q EXCEPT !.at = "check", !.item = i, !.verdict = v]
      OBVIOUS
    <3>3. /\ p \in PassType /\ p.at = "check" /\ p.seen = q.seen /\ p.pick = q.pick /\ p.verdict = v
          /\ p.todo = q.todo /\ p.cursor = q.cursor /\ p.item = i /\ p.quiet = q.quiet
          /\ p.had = q.had /\ p.walked = q.walked
      BY <1>1, <2>2, <3>2 DEF PassType
    <3>4. Goes(c, p)
      BY <2>1, <2>4, <3>1, <3>2
    <3>5. InHand(p)
      BY <2>2, <3>1, <3>3 DEF InHand, Filing
    <3>6. p.quiet => Steady(p)
      BY <1>1, <3>3 DEF Steady, Walked, Filed1, Adopted, Swept, Filing, Sweeping
    <3> QED  BY <1>1, <3>3, <3>4, <3>5, <3>6, HandOnly DEF Sweep, tables
  <2> QED  BY <2>3, <2>4
<1> QED  BY <1>3, <1>4

(* A page: the first rows beyond the cursor, none only when there are none, *)
(* and with them every row up to the last.                                 *)
LEMMA PageOf ==
  ASSUME RInv, NEW rows \in SUBSET Entries
  PROVE  /\ FirstOf(rows) = {} => rows = {}
         /\ FirstOf(rows) # {} =>
              LET last == CHOOSE i \in FirstOf(rows) : \A j \in FirstOf(rows) : j <= i
              IN  /\ last \in FirstOf(rows)
                  /\ \A i \in rows : i <= last => i \in FirstOf(rows)
<1> DEFINE Under(i) == {j \in rows : j < i}
           first == FirstOf(rows)
<1>1. rows \in SUBSET Nat /\ IsFiniteSet(rows) /\ RowBatch \in Nat \ {0}
  BY ReconcileAssumption, FS_Subset
<1>2. ASSUME NEW i
      PROVE  IsFiniteSet(Under(i)) /\ Cardinality(Under(i)) \in Nat
  BY <1>1, FS_Subset, FS_CardinalityType
<1>3. first = {i \in rows : Cardinality(Under(i)) < RowBatch}
  BY DEF FirstOf
<1>4. ASSUME rows # {} PROVE first # {}
  <2>1. PICK m \in rows : \A n \in rows : m <= n
    BY <1>1, <1>4, Least
  <2>2. Under(m) = {}
    <3>1. \A n \in rows : ~(n < m)
      BY <1>1, <2>1
    <3> QED  BY <3>1
  <2>3. Cardinality(Under(m)) = 0
    BY <2>2, FS_EmptySet
  <2>4. 0 < RowBatch
    BY <1>1
  <2> HIDE DEF Under, first
  <2> QED  BY <1>3, <2>1, <2>3, <2>4
<1>5. ASSUME first # {}
      PROVE  LET last == CHOOSE i \in first : \A j \in first : j <= i
             IN  last \in first /\ \A i \in rows : i <= last => i \in first
  <2> DEFINE last == CHOOSE i \in first : \A j \in first : j <= i
  <2>1. first \in SUBSET Nat /\ IsFiniteSet(first) /\ first \subseteq rows
    <3>1. first \in SUBSET rows
      BY <1>3
    <3> HIDE DEF first
    <3> QED  BY <1>1, <3>1, FS_Subset
  <2>2. \E m \in first : \A n \in first : n <= m
    <3> HIDE DEF first
    <3> QED  BY <1>5, <2>1, Greatest
  <2>3. last \in first
    <3> HIDE DEF first
    <3> QED  BY <2>2
  <2>4. PICK l : l = last
    OBVIOUS
  <2>5. ASSUME NEW i \in rows, i <= l PROVE i \in first
    <3>1. Under(i) \subseteq Under(l)
      <4>1. \A j \in rows : j < i => j < l
        BY <1>1, <2>1, <2>3, <2>4, <2>5
      <4> QED  BY <4>1
    <3>2. Cardinality(Under(i)) <= Cardinality(Under(l))
      <4> HIDE DEF Under
      <4> QED  BY <1>2, <3>1, FS_Subset
    <3>3. Cardinality(Under(l)) < RowBatch
      <4> HIDE DEF Under, last, first
      <4> QED  BY <1>3, <2>3, <2>4
    <3>4. Cardinality(Under(i)) < RowBatch
      <4> HIDE DEF Under, last, first
      <4> QED  BY <1>1, <1>2, <3>2, <3>3
    <3> HIDE DEF Under, last, first
    <3> QED  BY <1>3, <3>4
  <2> HIDE DEF first
  <2> QED  BY <2>3, <2>4, <2>5
<1> QED  BY <1>4, <1>5

LEMMA PageKeeps == ASSUME RInv, NEW c \in Clicks, Page(c) PROVE RInv'
<1>1. PICK q \in PassType : /\ q = work[c] /\ q.at = "page" /\ InHand(q) /\ (q.quiet => Steady(q))
  BY ReconcileShapes DEF Page
<1>2. q.item = Nil
  BY <1>1 DEF InHand
<1>3. PICK after \in SUBSET Entries : after = AfterCursor(q) /\ after = {i \in uploaded : i > q.cursor}
  BY ReconcileShapes DEF AfterCursor, RebuildTypes
<1>4. PICK rows : rows = FirstOf(after) /\ rows \subseteq after
  BY DEF FirstOf
<1>5. CASE rows = {}
  <2>1. PICK p : p = [q EXCEPT !.at = "finish"]
    OBVIOUS
  <2>2. /\ p \in PassType /\ p.at = "finish" /\ p.seen = q.seen /\ p.pick = q.pick
        /\ p.todo = q.todo /\ p.cursor = q.cursor /\ p.item = q.item /\ p.quiet = q.quiet
        /\ p.had = q.had /\ p.walked = q.walked
    BY <1>1, <2>1 DEF PassType
  <2>3. Goes(c, p)
    BY <1>1, <1>3, <1>4, <1>5, <2>1 DEF Page
  <2>4. InHand(p)
    BY <1>2, <2>2 DEF InHand, Filing
  <2>5. after = {}
    BY <1>4, <1>5, PageOf
  <2>6. \A i \in uploaded : i <= q.cursor
    <3>1. q.cursor \in Nat /\ \A i \in uploaded : i \in Nat /\ ~(i > q.cursor)
      BY <1>3, <2>5, ReconcileShapes DEF PassType, RebuildTypes
    <3> QED  BY <3>1
  <2>7. p.quiet => Steady(p)
    BY <1>1, <2>2, <2>6 DEF Steady, Walked, Filed1, Adopted, Swept, Filing, Sweeping
  <2> QED  BY <1>1, <2>2, <2>3, <2>4, <2>7, HandOnly DEF Page, tables
<1>6. CASE rows # {}
  <2>1. PICK last : last = CHOOSE i \in rows : \A j \in rows : j <= i
    OBVIOUS
  <2>2. last \in rows /\ \A i \in after : i <= last => i \in rows
    BY <1>4, <1>6, <2>1, PageOf
  <2>3. PICK p : p = [q EXCEPT !.at = "sweep", !.todo = rows, !.cursor = last]
    OBVIOUS
  <2>4. rows \subseteq Entries /\ last \in Entries
    BY <1>4, <2>2
  <2>5. /\ p \in PassType /\ p.at = "sweep" /\ p.seen = q.seen /\ p.pick = q.pick
        /\ p.todo = rows /\ p.cursor = last /\ p.item = q.item /\ p.quiet = q.quiet
        /\ p.had = q.had /\ p.walked = q.walked
    BY <1>1, <2>3, <2>4 DEF PassType
  <2>6. Goes(c, p)
    BY <1>1, <1>3, <1>4, <1>6, <2>1, <2>3 DEF Page
  <2>7. InHand(p)
    BY <1>2, <2>5 DEF InHand, Filing
  <2>8. ASSUME p.quiet PROVE Steady(p)
    <3>1. Steady(q)
      BY <1>1, <2>5, <2>8
    <3>2. \A i \in uploaded \ Archived : i <= q.cursor => ~Over(i)
      BY <1>1, <3>1 DEF Steady, Swept, Sweeping
    <3>3. \A i \in uploaded : i <= last => i <= q.cursor \/ i \in rows
      <4>1. q.cursor \in Nat /\ \A i \in uploaded : i \in Nat
        BY ReconcileShapes DEF PassType, RebuildTypes
      <4>2. \A i \in uploaded : i <= q.cursor \/ i \in after
        BY <1>3, <4>1
      <4> QED  BY <2>2, <4>2
    <3>4. \A i \in uploaded \ Archived : i <= last /\ i \notin rows \ q.seen => ~Over(i)
      <4>1. \A i \in q.seen : i \notin Archived => entry[i] # "carded"
        BY <1>1, <3>1 DEF Steady, Filed1, Sweeping
      <4>2. \A i \in q.seen : entry[i] # "gone"
        BY <1>1, <3>1 DEF Steady, Walked
      <4> QED  BY <3>2, <3>3, <4>1, <4>2 DEF Over
    <3> QED  BY <1>1, <2>5, <3>1, <3>4 DEF Steady, Walked, Filed1, Adopted, Swept, Filing, Sweeping
  <2> QED  BY <1>1, <2>5, <2>6, <2>7, <2>8, HandOnly DEF Page, tables
<1> QED  BY <1>5, <1>6

(* archiveUnavailable and archiveDeleted: the row goes, the archive has it. *)
LEMMA FileItKeeps == ASSUME RInv, NEW c \in Clicks, FileIt(c) PROVE RInv'
<1>1. PICK q \in PassType : /\ q = work[c] /\ q.at = "file" /\ InHand(q) /\ (q.quiet => Steady(q))
  BY ReconcileShapes DEF FileIt
<1>2. PICK i \in q.todo : /\ i = q.item /\ Over(i) /\ q.verdict \in {"unavailable", "deleted"}
                          /\ q.verdict = "deleted" => entry[i] = "gone"
                          /\ q.back \in {"archive", "sweep"}
  BY <1>1 DEF InHand
<1>3. PICK p : p = [q EXCEPT !.at = q.back, !.todo = q.todo \ {i}, !.item = Nil]
  OBVIOUS
<1>4. /\ p \in PassType /\ p.at = q.back /\ p.seen = q.seen /\ p.pick = q.pick
      /\ p.todo = q.todo \ {i} /\ p.cursor = q.cursor /\ p.item = Nil /\ p.quiet = q.quiet
      /\ p.had = q.had /\ p.walked = q.walked
  BY <1>2, <1>3 DEF PassType
<1>5. /\ uploaded' = uploaded \ {i} /\ entry' = entry /\ fate' = fate /\ turns' = turns
      /\ unavailable' = IF q.verdict = "unavailable" THEN unavailable \cup {i} ELSE unavailable
      /\ deleted' = IF q.verdict = "deleted" THEN deleted \cup {i} ELSE deleted
  BY <1>1, <1>2 DEF FileIt
<1>6. Goes(c, p)
  BY <1>1, <1>2, <1>3 DEF FileIt, Filed
<1>7. i \in Entries
  BY DEF PassType
<1>8. Archived' = Archived \cup {i}
  BY <1>2, <1>5 DEF Archived
<1>9. work' = [work EXCEPT ![c] = p] /\ settingsRow' = Running
  BY <1>6 DEF Goes
<1>10. RebuildTypes'
  <2>1. unavailable' \in SUBSET Entries /\ deleted' \in SUBSET Entries /\ uploaded' \in SUBSET Entries
    BY <1>5, <1>7, ReconcileShapes DEF RebuildTypes
  <2> QED  BY <1>4, <1>5, <1>9, <2>1, ReconcileShapes DEF RebuildTypes, Running
<1>11. ArchivesAreTrue'
  <2>1. \A k \in Archived' : Over(k)'
    BY <1>2, <1>5, <1>8, ReconcileShapes DEF ArchivesAreTrue, Over
  <2>2. \A k \in deleted' : entry'[k] = "gone"
    BY <1>2, <1>5, ReconcileShapes DEF ArchivesAreTrue
  <2> QED  BY <1>5, <2>1, <2>2, ReconcileShapes DEF ArchivesAreTrue
<1>12. QuietTogether'
  <2>1. \A e \in Clicks : /\ work'[e].quiet = work[e].quiet
                          /\ work'[e].at \in {"idle", "start"} <=> work[e].at \in {"idle", "start"}
    BY <1>1, <1>2, <1>4, <1>9 DEF RInv, RebuildTypes
  <2> QED  BY <1>5, <2>1 DEF RInv, QuietTogether
<1>13. InHand(p)'
  BY <1>1, <1>2, <1>4, <1>5 DEF InHand, Filing, Over
<1>14. ASSUME p.quiet PROVE Steady(p)'
  <2>1. Steady(q)'
    BY <1>1, <1>2, <1>4, <1>5, <1>8, <1>14, SteadyStays
  <2>2. p.had \subseteq uploaded' \cup Archived' /\ p.at \notin {"idle", "start"}
    BY <1>2, <1>4, <2>1 DEF Steady
  <2>3. Walked(p)'
    BY <1>1, <1>2, <1>4, <2>1 DEF Steady, Walked, Sweeping
  <2>4. Filed1(p)'
    BY <1>1, <1>2, <1>4, <1>8, <2>1 DEF Steady, Filed1, Filing, Sweeping
  <2>5. Adopted(p)'
    BY <1>1, <1>2, <1>4, <2>1 DEF Steady, Adopted, Sweeping
  <2>6. Swept(p)'
    BY <1>1, <1>2, <1>4, <1>8, <2>1 DEF Steady, Swept, Sweeping
  <2> QED  BY <2>2, <2>3, <2>4, <2>5, <2>6 DEF Steady
<1> QED  BY <1>2, <1>4, <1>5, <1>8, <1>9, <1>10, <1>11, <1>12, <1>13, <1>14, OnePass

LEMMA AdoptKeeps == ASSUME RInv, NEW c \in Clicks, Adopt(c) PROVE RInv'
<1>1. PICK q \in PassType : /\ q = work[c] /\ q.at = "adopt" /\ InHand(q) /\ (q.quiet => Steady(q))
  BY ReconcileShapes DEF Adopt
<1>2. q.item = Nil
  BY <1>1 DEF InHand
<1>3. PICK p : p = [q EXCEPT !.at = "page", !.todo = {}, !.pick = {}]
  OBVIOUS
<1>4. /\ p \in PassType /\ p.at = "page" /\ p.seen = q.seen /\ p.pick = {} /\ p.todo = {}
      /\ p.cursor = q.cursor /\ p.item = q.item /\ p.quiet = q.quiet /\ p.had = q.had /\ p.walked = q.walked
  BY <1>1, <1>3 DEF PassType
<1>5. /\ uploaded' = uploaded \cup q.todo /\ entry' = entry /\ fate' = fate /\ turns' = turns
      /\ unavailable' = unavailable /\ deleted' = deleted
  BY <1>1 DEF Adopt
<1>6. work' = [work EXCEPT ![c] = p] /\ settingsRow' = Running
  BY <1>1, <1>3 DEF Adopt, Goes
<1>7. Archived' = Archived /\ uploaded' \subseteq Entries
  BY <1>5, ReconcileShapes DEF Archived, RebuildTypes, PassType
<1>8. RebuildTypes'
  BY <1>4, <1>5, <1>6, <1>7, ReconcileShapes DEF RebuildTypes, Running
<1>9. ArchivesAreTrue'
  BY <1>5, <1>7, ReconcileShapes DEF ArchivesAreTrue, Over
<1>10. QuietTogether'
  <2>1. \A e \in Clicks : /\ work'[e].quiet = work[e].quiet
                          /\ work'[e].at \in {"idle", "start"} <=> work[e].at \in {"idle", "start"}
    BY <1>1, <1>4, <1>6 DEF RInv, RebuildTypes
  <2> QED  BY <1>5, <2>1 DEF RInv, QuietTogether
<1>11. InHand(p)'
  BY <1>2, <1>4 DEF InHand, Filing
<1>12. ASSUME NEW e \in Clicks, work[e].quiet
       PROVE  q.quiet
  BY <1>1, <1>12, ReconcileShapes DEF QuietTogether
<1>13. q.quiet => \A i \in q.todo : entry[i] = "live"
  BY <1>1 DEF Steady, Adopted
<1>14. (\E e \in Clicks : work[e].quiet) => \A i \in uploaded' \ uploaded : entry[i] = "live"
  BY <1>5, <1>12, <1>13
<1>15. ASSUME p.quiet PROVE Steady(p)'
  <2>1. Steady(q)'
    BY <1>1, <1>4, <1>5, <1>7, <1>13, <1>15, SteadyStays
  <2>2. LiveGrouped' \subseteq uploaded' /\ q.cursor = 0
    BY <1>1, <1>5, <2>1 DEF Steady, Adopted, Swept, Sweeping
  <2>3. \A i \in uploaded' : ~(i <= 0)
    BY <1>7, ReconcileShapes
  <2>4. p.had \subseteq uploaded' \cup Archived' /\ Walked(p)' /\ Filed1(p)'
    BY <1>1, <1>4, <2>1 DEF Steady, Walked, Filed1, Filing, Sweeping
  <2>5. Adopted(p)' /\ Swept(p)'
    BY <1>4, <2>2, <2>3 DEF Adopted, Swept, Sweeping
  <2> QED  BY <1>4, <2>4, <2>5 DEF Steady
<1> QED  BY <1>4, <1>5, <1>6, <1>7, <1>8, <1>9, <1>10, <1>11, <1>14, <1>15, OnePass

(* A pass that is over, or an operator who has read the state.             *)
LEMMA Leaves ==
  ASSUME RInv, NEW c \in Clicks, NEW p \in PassType, work' = [work EXCEPT ![c] = p],
         p.at \in {"idle", "start"}, ~p.quiet, p.item = Nil,
         entry' = entry, fate' = fate, uploaded' = uploaded, unavailable' = unavailable,
         deleted' = deleted, turns' \in 0..MaxTurns,
         settingsRow' \in [says : {"idle", "running", "done", "failed"}, stale : BOOLEAN]
  PROVE  RInv'
<1>1. Archived' = Archived
  BY DEF Archived
<1>2. RebuildTypes'
  BY ReconcileShapes DEF RebuildTypes
<1>3. ArchivesAreTrue'
  BY <1>1, ReconcileShapes DEF ArchivesAreTrue, Over
<1>4. work'[c] = p /\ \A e \in Clicks \ {c} : work'[e] = work[e]
  BY DEF RInv, RebuildTypes
<1>5. QuietTogether'
  BY <1>4, ReconcileShapes DEF QuietTogether
<1>6. InHand(p)'
  BY DEF InHand, Filing
<1> QED  BY <1>1, <1>2, <1>3, <1>5, <1>6, OnePass

LEMMA ClickKeeps == ASSUME RInv, NEW c \in Clicks, Click(c) PROVE RInv'
<1>1. PICK p : p = [NoWork EXCEPT !.at = "start"]
  OBVIOUS
<1>2. p \in PassType /\ p.at = "start" /\ ~p.quiet /\ p.item = Nil
  BY <1>1, ReconcileShapes DEF PassType
<1>3. work' = [work EXCEPT ![c] = p]
  BY <1>1 DEF Click
<1> QED  BY <1>2, <1>3, Leaves, ReconcileShapes DEF Click, tables, RebuildTypes

LEMMA SaysTyped ==
  {Running, Says("done"), Says("failed")}
    \subseteq [says : {"idle", "running", "done", "failed"}, stale : BOOLEAN]
<1>1. Running \in [says : {"idle", "running", "done", "failed"}, stale : BOOLEAN]
  BY DEF Running
<1>2. Says("done") \in [says : {"idle", "running", "done", "failed"}, stale : BOOLEAN]
  BY DEF Says
<1>3. Says("failed") \in [says : {"idle", "running", "done", "failed"}, stale : BOOLEAN]
  BY DEF Says
<1> QED  BY <1>1, <1>2, <1>3

LEMMA FinishKeeps == ASSUME RInv, NEW c \in Clicks, Finish(c) PROVE RInv'
<1>1. work' = [work EXCEPT ![c] = NoWork]
  BY DEF Finish
<1>2. turns' \in 0..MaxTurns
  BY ReconcileShapes DEF Finish, Turn, RebuildTypes
<1>3. settingsRow' \in [says : {"idle", "running", "done", "failed"}, stale : BOOLEAN]
  BY SaysTyped DEF Finish
<1> QED  BY <1>1, <1>2, <1>3, Leaves, ReconcileShapes DEF Finish, tables

LEMMA FailsKeeps == ASSUME RInv, NEW c \in Clicks, Fails(c) PROVE RInv'
<1>1. work' = [work EXCEPT ![c] = NoWork]
  BY DEF Fails
<1>2. turns' \in 0..MaxTurns
  BY ReconcileShapes DEF Fails, Turn, RebuildTypes
<1>3. settingsRow' \in [says : {"idle", "running", "done", "failed"}, stale : BOOLEAN]
  BY SaysTyped, ReconcileShapes DEF Fails, RebuildTypes
<1> QED  BY <1>1, <1>2, <1>3, Leaves, ReconcileShapes DEF Fails, tables

(* A pass begins.  Where a quiet pass is under way, so is this one.        *)
LEMMA StartKeeps == ASSUME RInv, NEW c \in Clicks, Start(c) PROVE RInv'
<1>1. PICK walked \in BOOLEAN : walked <=> uploaded \cap Grouped # {}
  OBVIOUS
<1>2. PICK quiet \in BOOLEAN : quiet <=> /\ \A i \in Entries : fate[i] \in {"none", "over"}
                                         /\ \A e \in Clicks : work[e].at \in {"idle", "start"} \/ work[e].quiet
  OBVIOUS
<1>3. walked = (uploaded \cap Grouped # {})
  BY <1>1
<1>4. quiet = (/\ \A i \in Entries : fate[i] \in {"none", "over"}
               /\ \A e \in Clicks : work[e].at \in {"idle", "start"} \/ work[e].quiet)
  BY <1>2
<1>5. PICK at \in {"walk", "page"} : at = IF walked THEN "walk" ELSE "page"
  OBVIOUS
<1>6. PICK p : p = [NoWork EXCEPT !.at = at, !.walked = walked, !.had = uploaded, !.quiet = quiet]
  OBVIOUS
<1>7. /\ p \in PassType /\ p.at = at /\ p.walked = walked /\ p.had = uploaded /\ p.quiet = quiet
      /\ p.item = Nil /\ p.todo = {} /\ p.seen = {} /\ p.cursor = 0
  BY <1>6, ReconcileShapes DEF PassType, RebuildTypes
<1>8. work' = [work EXCEPT ![c] = p]
  BY <1>3, <1>4, <1>5, <1>6 DEF Start
<1>9. /\ entry' = entry /\ fate' = fate /\ uploaded' = uploaded /\ unavailable' = unavailable
      /\ deleted' = deleted /\ turns' = turns /\ settingsRow' = Running
  BY DEF Start, tables
<1>10. Archived' = Archived
  BY <1>9 DEF Archived
<1>11. RebuildTypes'
  BY <1>7, <1>8, <1>9, ReconcileShapes DEF RebuildTypes, Running
<1>12. ArchivesAreTrue'
  BY <1>9, <1>10, ReconcileShapes DEF ArchivesAreTrue, Over
<1>13. work'[c] = p /\ \A e \in Clicks \ {c} : work'[e] = work[e]
  BY <1>8 DEF RInv, RebuildTypes
<1>14. ASSUME NEW e \in Clicks, work'[e].quiet
       PROVE  quiet
  <2>1. CASE e = c
    BY <1>7, <1>13, <1>14, <2>1
  <2>2. CASE e # c
    BY <1>2, <1>13, <1>14, <2>2, ReconcileShapes DEF QuietTogether
  <2> QED  BY <2>1, <2>2
<1>15. QuietTogether'
  BY <1>2, <1>7, <1>9, <1>13, <1>14 DEF QuietTogether
<1>16. InHand(p)'
  BY <1>5, <1>7 DEF InHand, Filing
<1>17. ASSUME p.quiet PROVE Steady(p)'
  <2>1. \A i \in uploaded : ~(i <= 0)
    BY ReconcileShapes DEF RebuildTypes
  <2>2. Walked(p)' /\ Filed1(p)'
    BY <1>5, <1>7 DEF Walked, Filed1, Filing, Sweeping
  <2>3. Adopted(p)' /\ Swept(p)'
    BY <1>5, <1>7, <1>9, <2>1 DEF Adopted, Swept, Sweeping
  <2> QED  BY <1>5, <1>7, <1>9, <2>2, <2>3 DEF Steady
<1> QED  BY <1>7, <1>8, <1>9, <1>10, <1>11, <1>12, <1>15, <1>16, <1>17, OnePass

LEMMA AgesKeeps == ASSUME RInv, Ages PROVE RInv'
<1>1. PICK s \in [says : {"idle", "running", "done", "failed"}, stale : BOOLEAN] : s = settingsRow
  BY ReconcileShapes DEF RebuildTypes
<1>2. settingsRow' = [s EXCEPT !.stale = TRUE]
  BY <1>1 DEF Ages
<1>3. settingsRow' \in [says : {"idle", "running", "done", "failed"}, stale : BOOLEAN]
  BY <1>2
<1>4. /\ entry' = entry /\ fate' = fate /\ uploaded' = uploaded /\ unavailable' = unavailable
      /\ deleted' = deleted /\ work' = work
  BY DEF Ages, tables
<1>5. turns' \in 0..MaxTurns
  BY ReconcileShapes DEF Ages, Turn, RebuildTypes
<1>6. RebuildTypes'
  BY <1>3, <1>4, <1>5, ReconcileShapes DEF RebuildTypes
<1>7. Archived' = Archived
  BY <1>4 DEF Archived
<1>8. ArchivesAreTrue' /\ QuietTogether'
  BY <1>4, <1>7, ReconcileShapes DEF ArchivesAreTrue, Over, QuietTogether
<1>9. ASSUME NEW c \in Clicks
      PROVE  InHand(work[c])' /\ (work'[c].quiet => Steady(work[c])')
  <2>1. InHand(work[c]) /\ (work[c].quiet => Steady(work[c]))
    BY ReconcileShapes
  <2>2. InHand(work[c])'
    BY <1>4, <2>1 DEF InHand, Filing, Over
  <2>3. work'[c].quiet => Steady(work[c])'
    BY <1>4, <1>7, <2>1 DEF Steady, Walked, Filed1, Adopted, Swept, Filing, Sweeping, LiveGrouped, Over
  <2> QED  BY <2>2, <2>3
<1> QED  BY <1>6, <1>8, <1>9 DEF RInv
-----------------------------------------------------------------------------
(* The others: no pass under way stays quiet, and what is over stays so.   *)
LEMMA OthersKeep ==
  ASSUME RInv, Others, ArchivesAreTrue',
         entry' \in [Entries -> {"live", "hidden", "carded", "gone"}],
         uploaded' \in SUBSET Entries, unavailable' \in SUBSET Entries, deleted' \in SUBSET Entries,
         fate' \in [Entries -> {"none", "queued", "written", "filed", "over"}],
         settingsRow' = settingsRow, turns' \in 0..MaxTurns,
         \A i \in Entries : (Over(i) => Over(i)') /\ (entry[i] = "gone" => entry'[i] = "gone")
  PROVE  RInv'
<1>1. ASSUME NEW c \in Clicks
      PROVE  work'[c] \in PassType /\ ~work'[c].quiet /\ InHand(work[c])'
  <2>1. PICK q \in PassType : q = work[c] /\ InHand(q)
    BY ReconcileShapes
  <2>2. PICK p : p = [q EXCEPT !.quiet = FALSE]
    OBVIOUS
  <2>3. /\ p \in PassType /\ ~p.quiet /\ p.at = q.at /\ p.item = q.item /\ p.todo = q.todo
        /\ p.verdict = q.verdict /\ p.back = q.back /\ p.pick = q.pick
    BY <2>2 DEF PassType
  <2>4. work'[c] = p
    BY <2>1, <2>2 DEF Others
  <2>5. q.todo \subseteq Entries /\ q.pick \subseteq Entries
    BY DEF PassType
  <2>6. InHand(p)'
    BY <2>1, <2>3, <2>5 DEF InHand, Filing
  <2>7. InHand(work[c])'
    BY <2>4, <2>6 DEF InHand, Filing, Over
  <2> QED  BY <2>3, <2>4, <2>7
<1>2. work' \in [Clicks -> PassType]
  <2>1. work' = [c \in Clicks |-> work'[c]]
    BY DEF Others
  <2> QED  BY <1>1, <2>1
<1>3. RebuildTypes'
  BY <1>2, ReconcileShapes DEF RebuildTypes
<1>4. QuietTogether'
  BY <1>1 DEF QuietTogether
<1> QED  BY <1>1, <1>3, <1>4 DEF RInv

LEMMA QueueRemovalKeeps == ASSUME RInv, NEW i \in Entries, QueueRemoval(i) PROVE RInv'
<1>1. /\ fate' = [fate EXCEPT ![i] = "queued"] /\ uploaded' = uploaded \ {i} /\ entry[i] = "live"
      /\ entry' = entry /\ unavailable' = unavailable /\ deleted' = deleted /\ settingsRow' = settingsRow
      /\ Others /\ turns' \in 0..MaxTurns
  BY ReconcileShapes DEF QueueRemoval, Turn, RebuildTypes
<1>2. fate' \in [Entries -> {"none", "queued", "written", "filed", "over"}] /\ fate'[i] = "queued"
      /\ \A j \in Entries \ {i} : fate'[j] = fate[j]
  BY <1>1, ReconcileShapes DEF RebuildTypes
<1>3. ArchivesAreTrue'
  BY <1>1, <1>2, ReconcileShapes DEF ArchivesAreTrue, Archived, Over
<1> QED  BY <1>1, <1>2, <1>3, OthersKeep, ReconcileShapes DEF RebuildTypes, Over

(* What MangaDex is told, or does of itself: one chapter, to the worse.    *)
LEMMA EntryWorse ==
  ASSUME RInv, NEW i \in Entries, NEW to \in {"hidden", "carded", "gone"},
         entry' = [entry EXCEPT ![i] = to], to \in {"hidden", "carded"} => entry[i] = "live",
         \A j \in Entries : fate'[j] = "queued" => j # i /\ fate[j] = "queued",
         unavailable' = unavailable, deleted' = deleted
  PROVE  /\ ArchivesAreTrue' /\ entry' \in [Entries -> {"live", "hidden", "carded", "gone"}]
         /\ \A j \in Entries : (Over(j) => Over(j)') /\ (entry[j] = "gone" => entry'[j] = "gone")
<1>1. /\ entry' \in [Entries -> {"live", "hidden", "carded", "gone"}] /\ entry'[i] = to
      /\ \A j \in Entries \ {i} : entry'[j] = entry[j]
  BY ReconcileShapes DEF RebuildTypes
<1>2. \A j \in Entries : (Over(j) => Over(j)') /\ (entry[j] = "gone" => entry'[j] = "gone")
  BY <1>1 DEF Over
<1>3. Archived' = Archived /\ Archived \subseteq Entries /\ deleted \subseteq Entries
  BY ReconcileShapes DEF Archived, RebuildTypes
<1>4. ArchivesAreTrue'
  BY <1>1, <1>2, <1>3, ReconcileShapes DEF ArchivesAreTrue
<1> QED  BY <1>1, <1>2, <1>4

LEMMA TakeDownKeeps == ASSUME RInv, NEW i \in Entries, TakeDown(i) PROVE RInv'
<1>1. /\ fate' = [fate EXCEPT ![i] = "written"] /\ uploaded' = uploaded /\ fate[i] = "queued"
      /\ unavailable' = unavailable /\ deleted' = deleted /\ settingsRow' = settingsRow
      /\ Others /\ turns' = turns
  BY DEF TakeDown, tables
<1>2. PICK to \in {"carded", "gone"} : entry' = [entry EXCEPT ![i] = to]
  BY DEF TakeDown
<1>3. fate' \in [Entries -> {"none", "queued", "written", "filed", "over"}] /\ fate'[i] = "written"
      /\ \A j \in Entries \ {i} : fate'[j] = fate[j]
  BY <1>1, ReconcileShapes DEF RebuildTypes
<1>4. entry[i] = "live"
  BY <1>1, ReconcileShapes DEF ArchivesAreTrue
<1>5. /\ ArchivesAreTrue' /\ entry' \in [Entries -> {"live", "hidden", "carded", "gone"}]
      /\ \A j \in Entries : (Over(j) => Over(j)') /\ (entry[j] = "gone" => entry'[j] = "gone")
  BY <1>1, <1>2, <1>3, <1>4, EntryWorse
<1> QED  BY <1>1, <1>3, <1>5, OthersKeep, ReconcileShapes DEF RebuildTypes

LEMMA ModerateKeeps == ASSUME RInv, NEW i \in Entries, Moderate(i) PROVE RInv'
<1>1. /\ fate' = fate /\ uploaded' = uploaded /\ fate[i] \in {"none", "over"}
      /\ unavailable' = unavailable /\ deleted' = deleted /\ settingsRow' = settingsRow
      /\ Others /\ turns' \in 0..MaxTurns
  BY ReconcileShapes DEF Moderate, tables, Turn, RebuildTypes
<1>2. PICK to \in {"hidden", "gone"} : entry' = [entry EXCEPT ![i] = to] /\ (to = "hidden" => entry[i] = "live")
  BY DEF Moderate
<1>3. /\ ArchivesAreTrue' /\ entry' \in [Entries -> {"live", "hidden", "carded", "gone"}]
      /\ \A j \in Entries : (Over(j) => Over(j)') /\ (entry[j] = "gone" => entry'[j] = "gone")
  BY <1>1, <1>2, EntryWorse
<1> QED  BY <1>1, <1>3, OthersKeep, ReconcileShapes DEF RebuildTypes

LEMMA FileRemovalKeeps == ASSUME RInv, NEW i \in Entries, FileRemoval(i) PROVE RInv'
<1>1. /\ fate' = [fate EXCEPT ![i] = "filed"] /\ uploaded' = uploaded /\ entry' = entry
      /\ unavailable' = IF entry[i] = "carded" THEN unavailable \cup {i} ELSE unavailable
      /\ deleted' = IF entry[i] = "gone" THEN deleted \cup {i} ELSE deleted
      /\ settingsRow' = settingsRow /\ Others /\ turns' = turns
  BY DEF FileRemoval
<1>2. fate' \in [Entries -> {"none", "queued", "written", "filed", "over"}] /\ fate'[i] = "filed"
      /\ \A j \in Entries \ {i} : fate'[j] = fate[j]
  BY <1>1, ReconcileShapes DEF RebuildTypes
<1>3. unavailable' \in SUBSET Entries /\ deleted' \in SUBSET Entries
  BY <1>1, ReconcileShapes DEF RebuildTypes
<1>4. \A j \in Archived' : j \in Archived \/ (j = i /\ entry[i] \in {"carded", "gone"})
  BY <1>1 DEF Archived
<1>5. ArchivesAreTrue'
  <2>1. \A j \in Archived' : Over(j)'
    BY <1>1, <1>4, ReconcileShapes DEF ArchivesAreTrue, Over
  <2>2. \A j \in deleted' : entry'[j] = "gone"
    BY <1>1, ReconcileShapes DEF ArchivesAreTrue
  <2>3. \A j \in Entries : fate'[j] = "queued" => entry'[j] = "live"
    BY <1>1, <1>2, ReconcileShapes DEF ArchivesAreTrue
  <2> QED  BY <2>1, <2>2, <2>3 DEF ArchivesAreTrue
<1> QED  BY <1>1, <1>2, <1>3, <1>5, OthersKeep, ReconcileShapes DEF RebuildTypes, Over

LEMMA EndRowKeeps == ASSUME RInv, NEW i \in Entries, EndRow(i) PROVE RInv'
<1>1. /\ fate' = [fate EXCEPT ![i] = "over"] /\ uploaded' = uploaded \ {i} /\ entry' = entry
      /\ unavailable' = unavailable /\ deleted' = deleted /\ settingsRow' = settingsRow
      /\ Others /\ turns' = turns
  BY DEF EndRow
<1>2. fate' \in [Entries -> {"none", "queued", "written", "filed", "over"}] /\ fate'[i] = "over"
      /\ \A j \in Entries \ {i} : fate'[j] = fate[j]
  BY <1>1, ReconcileShapes DEF RebuildTypes
<1>3. ArchivesAreTrue'
  BY <1>1, <1>2, ReconcileShapes DEF ArchivesAreTrue, Archived, Over
<1> QED  BY <1>1, <1>2, <1>3, OthersKeep, ReconcileShapes DEF RebuildTypes, Over

LEMMA ReconcileInitHolds == ReconcileInit => RInv
<1> SUFFICES ASSUME ReconcileInit PROVE RInv
  OBVIOUS
<1>1. NoWork \in PassType /\ NoWork.at = "idle" /\ ~NoWork.quiet /\ NoWork.item = Nil
  <2>1. NoWork \in PassType
    BY DEF NoWork, PassType
  <2> QED  BY <2>1 DEF NoWork
<1>2. settingsRow \in [says : {"idle", "running", "done", "failed"}, stale : BOOLEAN]
  BY DEF ReconcileInit
<1>3. /\ work = [c \in Clicks |-> NoWork] /\ fate = [i \in Entries |-> "none"] /\ turns = 0
      /\ entry \in [Entries -> {"live", "hidden", "carded", "gone"}] /\ uploaded \in SUBSET Entries
      /\ unavailable \in SUBSET Entries /\ deleted \in SUBSET Entries
      /\ \A i \in unavailable : entry[i] \in {"carded", "gone"}
      /\ \A i \in deleted : entry[i] = "gone"
  BY DEF ReconcileInit
<1>4. RebuildTypes
  BY <1>1, <1>2, <1>3, ReconcileAssumption DEF RebuildTypes
<1>5. ArchivesAreTrue /\ QuietTogether
  BY <1>1, <1>3 DEF ArchivesAreTrue, QuietTogether, Archived, Over
<1>6. InHand(NoWork)
  BY <1>1, IdleInHand
<1> QED  BY <1>1, <1>3, <1>4, <1>5, <1>6 DEF RInv

LEMMA ReconcileStep == RInv /\ [ReconcileNext]_reconcileVars => RInv'
<1> SUFFICES ASSUME RInv, [ReconcileNext]_reconcileVars PROVE RInv'
  OBVIOUS
<1>1. CASE UNCHANGED reconcileVars
  <2>1. /\ entry' = entry /\ uploaded' = uploaded /\ unavailable' = unavailable /\ deleted' = deleted
        /\ fate' = fate /\ settingsRow' = settingsRow /\ work' = work /\ turns' = turns
    BY <1>1 DEF reconcileVars, tables
  <2>2. Archived' = Archived
    BY <2>1 DEF Archived
  <2>3. RebuildTypes' /\ ArchivesAreTrue' /\ QuietTogether'
    BY <2>1, <2>2 DEF RInv, RebuildTypes, ArchivesAreTrue, Over, QuietTogether
  <2>4. ASSUME NEW c \in Clicks PROVE InHand(work[c])' /\ (work'[c].quiet => Steady(work[c])')
    <3>1. InHand(work[c]) /\ (work[c].quiet => Steady(work[c]))
      BY ReconcileShapes
    <3>2. InHand(work[c])'
      BY <2>1, <3>1 DEF InHand, Filing, Over
    <3>3. work'[c].quiet => Steady(work[c])'
      BY <2>1, <2>2, <3>1 DEF Steady, Walked, Filed1, Adopted, Swept, Filing, Sweeping, LiveGrouped, Over
    <3> QED  BY <3>2, <3>3
  <2> QED  BY <2>3, <2>4 DEF RInv
<1>2. ASSUME NEW c \in Clicks, PassGoesOn(c) PROVE RInv'
  BY <1>2, StartKeeps, WalkAllKeeps, WalkServedKeeps, ArchiveNextKeeps, FileItKeeps, FindMissingKeeps,
     AdoptKeeps, PageKeeps, SweepKeeps, CheckRowKeeps, FinishKeeps DEF PassGoesOn
<1>3. ASSUME NEW c \in Clicks, Click(c) \/ Fails(c) PROVE RInv'
  BY <1>3, ClickKeeps, FailsKeeps
<1>4. ASSUME NEW i \in Entries,
             QueueRemoval(i) \/ TakeDown(i) \/ FileRemoval(i) \/ EndRow(i) \/ Moderate(i)
      PROVE  RInv'
  BY <1>4, QueueRemovalKeeps, TakeDownKeeps, FileRemovalKeeps, EndRowKeeps, ModerateKeeps
<1>5. CASE Ages
  BY <1>5, AgesKeeps
<1> QED  BY <1>1, <1>2, <1>3, <1>4, <1>5 DEF ReconcileNext

LEMMA RInvImplies == RInv => ReconcileInv
<1> SUFFICES ASSUME RInv PROVE ReconcileInv
  OBVIOUS
<1>1. ASSUME NEW c \in Clicks
      PROVE  /\ work[c].at \in {"idle", "start", "walk", "served", "archive", "file", "missing",
                                "adopt", "page", "sweep", "check", "finish"}
             /\ work[c].at \in {"file", "check"} <=> work[c].item # Nil
             /\ work[c].item # Nil => work[c].item \in work[c].todo
             /\ work[c].cursor \in Entries \cup {0}
  BY ReconcileShapes DEF PassType, InHand
<1>2. ReconcileTypeOK
  BY <1>1, ReconcileShapes DEF ReconcileTypeOK, RebuildTypes
<1>3. DeletedAreGone
  BY ReconcileShapes DEF ArchivesAreTrue, DeletedAreGone
<1>4. ASSUME NEW c \in Clicks, NEW q \in PassType, q = work[c], q.at = "finish", q.quiet
      PROVE  Agrees(q)
  <2>1. Steady(q)
    BY <1>4, ReconcileShapes
  <2>2. \A i \in uploaded \ Archived : entry[i] \in {"live", "hidden"}
    BY <1>4, <2>1, ReconcileShapes DEF Steady, Swept, Over, RebuildTypes
  <2>3. \A i \in q.had : entry[i] \in {"carded", "gone"} => i \in Archived
    BY <2>1, <2>2 DEF Steady
  <2>4. q.walked => \A i \in Grouped : /\ entry[i] = "carded" => i \in Archived
                                       /\ entry[i] = "live" => i \in uploaded
    BY <1>4, <2>1 DEF Steady, Walked, Filed1, Adopted, Sweeping, LiveGrouped
  <2> QED  BY <2>2, <2>3, <2>4 DEF Agrees
<1>5. QuietPassAgrees
  BY <1>4, ReconcileShapes DEF QuietPassAgrees
<1> QED  BY <1>2, <1>3, <1>5 DEF ReconcileInv

(* The rebuilding of the chapter tables (src/core/md/chapterReconcile.ts): *)
(* what deleted_chapters holds is gone from MangaDex, however old the      *)
(* reading that filed it, and a pass during which nothing but passes has   *)
(* moved leaves the tables as MangaDex is, for any chapters and groups,    *)
(* any size of a batch and any number of passes under way.                 *)
THEOREM RebuildingAgrees == ReconcileSpec => []ReconcileInv
<1>1. RInv /\ [ReconcileNext]_reconcileVars => RInv'
  BY ReconcileStep
<1> QED  BY <1>1, ReconcileInitHolds, RInvImplies, PTL DEF ReconcileSpec
-----------------------------------------------------------------------------
(***************************************************************************)
(* The deletion of duplicates, for any copies and numbers, whatever the    *)
(* overrides declare and any number of passes.                             *)
(***************************************************************************)
ScanType == [at : {"idle", "ask", "queue", "unrecord"}, kind : {"whole", "scoped", "run"},
             doomed : SUBSET Copies, half : Copies \cup {Nobody}, discussed : SUBSET Copies]

CopyTypes ==
  /\ copy \in [Copies -> {"none", "live", "carded", "gone"}]
  /\ comments \in SUBSET Copies /\ remembered \in SUBSET Copies /\ books \in SUBSET Copies
  /\ removal \in [Copies -> {"none", "pending", "leased", "done", "dead"}]
  /\ hand \in Copies \cup {Nobody} /\ pass \in [Passes -> ScanType]
  /\ dated \in BOOLEAN /\ declared \in Overrides /\ mishaps \in 0..MaxMishaps

(* The uploader's hand and its row.                                        *)
LeasedInHand == \A c \in Copies : removal[c] = "leased" <=> c = hand

(* Copies come in their order.                                             *)
ComeInOrder == \A c, later \in Copies : c < later /\ copy[later] # "none" => copy[c] # "none"

(* Only what has been uploaded is to be deleted.                           *)
WereThere ==
  \A c \in Copies : removal[c] # "none" \/ (\E p \in Passes : c \in pass[p].doomed) => copy[c] # "none"

(* What a scan still has to queue, it knows nothing of comments on.        *)
Spoken(q) ==
  /\ q.at = "unrecord" => q.kind = "run"
  /\ q.at = "queue" /\ q.kind # "run" => q.doomed \cap q.discussed = {}

ScInv ==
  /\ CopyTypes /\ LeasedInHand /\ ComeInOrder /\ WereThere
  /\ \A p \in Passes : Spoken(pass[p])

LEMMA DuplicatesShapes ==
  ASSUME ScInv
  PROVE  /\ CopyTypes /\ LeasedInHand /\ ComeInOrder /\ WereThere
         /\ \A p \in Passes : pass[p] \in ScanType /\ Spoken(pass[p])
         /\ Copies \subseteq Nat /\ IsFiniteSet(Copies) /\ Nobody \notin Copies /\ MaxMishaps \in Nat
         /\ NoPass \in ScanType /\ Spoken(NoPass) /\ NoPass.doomed = {} /\ NoPass.at = "idle"
<1>1. NoPass \in ScanType
  BY DEF NoPass, ScanType
<1>2. NoPass.doomed = {} /\ NoPass.at = "idle"
  BY DEF NoPass
<1> QED  BY <1>1, <1>2, DuplicatesAssumption DEF ScInv, CopyTypes, Spoken

LEMMA DuplicatesInitially == DuplicatesInit => ScInv
<1> SUFFICES ASSUME DuplicatesInit PROVE ScInv
  OBVIOUS
<1>1. NoPass \in ScanType
  BY DEF NoPass, ScanType
<1>2. CopyTypes
  <2>1. copy \in [Copies -> {"none", "live", "carded", "gone"}]
    BY DEF DuplicatesInit
  <2>2. comments \in SUBSET Copies /\ remembered \in SUBSET Copies /\ books \in SUBSET Copies
    BY DEF DuplicatesInit
  <2>3. removal \in [Copies -> {"none", "pending", "leased", "done", "dead"}] /\ hand \in Copies \cup {Nobody}
    BY DEF DuplicatesInit
  <2>4. pass \in [Passes -> ScanType]
    BY <1>1 DEF DuplicatesInit
  <2>5. dated \in BOOLEAN /\ declared \in Overrides
    BY DEF DuplicatesInit
  <2>6. mishaps \in 0..MaxMishaps
    BY DuplicatesAssumption DEF DuplicatesInit
  <2> QED  BY <2>1, <2>2, <2>3, <2>4, <2>5, <2>6 DEF CopyTypes
<1>3. LeasedInHand
  BY DuplicatesAssumption DEF DuplicatesInit, LeasedInHand
<1>4. ComeInOrder
  BY DEF DuplicatesInit, ComeInOrder
<1>5. ASSUME NEW p \in Passes PROVE Spoken(pass[p])
  BY DEF DuplicatesInit, NoPass, Spoken
<1>6. WereThere
  BY DEF DuplicatesInit, NoPass, WereThere
<1> QED  BY <1>2, <1>3, <1>4, <1>5, <1>6 DEF ScInv

(* What is doomed was compared; and the first of the declared numbers, or  *)
(* of all, is not, where the comparison goes by age.                       *)
LEMMA DoomedWereRead ==
  ASSUME NEW kind, NEW cs
  PROVE  FindDuplicateChapters(kind, cs) \subseteq cs
BY DEF FindDuplicateChapters

(* Stays for good: the oldest of a declared number, or of all.             *)
Keeper(m) ==
  \/ declared = {} /\ \A e \in Copies : m <= e
  \/ NumberOf[m] \in declared /\ \A e \in Copies : NumberOf[e] = NumberOf[m] => m <= e

LEMMA KeepersAreSpared ==
  ASSUME NEW kind, NEW cs \in SUBSET Copies, dated \/ kind # "run",
         NEW m \in cs, Keeper(m), Copies \subseteq Nat
  PROVE  m \notin FindDuplicateChapters(kind, cs)
<1> DEFINE seen == {NumberOf[e] : e \in {e \in cs : Before(kind, e, m)}}
<1>1. \A e \in cs : Before(kind, e, m) <=> e < m
  BY DEF Before
<1>2. CASE declared = {} /\ \A e \in Copies : m <= e
  <2>1. seen = {}
    BY <1>1, <1>2
  <2>2. Spared(kind, cs, m)
    BY <1>2, <2>1 DEF Spared
  <2> QED  BY <2>2 DEF FindDuplicateChapters
<1>3. CASE NumberOf[m] \in declared /\ \A e \in Copies : NumberOf[e] = NumberOf[m] => m <= e
  <2>1. NumberOf[m] \notin seen
    BY <1>1, <1>3
  <2>2. Spared(kind, cs, m)
    <3>1. declared # {} /\ ~(declared \subseteq seen)
      BY <1>3, <2>1
    <3> HIDE DEF seen
    <3>2. NumberOf[m] \in declared /\ ~(declared \subseteq seen) /\ declared # {}
      BY <1>3, <3>1
    <3> USE DEF seen
    <3> QED  BY <3>2 DEF Spared
  <2> QED  BY <2>2 DEF FindDuplicateChapters
<1> QED  BY <1>2, <1>3 DEF Keeper

(* A pass's step leaves it less to do, or what it just read.               *)
ScanMoves(p) ==
  \E q \in ScanType :
    /\ pass' = [pass EXCEPT ![p] = q] /\ Spoken(q)
    /\ \/ q.doomed \subseteq pass[p].doomed
       \/ q.doomed = FindDuplicateChapters(q.kind, Live)

LEMMA LessIsLeft ==
  ASSUME NEW q \in ScanType, q.at = "queue" \/ q.at = "unrecord", Spoken(q),
         NEW c, NoPass \in ScanType, NoPass.doomed = {}, Spoken(NoPass)
  PROVE  /\ Without(q, c) \in ScanType /\ Spoken(Without(q, c))
         /\ Without(q, c).doomed = q.doomed \ {c}
<1>1. CASE q.doomed = {c}
  BY <1>1 DEF Without
<1>2. CASE q.doomed # {c}
  <2>1. PICK r : r = [q EXCEPT !.at = "queue", !.doomed = q.doomed \ {c}, !.half = Nobody]
    OBVIOUS
  <2>2. r \in ScanType /\ r.at = "queue" /\ r.kind = q.kind
        /\ r.doomed = q.doomed \ {c} /\ r.discussed = q.discussed
    BY <2>1 DEF ScanType
  <2>3. Without(q, c) = r
    BY <1>2, <2>1 DEF Without
  <2>4. Spoken(r)
    <3>1. r.kind # "run" => r.doomed \cap r.discussed = {}
      BY <2>2 DEF Spoken
    <3> QED  BY <2>2, <3>1 DEF Spoken
  <2> QED  BY <2>2, <2>3, <2>4
<1> QED  BY <1>1, <1>2

(* A scan that has asked keeps nothing in hand that is spoken of.          *)
LEMMA AskedIsSpoken ==
  ASSUME NEW q \in ScanType, NEW spoken \in SUBSET Copies, NEW held,
         q.doomed \cap spoken \subseteq held, q.at = "ask",
         NoPass \in ScanType, NoPass.doomed = {}, Spoken(NoPass)
  PROVE  LET r == Settled([q EXCEPT !.discussed = spoken], held)
         IN  r \in ScanType /\ Spoken(r) /\ r.doomed \subseteq q.doomed
<1>1. PICK d : d = [q EXCEPT !.discussed = spoken]
  OBVIOUS
<1>2. d \in ScanType /\ d.at = "ask" /\ d.doomed = q.doomed /\ d.discussed = spoken
  BY <1>1 DEF ScanType
<1>3. CASE d.doomed \ held = {}
  <2>1. Settled(d, held) = NoPass
    BY <1>3 DEF Settled
  <2> QED  BY <1>1, <2>1
<1>4. CASE d.doomed \ held # {}
  <2>1. PICK r : r = [d EXCEPT !.at = "queue", !.doomed = d.doomed \ held]
    OBVIOUS
  <2>2. r \in ScanType /\ r.at = "queue" /\ r.doomed = d.doomed \ held /\ r.discussed = d.discussed
    BY <1>2, <2>1 DEF ScanType
  <2>3. Settled(d, held) = r
    BY <1>4, <2>1 DEF Settled
  <2>4. r.doomed \cap r.discussed = {}
    BY <1>2, <2>2
  <2>5. Spoken(r)
    BY <2>2, <2>4 DEF Spoken
  <2> QED  BY <1>1, <1>2, <2>2, <2>3, <2>5
<1> QED  BY <1>3, <1>4

LEMMA ReadersGo ==
  ASSUME ScInv, NEW p \in Passes, NEW kind \in {"whole", "scoped", "run"}, ReadCopies(p, kind)
  PROVE  ScanMoves(p)
<1> USE DuplicatesShapes
<1>1. PICK doomed : doomed = FindDuplicateChapters(kind, Live)
  OBVIOUS
<1>2. doomed \in SUBSET Copies
  BY <1>1, DoomedWereRead DEF Live
<1>3. PICK q : q = [at |-> IF kind = "run" THEN "queue" ELSE "ask", kind |-> kind, doomed |-> doomed,
                    half |-> Nobody, discussed |-> {}]
  OBVIOUS
<1>4. q \in ScanType /\ q.kind = kind /\ q.doomed = doomed /\ Spoken(q)
  BY <1>2, <1>3 DEF ScanType, Spoken
<1>5. pass' = [pass EXCEPT ![p] = q]
  BY <1>1, <1>3 DEF ReadCopies
<1> QED  BY <1>1, <1>4, <1>5 DEF ScanMoves

LEMMA AskersGo ==
  ASSUME ScInv, NEW p \in Passes, Ask(p)
  PROVE  ScanMoves(p) /\ remembered' \in SUBSET Copies /\ mishaps' \in 0..MaxMishaps
<1> USE DuplicatesShapes
<1> DEFINE q == pass[p]
           asked == q.doomed \ remembered
           found == asked \cap comments
           spoken == comments \cup remembered
           r == [q EXCEPT !.discussed = spoken]
<1>1. spoken \in SUBSET Copies /\ found \in SUBSET Copies
  BY DEF CopyTypes
<1>2. q.at = "ask" /\ q \in ScanType
  BY DEF Ask
<1>3. q.doomed \cap spoken \subseteq remembered \cup found /\ q.doomed \cap spoken \subseteq q.doomed
  OBVIOUS
<1>4. \/ pass' = [pass EXCEPT ![p] = Settled(r, remembered \cup found)]
      \/ pass' = [pass EXCEPT ![p] = Settled(r, q.doomed)]
  BY DEF Ask, HeldWhenUnanswered
<1>5. remembered' \in {remembered, remembered \cup found}
  BY DEF Ask
<1>6. mishaps' = mishaps \/ Mishap
  BY DEF Ask
<1>7. mishaps' \in 0..MaxMishaps
  BY <1>6 DEF Mishap, CopyTypes
<1>8. remembered' \in SUBSET Copies
  BY <1>1, <1>5 DEF CopyTypes
<1> HIDE DEF q, spoken, found, asked
<1>9. CASE pass' = [pass EXCEPT ![p] = Settled(r, remembered \cup found)]
  <2>1. Settled(r, remembered \cup found) \in ScanType /\ Spoken(Settled(r, remembered \cup found))
        /\ Settled(r, remembered \cup found).doomed \subseteq q.doomed
    BY <1>1, <1>2, <1>3, AskedIsSpoken
  <2> QED  BY <1>7, <1>8, <1>9, <2>1 DEF ScanMoves, q
<1>10. CASE pass' = [pass EXCEPT ![p] = Settled(r, q.doomed)]
  <2>1. Settled(r, q.doomed) \in ScanType /\ Spoken(Settled(r, q.doomed))
        /\ Settled(r, q.doomed).doomed \subseteq q.doomed
    BY <1>1, <1>2, <1>3, AskedIsSpoken
  <2> QED  BY <1>7, <1>8, <1>10, <2>1 DEF ScanMoves, q
<1> QED  BY <1>4, <1>9, <1>10

LEMMA PassesStand ==
  ASSUME ScInv, NEW p \in Passes, ScanMoves(p)
  PROVE  pass' \in [Passes -> ScanType] /\ \A e \in Passes : Spoken(pass[e])'
<1> USE DuplicatesShapes
<1>1. PICK q \in ScanType : pass' = [pass EXCEPT ![p] = q] /\ Spoken(q)
  BY DEF ScanMoves
<1>2. pass' \in [Passes -> ScanType]
  BY <1>1 DEF CopyTypes
<1>3. ASSUME NEW e \in Passes PROVE Spoken(pass'[e])
  <2>1. pass'[e] = IF e = p THEN q ELSE pass[e]
    BY <1>1 DEF CopyTypes
  <2> QED  BY <1>1, <2>1
<1> QED  BY <1>2, <1>3 DEF Spoken

(* Every step, row by row: whose copy it touches, and how.                 *)
LEMMA QueuersGo ==
  ASSUME ScInv, NEW p \in Passes, NEW c \in Copies, QueueDelete(p, c) \/ EnqueueRemoval(p, c)
  PROVE  /\ ScanMoves(p) /\ mishaps' \in 0..MaxMishaps /\ c \in pass[p].doomed
         /\ removal' = removal \/ (removal[c] # "leased" /\ removal' = [removal EXCEPT ![c] = "pending"])
<1> USE DuplicatesShapes
<1>1. CASE QueueDelete(p, c)
  <2>1. PICK q : q = Without(pass[p], c)
    OBVIOUS
  <2>2. q \in ScanType /\ Spoken(q) /\ q.doomed = pass[p].doomed \ {c}
    <3>1. pass[p].at = "queue"
      BY <1>1 DEF QueueDelete
    <3> QED  BY <2>1, <3>1, LessIsLeft
  <2>3. pass' = [pass EXCEPT ![p] = q]
    BY <1>1, <2>1 DEF QueueDelete
  <2>4. mishaps' = mishaps \/ Mishap
    BY <1>1 DEF QueueDelete
  <2>5. mishaps' \in 0..MaxMishaps
    BY <2>4 DEF Mishap, CopyTypes
  <2>6. ScanMoves(p)
    BY <2>2, <2>3 DEF ScanMoves
  <2>7. c \in pass[p].doomed /\ (removal' = removal \/ (Rearms(c) /\ removal' = [removal EXCEPT ![c] = "pending"]))
    BY <1>1 DEF QueueDelete
  <2> QED  BY <2>5, <2>6, <2>7 DEF Rearms
<1>2. CASE EnqueueRemoval(p, c)
  <2>1. PICK q : q = [pass[p] EXCEPT !.at = "unrecord", !.half = c]
    OBVIOUS
  <2>2. q \in ScanType /\ q.at = "unrecord" /\ q.kind = pass[p].kind /\ q.doomed = pass[p].doomed
    BY <2>1 DEF ScanType
  <2>3. pass' = [pass EXCEPT ![p] = q]
    <3>1. pass' = [pass EXCEPT ![p].at = "unrecord", ![p].half = c]
      BY <1>2 DEF EnqueueRemoval
    <3> QED  BY <2>1, <3>1 DEF CopyTypes
  <2>4. Spoken(q)
    BY <1>2, <2>2 DEF EnqueueRemoval, Spoken
  <2>5. ScanMoves(p)
    BY <2>2, <2>3, <2>4 DEF ScanMoves
  <2>6. mishaps' \in 0..MaxMishaps /\ c \in pass[p].doomed
    BY <1>2 DEF EnqueueRemoval, CopyTypes
  <2>7. removal' = removal \/ (removal[c] = "none" /\ removal' = [removal EXCEPT ![c] = "pending"])
    BY <1>2 DEF EnqueueRemoval
  <2> QED  BY <2>5, <2>6, <2>7
<1> QED  BY <1>1, <1>2

LEMMA DroppersGo ==
  ASSUME ScInv, NEW p \in Passes, DropRow(p)
  PROVE  ScanMoves(p) /\ books' \in SUBSET Copies
<1> USE DuplicatesShapes
<1>1. PICK q : q = Without(pass[p], pass[p].half)
  OBVIOUS
<1>2. q \in ScanType /\ Spoken(q) /\ q.doomed \subseteq pass[p].doomed
  <2>1. pass[p].at = "unrecord"
    BY DEF DropRow
  <2>2. q \in ScanType /\ Spoken(q) /\ q.doomed = pass[p].doomed \ {pass[p].half}
    BY <1>1, <2>1, LessIsLeft
  <2> QED  BY <2>2
<1>3. pass' = [pass EXCEPT ![p] = q]
  BY <1>1 DEF DropRow, CopyTypes
<1>4. books' \in SUBSET Copies
  BY DEF DropRow, CopyTypes
<1> QED  BY <1>2, <1>3, <1>4 DEF ScanMoves

LEMMA DiersGo ==
  ASSUME ScInv, NEW p \in Passes, PassDies(p)
  PROVE  ScanMoves(p) /\ mishaps' \in 0..MaxMishaps
<1> USE DuplicatesShapes
<1>1. ScanMoves(p)
  BY DEF PassDies, ScanMoves
<1>2. mishaps' \in 0..MaxMishaps
  BY DEF PassDies, Mishap, CopyTypes
<1> QED  BY <1>1, <1>2

(* What a pass may do to the rest, and what the uploader, and what the     *)
(* world.                                                                  *)
PassTouches(p) ==
  /\ ScanMoves(p) /\ UNCHANGED <<copy, comments, hand, dated, declared>>
  /\ remembered' \in SUBSET Copies /\ books' \in SUBSET Copies /\ mishaps' \in 0..MaxMishaps
  /\ \/ removal' = removal
     \/ \E c \in pass[p].doomed : removal[c] # "leased" /\ removal' = [removal EXCEPT ![c] = "pending"]

UploaderTouches ==
  /\ UNCHANGED <<comments, remembered, pass, dated, declared>>
  /\ books' \in SUBSET Copies /\ mishaps' \in 0..MaxMishaps
  /\ \/ \E c \in Copies : /\ hand = Nobody /\ removal[c] = "pending" /\ hand' = c
                          /\ removal' = [removal EXCEPT ![c] = "leased"] /\ copy' = copy
     \/ \E v \in {"done", "dead"} :
          /\ hand \in Copies /\ hand' = Nobody /\ removal' = [removal EXCEPT ![hand] = v]
          /\ copy' = copy \/ copy' = [copy EXCEPT ![hand] = "gone"]

WorldTouches ==
  /\ UNCHANGED <<remembered, removal, hand, pass, dated, declared>>
  /\ comments' \in SUBSET Copies /\ books' \in SUBSET Copies /\ mishaps' \in 0..MaxMishaps
  /\ \/ copy' = copy
     \/ \E c \in Copies : \/ /\ copy[c] = "none" /\ \A e \in Copies : e < c => copy[e] # "none"
                             /\ copy' = [copy EXCEPT ![c] = "live"]
                          \/ copy[c] = "live" /\ copy' = [copy EXCEPT ![c] = "carded"]

LEMMA PassesTouch ==
  ASSUME ScInv, NEW p \in Passes,
         (\E kind \in {"whole", "scoped", "run"} : ReadCopies(p, kind)) \/ PassStep(p) \/ PassDies(p)
  PROVE  PassTouches(p)
<1> USE DuplicatesShapes
<1>0. remembered \in SUBSET Copies /\ books \in SUBSET Copies /\ mishaps \in 0..MaxMishaps
  BY DEF CopyTypes
<1>1. ASSUME NEW kind \in {"whole", "scoped", "run"}, ReadCopies(p, kind) PROVE PassTouches(p)
  <2>1. UNCHANGED <<copy, comments, remembered, books, removal, hand, dated, declared, mishaps>>
    BY <1>1 DEF ReadCopies
  <2> QED  BY <1>0, <1>1, <2>1, ReadersGo DEF PassTouches
<1>2. CASE Ask(p)
  <2>1. UNCHANGED <<copy, comments, books, removal, hand, dated, declared>>
    BY <1>2 DEF Ask
  <2> QED  BY <1>0, <1>2, <2>1, AskersGo DEF PassTouches
<1>3. CASE DropRow(p)
  <2>1. UNCHANGED <<copy, comments, remembered, removal, hand, dated, declared, mishaps>>
    BY <1>3 DEF DropRow
  <2> QED  BY <1>0, <1>3, <2>1, DroppersGo DEF PassTouches
<1>4. ASSUME NEW c \in Copies, QueueDelete(p, c) \/ EnqueueRemoval(p, c) PROVE PassTouches(p)
  <2>1. UNCHANGED <<copy, comments, remembered, books, hand, dated, declared>>
    BY <1>4 DEF QueueDelete, EnqueueRemoval
  <2>2. /\ ScanMoves(p) /\ mishaps' \in 0..MaxMishaps /\ c \in pass[p].doomed
        /\ removal' = removal \/ (removal[c] # "leased" /\ removal' = [removal EXCEPT ![c] = "pending"])
    BY <1>4, QueuersGo
  <2> QED  BY <1>0, <2>1, <2>2 DEF PassTouches
<1>5. CASE PassDies(p)
  <2>1. UNCHANGED <<copy, comments, remembered, books, removal, hand, dated, declared>>
    BY <1>5 DEF PassDies
  <2> QED  BY <1>0, <1>5, <2>1, DiersGo DEF PassTouches
<1> QED  BY <1>1, <1>2, <1>3, <1>4, <1>5 DEF PassStep

LEMMA UploaderDeletes ==
  ASSUME ScInv, UploaderStep
  PROVE  UploaderTouches
<1> USE DuplicatesShapes
<1>1. ASSUME NEW c \in Copies, LeaseRemoval(c) PROVE UploaderTouches
  <2>1. books' \in SUBSET Copies /\ mishaps' \in 0..MaxMishaps
    BY <1>1 DEF LeaseRemoval, CopyTypes
  <2>2. UNCHANGED <<copy, comments, remembered, pass, dated, declared>>
    BY <1>1 DEF LeaseRemoval
  <2>3. hand = Nobody /\ removal[c] = "pending" /\ hand' = c /\ removal' = [removal EXCEPT ![c] = "leased"]
    BY <1>1 DEF LeaseRemoval
  <2> QED  BY <2>1, <2>2, <2>3 DEF UploaderTouches
<1>2. CASE Delete
  <2>1. hand \in Copies /\ hand' = Nobody /\ UNCHANGED <<comments, remembered, pass, dated, declared>>
    BY <1>2 DEF Delete, CopyTypes
  <2>2. books' \in SUBSET Copies
    BY <1>2 DEF Delete, CopyTypes
  <2>3. mishaps' = mishaps \/ Mishap
    BY <1>2 DEF Delete
  <2>4. mishaps' \in 0..MaxMishaps
    BY <2>3 DEF Mishap, CopyTypes
  <2>5. \E v \in {"done", "dead"} :
          removal' = [removal EXCEPT ![hand] = v] /\ (copy' = copy \/ copy' = [copy EXCEPT ![hand] = "gone"])
    BY <1>2 DEF Delete
  <2> QED  BY <2>1, <2>2, <2>4, <2>5 DEF UploaderTouches
<1> QED  BY <1>1, <1>2 DEF UploaderStep

LEMMA WorldGoesOn ==
  ASSUME ScInv, NEW c \in Copies, Upload(c) \/ Card(c) \/ Comment(c)
  PROVE  WorldTouches
<1> USE DuplicatesShapes
<1>1. UNCHANGED <<remembered, removal, hand, pass, dated, declared>>
  BY DEF Upload, Card, Comment
<1>2. books' \in SUBSET Copies
  BY DEF Upload, Card, Comment, CopyTypes
<1>3. comments' \in SUBSET Copies
  BY DEF Upload, Card, Comment, CopyTypes
<1>4. mishaps' = mishaps \/ Mishap
  BY DEF Upload, Card, Comment
<1>5. mishaps' \in 0..MaxMishaps
  BY <1>4 DEF Mishap, CopyTypes
<1>6. \/ copy' = copy
      \/ copy[c] = "none" /\ (\A e \in Copies : e < c => copy[e] # "none") /\ copy' = [copy EXCEPT ![c] = "live"]
      \/ copy[c] = "live" /\ copy' = [copy EXCEPT ![c] = "carded"]
  BY DEF Upload, Card, Comment
<1> QED  BY <1>1, <1>2, <1>3, <1>5, <1>6 DEF WorldTouches

(* What a pass holds after its step was in its hands, or is live.          *)
LEMMA DoomedWereThere ==
  ASSUME ScInv, NEW p \in Passes, ScanMoves(p), copy' = copy
  PROVE  \A e \in Passes : \A c \in Copies : c \in pass'[e].doomed => copy'[c] # "none"
<1> USE DuplicatesShapes
<1>1. PICK q \in ScanType :
        /\ pass' = [pass EXCEPT ![p] = q]
        /\ q.doomed \subseteq pass[p].doomed \/ q.doomed = FindDuplicateChapters(q.kind, Live)
  BY DEF ScanMoves
<1>2. \A c \in Copies : c \in q.doomed => copy[c] # "none"
  <2>1. \A c \in FindDuplicateChapters(q.kind, Live) : copy[c] = "live"
    BY DoomedWereRead DEF Live
  <2> QED  BY <1>1, <2>1 DEF WereThere
<1>3. \A e \in Passes : pass'[e] = IF e = p THEN q ELSE pass[e]
  BY <1>1 DEF CopyTypes
<1> QED  BY <1>2, <1>3 DEF WereThere

LEMMA CopiesStand == ScInv /\ [DuplicatesNext]_duplicatesVars => ScInv'
<1> SUFFICES ASSUME ScInv, [DuplicatesNext]_duplicatesVars PROVE ScInv'
  OBVIOUS
<1> USE DuplicatesShapes
<1>1. ASSUME NEW p \in Passes, PassTouches(p) PROVE ScInv'
  <2>1. pass' \in [Passes -> ScanType] /\ \A e \in Passes : Spoken(pass[e])'
    BY <1>1, PassesStand DEF PassTouches
  <2>2. \A e \in Passes : \A c \in Copies : c \in pass'[e].doomed => copy'[c] # "none"
    BY <1>1, DoomedWereThere DEF PassTouches
  <2>3. /\ removal' \in [Copies -> {"none", "pending", "leased", "done", "dead"}] /\ LeasedInHand'
        /\ \A c \in Copies : removal'[c] # "none" => copy'[c] # "none"
    <3>1. CASE removal' = removal
      BY <1>1, <3>1 DEF PassTouches, CopyTypes, LeasedInHand, WereThere
    <3>2. ASSUME NEW c \in pass[p].doomed, removal[c] # "leased", removal' = [removal EXCEPT ![c] = "pending"]
          PROVE  /\ removal' \in [Copies -> {"none", "pending", "leased", "done", "dead"}] /\ LeasedInHand'
                 /\ \A e \in Copies : removal'[e] # "none" => copy'[e] # "none"
      <4>1. c \in Copies /\ copy[c] # "none"
        BY DEF WereThere, ScanType
      <4>2. hand' = hand /\ copy' = copy
        BY <1>1 DEF PassTouches
      <4>3. \A e \in Copies : removal'[e] = IF e = c THEN "pending" ELSE removal[e]
        BY <3>2 DEF CopyTypes
      <4>4. removal' \in [Copies -> {"none", "pending", "leased", "done", "dead"}]
        BY <3>2 DEF CopyTypes
      <4>5. LeasedInHand'
        BY <3>2, <4>2, <4>3 DEF LeasedInHand
      <4> QED  BY <4>1, <4>2, <4>3, <4>4, <4>5 DEF WereThere
    <3> QED  BY <1>1, <3>1, <3>2 DEF PassTouches
  <2>4. CopyTypes'
    BY <1>1, <2>1, <2>3 DEF PassTouches, CopyTypes
  <2>5. ComeInOrder'
    BY <1>1 DEF PassTouches, ComeInOrder
  <2>6. WereThere'
    BY <2>2, <2>3 DEF WereThere
  <2> QED  BY <2>1, <2>3, <2>4, <2>5, <2>6 DEF ScInv
<1>2. CASE UploaderTouches
  <2>1. UNCHANGED <<comments, remembered, pass, dated, declared>> /\ books' \in SUBSET Copies
        /\ mishaps' \in 0..MaxMishaps /\ \A p \in Passes : Spoken(pass[p])'
    BY <1>2 DEF UploaderTouches, ScInv, Spoken
  <2>2. ASSUME NEW c \in Copies, hand = Nobody, removal[c] = "pending", hand' = c,
               removal' = [removal EXCEPT ![c] = "leased"], copy' = copy
        PROVE  ScInv'
    <3>1. CopyTypes'
      BY <2>1, <2>2 DEF CopyTypes
    <3>2. LeasedInHand'
      BY <2>2 DEF LeasedInHand, CopyTypes
    <3>3. ComeInOrder' /\ WereThere'
      BY <2>1, <2>2 DEF ComeInOrder, WereThere, CopyTypes
    <3> QED  BY <2>1, <3>1, <3>2, <3>3 DEF ScInv
  <2>3. ASSUME NEW v \in {"done", "dead"}, hand \in Copies, hand' = Nobody,
               removal' = [removal EXCEPT ![hand] = v],
               copy' = copy \/ copy' = [copy EXCEPT ![hand] = "gone"]
        PROVE  ScInv'
    <3>1. copy[hand] # "none" /\ removal[hand] = "leased"
      BY <2>3 DEF LeasedInHand, WereThere
    <3>2. copy' \in [Copies -> {"none", "live", "carded", "gone"}]
      BY <2>3 DEF CopyTypes
    <3>3. \A c \in Copies : copy'[c] = "none" <=> copy[c] = "none"
      BY <2>3, <3>1 DEF CopyTypes
    <3>4. removal' \in [Copies -> {"none", "pending", "leased", "done", "dead"}]
          /\ \A c \in Copies : removal'[c] = IF c = hand THEN v ELSE removal[c]
      BY <2>3 DEF CopyTypes
    <3>5. CopyTypes'
      BY <2>1, <2>3, <3>2, <3>4 DEF CopyTypes
    <3>6. LeasedInHand'
      BY <2>3, <3>4 DEF LeasedInHand
    <3>7. ComeInOrder' /\ WereThere'
      <4>1. \A c \in Copies : removal'[c] # "none" => removal[c] # "none"
        BY <3>1, <3>4
      <4> QED  BY <2>1, <3>3, <4>1 DEF ComeInOrder, WereThere
    <3> QED  BY <2>1, <3>5, <3>6, <3>7 DEF ScInv
  <2> QED  BY <1>2, <2>2, <2>3 DEF UploaderTouches
<1>3. CASE WorldTouches
  <2>1. UNCHANGED <<remembered, removal, hand, pass, dated, declared>> /\ comments' \in SUBSET Copies
        /\ books' \in SUBSET Copies /\ mishaps' \in 0..MaxMishaps /\ \A p \in Passes : Spoken(pass[p])'
    BY <1>3 DEF WorldTouches, ScInv, Spoken
  <2>2. copy' \in [Copies -> {"none", "live", "carded", "gone"}]
        /\ \A c \in Copies : copy[c] # "none" => copy'[c] # "none"
    BY <1>3 DEF WorldTouches, CopyTypes
  <2>3. ComeInOrder'
    <3>1. CASE copy' = copy
      BY <3>1 DEF ComeInOrder
    <3>2. ASSUME NEW c \in Copies, \A e \in Copies : e < c => copy[e] # "none",
                 copy' = [copy EXCEPT ![c] = "live"]
          PROVE  ComeInOrder'
      BY <2>2, <3>2 DEF ComeInOrder, CopyTypes
    <3>3. ASSUME NEW c \in Copies, copy[c] = "live", copy' = [copy EXCEPT ![c] = "carded"]
          PROVE  ComeInOrder'
      BY <3>3 DEF ComeInOrder, CopyTypes
    <3> QED  BY <1>3, <3>1, <3>2, <3>3 DEF WorldTouches
  <2>4. CopyTypes' /\ LeasedInHand' /\ WereThere'
    BY <2>1, <2>2 DEF CopyTypes, LeasedInHand, WereThere
  <2> QED  BY <2>1, <2>3, <2>4 DEF ScInv
<1>4. CASE UNCHANGED duplicatesVars
  BY <1>4 DEF duplicatesVars, ScInv, CopyTypes, LeasedInHand, ComeInOrder, WereThere, Spoken
<1> QED  BY <1>1, <1>2, <1>3, <1>4, PassesTouch, UploaderDeletes, WorldGoesOn DEF DuplicatesNext

LEMMA CopiesInductive == DuplicatesSpec => []ScInv
<1> QED  BY DuplicatesInitially, CopiesStand, PTL DEF DuplicatesSpec

(* DiscussedIsKept: whatever a scan queues for deletion had no comments    *)
(* when it asked MangaDex (duplicateScan.ts, commentCounts), and none it   *)
(* was remembered to have; also when MangaDex did not answer.              *)
THEOREM WhatIsDiscussedStays == DuplicatesSpec => DiscussedIsKept
<1>1. ScInv => \A p \in Passes, c \in Copies :
                 pass[p].at = "queue" /\ pass[p].kind # "run" /\ c \in pass[p].doomed => c \notin pass[p].discussed
  BY DEF ScInv, Spoken
<1>2. ScInv /\ [DuplicatesNext]_duplicatesVars =>
        [\A p \in Passes, c \in Copies :
           /\ pass[p].at = "queue" /\ pass[p].kind # "run"
           /\ c \in pass[p].doomed \ pass'[p].doomed
           /\ removal[c] # "pending" /\ removal'[c] = "pending"
           => c \notin pass[p].discussed]_duplicatesVars
  BY <1>1
<1> QED  BY <1>2, CopiesInductive, PTL DEF DuplicatesSpec, DiscussedIsKept

(* While MangaDex tells the age of what a run compares (createdAt): the    *)
(* pass of a run goes by the order of the listing where it does not.       *)
RunsSeeDates == dated \/ \A p \in Passes : pass[p].kind # "run"

(* A keeper is neither to be deleted nor gone.                             *)
KeepersStay ==
  \A m \in Copies : Keeper(m) =>
    removal[m] = "none" /\ copy[m] # "gone" /\ \A p \in Passes : m \notin pass[p].doomed

LEMMA KeepersInitially == DuplicatesInit => KeepersStay
BY DEF DuplicatesInit, KeepersStay, NoPass

LEMMA KeepersGoOn ==
  ASSUME ScInv, KeepersStay, [DuplicatesNext]_duplicatesVars, RunsSeeDates'
  PROVE  KeepersStay'
<1> USE DuplicatesShapes
<1>0. ASSUME declared' = declared, NEW m \in Copies, Keeper(m)'
      PROVE  /\ Keeper(m) /\ removal[m] = "none" /\ copy[m] # "gone" /\ hand # m
             /\ \A p \in Passes : m \notin pass[p].doomed
  <2>1. Keeper(m)
    BY <1>0 DEF Keeper
  <2> QED  BY <2>1 DEF KeepersStay, LeasedInHand
<1>1. ASSUME NEW p \in Passes, PassTouches(p) PROVE KeepersStay'
  <2>1. SUFFICES ASSUME NEW m \in Copies, Keeper(m)'
                 PROVE  removal'[m] = "none" /\ copy'[m] # "gone" /\ \A e \in Passes : m \notin pass'[e].doomed
    BY DEF KeepersStay
  <2>2. copy' = copy /\ declared' = declared /\ dated' = dated
    BY <1>1 DEF PassTouches
  <2>3. /\ Keeper(m) /\ removal[m] = "none" /\ copy[m] # "gone"
        /\ \A e \in Passes : m \notin pass[e].doomed
    BY <1>0, <2>1, <2>2
  <2>4. removal'[m] = "none"
    BY <1>1, <2>3 DEF PassTouches, CopyTypes
  <2>5. PICK q \in ScanType :
          /\ pass' = [pass EXCEPT ![p] = q]
          /\ q.doomed \subseteq pass[p].doomed \/ q.doomed = FindDuplicateChapters(q.kind, Live)
    BY <1>1 DEF PassTouches, ScanMoves
  <2>6. \A e \in Passes : pass'[e] = IF e = p THEN q ELSE pass[e]
    BY <2>5 DEF CopyTypes
  <2>7. dated \/ q.kind # "run"
    BY <2>2, <2>6 DEF RunsSeeDates
  <2>8. m \notin FindDuplicateChapters(q.kind, Live)
    <3>1. Live \in SUBSET Copies
      BY DEF Live
    <3>2. CASE m \in Live
      BY <2>3, <2>7, <3>1, <3>2, KeepersAreSpared
    <3>3. CASE m \notin Live
      BY <3>3, DoomedWereRead
    <3> QED  BY <3>2, <3>3
  <2>9. m \notin q.doomed
    BY <2>3, <2>5, <2>8
  <2> QED  BY <2>2, <2>3, <2>4, <2>6, <2>9
<1>2. CASE UploaderTouches
  <2>1. SUFFICES ASSUME NEW m \in Copies, Keeper(m)'
                 PROVE  removal'[m] = "none" /\ copy'[m] # "gone" /\ \A e \in Passes : m \notin pass'[e].doomed
    BY DEF KeepersStay
  <2>2. pass' = pass /\ declared' = declared
    BY <1>2 DEF UploaderTouches
  <2>3. /\ removal[m] = "none" /\ copy[m] # "gone" /\ hand # m
        /\ \A e \in Passes : m \notin pass[e].doomed
    BY <1>0, <2>1, <2>2
  <2>4. removal'[m] = "none" /\ copy'[m] # "gone"
    BY <1>2, <2>3 DEF UploaderTouches, CopyTypes
  <2> QED  BY <2>2, <2>3, <2>4
<1>3. CASE WorldTouches
  <2>1. SUFFICES ASSUME NEW m \in Copies, Keeper(m)'
                 PROVE  removal'[m] = "none" /\ copy'[m] # "gone" /\ \A e \in Passes : m \notin pass'[e].doomed
    BY DEF KeepersStay
  <2>2. pass' = pass /\ declared' = declared /\ removal' = removal
    BY <1>3 DEF WorldTouches
  <2>3. removal[m] = "none" /\ copy[m] # "gone" /\ \A e \in Passes : m \notin pass[e].doomed
    BY <1>0, <2>1, <2>2
  <2>4. copy'[m] # "gone"
    BY <1>3, <2>3 DEF WorldTouches, CopyTypes
  <2> QED  BY <2>2, <2>3, <2>4
<1>4. CASE UNCHANGED duplicatesVars
  BY <1>4 DEF duplicatesVars, KeepersStay, Keeper
<1> QED  BY <1>1, <1>2, <1>3, <1>4, PassesTouch, UploaderDeletes, WorldGoesOn DEF DuplicatesNext

(* The oldest of the copies that came, if any came, came before them.      *)
LEMMA OldestCame ==
  ASSUME ScInv, KeepersStay, NEW cs \in SUBSET Copies,
         \A m \in cs : (\A c \in cs : m <= c) => Keeper(m)
  PROVE  Stays(cs)
<1> USE DuplicatesShapes
<1>1. SUFFICES ASSUME NEW c \in cs, copy[c] # "none"
               PROVE  \E m \in cs : copy[m] \in {"live", "carded"}
  BY DEF Stays
<1>2. PICK m \in cs : \A e \in cs : m <= e
  BY Least
<1>3. copy[m] # "none"
  <2>1. m \in Nat /\ c \in Nat /\ m <= c
    BY <1>2
  <2>2. m = c \/ m < c
    BY <2>1
  <2> QED  BY <1>1, <2>2 DEF ComeInOrder
<1>4. copy[m] # "gone"
  BY <1>2 DEF KeepersStay
<1> QED  BY <1>3, <1>4 DEF CopyTypes

LEMMA CopiesOutlive == ScInv /\ KeepersStay => DuplicatesInv
<1> SUFFICES ASSUME ScInv, KeepersStay PROVE DuplicatesInv
  OBVIOUS
<1> USE DuplicatesShapes
<1>1. DuplicatesTypeOK
  <2>1. {c \in Copies : removal[c] = "leased"} = {hand} \ {Nobody}
    BY DEF CopyTypes, LeasedInHand
  <2>2. \A p \in Passes : pass[p].at \in {"idle", "ask", "queue", "unrecord"}
    BY DEF ScanType
  <2> QED  BY <2>1, <2>2 DEF DuplicatesTypeOK, CopyTypes
<1>2. LastCopyStays
  <2>1. CASE declared = {}
    <3>1. \A m \in Copies : (\A c \in Copies : m <= c) => Keeper(m)
      BY <2>1 DEF Keeper
    <3> QED  BY <2>1, <3>1, OldestCame DEF LastCopyStays
  <2>2. CASE declared # {}
    <3>1. ASSUME NEW n \in declared PROVE Stays({c \in Copies : NumberOf[c] = n})
      <4> DEFINE cs == {c \in Copies : NumberOf[c] = n}
      <4>1. \A m \in cs : (\A c \in cs : m <= c) => Keeper(m)
        BY <3>1 DEF Keeper
      <4>2. cs \in SUBSET Copies
        OBVIOUS
      <4> HIDE DEF cs
      <4>3. Stays(cs)
        BY <4>1, <4>2, OldestCame
      <4> QED  BY <4>3 DEF cs
    <3> QED  BY <2>2, <3>1 DEF LastCopyStays
  <2> QED  BY <2>1, <2>2
<1> QED  BY <1>1, <1>2 DEF DuplicatesInv

(* DuplicatesInv: however many passes read, decide and queue deletions at  *)
(* a time, one copy of the link outlives them, or one of every number that *)
(* multi_chapters declares (findDuplicateChapters spares the first), while *)
(* MangaDex tells a run's pass the age of what it compares.                *)
THEOREM OneCopyOutlives == DuplicatesSpec /\ []RunsSeeDates => []DuplicatesInv
<1>1. DuplicatesInit => ScInv /\ KeepersStay
  BY DuplicatesInitially, KeepersInitially
<1>2. ScInv /\ KeepersStay /\ [DuplicatesNext]_duplicatesVars /\ RunsSeeDates' => (ScInv /\ KeepersStay)'
  BY CopiesStand, KeepersGoOn
<1> QED  BY <1>1, <1>2, CopiesOutlive, PTL DEF DuplicatesSpec
=============================================================================
