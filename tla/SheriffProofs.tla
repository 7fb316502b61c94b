----------------------------- MODULE SheriffProofs -----------------------------
(* Theorems about what the sheriff's daemon keeps: the records of the      *)
(* precincts, the judges, and the Field Guide.                             *)
EXTENDS Sheriff, Judges, FieldGuide, FiniteSetTheorems, TLAPS

(***************************************************************************)
(* The records.  A move of a directory overwrites nothing: a directory     *)
(* that is not there is empty, the trash of a deletion is a new one, and a *)
(* restore finds none in its place.  And of two that append, with no move  *)
(* in between, one has the lock of the other's directory.  So what was     *)
(* filed is lost only where it is meant to be, in a rewrite, a retraction, *)
(* or a purge, and by appends that a move disturbed: what another append   *)
(* does not know came from those, and they know nothing that is nowhere    *)
(* else.                                                                   *)
(***************************************************************************)

Content(p, f)    == records[p].has[f]
Gone(f)          == removed[f] \cup purged[f] \cup astray[f]
InTrash(x, p, f) == \E i \in TrashIds : x \in trash[p][i].has[f]
Safe(x, p, f)    == x \in Gone(f) \/ InTrash(x, p, f)
Reads(c, p, f)   == appends[c].step = "read" /\ CaseIn[c] = p /\ FileOf(c) = f

AbsentIsEmpty ==
    /\ \A p \in Precincts : ~records[p].there => records[p] = NoDir
    /\ \A p \in Precincts, i \in TrashIds : ~trash[p][i].there => trash[p][i] = NoDir

DeletedHasTrash ==
    \A p \in Precincts : directory[p].status = "deleted" => directory[p].trash \in TrashIds

AppendsFit ==
    \A c \in ClosedCases :
       appends[c].step # "none" => caseStep[c] \in {"working", "reported"}

UndisturbedHoldTheLock ==
    \A c \in ClosedCases : appends[c].step # "none" /\ c \notin disturbed =>
       /\ records[CaseIn[c]].there
       /\ appends[c].lock = records[CaseIn[c]].id

OneHolds ==
    \A c, e \in ClosedCases, p \in Precincts, f \in Files :
       Reads(c, p, f) /\ Reads(e, p, f) /\ appends[c].lock = appends[e].lock => c = e

ReadersKnow ==
    \A c \in ClosedCases, p \in Precincts, f \in Files :
       Reads(c, p, f) /\ c \notin disturbed =>
          \A x \in Content(p, f) \ appends[c].seen : Safe(x, p, f)

SeenIsKnown ==
    \A c \in ClosedCases, p \in Precincts, f \in Files :
       Reads(c, p, f) =>
          \A x \in appends[c].seen : Safe(x, p, f) \/ x \in Content(p, f)

FilesAreKept ==
    \A c \in ClosedCases, f \in Files :
       Filed(c, f) => Safe(c, CaseIn[c], f) \/ c \in Content(CaseIn[c], f)

RecordForm == RecordTypeOK /\ AbsentIsEmpty /\ DeletedHasTrash
AppendInv  == /\ AppendsFit /\ UndisturbedHoldTheLock /\ OneHolds
              /\ ReadersKnow /\ SeenIsKnown /\ FilesAreKept
RecordInv  == RecordForm /\ AppendInv

\* A retraction's lock keeps out whoever holds the directory's lock.
Alone(p, f) == \A c \in ClosedCases : Reads(c, p, f) => c \in disturbed

\* What a retraction is about to write loses nothing but its case.
Sparing(p, c, kept) ==
    \A x \in Content(p, "log") \ kept : x = c \/ Safe(x, p, "log")

\* What a step does to the records, with what its actor has made sure of.
RecordMove ==
    \/ \E c \in ClosedCases :
          \/ TakesCase(c) \/ AppendOpen(c) \/ AppendWrite(c) \/ AppendFails(c)
          \/ \E others \in BOOLEAN : AppendRead(c, others)
    \/ \E p \in Precincts :
          \/ Make(p) /\ UNCHANGED <<directory, trash, removed, theCases>>
          \/ \E kept \in SUBSET ClosedCases : LedgerWrite(p, kept)
          \/ \E kept \in SUBSET ClosedCases, c \in ClosedCases :
                Alone(p, "log") /\ Sparing(p, c, kept) /\ LogWrite(p, c, kept)
          \/ Registrable(p) /\ DirectoryRegister(p)
          \/ \E i \in TrashIds : \/ NewTrash(p, i) /\ DeleteMove(p, i)
                                 \/ DeleteEntry(p, i)
          \/ Restorable(p) /\ RestoreMove(p)
          \/ RestoreEntry(p)
          \/ PendingPurge(p) /\ PurgeTrash(p)
          \/ PurgeEntry(p)
          \/ RetentionEnds(p)

LEMMA BlankIsContent ==
  /\ Blank \in Contents /\ NoDir \in Dirs /\ ~NoDir.there /\ NoDir.has = Blank
  /\ \A f \in Files : Blank[f] = {}
BY DEF Blank, Contents, NoDir, Dirs

LEMMA RecordInvInit == RecordInit => RecordInv
<1> SUFFICES ASSUME RecordInit PROVE RecordInv
  OBVIOUS
<1>1. RecordForm
  <2>1. [there |-> TRUE, id |-> 1, has |-> Blank] \in Dirs
    BY BlankIsContent DEF Dirs
  <2>2. /\ records \in [Precincts -> Dirs] /\ trash \in [Precincts -> [TrashIds -> Dirs]]
        /\ \A p \in Precincts : records[p].there
        /\ \A p \in Precincts, i \in TrashIds : trash[p][i] = NoDir
    BY <2>1, BlankIsContent DEF RecordInit
  <2>3. /\ \A p \in Precincts : directory[p].status = "active"
        /\ directory \in [Precincts -> [status : {"none", "active", "deleted"},
                                        trash : TrashIds \cup {0}, over : BOOLEAN]]
        /\ made \in [Precincts -> Nat]
    BY DEF RecordInit
  <2>4. /\ caseStep \in [ClosedCases -> {"none", "working", "reported", "closed"}]
        /\ appends \in [ClosedCases -> [step : {"none", "open", "read"}, lock : Nat,
                                        seen : SUBSET ClosedCases]]
        /\ disturbed \subseteq ClosedCases
        /\ removed \in Contents /\ purged \in Contents /\ astray \in Contents
    BY BlankIsContent DEF RecordInit, NoAppend
  <2> QED
    BY <2>2, <2>3, <2>4 DEF RecordForm, RecordTypeOK, AbsentIsEmpty, DeletedHasTrash
<1>2. /\ \A c \in ClosedCases : appends[c].step = "none" /\ caseStep[c] = "none"
  BY DEF RecordInit, NoAppend
<1>3. AppendInv
  BY <1>2 DEF AppendInv, AppendsFit, UndisturbedHoldTheLock, OneHolds, ReadersKnow,
              SeenIsKnown, FilesAreKept, Reads, Filed
<1> QED BY <1>1, <1>3 DEF RecordInv

\* What a directory is after something was put into it.
LEMMA Filled ==
  ASSUME RecordForm, NEW p \in Precincts, NEW has \in Contents, Fill(p, has)
  PROVE  /\ records' \in [Precincts -> Dirs] /\ made' \in [Precincts -> Nat]
         /\ records'[p].there /\ records'[p].has = has
         /\ records'[p].id = Here(p).id
         /\ records[p].there => records'[p].id = records[p].id
         /\ \A q \in Precincts \ {p} : records'[q] = records[q]
<1> USE DEF RecordForm, RecordTypeOK
<1>1. Here(p) \in Dirs /\ Here(p).there /\ (records[p].there => Here(p) = records[p])
  BY BlankIsContent DEF Here, Dirs
<1>2. PICK dir : dir = [Here(p) EXCEPT !.has = has]
  OBVIOUS
<1>3. dir \in Dirs /\ dir.there /\ dir.has = has /\ dir.id = Here(p).id
  BY <1>1, <1>2 DEF Dirs
<1>4. records' = [records EXCEPT ![p] = dir]
  BY <1>2, Zenon DEF Fill
<1>5. made' \in [Precincts -> Nat]
  BY DEF Fill
<1> QED BY <1>1, <1>3, <1>4, <1>5

LEMMA ContentsHere ==
  ASSUME RecordForm, NEW p \in Precincts
  PROVE  /\ records[p].has \in Contents
         /\ ~records[p].there => \A f \in Files : Content(p, f) = {}
BY BlankIsContent DEF RecordForm, RecordTypeOK, AbsentIsEmpty, Dirs, Content

LEMMA Maked ==
  ASSUME RecordForm, NEW p \in Precincts, Make(p)
  PROVE  /\ records' \in [Precincts -> Dirs] /\ made' \in [Precincts -> Nat]
         /\ records'[p].there /\ records'[p].id = Here(p).id
         /\ \A q \in Precincts : /\ records[q].there => /\ records'[q].there
                                                        /\ records'[q].id = records[q].id
                                 /\ ~records'[q].there => records'[q] = records[q]
                                 /\ records'[q].has = records[q].has
BY Filled, ContentsHere DEF Make

\* A step that files nothing: what it takes out of a file is gone or in the trash, and
\* who knew a file still does, or is disturbed, or was kept out.
LEMMA NothingFiled ==
  ASSUME RecordInv, UNCHANGED <<caseStep, appends>>, disturbed \subseteq disturbed',
         \A p \in Precincts, f \in Files :
            /\ \A x : Safe(x, p, f) \/ x \in Content(p, f) =>
                      Safe(x, p, f)' \/ x \in Content(p, f)'
            /\ \/ /\ Content(p, f)' \subseteq Content(p, f)
                  /\ \A x : Safe(x, p, f) => Safe(x, p, f)'
               \/ \A c \in ClosedCases : Reads(c, p, f) => c \in disturbed',
         \A c \in ClosedCases : appends[c].step # "none" /\ c \notin disturbed' =>
            /\ records'[CaseIn[c]].there
            /\ records'[CaseIn[c]].id = records[CaseIn[c]].id
  PROVE  AppendInv'
<1> USE DEF RecordInv, AppendInv
<1>a. /\ \A c : FileOf(c)' = FileOf(c)
      /\ \A c, p, f : Reads(c, p, f)' <=> Reads(c, p, f)
      /\ \A c, f : Filed(c, f)' <=> Filed(c, f)
      /\ \A c \in ClosedCases : CaseIn[c] \in Precincts
  BY RecordsAssumption DEF FileOf, Reads, Filed, ClosedCases
<1>1. AppendsFit' BY DEF AppendsFit
<1>2. UndisturbedHoldTheLock' BY DEF UndisturbedHoldTheLock
<1>3. OneHolds' BY <1>a DEF OneHolds
<1>4. ReadersKnow'
  <2> SUFFICES ASSUME NEW c \in ClosedCases, NEW p \in Precincts, NEW f \in Files,
                      Reads(c, p, f), c \notin disturbed',
                      NEW x \in Content(p, f)' \ appends[c].seen
               PROVE  Safe(x, p, f)'
    BY <1>a DEF ReadersKnow
  <2> QED BY DEF ReadersKnow
<1>5. SeenIsKnown' BY <1>a DEF SeenIsKnown
<1>6. FilesAreKept' BY <1>a DEF FilesAreKept
<1> QED BY <1>1, <1>2, <1>3, <1>4, <1>5, <1>6

\* A step of a case that writes nothing: an append begins, reads, or ends.
LEMMA NothingWritten ==
  ASSUME RecordInv, NEW c \in ClosedCases,
         \A d \in ClosedCases \ {c} :
            appends'[d] = appends[d] /\ caseStep'[d] = caseStep[d],
         disturbed' \in {disturbed, disturbed \ {c}},
         \A p \in Precincts, f \in Files : Content(p, f)' = Content(p, f),
         UNCHANGED <<trash, removed, purged, astray>>,
         \A p \in Precincts :
            records[p].there => records'[p].there /\ records'[p].id = records[p].id,
         \A f \in Files : Filed(c, f)' <=> Filed(c, f),
         appends'[c].step # "none" =>
            /\ caseStep'[c] \in {"working", "reported"}
            /\ c \notin disturbed' => /\ records'[CaseIn[c]].there
                                      /\ appends'[c].lock = records'[CaseIn[c]].id,
         \A p \in Precincts, f \in Files : Reads(c, p, f)' =>
            /\ appends'[c].seen = Content(p, f)
            /\ \A d \in ClosedCases \ {c} :
                  Reads(d, p, f) => appends[d].lock # appends'[c].lock
  PROVE  AppendInv'
<1> USE DEF RecordInv, AppendInv
<1>a. /\ \A d \in ClosedCases \ {c} :
            /\ FileOf(d)' = FileOf(d)
            /\ \A p, f : Reads(d, p, f)' <=> Reads(d, p, f)
            /\ \A f : Filed(d, f)' <=> Filed(d, f)
            /\ d \in disturbed' <=> d \in disturbed
      /\ \A d \in ClosedCases : CaseIn[d] \in Precincts
      /\ \A x, p, f : Safe(x, p, f)' <=> Safe(x, p, f)
  BY RecordsAssumption DEF FileOf, Reads, Filed, ClosedCases, Safe, Gone, InTrash
<1>1. AppendsFit' BY <1>a DEF AppendsFit
<1>2. UndisturbedHoldTheLock' BY <1>a DEF UndisturbedHoldTheLock
<1>3. OneHolds' BY <1>a DEF OneHolds
<1>4. ReadersKnow'
  <2> SUFFICES ASSUME NEW d \in ClosedCases, NEW p \in Precincts, NEW f \in Files,
                      Reads(d, p, f)', d \notin disturbed',
                      NEW x \in Content(p, f) \ appends'[d].seen
               PROVE  Safe(x, p, f)
    BY <1>a DEF ReadersKnow
  <2> QED BY <1>a DEF ReadersKnow
<1>5. SeenIsKnown' BY <1>a DEF SeenIsKnown
<1>6. FilesAreKept' BY <1>a DEF FilesAreKept
<1> QED BY <1>1, <1>2, <1>3, <1>4, <1>5, <1>6

\* What an append makes of its file: what it read and its own.
LEMMA WhatIsWritten ==
  ASSUME RecordInv, NEW c \in ClosedCases, AppendWrite(c),
         NEW p \in Precincts, NEW f \in Files, p = CaseIn[c], f = FileOf(c)
  PROVE  /\ Reads(c, p, f) /\ caseStep[c] \in {"working", "reported"}
         /\ Content(p, f)' = appends[c].seen \cup {c}
         /\ \A q \in Precincts, g \in Files :
               q # p \/ g # f => Content(q, g)' = Content(q, g)
         /\ \A q \in Precincts : records[q].there => /\ records'[q].there
                                                     /\ records'[q].id = records[q].id
         /\ appends' = [appends EXCEPT ![c] = NoAppend] /\ disturbed' = disturbed \ {c}
         /\ caseStep' = [caseStep EXCEPT ![c] = IF f = "ledger" THEN "reported"
                                                ELSE "closed"]
         /\ \A x, q : \A g \in Files : Safe(x, q, g) => Safe(x, q, g)'
         /\ c \in disturbed =>
               /\ Safe(c, p, f)'
               /\ \A x \in Content(p, f) \ appends[c].seen : Safe(x, p, f)'
<1> USE DEF RecordInv, AppendInv
<1>p. PICK new \in SUBSET ClosedCases : new = appends[c].seen \cup {c}
  BY DEF RecordForm, RecordTypeOK
<1>a. Reads(c, p, f) /\ caseStep[c] \in {"working", "reported"}
  BY DEF AppendWrite, Reads, AppendsFit
<1>b. /\ [records[p].has EXCEPT ![f] = new] \in Contents
      /\ [records[p].has EXCEPT ![f] = new][f] = new
      /\ \A g \in Files \ {f} : [records[p].has EXCEPT ![f] = new][g] = records[p].has[g]
  BY <1>a, ContentsHere DEF Contents
<1>c. Fill(p, [records[p].has EXCEPT ![f] = new])
  BY <1>p DEF AppendWrite, Replace
<1>d. /\ Content(p, f)' = new
      /\ \A g \in Files \ {f} : Content(p, g)' = Content(p, g)
      /\ \A q \in Precincts \ {p} : \A g : Content(q, g)' = Content(q, g)
      /\ \A q \in Precincts : records[q].there => /\ records'[q].there
                                                  /\ records'[q].id = records[q].id
  <2>1. /\ records'[p].has = [records[p].has EXCEPT ![f] = new]
        /\ records[p].there => records'[p].there /\ records'[p].id = records[p].id
        /\ \A q \in Precincts \ {p} : records'[q] = records[q]
    BY <1>a, <1>b, <1>c, Filled
  <2>2. PICK has : has = [records[p].has EXCEPT ![f] = new]
    OBVIOUS
  <2> QED BY <1>b, <2>1, <2>2 DEF Content
<1>e. /\ appends' = [appends EXCEPT ![c] = NoAppend] /\ disturbed' = disturbed \ {c}
      /\ UNCHANGED <<trash, removed, purged>>
      /\ caseStep' = [caseStep EXCEPT ![c] = IF f = "ledger" THEN "reported" ELSE "closed"]
      /\ astray' = [astray EXCEPT
                      ![f] = IF c \in disturbed
                             THEN @ \cup (Content(p, f) \ appends[c].seen) \cup {c} ELSE @]
  BY <1>p DEF AppendWrite, AppendEnds, Content
<1>f. /\ \A x, q : \A g \in Files : Safe(x, q, g) => Safe(x, q, g)'
      /\ c \in disturbed => Safe(c, p, f)'
      /\ c \in disturbed =>
            \A x \in Content(p, f) \ appends[c].seen : Safe(x, p, f)'
  <2>1. /\ \A g \in Files : Gone(g) \subseteq Gone(g)'
        /\ c \in disturbed => /\ c \in Gone(f)'
                              /\ Content(p, f) \ appends[c].seen \subseteq Gone(f)'
    BY <1>a, <1>e DEF Gone, RecordForm, RecordTypeOK, Contents
  <2> QED BY <1>e, <2>1 DEF Safe, InTrash
<1> QED BY <1>a, <1>d, <1>e, <1>f, <1>p

\* Who reads that file undisturbed holds its lock, so one of two is disturbed, and what
\* it puts there is astray or known.
LEMMA AppendWritten ==
  ASSUME RecordInv, NEW c \in ClosedCases, AppendWrite(c)
  PROVE  AppendInv'
<1> USE DEF RecordInv, AppendInv
<1>p. PICK p \in Precincts, f \in Files : p = CaseIn[c] /\ f = FileOf(c)
  BY RecordsAssumption DEF FileOf, Files, ClosedCases
<1>a. Reads(c, p, f) /\ caseStep[c] \in {"working", "reported"}
  BY <1>p, WhatIsWritten
<1>d. /\ Content(p, f)' = appends[c].seen \cup {c}
      /\ \A q \in Precincts, g \in Files :
            q # p \/ g # f => Content(q, g)' = Content(q, g)
      /\ \A q \in Precincts : records[q].there => /\ records'[q].there
                                                  /\ records'[q].id = records[q].id
  BY <1>p, WhatIsWritten
<1>e. /\ appends' = [appends EXCEPT ![c] = NoAppend] /\ disturbed' = disturbed \ {c}
      /\ caseStep' = [caseStep EXCEPT ![c] = IF f = "ledger" THEN "reported" ELSE "closed"]
  BY <1>p, WhatIsWritten
<1>f. /\ \A d \in ClosedCases \ {c} :
            /\ appends'[d] = appends[d]
            /\ caseStep'[d] = caseStep[d]
            /\ FileOf(d)' = FileOf(d)
            /\ \A q, g : Reads(d, q, g)' <=> Reads(d, q, g)
            /\ \A g : Filed(d, g)' <=> Filed(d, g)
            /\ d \in disturbed' <=> d \in disturbed
      /\ \A q, g : ~Reads(c, q, g)'
      /\ appends'[c].step = "none"
      /\ \A d \in ClosedCases : CaseIn[d] \in Precincts
  BY <1>e, RecordsAssumption
  DEF FileOf, Reads, Filed, ClosedCases, NoAppend, RecordForm, RecordTypeOK
<1>g. /\ \A x, q : \A g \in Files : Safe(x, q, g) => Safe(x, q, g)'
      /\ c \in disturbed => Safe(c, p, f)'
      /\ c \in disturbed =>
            \A x \in Content(p, f) \ appends[c].seen : Safe(x, p, f)'
  BY <1>p, WhatIsWritten
\* What was in the file and is not any more.
<1>h. ASSUME NEW x \in Content(p, f) PROVE x \in Content(p, f)' \/ Safe(x, p, f)'
  <2>1. c \notin disturbed /\ x \notin appends[c].seen => Safe(x, p, f)
    BY <1>a, <1>h DEF ReadersKnow
  <2> QED BY <1>d, <1>g, <1>h, <1>p, <2>1
<1>1. AppendsFit' BY <1>f DEF AppendsFit
<1>2. UndisturbedHoldTheLock' BY <1>d, <1>f DEF UndisturbedHoldTheLock
<1>3. OneHolds' BY <1>f DEF OneHolds
<1>4. ReadersKnow'
  <2> SUFFICES ASSUME NEW d \in ClosedCases, d # c, NEW q \in Precincts, NEW g \in Files,
                      Reads(d, q, g), d \notin disturbed,
                      NEW x \in Content(q, g)' \ appends[d].seen
               PROVE  Safe(x, q, g)'
    BY <1>f DEF ReadersKnow
  <2>1. CASE x \in Content(q, g)
    BY <1>g, <2>1 DEF ReadersKnow
  <2>2. CASE x \notin Content(q, g)
    <3>1. q = p /\ g = f /\ (x = c \/ x \in appends[c].seen)
      BY <1>d, <2>2
    <3>2. c \in disturbed
      BY <1>a, <3>1 DEF OneHolds, UndisturbedHoldTheLock, Reads
    <3>3. x = c \/ Safe(x, p, f)
      BY <1>a, <1>p, <2>2, <3>1 DEF SeenIsKnown
    <3> QED BY <1>a, <1>g, <3>1, <3>2, <3>3
  <2> QED BY <2>1, <2>2
<1>5. SeenIsKnown'
  <2> SUFFICES ASSUME NEW d \in ClosedCases, d # c, NEW q \in Precincts, NEW g \in Files,
                      Reads(d, q, g), NEW x \in appends[d].seen
               PROVE  Safe(x, q, g)' \/ x \in Content(q, g)'
    BY <1>f DEF SeenIsKnown
  <2>1. Safe(x, q, g) \/ x \in Content(q, g)
    BY DEF SeenIsKnown
  <2> QED BY <1>d, <1>g, <1>h, <2>1
<1>6. FilesAreKept'
  <2> SUFFICES ASSUME NEW d \in ClosedCases, NEW g \in Files, Filed(d, g)'
               PROVE  Safe(d, CaseIn[d], g)' \/ d \in Content(CaseIn[d], g)'
    BY DEF FilesAreKept
  <2>1. CASE Filed(d, g)
    <3>1. Safe(d, CaseIn[d], g) \/ d \in Content(CaseIn[d], g)
      BY <2>1 DEF FilesAreKept
    <3> QED BY <1>d, <1>f, <1>g, <1>h, <3>1
  <2>2. CASE ~Filed(d, g)
    <3>1. d = c
      BY <1>f, <2>2
    <3>2. g = f
      BY <1>a, <1>e, <1>p, <2>2, <3>1 DEF Filed, FileOf, Files, RecordForm, RecordTypeOK
    <3> QED BY <1>d, <1>p, <3>1, <3>2
  <2> QED BY <2>1, <2>2
<1> QED BY <1>1, <1>2, <1>3, <1>4, <1>5, <1>6

LEMMA CaseStepInv ==
  ASSUME RecordInv, NEW c \in ClosedCases, NEW others \in BOOLEAN,
         \/ TakesCase(c) \/ AppendOpen(c) \/ AppendWrite(c) \/ AppendFails(c)
         \/ AppendRead(c, others)
  PROVE  AppendInv'
<1> USE DEF RecordInv, AppendInv
<1>a. /\ CaseIn[c] \in Precincts
      /\ DOMAIN appends = ClosedCases /\ DOMAIN caseStep = ClosedCases
      /\ appends[c].step \in {"none", "open", "read"}
  BY RecordsAssumption DEF ClosedCases, RecordForm, RecordTypeOK
<1>1. CASE TakesCase(c)
  <2>1. appends[c].step = "none" /\ caseStep'[c] = "working"
    BY <1>1, <1>a DEF TakesCase, AppendsFit
  <2> QED BY <1>1, <1>a, <2>1, NothingWritten DEF TakesCase, Content, Filed, Reads
<1>2. CASE AppendOpen(c)
  <2>1. /\ records'[CaseIn[c]].there /\ records'[CaseIn[c]].id = Here(CaseIn[c]).id
        /\ \A q \in Precincts : /\ records[q].there => /\ records'[q].there
                                                       /\ records'[q].id = records[q].id
                                /\ records'[q].has = records[q].has
    BY <1>2, <1>a, Maked DEF AppendOpen
  <2>2. /\ appends'[c].step = "open" /\ appends'[c].lock = Here(CaseIn[c]).id
        /\ \A d \in ClosedCases \ {c} : appends'[d] = appends[d]
        /\ caseStep[c] \in {"working", "reported"}
        /\ UNCHANGED <<directory, trash, caseStep, disturbed, removed, purged, astray>>
    BY <1>2, <1>a DEF AppendOpen
  <2> QED BY <1>a, <2>1, <2>2, NothingWritten DEF Content, Filed, Reads
<1>3. CASE AppendWrite(c)
  BY <1>3, AppendWritten
<1>4. CASE AppendFails(c)
  <2>1. /\ appends'[c].step = "none"
        /\ \A d \in ClosedCases \ {c} : appends'[d] = appends[d]
    BY <1>4, <1>a DEF AppendFails, AppendEnds, NoAppend
  <2> QED
    BY <1>4, <2>1, NothingWritten DEF AppendFails, AppendEnds, Content, Filed, Reads
<1>5. CASE AppendRead(c, others)
  <2>1. /\ appends[c].step = "open" /\ appends'[c].step = "read"
        /\ appends'[c].lock = appends[c].lock
        /\ appends'[c].seen = Content(CaseIn[c], FileOf(c))
        /\ \A d \in ClosedCases \ {c} : appends'[d] = appends[d]
        /\ \A d \in ClosedCases :
              Reads(d, CaseIn[c], FileOf(c)) => appends[d].lock # appends[c].lock
        /\ UNCHANGED <<directory, records, trash, caseStep, disturbed, removed, purged,
                       astray>>
    BY <1>5, <1>a
    DEF AppendRead, Content, Locked, Holds, Reads, RecordForm, RecordTypeOK
  <2>2. \A p, f : Reads(c, p, f)' => p = CaseIn[c] /\ f = FileOf(c)
    BY <2>1 DEF Reads, FileOf
  <2>3. /\ caseStep[c] \in {"working", "reported"}
        /\ c \notin disturbed => /\ records[CaseIn[c]].there
                                 /\ appends[c].lock = records[CaseIn[c]].id
    BY <2>1 DEF AppendsFit, UndisturbedHoldTheLock
  <2> QED BY <1>a, <2>1, <2>2, <2>3, NothingWritten DEF Content, Filed
<1> QED BY <1>1, <1>2, <1>3, <1>4, <1>5

LEMMA FormAfterFill ==
  ASSUME RecordForm, NEW p \in Precincts, NEW has \in Contents, Fill(p, has),
         DeletedHasTrash', UNCHANGED trash
  PROVE  /\ records' \in [Precincts -> Dirs] /\ made' \in [Precincts -> Nat]
         /\ trash' \in [Precincts -> [TrashIds -> Dirs]]
         /\ AbsentIsEmpty' /\ DeletedHasTrash'
<1>1. /\ records' \in [Precincts -> Dirs] /\ made' \in [Precincts -> Nat]
      /\ records'[p].there
      /\ \A q \in Precincts \ {p} : records'[q] = records[q]
  BY Filled
<1> QED BY <1>1 DEF RecordForm, RecordTypeOK, AbsentIsEmpty, DeletedHasTrash

\* The form of the records, whoever steps.
LEMMA RecordFormStep == RecordForm /\ RecordMove => RecordForm'
<1> SUFFICES ASSUME RecordForm, RecordMove PROVE RecordForm'
  OBVIOUS
<1> DEFINE Entry == [status : {"none", "active", "deleted"}, trash : TrashIds \cup {0},
                     over : BOOLEAN]
           Append == [step : {"none", "open", "read"}, lock : Nat, seen : SUBSET ClosedCases]
           CaseSteps == {"none", "working", "reported", "closed"}
<1>a. /\ directory \in [Precincts -> Entry]
      /\ records \in [Precincts -> Dirs] /\ trash \in [Precincts -> [TrashIds -> Dirs]]
      /\ made \in [Precincts -> Nat] /\ caseStep \in [ClosedCases -> CaseSteps]
      /\ appends \in [ClosedCases -> Append] /\ disturbed \subseteq ClosedCases
      /\ removed \in Contents /\ purged \in Contents /\ astray \in Contents
      /\ AbsentIsEmpty /\ DeletedHasTrash
  BY DEF RecordForm, RecordTypeOK
<1>b. /\ \A q \in Precincts : records[q].has \in Contents /\ records[q].id \in Nat
      /\ \A c \in ClosedCases : CaseIn[c] \in Precincts
      /\ \A c : FileOf(c) \in Files
      /\ "ledger" \in Files /\ "log" \in Files
  BY <1>a, RecordsAssumption DEF Dirs, ClosedCases, FileOf, Files
<1>c. \A q \in Precincts : Here(q).id \in Nat
  BY <1>a DEF Here, Dirs
<1>d. \A q \in Precincts, f \in Files, content \in SUBSET ClosedCases :
         [records[q].has EXCEPT ![f] = content] \in Contents
  BY <1>b DEF Contents
<1>e. \A f \in Files, more \in SUBSET ClosedCases :
         [removed EXCEPT ![f] = @ \cup more] \in Contents
  BY <1>a DEF Contents
<1>q. ASSUME /\ directory' \in [Precincts -> Entry]
             /\ records' \in [Precincts -> Dirs] /\ trash' \in [Precincts -> [TrashIds -> Dirs]]
             /\ made' \in [Precincts -> Nat] /\ caseStep' \in [ClosedCases -> CaseSteps]
             /\ appends' \in [ClosedCases -> Append] /\ disturbed' \subseteq ClosedCases
             /\ removed' \in Contents /\ purged' \in Contents /\ astray' \in Contents
             /\ AbsentIsEmpty' /\ DeletedHasTrash'
      PROVE  RecordForm'
  BY <1>q DEF RecordForm, RecordTypeOK
<1> HIDE DEF Entry, Append, CaseSteps
<1>1. ASSUME NEW c \in ClosedCases, TakesCase(c) PROVE RecordForm'
  <2>1. caseStep' \in [ClosedCases -> CaseSteps]
    BY <1>1, <1>a DEF TakesCase, CaseSteps
  <2> QED BY <1>1, <1>a, <1>q, <2>1 DEF TakesCase, AbsentIsEmpty, DeletedHasTrash
<1>2. ASSUME NEW c \in ClosedCases, AppendOpen(c) PROVE RecordForm'
  <2>1. appends' \in [ClosedCases -> Append]
    BY <1>2, <1>a, <1>b, <1>c DEF AppendOpen, Append
  <2>2. Fill(CaseIn[c], records[CaseIn[c]].has) /\ UNCHANGED <<directory, trash>>
    BY <1>2 DEF AppendOpen, Make
  <2>3. /\ records' \in [Precincts -> Dirs] /\ made' \in [Precincts -> Nat]
        /\ trash' \in [Precincts -> [TrashIds -> Dirs]]
        /\ AbsentIsEmpty' /\ DeletedHasTrash'
    BY <1>a, <1>b, <2>2, FormAfterFill DEF DeletedHasTrash
  <2> QED BY <1>2, <1>a, <1>q, <2>1, <2>3 DEF AppendOpen
<1>3. ASSUME NEW c \in ClosedCases, NEW others \in BOOLEAN, AppendRead(c, others)
      PROVE  RecordForm'
  <2>1. PICK seen \in SUBSET ClosedCases : seen = records[CaseIn[c]].has[FileOf(c)]
    BY <1>b DEF Contents
  <2>2. PICK new : new = [appends[c] EXCEPT !.step = "read", !.seen = seen]
    OBVIOUS
  <2>3. new \in Append
    <3>1. appends[c] \in Append BY <1>a
    <3>2. "read" \in {"none", "open", "read"} OBVIOUS
    <3> QED BY <2>2, <3>1, <3>2 DEF Append
  <2>4. appends' = [appends EXCEPT ![c] = new]
    BY <1>3, <2>1, <2>2, Zenon DEF AppendRead
  <2> QED BY <1>3, <1>a, <1>q, <2>3, <2>4 DEF AppendRead, AbsentIsEmpty, DeletedHasTrash
<1>4. ASSUME NEW c \in ClosedCases, AppendWrite(c) PROVE RecordForm'
  <2>1. PICK f \in Files, new \in SUBSET ClosedCases :
           /\ f = FileOf(c) /\ new = appends[c].seen \cup {c}
    BY <1>a, <1>b DEF Append
  <2>2. /\ appends' \in [ClosedCases -> Append] /\ disturbed' \subseteq ClosedCases
        /\ caseStep' \in [ClosedCases -> CaseSteps]
    BY <1>4, <1>a DEF AppendWrite, AppendEnds, NoAppend, Append, CaseSteps
  <2>3. records[CaseIn[c]].has[f] \in SUBSET ClosedCases
    BY <1>b DEF Contents
  <2>4. astray' \in Contents
    BY <1>4, <1>a, <2>1, <2>3 DEF AppendWrite, Contents
  <2>5. /\ [records[CaseIn[c]].has EXCEPT ![f] = new] \in Contents
        /\ Fill(CaseIn[c], [records[CaseIn[c]].has EXCEPT ![f] = new])
        /\ UNCHANGED <<directory, trash, removed, purged>>
    BY <1>4, <1>b, <1>d, <2>1 DEF AppendWrite, Replace
  <2>6. /\ records' \in [Precincts -> Dirs] /\ made' \in [Precincts -> Nat]
        /\ trash' \in [Precincts -> [TrashIds -> Dirs]]
        /\ AbsentIsEmpty' /\ DeletedHasTrash'
    BY <1>a, <1>b, <2>5, FormAfterFill DEF DeletedHasTrash
  <2> QED BY <1>a, <1>q, <2>2, <2>4, <2>5, <2>6
<1>5. ASSUME NEW c \in ClosedCases, AppendFails(c) PROVE RecordForm'
  <2>1. appends' \in [ClosedCases -> Append] /\ disturbed' \subseteq ClosedCases
    BY <1>5, <1>a DEF AppendFails, AppendEnds, NoAppend, Append
  <2> QED BY <1>5, <1>a, <1>q, <2>1 DEF AppendFails, AbsentIsEmpty, DeletedHasTrash
<1>6. ASSUME NEW p \in Precincts, NEW has \in Contents, Fill(p, has),
             directory' \in [Precincts -> Entry], DeletedHasTrash',
             removed' \in Contents, UNCHANGED <<trash, theCases>>
      PROVE  RecordForm'
  <2>1. /\ records' \in [Precincts -> Dirs] /\ made' \in [Precincts -> Nat]
        /\ trash' \in [Precincts -> [TrashIds -> Dirs]] /\ AbsentIsEmpty'
    BY <1>6, FormAfterFill
  <2> QED BY <1>6, <1>a, <1>q, <2>1 DEF theCases
<1>7. ASSUME NEW p \in Precincts, Make(p), UNCHANGED <<directory, trash, removed, theCases>>
      PROVE  RecordForm'
  BY <1>6, <1>7, <1>a, <1>b DEF Make, DeletedHasTrash
<1>8. ASSUME NEW p \in Precincts, NEW kept \in SUBSET ClosedCases, LedgerWrite(p, kept)
      PROVE  RecordForm'
  <2>1. records[p].has["ledger"] \ kept \in SUBSET ClosedCases
    BY <1>b DEF Contents
  <2> QED BY <1>6, <1>8, <1>a, <1>b, <1>d, <1>e, <2>1 DEF LedgerWrite, Replace, DeletedHasTrash
<1>9. ASSUME NEW p \in Precincts, NEW kept \in SUBSET ClosedCases, NEW c \in ClosedCases,
             LogWrite(p, c, kept)
      PROVE  RecordForm'
  BY <1>6, <1>9, <1>a, <1>b, <1>d, <1>e DEF LogWrite, Replace, DeletedHasTrash
<1>10. ASSUME NEW p \in Precincts, Registrable(p), DirectoryRegister(p) PROVE RecordForm'
  <2>1. directory' \in [Precincts -> Entry] /\ DeletedHasTrash'
    BY <1>10, <1>a DEF DirectoryRegister, DeletedHasTrash, Entry
  <2> QED BY <1>6, <1>10, <1>a, <1>b, <2>1 DEF DirectoryRegister, Make
<1>11. ASSUME NEW p \in Precincts, NEW i \in TrashIds, DeleteMove(p, i) PROVE RecordForm'
  <2>1. /\ records' \in [Precincts -> Dirs] /\ trash' \in [Precincts -> [TrashIds -> Dirs]]
        /\ Appending(p) \subseteq ClosedCases
    BY <1>11, <1>a, BlankIsContent DEF DeleteMove, Appending
  <2>2. AbsentIsEmpty'
    BY <1>11, <1>a, BlankIsContent DEF DeleteMove, AbsentIsEmpty
  <2> QED BY <1>11, <1>a, <1>q, <2>1, <2>2 DEF DeleteMove, DeletedHasTrash
<1>12. ASSUME NEW p \in Precincts, Restorable(p), RestoreMove(p) PROVE RecordForm'
  <2>1. directory[p].trash \in TrashIds
    BY <1>12, <1>a DEF Restorable, DeletedHasTrash
  <2>2. records' \in [Precincts -> Dirs] /\ trash' \in [Precincts -> [TrashIds -> Dirs]]
    BY <1>12, <1>a, <2>1, BlankIsContent DEF RestoreMove
  <2>3. AbsentIsEmpty'
    BY <1>12, <1>a, <2>1, BlankIsContent DEF RestoreMove, AbsentIsEmpty
  <2> QED BY <1>12, <1>a, <1>q, <2>2, <2>3 DEF RestoreMove, DeletedHasTrash, theCases
<1>13. ASSUME NEW p \in Precincts, PendingPurge(p), PurgeTrash(p) PROVE RecordForm'
  <2>1. directory[p].trash \in TrashIds
    BY <1>13, <1>a DEF PendingPurge, DeletedHasTrash
  <2>2. trash' \in [Precincts -> [TrashIds -> Dirs]] /\ AbsentIsEmpty'
    BY <1>13, <1>a, <2>1, BlankIsContent DEF PurgeTrash, AbsentIsEmpty
  <2>3. trash[p][directory[p].trash].has \in Contents
    BY <1>a, <2>1 DEF Dirs
  <2>4. purged' \in Contents
    BY <1>13, <1>a, <2>3 DEF PurgeTrash, Contents
  <2> QED BY <1>13, <1>a, <1>q, <2>2, <2>4 DEF PurgeTrash, DeletedHasTrash
<1>14. ASSUME NEW p \in Precincts, NEW entry \in Entry,
              directory' = [directory EXCEPT ![p] = entry],
              entry.status = "deleted" => entry.trash \in TrashIds,
              UNCHANGED <<records, trash, made, removed, theCases>>
       PROVE  RecordForm'
  <2>1. directory' \in [Precincts -> Entry] /\ DeletedHasTrash'
    BY <1>14, <1>a DEF DeletedHasTrash
  <2> QED BY <1>14, <1>a, <1>q, <2>1 DEF AbsentIsEmpty, theCases
<1>15. ASSUME NEW p \in Precincts, NEW i \in TrashIds, DeleteEntry(p, i) PROVE RecordForm'
  BY <1>14, <1>15 DEF DeleteEntry, Entry
<1>16. ASSUME NEW p \in Precincts, RestoreEntry(p) \/ PurgeEntry(p) PROVE RecordForm'
  BY <1>14, <1>16 DEF RestoreEntry, PurgeEntry, Entry
<1>17. ASSUME NEW p \in Precincts, RetentionEnds(p) PROVE RecordForm'
  <2>1. /\ [directory[p] EXCEPT !.over = TRUE] \in Entry
        /\ [directory[p] EXCEPT !.over = TRUE].trash \in TrashIds
    BY <1>17, <1>a DEF RetentionEnds, Entry, DeletedHasTrash
  <2>2. PICK entry \in Entry :
           entry.trash \in TrashIds /\ directory' = [directory EXCEPT ![p] = entry]
    BY <1>17, <2>1 DEF RetentionEnds
  <2> QED BY <1>14, <1>17, <2>2 DEF RetentionEnds
<1> QED
  BY <1>1, <1>2, <1>3, <1>4, <1>5, <1>7, <1>8, <1>9, <1>10, <1>11, <1>12, <1>13, <1>15,
     <1>16, <1>17 DEF RecordMove

\* Whoever appends undisturbed holds the lock of the directory that is there.
LEMMA LockedOut ==
  ASSUME RecordInv, NEW p \in Precincts, NEW f \in Files, ~Locked(p, f, records[p].id)
  PROVE  Alone(p, f)
BY DEF Locked, Holds, Alone, Reads, RecordInv, AppendInv, UndisturbedHoldTheLock

\* A file is replaced by one who keeps others out, and what it loses is gone.
LEMMA FileReplaced ==
  ASSUME RecordInv, NEW p \in Precincts, NEW f \in Files, NEW kept \in SUBSET ClosedCases,
         Alone(p, f), Replace(p, f, kept), UNCHANGED <<trash, theCases>>,
         \A g \in Files : removed[g] \subseteq removed'[g],
         \A x \in Content(p, f) \ kept : x \in removed'[f] \/ Safe(x, p, f)
  PROVE  AppendInv'
<1>1. /\ [records[p].has EXCEPT ![f] = kept] \in Contents
      /\ [records[p].has EXCEPT ![f] = kept][f] = kept
      /\ \A g \in Files \ {f} : [records[p].has EXCEPT ![f] = kept][g] = records[p].has[g]
  BY ContentsHere DEF Contents, RecordInv
<1>2. /\ records'[p].has = [records[p].has EXCEPT ![f] = kept]
      /\ records[p].there => records'[p].there /\ records'[p].id = records[p].id
      /\ \A q \in Precincts \ {p} : records'[q] = records[q]
  BY <1>1, Filled DEF Replace, RecordInv
<1>3. /\ Content(p, f)' = kept
      /\ \A g \in Files \ {f} : Content(p, g)' = Content(p, g)
      /\ \A q \in Precincts \ {p} : \A g : Content(q, g)' = Content(q, g)
  <2>1. PICK has : has = [records[p].has EXCEPT ![f] = kept]
    OBVIOUS
  <2> QED BY <1>1, <1>2, <2>1 DEF Content
<1>4. \A q \in Precincts, g \in Files : \A x : Safe(x, q, g) => Safe(x, q, g)'
  BY DEF Safe, Gone, InTrash, theCases
<1>5. \A x \in Content(p, f) \ kept : Safe(x, p, f)'
  BY <1>4 DEF Safe, Gone, InTrash
<1>6. \A c \in ClosedCases : appends[c].step # "none" /\ c \notin disturbed' =>
         /\ records'[CaseIn[c]].there
         /\ records'[CaseIn[c]].id = records[CaseIn[c]].id
  BY <1>2, RecordsAssumption
  DEF RecordInv, AppendInv, UndisturbedHoldTheLock, theCases, ClosedCases
<1> QED BY <1>3, <1>4, <1>5, <1>6, NothingFiled DEF Alone, theCases

LEMMA RecordInvStep == RecordInv /\ (RecordMove \/ UNCHANGED recordVars) => RecordInv'
<1> SUFFICES ASSUME RecordInv, RecordMove PROVE AppendInv'
  <2>1. ASSUME RecordInv, UNCHANGED recordVars PROVE RecordInv'
    BY <2>1
    DEF recordVars, RecordInv, RecordForm, RecordTypeOK, AbsentIsEmpty, DeletedHasTrash,
        AppendInv, AppendsFit, UndisturbedHoldTheLock, OneHolds, ReadersKnow, SeenIsKnown,
        FilesAreKept, Filed, Reads, FileOf, Safe, Gone, InTrash, Content
  <2> QED BY <2>1, RecordFormStep DEF RecordInv
<1>a. RecordForm BY DEF RecordInv
<1>b. /\ \A c \in ClosedCases : CaseIn[c] \in Precincts
      /\ \A c \in ClosedCases : appends[c].step # "none" /\ c \notin disturbed =>
                                   records[CaseIn[c]].there
      /\ "ledger" \in Files /\ "log" \in Files
  BY RecordsAssumption DEF RecordInv, AppendInv, UndisturbedHoldTheLock, ClosedCases, Files
<1>1. ASSUME NEW p \in Precincts, Make(p), UNCHANGED <<trash, removed, theCases>>
      PROVE  AppendInv'
  <2>1. /\ \A q \in Precincts : records[q].there => /\ records'[q].there
                                                    /\ records'[q].id = records[q].id
        /\ \A q \in Precincts, f \in Files : Content(q, f)' = Content(q, f)
    BY <1>1, <1>a, Maked DEF Content
  <2>2. \A x, q, f : Safe(x, q, f)' <=> Safe(x, q, f)
    BY <1>1 DEF Safe, Gone, InTrash, theCases
  <2> QED BY <1>1, <1>b, <2>1, <2>2, NothingFiled DEF theCases
<1>2. ASSUME NEW p \in Precincts, NEW kept \in SUBSET ClosedCases, LedgerWrite(p, kept)
      PROVE  AppendInv'
  <2>1. /\ \A g \in Files : removed[g] \subseteq removed'[g]
        /\ \A x \in Content(p, "ledger") \ kept : x \in removed'["ledger"]
    BY <1>2, <1>a, <1>b
    DEF LedgerWrite, Content, RecordForm, RecordTypeOK, Contents
  <2> QED BY <1>2, <1>b, <2>1, LockedOut, FileReplaced DEF LedgerWrite
<1>3. ASSUME NEW p \in Precincts, NEW kept \in SUBSET ClosedCases, NEW c \in ClosedCases,
             Alone(p, "log"), Sparing(p, c, kept), LogWrite(p, c, kept)
      PROVE  AppendInv'
  <2>1. /\ \A g \in Files : removed[g] \subseteq removed'[g]
        /\ \A x \in Content(p, "log") \ kept : x \in removed'["log"] \/ Safe(x, p, "log")
    BY <1>3, <1>a, <1>b DEF LogWrite, Sparing, RecordForm, RecordTypeOK, Contents
  <2> QED BY <1>3, <1>b, <2>1, FileReplaced DEF LogWrite
<1>4. ASSUME NEW p \in Precincts, NEW i \in TrashIds, NewTrash(p, i), DeleteMove(p, i)
      PROVE  AppendInv'
  <2>1. /\ \A f \in Files : Content(p, f)' = {}
        /\ \A q \in Precincts \ {p} : records'[q] = records[q]
    BY <1>4, <1>a, BlankIsContent DEF DeleteMove, Content, RecordForm, RecordTypeOK
  <2>2. /\ trash[p][i] = NoDir /\ trash'[p][i] = records[p]
        /\ \A q \in Precincts, j \in TrashIds :
              q # p \/ j # i => trash'[q][j] = trash[q][j]
    BY <1>4, <1>a DEF NewTrash, DeleteMove, RecordForm, RecordTypeOK, AbsentIsEmpty
  <2>3. \A q \in Precincts, f \in Files : \A x :
           /\ Safe(x, q, f) => Safe(x, q, f)'
           /\ x \in Content(q, f) => Safe(x, q, f)' \/ x \in Content(q, f)'
    BY <1>4, <2>1, <2>2, BlankIsContent DEF DeleteMove, Safe, Gone, InTrash, Content
  <2>4. \A c \in ClosedCases : appends[c].step # "none" /\ c \notin disturbed' =>
           records'[CaseIn[c]] = records[CaseIn[c]]
    BY <1>4, <1>b, <2>1 DEF DeleteMove, Appending
  <2>5. \A q \in Precincts, f \in Files : Content(q, f)' \subseteq Content(q, f)
    BY <2>1 DEF Content
  <2> QED BY <1>4, <1>b, <2>3, <2>4, <2>5, NothingFiled DEF DeleteMove
<1>5. ASSUME UNCHANGED <<records, trash, made, removed, theCases>> PROVE AppendInv'
  <2>1. \A x, q, f : /\ Safe(x, q, f)' <=> Safe(x, q, f)
                     /\ Content(q, f)' = Content(q, f)
    BY <1>5 DEF Safe, Gone, InTrash, Content, theCases
  <2> QED BY <1>5, <1>b, <2>1, NothingFiled DEF theCases
<1>6. ASSUME NEW p \in Precincts, Restorable(p), RestoreMove(p) PROVE AppendInv'
  <2>1. PICK i \in TrashIds : i = directory[p].trash
    BY <1>6, <1>a DEF Restorable, RecordForm, DeletedHasTrash
  <2>2. /\ trash'[p][i] = NoDir
        /\ \A q \in Precincts, j \in TrashIds :
              q # p \/ j # i => trash'[q][j] = trash[q][j]
    BY <1>6, <1>a, <2>1 DEF RestoreMove, RecordForm, RecordTypeOK
  <2>3. CASE ~trash[p][i].there
    <3>1. trash[p][i] = NoDir /\ records' = records
      BY <1>6, <1>a, <2>1, <2>3 DEF RestoreMove, RecordForm, AbsentIsEmpty
    <3>2. \A x, f : \A q \in Precincts : /\ Safe(x, q, f)' <=> Safe(x, q, f)
                                         /\ Content(q, f)' = Content(q, f)
      <4>1. \A q \in Precincts, j \in TrashIds : trash'[q][j] = trash[q][j]
        BY <2>2, <3>1
      <4> QED BY <1>6, <3>1, <4>1 DEF Safe, Gone, InTrash, Content, RestoreMove, theCases
    <3> QED BY <1>6, <1>b, <3>1, <3>2, NothingFiled DEF theCases, RestoreMove
  <2>4. CASE trash[p][i].there
    <3>1. /\ ~records[p].there /\ records'[p] = trash[p][i]
          /\ \A q \in Precincts \ {p} : records'[q] = records[q]
      BY <1>6, <1>a, <2>1, <2>4
      DEF RestoreMove, Restorable, RecordForm, RecordTypeOK
    <3>2. \A f \in Files : Content(p, f) = {} /\ Content(p, f)' = trash[p][i].has[f]
      BY <1>a, <3>1, ContentsHere DEF Content
    <3>3. \A f \in Files : \A x : Safe(x, p, f) => Safe(x, p, f)' \/ x \in Content(p, f)'
      BY <1>6, <2>2, <3>2 DEF RestoreMove, Safe, Gone, InTrash, theCases
    <3>4. \A q \in Precincts \ {p} : \A f, x : /\ Safe(x, q, f)' <=> Safe(x, q, f)
                                               /\ Content(q, f)' = Content(q, f)
      BY <1>6, <2>2, <3>1 DEF RestoreMove, Safe, Gone, InTrash, Content, theCases
    <3>5. \A f \in Files, c \in ClosedCases : Reads(c, p, f) => c \in disturbed
      BY <1>b, <3>1 DEF Reads
    <3>6. \A c \in ClosedCases : appends[c].step # "none" /\ c \notin disturbed =>
             records'[CaseIn[c]] = records[CaseIn[c]]
      BY <1>b, <3>1
    <3>7. \A q \in Precincts, f \in Files :
             /\ \A x : Safe(x, q, f) \/ x \in Content(q, f) =>
                       Safe(x, q, f)' \/ x \in Content(q, f)'
             /\ \/ /\ Content(q, f)' \subseteq Content(q, f)
                   /\ \A x : Safe(x, q, f) => Safe(x, q, f)'
                \/ \A c \in ClosedCases : Reads(c, q, f) => c \in disturbed
      BY <3>2, <3>3, <3>4, <3>5
    <3> QED BY <1>6, <1>b, <3>6, <3>7, NothingFiled DEF RestoreMove, theCases
  <2> QED BY <2>3, <2>4
<1>7. ASSUME NEW p \in Precincts, PendingPurge(p), PurgeTrash(p) PROVE AppendInv'
  <2>1. PICK i \in TrashIds : i = directory[p].trash
    BY <1>7, <1>a DEF PendingPurge, RecordForm, DeletedHasTrash
  <2>2. \A q \in Precincts, j \in TrashIds : q # p \/ j # i => trash'[q][j] = trash[q][j]
    BY <1>7, <1>a, <2>1 DEF PurgeTrash, RecordForm, RecordTypeOK
  <2>3. \A f \in Files : purged'[f] = purged[f] \cup trash[p][i].has[f]
    BY <1>7, <2>1 DEF PurgeTrash, PendingPurge
  <2>4. \A q \in Precincts, f \in Files : \A x : Safe(x, q, f) => Safe(x, q, f)'
    BY <1>7, <2>2, <2>3 DEF PurgeTrash, Safe, Gone, InTrash
  <2>5. \A q, f : Content(q, f)' = Content(q, f)
    BY <1>7 DEF PurgeTrash, Content
  <2> QED BY <1>7, <1>b, <2>4, <2>5, NothingFiled DEF PurgeTrash
<1>8. ASSUME NEW c \in ClosedCases,
             \/ TakesCase(c) \/ AppendOpen(c) \/ AppendWrite(c) \/ AppendFails(c)
             \/ \E others \in BOOLEAN : AppendRead(c, others)
      PROVE  AppendInv'
  BY <1>8, CaseStepInv
<1>9. ASSUME NEW p \in Precincts, DirectoryRegister(p) PROVE AppendInv'
  BY <1>1, <1>9 DEF DirectoryRegister
<1>10. ASSUME NEW p \in Precincts,
              \/ RestoreEntry(p) \/ PurgeEntry(p) \/ RetentionEnds(p)
              \/ \E i \in TrashIds : DeleteEntry(p, i)
       PROVE  AppendInv'
  BY <1>5, <1>10 DEF RestoreEntry, PurgeEntry, RetentionEnds, DeleteEntry
<1> QED
  BY <1>1, <1>2, <1>3, <1>4, <1>6, <1>7, <1>8, <1>9, <1>10 DEF RecordMove

(***************************************************************************)
(* The sheriff.  What it does to the records in a step is one of those     *)
(* moves: it has made sure of what the move needs in the step itself, or,  *)
(* retracting a line, by the lock it has held since it read the log.       *)
(***************************************************************************)

SheriffOK ==
    /\ sheriff \in [step : {"idle", "rewriting", "retracting", "deleting", "deleted",
                            "restoring", "purging", "performed", "unlinking"},
                    req : Nat, p : Precincts, i : TrashIds \cup {0},
                    kept : SUBSET ClosedCases]
    /\ sheriff.step \in {"rewriting", "retracting", "restoring"} /\ sheriff.req # 0 =>
          sheriff.req \in DOMAIN Requests
    /\ sheriff.step \in {"retracting", "restoring"} => sheriff.req # 0
    /\ sheriff.step = "deleting" => sheriff.i \in TrashIds

Token == [p : Precincts, state : {"new", "awaiting", "over"}, answer : Answers,
          yes : BOOLEAN]

QueueOK ==
    /\ reqFiles \in [DOMAIN Requests -> SUBSET {"pending", "done", "denied"}]
    /\ tokens \in [TokenIds -> Token]
    /\ lawDeaths \in 0 .. MaxLawDeaths

\* Nobody gets at the log between a retraction's read and its write.
RetractsAlone ==
    sheriff.step = "retracting" =>
       /\ Requests[sheriff.req].case \in ClosedCases
       /\ Alone(sheriff.p, "log")
       /\ Sparing(sheriff.p, Requests[sheriff.req].case, sheriff.kept)

LawInv == SheriffOK /\ QueueOK /\ RetractsAlone /\ RecordInv

LEMMA SomePrecinct == AnyPrecinct \in Precincts
BY RecordsAssumption DEF AnyPrecinct

LEMMA LawInvInit == LawInit => LawInv
<1> SUFFICES ASSUME LawInit PROVE LawInv
  OBVIOUS
<1>1. SheriffOK BY SomePrecinct DEF LawInit, SheriffOK, Off
<1>2. QueueOK BY SomePrecinct, LawAssumption DEF LawInit, QueueOK, Token, Answers
<1>3. RetractsAlone BY DEF LawInit, RetractsAlone, Off
<1> QED BY <1>1, <1>2, <1>3, RecordInvInit DEF LawInv, LawInit

LEMMA LawMoves == LawInv /\ LawNext => RecordMove \/ UNCHANGED recordVars
<1> SUFFICES ASSUME LawInv, LawNext PROVE RecordMove \/ UNCHANGED recordVars
  OBVIOUS
<1>a. /\ sheriff.p \in Precincts /\ sheriff.kept \in SUBSET ClosedCases
      /\ sheriff.step = "deleting" => sheriff.i \in TrashIds
  BY DEF LawInv, SheriffOK
<1>b. \A r \in DOMAIN Requests : Requests[r].p \in Precincts
  BY LawAssumption
<1>c. \A t \in TokenIds : tokens[t].p \in Precincts
  BY DEF LawInv, QueueOK, Token
<1> USE DEF RecordMove
<1>1. ASSUME NEW r \in DOMAIN Requests, RequestDenied(r) PROVE RecordMove
  BY <1>1, <1>b DEF RequestDenied, Deny, Journal
<1>2. ASSUME NEW r \in DOMAIN Requests, RequestApproved(r)
      PROVE RecordMove \/ UNCHANGED recordVars
  <2> DEFINE p == Requests[r].p
  <2>a. p \in Precincts /\ ~Refused(r) /\ Perform(r) BY <1>2, <1>b DEF RequestApproved
  <2>1. CASE Requests[r].op = "log_remove"
    BY <2>a, <2>1 DEF Perform, Retract, LogRead
  <2>2. CASE Requests[r].op \in {"ledger_modify", "case_number"}
    BY <2>a, <2>2 DEF Perform
  <2>3. CASE Requests[r].op = "precinct_create"
    BY <2>a, <2>3 DEF Perform, Refused
  <2>4. CASE Requests[r].op = "precinct_restore"
    BY <2>a, <2>4 DEF Perform, Refused
  <2>5. CASE Requests[r].op = "precinct_delete"
    BY <2>a, <2>5 DEF Perform, BeginConfirmation
  <2> QED BY <2>1, <2>2, <2>3, <2>4, <2>5, LawAssumption
<1>3. CASE RestoreEnds BY <1>3, <1>a DEF RestoreEnds
<1>4. CASE RequestFiled BY <1>4, <1>a DEF RequestFiled, Journal
<1>5. CASE Rewrite BY <1>5, <1>a DEF Rewrite
<1>6. ASSUME NEW t \in TokenIds, ConfirmYes(t) PROVE RecordMove \/ UNCHANGED recordVars
  BY <1>6, <1>c DEF ConfirmYes
<1>7. CASE DeleteEnds BY <1>7, <1>a DEF DeleteEnds
<1>8. CASE PurgeEnds BY <1>8, <1>a DEF PurgeEnds
<1>9. ASSUME NEW p \in Precincts, Purge(p) PROVE RecordMove
  BY <1>9 DEF Purge
<1>10. \/ \E r \in DOMAIN Requests : Submit(r)
       \/ \E t \in TokenIds : ConfirmCancel(t) \/ \E a \in {"yes", "no"} : UserReplies(t, a)
       \/ RequestUnlinked \/ ConfirmEnds \/ SheriffDies
       \/ \E q \in Precincts : Compact(q) \/ \E c \in ClosedCases : ApplyEdit(q, c)
       => UNCHANGED recordVars
  BY DEF Submit, ConfirmCancel, UserReplies, RequestUnlinked, ConfirmEnds, SheriffDies,
         Compact, ApplyEdit, EditFile
<1>11. CASE RetractEnds
  <2>1. /\ sheriff.step = "retracting" /\ Requests[sheriff.req].case \in ClosedCases
        /\ Alone(sheriff.p, "log")
        /\ Sparing(sheriff.p, Requests[sheriff.req].case, sheriff.kept)
    BY <1>11 DEF RetractEnds, LawInv, RetractsAlone
  <2> QED BY <1>11, <1>a, <2>1 DEF RetractEnds
<1>12. ASSUME NEW c \in ClosedCases,
              \/ TakesCase(c) \/ AppendOpen(c) \/ AppendWrite(c) \/ AppendFails(c)
              \/ AppendRead(c, HeldBySheriff(c))
       PROVE RecordMove
  BY <1>12 DEF HeldBySheriff
<1> QED
  BY <1>1, <1>2, <1>3, <1>4, <1>5, <1>6, <1>7, <1>8, <1>9, <1>10, <1>11, <1>12 DEF LawNext

\* A deputy's step under a retraction.
LEMMA RetractsUndisturbed ==
  ASSUME RecordInv, sheriff.step = "retracting", sheriff.p \in Precincts, RetractsAlone,
         UNCHANGED sheriff, NEW c \in ClosedCases,
         \/ TakesCase(c) \/ AppendOpen(c) \/ AppendWrite(c) \/ AppendFails(c)
         \/ AppendRead(c, HeldBySheriff(c))
  PROVE  RetractsAlone'
<1> USE DEF RecordInv, AppendInv
<1>a. PICK p, x, kept :
         /\ p \in Precincts /\ x \in ClosedCases
         /\ p = sheriff.p /\ x = Requests[sheriff.req].case /\ kept = sheriff.kept
         /\ Alone(p, "log") /\ Sparing(p, x, kept)
  BY DEF RetractsAlone
<1>c. p \in Precincts /\ x \in ClosedCases
  BY <1>a
<1> USE <1>c
<1> SUFFICES Alone(p, "log")' /\ Sparing(p, x, kept)'
  BY <1>a DEF RetractsAlone
<1>b. /\ DOMAIN appends = ClosedCases /\ DOMAIN caseStep = ClosedCases /\ "log" \in Files
      /\ CaseIn[c] \in Precincts /\ FileOf(c) \in Files
  BY RecordsAssumption DEF RecordForm, RecordTypeOK, Files, ClosedCases, FileOf
<1>1. Alone(p, "log")'
  <2>1. \A d \in ClosedCases \ {c} : /\ Reads(d, p, "log")' => Reads(d, p, "log")
                                     /\ d \in disturbed => d \in disturbed'
    <3>1. \A d \in ClosedCases \ {c} :
             /\ appends'[d] = appends[d] /\ caseStep'[d] = caseStep[d]
             /\ d \in disturbed => d \in disturbed'
      BY <1>b DEF TakesCase, AppendOpen, AppendWrite, AppendFails, AppendEnds, AppendRead
    <3> QED BY <3>1 DEF Reads, FileOf
  <2>2. CASE TakesCase(c)
    <3>1. appends'[c].step # "read"
      BY <2>2 DEF TakesCase, AppendsFit
    <3> QED BY <1>a, <2>1, <3>1 DEF Reads, Alone
  <2>3. CASE AppendOpen(c) \/ AppendWrite(c) \/ AppendFails(c)
    <3>1. appends'[c].step # "read"
      BY <1>b, <2>3 DEF AppendOpen, AppendWrite, AppendFails, AppendEnds, NoAppend
    <3> QED BY <1>a, <2>1, <3>1 DEF Reads, Alone
  <2>4. CASE AppendRead(c, HeldBySheriff(c))
    <3>1. /\ appends[c].step = "open" /\ UNCHANGED <<disturbed, caseStep>>
          /\ ~HeldBySheriff(c)
      BY <2>4 DEF AppendRead
    <3>2. Reads(c, p, "log")' => CaseIn[c] = p /\ FileOf(c) = "log"
      BY <3>1 DEF Reads, FileOf
    <3>3. Reads(c, p, "log")' => c \in disturbed'
      BY <1>a, <3>1, <3>2 DEF HeldBySheriff, UndisturbedHoldTheLock
    <3> QED BY <1>a, <2>1, <3>3 DEF Alone
  <2> QED BY <2>2, <2>3, <2>4
<1>2. Sparing(p, x, kept)'
  <2>1. CASE TakesCase(c) \/ AppendOpen(c) \/ AppendFails(c) \/ AppendRead(c, HeldBySheriff(c))
    <3>1. Content(p, "log")' = Content(p, "log")
      <4>1. CASE AppendOpen(c)
        BY <1>b, <4>1, Maked DEF AppendOpen, Content
      <4> QED BY <2>1, <4>1 DEF TakesCase, AppendFails, AppendRead, Content
    <3>2. \A y : Safe(y, p, "log") => Safe(y, p, "log")'
      BY <2>1 DEF TakesCase, AppendOpen, AppendFails, AppendRead, Safe, Gone, InTrash
    <3> QED BY <1>a, <3>1, <3>2 DEF Sparing
  <2>2. CASE AppendWrite(c)
    <3>1. PICK q \in Precincts, f \in Files : q = CaseIn[c] /\ f = FileOf(c)
      BY <1>b
    <3>2. \A y : Safe(y, p, "log") => Safe(y, p, "log")'
      BY <1>b, <2>2, <3>1, WhatIsWritten
    <3>3. CASE q # p \/ f # "log"
      <4>1. Content(p, "log")' = Content(p, "log")
        BY <1>b, <2>2, <3>1, <3>3, WhatIsWritten
      <4> QED BY <1>a, <3>2, <4>1 DEF Sparing
    <3>4. CASE q = p /\ f = "log"
      <4>1. Reads(c, p, "log") /\ Content(p, "log")' = appends[c].seen \cup {c}
        <5>1. Reads(c, q, f) /\ Content(q, f)' = appends[c].seen \cup {c}
          BY <2>2, <3>1, WhatIsWritten
        <5> QED BY <3>4, <5>1
      <4>2. c \in disturbed
        BY <1>a, <4>1 DEF Alone
      <4>3. Safe(c, p, "log")'
        <5>1. Safe(c, q, f)'
          BY <2>2, <3>1, <4>2, WhatIsWritten
        <5> QED BY <3>4, <5>1
      <4>4. \A y \in appends[c].seen : Safe(y, p, "log") \/ y \in Content(p, "log")
        BY <1>b, <4>1 DEF SeenIsKnown
      <4> QED BY <1>a, <3>2, <4>1, <4>3, <4>4 DEF Sparing
    <3> QED BY <3>3, <3>4
  <2> QED BY <2>1, <2>2
<1> QED BY <1>1, <1>2

LEMMA RetractsAloneStep == LawInv /\ LawNext => RetractsAlone'
<1> SUFFICES ASSUME LawInv, LawNext PROVE RetractsAlone'
  OBVIOUS
<1>a. RecordInv /\ RetractsAlone /\ sheriff.p \in Precincts
  BY DEF LawInv, SheriffOK
<1>b. ASSUME sheriff'.step # "retracting" PROVE RetractsAlone'
  BY <1>b DEF RetractsAlone
<1>d. sheriff = [step |-> sheriff.step, req |-> sheriff.req, p |-> sheriff.p,
                 i |-> sheriff.i, kept |-> sheriff.kept]
  BY DEF LawInv, SheriffOK
<1>c. ASSUME UNCHANGED <<recordVars, sheriff>> PROVE RetractsAlone'
  BY <1>a, <1>c
  DEF recordVars, RetractsAlone, Alone, Sparing, Reads, FileOf, Content, Safe, Gone, InTrash
<1>1. ASSUME NEW r \in DOMAIN Requests, RequestApproved(r) PROVE RetractsAlone'
  <2> USE DEF RequestApproved, Perform, Done, To, Off, EditFile
  <2>1. CASE Requests[r].op = "log_remove"
    <3>1. PICK p, c :
            p \in Precincts /\ p = Requests[r].p /\ c = Requests[r].case
      BY LawAssumption
    <3>a. p \in Precincts
      BY <3>1
    <3> USE <3>a
    <3>2. CASE c \notin records[p].has["log"]
      BY <1>1, <1>b, <2>1, <3>1, <3>2 DEF Retract
    <3>3. CASE c \in records[p].has["log"]
      <4>1. /\ LogRead(p) /\ sheriff'.req = r /\ sheriff'.p = p
            /\ sheriff'.kept = records[p].has["log"] \ {c}
        BY <1>1, <2>1, <3>1, <3>3 DEF Retract
      <4>2. "log" \in Files /\ c \in ClosedCases
        BY <1>a, <3>3, ContentsHere DEF RecordInv, Contents, Files
      <4>3. Alone(p, "log")
        BY <1>a, <4>1, <4>2, LockedOut DEF LogRead
      <4>4. Alone(p, "log")'
        BY <4>1, <4>3 DEF LogRead, theCases, Alone, Reads, FileOf
      <4>5. Content(p, "log")' = Content(p, "log")
        BY <1>a, <4>1, Maked DEF LogRead, Content, RecordInv
      <4> QED BY <3>1, <4>1, <4>2, <4>4, <4>5 DEF RetractsAlone, Sparing, Content
    <3> QED BY <3>2, <3>3
  <2>2. CASE Requests[r].op = "ledger_modify" BY <1>1, <1>b, <2>2
  <2>3. CASE Requests[r].op = "precinct_create" BY <1>1, <1>b, <2>3
  <2>4. CASE Requests[r].op = "precinct_restore" BY <1>1, <1>b, <2>4
  <2>5. CASE Requests[r].op = "precinct_delete" BY <1>1, <1>b, <2>5 DEF BeginConfirmation
  <2>6. CASE Requests[r].op = "case_number" BY <1>1, <1>b, <2>6
  <2> QED BY <2>1, <2>2, <2>3, <2>4, <2>5, <2>6, LawAssumption
<1>2. ASSUME NEW r \in DOMAIN Requests, Submit(r) \/ RequestDenied(r) PROVE RetractsAlone'
  BY <1>2, <1>b, <1>c DEF Submit, RequestDenied, Deny, To, Off
<1>3. CASE RetractEnds \/ RestoreEnds \/ RequestFiled \/ RequestUnlinked
  <2>1. sheriff'.step \in {"performed", "unlinking", "idle"}
    <3>1. CASE RequestFiled BY <3>1, <1>d DEF RequestFiled
    <3>2. CASE RetractEnds BY <3>2 DEF RetractEnds, Done, To, Off
    <3>3. CASE RestoreEnds BY <3>3 DEF RestoreEnds, Done, To, Off
    <3>4. CASE RequestUnlinked BY <3>4 DEF RequestUnlinked, Off
    <3> QED BY <1>3, <3>1, <3>2, <3>3, <3>4
  <2> QED BY <1>b, <2>1
<1>4. ASSUME NEW t \in TokenIds, NEW a, ConfirmCancel(t) \/ ConfirmYes(t) \/ UserReplies(t, a)
      PROVE  RetractsAlone'
  BY <1>4, <1>b, <1>c DEF ConfirmCancel, ConfirmYes, UserReplies, To, Off
<1>5. CASE DeleteEnds \/ ConfirmEnds \/ PurgeEnds \/ Rewrite \/ SheriffDies
  <2>1. sheriff'.step \in {"deleted", "idle", "performed"}
    <3>1. CASE DeleteEnds BY <3>1, <1>d DEF DeleteEnds
    <3>2. CASE Rewrite
      <4>1. CASE sheriff.req = 0 BY <3>2, <4>1 DEF Rewrite, Off
      <4>2. CASE sheriff.req # 0 BY <3>2, <4>2 DEF Rewrite, Done, To, Off
      <4> QED BY <4>1, <4>2
    <3> QED BY <1>5, <3>1, <3>2 DEF ConfirmEnds, PurgeEnds, SheriffDies, Off
  <2> QED BY <1>b, <2>1
<1>6. ASSUME NEW p \in Precincts, Compact(p) \/ Purge(p) \/ \E c \in ClosedCases : ApplyEdit(p, c)
      PROVE  RetractsAlone'
  BY <1>6, <1>b DEF Compact, Purge, ApplyEdit, EditFile, To, Off
<1>7. ASSUME NEW p \in Precincts, RetentionEnds(p), UNCHANGED lawOnly PROVE RetractsAlone'
  BY <1>a, <1>7
  DEF RetentionEnds, lawOnly, theCases, RetractsAlone, Alone, Sparing, Reads, FileOf,
      Content, Safe, Gone, InTrash
<1>8. ASSUME NEW c \in ClosedCases, UNCHANGED lawOnly,
             \/ TakesCase(c) \/ AppendOpen(c) \/ AppendWrite(c) \/ AppendFails(c)
             \/ AppendRead(c, HeldBySheriff(c))
      PROVE  RetractsAlone'
  BY <1>8, <1>a, <1>b, RetractsUndisturbed DEF lawOnly
<1> QED
  BY <1>1, <1>2, <1>3, <1>4, <1>5, <1>6, <1>7, <1>8 DEF LawNext

LEMMA LawInvStep == LawInv /\ [LawNext]_lawVars => LawInv'
<1> SUFFICES ASSUME LawInv, [LawNext]_lawVars PROVE LawInv'
  OBVIOUS
<1>a. RecordInv' /\ RetractsAlone'
  <2>1. CASE LawNext
    BY <2>1, LawMoves, RecordInvStep, RetractsAloneStep DEF LawInv
  <2>2. CASE UNCHANGED lawVars
    <3>1. UNCHANGED <<recordVars, sheriff>>
      BY <2>2 DEF lawVars
    <3>2. RecordInv'
      BY <3>1, RecordInvStep DEF LawInv
    <3>3. RetractsAlone'
      BY <3>1
      DEF LawInv, recordVars, RetractsAlone, Alone, Sparing, Reads, FileOf, Content, Safe,
          Gone, InTrash
    <3> QED BY <3>2, <3>3
  <2> QED BY <2>1, <2>2
<1> SUFFICES SheriffOK' /\ QueueOK'
  BY <1>a DEF LawInv
<1>b. \A r \in DOMAIN Requests : r \in Nat /\ r # 0 /\ Requests[r].p \in Precincts
  BY LawAssumption
<1>c. \A q \in Precincts : /\ records[q].has["ledger"] \in SUBSET ClosedCases
                            /\ records[q].has["log"] \in SUBSET ClosedCases
  BY ContentsHere DEF LawInv, RecordInv, Contents, Files
<1>d. \A t \in TokenIds : t \in Nat /\ tokens[t].p \in Precincts
  BY DEF LawInv, QueueOK, Token, TokenIds
<1>e. ASSUME NEW t \in TokenIds, NEW token \in Token,
             tokens' = [tokens EXCEPT ![t] = token], UNCHANGED <<reqFiles, lawDeaths>>
      PROVE QueueOK'
  BY <1>e DEF LawInv, QueueOK
<1>f. ASSUME NEW r \in DOMAIN Requests, Done(r) PROVE SheriffOK' /\ QueueOK'
  BY SomePrecinct, <1>b, <1>f DEF LawInv, SheriffOK, QueueOK, Done, To, Off
<1>g. \A t \in TokenIds : tokens[t] \in Token
  BY DEF LawInv, QueueOK
<1> USE SomePrecinct, LawAssumption, <1>b, <1>c, <1>d
    DEF LawInv, SheriffOK, QueueOK, Off, To, Answers
<1>1. ASSUME NEW r \in DOMAIN Requests, Submit(r) PROVE SheriffOK' /\ QueueOK'
  BY <1>1 DEF Submit
<1>2. ASSUME NEW r \in DOMAIN Requests, RequestDenied(r) PROVE SheriffOK' /\ QueueOK'
  BY <1>2 DEF RequestDenied, Deny
<1>3. ASSUME NEW r \in DOMAIN Requests, RequestApproved(r) PROVE SheriffOK' /\ QueueOK'
  <2>1. CASE Requests[r].op = "precinct_delete"
    <3>1. PICK t \in TokenIds :
            /\ tokens' = [tokens EXCEPT ![t].p = Requests[r].p, ![t].state = "awaiting"]
            /\ sheriff' = [Off EXCEPT !.step = "performed", !.req = r,
                                     !.p = Requests[r].p, !.i = 0]
            /\ UNCHANGED <<reqFiles, lawDeaths>>
      BY <1>3, <2>1 DEF RequestApproved, Perform, BeginConfirmation
    <3>2. [tokens[t] EXCEPT !.p = Requests[r].p, !.state = "awaiting"] \in Token
      BY <1>g DEF Token
    <3>3. QueueOK'
      BY <3>1, <3>2, <1>e
    <3>4. SheriffOK'
      BY <3>1
    <3> QED BY <3>3, <3>4
  <2>2. CASE Requests[r].op = "ledger_modify"
    <3>1. records[Requests[r].p].has["ledger"] \ {Requests[r].case} \in SUBSET ClosedCases
      OBVIOUS
    <3> QED BY <1>3, <2>2, <3>1 DEF RequestApproved, Perform, EditFile
  <2>3. CASE Requests[r].op = "precinct_restore"
    BY <1>3, <2>3 DEF RequestApproved, Perform
  <2>4. CASE Requests[r].op \in {"log_remove", "precinct_create", "case_number"}
    <3>1. CASE Requests[r].op = "log_remove"
      <4>1. records[Requests[r].p].has["log"] \ {Requests[r].case} \in SUBSET ClosedCases
        OBVIOUS
      <4>2. CASE Requests[r].case \in records[Requests[r].p].has["log"]
        BY <1>3, <3>1, <4>1, <4>2 DEF RequestApproved, Perform, Retract, EditFile
      <4>3. CASE Requests[r].case \notin records[Requests[r].p].has["log"]
        BY <1>3, <1>f, <3>1, <4>3 DEF RequestApproved, Perform, Retract
      <4> QED BY <4>2, <4>3
    <3>2. CASE Requests[r].op = "precinct_create"
      BY <1>3, <1>f, <3>2 DEF RequestApproved, Perform
    <3>3. CASE Requests[r].op = "case_number"
      BY <1>3, <1>f, <3>3 DEF RequestApproved, Perform
    <3> QED BY <2>4, <3>1, <3>2, <3>3
  <2> QED BY <2>1, <2>2, <2>3, <2>4
<1>4. CASE RetractEnds \/ RestoreEnds \/ RequestFiled \/ RequestUnlinked
  <2>0. CASE RetractEnds BY <2>0, <1>f DEF RetractEnds
  <2>1. CASE RestoreEnds BY <2>1, <1>f DEF RestoreEnds
  <2>2. CASE RequestFiled BY <2>2 DEF RequestFiled
  <2>3. CASE RequestUnlinked BY <2>3 DEF RequestUnlinked
  <2> QED BY <1>4, <2>0, <2>1, <2>2, <2>3
<1>5. ASSUME NEW t \in TokenIds, ConfirmCancel(t) PROVE SheriffOK' /\ QueueOK'
  <2>1. [tokens[t] EXCEPT !.state = "over"] \in Token
    BY <1>g DEF Token
  <2>2. QueueOK'
    BY <1>5, <1>e, <2>1 DEF ConfirmCancel, TokenOver
  <2> QED BY <1>5, <2>2 DEF ConfirmCancel, TokenOver
<1>6. ASSUME NEW t \in TokenIds, ConfirmYes(t) PROVE SheriffOK' /\ QueueOK'
  BY <1>6 DEF ConfirmYes
<1>7. ASSUME NEW t \in TokenIds, NEW a \in {"yes", "no"}, UserReplies(t, a)
      PROVE SheriffOK' /\ QueueOK'
  <2>1. [tokens[t] EXCEPT !.answer = a, !.yes = @ \/ a = "yes"] \in Token
    BY <1>g DEF Token
  <2>2. QueueOK'
    BY <1>7, <1>e, <2>1 DEF UserReplies
  <2> QED BY <1>7, <2>2 DEF UserReplies
<1>8. CASE DeleteEnds \/ PurgeEnds \/ Rewrite \/ SheriffDies
  <2>1. CASE DeleteEnds BY <2>1 DEF DeleteEnds
  <2>2. CASE PurgeEnds BY <2>2 DEF PurgeEnds
  <2>3. CASE Rewrite
    <3>1. CASE sheriff.req = 0 BY <2>3, <3>1 DEF Rewrite
    <3>2. CASE sheriff.req # 0 BY <2>3, <1>f, <3>2 DEF Rewrite
    <3> QED BY <3>1, <3>2
  <2>4. CASE SheriffDies BY <2>4 DEF SheriffDies
  <2> QED BY <1>8, <2>1, <2>2, <2>3, <2>4
<1>9. CASE ConfirmEnds
  <2>1. sheriff' = Off /\ UNCHANGED <<reqFiles, lawDeaths>> /\ SheriffOK'
    BY <1>9 DEF ConfirmEnds, TokenOver
  <2>2. CASE sheriff.req \in TokenIds
    <3>1. [tokens[sheriff.req] EXCEPT !.state = "over"] \in Token
      BY <1>g, <2>2 DEF Token
    <3> QED BY <1>9, <1>e, <2>1, <2>2, <3>1 DEF ConfirmEnds, TokenOver
  <2>3. CASE sheriff.req \notin TokenIds
    BY <1>9, <2>1, <2>3 DEF ConfirmEnds, TokenOver
  <2> QED BY <2>2, <2>3
<1>10. ASSUME NEW q \in Precincts, Compact(q) \/ Purge(q) PROVE SheriffOK' /\ QueueOK'
  <2>1. CASE Compact(q)
    <3>1. PICK kept \in SUBSET records[q].has["ledger"] :
            /\ sheriff' = [Off EXCEPT !.step = "rewriting", !.req = 0, !.p = q,
                                     !.kept = kept]
            /\ UNCHANGED <<reqFiles, tokens, lawDeaths>>
      BY <2>1 DEF Compact, EditFile
    <3>2. kept \in SUBSET ClosedCases
      OBVIOUS
    <3> QED BY <3>1, <3>2
  <2>2. CASE Purge(q) BY <2>2 DEF Purge
  <2> QED BY <1>10, <2>1, <2>2
<1>11. ASSUME NEW q \in Precincts, NEW c \in ClosedCases, ApplyEdit(q, c)
       PROVE SheriffOK' /\ QueueOK'
  <2>1. records[q].has["ledger"] \ {c} \in SUBSET ClosedCases
    OBVIOUS
  <2> QED BY <1>11, <2>1 DEF ApplyEdit, EditFile
<1>12. CASE UNCHANGED lawOnly BY <1>12 DEF lawOnly
<1>13. UNCHANGED lawVars => UNCHANGED lawOnly BY DEF lawVars, lawOnly
<1> QED
  BY <1>1, <1>2, <1>3, <1>4, <1>5, <1>6, <1>7, <1>8, <1>9, <1>10, <1>11, <1>12, <1>13
  DEF LawNext

\* What a deputy filed is kept, for any precincts, cases, requests and deletions,
\* however many append at a time, and however often they or the sheriff are killed,
\* but for what an append that met a move of its directory loses.
THEOREM NothingFiledIsLost == LawSpec => []FiledIsKept
<1>1. LawInv => FiledIsKept
  BY DEF LawInv, RecordInv, AppendInv, FilesAreKept, Safe, Gone, InTrash, Content,
         FiledIsKept, OnDisk
<1> QED BY <1>1, LawInvInit, LawInvStep, PTL DEF LawSpec

(***************************************************************************)
(* Deletions.  Each is paid for by a YES: Spent(p) are the tokens of the   *)
(* precinct that the user said YES to and a deletion has been done for.    *)
(* Only a death between the entry and the end of the token takes one back. *)
(***************************************************************************)

Spent(p) ==
    {t \in TokenIds : /\ tokens[t].p = p /\ tokens[t].yes
                      /\ \/ tokens[t].state = "over"
                         \/ sheriff.step = "deleted" /\ sheriff.req = t}

\* A deletion under way is that of a token of its precinct with a YES.
DeletesOnToken ==
    sheriff.step \in {"deleting", "deleted"} =>
       /\ sheriff.req \in TokenIds
       /\ tokens[sheriff.req].p = sheriff.p
       /\ tokens[sheriff.req].yes /\ tokens[sheriff.req].state = "awaiting"

YesIsTheUsers ==
    \A t \in TokenIds : /\ tokens[t].state = "new" => ~tokens[t].yes
                        /\ tokens[t].answer = "yes" => tokens[t].yes

PaidFor ==
    /\ deletions \in [Precincts -> Nat]
    /\ \A p \in Precincts : deletions[p] <= lawDeaths + Cardinality(Spent(p))

DeletionInv == LawInv /\ DeletesOnToken /\ YesIsTheUsers /\ PaidFor

LEMMA SpentIsFinite ==
  ASSUME NEW p
  PROVE  LawInv => /\ IsFiniteSet(Spent(p)) /\ Cardinality(Spent(p)) \in Nat
                   /\ LawInv' => IsFiniteSet(Spent(p)') /\ Cardinality(Spent(p)') \in Nat
<1>1. IsFiniteSet(TokenIds)
  BY FS_Interval, LawAssumption DEF TokenIds
<1>2. Spent(p) \in SUBSET TokenIds /\ Spent(p)' \in SUBSET TokenIds
  BY DEF Spent
<1> QED BY <1>1, <1>2, FS_Subset, FS_CardinalityType

\* A step that neither deletes nor kills takes no token back.
LEMMA NothingTakenBack ==
  ASSUME LawInv, LawInv', PaidFor, UNCHANGED <<deletions, lawDeaths>>,
         \A p \in Precincts : Spent(p) \subseteq Spent(p)'
  PROVE  PaidFor'
<1> SUFFICES ASSUME NEW p \in Precincts
             PROVE  deletions'[p] <= lawDeaths' + Cardinality(Spent(p)')
  BY DEF PaidFor
<1>1. Cardinality(Spent(p)) <= Cardinality(Spent(p)')
  BY SpentIsFinite, FS_Subset
<1> QED BY <1>1, SpentIsFinite DEF PaidFor, LawInv, QueueOK

LEMMA DeletionInvStep == DeletionInv /\ [LawNext]_lawVars => DeletionInv'
<1> SUFFICES ASSUME DeletionInv, [LawNext]_lawVars PROVE DeletionInv'
  OBVIOUS
<1>a. LawInv /\ LawInv'
  BY LawInvStep DEF DeletionInv
<1> SUFFICES DeletesOnToken' /\ YesIsTheUsers' /\ PaidFor'
  BY <1>a DEF DeletionInv
<1>b. /\ tokens \in [TokenIds -> Token]
      /\ \A t \in TokenIds : t \in Nat /\ t # 0
  BY <1>a DEF LawInv, QueueOK, TokenIds
<1>c. ASSUME UNCHANGED <<tokens, deletions, lawDeaths>>, sheriff.step # "deleted",
             sheriff'.step \notin {"deleting", "deleted"}
      PROVE  DeletesOnToken' /\ YesIsTheUsers' /\ PaidFor'
  <2>1. \A p \in Precincts : Spent(p) \subseteq Spent(p)'
    BY <1>c DEF Spent
  <2> QED BY <1>a, <1>c, <2>1, NothingTakenBack DEF DeletionInv, DeletesOnToken, YesIsTheUsers
<1>d. DeletesOnToken /\ YesIsTheUsers /\ PaidFor
  BY DEF DeletionInv
<1>1. ASSUME NEW r \in DOMAIN Requests, Requests[r].op # "precinct_delete",
             RequestApproved(r)
      PROVE DeletesOnToken' /\ YesIsTheUsers' /\ PaidFor'
  <2>1. /\ sheriff.step = "idle" /\ sheriff'.step \in {"performed", "rewriting", "retracting",
                                                     "restoring"}
        /\ UNCHANGED <<tokens, deletions, lawDeaths>>
    <3> USE LawAssumption, <1>1
        DEF RequestApproved, Pending, Perform, Retract, EditFile, Done, To, Off
    <3>1. CASE Requests[r].op = "log_remove" BY <3>1
    <3>2. CASE Requests[r].op = "ledger_modify" BY <3>2
    <3>3. CASE Requests[r].op = "precinct_create" BY <3>3
    <3>4. CASE Requests[r].op = "precinct_restore" BY <3>4
    <3>5. CASE Requests[r].op = "case_number" BY <3>5
    <3> QED BY <3>1, <3>2, <3>3, <3>4, <3>5
  <2> QED BY <1>c, <2>1
<1>2. ASSUME NEW r \in DOMAIN Requests, Requests[r].op = "precinct_delete",
             RequestApproved(r)
      PROVE DeletesOnToken' /\ YesIsTheUsers' /\ PaidFor'
  <2>1. PICK t \in TokenIds :
          /\ tokens[t].state = "new" /\ sheriff.step = "idle"
          /\ tokens' = [tokens EXCEPT ![t].p = Requests[r].p, ![t].state = "awaiting"]
          /\ sheriff'.step = "performed"
          /\ UNCHANGED <<deletions, lawDeaths>>
    BY <1>2 DEF RequestApproved, Pending, Perform, BeginConfirmation, To, Off
  <2>2. /\ \A u \in TokenIds \ {t} : tokens'[u] = tokens[u]
        /\ tokens'[t].yes = tokens[t].yes /\ tokens'[t].answer = tokens[t].answer
        /\ tokens'[t].state = "awaiting" /\ ~tokens[t].yes
    BY <2>1, <1>b, <1>d DEF YesIsTheUsers, Token
  <2>3. \A p \in Precincts : Spent(p) \subseteq Spent(p)'
    BY <2>1, <2>2 DEF Spent
  <2>4. YesIsTheUsers'
    BY <2>2, <1>d DEF YesIsTheUsers
  <2> QED BY <1>a, <1>d, <2>1, <2>3, <2>4, NothingTakenBack DEF DeletesOnToken
<1>3. ASSUME NEW t \in TokenIds, NEW a \in {"yes", "no"}, UserReplies(t, a)
      PROVE DeletesOnToken' /\ YesIsTheUsers' /\ PaidFor'
  <2>1. /\ UNCHANGED <<sheriff, deletions, lawDeaths>>
        /\ \A u \in TokenIds \ {t} : tokens'[u] = tokens[u]
        /\ tokens'[t].p = tokens[t].p /\ tokens'[t].state = tokens[t].state
        /\ tokens'[t].answer = a /\ tokens'[t].yes = (tokens[t].yes \/ a = "yes")
        /\ tokens[t].state = "awaiting"
    BY <1>3, <1>b DEF UserReplies, Token
  <2>2. \A p \in Precincts : Spent(p) \subseteq Spent(p)'
    BY <2>1 DEF Spent
  <2>3. DeletesOnToken' /\ YesIsTheUsers'
    BY <2>1, <1>d DEF DeletesOnToken, YesIsTheUsers
  <2> QED BY <1>a, <1>d, <2>1, <2>2, <2>3, NothingTakenBack
<1>4. ASSUME NEW t \in TokenIds,
             \/ ConfirmCancel(t)
             \/ ConfirmEnds /\ t = sheriff.req
      PROVE DeletesOnToken' /\ YesIsTheUsers' /\ PaidFor'
  <2>1. /\ UNCHANGED <<deletions, lawDeaths>> /\ sheriff'.step = "idle"
        /\ \A u \in TokenIds \ {t} : tokens'[u] = tokens[u]
        /\ tokens'[t].p = tokens[t].p /\ tokens'[t].state = "over"
        /\ tokens'[t].answer = tokens[t].answer /\ tokens'[t].yes = tokens[t].yes
        /\ sheriff.step = "idle" \/ t = sheriff.req
    BY <1>4, <1>b DEF ConfirmCancel, ConfirmEnds, TokenOver, Token, Off
  <2>2. \A p \in Precincts : Spent(p) \subseteq Spent(p)'
    BY <2>1 DEF Spent
  <2>3. YesIsTheUsers'
    BY <2>1, <1>d DEF YesIsTheUsers
  <2> QED BY <1>a, <1>d, <2>1, <2>2, <2>3, NothingTakenBack DEF DeletesOnToken
<1>5. ASSUME NEW t \in TokenIds, ConfirmYes(t)
      PROVE DeletesOnToken' /\ YesIsTheUsers' /\ PaidFor'
  <2>1. /\ sheriff.step = "idle" /\ UNCHANGED <<tokens, deletions, lawDeaths>>
        /\ tokens[t].state = "awaiting" /\ tokens[t].answer = "yes"
        /\ sheriff'.step \in {"deleting", "deleted"}
        /\ sheriff'.req = t /\ sheriff'.p = tokens[t].p
    BY <1>5 DEF ConfirmYes, To, Off
  <2>2. \A p \in Precincts : Spent(p) \subseteq Spent(p)'
    BY <2>1 DEF Spent
  <2>3. DeletesOnToken' /\ YesIsTheUsers'
    BY <2>1, <1>d DEF DeletesOnToken, YesIsTheUsers
  <2> QED BY <1>a, <1>d, <2>1, <2>2, <2>3, NothingTakenBack
<1>6. CASE DeleteEnds
  <2>0. PICK p \in Precincts, t \in TokenIds : p = sheriff.p /\ t = sheriff.req
    BY <1>6, <1>a, <1>d DEF DeleteEnds, LawInv, SheriffOK, DeletesOnToken
  <2>1. /\ sheriff.step = "deleting" /\ sheriff'.step = "deleted"
        /\ sheriff'.req = t /\ sheriff'.p = p
        /\ deletions' = [deletions EXCEPT ![p] = @ + 1]
        /\ UNCHANGED <<tokens, lawDeaths>>
    BY <1>6, <1>a, <2>0 DEF DeleteEnds, LawInv, SheriffOK
  <2>2. DeletesOnToken' /\ YesIsTheUsers'
    BY <2>0, <2>1, <1>d DEF DeletesOnToken, YesIsTheUsers
  <2>3. tokens[t].p = p /\ tokens[t].yes /\ tokens[t].state = "awaiting"
    BY <2>0, <2>1, <1>d DEF DeletesOnToken
  <2>4. t \notin Spent(p) /\ Spent(p)' = Spent(p) \cup {t}
    BY <2>1, <2>3 DEF Spent
  <2>5. Cardinality(Spent(p)') = Cardinality(Spent(p)) + 1
    BY <1>a, <2>4, SpentIsFinite, FS_AddElement
  <2>6. \A q \in Precincts \ {p} : Spent(q)' = Spent(q)
    BY <2>1, <2>3 DEF Spent
  <2>7. \A q \in Precincts : Cardinality(Spent(q)) \in Nat
    BY <1>a, SpentIsFinite
  <2>8. PaidFor'
    <3>1. /\ deletions \in [Precincts -> Nat] /\ lawDeaths \in Nat
          /\ \A q \in Precincts : deletions[q] <= lawDeaths + Cardinality(Spent(q))
      BY <1>a, <1>d DEF PaidFor, LawInv, QueueOK
    <3>2. deletions' \in [Precincts -> Nat] /\ lawDeaths' = lawDeaths
      BY <2>1, <3>1
    <3>3. ASSUME NEW q \in Precincts
          PROVE  deletions'[q] <= lawDeaths + Cardinality(Spent(q)')
      <4>1. CASE q = p
        <5>1. deletions'[p] = deletions[p] + 1 BY <2>1, <3>1
        <5> DEFINE before == Cardinality(Spent(p))
                   after == Cardinality(Spent(p)')
        <5>2. before \in Nat /\ after = before + 1 /\ deletions[p] <= lawDeaths + before
          BY <2>5, <2>7, <3>1
        <5>3. deletions[p] \in Nat /\ lawDeaths \in Nat
          BY <3>1
        <5> HIDE DEF before, after
        <5>4. deletions[p] + 1 <= lawDeaths + after
          BY <5>2, <5>3
        <5> QED BY <4>1, <5>1, <5>4 DEF after
      <4>2. CASE q # p
        <5>1. deletions'[q] = deletions[q] BY <2>1, <3>1, <4>2
        <5>2. Spent(q)' = Spent(q) BY <2>6, <4>2
        <5> QED BY <3>1, <5>1, <5>2
      <4> QED BY <4>1, <4>2
    <3> QED BY <3>2, <3>3 DEF PaidFor
  <2> QED BY <2>2, <2>8
<1>7. CASE SheriffDies
  <2>1. /\ sheriff'.step = "idle" /\ lawDeaths' = lawDeaths + 1
        /\ UNCHANGED <<tokens, deletions>>
    BY <1>7 DEF SheriffDies, Off
  <2>2. ASSUME NEW p \in Precincts
        PROVE Cardinality(Spent(p)) <= Cardinality(Spent(p)') + 1
    <3>1. Spent(p) \in SUBSET (Spent(p)' \cup {sheriff.req})
      BY <2>1 DEF Spent
    <3>2. /\ IsFiniteSet(Spent(p)' \cup {sheriff.req})
          /\ Cardinality(Spent(p)' \cup {sheriff.req}) <= Cardinality(Spent(p)') + 1
      <4>1. IsFiniteSet(Spent(p)') /\ Cardinality(Spent(p)') \in Nat
        BY <1>a, SpentIsFinite
      <4> DEFINE S == Spent(p)'
      <4> HIDE DEF S
      <4>2. IsFiniteSet(S) /\ Cardinality(S) \in Nat
        BY <4>1 DEF S
      <4> DEFINE more == Cardinality(S \cup {sheriff.req})
      <4>3. /\ IsFiniteSet(S \cup {sheriff.req})
            /\ more = IF sheriff.req \in S THEN Cardinality(S) ELSE Cardinality(S) + 1
        BY <4>2, FS_AddElement, Zenon
      <4>4. more <= Cardinality(S) + 1
        BY <4>2, <4>3
      <4> QED BY <4>3, <4>4 DEF S
    <3>3. Cardinality(Spent(p)) <= Cardinality(Spent(p)' \cup {sheriff.req})
      BY <3>1, <3>2, FS_Subset
    <3> QED BY <1>a, <3>2, <3>3, SpentIsFinite, FS_CardinalityType
  <2>3. PaidFor'
    <3> SUFFICES ASSUME NEW p \in Precincts
                 PROVE  deletions'[p] <= lawDeaths' + Cardinality(Spent(p)')
      BY <1>d, <2>1 DEF PaidFor
    <3>1. Cardinality(Spent(p)) \in Nat /\ Cardinality(Spent(p)') \in Nat
      BY <1>a, SpentIsFinite
    <3> QED BY <1>a, <1>d, <2>1, <2>2, <3>1 DEF PaidFor, LawInv, QueueOK
  <2> QED BY <1>d, <2>1, <2>3 DEF DeletesOnToken, YesIsTheUsers
<1>8. CASE UNCHANGED lawOnly
  <2>1. \A p \in Precincts : Spent(p) \subseteq Spent(p)'
    BY <1>8 DEF Spent, lawOnly
  <2> QED
    BY <1>a, <1>d, <1>8, <2>1, NothingTakenBack
    DEF DeletesOnToken, YesIsTheUsers, lawOnly
<1>9. ASSUME NEW r \in DOMAIN Requests, Submit(r)
      PROVE DeletesOnToken' /\ YesIsTheUsers' /\ PaidFor'
  <2>1. \A p \in Precincts : Spent(p) \subseteq Spent(p)'
    BY <1>9 DEF Spent, Submit
  <2> QED
    BY <1>a, <1>d, <1>9, <2>1, NothingTakenBack DEF DeletesOnToken, YesIsTheUsers, Submit
<1>10. \/ \E r \in DOMAIN Requests : RequestDenied(r)
       \/ RetractEnds \/ RestoreEnds \/ RequestFiled \/ RequestUnlinked \/ PurgeEnds
       \/ \E p \in Precincts : Compact(p) \/ Purge(p) \/ \E c \in ClosedCases : ApplyEdit(p, c)
       => DeletesOnToken' /\ YesIsTheUsers' /\ PaidFor'
  <2> USE <1>c DEF Pending, To, Off, Done
  <2>1. ASSUME NEW r \in DOMAIN Requests, RequestDenied(r)
        PROVE DeletesOnToken' /\ YesIsTheUsers' /\ PaidFor'
    BY <2>1 DEF RequestDenied, Deny
  <2>2. CASE RetractEnds \/ RestoreEnds BY <2>2 DEF RetractEnds, RestoreEnds
  <2>3. CASE RequestFiled BY <1>a, <2>3 DEF RequestFiled, LawInv, SheriffOK
  <2>4. CASE RequestUnlinked BY <2>4 DEF RequestUnlinked
  <2>5. CASE PurgeEnds BY <2>5 DEF PurgeEnds
  <2>6. ASSUME NEW p \in Precincts, Compact(p)
        PROVE DeletesOnToken' /\ YesIsTheUsers' /\ PaidFor'
    BY <2>6 DEF Compact, EditFile
  <2>7. ASSUME NEW p \in Precincts, Purge(p)
        PROVE DeletesOnToken' /\ YesIsTheUsers' /\ PaidFor'
    BY <2>7 DEF Purge
  <2>8. ASSUME NEW p \in Precincts, NEW c \in ClosedCases, ApplyEdit(p, c)
        PROVE DeletesOnToken' /\ YesIsTheUsers' /\ PaidFor'
    BY <2>8 DEF ApplyEdit, EditFile
  <2> QED BY <2>1, <2>2, <2>3, <2>4, <2>5, <2>6, <2>7, <2>8
<1>11. CASE Rewrite
  <2>1. /\ sheriff.step = "rewriting" /\ sheriff'.step \in {"idle", "performed"}
        /\ UNCHANGED <<tokens, deletions, lawDeaths>>
    <3>1. CASE sheriff.req = 0 BY <1>11, <3>1 DEF Rewrite, Off
    <3>2. CASE sheriff.req # 0 BY <1>11, <3>2 DEF Rewrite, Done, To, Off
    <3> QED BY <3>1, <3>2
  <2> QED BY <1>c, <2>1
<1>12. CASE ConfirmEnds
  BY <1>4, <1>12, <1>d DEF ConfirmEnds, DeletesOnToken
<1>13. UNCHANGED lawVars => UNCHANGED lawOnly BY DEF lawVars, lawOnly
<1> QED
  BY <1>1, <1>2, <1>3, <1>4, <1>5, <1>6, <1>7, <1>8, <1>9, <1>10, <1>11, <1>12, <1>13
  DEF LawNext

\* No precinct is deleted without a YES to a token of its own, for any requests,
\* users and deaths.
THEOREM DeletionsArePaidFor == LawSpec => []DeletedOnYes
<1>1. LawInit => DeletionInv
  <2> SUFFICES ASSUME LawInit PROVE DeletionInv
    OBVIOUS
  <2>1. LawInv BY LawInvInit
  <2>2. DeletesOnToken /\ YesIsTheUsers
    BY DEF LawInit, DeletesOnToken, YesIsTheUsers, Off
  <2>3. PaidFor
    BY <2>1, SpentIsFinite DEF LawInit, PaidFor
  <2> QED BY <2>1, <2>2, <2>3 DEF DeletionInv
<1>2. DeletionInv => DeletedOnYes
  <2> SUFFICES ASSUME DeletionInv, NEW p \in Precincts
               PROVE  deletions[p] <= lawDeaths + Cardinality({t \in TokenIds :
                                         tokens[t].p = p /\ tokens[t].yes})
    BY DEF DeletedOnYes
  <2> DEFINE Yes == {t \in TokenIds : tokens[t].p = p /\ tokens[t].yes}
  <2>1. /\ IsFiniteSet(Yes) /\ Spent(p) \in SUBSET Yes
    <3>1. IsFiniteSet(TokenIds)
      BY FS_Interval, LawAssumption DEF TokenIds
    <3> QED BY <3>1, FS_Subset DEF Spent
  <2>2. Cardinality(Spent(p)) <= Cardinality(Yes) /\ Cardinality(Yes) \in Nat
    BY <2>1, FS_Subset, FS_CardinalityType
  <2>3. Cardinality(Spent(p)) \in Nat
    BY SpentIsFinite DEF DeletionInv
  <2> HIDE DEF Yes
  <2>4. deletions[p] <= lawDeaths + Cardinality(Yes)
    BY <2>2, <2>3 DEF DeletionInv, PaidFor, LawInv, QueueOK
  <2> QED BY <2>4 DEF Yes
<1> QED BY <1>1, <1>2, DeletionInvStep, PTL DEF LawSpec

-----------------------------------------------------------------------------
(***************************************************************************)
(* The judges.  The prompt is in place before anybody has a register to    *)
(* write that names the judge, and stays there.                            *)
(***************************************************************************)

PromptsFirst ==
    /\ register \in [Judges -> Statuses]
    /\ seeder.write \in [Judges -> Statuses] /\ keeper.write \in [Judges -> Statuses]
    /\ \A j \in Judges :
          \/ j \in judgePrompt
          \/ /\ register[j] = "absent"
             /\ seeder.write[j] = "absent" /\ keeper.write[j] = "absent"

LEMMA PromptsFirstStep == PromptsFirst /\ [JudgeNext]_judgeVars => PromptsFirst'
<1> SUFFICES ASSUME PromptsFirst, [JudgeNext]_judgeVars PROVE PromptsFirst'
  OBVIOUS
<1> USE DEF PromptsFirst, Statuses, AtRest
<1>1. ASSUME NEW force \in BOOLEAN, SeedBegin(force) PROVE PromptsFirst'
  BY <1>1, JudgesAssumption DEF SeedBegin
<1>2. CASE SeedWrite BY <1>2 DEF SeedWrite
<1>3. CASE KeeperWrite BY <1>3 DEF KeeperWrite
<1>4. CASE KeeperDies BY <1>4 DEF KeeperDies
<1>5. ASSUME NEW j \in Judges, Register(j) PROVE PromptsFirst'
  BY <1>5 DEF Register, KeeperOp
<1>6. ASSUME NEW j \in Judges, Update(j) PROVE PromptsFirst'
  BY <1>6 DEF Update, KeeperOp
<1>7. ASSUME NEW j \in Judges, Retire(j) PROVE PromptsFirst'
  BY <1>7 DEF Retire, KeeperOp
<1>8. ASSUME NEW c \in DOMAIN ReviewCalls,
             ReviewBegin(c) \/ ReviewSpawn(c) \/ ReviewVerdict(c) \/ ReviewError(c)
      PROVE PromptsFirst'
  BY <1>8 DEF ReviewBegin, ReviewSpawn, ReviewVerdict, ReviewError, registry
<1>9. ASSUME NEW s \in DOMAIN critic,
             \/ CriticTearsJson(s) \/ CriticWritesJson(s)
             \/ CriticWritesMd(s) \/ CriticEnds(s)
      PROVE PromptsFirst'
  BY <1>9 DEF CriticTearsJson, CriticWritesJson, CriticWritesMd, CriticEnds, registry
<1>10. CASE UNCHANGED judgeVars BY <1>10 DEF judgeVars
<1> QED
  BY <1>1, <1>2, <1>3, <1>4, <1>5, <1>6, <1>7, <1>8, <1>9, <1>10 DEF JudgeNext

\* The register names no judge without a prompt, for any judges and reviews,
\* however often its two writers overwrite each other or the sheriff is killed.
THEOREM JudgesHavePrompts == JudgeSpec => []JudgeHasAPrompt
<1>1. JudgeInit => PromptsFirst
  BY DEF JudgeInit, PromptsFirst, Statuses, AtRest
<1>2. PromptsFirst => JudgeHasAPrompt
  BY DEF PromptsFirst, JudgeHasAPrompt
<1> QED BY <1>1, <1>2, PromptsFirstStep, PTL DEF JudgeSpec

(***************************************************************************)
(* What lies in a round's files somebody who was at work there has said:   *)
(* a sign-off in the json without, in a headline perhaps with a            *)
(* reservation.                                                            *)
(***************************************************************************)

ReviewRecords ==
    [step : {"new", "round", "poll", "over"}, round : Rounds \cup {0},
     result : {"none", "refused", "SIGN-OFF", "REVISE", "error"}, by : {"json", "md"}]
Critics ==
    [Judges \X Rounds -> [alive : BOOLEAN, says : Said, left : SUBSET {"json", "md"}]]

ReviewsOK ==
    /\ critic \in Critics
    /\ verdictJson \in [Rounds -> Said \cup {"none", "torn"}]
    /\ verdictMd \in [Rounds -> Said \cup {"none"}]
    /\ judged \in [Rounds -> SUBSET Said]
    /\ reviews \in [DOMAIN ReviewCalls -> ReviewRecords]
    /\ roundDirs \subseteq Rounds
    /\ \A c \in DOMAIN reviews :
          /\ reviews[c].step \in {"round", "poll"} => reviews[c].round \in Rounds
          /\ reviews[c].step \in {"new", "round"} => reviews[c].result = "none"

WordsAreJudged ==
    \A r \in Rounds :
       /\ verdictJson[r] \in Said => verdictJson[r] \in judged[r]
       /\ verdictMd[r] = "sign_off" => SaidInHeadline(r)
       /\ \A j \in Judges : critic[<<j, r>>].alive => critic[<<j, r>>].says \in judged[r]

ResultsAreBacked ==
    \A c \in DOMAIN reviews :
        reviews[c].result = "SIGN-OFF" =>
            reviews[c].round \in Rounds /\ Backs(reviews[c].round, reviews[c].by)

ReviewInv == ReviewsOK /\ WordsAreJudged /\ ResultsAreBacked

\* What a round's two files come to is what somebody said.
LEMMA SignOffIsBacked ==
  ASSUME ReviewInv, NEW r \in Rounds, Verdict(r) = "SIGN-OFF"
  PROVE  Backs(r, Source(r))
<1> USE DEF ReviewInv, ReviewsOK, WordsAreJudged, Said, Backs, Source
<1>1. CASE verdictJson[r] \in Said
  BY <1>1 DEF Verdict, Parse, SaidInJson
<1>2. CASE verdictJson[r] \notin Said
  BY <1>2 DEF Verdict, Parse
<1> QED BY <1>1, <1>2

\* What was said stays said.
LEMMA BackedStays ==
  ASSUME ReviewInv, DOMAIN reviews' = DOMAIN reviews,
         \A r \in Rounds : judged[r] \subseteq judged'[r],
         \A c \in DOMAIN reviews :
            reviews'[c].result # "SIGN-OFF" \/ reviews'[c] = reviews[c]
  PROVE  ResultsAreBacked'
BY DEF ReviewInv, ResultsAreBacked, Backs, SaidInJson, SaidInHeadline

LEMMA CriticStep ==
  ASSUME ReviewInv, NEW j \in Judges, NEW r \in Rounds,
         \/ CriticTearsJson(<<j, r>>) \/ CriticWritesJson(<<j, r>>)
         \/ CriticWritesMd(<<j, r>>) \/ CriticEnds(<<j, r>>)
  PROVE  ReviewInv'
<1> DEFINE s == <<j, r>>
<1>a. /\ s \in Judges \X Rounds /\ critic[s].alive
      /\ critic[s] \in [alive : BOOLEAN, says : Said, left : SUBSET {"json", "md"}]
      /\ critic[s].says \in judged[r]
  BY DEF ReviewInv, ReviewsOK, Critics, WordsAreJudged, CriticTearsJson, CriticWritesJson,
         CriticWritesMd, CriticEnds
<1>b. /\ UNCHANGED <<reviews, judged, roundDirs>>
      /\ \A x \in (Judges \X Rounds) \ {s} : critic'[x] = critic[x]
      /\ critic' \in Critics
      /\ critic'[s].says = critic[s].says
  <2> USE DEF ReviewInv, ReviewsOK, Critics
  <2>1. CASE CriticEnds(s) BY <1>a, <2>1 DEF CriticEnds
  <2>2. CASE CriticTearsJson(s) BY <1>a, <2>2 DEF CriticTearsJson
  <2>3. CASE CriticWritesJson(s) BY <1>a, <2>3 DEF CriticWritesJson, Leaves
  <2>4. CASE CriticWritesMd(s) BY <1>a, <2>4 DEF CriticWritesMd, Leaves
  <2> QED BY <2>1, <2>2, <2>3, <2>4
<1>c. /\ \A q \in Rounds \ {r} : verdictJson'[q] = verdictJson[q] /\ verdictMd'[q] = verdictMd[q]
      /\ verdictJson'[r] \in {verdictJson[r], "torn", critic[s].says}
      /\ \/ verdictMd'[r] = verdictMd[r]
         \/ verdictMd'[r] = "sign_off" => critic[s].says \in {"sign_off", "sign_off_but"}
      /\ verdictJson' \in [Rounds -> Said \cup {"none", "torn"}]
      /\ verdictMd' \in [Rounds -> Said \cup {"none"}]
  <2> USE <1>a DEF ReviewInv, ReviewsOK, Leaves
  <2>1. CASE CriticEnds(s) BY <2>1 DEF CriticEnds
  <2>2. CASE CriticTearsJson(s) BY <2>2 DEF CriticTearsJson
  <2>3. CASE CriticWritesJson(s) BY <2>3 DEF CriticWritesJson
  <2>4. CASE CriticWritesMd(s) BY <2>4 DEF CriticWritesMd, Said
  <2> QED BY <2>1, <2>2, <2>3, <2>4
<1>d. \A i \in Judges, q \in Rounds : <<i, q>> # s => critic'[<<i, q>>] = critic[<<i, q>>]
  BY <1>b
<1>1. ReviewsOK'
  BY <1>b, <1>c DEF ReviewInv, ReviewsOK
<1>2. WordsAreJudged'
  BY <1>a, <1>b, <1>c, <1>d DEF ReviewInv, WordsAreJudged, SaidInHeadline, Said
<1>3. ResultsAreBacked'
  BY <1>b, BackedStays
<1> QED BY <1>1, <1>2, <1>3 DEF ReviewInv

LEMMA ReviewStep ==
  ASSUME ReviewInv, NEW c \in DOMAIN ReviewCalls,
         ReviewBegin(c) \/ ReviewSpawn(c) \/ ReviewVerdict(c) \/ ReviewError(c)
  PROVE  ReviewInv'
<1>a. /\ reviews[c] \in ReviewRecords
      /\ reviews[c].step \in {"round", "poll"} => reviews[c].round \in Rounds
      /\ DOMAIN reviews = DOMAIN ReviewCalls
  BY DEF ReviewInv, ReviewsOK
\* A review that goes on to a step, or ends without a verdict.
<1>b. ASSUME NEW step \in {"round", "poll", "over"}, NEW r \in Rounds \cup {0},
             NEW result \in {"none", "refused", "error"}, Step(c, step, r, result),
             step \in {"round", "poll"} => r \in Rounds /\ result = "none"
      PROVE  /\ reviews' \in [DOMAIN ReviewCalls -> ReviewRecords]
             /\ DOMAIN reviews' = DOMAIN reviews
             /\ \A d \in DOMAIN reviews :
                   reviews'[d].result # "SIGN-OFF" \/ reviews'[d] = reviews[d]
             /\ \A d \in DOMAIN reviews :
                   /\ reviews'[d].step \in {"round", "poll"} => reviews'[d].round \in Rounds
                   /\ reviews'[d].step \in {"new", "round"} => reviews'[d].result = "none"
  <2>1. PICK new : new = [reviews[c] EXCEPT !.step = step, !.round = r, !.result = result]
    OBVIOUS
  <2>2. /\ new \in ReviewRecords /\ new.step = step /\ new.round = r
        /\ new.result = result
    BY <1>a, <2>1 DEF ReviewRecords
  <2>3. reviews' = [reviews EXCEPT ![c] = new]
    BY <1>b, <2>1, Zenon DEF Step
  <2> QED BY <1>a, <1>b, <2>2, <2>3 DEF ReviewInv, ReviewsOK
<1>c. ASSUME NEW step \in {"round", "poll", "over"}, NEW r \in Rounds \cup {0},
             NEW result \in {"none", "refused", "error"}, Step(c, step, r, result),
             step \in {"round", "poll"} => r \in Rounds /\ result = "none",
             UNCHANGED <<verdictJson, verdictMd, critic, judged>>,
             roundDirs' \subseteq Rounds
      PROVE  ReviewInv'
  <2>1. ReviewsOK'
    BY <1>b, <1>c DEF ReviewInv, ReviewsOK
  <2>2. WordsAreJudged'
    BY <1>c DEF ReviewInv, WordsAreJudged, SaidInHeadline
  <2>3. ResultsAreBacked'
    BY <1>b, <1>c, BackedStays
  <2> QED BY <2>1, <2>2, <2>3 DEF ReviewInv
<1>1. CASE ReviewBegin(c)
  <2>1. PICK r \in Rounds \cup {0} :
          /\ \/ r = 0 /\ Step(c, "over", r, "refused")
             \/ r \in Rounds /\ Step(c, "round", r, "none")
          /\ UNCHANGED <<roundDirs, verdictJson, verdictMd, critic, judged>>
    BY <1>1 DEF ReviewBegin
  <2> QED BY <1>c, <2>1 DEF ReviewInv, ReviewsOK
<1>2. CASE ReviewSpawn(c)
  <2>0. PICK r \in Rounds, j \in Judges :
          /\ r = reviews[c].round /\ j = ReviewCalls[c].judge
          /\ roundDirs' = roundDirs \cup {r} /\ UNCHANGED <<verdictJson, verdictMd>>
          /\ roundDirs' \subseteq Rounds
    BY <1>2, <1>a, JudgesAssumption DEF ReviewSpawn, ReviewInv, ReviewsOK
  <2>1. PICK step \in {"poll", "over"}, result \in {"none", "refused"} :
             Step(c, step, r, result) /\ (step = "poll" => result = "none")
    BY <1>2, <2>0 DEF ReviewSpawn
  <2>2. CASE UNCHANGED <<critic, judged>>
    BY <1>c, <2>0, <2>1, <2>2
  <2>3. ASSUME NEW says \in Said,
               critic' = [critic EXCEPT ![<<j, r>>] =
                            [alive |-> TRUE, says |-> says, left |-> {"json", "md"}]],
               judged' = [judged EXCEPT ![r] = @ \cup {says}]
        PROVE ReviewInv'
    <3>1. /\ critic' \in Critics /\ critic'[<<j, r>>].says = says
          /\ \A i \in Judges, q \in Rounds :
                i # j \/ q # r => critic'[<<i, q>>] = critic[<<i, q>>]
      BY <2>0, <2>3 DEF ReviewInv, ReviewsOK, Critics
    <3>2. /\ judged' \in [Rounds -> SUBSET Said] /\ says \in judged'[r]
          /\ \A q \in Rounds : judged[q] \subseteq judged'[q]
      BY <2>0, <2>3 DEF ReviewInv, ReviewsOK
    <3>3. ReviewsOK'
      BY <1>b, <2>0, <2>1, <3>1, <3>2 DEF ReviewInv, ReviewsOK
    <3>4. WordsAreJudged'
      BY <2>0, <3>1, <3>2 DEF ReviewInv, WordsAreJudged, SaidInHeadline
    <3>5. ResultsAreBacked'
      BY <1>b, <2>0, <2>1, <3>2, BackedStays
    <3> QED BY <3>3, <3>4, <3>5 DEF ReviewInv
  <2>4. CASE j \in judgePrompt /\ ~critic[<<j, r>>].alive
    BY <1>2, <2>0, <2>3, <2>4 DEF ReviewSpawn, Composable
  <2>5. CASE ~(j \in judgePrompt /\ ~critic[<<j, r>>].alive)
    BY <1>2, <2>0, <2>2, <2>5 DEF ReviewSpawn, Composable
  <2> QED BY <2>4, <2>5
<1>3. CASE ReviewVerdict(c)
  <2>1. PICK r \in Rounds, new \in ReviewRecords :
          /\ r = reviews[c].round /\ Verdict(r) \in {"SIGN-OFF", "REVISE"}
          /\ new = [step |-> "over", round |-> r, result |-> Verdict(r), by |-> Source(r)]
          /\ reviews' = [reviews EXCEPT ![c] = new]
          /\ UNCHANGED <<roundDirs, verdictJson, critic, judged>>
    BY <1>3, <1>a DEF ReviewVerdict, Verdict, Parse, Source, ReviewRecords
  <2>2. /\ \A d \in DOMAIN reviews : d # c => reviews'[d] = reviews[d]
        /\ reviews'[c] = new /\ DOMAIN reviews' = DOMAIN reviews
        /\ reviews' \in [DOMAIN ReviewCalls -> ReviewRecords]
    BY <1>a, <2>1 DEF ReviewInv, ReviewsOK
  <2>3. Verdict(r) = "SIGN-OFF" => Backs(r, Source(r)) /\ SaidInHeadline(r)
    BY <2>1, SignOffIsBacked DEF Backs, SaidInJson, SaidInHeadline
  <2>4. /\ verdictMd' \in [Rounds -> Said \cup {"none"}]
        /\ \A q \in Rounds : \/ verdictMd'[q] = verdictMd[q]
                             \/ q = r /\ (verdictMd'[r] = "sign_off" => Verdict(r) = "SIGN-OFF")
    BY <1>3, <2>1 DEF ReviewVerdict, ReviewInv, ReviewsOK, Said
  <2>5. ReviewsOK'
    BY <1>a, <2>1, <2>2, <2>4 DEF ReviewInv, ReviewsOK
  <2>6. WordsAreJudged'
    BY <2>1, <2>3, <2>4 DEF ReviewInv, WordsAreJudged, SaidInHeadline
  <2>7. ResultsAreBacked'
    BY <1>a, <2>1, <2>2, <2>3 DEF ReviewInv, ResultsAreBacked, Backs, SaidInJson,
                                  SaidInHeadline
  <2> QED BY <2>5, <2>6, <2>7 DEF ReviewInv
<1>4. CASE ReviewError(c)
  BY <1>4, <1>a, <1>c DEF ReviewError, ReviewInv, ReviewsOK
<1> QED BY <1>1, <1>2, <1>3, <1>4

LEMMA ReviewInvInit == JudgeInit => ReviewInv
<1> SUFFICES ASSUME JudgeInit PROVE ReviewInv
  OBVIOUS
<1>1. ReviewsOK
  BY DEF JudgeInit, ReviewsOK, ReviewRecords, Critics, NoCritic, Said
<1>2. WordsAreJudged
  BY DEF JudgeInit, WordsAreJudged, NoCritic, Said
<1>3. ResultsAreBacked
  BY DEF JudgeInit, ResultsAreBacked
<1> QED BY <1>1, <1>2, <1>3 DEF ReviewInv

LEMMA ReviewInvStep == ReviewInv /\ [JudgeNext]_judgeVars => ReviewInv'
<1> SUFFICES ASSUME ReviewInv, [JudgeNext]_judgeVars PROVE ReviewInv'
  OBVIOUS
<1>1. ASSUME UNCHANGED rounds PROVE ReviewInv'
  <2>1. UNCHANGED <<roundDirs, verdictJson, verdictMd, critic, reviews, judged>>
    BY <1>1 DEF rounds
  <2>2. ReviewsOK' /\ WordsAreJudged'
    BY <2>1 DEF ReviewInv, ReviewsOK, WordsAreJudged, SaidInHeadline
  <2>3. ResultsAreBacked'
    BY <2>1 DEF ReviewInv, ResultsAreBacked, Backs, SaidInJson, SaidInHeadline
  <2> QED BY <2>2, <2>3 DEF ReviewInv
<1>2. CASE UNCHANGED judgeVars BY <1>1, <1>2 DEF judgeVars, rounds
<1>3. CASE SeedWrite \/ KeeperWrite \/ KeeperDies \/ \E force \in BOOLEAN : SeedBegin(force)
  BY <1>1, <1>3 DEF SeedWrite, KeeperWrite, KeeperDies, SeedBegin
<1>4. ASSUME NEW j \in Judges, Register(j) \/ Update(j) \/ Retire(j) PROVE ReviewInv'
  BY <1>1, <1>4 DEF Register, Update, Retire, KeeperOp
<1>5. ASSUME NEW c \in DOMAIN ReviewCalls,
             ReviewBegin(c) \/ ReviewSpawn(c) \/ ReviewVerdict(c) \/ ReviewError(c)
      PROVE ReviewInv'
  BY <1>5, ReviewStep
<1>6. ASSUME NEW s \in DOMAIN critic,
             \/ CriticTearsJson(s) \/ CriticWritesJson(s)
             \/ CriticWritesMd(s) \/ CriticEnds(s)
      PROVE ReviewInv'
  <2>1. PICK j \in Judges, r \in Rounds : s = <<j, r>>
    BY DEF ReviewInv, ReviewsOK, Critics
  <2> QED BY <1>6, <2>1, CriticStep
<1> QED BY <1>2, <1>3, <1>4, <1>5, <1>6 DEF JudgeNext

\* The gate fails closed, for any judges and rounds, however the reviews of a case
\* overlap and whatever their critics leave, tear or never write: a sign-off read
\* from a json is one without a reservation, and one read from a headline some
\* critic's.
THEOREM GateFailsClosed == JudgeSpec => []SignOffIsTheJudges
<1>1. ReviewInv => SignOffIsTheJudges
  BY SignOffIsBacked
  DEF ReviewInv, ReviewsOK, ResultsAreBacked, SignOffIsTheJudges, SignedOff
<1> QED BY <1>1, ReviewInvInit, ReviewInvStep, PTL DEF JudgeSpec

-----------------------------------------------------------------------------
(***************************************************************************)
(* A rewrite under way has in its prompt all lessons between the cursor    *)
(* and its own last one.  The cursor cannot move under it, since there is  *)
(* one sheriff; lessons that come meanwhile are behind its last one.       *)
(***************************************************************************)

AtWork == guideSheriff.step \in {"model", "commit"}

SnapshotMeetsCursor ==
    AtWork =>
        LET from == incorporated[guideSheriff.category]
        IN  /\ guideSheriff.through \in Nat /\ from <= guideSheriff.through
            /\ guideSheriff.prompt = from + 1 .. guideSheriff.through

IsARewrite(g) == g = [step |-> g.step, category |-> g.category, request |-> g.request,
                      prompt |-> g.prompt, through |-> g.through]

GuideInv ==
    /\ IsARewrite(guideSheriff)
    /\ lessons \in [Categories -> Nat] /\ incorporated \in [Categories -> Nat]
    /\ DOMAIN reviewed = Categories
    /\ AtWork => guideSheriff.category \in Categories
    /\ SnapshotMeetsCursor
    /\ LessonsAreReviewed

LEMMA GuideInvInit == GuideInit => GuideInv
<1> SUFFICES ASSUME GuideInit PROVE GuideInv
  OBVIOUS
<1>1. guideSheriff.step = "none" /\ IsARewrite(guideSheriff)
  BY DEF GuideInit, NoRewrite, IsARewrite
<1>2. LessonsAreReviewed BY SMT DEF GuideInit, LessonsAreReviewed
<1> QED BY <1>1, <1>2 DEF GuideInit, GuideInv, AtWork, SnapshotMeetsCursor

LEMMA GuideInvStep == GuideInv /\ [GuideNext]_guideVars => GuideInv'
<1> SUFFICES ASSUME GuideInv, [GuideNext]_guideVars PROVE GuideInv'
  OBVIOUS
<1> USE DEF GuideInv, AtWork, SnapshotMeetsCursor, LessonsAreReviewed, guideFiles,
            IsARewrite
<1>1. ASSUME NEW c \in Categories, AddLesson(c) PROVE GuideInv'
  BY <1>1 DEF AddLesson
<1>2. ASSUME NEW c \in Categories, NEW request \in BOOLEAN, Claims(c, request)
      PROVE GuideInv'
  <2> DEFINE last == IF PendingLessons(c) = {} THEN incorporated[c] ELSE lessons[c]
  <2>1. /\ guideSheriff'.category = c /\ guideSheriff'.through = last
        /\ guideSheriff'.prompt = incorporated[c] + 1 .. lessons[c]
        /\ IsARewrite(guideSheriff')
        /\ UNCHANGED <<lessons, incorporated, reviewed>>
    BY <1>2 DEF Claims, PendingLessons
  <2>2. /\ last \in Nat /\ incorporated[c] <= last
        /\ incorporated[c] + 1 .. lessons[c] = incorporated[c] + 1 .. last
    BY DEF PendingLessons
  <2> HIDE DEF last
  <2> QED BY <2>1, <2>2
<1>3. ASSUME NEW c \in Categories, RequestedRewrite(c) \/ AutomaticRewrite(c)
      PROVE GuideInv'
  BY <1>2, <1>3 DEF RequestedRewrite, AutomaticRewrite
<1>4. ASSUME NEW c \in Categories, ClaimAges(c) \/ ClearStale(c) PROVE GuideInv'
  BY <1>4 DEF ClaimAges, ClearStale
<1>5. ASSUME NEW c \in Categories, NEW trigger, QueueRewrite(c, trigger) PROVE GuideInv'
  BY <1>5 DEF QueueRewrite
<1>6. ASSUME NEW step, ModelReturns(step) PROVE GuideInv'
  BY <1>6 DEF ModelReturns
<1>7. CASE Commit
  <2> DEFINE c == guideSheriff.category
             through == guideSheriff.through
  <2>1. /\ c \in Categories /\ through \in Nat /\ incorporated[c] <= through
        /\ guideSheriff.prompt = incorporated[c] + 1 .. through
        /\ incorporated[c] \in Nat /\ reviewed[c] = 1 .. incorporated[c]
    BY <1>7 DEF Commit
  <2>2. 1 .. through = reviewed[c] \cup guideSheriff.prompt
    BY <2>1
  <2>3. /\ incorporated' = [incorporated EXCEPT ![c] = through]
        /\ reviewed' = [reviewed EXCEPT ![c] = @ \cup guideSheriff.prompt]
        /\ guideSheriff' = [guideSheriff EXCEPT !.step = "history"]
        /\ UNCHANGED lessons
    BY <1>7 DEF Commit
  <2>4. guideSheriff'.step = "history" /\ IsARewrite(guideSheriff')
    BY <2>3
  <2>5. LessonsAreReviewed' BY <2>1, <2>2, <2>3
  <2>6. incorporated' \in [Categories -> Nat] /\ DOMAIN reviewed' = Categories
    BY <2>1, <2>3
  <2> QED BY <2>3, <2>4, <2>5, <2>6
<1>8. CASE Defers BY <1>8 DEF Defers, NoRewrite
<1>9. CASE RecordsRewrite BY <1>9 DEF RecordsRewrite, NoRewrite
<1>10. CASE CompletesRequest BY <1>10 DEF CompletesRequest, NoRewrite
<1>11. CASE GuideSheriffDies BY <1>11 DEF GuideSheriffDies, NoRewrite
<1>12. CASE UNCHANGED guideVars BY <1>12 DEF guideVars
<1> QED
  BY <1>1, <1>3, <1>4, <1>5, <1>6, <1>7, <1>8, <1>9, <1>10, <1>11, <1>12
  DEF GuideNext

\* The cursor never passes a lesson that no committed rewrite has seen, however
\* many lessons, categories, failures and deaths there are.
THEOREM LessonsReviewed == GuideSpec => []LessonsAreReviewed
<1>1. GuideInv => LessonsAreReviewed BY DEF GuideInv
<1> QED BY <1>1, GuideInvInit, GuideInvStep, PTL DEF GuideSpec

=============================================================================
