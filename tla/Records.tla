------------------------------- MODULE Records -------------------------------
(***************************************************************************)
(* scratch_records.py: what a precinct keeps.  Its directory holds a       *)
(* ledger and a case log; precincts.json names the precincts; a deleted    *)
(* precinct's directory waits in .trash until its retention is over.       *)
(*                                                                         *)
(* Whoever changes a file holds the lock of a sidecar beside it, reads the *)
(* file and replaces it in one go.  The sidecar lies in the directory, and *)
(* goes where the directory goes: deleting and restoring take the lock of  *)
(* precincts.json, which nobody who appends takes, and an append makes the *)
(* directory when it is not there.  So each directory that was ever made   *)
(* has a lock of its own, which `id` stands for.                           *)
(*                                                                         *)
(* A ledger is the set of the cases it has a paragraph of, a log the set   *)
(* of the cases it has a line of.  Precincts with a fixed ledger refuse    *)
(* all of this and are left out.                                           *)
(***************************************************************************)
EXTENDS Naturals, FiniteSets, FiniteSetsExt

CONSTANTS
    Precincts,
    CaseIn,         \* the precinct of each case that deputies close
    MaxTrash

ASSUME RecordsAssumption ==
    /\ Precincts # {} /\ MaxTrash \in Nat
    /\ CaseIn \in [DOMAIN CaseIn -> Precincts]

VARIABLES
    directory,      \* precincts.json: status, trash (0: none), retention over
    records,        \* each precinct's directory
    trash,          \* each precinct's directories in .trash
    made,           \* how many directories a precinct had
    caseStep,       \* each case's deputy: how far it is
    appends,        \* its append: the lock it opened and what it read
    \* For the properties only.
    disturbed,      \* the appends under way when their directory was moved
    removed,        \* by file: what the sheriff retracted or folded
    purged,         \* ... what was in a trash that was purged
    astray          \* ... what a disturbed append wrote, or did not know

recordVars == <<directory, records, trash, made, caseStep, appends, disturbed, removed,
                purged, astray>>

ClosedCases == DOMAIN CaseIn
TrashIds    == 1 .. MaxTrash
Files       == {"ledger", "log"}
Blank       == [f \in Files |-> {}]
NoDir       == [there |-> FALSE, id |-> 0, has |-> Blank]
NoAppend    == [step |-> "none", lock |-> 0, seen |-> {}]
Contents    == [Files -> SUBSET ClosedCases]
Dirs        == [there : BOOLEAN, id : Nat, has : Contents]

RecordTypeOK ==
    /\ directory \in [Precincts -> [status : {"none", "active", "deleted"},
                                    trash : TrashIds \cup {0}, over : BOOLEAN]]
    /\ records \in [Precincts -> Dirs] /\ trash \in [Precincts -> [TrashIds -> Dirs]]
    /\ made \in [Precincts -> Nat]
    /\ caseStep \in [ClosedCases -> {"none", "working", "reported", "closed"}]
    /\ appends \in [ClosedCases -> [step : {"none", "open", "read"}, lock : Nat,
                                    seen : SUBSET ClosedCases]]
    /\ disturbed \subseteq ClosedCases
    /\ removed \in Contents /\ purged \in Contents /\ astray \in Contents

RecordInit ==
    /\ directory = [p \in Precincts |-> [status |-> "active", trash |-> 0, over |-> FALSE]]
    /\ records = [p \in Precincts |-> [there |-> TRUE, id |-> 1, has |-> Blank]]
    /\ trash = [p \in Precincts |-> [i \in TrashIds |-> NoDir]]
    /\ made = [p \in Precincts |-> 1]
    /\ caseStep = [c \in ClosedCases |-> "none"]
    /\ appends = [c \in ClosedCases |-> NoAppend]
    /\ disturbed = {} /\ removed = Blank /\ purged = Blank /\ astray = Blank

-----------------------------------------------------------------------------
(* Directories and locks.                                                  *)

\* The directory at a precinct's place, made anew when there is none.
Here(p) ==
    IF records[p].there THEN records[p]
    ELSE [there |-> TRUE, id |-> made[p] + 1, has |-> Blank]

\* It is there from now on, and holds this.
Fill(p, has) ==
    /\ records' = [records EXCEPT ![p] = [Here(p) EXCEPT !.has = has]]
    /\ made' = IF records[p].there THEN made ELSE [made EXCEPT ![p] = @ + 1]

Make(p) == Fill(p, records[p].has)
Replace(p, f, content) == Fill(p, [records[p].has EXCEPT ![f] = content])

\* A case's report comes first, its line last.
FileOf(c) == IF caseStep[c] = "working" THEN "ledger" ELSE "log"

\* An append that holds the lock of a file in the directory with this id.
Holds(c, p, f, id) ==
    /\ appends[c].step = "read" /\ CaseIn[c] = p /\ FileOf(c) = f
    /\ appends[c].lock = id

Locked(p, f, id) == \E c \in ClosedCases : Holds(c, p, f, id)

-----------------------------------------------------------------------------
(* What a deputy does.                                                     *)

TakesCase(c) ==
    /\ caseStep[c] = "none" /\ directory[CaseIn[c]].status = "active"
    /\ caseStep' = [caseStep EXCEPT ![c] = "working"]
    /\ UNCHANGED <<directory, records, trash, made, appends, disturbed, removed, purged,
                   astray>>

\* ledger_append or log_append: the directory is made, and the sidecar in it opened.
AppendOpen(c) ==
    /\ caseStep[c] \in {"working", "reported"} /\ appends[c].step = "none"
    /\ Make(CaseIn[c])
    /\ appends' = [appends EXCEPT ![c] = [step |-> "open", lock |-> Here(CaseIn[c]).id,
                                          seen |-> {}]]
    /\ UNCHANGED <<directory, trash, caseStep, disturbed, removed, purged, astray>>

AppendUnlocked(c, others) ==                                          \* mutant
    /\ appends[c].step = "open"
    /\ appends' = [appends EXCEPT ![c].step = "read",
                                  ![c].seen = records[CaseIn[c]].has[FileOf(c)]]
    /\ UNCHANGED <<directory, records, trash, made, caseStep, disturbed, removed, purged,
                   astray>>

\* The lock of that sidecar, and then whatever lies at the path by now.
AppendRead(c, others) ==
    /\ appends[c].step = "open"
    /\ ~others /\ ~Locked(CaseIn[c], FileOf(c), appends[c].lock)
    /\ appends' = [appends EXCEPT ![c].step = "read",
                                  ![c].seen = records[CaseIn[c]].has[FileOf(c)]]
    /\ UNCHANGED <<directory, records, trash, made, caseStep, disturbed, removed, purged,
                   astray>>

AppendEnds(c) ==
    /\ appends' = [appends EXCEPT ![c] = NoAppend]
    /\ disturbed' = disturbed \ {c}

\* What it read and its own, to the path.
AppendWrite(c) ==
    LET p == CaseIn[c]
        f == FileOf(c)
        unknown == records[p].has[f] \ appends[c].seen
    IN  /\ appends[c].step = "read"
        /\ Replace(p, f, appends[c].seen \cup {c})
        /\ caseStep' = [caseStep EXCEPT ![c] = IF f = "ledger" THEN "reported" ELSE "closed"]
        /\ astray' = [astray EXCEPT ![f] = IF c \in disturbed THEN @ \cup unknown \cup {c}
                                           ELSE @]
        /\ AppendEnds(c)
        /\ UNCHANGED <<directory, trash, removed, purged>>

\* It is killed, or its file's place went away under it; the deputy tries again.
AppendFails(c) ==
    /\ appends[c].step # "none"
    /\ AppendEnds(c)
    /\ UNCHANGED <<directory, records, trash, made, caseStep, removed, purged, astray>>

-----------------------------------------------------------------------------
(* What the sheriff may do.  Each is a part of one of its steps.           *)

theCases == <<caseStep, appends, disturbed, purged, astray>>

\* ledger_write, whatever the ledger holds by now.
LedgerWrite(p, kept) ==
    /\ ~Locked(p, "ledger", records[p].id)
    /\ Replace(p, "ledger", kept)
    /\ removed' = [removed EXCEPT !["ledger"] = @ \cup (records[p].has["ledger"] \ kept)]
    /\ UNCHANGED <<directory, trash, theCases>>

\* log_remove: the lock and the read; nothing more without a line to take out.
LogRead(p) ==
    /\ ~Locked(p, "log", records[p].id)
    /\ Make(p)
    /\ UNCHANGED <<directory, trash, removed, theCases>>

LogWrite(p, c, kept) ==
    /\ Replace(p, "log", kept)
    /\ removed' = [removed EXCEPT !["log"] = @ \cup {c}]
    /\ UNCHANGED <<directory, trash, theCases>>

\* A precinct whose records are in the trash cannot be registered.
Registrable(p) == directory[p].status # "deleted"

DirectoryRegister(p) ==
    /\ Make(p)
    /\ directory' = [directory EXCEPT ![p].status = "active"]
    /\ UNCHANGED <<trash, removed, theCases>>

\* The name has the time in it.
NewTrash(p, i) == ~trash[p][i].there /\ directory[p].trash < i

Appending(p) == {c \in ClosedCases : CaseIn[c] = p /\ appends[c].step # "none"}

\* precinct_soft_delete: the move, and the entry that says where to.  Whoever is
\* appending holds one directory's lock and may read or write another.
DeleteMove(p, i) ==
    /\ trash' = [trash EXCEPT ![p][i] = records[p]]
    /\ records' = [records EXCEPT ![p] = NoDir]
    /\ disturbed' = disturbed \cup Appending(p)
    /\ UNCHANGED <<directory, made, caseStep, appends, removed, purged, astray>>

DeleteEntry(p, i) ==
    /\ directory' = [directory EXCEPT ![p] = [status |-> "deleted", trash |-> i,
                                              over |-> FALSE]]
    /\ UNCHANGED <<records, trash, made, removed, theCases>>

\* A live directory is never clobbered; a trash that is gone is no obstacle.
Restorable(p) ==
    /\ directory[p].status = "deleted"
    /\ trash[p][directory[p].trash].there => ~records[p].there

RestoreMove(p) ==
    LET i == directory[p].trash
    IN  /\ records' = IF trash[p][i].there THEN [records EXCEPT ![p] = trash[p][i]]
                      ELSE records
        /\ trash' = [trash EXCEPT ![p][i] = NoDir]
        /\ UNCHANGED <<directory, made, removed, theCases>>

RestoreEntry(p) ==
    /\ directory' = [directory EXCEPT ![p] = [status |-> "active", trash |-> 0,
                                              over |-> FALSE]]
    /\ UNCHANGED <<records, trash, made, removed, theCases>>

PendingPurge(p) == directory[p].status = "deleted" /\ directory[p].over

PurgeTrash(p) ==
    LET i == directory[p].trash
    IN  /\ trash' = [trash EXCEPT ![p][i] = NoDir]
        /\ purged' = [f \in Files |-> purged[f] \cup IF directory[p].over
                                                     THEN trash[p][i].has[f] ELSE {}]
        /\ UNCHANGED <<directory, records, made, caseStep, appends, disturbed, removed,
                       astray>>

PurgeEntry(p) ==
    /\ directory' = [directory EXCEPT ![p] = [status |-> "none", trash |-> 0,
                                              over |-> FALSE]]
    /\ UNCHANGED <<records, trash, made, removed, theCases>>

\* Fourteen days pass.
RetentionEnds(p) ==
    /\ directory[p].status = "deleted" /\ ~directory[p].over
    /\ directory' = [directory EXCEPT ![p].over = TRUE]
    /\ UNCHANGED <<records, trash, made, removed, theCases>>

-----------------------------------------------------------------------------
(* Properties.                                                             *)

Filed(c, f) == caseStep[c] \in IF f = "ledger" THEN {"reported", "closed"} ELSE {"closed"}

OnDisk(c, f) == \/ c \in records[CaseIn[c]].has[f]
                \/ \E i \in TrashIds : c \in trash[CaseIn[c]][i].has[f]

\* What a deputy filed is on disk, in its precinct or in the trash: the line of a
\* closed case unless the sheriff retracted it, its paragraph unless the sheriff
\* rewrote the ledger, and neither once the precinct was purged after its retention.
\* Whatever is deleted, restored, or killed in the middle of it, and however many
\* append at a time: unless an append was under way while its directory was moved,
\* which may lose its own line and those it does not know.
FiledIsKept ==
    \A c \in ClosedCases, f \in Files :
        Filed(c, f) => c \in removed[f] \cup purged[f] \cup astray[f] \/ OnDisk(c, f)

=============================================================================
