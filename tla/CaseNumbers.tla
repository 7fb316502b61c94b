---------------------------- MODULE CaseNumbers ----------------------------
(***************************************************************************)
(* Case numbers and the bridges that spend them.                           *)
(*                                                                         *)
(*   scratch_case_seq.py  one counter file for every origin of a case, the *)
(*                        link from a mail's uid to its number, reserved   *)
(*                        numbers, and the scan of what the records hold   *)
(*   scratch_web_case.py  the bridge from a record in web_cases/pending to *)
(*                        a spawned deputy; the record comes from the      *)
(*                        dashboard's form or from a mail with a precinct  *)
(*   scratch_jtf.py       the bridge from a joint task force's record to   *)
(*                        its lead and its collaborators                   *)
(*                                                                         *)
(* allocate() holds the counter's lock from the scan to the write, while   *)
(* reserve() and whoever files a case do not take it: two steps.  The      *)
(* bridges run each under a lock of their own, one record after the other. *)
(* The retired band from 900000 on is left out.                            *)
(***************************************************************************)
EXTENDS Naturals, Sequences, FiniteSets, FiniteSetsExt, SequencesExt

CONSTANTS
    Forms,          \* submissions of the dashboard's form
    Uids,           \* mails that name a precinct
    MailOf,         \* the handlers' mails: two handlers may have one (a retry)
    Batches,        \* calls of `allocate --n K` from a command line: their K
    Malformed,      \* records the bridges quarantine
    Groups,         \* joint task forces: their slots, the lead's first
    Foreign,        \* numbers that get filed or reserved past the counter
    Workloads,      \* sets of forms, handlers, batches and groups to consider together
    MaxNumber, MaxDeaths,
    Nobody

VARIABLES
    arrivals,       \* the workload of the behaviour; a batch that is over leaves it
    nextCase,       \* case_seq.json, 0 when the file is not there
    seqLock,        \* who is inside allocate, and the number it found free
    uidLock,        \* the handler inside allocate_for_uid
    uidCase,        \* uid_case.json
    reservedCases,  \* case_reserved.json
    filed,          \* numbers of the records: logs, map and task specs
    handlers,       \* each mail's handler: how far it is, its number
    formCase,       \* the number the dashboard put into a form's record
    webPending, webDone, webFailed,
    web,            \* the web bridge: its step, its record, the number
    webDeputies,    \* <<record, number>> of the deputies it spawned
    jtfPending, jtfDone, jtfFailed,
    jtf,            \* the JTF bridge: step, record, numbers, slots filled
    jtfPosts,       \* <<group number, slot, its number>> of the slots attempted
    \* For the properties only.
    holders,        \* <<number, claimant, first number of the call>> of every allocation
    spokenFor,      \* numbers taken from elsewhere before they were allocated
    counterLost, bridgeDeaths

seqVars  == <<nextCase, seqLock, uidLock, uidCase, reservedCases, filed, holders,
              spokenFor, counterLost>>
webVars  == <<webPending, webDone, webFailed, web, webDeputies, formCase>>
jtfVars  == <<jtfPending, jtfDone, jtfFailed, jtf, jtfPosts>>
caseVars == <<seqVars, webVars, jtfVars, handlers, bridgeDeaths, arrivals>>

Numbers  == 1 .. MaxNumber
Handlers == DOMAIN MailOf
WebRecords  == Forms \cup Uids
BatchCalls  == DOMAIN Batches
Clients  == Handlers \cup Forms \cup BatchCalls \cup {"web", "jtf"}

ASSUME CasesAssumption ==
    /\ MaxNumber \in Nat /\ \A h \in Handlers : MailOf[h] \in Uids
    /\ {"web", "jtf", Nobody} \cap (Handlers \cup Forms) = {} /\ Handlers \cap Forms = {}
    /\ Forms \cap Uids = {}         \* <time>_<hex>, email_<uid>
    /\ BatchCalls \cap (Handlers \cup Forms \cup {"web", "jtf", Nobody}) = {}
    /\ Nobody \notin {"web", "jtf"}
    /\ Batches \in [BatchCalls -> Nat \ {0}]

ASSUME CaseBoundsAssumption ==
    /\ MaxDeaths \in Nat /\ Foreign \subseteq Numbers
    /\ \A g \in DOMAIN Groups \ Malformed :         \* it has a lead
          DOMAIN Groups[g] = 1 .. Len(Groups[g]) /\ Len(Groups[g]) \in Nat \ {0}

\* resolve_slots: a specific deputy keeps its first slot, a precinct all.
ResolveSlots(raw) ==
    LET Repeats(i) == raw[i].kind = "deputy" /\ \E k \in 1 .. i - 1 : raw[k] = raw[i]
        keep == {i \in DOMAIN raw : ~Repeats(i)}
    IN  [n \in 1 .. Cardinality(keep) |-> raw[SetToSortSeq(keep, <)[n]]]

Idle == [step |-> "idle", record |-> Nobody, case |-> 0]
IdleJtf == [step |-> "idle", record |-> Nobody, cases |-> <<>>, filled |-> 0]

CaseTypeOK ==
    /\ nextCase \in Nat
    /\ seqLock \in [by : Clients \cup {Nobody}, start : Numbers \cup {0}]
    /\ uidLock \in Handlers \cup {Nobody}
    /\ uidCase \in [Uids -> Numbers \cup {0}]
    /\ reservedCases \subseteq Numbers /\ filed \subseteq Numbers
    /\ handlers \in [Handlers -> [step : {"new", "locked", "allocated", "linked", "done"},
                                  case : Numbers \cup {0}]]
    /\ formCase \in [Forms -> Numbers \cup {0}]
    /\ webPending \cup webDone \cup webFailed \subseteq WebRecords
    /\ web.step \in {"idle", "number", "numbered", "written", "spawned", "acked", "published"}
    /\ webDeputies \subseteq WebRecords \X Numbers
    /\ jtfPending \cup jtfDone \cup jtfFailed \subseteq DOMAIN Groups
    /\ jtf.step \in {"idle", "number", "fill", "filled", "acked", "published"}
    /\ holders \subseteq Numbers \X (Clients \cup WebRecords \cup DOMAIN Groups) \X Numbers
    /\ bridgeDeaths \in 0 .. MaxDeaths

CaseInit ==
    /\ arrivals \in Workloads
    /\ nextCase = 1 /\ seqLock = [by |-> Nobody, start |-> 0] /\ uidLock = Nobody
    /\ uidCase = [u \in Uids |-> 0] /\ reservedCases = {} /\ filed = {}
    /\ handlers = [h \in Handlers |-> [step |-> "new", case |-> 0]]
    /\ formCase = [f \in Forms |-> 0]
    /\ webPending = {} /\ webDone = {} /\ webFailed = {}
    /\ web = Idle /\ webDeputies = {}
    /\ jtfPending = {} /\ jtfDone = {} /\ jtfFailed = {}
    /\ jtf = IdleJtf /\ jtfPosts = {}
    /\ holders = {} /\ spokenFor = {} /\ counterLost = FALSE /\ bridgeDeaths = 0

-----------------------------------------------------------------------------
(* scratch_case_seq.py.                                                    *)

\* scan_numbers() with _read_reserved().
Taken == filed \cup reservedCases

\* _read_next: the file, or the records' maximum plus one.
ReadNext == IF nextCase # 0 THEN nextCase ELSE Max(filed \cup {0}) + 1

PlainCounter(n) == n = ReadNext                                       \* mutant

FirstFree(n) ==
    /\ ReadNext <= n /\ n \notin Taken
    /\ \A k \in ReadNext .. n - 1 : k \in Taken

\* Who asks for a number now.
AsksForCase(c) ==
    \/ c \in Handlers /\ handlers[c].step = "locked"
    \/ c = "web" /\ web.step = "number"
    \/ c = "jtf" /\ jtf.step = "number"
    \/ c \in Forms \cap arrivals /\ formCase[c] = 0
        /\ c \notin webPending \cup webDone \cup webFailed
    \/ c \in BatchCalls \cap arrivals

\* allocate(n): the numbers from the first free one on.
SizeOf(c) == IF c \in BatchCalls THEN Batches[c] ELSE 1
Batch(c, first) == first .. first + SizeOf(c) - 1

Claimant(c) == CASE c = "web" -> web.record
                 [] c = "jtf" -> jtf.record
                 [] OTHER -> c

\* Only the number the call begins with is looked up.
AllocateBegin(c) ==
    /\ seqLock.by = Nobody /\ AsksForCase(c)
    /\ \E n \in Numbers : /\ FirstFree(n) /\ Batch(c, n) \subseteq Numbers
                          /\ seqLock' = [by |-> c, start |-> n]
    /\ UNCHANGED <<nextCase, uidLock, uidCase, reservedCases, filed, holders,
                   spokenFor, counterLost, webVars, jtfVars, handlers, bridgeDeaths, arrivals>>

\* What each caller of allocate does with the number it is returned; a command line
\* prints its numbers, and that is all.
Deliver(c, n) ==
    /\ handlers' = IF c \in Handlers
                   THEN [handlers EXCEPT ![c] = [step |-> "allocated", case |-> n]]
                   ELSE handlers
    /\ web' = IF c = "web" THEN [web EXCEPT !.step = "numbered", !.case = n] ELSE web
    /\ formCase' = IF c \in Forms THEN [formCase EXCEPT ![c] = n] ELSE formCase
    /\ jtf' = IF c = "jtf"
              THEN [jtf EXCEPT
                      !.cases = Append(@, n),
                      !.step = IF Len(jtf.cases) = Len(ResolveSlots(Groups[jtf.record]))
                               THEN "fill" ELSE "number"]
              ELSE jtf
    /\ arrivals' = arrivals \ ({c} \cap BatchCalls)

NewHolders ==
    {<<n, Claimant(seqLock.by), seqLock.start>> : n \in Batch(seqLock.by, seqLock.start)}

AllocateEndStuck ==                                                   \* mutant
    /\ seqLock.by # Nobody
    /\ nextCase' = seqLock.start + SizeOf(seqLock.by) - 1
    /\ holders' = holders \cup NewHolders
    /\ Deliver(seqLock.by, seqLock.start)
    /\ seqLock' = [by |-> Nobody, start |-> 0]
    /\ UNCHANGED <<uidLock, uidCase, reservedCases, filed, spokenFor, counterLost,
                   webPending, webDone, webFailed, webDeputies, jtfPending, jtfDone,
                   jtfFailed, jtfPosts, bridgeDeaths>>

AllocateEnd ==
    /\ seqLock.by # Nobody
    /\ nextCase' = seqLock.start + SizeOf(seqLock.by)
    /\ holders' = holders \cup NewHolders
    /\ Deliver(seqLock.by, seqLock.start)
    /\ seqLock' = [by |-> Nobody, start |-> 0]
    /\ UNCHANGED <<uidLock, uidCase, reservedCases, filed, spokenFor, counterLost,
                   webPending, webDone, webFailed, webDeputies, jtfPending, jtfDone,
                   jtfFailed, jtfPosts, bridgeDeaths>>

\* n, unless it has been allocated or is being allocated.
FromElsewhere(n) ==
    {n} \ ({x[1] : x \in holders} \cup Batch(seqLock.by, seqLock.start))

\* reserve(n) of a number propose(n) approved, and a case filed under a number
\* of its own choosing: a mail whose handler could not allocate goes by its uid.
Reserve(n) ==
    /\ n \in Foreign /\ n \notin Taken
    /\ reservedCases' = reservedCases \cup {n}
    /\ spokenFor' = spokenFor \cup FromElsewhere(n)
    /\ UNCHANGED <<nextCase, seqLock, uidLock, uidCase, filed, holders, counterLost,
                   webVars, jtfVars, handlers, bridgeDeaths, arrivals>>

FileByUid(n) ==
    /\ n \in Foreign /\ n \notin filed
    /\ filed' = filed \cup {n}
    /\ spokenFor' = spokenFor \cup FromElsewhere(n)
    /\ UNCHANGED <<nextCase, seqLock, uidLock, uidCase, reservedCases, holders,
                   counterLost, webVars, jtfVars, handlers, bridgeDeaths, arrivals>>

\* The counter's file disappears or becomes unreadable.
LoseCounter ==
    /\ ~counterLost /\ seqLock.by = Nobody /\ nextCase # 0
    /\ nextCase' = 0 /\ counterLost' = TRUE
    /\ UNCHANGED <<seqLock, uidLock, uidCase, reservedCases, filed, holders, spokenFor,
                   webVars, jtfVars, handlers, bridgeDeaths, arrivals>>

\* reseed() without --force.
Reseed ==
    /\ seqLock.by = Nobody /\ nextCase = 0
    /\ nextCase' = Max(filed \cup {0}) + 1
    /\ UNCHANGED <<seqLock, uidLock, uidCase, reservedCases, filed, holders, spokenFor,
                   counterLost, webVars, jtfVars, handlers, bridgeDeaths, arrivals>>

-----------------------------------------------------------------------------
(* allocate_for_uid, then drop_email_case of scratch_inbox.py.             *)

CaseHandlerStep(h, step, case) ==
    handlers' = [handlers EXCEPT ![h] = [step |-> step, case |-> case]]

UidLookedUpUnlocked(h) ==                                             \* mutant
    /\ handlers[h].step = "new"
    /\ LET known == uidCase[MailOf[h]]
       IN CaseHandlerStep(h, IF known # 0 THEN "linked" ELSE "locked", known)
    /\ UNCHANGED <<nextCase, seqLock, uidLock, uidCase, reservedCases, filed, holders,
                   spokenFor, counterLost, webVars, jtfVars, bridgeDeaths, arrivals>>

\* Under the link file's lock: a uid that has a number is done at once.
UidBegin(h) ==
    /\ handlers[h].step = "new" /\ uidLock = Nobody
    /\ LET known == uidCase[MailOf[h]]
       IN IF known # 0
          THEN CaseHandlerStep(h, "linked", known) /\ UNCHANGED uidLock
          ELSE CaseHandlerStep(h, "locked", 0) /\ uidLock' = h
    /\ UNCHANGED <<nextCase, seqLock, uidCase, reservedCases, filed, holders,
                   spokenFor, counterLost, webVars, jtfVars, bridgeDeaths, arrivals>>

UidLink(h) ==
    /\ handlers[h].step = "allocated"
    /\ uidCase' = [uidCase EXCEPT ![MailOf[h]] = handlers[h].case]
    /\ CaseHandlerStep(h, "linked", handlers[h].case)
    /\ uidLock' = Nobody
    /\ UNCHANGED <<nextCase, seqLock, reservedCases, filed, holders, spokenFor,
                   counterLost, webVars, jtfVars, bridgeDeaths, arrivals>>

\* Killed with a number it has not linked: the lock goes, the number stays spent,
\* and the retry of the mail begins again.
HandlerDies(h) ==
    /\ handlers[h].step \in {"locked", "allocated"} /\ bridgeDeaths < MaxDeaths
    /\ seqLock.by # h
    /\ CaseHandlerStep(h, "new", 0)
    /\ uidLock' = Nobody
    /\ bridgeDeaths' = bridgeDeaths + 1
    /\ UNCHANGED <<nextCase, seqLock, uidCase, reservedCases, filed, holders,
                   spokenFor, counterLost, webVars, jtfVars, arrivals>>

\* The record is named after the uid: a second routing overwrites a pending one.
DropEmailCase(h) ==
    /\ handlers[h].step = "linked"
    /\ webPending' = webPending \cup {MailOf[h]}
    /\ CaseHandlerStep(h, "done", handlers[h].case)
    /\ UNCHANGED <<seqVars, webDone, webFailed, web, webDeputies, formCase, jtfVars,
                   bridgeDeaths, arrivals>>

\* _create_web_case of the dashboard's server: with a number, or without one
\* when it could not allocate.
SubmitForm(f) ==
    /\ f \notin webPending \cup webDone \cup webFailed
    /\ seqLock.by # f
    /\ webPending' = webPending \cup {f}
    /\ UNCHANGED <<seqVars, webDone, webFailed, web, webDeputies, formCase, jtfVars,
                   handlers, bridgeDeaths, arrivals>>

-----------------------------------------------------------------------------
(* scratch_web_case.py.                                                    *)

RecordIgnored(r) == IF r \in Forms THEN formCase[r] ELSE 0             \* mutant

RecordCase(r) ==
    IF r \in Forms THEN formCase[r] ELSE uidCase[r]

\* process_one up to the number.
WebTake(r) ==
    /\ web.step = "idle" /\ r \in webPending
    /\ IF r \in Malformed
       THEN /\ webPending' = webPending \ {r} /\ webFailed' = webFailed \cup {r}
            /\ UNCHANGED web
       ELSE /\ web' = [step |-> IF RecordCase(r) = 0 THEN "number" ELSE "numbered",
                       record |-> r, case |-> RecordCase(r)]
            /\ UNCHANGED <<webPending, webFailed>>
    /\ UNCHANGED <<seqVars, webDone, webDeputies, formCase, jtfVars, handlers,
                   bridgeDeaths, arrivals>>

\* The bridge's subprocesses have 120 s: an exception puts the record into
\* failed/, with what was done so far in place.
WebFail ==
    /\ webPending' = webPending \ {web.record}
    /\ webFailed' = webFailed \cup {web.record}
    /\ web' = Idle

\* The task's spec, which files the number.
WebSpec ==
    /\ web.step = "numbered"
    /\ filed' = filed \cup {web.case}
    /\ web' = [web EXCEPT !.step = "written"]
    /\ UNCHANGED <<nextCase, seqLock, uidLock, uidCase, reservedCases, holders,
                   spokenFor, counterLost, webPending, webDone, webFailed, webDeputies,
                   formCase, jtfVars, handlers, bridgeDeaths, arrivals>>

\* scratch_spawn_worker.sh; a spawn that takes too long may have spawned.
WebSpawn ==
    /\ web.step = "written"
    /\ \/ /\ webDeputies' = webDeputies \cup {<<web.record, web.case>>}
          /\ web' = [web EXCEPT !.step = "spawned"]
          /\ UNCHANGED <<webPending, webFailed>>
       \/ /\ webDeputies' \in {webDeputies, webDeputies \cup {<<web.record, web.case>>}}
          /\ WebFail
    /\ UNCHANGED <<seqVars, webDone, formCase, jtfVars, handlers, bridgeDeaths, arrivals>>

WebAck ==
    /\ web.step = "spawned"
    /\ \/ web' = [web EXCEPT !.step = "acked"] /\ UNCHANGED <<webPending, webFailed>>
       \/ WebFail
    /\ UNCHANGED <<seqVars, webDone, webDeputies, formCase, jtfVars, handlers,
                   bridgeDeaths, arrivals>>

WebPublish ==
    /\ web.step = "acked"
    /\ webDone' = webDone \cup {web.record}
    /\ web' = [web EXCEPT !.step = "published"]
    /\ UNCHANGED <<seqVars, webPending, webFailed, webDeputies, formCase, jtfVars,
                   handlers, bridgeDeaths, arrivals>>

WebUnlink ==
    /\ web.step = "published"
    /\ webPending' = webPending \ {web.record}
    /\ web' = Idle
    /\ UNCHANGED <<seqVars, webDone, webFailed, webDeputies, formCase, jtfVars,
                   handlers, bridgeDeaths, arrivals>>

-----------------------------------------------------------------------------
(* scratch_jtf.py.                                                         *)

\* _create_jtf of the dashboard's server: the record, and no number.
SubmitTaskForce(g) ==
    /\ g \notin jtfPending \cup jtfDone \cup jtfFailed
    /\ jtfPending' = jtfPending \cup {g}
    /\ UNCHANGED <<seqVars, webVars, jtfDone, jtfFailed, jtf, jtfPosts, handlers,
                   bridgeDeaths, arrivals>>

\* process_one up to its first number.
JtfTake(g) ==
    /\ jtf.step = "idle" /\ g \in jtfPending
    /\ IF g \in Malformed
       THEN /\ jtfPending' = jtfPending \ {g} /\ jtfFailed' = jtfFailed \cup {g}
            /\ UNCHANGED jtf
       ELSE /\ jtf' = [IdleJtf EXCEPT !.step = "number", !.record = g]
            /\ UNCHANGED <<jtfPending, jtfFailed>>
    /\ UNCHANGED <<seqVars, webVars, jtfDone, jtfPosts, handlers, bridgeDeaths, arrivals>>

\* A precinct's slot: a spec, which files the number, and a deputy spawned for it.
ParticipantSpec(n) == filed' = filed \cup {n}

\* A deputy's slot: an assignment that it is interrupted with.
AssignmentMessage == UNCHANGED filed

\* materialize, the lead first: a slot that cannot be filled does not stop the
\* others.
JtfFill ==
    /\ jtf.step = "fill"
    /\ LET slots == ResolveSlots(Groups[jtf.record])
           i     == jtf.filled + 1
       IN /\ jtfPosts' = jtfPosts \cup {<<jtf.cases[1], slots[i], jtf.cases[i + 1]>>}
          /\ IF slots[i].kind = "precinct" THEN ParticipantSpec(jtf.cases[i + 1])
                                           ELSE AssignmentMessage
          /\ jtf' = [jtf EXCEPT !.filled = i,
                                !.step = IF i = Len(slots) THEN "filled" ELSE @]
    /\ UNCHANGED <<nextCase, seqLock, uidLock, uidCase, reservedCases, holders,
                   spokenFor, counterLost, webVars, jtfPending, jtfDone, jtfFailed,
                   handlers, bridgeDeaths, arrivals>>

JtfAck ==
    /\ jtf.step = "filled"
    /\ \/ jtf' = [jtf EXCEPT !.step = "acked"] /\ UNCHANGED <<jtfPending, jtfFailed>>
       \/ /\ jtfPending' = jtfPending \ {jtf.record}
          /\ jtfFailed' = jtfFailed \cup {jtf.record}
          /\ jtf' = IdleJtf
    /\ UNCHANGED <<seqVars, webVars, jtfDone, jtfPosts, handlers, bridgeDeaths, arrivals>>

JtfPublish ==
    /\ jtf.step = "acked"
    /\ jtfDone' = jtfDone \cup {jtf.record}
    /\ jtf' = [jtf EXCEPT !.step = "published"]
    /\ UNCHANGED <<seqVars, webVars, jtfPending, jtfFailed, jtfPosts, handlers,
                   bridgeDeaths, arrivals>>

JtfUnlink ==
    /\ jtf.step = "published"
    /\ jtfPending' = jtfPending \ {jtf.record}
    /\ jtf' = IdleJtf
    /\ UNCHANGED <<seqVars, webVars, jtfDone, jtfFailed, jtfPosts, handlers,
                   bridgeDeaths, arrivals>>

\* A bridge is killed with the pass it runs in: its locks go, its record is
\* still in pending/.
BridgeDies ==
    /\ bridgeDeaths < MaxDeaths
    /\ \/ web.step # "idle" /\ web' = Idle /\ UNCHANGED jtf
          /\ seqLock' = IF seqLock.by = "web" THEN [by |-> Nobody, start |-> 0] ELSE seqLock
       \/ jtf.step # "idle" /\ jtf' = IdleJtf /\ UNCHANGED web
          /\ seqLock' = IF seqLock.by = "jtf" THEN [by |-> Nobody, start |-> 0] ELSE seqLock
    /\ bridgeDeaths' = bridgeDeaths + 1
    /\ UNCHANGED <<nextCase, uidLock, uidCase, reservedCases, filed, holders, spokenFor,
                   counterLost, webPending, webDone, webFailed, webDeputies, formCase,
                   jtfPending, jtfDone, jtfFailed, jtfPosts, handlers, arrivals>>

WebStep == \/ \E r \in WebRecords : WebTake(r)
           \/ WebSpec \/ WebSpawn \/ WebAck \/ WebPublish \/ WebUnlink
JtfStep == \/ \E g \in DOMAIN Groups : JtfTake(g)
           \/ JtfFill \/ JtfAck \/ JtfPublish \/ JtfUnlink

CaseNext ==
    \/ \E c \in Clients : AllocateBegin(c)
    \/ AllocateEnd \/ LoseCounter \/ Reseed
    \/ \E n \in Foreign : Reserve(n) \/ FileByUid(n)
    \/ \E h \in Handlers \cap arrivals :
          UidBegin(h) \/ UidLink(h) \/ HandlerDies(h) \/ DropEmailCase(h)
    \/ \E f \in Forms \cap arrivals : SubmitForm(f)
    \/ \E g \in DOMAIN Groups \cap arrivals : SubmitTaskForce(g)
    \/ WebStep \/ JtfStep \/ BridgeDies

CaseSpec == CaseInit /\ [][CaseNext]_caseVars

-----------------------------------------------------------------------------
(* Properties.                                                             *)

\* No number is allocated for two cases, whoever asks at the same time and
\* whichever of them is killed, as long as the counter's file is there.
OneHolder ==
    ~counterLost => \A x, y \in holders : x[1] = y[1] => x = y

\* A number that was reserved or filed by somebody else before an allocation began
\* is never the one it hands out first, even by a counter that had to be rebuilt: no
\* caller that asks for one number gets such a number, and a batch only runs over it.
SpokenForIsSkipped ==
    \A x \in holders : x[1] \in spokenFor => x[3] < x[1]

\* Every handler of one mail, retries and handlers at the same time included,
\* works under the same number.
UidHasOneCase ==
    \A h, k \in Handlers :
        (/\ MailOf[h] = MailOf[k]
         /\ handlers[h].step \in {"linked", "done"} /\ handlers[k].step \in {"linked", "done"})
            => handlers[h].case = handlers[k].case

\* A record gets one deputy, and another one only when a bridge was killed
\* over it and the record carried no number: a mail's record always carries one.
RecordHasOneDeputy ==
    \A r \in WebRecords :
        LET deputies == {d \in webDeputies : d[1] = r}
        IN  Cardinality(deputies) <= 1 + IF RecordCase(r) = 0 THEN bridgeDeaths ELSE 0

=============================================================================
