------------------------------- MODULE Sheriff -------------------------------
(***************************************************************************)
(* scratch_sheriff.py and scratch_sheriff_request.py: the one daemon that  *)
(* rewrites records, and the queue it is asked through.                    *)
(*                                                                         *)
(* Its passes (compaction, edits, requests, confirmations, purges) run one *)
(* after the other and leave nothing in memory; here any pass may come     *)
(* next.  A request is a file in pending/, and in done/ or denied/ after   *)
(* it is decided.  A deletion also needs the user's YES to the token that  *)
(* the sheriff mailed.  The sheriff may be killed between any two writes;  *)
(* a restart finds what is on disk.                                        *)
(*                                                                         *)
(* The model that decides answers yes, no, or nothing usable, in which     *)
(* case the request stays.  The requests about judges and the Field Guide  *)
(* are in Judges and FieldGuide.                                           *)
(***************************************************************************)
EXTENDS Records

CONSTANTS
    Requests,       \* the sequence of them: its op, precinct, case (of log_remove),
                    \* whether _authorized accepts it, and force
    MaxAsked,       \* bounds
    MaxTokens,
    MaxLawDeaths

ASSUME LawAssumption ==
    /\ DOMAIN Requests \subseteq Nat \ {0}
    /\ \A r \in DOMAIN Requests :
          /\ Requests[r].p \in Precincts
          /\ Requests[r].op \in {"log_remove", "ledger_modify", "precinct_create",
                                "precinct_restore", "precinct_delete", "case_number"}
    /\ MaxAsked \in Nat /\ MaxTokens \in Nat /\ MaxLawDeaths \in Nat

VARIABLES
    reqFiles,       \* the queue's directories each request is in
    sheriff,        \* the step it is at, and what it works on
    tokens,         \* the deletions that await an answer, and the answer
    \* For the properties only.
    deletions,      \* of each precinct
    lawDeaths

lawVars == <<recordVars, reqFiles, sheriff, tokens, deletions, lawDeaths>>
lawOnly == <<reqFiles, sheriff, tokens, deletions, lawDeaths>>

TokenIds == 1 .. MaxTokens
Answers  == {"none", "yes", "no"}
AnyPrecinct    == CHOOSE p \in Precincts : TRUE
Off      == [step |-> "idle", req |-> 0, p |-> AnyPrecinct, i |-> 0, kept |-> {}]

LawTypeOK ==
    /\ RecordTypeOK
    /\ reqFiles \in [DOMAIN Requests -> SUBSET {"pending", "done", "denied"}]
    /\ sheriff.step \in {"idle", "rewriting", "retracting", "deleting", "deleted",
                         "restoring", "purging", "performed", "unlinking"}
    /\ tokens \in [TokenIds -> [p : Precincts, state : {"new", "awaiting", "over"},
                                answer : Answers, yes : BOOLEAN]]
    /\ lawDeaths \in 0 .. MaxLawDeaths

LawInit ==
    /\ RecordInit
    /\ reqFiles = [r \in DOMAIN Requests |-> {}] /\ sheriff = Off
    /\ tokens = [t \in TokenIds |-> [p |-> AnyPrecinct, state |-> "new", answer |-> "none",
                                     yes |-> FALSE]]
    /\ deletions = [p \in Precincts |-> 0] /\ lawDeaths = 0

-----------------------------------------------------------------------------
(* Who asks, and who answers.                                              *)

Submit(r) ==
    /\ reqFiles[r] = {}
    /\ Cardinality({q \in DOMAIN Requests : reqFiles[q] # {}}) < MaxAsked
    /\ reqFiles' = [reqFiles EXCEPT ![r] = {"pending"}]
    /\ UNCHANGED <<recordVars, sheriff, tokens, deletions, lawDeaths>>

\* confirm_check: an answer counts while its token awaits one, the last one counts,
\* and one that is neither yes nor no is none.
UserReplies(t, a) ==
    /\ tokens[t].state = "awaiting" /\ a # tokens[t].answer
    /\ tokens' = [tokens EXCEPT ![t].answer = a, ![t].yes = @ \/ a = "yes"]
    /\ UNCHANGED <<recordVars, reqFiles, sheriff, deletions, lawDeaths>>

-----------------------------------------------------------------------------
(* A request.                                                              *)

To(step, r, p, i) ==
    sheriff' = [Off EXCEPT !.step = step, !.req = r, !.p = p, !.i = i]

\* Deleting is refused while deputies work there or cases are on file, unless forced.
Interlock(r) ==
    LET p == Requests[r].p
    IN  /\ ~Requests[r].force
        /\ \/ \E c \in ClosedCases :
                 CaseIn[c] = p /\ caseStep[c] \in {"working", "reported"}
           \/ records[p].has["log"] # {}

\* What perform_op refuses, before it does anything.
Refused(r) ==
    LET p == Requests[r].p
    IN  CASE Requests[r].op = "precinct_create"  -> ~Registrable(p)
          [] Requests[r].op = "precinct_delete"  -> directory[p].status # "active"
                                                    \/ Interlock(r)
          [] Requests[r].op = "precinct_restore" -> ~Restorable(p)
          [] OTHER                               -> FALSE

\* journal_append makes the directory it writes the journal to, and so does a
\* denial that concerns a precinct in the trash.
Journal(p) == Make(p) /\ UNCHANGED <<directory, trash, removed, theCases>>

\* _deny, up to the file in denied/.
Deny(r) ==
    /\ Journal(Requests[r].p)
    /\ reqFiles' = [reqFiles EXCEPT ![r] = @ \cup {"denied"}]
    /\ To("unlinking", r, Requests[r].p, 0)
    /\ UNCHANGED <<tokens, deletions, lawDeaths>>

Pending(r) == sheriff.step = "idle" /\ "pending" \in reqFiles[r]

\* By _authorized, by the model's NO, or by what perform_op refuses.
RequestDenied(r) == Pending(r) /\ Deny(r)

Done(r) ==
    /\ To("performed", r, Requests[r].p, 0)
    /\ UNCHANGED <<reqFiles, tokens, deletions, lawDeaths>>

\* begin_confirmation: the token's record, and the mail.
BeginConfirmation(r) ==
    \E t \in TokenIds :
        /\ tokens[t].state = "new" /\ \A u \in 1 .. t - 1 : tokens[u].state # "new"
        /\ tokens' = [tokens EXCEPT ![t].p = Requests[r].p, ![t].state = "awaiting"]
        /\ To("performed", r, Requests[r].p, 0)
        /\ UNCHANGED <<recordVars, reqFiles, deletions, lawDeaths>>

\* A file that was read, and what the sheriff wants it to be.
EditFile(step, r, p, kept) ==
    /\ sheriff' = [Off EXCEPT !.step = step, !.req = r, !.p = p, !.kept = kept]
    /\ UNCHANGED <<reqFiles, tokens, deletions, lawDeaths>>

Retract(r, p, c) ==
    /\ LogRead(p)
    /\ IF c \in records[p].has["log"]
       THEN EditFile("retracting", r, p, records[p].has["log"] \ {c})
       ELSE Done(r)

\* perform_op.
Perform(r) ==
    LET p == Requests[r].p
    IN  CASE Requests[r].op = "log_remove" ->
                   Retract(r, p, Requests[r].case)
          [] Requests[r].op = "ledger_modify" ->
                   /\ EditFile("rewriting", r, p,
                           records[p].has["ledger"] \ {Requests[r].case})
                   /\ UNCHANGED recordVars
          [] Requests[r].op = "precinct_create" ->
                   DirectoryRegister(p) /\ Done(r)
          [] Requests[r].op = "case_number" ->
                   UNCHANGED recordVars /\ Done(r)
          [] Requests[r].op = "precinct_restore" ->
                   /\ RestoreMove(p)
                   /\ To("restoring", r, p, 0)
                   /\ UNCHANGED <<reqFiles, tokens, deletions, lawDeaths>>
          [] Requests[r].op = "precinct_delete" -> BeginConfirmation(r)

\* By the model's YES.
RequestApproved(r) ==
    Pending(r) /\ Requests[r].authorized /\ ~Refused(r) /\ Perform(r)

\* The end of log_remove; its lock was held since the read.
RetractEnds ==
    /\ sheriff.step = "retracting"
    /\ LogWrite(sheriff.p, Requests[sheriff.req].case, sheriff.kept)
    /\ Done(sheriff.req)

HeldBySheriff(c) ==
    LET p == CaseIn[c]
    IN  /\ sheriff.step = "retracting" /\ sheriff.p = p
        /\ FileOf(c) = "log" /\ appends[c].lock = records[p].id

RestoreEnds ==
    /\ sheriff.step = "restoring"
    /\ RestoreEntry(sheriff.p) /\ Done(sheriff.req)

\* The journal, then move_to: the file in done/ first, the one in pending/ last.
RequestFiled ==
    /\ sheriff.step = "performed"
    /\ Journal(sheriff.p)
    /\ reqFiles' = [reqFiles EXCEPT ![sheriff.req] = @ \cup {"done"}]
    /\ sheriff' = [sheriff EXCEPT !.step = "unlinking"]
    /\ UNCHANGED <<tokens, deletions, lawDeaths>>

RequestUnlinked ==
    /\ sheriff.step = "unlinking"
    /\ reqFiles' = [reqFiles EXCEPT ![sheriff.req] = @ \ {"pending"}]
    /\ sheriff' = Off
    /\ UNCHANGED <<recordVars, tokens, deletions, lawDeaths>>

-----------------------------------------------------------------------------
(* Ledgers: compaction, which drops what it likes of what it read, and the *)
(* approved edits.                                                         *)

Compact(p) ==
    /\ sheriff.step = "idle" /\ directory[p].status = "active"
    /\ \E kept \in SUBSET records[p].has["ledger"] :
          kept # records[p].has["ledger"] /\ EditFile("rewriting", 0, p, kept)
    /\ UNCHANGED recordVars

\* apply_edit_requests: the paragraphs that an edit names go.
ApplyEdit(p, c) ==
    /\ sheriff.step = "idle" /\ directory[p].status = "active"
    /\ c \in records[p].has["ledger"]
    /\ EditFile("rewriting", 0, p, records[p].has["ledger"] \ {c})
    /\ UNCHANGED recordVars

\* maybe_compact, or the end of an edit: the ledger is replaced by what was made
\* of the one that was read.
Rewrite ==
    /\ sheriff.step = "rewriting"
    /\ LedgerWrite(sheriff.p, sheriff.kept)
    /\ IF sheriff.req # 0
       THEN Done(sheriff.req)
       ELSE sheriff' = Off /\ UNCHANGED <<reqFiles, tokens, deletions, lawDeaths>>

-----------------------------------------------------------------------------
(* Deletions, and the purge.                                               *)

TokenOver(t) ==
    /\ tokens' = [tokens EXCEPT ![t].state = "over"]
    /\ UNCHANGED <<reqFiles, deletions, lawDeaths>>

\* NO, the end of the 72 hours, or a precinct that is gone by now.
ConfirmCancel(t) ==
    /\ sheriff.step = "idle" /\ tokens[t].state = "awaiting"
    /\ tokens[t].answer = "yes" => directory[tokens[t].p].status = "none"
    /\ TokenOver(t)
    /\ UNCHANGED <<recordVars, sheriff>>

\* A precinct that is deleted already stays as it is.
ConfirmYes(t) ==
    LET p == tokens[t].p
    IN  /\ sheriff.step = "idle" /\ tokens[t].state = "awaiting"
        /\ tokens[t].answer = "yes" /\ directory[p].status # "none"
        /\ IF directory[p].status = "deleted"
           THEN To("deleted", t, p, 0) /\ UNCHANGED recordVars
           ELSE \E i \in TrashIds :
                   /\ NewTrash(p, i)
                   /\ DeleteMove(p, i)
                   /\ To("deleting", t, p, i)
        /\ UNCHANGED <<reqFiles, tokens, deletions, lawDeaths>>

DeleteEnds ==
    /\ sheriff.step = "deleting"
    /\ DeleteEntry(sheriff.p, sheriff.i)
    /\ sheriff' = [sheriff EXCEPT !.step = "deleted"]
    /\ deletions' = [deletions EXCEPT ![sheriff.p] = @ + 1]
    /\ UNCHANGED <<reqFiles, tokens, lawDeaths>>

TokenKept ==                                                          \* mutant
    /\ sheriff.step = "deleted"
    /\ sheriff' = Off
    /\ UNCHANGED <<recordVars, reqFiles, tokens, deletions, lawDeaths>>

ConfirmEnds ==
    /\ sheriff.step = "deleted"
    /\ TokenOver(sheriff.req) /\ sheriff' = Off
    /\ UNCHANGED recordVars

Purge(p) ==
    /\ sheriff.step = "idle" /\ PendingPurge(p)
    /\ PurgeTrash(p)
    /\ To("purging", 0, p, 0)
    /\ UNCHANGED <<reqFiles, tokens, deletions, lawDeaths>>

PurgeEnds ==
    /\ sheriff.step = "purging"
    /\ PurgeEntry(sheriff.p) /\ sheriff' = Off
    /\ UNCHANGED <<reqFiles, tokens, deletions, lawDeaths>>

SheriffDies ==
    /\ sheriff.step # "idle" /\ lawDeaths < MaxLawDeaths
    /\ sheriff' = Off /\ lawDeaths' = lawDeaths + 1
    /\ UNCHANGED <<recordVars, reqFiles, tokens, deletions>>

LawNext ==
    \/ \E r \in DOMAIN Requests :
          Submit(r) \/ RequestDenied(r) \/ RequestApproved(r)
    \/ RetractEnds \/ RestoreEnds \/ RequestFiled \/ RequestUnlinked
    \/ \E t \in TokenIds :
          ConfirmCancel(t) \/ ConfirmYes(t) \/ \E a \in {"yes", "no"} : UserReplies(t, a)
    \/ DeleteEnds \/ ConfirmEnds \/ PurgeEnds \/ Rewrite \/ SheriffDies
    \/ \E p \in Precincts :
          Compact(p) \/ Purge(p) \/ (RetentionEnds(p) /\ UNCHANGED lawOnly)
    \/ \E p \in Precincts, c \in ClosedCases : ApplyEdit(p, c)
    \/ \E c \in ClosedCases :
          /\ \/ TakesCase(c) \/ AppendOpen(c) \/ AppendWrite(c) \/ AppendFails(c)
             \/ AppendRead(c, HeldBySheriff(c))
          /\ UNCHANGED lawOnly

LawSpec == LawInit /\ [][LawNext]_lawVars

-----------------------------------------------------------------------------
(* Properties.                                                             *)

\* A precinct is deleted once for each token the user said YES to, and never on
\* silence, on a NO or by a request alone; only a sheriff that was killed between
\* the entry and the token may act on a YES again.
DeletedOnYes ==
    \A p \in Precincts :
        deletions[p] <= lawDeaths + Cardinality({t \in TokenIds : tokens[t].p = p
                                                                  /\ tokens[t].yes})

=============================================================================
