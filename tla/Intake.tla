------------------------------- MODULE Intake -------------------------------
(***************************************************************************)
(* A mail's way from the IMAP inbox to whoever answers it.                 *)
(*                                                                         *)
(*   scratch_inbox.py         next: the oldest unread mail that is not put *)
(*                            off, and its route; mark, unmark, defer      *)
(*   scratch_inbox_loop.sh    the one loop that calls next and dispatches  *)
(*   scratch_inbox_handle.sh  the one-shot handler, started beside the     *)
(*                            loop for mail that no live deputy owns       *)
(*                                                                         *)
(* A mail counts as unread as long as nobody marked it \Seen; what is      *)
(* \Seen nobody looks at again.  What a deputy does with mail that is in   *)
(* its mailbox is the matter of Mailbox, what a dropped record leads to of *)
(* CaseNumbers.  How many tries a handler's claude gets (five, and five    *)
(* more when a session to resume is gone) is left open; a try that failed  *)
(* without having answered changes nothing and is no step.                 *)
(***************************************************************************)
EXTENDS Naturals, FiniteSets

CONSTANTS
    Mails,          \* by age
    MailHas,        \* what the code looks at in each mail
    Registry,       \* the registered deputies: "live", "ended" or "legacy"
    LivePrecincts,
    CaseMap,        \* task_precinct.json
    MaxDefers,
    HandlerIds,
    MaxFaults,
    IntakeFaults,   \* "mark", "unmark": an IMAP store fails; "loop", "handler":
                    \* a process dies; "relapse": a claude that has answered
                    \* ends badly; "late_mark": the loop marks later than a
                    \* handler needs for a claude that reports a limit
    NoOne

ASSUME IntakeAssumption ==
    /\ Mails \subseteq Nat \ {0} /\ HandlerIds \subseteq Nat
    /\ MaxFaults \in Nat

ASSUME DefersAssumption == MaxDefers \in Nat

VARIABLES
    seenFlag,       \* mails marked \Seen
    blockedMail,    \* inbox_blocked.json: the mails that have an entry
    blockOver,      \* ... and those whose time has come
    loop,           \* what the loop is doing, with which mail, and what `next`
                    \* had read when it began
    handlerOf,      \* the handlers: each one's mail and step
    deferCount,     \* defer_<uid>.count
    inMailbox,      \* mails appended to a deputy's mailbox
    dropped,        \* mails that became a record of the web bridge
    confirmed,      \* mails recorded as the answer to a confirmation
    answered,       \* how often a handler's claude answered a mail
    deadLetters,    \* mails whose sender got the final notice
    faults          \* what went wrong, with which mail, and as which fault

intakeVars == <<seenFlag, blockedMail, blockOver, loop, handlerOf, deferCount,
                inMailbox, dropped, confirmed, answered, deadLetters, faults>>

outcomes == <<inMailbox, dropped, confirmed, answered, deadLetters>>
LoopOff  == [step |-> "idle", mail |-> 0, ids |-> {}, blocked |-> {}]
SwitchedOff      == [mail |-> 0, step |-> "off"]

IntakeTypeOK ==
    /\ seenFlag \subseteq Mails /\ blockedMail \subseteq Mails /\ blockOver \subseteq Mails
    /\ loop \in [step : {"idle", "fetch", "routed", "mark"}, mail : Mails \cup {0},
                 ids : SUBSET Mails, blocked : SUBSET Mails]
    /\ handlerOf \in [HandlerIds -> [mail : Mails \cup {0},
                                     step : {"off", "waiting", "running", "unmark"}]]
    /\ deferCount \in [Mails -> 0 .. MaxDefers + 1]
    /\ inMailbox \cup dropped \cup confirmed \cup deadLetters \subseteq Mails
    /\ answered \in [Mails -> Nat]
    /\ faults \subseteq IntakeFaults \X (Mails \cup {0}) \X (1 .. MaxFaults)

IntakeInit ==
    /\ seenFlag = {} /\ blockedMail = {} /\ blockOver = {}
    /\ loop = LoopOff /\ handlerOf = [h \in HandlerIds |-> SwitchedOff]
    /\ deferCount = [m \in Mails |-> 0]
    /\ inMailbox = {} /\ dropped = {} /\ confirmed = {} /\ deadLetters = {}
    /\ answered = [m \in Mails |-> 0] /\ faults = {}

Fault(kind, m) ==
    /\ kind \in IntakeFaults /\ Cardinality(faults) < MaxFaults
    /\ faults' = faults \cup {<<kind, m, Cardinality(faults) + 1>>}

-----------------------------------------------------------------------------
(* route().                                                                *)

Deputy(d)   == [to |-> "deputy", name |-> d]
Precinct(p) == [to |-> "precinct", name |-> p]
Receptionist == [to |-> "receptionist", name |-> NoOne]

\* The owner a reply without thread headers still names by "Re: Case N".
SubjectOwner(m) ==
    LET c == MailHas[m].case
    IN IF ~MailHas[m].reply \/ c \notin DOMAIN CaseMap THEN Receptionist
       ELSE IF CaseMap[c].deputy \in DOMAIN Registry THEN Deputy(CaseMap[c].deputy)
       ELSE IF CaseMap[c].precinct \in LivePrecincts THEN Precinct(CaseMap[c].precinct)
       ELSE Receptionist

\* The thread's agent, an explicit tag of a live precinct, the subject's case,
\* the front desk.
Route(m) ==
    IF MailHas[m].thread \in DOMAIN Registry THEN Deputy(MailHas[m].thread)
    ELSE IF MailHas[m].tag \in LivePrecincts THEN Precinct(MailHas[m].tag)
    ELSE SubjectOwner(m)

\* Handlers of one agent take turns on handle_<agent>.lock.
Agent(m) == IF Route(m).to = "deputy" THEN Route(m).name ELSE "receptionist"

-----------------------------------------------------------------------------
(* cmd_next.                                                               *)

\* The unread mails, then inbox_blocked.json.
LoopSearch ==
    /\ loop.step = "idle"
    /\ loop' = [step |-> "fetch", mail |-> 0, ids |-> Mails \ seenFlag,
                blocked |-> blockedMail]
    /\ UNCHANGED <<seenFlag, blockedMail, blockOver, handlerOf, deferCount, outcomes,
                   faults>>

PutOff(m) == m \in loop.blocked /\ m \notin blockOver

\* The mails a pass would act on: strangers' mail stays unread for ever.
Eligible == {m \in loop.ids : MailHas[m].allowed /\ ~PutOff(m)}

\* The entries a pass came by after their time go; only then the file is
\* written, from what was read at the beginning.
SaveBlocked(passed) ==
    LET over == passed \cap loop.blocked \cap blockOver
    IN  blockedMail' = IF over = {} THEN blockedMail ELSE loop.blocked \ over

\* An empty mail is marked and skipped; the next one decides.  A tag leads to a
\* record at once, everything else to the dispatch.
LoopFetch ==
    /\ loop.step = "fetch"
    /\ LET real   == {m \in Eligible : ~MailHas[m].empty}
           passed == {m \in loop.ids : \A r \in real : m <= r}
           first  == passed \cap real
           empty  == {m \in Eligible \cap passed : MailHas[m].empty}
       IN /\ SaveBlocked(passed)
          /\ \/ \E m \in first :
                   /\ Route(m).to # "precinct"
                   /\ loop' = [LoopOff EXCEPT !.step = "routed", !.mail = m]
                   /\ seenFlag' = seenFlag \cup empty
                   /\ UNCHANGED dropped
             \/ /\ \A m \in first : Route(m).to = "precinct"
                /\ loop' = LoopOff
                /\ seenFlag' = seenFlag \cup empty \cup first
                /\ dropped' = dropped \cup first
    /\ UNCHANGED <<blockOver, handlerOf, deferCount, inMailbox, confirmed, answered,
                   deadLetters, faults>>

-----------------------------------------------------------------------------
(* scratch_inbox_loop.sh.                                                  *)

LoopTo(step) == loop' = [loop EXCEPT !.step = step]

\* confirm-check: a clear answer to a live token of the sheriff.
LoopConfirm ==
    /\ loop.step = "routed" /\ MailHas[loop.mail].token
    /\ confirmed' = confirmed \cup {loop.mail}
    /\ LoopTo("mark")
    /\ UNCHANGED <<seenFlag, blockedMail, blockOver, handlerOf, deferCount, inMailbox,
                   dropped, answered, deadLetters, faults>>

\* A live deputy, or one that ended and has a relaunch script: its mailbox.
LoopDeliver ==
    /\ loop.step = "routed" /\ ~MailHas[loop.mail].token
    /\ Route(loop.mail).to = "deputy" /\ Registry[Route(loop.mail).name] # "legacy"
    /\ inMailbox' = inMailbox \cup {loop.mail}
    /\ LoopTo("mark")
    /\ UNCHANGED <<seenFlag, blockedMail, blockOver, handlerOf, deferCount, dropped,
                   confirmed, answered, deadLetters, faults>>

\* A process of its own: the first name that is free.
LoopHandler(h) ==
    /\ loop.step = "routed" /\ ~MailHas[loop.mail].token
    /\ Route(loop.mail).to = "deputy" => Registry[Route(loop.mail).name] = "legacy"
    /\ handlerOf[h].step = "off"
    /\ \A k \in HandlerIds : handlerOf[k].step = "off" => h <= k
    /\ handlerOf' = [handlerOf EXCEPT ![h] = [mail |-> loop.mail, step |-> "waiting"]]
    /\ LoopTo("mark")
    /\ UNCHANGED <<seenFlag, blockedMail, blockOver, deferCount, outcomes, faults>>

\* mark, and the next pass.
LoopForgetsToMark ==                                                  \* mutant
    /\ loop.step = "mark"
    /\ loop' = LoopOff
    /\ UNCHANGED <<seenFlag, blockedMail, blockOver, handlerOf, deferCount, outcomes, faults>>

LoopMark ==
    /\ loop.step = "mark"
    /\ \/ seenFlag' = seenFlag \cup {loop.mail} /\ UNCHANGED faults
       \/ Fault("mark", loop.mail) /\ UNCHANGED seenFlag
    /\ loop' = LoopOff
    /\ UNCHANGED <<blockedMail, blockOver, handlerOf, deferCount, outcomes>>

LoopDies ==
    /\ loop.step # "idle" /\ Fault("loop", loop.mail)
    /\ loop' = LoopOff
    /\ UNCHANGED <<seenFlag, blockedMail, blockOver, handlerOf, deferCount, outcomes>>

-----------------------------------------------------------------------------
(* scratch_inbox_handle.sh.                                                *)

SameAgentRuns(h) ==
    \E k \in HandlerIds \ {h} :
        /\ handlerOf[k].step = "running"
        /\ Agent(handlerOf[k].mail) = Agent(handlerOf[h].mail)

HandlerRuns(h) ==
    /\ handlerOf[h].step = "waiting" /\ ~SameAgentRuns(h)
    /\ handlerOf' = [handlerOf EXCEPT ![h].step = "running"]
    /\ UNCHANGED <<seenFlag, blockedMail, blockOver, loop, deferCount, outcomes, faults>>

\* cmd_defer blocks before it unmarks.
Block(h) ==
    /\ blockedMail' = blockedMail \cup {handlerOf[h].mail}
    /\ blockOver' = blockOver \ {handlerOf[h].mail}
    /\ handlerOf' = [handlerOf EXCEPT ![h].step = "unmark"]

HandlerEnds(h) ==
    /\ handlerOf' = [handlerOf EXCEPT ![h] = SwitchedOff]
    /\ UNCHANGED <<blockedMail, blockOver>>

\* Half an hour behind another handler of the agent.
HandlerLockTimeout(h) ==
    /\ handlerOf[h].step = "waiting" /\ SameAgentRuns(h)
    /\ Block(h)
    /\ UNCHANGED <<seenFlag, loop, deferCount, outcomes, faults>>

\* Counted as far as the properties look.
Handled(h) ==
    LET m   == handlerOf[h].mail
        cap == IF MailHas[m].aboutLimits THEN 1 ELSE MaxFaults + 2
    IN  answered' = [answered EXCEPT ![m] = IF @ < cap THEN @ + 1 ELSE @]

\* claude ends well.  The text decides about a limit, not the exit code: an
\* answer that speaks of one counts as one.
HandlerSucceeds(h) ==
    /\ handlerOf[h].step = "running"
    /\ Handled(h)
    /\ IF MailHas[handlerOf[h].mail].aboutLimits
       THEN Block(h) /\ UNCHANGED deferCount
       ELSE /\ HandlerEnds(h)
            /\ deferCount' = [deferCount EXCEPT ![handlerOf[h].mail] = 0]
    /\ UNCHANGED <<seenFlag, loop, inMailbox, dropped, confirmed, deadLetters, faults>>

\* A claude that exits non-zero or meets a limit may have mailed its answer, or
\* spawned a deputy, before.
Relapses(h) == Handled(h) /\ Fault("relapse", handlerOf[h].mail)
MayHaveAnswered(h) == Relapses(h) \/ UNCHANGED <<answered, faults>>

\* A try that is followed by another one.
HandlerTryFails(h) ==
    /\ handlerOf[h].step = "running"
    /\ Relapses(h)
    /\ UNCHANGED <<seenFlag, blockedMail, blockOver, loop, handlerOf, deferCount,
                   inMailbox, dropped, confirmed, deadLetters>>

HandlerHitsLimit(h) ==
    /\ handlerOf[h].step = "running"
    /\ MayHaveAnswered(h)
    /\ Block(h)
    /\ UNCHANGED <<seenFlag, loop, deferCount, inMailbox, dropped, confirmed, deadLetters>>

NotDeferred(h, failures) == HandlerEnds(h) /\ UNCHANGED deadLetters    \* mutant

\* Every other failure is put off for 15 minutes, MaxDefers times, and told the
\* sender; then it is a dead letter.
DeferOrGiveUp(h, failures) ==
    IF failures <= MaxDefers
    THEN Block(h) /\ UNCHANGED deadLetters
    ELSE HandlerEnds(h) /\ deadLetters' = deadLetters \cup {handlerOf[h].mail}

\* The last try failed.
HandlerFails(h) ==
    /\ handlerOf[h].step = "running"
    /\ MayHaveAnswered(h)
    /\ LET m == handlerOf[h].mail
           failures == deferCount[m] + 1
       IN /\ DeferOrGiveUp(h, failures)
          /\ deferCount' = [deferCount EXCEPT
                              ![m] = IF failures <= MaxDefers THEN failures ELSE 0]
    /\ UNCHANGED <<seenFlag, loop, inMailbox, dropped, confirmed>>

\* The flag goes, so that the mail is found again.
HandlerUnmarks(h) ==
    LET m    == handlerOf[h].mail
        late == loop.step = "mark" /\ loop.mail = m
    IN  /\ handlerOf[h].step = "unmark"
        /\ \/ /\ seenFlag' = seenFlag \ {m}
              /\ IF late THEN Fault("late_mark", m) ELSE UNCHANGED faults
           \/ Fault("unmark", m) /\ UNCHANGED seenFlag
        /\ handlerOf' = [handlerOf EXCEPT ![h] = SwitchedOff]
        /\ UNCHANGED <<blockedMail, blockOver, loop, deferCount, outcomes>>

HandlerDiesAt(h) ==
    /\ handlerOf[h].step # "off" /\ Fault("handler", handlerOf[h].mail)
    /\ \/ handlerOf[h].step = "running" /\ Handled(h)
       \/ UNCHANGED answered
    /\ handlerOf' = [handlerOf EXCEPT ![h] = SwitchedOff]
    /\ UNCHANGED <<seenFlag, blockedMail, blockOver, loop, deferCount, inMailbox, dropped,
                   confirmed, deadLetters>>

TimeComes(m) ==
    /\ m \in blockedMail \ blockOver
    /\ blockOver' = blockOver \cup {m}
    /\ UNCHANGED <<seenFlag, blockedMail, loop, handlerOf, deferCount, outcomes, faults>>

LoopStep == \/ LoopSearch \/ LoopFetch \/ LoopConfirm \/ LoopDeliver \/ LoopMark
            \/ \E h \in HandlerIds : LoopHandler(h)
HandlerStep(h) == \/ HandlerRuns(h) \/ HandlerSucceeds(h) \/ HandlerHitsLimit(h)
                  \/ HandlerTryFails(h) \/ HandlerFails(h) \/ HandlerUnmarks(h)

IntakeNext ==
    \/ LoopStep \/ LoopDies
    \/ \E h \in HandlerIds : HandlerStep(h) \/ HandlerLockTimeout(h) \/ HandlerDiesAt(h)
    \/ \E m \in Mails : TimeComes(m)

IntakeSpec == IntakeInit /\ [][IntakeNext]_intakeVars

-----------------------------------------------------------------------------
(* Properties.                                                             *)

Settled(m) ==
    \/ m \in inMailbox \cup dropped \cup confirmed \cup deadLetters
    \/ answered[m] > 0 \/ MailHas[m].empty

\* It reached somebody, has a handler, or its handler went wrong.
Kept(m) ==
    \/ Settled(m)
    \/ \E h \in HandlerIds : handlerOf[h].mail = m
    \/ \E f \in faults : f[2] = m /\ f[1] \in {"handler", "unmark", "late_mark"}

\* A mail that is \Seen, so that nobody will look at it again, has reached
\* somebody, has a handler, or its sender was told that it has not: unless its
\* handler was killed, or could not clear the flag or cleared it too early.
MailKept == \A m \in seenFlag : Kept(m)

\* A mail is answered once, and once more for every time that the loop could not
\* mark it or was killed over it, or that a claude which had answered it exited
\* non-zero or met a limit, so that the handler tried again or put it off; an answer
\* that reads like a limit is put off and answered again.
AnsweredOnce ==
    \A m \in Mails : ~MailHas[m].aboutLimits =>
        answered[m] <= 1 + Cardinality({f \in faults : f[2] = m /\
                                           f[1] \in {"mark", "loop", "relapse"}})

=============================================================================
