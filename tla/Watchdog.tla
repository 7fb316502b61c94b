------------------------------ MODULE Watchdog ------------------------------
(***************************************************************************)
(* Who keeps a deputy running (infra/scratch_watchdog.py), together with   *)
(* the others that start deputies or write their entry in                  *)
(* watchdog_jobs.json: the interrupt entrypoint                            *)
(* (scratch_interrupt_worker.sh, which jobmgr's wakes use too), the inbox  *)
(* loop's follow-up and unread-mail branches (scratch_inbox_loop.sh), and  *)
(* a deputy that parks (scratch_jobmgr.py --sleep).                        *)
(*                                                                         *)
(* The watchdog works on a copy of the roster: it loads the file when a    *)
(* tick begins and writes the whole copy back when the tick ends.  The     *)
(* others read, modify and write the file in one go, without a lock.       *)
(* Races names the overlaps that are allowed to happen: "tick", such a     *)
(* write falls into a tick; "start", a worker finishes or parks while an   *)
(* interrupt or the inbox loop is about to (re)start it.                   *)
(*                                                                         *)
(* Abstractions.                                                           *)
(*   - `age' of an entry is now - last_relaunch_ts: "fresh" up to 120 s    *)
(*     (RELAUNCH_MIN_GAP), "gap" up to 240 s, "long" up to 300 s           *)
(*     (SURVIVE_RESET_SEC), then "old"; the longer backoffs of an          *)
(*     exited_incomplete worker end while it is "old".  Starting a worker, *)
(*     and a tick, are short against these delays.                         *)
(*   - `relaunched' saturates at MaxRelaunch: the code only compares it.   *)
(*   - `tail' is the evidence last_run_tail shows of the latest run.       *)
(*   - The alarms (heartbeat, dark_guard, reply_guard, stale inodes) write *)
(*     bookkeeping fields only and are left out, and so are the texts.     *)
(*   - The boot of a relaunch drains the mailbox at once; module Mailbox   *)
(*     has the details.  The account's limit marker is in module JobMgr.   *)
(***************************************************************************)
EXTENDS Naturals

CONSTANTS
    Workers, NoWorker,
    MaxRelaunch,  \* MAX_RELAUNCH
    DeadTicks,    \* DEAD_TICKS
    Stubborn,     \* workers that may request a switch and never exit
    Races         \* the overlaps that may happen

ASSUME WatchdogAssumption ==
    /\ NoWorker \notin Workers
    /\ MaxRelaunch \in Nat \ {0} /\ DeadTicks \in Nat \ {0}
    /\ Stubborn \subseteq Workers /\ Races \subseteq {"tick", "start"}

VARIABLES
    (* files *)
    roster,     \* watchdog_jobs.json
    sentinel,   \* workers whose done-sentinel exists
    mail,       \* workers with unread mail
    stamp,      \* workers whose inbox/last_relaunch_<w> is younger than 45 s
    switch,     \* workers with a pending model-switch request
    held,       \* workers for which jobmgr holds a wake because of a limit,
                \* until LIMIT_HANDOVER_GRACE is over
    (* workers *)
    up,         \* workers whose tmux session exists
    tail,       \* how the log says that the latest run ended
    finished,   \* workers that touched their sentinel in their latest run
    parking,    \* workers whose --sleep has touched the sentinel, no more yet
    parked,     \* workers that parked and have not been started since
    (* others that start workers *)
    intr,       \* where an interrupt of each worker stands
    reviving,   \* workers the inbox loop is about to relaunch
    (* the watchdog *)
    pc, copy, changed, todo, target,
    (* clocks and history *)
    clock,      \* now against the worker's reset_epoch
    spent       \* relaunches by the watchdog since the worker last survived

files == <<roster, sentinel, mail, stamp, switch, held>>
runs  == <<up, tail, finished, parking, parked>>
daemon == <<pc, copy, changed, todo, target>>
vars  == <<files, runs, intr, reviving, daemon, clock, spent>>

States == {"running", "waiting_reset", "waiting_jobs", "done", "failed"}
Entries == [state: States, relaunched: 0..MaxRelaunch, dead: 0..DeadTicks - 1,
            age: {"fresh", "gap", "long", "old"}]
Tails == {"none", "rc0", "error", "limit"}

TypeOK ==
    /\ roster \in [Workers -> Entries] /\ copy \in [Workers -> Entries]
    /\ \A S \in {sentinel, mail, stamp, switch, held, up, finished, parking,
                 parked, reviving, todo} : S \subseteq Workers
    /\ tail \in [Workers -> Tails]
    /\ intr \in [Workers -> {"none", "kill", "start"}]
    /\ pc \in {"idle", "scan", "email"} /\ changed \in BOOLEAN
    /\ target \in Workers \cup {NoWorker}
    /\ target = NoWorker <=> pc # "email"
    /\ clock \in [Workers -> {"future", "past"}]
    /\ spent \in [Workers -> 0..MaxRelaunch + 1]

Fresh == [state |-> "running", relaunched |-> 0, dead |-> 0, age |-> "old"]

\* Every worker has just been spawned.
Init ==
    /\ roster = [w \in Workers |-> Fresh] /\ copy = roster
    /\ sentinel = {} /\ mail = {} /\ stamp = {} /\ switch = {} /\ held = {}
    /\ up = Workers /\ tail = [w \in Workers |-> "none"]
    /\ finished = {} /\ parking = {} /\ parked = {}
    /\ intr = [w \in Workers |-> "none"] /\ reviving = {}
    /\ pc = "idle" /\ changed = FALSE /\ todo = {} /\ target = NoWorker
    /\ clock = [w \in Workers |-> "past"]
    /\ spent = [w \in Workers |-> 0]

Up(w) == w \in up
\* Nobody but the watchdog writes the roster while a tick is under way.
MayWrite == pc = "idle" \/ "tick" \in Races
Steady(w) == intr[w] = "none" /\ w \notin reviving
MayFinish(w) == Steady(w) \/ "start" \in Races

\* bash <relaunch script> in a new tmux session: a RELAUNCH marker in the log,
\* the mail drained into the prompt.
Boot(w) ==
    /\ up' = up \cup {w}
    /\ tail' = [tail EXCEPT ![w] = "none"]
    /\ mail' = mail \ {w}
    /\ finished' = finished \ {w}
    /\ parked' = parked \ {w}
    /\ parking' = parking \ {w}

Gone(w) ==
    /\ up' = up \ {w}
    /\ parking' = parking \ {w}

-----------------------------------------------------------------------------
(* The worker.                                                             *)

TouchSentinel(w) ==
    /\ Up(w) /\ w \notin finished \cup switch /\ MayFinish(w)
    /\ sentinel' = sentinel \cup {w}
    /\ finished' = finished \cup {w}
    /\ UNCHANGED <<roster, mail, stamp, switch, held, up, tail, parking,
                   parked, intr, reviving, daemon, clock, spent>>

\* scratch_job_sleep.sh: the sentinel first, then the state.
ParkTouch(w) ==
    /\ Up(w) /\ w \notin parking \cup parked /\ MayFinish(w)
    /\ parking' = parking \cup {w}
    /\ sentinel' = sentinel \cup {w}
    /\ finished' = finished \cup {w}
    /\ UNCHANGED <<roster, mail, stamp, switch, held, up, tail, parked, intr,
                   reviving, daemon, clock, spent>>

ParkState(w) ==
    /\ w \in parking /\ MayWrite
    /\ parking' = parking \ {w}
    /\ parked' = parked \cup {w}
    /\ roster' = [roster EXCEPT ![w].state = "waiting_jobs"]
    /\ UNCHANGED <<sentinel, mail, stamp, switch, held, up, tail, finished,
                   intr, reviving, daemon, clock, spent>>

\* scratch_model_switch.py request; the deputy is to exit after that.
RequestSwitch(w) ==
    /\ Up(w) /\ w \notin switch /\ w \notin parking
    /\ switch' = switch \cup {w}
    /\ UNCHANGED <<roster, sentinel, mail, stamp, held, runs, intr, reviving,
                   daemon, clock, spent>>

\* The agent CLI ends and the relaunch script with it (rc 0 without a sentinel
\* and without a switch request only after its nudges).
Exits(w, how) ==
    /\ Up(w) /\ w \notin parking
    /\ Gone(w)
    /\ tail' = [tail EXCEPT ![w] = how]
    /\ UNCHANGED <<files, finished, parked, intr, reviving, daemon, clock,
                   spent>>

LeavesForSwitch(w) == w \in switch /\ Exits(w, "rc0")

\* The pane dies without an exit marker (tmux kill-session, the host).
PaneDies(w) ==
    /\ Up(w)
    /\ Gone(w)
    /\ UNCHANGED <<files, tail, finished, parked, intr, reviving, daemon,
                   clock, spent>>

ReadsMail(w) ==
    /\ Up(w) /\ w \in mail
    /\ mail' = mail \ {w}
    /\ UNCHANGED <<roster, sentinel, stamp, switch, held, runs, intr,
                   reviving, daemon, clock, spent>>

-----------------------------------------------------------------------------
(* The interrupt entrypoint and the inbox loop.                            *)

\* A relay that another agent appends to the mailbox.
RelayArrives(w) ==
    /\ w \notin mail
    /\ mail' = mail \cup {w}
    /\ UNCHANGED <<roster, sentinel, stamp, switch, held, runs, intr,
                   reviving, daemon, clock, spent>>

StaleState(w) == [roster EXCEPT ![w].age = "fresh"]          \* mutant
Revived(w) == [roster EXCEPT ![w].state = "running", ![w].age = "fresh"]

\* User mail, a relay or a wake of jobmgr's: every guard is stamped first.
InterruptStamps(w) ==
    /\ intr[w] = "none" /\ MayWrite
    /\ w \in parking => "start" \in Races
    /\ mail' = mail \cup {w}
    /\ stamp' = stamp \cup {w}
    /\ sentinel' = sentinel \ {w}
    /\ roster' = Revived(w)
    /\ held' = held \ {w}
    /\ intr' = [intr EXCEPT ![w] = "kill"]
    /\ parked' = parked \ {w}
    /\ UNCHANGED <<switch, up, tail, finished, parking, reviving, daemon,
                   clock, spent>>

InterruptKills(w) ==
    /\ intr[w] = "kill"
    /\ Gone(w)
    /\ intr' = [intr EXCEPT ![w] = "start"]
    /\ UNCHANGED <<files, tail, finished, parked, reviving, daemon, clock,
                   spent>>

\* tmux new-session refuses when the session exists.
StartSession(w) ==
    IF Up(w) THEN UNCHANGED <<runs, mail>> ELSE Boot(w)

InterruptStarts(w) ==
    /\ intr[w] = "start"
    /\ intr' = [intr EXCEPT ![w] = "none"]
    /\ StartSession(w)
    /\ UNCHANGED <<roster, sentinel, stamp, switch, held, reviving, daemon,
                   clock, spent>>

\* Routed user mail for a deputy whose session is gone.
FollowUp(w) ==
    /\ ~Up(w) /\ w \notin mail
    /\ sentinel' = sentinel \ {w}
    /\ mail' = mail \cup {w}
    /\ UNCHANGED <<roster, stamp, switch, held, runs, intr, reviving, daemon,
                   clock, spent>>

\* The fallback branch: unread mail, no session, no recent relaunch ...
InboxNotices(w) ==
    /\ w \in mail /\ ~Up(w) /\ w \notin stamp /\ reviving = {}
    /\ reviving' = {w}
    /\ stamp' = stamp \cup {w}
    /\ UNCHANGED <<roster, sentinel, mail, switch, held, runs, intr, daemon,
                   clock, spent>>

\* ... the case's settings are restored, the roster is stamped, and it starts.
InboxRevives(w) ==
    /\ w \in reviving /\ MayWrite
    /\ reviving' = {}
    /\ roster' = Revived(w)
    /\ StartSession(w)
    /\ UNCHANGED <<sentinel, stamp, switch, held, intr, daemon, clock, spent>>

-----------------------------------------------------------------------------
(* tick().                                                                 *)

Starting == parking \cup reviving # {} \/ \E w \in Workers : intr[w] # "none"

TickLoad ==
    /\ pc = "idle"
    /\ Starting => "tick" \in Races
    /\ pc' = "scan"
    /\ copy' = roster /\ changed' = FALSE /\ todo' = Workers
    /\ UNCHANGED <<files, runs, intr, reviving, target, clock, spent>>

Scanning(w) == pc = "scan" /\ w \in todo
Handled(w) == todo' = todo \ {w} /\ UNCHANGED <<pc, target>>
Keep(w, entry) == copy' = [copy EXCEPT ![w] = entry] /\ changed' = TRUE

More(n) == IF n = MaxRelaunch THEN n ELSE n + 1
Relaunched(w) ==
    [copy[w] EXCEPT !.state = "running", !.age = "fresh",
                    !.relaunched = More(@)]
\* A relaunch that the cap is meant to bound.
Spend(w) == spent' = [spent EXCEPT ![w] = IF @ > MaxRelaunch THEN @ ELSE @ + 1]

\* relaunch(): kill-session, new-session, stamps.  The session that dies may be
\* one that somebody else has started since the worker was classified.
Relaunch(w, entry) ==
    /\ Boot(w)
    /\ stamp' = stamp \cup {w}
    /\ Keep(w, entry)

Pending(w) == w \in switch /\ copy[w].state # "waiting_reset"

\* agent_really_gone of a worker with a session calls a function that does not
\* exist; the exception ends the tick and the copy is dropped.
TickAborts(w) ==
    /\ Scanning(w) /\ Pending(w) /\ Up(w)
    /\ pc' = "idle" /\ todo' = {} /\ copy' = roster /\ changed' = FALSE
    /\ UNCHANGED <<files, runs, intr, reviving, target, clock, spent>>

Undead(w) == IF copy[w].state = "running" THEN 0 ELSE copy[w].dead

\* handle_switch of a worker that is gone: apply() and a relaunch that does not
\* count, or a failed apply() and the request is dropped.
KeepRequest(w) == switch                                     \* mutant
DropRequest(w) == switch \ {w}
TickSwitches(w) ==
    /\ Scanning(w) /\ Pending(w) /\ ~Up(w)
    /\ Handled(w)
    /\ sentinel' = sentinel \ {w}
    /\ switch' = DropRequest(w)
    /\ \/ Relaunch(w, [copy[w] EXCEPT !.state = "running", !.age = "fresh",
                                      !.dead = Undead(w)])
       \/ /\ Keep(w, [copy[w] EXCEPT !.dead = Undead(w)])
          /\ UNCHANGED <<runs, mail, stamp>>
    /\ UNCHANGED <<roster, held, intr, reviving, clock, spent>>

\* At the reset, unless jobmgr holds a wake and its grace still runs.
ResetDue(w) == clock[w] # "future" /\ w \notin held

SkippedButParked == {"done", "failed"}                       \* mutant
Skipped == {"done", "failed", "waiting_jobs"}
TickSkips(w) ==
    /\ Scanning(w) /\ ~Pending(w)
    /\ \/ copy[w].state \in Skipped
       \/ copy[w].state = "waiting_reset" /\ ~ResetDue(w)
    /\ Handled(w)
    /\ UNCHANGED <<files, runs, intr, reviving, copy, changed, clock, spent>>

TickReset(w) ==
    /\ Scanning(w) /\ copy[w].state = "waiting_reset" /\ ResetDue(w)
    /\ Handled(w)
    /\ Relaunch(w, Relaunched(w))
    /\ UNCHANGED <<roster, sentinel, switch, held, intr, reviving, clock,
                   spent>>

Classifying(w) ==
    Scanning(w) /\ ~Pending(w) /\ copy[w].state \notin Skipped \cup
                                                       {"waiting_reset"}

\* A worker that survived SURVIVE_RESET_SEC gets its attempts back; a wrapper
\* whose agent is between two runs does not count as a survivor.
Survived(w) == copy[w].age = "old"
TickAlive(w) ==
    /\ Classifying(w) /\ Up(w)
    /\ Handled(w)
    /\ \E agentUp \in BOOLEAN :
        IF agentUp /\ Survived(w)
        THEN Keep(w, [copy[w] EXCEPT !.dead = 0, !.relaunched = 0])
        ELSE Keep(w, [copy[w] EXCEPT !.dead = 0])
    /\ UNCHANGED <<files, runs, intr, reviving, clock, spent>>

Dead(w) == Classifying(w) /\ ~Up(w)
Unfinished(w) == Dead(w) /\ w \notin sentinel

TickDone(w) ==
    /\ Dead(w) /\ w \in sentinel
    /\ Handled(w)
    /\ Keep(w, [copy[w] EXCEPT !.state = "done", !.dead = 0])
    /\ UNCHANGED <<files, runs, intr, reviving, clock, spent>>

\* (With the account's limit marker, and the adoption of the worker's jobs.)
TickLimit(w) ==
    /\ Unfinished(w) /\ tail[w] = "limit"
    /\ Handled(w)
    /\ Keep(w, [copy[w] EXCEPT !.state = "waiting_reset", !.dead = 0])
    /\ clock' = [clock EXCEPT ![w] = "future"]
    /\ UNCHANGED <<files, runs, intr, reviving, spent>>

\* No marker and no mail: a few polls' patience.
Generous(w) == copy[w].dead + 1 <= DeadTicks                  \* mutant
Patient(w) == copy[w].dead + 1 < DeadTicks
TickNoMarker(w) ==
    /\ Unfinished(w) /\ tail[w] = "none" /\ w \notin mail
    /\ Patient(w)
    /\ Handled(w)
    /\ Keep(w, [copy[w] EXCEPT !.dead = @ + 1])
    /\ UNCHANGED <<files, runs, intr, reviving, clock, spent>>

Interrupted(w) == Unfinished(w) /\ tail[w] = "none" /\ w \in mail
Incomplete(w)  == Unfinished(w) /\ tail[w] = "rc0"
Crashed(w) ==
    /\ Unfinished(w)
    /\ \/ tail[w] = "error"
       \/ tail[w] = "none" /\ w \notin mail /\ ~Patient(w)

OneTooMany(w) == copy[w].relaunched <= MaxRelaunch            \* mutant
CanRelaunch(w) == copy[w].relaunched < MaxRelaunch
GapOver(w) == copy[w].age # "fresh"
BackoffOver(w) ==
    \/ copy[w].age = "old"
    \/ copy[w].age = "gap" /\ copy[w].relaunched = 0
    \/ copy[w].age = "long" /\ copy[w].relaunched <= 1

RcZeroIsFine(w) == (Interrupted(w) \/ Crashed(w)) /\ GapOver(w)  \* mutant
Due(w) ==
    \/ (Interrupted(w) \/ Crashed(w)) /\ GapOver(w)
    \/ Incomplete(w) /\ BackoffOver(w)

\* Too soon after the last relaunch: another poll.
TickBacksOff(w) ==
    /\ Interrupted(w) \/ Incomplete(w) \/ Crashed(w)
    /\ CanRelaunch(w) /\ ~Due(w)
    /\ Handled(w)
    /\ copy' = [copy EXCEPT ![w].dead = 0]
    /\ changed' = (changed \/ (Crashed(w) /\ tail[w] = "none"))
    /\ UNCHANGED <<files, runs, intr, reviving, clock, spent>>

TickGivesUp(w) ==
    /\ Interrupted(w) \/ Incomplete(w) \/ Crashed(w)
    /\ ~CanRelaunch(w)
    /\ Handled(w)
    /\ Keep(w, [copy[w] EXCEPT !.state = "failed", !.dead = 0])
    /\ UNCHANGED <<files, runs, intr, reviving, clock, spent>>

\* The interrupt flow is relaunched quietly ...
TickInterrupted(w) ==
    /\ Interrupted(w) /\ CanRelaunch(w) /\ Due(w)
    /\ Handled(w)
    /\ Relaunch(w, [Relaunched(w) EXCEPT !.dead = 0])
    /\ Spend(w)
    /\ UNCHANGED <<roster, sentinel, switch, held, intr, reviving, clock>>

\* ... the others only after an email, which takes its time.
TickEmails(w) ==
    /\ Incomplete(w) \/ Crashed(w)
    /\ CanRelaunch(w) /\ Due(w)
    /\ pc' = "email" /\ target' = w
    /\ copy' = [copy EXCEPT ![w].dead = 0]
    /\ UNCHANGED <<files, runs, intr, reviving, changed, todo, clock, spent>>

TickRelaunches ==
    /\ pc = "email"
    /\ pc' = "scan" /\ target' = NoWorker /\ todo' = todo \ {target}
    /\ Relaunch(target, Relaunched(target))
    /\ Spend(target)
    /\ UNCHANGED <<roster, sentinel, switch, held, intr, reviving, clock>>

\* The alarms' bookkeeping may make the copy worth saving.
TickEnd ==
    /\ pc = "scan" /\ todo = {}
    /\ pc' = "idle"
    /\ \/ roster' = copy
       \/ ~changed /\ roster' = roster
    /\ copy' = roster' /\ changed' = FALSE
    /\ UNCHANGED <<sentinel, mail, stamp, switch, held, runs, intr, reviving,
                   todo, target, clock, spent>>

-----------------------------------------------------------------------------
(* Clocks, and what jobmgr holds back.                                     *)

Older(age) == CASE age = "fresh" -> "gap" [] age = "gap" -> "long"
                [] OTHER -> "old"
Ages(w) ==
    /\ pc = "idle" /\ Steady(w)
    /\ roster[w].age # "old"
    /\ roster' = [roster EXCEPT ![w].age = Older(@)]
    /\ copy' = roster'
    /\ spent' = IF roster[w].age = "long" /\ Up(w)
                THEN [spent EXCEPT ![w] = 0] ELSE spent
    /\ UNCHANGED <<sentinel, mail, stamp, switch, held, runs, intr, reviving,
                   pc, changed, todo, target, clock>>

StampAges(w) ==
    /\ w \in stamp /\ Steady(w)
    /\ stamp' = stamp \ {w}
    /\ UNCHANGED <<roster, sentinel, mail, switch, held, runs, intr, reviving,
                   daemon, clock, spent>>

ResetPasses(w) ==
    /\ clock[w] = "future"
    /\ clock' = [clock EXCEPT ![w] = "past"]
    /\ UNCHANGED <<files, runs, intr, reviving, daemon, spent>>

GracePasses(w) ==
    /\ clock[w] = "past" /\ w \in held
    /\ held' = held \ {w}
    /\ UNCHANGED <<roster, sentinel, mail, stamp, switch, runs, intr,
                   reviving, daemon, clock, spent>>

HoldWake(w) ==
    /\ roster[w].state = "waiting_reset" /\ clock[w] = "future"
    /\ w \notin held
    /\ held' = held \cup {w}
    /\ UNCHANGED <<roster, sentinel, mail, stamp, switch, runs, intr,
                   reviving, daemon, clock, spent>>

-----------------------------------------------------------------------------
WorkerStep(w) ==
    \/ TouchSentinel(w) \/ ParkTouch(w) \/ ParkState(w)
    \/ RequestSwitch(w) \/ LeavesForSwitch(w)
    \/ \E how \in {"rc0", "error", "limit"} : Exits(w, how)
    \/ PaneDies(w) \/ ReadsMail(w)

StarterStep(w) ==
    \/ InterruptStamps(w) \/ InterruptKills(w) \/ InterruptStarts(w)
    \/ RelayArrives(w) \/ FollowUp(w) \/ InboxNotices(w) \/ InboxRevives(w)

TickStep ==
    \/ TickLoad \/ TickRelaunches \/ TickEnd
    \/ \E w \in Workers :
        \/ TickAborts(w) \/ TickSwitches(w) \/ TickSkips(w) \/ TickReset(w)
        \/ TickAlive(w) \/ TickDone(w) \/ TickLimit(w) \/ TickNoMarker(w)
        \/ TickBacksOff(w) \/ TickGivesUp(w) \/ TickInterrupted(w)
        \/ TickEmails(w)

ClockStep(w) ==
    \/ Ages(w) \/ StampAges(w)
    \/ ResetPasses(w) \/ GracePasses(w) \/ HoldWake(w)

Next ==
    \/ TickStep
    \/ \E w \in Workers : WorkerStep(w) \/ StarterStep(w) \/ ClockStep(w)

(***************************************************************************)
(* Fairness: the two loops and the clocks go on, what began to start a     *)
(* worker or to park ends, and a deputy that requested a switch exits, as  *)
(* it is told to.  Strong where the step needs a moment without a start or *)
(* a tick, which comes again and again (the loops sleep 45 s).             *)
(***************************************************************************)
Fairness ==
    /\ SF_vars(TickLoad) /\ WF_vars(TickStep)
    /\ \A w \in Workers :
        /\ SF_vars(Ages(w)) /\ WF_vars(StampAges(w))
        /\ WF_vars(ResetPasses(w) \/ GracePasses(w))
        /\ WF_vars(InterruptKills(w) \/ InterruptStarts(w))
        /\ WF_vars(InboxNotices(w) \/ InboxRevives(w))
        /\ WF_vars(ParkState(w))
    /\ \A w \in Workers \ Stubborn : WF_vars(LeavesForSwitch(w))

Spec == Init /\ [][Next]_vars /\ Fairness

-----------------------------------------------------------------------------
(* Properties.                                                             *)

Settled(w) == pc = "idle" /\ Steady(w)

\* A worker that runs and has neither finished nor parked is one the watchdog
\* supervises: whoever started it has left the roster at "running".  (Every
\* starter writes the roster by itself; only Races = {} saves them from the
\* watchdog's write of its whole copy.  With two workers it fails as well: a
\* tick that has relaunched one and is aborted by the other's switch request
\* forgets the relaunch, see TickAborts.)
WorkingIsTracked ==
    \A w \in up : Settled(w) /\ w \notin sentinel => roster[w].state = "running"

\* A parked worker stands in the roster as waiting_jobs, not as done.
ParkedIsHonest ==
    \A w \in parked : Settled(w) => roster[w].state = "waiting_jobs"

\* The cap bounds a rapid relaunch loop: between two runs that survive
\* SURVIVE_RESET_SEC, the watchdog relaunches a crashing worker at most
\* MAX_RELAUNCH times, however deaths, interrupts and revivals alternate.  (Of
\* one worker: TickAborts loses the counts of the others.  The relaunch at a
\* limit's reset counts but is not bounded, and is not in `spent'.)
CapBoundsLoops == \A w \in Workers : spent[w] <= MaxRelaunch

\* A worker marked as done has touched its sentinel in its latest run.
DoneIsEarned ==
    \A w \in Workers : roster[w].state = "done" /\ ~Up(w) => w \in finished

\* A supervised worker that is dead and has not finished is started again, or
\* it is given up aloud.
UnfinishedIsRevived ==
    \A w \in Workers :
        ~Up(w) /\ w \notin sentinel
        /\ roster[w].state \in {"running", "waiting_reset"}
            ~> Up(w) \/ w \in sentinel \/ roster[w].state = "failed"

\* A model switch that was requested is eventually applied or dropped, unless
\* an interrupt or the inbox loop starts the worker before that.
SwitchHonoured ==
    \A w \in Workers : w \in switch ~> w \notin switch \/ ~Steady(w)
=============================================================================
