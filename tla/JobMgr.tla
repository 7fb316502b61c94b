------------------------------- MODULE JobMgr -------------------------------
(***************************************************************************)
(* The job manager (infra/scratch_jobmgr.py): the `--submit` and `--sleep` *)
(* command lines agents run, and the daemon's monitoring tick, which turns *)
(* a finished job into a wake ticket and a wake ticket into a message to   *)
(* (and usually a relaunch of) the agent that owns the job.                *)
(*                                                                         *)
(* All shared state is directories of small JSON files, so every variable  *)
(* of the first group survives the death of any process; `pc', `todo',     *)
(* `owing', `fin' and `call' are the daemon's memory and do not.           *)
(*                                                                         *)
(* Abstractions.                                                           *)
(*   - Clocks: a record that is old enough, a grace period that is over, a *)
(*     retry delay that has elapsed are nondeterministic.                  *)
(*   - A job's execution is `work': "finished" leaves an exit code (the rc *)
(*     file, or gpu_queue/done), "vanished" leaves none.                   *)
(*   - Emails, the overdue alert and log lines change nothing and are left *)
(*     out; the stale-sleeper alert is kept, as a state of the marker.     *)
(*   - A message is the set of jobs it reports.                            *)
(*   - An owner runs its own submits and its sleep one after the other.    *)
(***************************************************************************)
EXTENDS Naturals

CONSTANTS
    Jobs, Owners,
    Owner,       \* the owner_agent of each job
    NoWake,      \* jobs submitted with --no-wake
    Adopted,     \* self-monitored jobs that scratch_jobmgr_adopt.py registers
    NoJob, NoOwner,
    CallFaults,  \* how a wake subprocess may fail: "rc1", "rc3", "timeout"
    MaxCrash,    \* daemon crashes
    MaxFault,    \* failed wake subprocesses
    MaxLimit     \* usage limits that strike

ASSUME JobMgrAssumption ==
    /\ Owner \in [Jobs -> Owners]
    /\ NoWake \subseteq Jobs /\ Adopted \subseteq Jobs
    /\ NoWake \cap Adopted = {}
    /\ NoJob \notin Jobs /\ NoOwner \notin Owners
    /\ CallFaults \subseteq {"rc1", "rc3", "timeout"}
    /\ MaxCrash \in Nat /\ MaxFault \in Nat /\ MaxLimit \in Nat

VARIABLES
    (* on disk, and outside the daemon *)
    submit,     \* where the --submit process of each job stands
    work,       \* what the job itself is doing
    pendingDir, runningDir,  \* jobs/pending, jobs/running
    orphaned,   \* pending records older than PENDING_ORPHAN_SEC
    gone,       \* running records that carry _gone_since
    doneDir,    \* jobs/done: the published status
    wakesDir,   \* jobs/wakes: undelivered tickets
    appended,   \* tickets that carry _appended
    throttled,  \* tickets whose _next_wake_ts lies in the future
    held,       \* tickets that carry held_notified
    msg,        \* jobs/msg/owner_<o>.txt: the jobs the last message reported
    marker,     \* jobs/sleeping/<o>.json
    sentinel,   \* owners whose worker_<o>.done exists
    wstate,     \* the owner's state in watchdog_jobs.json
    claude,     \* the owner's agent process
    sleepCli,   \* where the owner's --sleep stands
    mail,       \* jobs reported by messages in the owner's mailbox
    sent,       \* how many messages reported the job: 0, 1, 2 = more than one
    limit,      \* limit_state.json is active and its reset has not passed
    (* the daemon *)
    pc, todo, owing, fin, call,
    (* history: how many faults happened, whom a ticket already told misled *)
    crashes, faults, limits, misled

submitVars == <<submit, work, orphaned>>
recordVars == <<pendingDir, runningDir, gone, doneDir>>
ticketVars == <<wakesDir, appended, throttled, held, msg>>
ownerVars  == <<marker, sentinel, wstate, claude, sleepCli, mail, sent>>
daemonVars == <<pc, todo, owing, fin, call>>
faultVars  == <<crashes, faults, limits, misled>>
vars == <<submitVars, recordVars, ticketVars, ownerVars, limit, daemonVars,
          faultVars>>

SubmitStates == {"none", "pending", "dispatched", "promoted", "exited",
                 "failing", "failed", "crashed"}
WorkStates   == {"none", "active", "finished", "vanished"}
SleepStates  == {"idle", "checked", "touched", "stated", "parked"}
MarkerStates == {"none", "set", "stale", "alerted"}
DaemonStates == {"down", "idle", "orphans", "check", "deliver", "calling",
                 "settle", "stale"}

Finishes == [job: Jobs \cup {NoJob}, dir: {"pending", "running"},
             status: {"done", "died"}, step: {"publish", "ticket", "unlink"}]
NoFin  == [job |-> NoJob, dir |-> "running", status |-> "done",
           step |-> "publish"]
Calls  == [owner: Owners \cup {NoOwner}, interrupt: BOOLEAN, attach: BOOLEAN,
           sleeping: BOOLEAN]
NoCall == [owner |-> NoOwner, interrupt |-> FALSE, attach |-> FALSE,
           sleeping |-> FALSE]

TypeOK ==
    /\ submit \in [Jobs -> SubmitStates]
    /\ work \in [Jobs -> WorkStates]
    /\ pendingDir \subseteq Jobs /\ runningDir \subseteq Jobs
    /\ orphaned \subseteq Jobs /\ gone \subseteq Jobs
    /\ doneDir \in [Jobs -> {"none", "done", "died"}]
    /\ wakesDir \subseteq Jobs /\ appended \subseteq Jobs
    /\ throttled \subseteq Jobs /\ held \subseteq Jobs
    /\ msg \in [Owners -> SUBSET Jobs]
    /\ marker \in [Owners -> MarkerStates]
    /\ sentinel \subseteq Owners
    /\ wstate \in [Owners -> {"running", "waiting_jobs"}]
    /\ claude \in [Owners -> {"live", "dead"}]
    /\ sleepCli \in [Owners -> SleepStates]
    /\ mail \in [Owners -> SUBSET Jobs]
    /\ sent \in [Jobs -> 0..2]
    /\ limit \in BOOLEAN
    /\ pc \in DaemonStates
    /\ todo \subseteq Jobs /\ owing \subseteq Owners
    /\ fin \in Finishes /\ call \in Calls
    /\ crashes \in 0..MaxCrash /\ faults \in 0..MaxFault
    /\ limits \in 0..MaxLimit /\ misled \subseteq Owners

WakeJob(j)  == j \notin NoWake
Finished(j) == doneDir[j] # "none"
Inflight(o) == {j \in pendingDir \cup runningDir : Owner[j] = o /\ WakeJob(j)}
Tickets(o)  == {j \in wakesDir : Owner[j] = o}

Init ==
    /\ submit = [j \in Jobs |-> "none"] /\ work = [j \in Jobs |-> "none"]
    /\ pendingDir = {} /\ runningDir = {} /\ orphaned = {} /\ gone = {}
    /\ doneDir = [j \in Jobs |-> "none"]
    /\ wakesDir = {} /\ appended = {} /\ throttled = {} /\ held = {}
    /\ msg = [o \in Owners |-> {}]
    /\ marker = [o \in Owners |-> "none"]
    /\ sentinel = {}
    /\ wstate = [o \in Owners |-> "running"]
    /\ claude = [o \in Owners |-> "live"]
    /\ sleepCli = [o \in Owners |-> "idle"]
    /\ mail = [o \in Owners |-> {}]
    /\ sent = [j \in Jobs |-> 0]
    /\ limit = FALSE
    /\ pc = "idle" /\ todo = {} /\ owing = {} /\ fin = NoFin /\ call = NoCall
    /\ crashes = 0 /\ faults = 0 /\ limits = 0 /\ misled = {}

-----------------------------------------------------------------------------
(* --submit: pending record, dispatch, running record, pending unlinked.   *)

Submitting(o) ==
    \E j \in Jobs : Owner[j] = o /\ submit[j] \in {"pending", "dispatched",
                                                  "promoted", "failing"}

SubmitPending(j) ==
    /\ submit[j] = "none" /\ j \notin Adopted
    /\ claude[Owner[j]] = "live" /\ sleepCli[Owner[j]] = "idle"
    /\ ~Submitting(Owner[j])
    /\ submit' = [submit EXCEPT ![j] = "pending"]
    /\ pendingDir' = pendingDir \cup {j}
    /\ UNCHANGED <<work, orphaned, runningDir, gone, doneDir, ticketVars,
                   ownerVars, limit, daemonVars, faultVars>>

\* scratch_detach.sh (cpu) or the gpu_queue enqueue succeeded.
SubmitDispatch(j) ==
    /\ submit[j] = "pending"
    /\ submit' = [submit EXCEPT ![j] = "dispatched"]
    /\ work' = [work EXCEPT ![j] = "active"]
    /\ UNCHANGED <<orphaned, recordVars, ticketVars, ownerVars, limit,
                   daemonVars, faultVars>>

\* The dispatch raised: the record goes straight to done/, with no ticket.  A
\* detach that timed out may have started the job all the same.
SubmitDispatchFails(j) ==
    /\ submit[j] = "pending"
    /\ submit' = [submit EXCEPT ![j] = "failing"]
    /\ \E started \in BOOLEAN :
           work' = IF started THEN [work EXCEPT ![j] = "active"] ELSE work
    /\ doneDir' = [doneDir EXCEPT ![j] = "died"]
    /\ UNCHANGED <<orphaned, pendingDir, runningDir, gone, ticketVars,
                   ownerVars, limit, daemonVars, faultVars>>

SubmitPromote(j) ==
    /\ submit[j] = "dispatched"
    /\ submit' = [submit EXCEPT ![j] = "promoted"]
    /\ runningDir' = runningDir \cup {j}
    /\ UNCHANGED <<work, orphaned, pendingDir, gone, doneDir, ticketVars,
                   ownerVars, limit, daemonVars, faultVars>>

\* The promotion is complete, or the dispatch failed.
PromotedTooEarly(j) ==                                               \* mutant
    submit[j] \in {"dispatched", "promoted", "failing"}
Promoted(j) == submit[j] \in {"promoted", "failing"}

\* pending/<id>.json is unlinked; the CLI returns 0, or 1 on the failure path.
SubmitExit(j) ==
    /\ Promoted(j)
    /\ submit' = [submit EXCEPT ![j] = IF submit[j] = "failing"
                                       THEN "failed" ELSE "exited"]
    /\ pendingDir' = pendingDir \ {j}
    /\ UNCHANGED <<work, orphaned, runningDir, gone, doneDir, ticketVars,
                   ownerVars, limit, daemonVars, faultVars>>

SubmitCrash(j) ==
    /\ submit[j] \in {"pending", "dispatched", "promoted", "failing"}
    /\ submit' = [submit EXCEPT ![j] = "crashed"]
    /\ UNCHANGED <<work, orphaned, recordVars, ticketVars, ownerVars, limit,
                   daemonVars, faultVars>>

\* A dispatch takes at most 30 s, so only a dead CLI leaves a record in
\* pending/ for PENDING_ORPHAN_SEC.
PendingAges(j) ==
    /\ submit[j] = "crashed" /\ j \in pendingDir \ orphaned
    /\ orphaned' = orphaned \cup {j}
    /\ UNCHANGED <<submit, work, recordVars, ticketVars, ownerVars, limit,
                   daemonVars, faultVars>>

\* The watchdog hands a limit-killed worker's own detached jobs to jobmgr; the
\* process may be over already (dead_at_adopt).
Adopt(j) ==
    /\ j \in Adopted /\ submit[j] = "none"
    /\ limit /\ claude[Owner[j]] = "dead"
    /\ submit' = [submit EXCEPT ![j] = "exited"]
    /\ \E w \in {"active", "vanished"} : work' = [work EXCEPT ![j] = w]
    /\ runningDir' = runningDir \cup {j}
    /\ UNCHANGED <<orphaned, pendingDir, gone, doneDir, ticketVars, ownerVars,
                   limit, daemonVars, faultVars>>

\* The job ends by itself: the shim drops rc/<id>.rc, gpu_manager publishes
\* gpu_queue/done.  An adopted job has no shim.
WorkFinishes(j) ==
    /\ work[j] = "active" /\ j \notin Adopted
    /\ work' = [work EXCEPT ![j] = "finished"]
    /\ UNCHANGED <<submit, orphaned, recordVars, ticketVars, ownerVars, limit,
                   daemonVars, faultVars>>

\* The process is killed before the shim can write, the queue entry deleted.
WorkVanishes(j) ==
    /\ work[j] = "active"
    /\ work' = [work EXCEPT ![j] = "vanished"]
    /\ UNCHANGED <<submit, orphaned, recordVars, ticketVars, ownerVars, limit,
                   daemonVars, faultVars>>

-----------------------------------------------------------------------------
(* The owner: --sleep, the end of its turn, and who revives it.            *)

\* cmd_sleep's admission check: something in flight, or a wake already due.
ParksUnasked(o) == TRUE                                              \* mutant
MayPark(o) == Inflight(o) # {} \/ Tickets(o) # {}

\* All it finds is the ticket of a message that was just appended to its mailbox:
\* deliver_owner_wakes unlinks the ticket once the append has returned.
ParksOnToldTicket(o) ==
    pc = "settle" /\ call.owner = o /\ Inflight(o) = {}

\* A claude that an interrupt has just relaunched takes seconds to run its first
\* command, the daemon's bookkeeping after the call milliseconds; one that was
\* alive all along may park at any moment.
SleepCheck(o) ==
    /\ claude[o] = "live" /\ sleepCli[o] = "idle" /\ ~Submitting(o)
    /\ ~(pc = "settle" /\ call.owner = o /\ call.interrupt)
    /\ MayPark(o)
    /\ sleepCli' = [sleepCli EXCEPT ![o] = "checked"]
    /\ misled' = IF ParksOnToldTicket(o) THEN misled \cup {o} ELSE misled \ {o}
    /\ UNCHANGED <<submitVars, recordVars, ticketVars, marker, sentinel,
                   wstate, claude, mail, sent, limit, daemonVars, crashes,
                   faults, limits>>

SleepTouch(o) ==
    /\ sleepCli[o] = "checked"
    /\ sleepCli' = [sleepCli EXCEPT ![o] = "touched"]
    /\ sentinel' = sentinel \cup {o}
    /\ UNCHANGED <<submitVars, recordVars, ticketVars, marker, wstate, claude,
                   mail, sent, limit, daemonVars, faultVars>>

SleepSetState(o) ==
    /\ sleepCli[o] = "touched"
    /\ sleepCli' = [sleepCli EXCEPT ![o] = "stated"]
    /\ wstate' = [wstate EXCEPT ![o] = "waiting_jobs"]
    /\ UNCHANGED <<submitVars, recordVars, ticketVars, marker, sentinel,
                   claude, mail, sent, limit, daemonVars, faultVars>>

SleepMark(o) ==
    /\ sleepCli[o] = "stated"
    /\ sleepCli' = [sleepCli EXCEPT ![o] = "parked"]
    /\ marker' = [marker EXCEPT ![o] = "set"]
    /\ UNCHANGED <<submitVars, recordVars, ticketVars, sentinel, wstate,
                   claude, mail, sent, limit, daemonVars, faultVars>>

\* "END YOUR TURN NOW": the parked claude exits with rc 0.
EndTurn(o) ==
    /\ sleepCli[o] = "parked" /\ claude[o] = "live"
    /\ claude' = [claude EXCEPT ![o] = "dead"]
    /\ UNCHANGED <<submitVars, recordVars, ticketVars, marker, sentinel,
                   wstate, sleepCli, mail, sent, limit, daemonVars, faultVars>>

\* The claude dies (crash, limit, turn over) before it has parked.
OwnerDies(o) ==
    /\ claude[o] = "live" /\ sleepCli[o] # "parked"
    /\ claude' = [claude EXCEPT ![o] = "dead"]
    /\ sleepCli' = [sleepCli EXCEPT ![o] = "idle"]
    /\ UNCHANGED <<submitVars, recordVars, ticketVars, marker, sentinel,
                   wstate, mail, sent, limit, daemonVars, faultVars>>

\* A mailbox checkpoint; not while the agent's --sleep runs or after it.
ReadMailbox(o) ==
    /\ claude[o] = "live" /\ sleepCli[o] = "idle" /\ mail[o] # {}
    /\ mail' = [mail EXCEPT ![o] = {}]
    /\ UNCHANGED <<submitVars, recordVars, ticketVars, marker, sentinel,
                   wstate, claude, sleepCli, sent, limit, daemonVars,
                   faultVars>>

\* The relaunch script drains the mailbox into the prompt of a new claude.
Boot(o) ==
    /\ claude' = [claude EXCEPT ![o] = "live"]
    /\ sleepCli' = [sleepCli EXCEPT ![o] = "idle"]
    /\ mail' = [mail EXCEPT ![o] = {}]

\* The watchdog relaunches a dead worker, but neither a parked one nor one
\* whose done-sentinel exists.
WatchdogRevives(o) ==
    /\ claude[o] = "dead" /\ o \notin sentinel /\ wstate[o] = "running"
    /\ Boot(o)
    /\ UNCHANGED <<submitVars, recordVars, ticketVars, marker, sentinel,
                   wstate, sent, limit, daemonVars, faultVars>>

\* The inbox loop relaunches any dead worker with unread mail; it resets the
\* roster state, and leaves the sentinel and the sleep marker alone.
InboxRevives(o) ==
    /\ claude[o] = "dead" /\ mail[o] # {}
    /\ wstate' = [wstate EXCEPT ![o] = "running"]
    /\ Boot(o)
    /\ UNCHANGED <<submitVars, recordVars, ticketVars, marker, sentinel, sent,
                   limit, daemonVars, faultVars>>

LimitStrikes ==
    /\ ~limit /\ limits < MaxLimit
    /\ limit' = TRUE
    /\ limits' = limits + 1
    /\ UNCHANGED <<submitVars, recordVars, ticketVars, ownerVars, daemonVars,
                   crashes, faults, misled>>

LimitResets ==
    /\ limit
    /\ limit' = FALSE
    /\ UNCHANGED <<submitVars, recordVars, ticketVars, ownerVars, daemonVars,
                   faultVars>>

-----------------------------------------------------------------------------
(* finish(): publish in done/, write the ticket, unlink the source record. *)

FinishSwapped(j, dir, status) ==                                     \* mutant
    fin' = [job |-> j, dir |-> status, status |-> dir, step |-> "publish"]
BeginFinish(j, dir, status) ==
    fin' = [job |-> j, dir |-> dir, status |-> status, step |-> "publish"]

FinishPublish ==
    /\ fin.job # NoJob /\ fin.step = "publish"
    /\ doneDir' = [doneDir EXCEPT ![fin.job] = fin.status]
    /\ fin' = [fin EXCEPT !.step = "ticket"]
    /\ UNCHANGED <<submitVars, pendingDir, runningDir, gone, ticketVars,
                   ownerVars, limit, pc, todo, owing, call, faultVars>>

TicketForSubmitted == IF WakeJob(fin.job) /\ fin.job \notin Adopted   \* mutant
                      THEN {fin.job} ELSE {}
NewTicket == IF WakeJob(fin.job) THEN {fin.job} ELSE {}
FinishTicket ==
    /\ fin.job # NoJob /\ fin.step = "ticket"
    /\ wakesDir' = wakesDir \cup NewTicket
    /\ appended' = appended \ {fin.job}
    /\ throttled' = throttled \ {fin.job}
    /\ held' = held \ {fin.job}
    /\ fin' = [fin EXCEPT !.step = "unlink"]
    /\ UNCHANGED <<submitVars, recordVars, msg, ownerVars, limit, pc, todo,
                   owing, call, faultVars>>

FinishUnlink ==
    /\ fin.job # NoJob /\ fin.step = "unlink"
    /\ IF fin.dir = "pending"
       THEN /\ pendingDir' = pendingDir \ {fin.job}
            /\ UNCHANGED <<runningDir, gone>>
       ELSE /\ runningDir' = runningDir \ {fin.job}
            /\ gone' = gone \ {fin.job}
            /\ UNCHANGED pendingDir
    /\ fin' = NoFin
    /\ UNCHANGED <<submitVars, doneDir, ticketVars, ownerVars, limit, pc,
                   todo, owing, call, faultVars>>

-----------------------------------------------------------------------------
(* tick(): dedupe, orphans, running jobs, deliveries, stale sleepers.      *)

\* Every running record that is already in done/ is dropped; then pending/ is
\* listed.
TickStart ==
    /\ pc = "idle"
    /\ runningDir' = {j \in runningDir : ~Finished(j)}
    /\ gone' = gone \cap runningDir'
    /\ pc' = "orphans"
    /\ todo' = pendingDir \cap orphaned
    /\ UNCHANGED <<submitVars, pendingDir, doneDir, ticketVars, ownerVars,
                   limit, owing, fin, call, faultVars>>

TickOrphan(j) ==
    /\ pc = "orphans" /\ fin = NoFin /\ j \in todo
    /\ todo' = todo \ {j}
    /\ BeginFinish(j, "pending", "died")
    /\ UNCHANGED <<submitVars, recordVars, ticketVars, ownerVars, limit, pc,
                   owing, call, faultVars>>

TickListRunning ==
    /\ pc = "orphans" /\ fin = NoFin /\ todo = {}
    /\ pc' = "check"
    /\ todo' = runningDir
    /\ UNCHANGED <<submitVars, recordVars, ticketVars, ownerVars, limit,
                   owing, fin, call, faultVars>>

\* check_cpu / check_gpu of one record that shows an exit code.
CheckFinished(j) ==
    /\ pc = "check" /\ fin = NoFin /\ j \in todo /\ work[j] = "finished"
    /\ todo' = todo \ {j}
    /\ BeginFinish(j, "running", "done")
    /\ UNCHANGED <<submitVars, recordVars, ticketVars, ownerVars, limit, pc,
                   owing, call, faultVars>>

\* ... of one that is still alive (the grace mark is withdrawn), or that is
\* missing and has just been marked, or whose grace period still runs.
CheckWaits(j) ==
    /\ pc = "check" /\ fin = NoFin /\ j \in todo /\ work[j] # "finished"
    /\ todo' = todo \ {j}
    /\ gone' = IF work[j] = "vanished" THEN gone \cup {j} ELSE gone \ {j}
    /\ UNCHANGED <<submitVars, pendingDir, runningDir, doneDir, ticketVars,
                   ownerVars, limit, pc, owing, fin, call, faultVars>>

\* ... of one whose grace period is over; for an adopted job that is success.
CheckGone(j) ==
    /\ pc = "check" /\ fin = NoFin /\ j \in todo /\ work[j] = "vanished"
    /\ j \in gone
    /\ todo' = todo \ {j}
    /\ BeginFinish(j, "running", IF j \in Adopted THEN "done" ELSE "died")
    /\ UNCHANGED <<submitVars, recordVars, ticketVars, ownerVars, limit, pc,
                   owing, call, faultVars>>

OwnersNotHeld == {Owner[j] : j \in wakesDir \ held}                   \* mutant
OwnersDue == {Owner[j] : j \in wakesDir}
TickListWakes ==
    /\ pc = "check" /\ fin = NoFin /\ todo = {}
    /\ pc' = "deliver"
    /\ owing' = OwnersDue
    /\ UNCHANGED <<submitVars, recordVars, ticketVars, ownerVars, limit, todo,
                   fin, call, faultVars>>

\* deliver_owner_wakes while a limit is in force: every ticket is held.
DeliverHold(o) ==
    /\ pc = "deliver" /\ o \in owing /\ limit
    /\ owing' = owing \ {o}
    /\ held' = held \cup Tickets(o)
    /\ UNCHANGED <<submitVars, recordVars, wakesDir, appended, throttled, msg,
                   ownerVars, limit, pc, todo, fin, call, faultVars>>

\* ... while even the soonest retry lies in the future.
DeliverWait(o) ==
    /\ pc = "deliver" /\ o \in owing /\ ~limit
    /\ Tickets(o) \subseteq throttled
    /\ owing' = owing \ {o}
    /\ UNCHANGED <<submitVars, recordVars, ticketVars, ownerVars, limit, pc,
                   todo, fin, call, faultVars>>

\* ... otherwise the message is written, unless one ticket of the batch says
\* that an earlier attempt got it into the mailbox, and the way is chosen.
DeliverCall(o) ==
    LET alreadyAppended == Tickets(o) \cap appended # {}
        sleeping  == marker[o] # "none"
        interrupt == sleeping \/ claude[o] = "dead"
    IN  /\ pc = "deliver" /\ o \in owing /\ ~limit
        /\ ~(Tickets(o) \subseteq throttled)
        /\ msg' = IF alreadyAppended THEN msg
                  ELSE [msg EXCEPT ![o] = Tickets(o)]
        /\ call' = [owner |-> o, interrupt |-> interrupt,
                    attach |-> ~alreadyAppended \/ ~interrupt,
                    sleeping |-> sleeping]
        /\ pc' = "calling"
        /\ owing' = owing \ {o}
        /\ UNCHANGED <<submitVars, recordVars, wakesDir, appended, throttled,
                       held, ownerVars, limit, todo, fin, faultVars>>

\* The jobs the message of this call reports, if it carries one.
BodyOfInterrupt ==                                                   \* mutant
    IF call.attach /\ call.interrupt THEN msg[call.owner] ELSE {}
Body == IF call.attach THEN msg[call.owner] ELSE {}
Count(n) == IF n = 2 THEN 2 ELSE n + 1
SendBody ==
    sent' = [j \in Jobs |-> IF j \in Body THEN Count(sent[j]) ELSE sent[j]]

\* scratch_interrupt_worker.sh returned 0: appended, sentinel and roster state
\* reset, claude killed and relaunched (its boot drains the mailbox).
InterruptSucceeds ==
    /\ pc = "calling" /\ call.interrupt
    /\ SendBody
    /\ sentinel' = sentinel \ {call.owner}
    /\ wstate' = [wstate EXCEPT ![call.owner] = "running"]
    /\ Boot(call.owner)
    /\ pc' = "settle"
    /\ UNCHANGED <<submitVars, recordVars, ticketVars, marker, limit, todo,
                   owing, fin, call, faultVars>>

\* scratch_mailbox_append.sh returned 0.
AppendSucceeds ==
    /\ pc = "calling" /\ ~call.interrupt
    /\ SendBody
    /\ mail' = [mail EXCEPT ![call.owner] = @ \cup Body]
    /\ pc' = "settle"
    /\ UNCHANGED <<submitVars, recordVars, ticketVars, marker, sentinel,
                   wstate, claude, sleepCli, limit, todo, owing, fin, call,
                   faultVars>>

\* The bookkeeping of a failed attempt: every ticket waits for its backoff.
CallFailed(fault) ==
    /\ pc = "calling" /\ fault \in CallFaults /\ faults < MaxFault
    /\ faults' = faults + 1
    /\ throttled' = throttled \cup Tickets(call.owner)
    /\ call' = NoCall
    /\ pc' = "deliver"
    /\ UNCHANGED <<submitVars, recordVars, wakesDir, held, msg, marker, limit,
                   todo, owing, fin, crashes, limits, misled>>

\* No relaunch script, or the append itself failed: nothing happened.
CallRefused ==
    /\ CallFailed("rc1")
    /\ UNCHANGED <<appended, sentinel, wstate, claude, sleepCli, mail, sent>>

\* The mail is in the mailbox and the old claude is dead.
KilledWithMail ==
    /\ SendBody
    /\ mail' = [mail EXCEPT ![call.owner] = @ \cup Body]
    /\ sentinel' = sentinel \ {call.owner}
    /\ wstate' = [wstate EXCEPT ![call.owner] = "running"]
    /\ claude' = [claude EXCEPT ![call.owner] = "dead"]
    /\ sleepCli' = [sleepCli EXCEPT ![call.owner] = "idle"]

\* rc 3: appended and killed, but the relaunch did not come up.
InterruptUnverified ==
    /\ call.interrupt /\ CallFailed("rc3")
    /\ KilledWithMail
    /\ appended' = appended \cup Tickets(call.owner)

\* The 180 s limit on the subprocess: the append was made and, for an
\* interrupt, perhaps the kill, but nothing of it is noted in the tickets.
CallTimesOut ==
    /\ CallFailed("timeout")
    /\ \/ call.interrupt /\ KilledWithMail
       \/ /\ SendBody
          /\ mail' = [mail EXCEPT ![call.owner] = @ \cup Body]
          /\ UNCHANGED <<sentinel, wstate, claude, sleepCli>>
    /\ UNCHANGED appended

\* After a success: done/ is enriched and the ticket unlinked, one by one ...
SettleTicket(j) ==
    /\ pc = "settle" /\ j \in Tickets(call.owner)
    /\ wakesDir' = wakesDir \ {j}
    /\ appended' = appended \ {j}
    /\ throttled' = throttled \ {j}
    /\ held' = held \ {j}
    /\ UNCHANGED <<submitVars, recordVars, msg, ownerVars, limit, daemonVars,
                   faultVars>>

\* ... then the sleep marker, if the owner had one when the call was chosen.
FirstSettled == TRUE                                                 \* mutant
AllSettled == Tickets(call.owner) = {}
SettleMarker ==
    /\ pc = "settle" /\ AllSettled
    /\ marker' = IF call.sleeping THEN [marker EXCEPT ![call.owner] = "none"]
                 ELSE marker
    /\ call' = NoCall
    /\ pc' = "deliver"
    /\ UNCHANGED <<submitVars, recordVars, ticketVars, sentinel, wstate,
                   claude, sleepCli, mail, sent, limit, todo, owing, fin,
                   faultVars>>

FreshSleepers == {o \in Owners : marker[o] = "set"}                   \* mutant
Sleepers == {o \in Owners : marker[o] # "none"}
TickListSleepers ==
    /\ pc = "deliver" /\ owing = {}
    /\ pc' = "stale"
    /\ owing' = Sleepers
    /\ UNCHANGED <<submitVars, recordVars, ticketVars, ownerVars, limit, todo,
                   fin, call, faultVars>>

Stranded(o) == Inflight(o) = {} /\ Tickets(o) = {}

\* check_stale_sleepers for one marker: something will wake its owner, or the
\* first sight of a stranded one, or its STALE_SLEEP_SEC still run.
StaleWaits(o) ==
    /\ pc = "stale" /\ o \in owing
    /\ owing' = owing \ {o}
    /\ marker' = [marker EXCEPT ![o] =
                    IF @ = "alerted" THEN @
                    ELSE IF Stranded(o) THEN "stale" ELSE "set"]
    /\ UNCHANGED <<submitVars, recordVars, ticketVars, sentinel, wstate,
                   claude, sleepCli, mail, sent, limit, pc, todo, fin, call,
                   faultVars>>

\* Stranded for STALE_SLEEP_SEC: the one alert email.
StaleAlerts(o) ==
    /\ pc = "stale" /\ o \in owing /\ Stranded(o) /\ marker[o] = "stale"
    /\ owing' = owing \ {o}
    /\ marker' = [marker EXCEPT ![o] = "alerted"]
    /\ UNCHANGED <<submitVars, recordVars, ticketVars, sentinel, wstate,
                   claude, sleepCli, mail, sent, limit, pc, todo, fin, call,
                   faultVars>>

TickEnd ==
    /\ pc = "stale" /\ owing = {}
    /\ pc' = "idle"
    /\ UNCHANGED <<submitVars, recordVars, ticketVars, ownerVars, limit, todo,
                   owing, fin, call, faultVars>>

\* WAKE_RETRY_BACKOFF of one ticket has passed.
BackoffElapses(j) ==
    /\ j \in throttled
    /\ throttled' = throttled \ {j}
    /\ UNCHANGED <<submitVars, recordVars, wakesDir, appended, held, msg,
                   ownerVars, limit, daemonVars, faultVars>>

\* The daemon dies anywhere, or an exception aborts the tick; only files stay.
DaemonCrash ==
    /\ pc # "down" /\ crashes < MaxCrash
    /\ crashes' = crashes + 1
    /\ pc' = "down" /\ todo' = {} /\ owing' = {}
    /\ fin' = NoFin /\ call' = NoCall
    /\ UNCHANGED <<submitVars, recordVars, ticketVars, ownerVars, limit,
                   faults, limits, misled>>

DaemonRestart ==
    /\ pc = "down"
    /\ pc' = "idle"
    /\ UNCHANGED <<submitVars, recordVars, ticketVars, ownerVars, limit, todo,
                   owing, fin, call, faultVars>>

-----------------------------------------------------------------------------
SubmitStep(j) ==
    \/ SubmitPending(j) \/ SubmitDispatch(j) \/ SubmitDispatchFails(j)
    \/ SubmitPromote(j) \/ SubmitExit(j) \/ SubmitCrash(j) \/ PendingAges(j)
    \/ Adopt(j) \/ WorkFinishes(j) \/ WorkVanishes(j)

OwnerStep(o) ==
    \/ SleepCheck(o) \/ SleepTouch(o) \/ SleepSetState(o) \/ SleepMark(o)
    \/ EndTurn(o) \/ OwnerDies(o) \/ ReadMailbox(o)
    \/ WatchdogRevives(o) \/ InboxRevives(o)

FinishStep == FinishPublish \/ FinishTicket \/ FinishUnlink

CheckStep ==
    \/ TickStart \/ TickListRunning \/ TickListWakes
    \/ \E j \in Jobs : \/ TickOrphan(j) \/ CheckFinished(j)
                       \/ CheckWaits(j) \/ CheckGone(j)

DeliverStep ==
    \/ \E o \in Owners : DeliverHold(o) \/ DeliverWait(o) \/ DeliverCall(o)
    \/ InterruptSucceeds \/ AppendSucceeds
    \/ \E j \in Jobs : SettleTicket(j)
    \/ SettleMarker

CallFault == CallRefused \/ InterruptUnverified \/ CallTimesOut

StaleStep ==
    \/ TickListSleepers \/ TickEnd \/ DaemonRestart
    \/ \E o \in Owners : StaleWaits(o) \/ StaleAlerts(o)

\* What the daemon does by itself as long as it is up.
DaemonStep == FinishStep \/ CheckStep \/ DeliverStep \/ StaleStep

Environment ==
    \/ LimitStrikes \/ LimitResets
    \/ \E j \in Jobs : BackoffElapses(j)
    \/ CallFault \/ DaemonCrash

Next ==
    \/ \E j \in Jobs : SubmitStep(j)
    \/ \E o \in Owners : OwnerStep(o)
    \/ DaemonStep
    \/ Environment

(***************************************************************************)
(* Fairness: the daemon's loop keeps running; clocks pass; a live process  *)
(* goes on to its next line; the two revivers and the agents' checkpoints  *)
(* come round.  Strong fairness only where a clock is read again and again *)
(* (a grace period, the stale delay): the tick that finds it over comes.   *)
(* No agent has to submit, to park or to die, no job to end.               *)
(***************************************************************************)
Fairness ==
    /\ WF_vars(DaemonStep)
    /\ WF_vars(LimitResets)
    /\ \A j \in Jobs :
        /\ WF_vars(BackoffElapses(j)) /\ WF_vars(PendingAges(j))
        /\ WF_vars(SubmitDispatch(j) \/ SubmitDispatchFails(j)
                   \/ SubmitPromote(j) \/ SubmitExit(j) \/ SubmitCrash(j))
        /\ SF_vars(CheckGone(j))
    /\ \A o \in Owners :
        /\ WF_vars(SleepTouch(o) \/ SleepSetState(o) \/ SleepMark(o)
                   \/ EndTurn(o))
        /\ WF_vars(WatchdogRevives(o)) /\ WF_vars(InboxRevives(o))
        /\ SF_vars(ReadMailbox(o))
        /\ SF_vars(StaleAlerts(o))

Spec == Init /\ [][Next]_vars /\ Fairness

-----------------------------------------------------------------------------
(* Properties.                                                             *)

\* A job that asked for a wake and is over has been reported to its owner, or
\* its ticket waits in wakes/, or the daemon will look at its record again;
\* only a submission that the CLI itself reported as failed has no wake.
\* (finish(), tick()'s dedupe and deliver_owner_wakes between them.)
NoLostWake ==
    \A j \in Jobs :
        Finished(j) /\ WakeJob(j) /\ submit[j] # "failed" =>
            sent[j] > 0 \/ j \in wakesDir \cup pendingDir \cup runningDir

\* From the moment its record is first written, a job is in pending/, running/
\* or done/, whoever crashes between the writes of its promotion and of
\* finish(): --status and the wake machinery always see it somewhere.
NeverForgotten ==
    \A j \in Jobs :
        submit[j] # "none" => j \in pendingDir \cup runningDir \/ Finished(j)

\* A submission that was orphaned although its job had been started: finish()
\* calls it dead, and tick() then drops its running record.
Disowned(j) == submit[j] = "crashed" /\ Finished(j) /\ work[j] # "none"

\* An owner that parked and ended its turn, and that neither the watchdog nor
\* a person will bring back, has a wake job in flight, a ticket, or unread mail
\* for which the inbox loop will relaunch it (cmd_sleep's refusal to park an owner
\* that nothing would wake); the exception is an owner that trusts the running
\* record of a disowned job.
Awaited(o) == Inflight(o) # {} \/ Tickets(o) # {} \/ mail[o] # {}
ParkedAndGone(o) ==
    /\ sleepCli[o] = "parked" /\ claude[o] = "dead"
    /\ \A j \in Jobs : Owner[j] = o => ~Disowned(j)
NobodyParksForNothing == \A o \in Owners : ParkedAndGone(o) => Awaited(o)

\* What the code keeps of it: but for the owner that reads the message, does the
\* work and parks while the daemon still has the ticket of that message to unlink,
\* nobody parks for nothing, however checks and deliveries race.
ParkedHasAWaker ==
    \A o \in Owners : ParkedAndGone(o) /\ o \notin misled => Awaited(o)

\* Unless something failed (a daemon crash, a wake subprocess, a submit CLI
\* that died half way) no job is reported to its owner twice.
ReportedOnce ==
    crashes = 0 /\ faults = 0 =>
        \A j \in Jobs : sent[j] = 2 => submit[j] = "crashed"

\* A job that is over is eventually reported and read, across usage limits,
\* failed relaunches, and an owner that parks or dies meanwhile.
Reported(j) == sent[j] > 0 /\ j \notin mail[Owner[j]]
FinishedIsReported ==
    \A j \in Jobs :
        Finished(j) /\ WakeJob(j) /\ submit[j] \notin {"failed", "failing"}
            ~> Reported(j) \/ submit[j] = "failed"

\* Even when a crash of the daemon has cost an owner its wake, a parked owner
\* that nothing will wake does not sleep on unnoticed: the operator is alerted
\* (check_stale_sleepers).
StrandedIsAlerted ==
    \A o \in Owners :
        sleepCli[o] = "parked" /\ claude[o] = "dead" /\ Stranded(o)
            ~> marker[o] = "alerted" \/ claude[o] = "live"

\* The job manager implements the wake service (when its daemon is not killed
\* and no relaunch is left unverified).
WakePhase(j) ==
    IF      submit[j] = "none"   THEN "new"
    ELSE IF submit[j] = "failed" THEN "refused"
    ELSE IF sent[j] > 0          THEN "handed"
    ELSE IF j \in wakesDir      THEN "due"
    ELSE IF j \in pendingDir \cup runningDir THEN "inflight"
    ELSE "closed"
Service == INSTANCE WakeService WITH phase <- [j \in Jobs |-> WakePhase(j)]
ImplementsWakeService == Service!Spec
=============================================================================
