# Posse in TLA+

Posse runs a fleet of headless coding agents ("deputies", "workers") in tmux
sessions and keeps them alive, informed and honest with a set of small daemons
and scripts under `infra/` that talk through files. This directory models the
part of it where the order of events matters: who starts a worker, who kills
it, how mail reaches it, how the end of a long job wakes it up, and the
services around the fleet that hand out GPUs, case numbers, slots of the docket,
reviews, records, models and mail.

| file | what it is |
|---|---|
| `WakeService.tla` | what the job manager promises: the abstract specification |
| `JobMgr.tla` | the job manager, with the agents that submit and park |
| `JobMgrProofs.tla` | theorems about `JobMgr` |
| `Mailbox.tla` | one worker's mail path: append, interrupt, kill, boot, poll |
| `MailboxProofs.tla` | theorems about `Mailbox` |
| `Watchdog.tla` | the watchdog, and the others that start workers or write the roster |
| `WatchdogProofs.tla` | theorems about `Watchdog` |
| `GpuQueue.tla` | the GPU queue: submitters, the manager, the processes it starts |
| `CaseNumbers.tla` | case numbers, the web-case bridge and the joint-task-force bridge |
| `CaseNumbersProofs.tla` | theorems about `CaseNumbers` |
| `Docket.tla` | standing entries, their schedules and the runner |
| `Intake.tla` | a mail's way from IMAP to a mailbox, a record or a one-shot handler |
| `IntakeProofs.tla` | theorems about `Intake` |
| `LimitNotice.tla` | when the limit that a notice speaks of is reset |
| `CalendarProofs.tla` | theorems about `Docket` and `LimitNotice`, with the arithmetic they need |
| `Judges.tla` | the register of judges and the review rounds |
| `Records.tla` | what precincts keep: ledgers, logs, the directory, the trash |
| `Sheriff.tla` | the sheriff's daemon and its request queue, over `Records` |
| `ModelSwitch.tla` | one case, several models: lanes, switches, sessions |
| `Hybrid.tla` | the hand-off of a report to another service's writer |
| `ServicesProofs.tla` | theorems about `ModelSwitch`, `Hybrid` and `GpuQueue`, and about all services side by side |
| `FieldGuide.tla` | lessons and the rewrites of the guidelines |
| `SheriffProofs.tla` | theorems about `Records`, `Sheriff`, `Judges` and `FieldGuide` |
| `MC*.tla`, `*.cfg` | the instances that TLC checks; `MCServices` and `MCRecordsSwitch` put services side by side |
| `PROJECT.json` | runs, mutants, map to the source, findings, hazards, theorems |

## 1. Inventory

Everything is a process that polls a directory; the state is files, the calls
are subprocesses, and the only locks are one `flock` per mailbox and a few in
the docket, the case numbers, the records, the judges and the field guide.

| component | state | operations | hard because |
|---|---|---|---|
| job manager (`scratch_jobmgr.py`, `_adopt.py`) | `jobs/{pending,running,done,wakes,sleeping,msg,rc}`, `limit_state.json` | `--submit`, `--sleep`, `tick` (dedupe, orphans, checks, deliveries, stale sleepers), adoption | several writes per transition and a crash between any two; a parking agent races with the delivery of its wake; wake subprocesses that fail half way |
| mail and interrupts (`scratch_interrupt_worker.sh`, `scratch_inbox_deliver.sh`, `scratch_mailbox_append.sh`, `scratch_gen_relaunch.sh`, `scratch_read_mailbox.sh`, `scratch_kill_agent_only.py`) | `inbox/mailbox_*`, `inflight_*`, `.gen`, `relaunching_*`, `last_relaunch_*` | append, coalesce, splice, stamp, kill, relaunch; drain, park, deadman, clear | kills race with boots and polls, and a message is out of the file while nobody has read it |
| watchdog (`scratch_watchdog.py`) | `watchdog_jobs.json`, `limit_state.json` | `tick`: classify, relaunch with a cap and backoff, give up, wait for a limit's reset, switch models | load-modify-save over a whole tick without a lock; three others start the same workers |
| inbox loop (`scratch_inbox_loop.sh`) | receipts, cool-down stamps | dispatches each mail and marks it, revives a finished deputy, revives a dead one with unread mail | second reviver beside the watchdog; dispatches before it marks |
| inbox routing (`scratch_inbox.py`) | the `\Seen` flags on the server, `inbox_blocked.json` | `next`, `mark`, `unmark`, `defer`, the parsing of limit notices | the file of deferred mails is read and written without a lock, a minute apart; dates, zones, ends of months |
| one-shot handler (`scratch_inbox_handle.sh`) | a lock per agent, `defer_*.count` | tries, deferral to a limit's reset, bounded deferral of failures, dead letter | works on a mail that is already marked; races with the mark |
| gpu queue (`gpu_manager.py`, `submit_gpu.py`) | `gpu_queue/{pending,running,done}`, process groups | submit, claim, run, time out, publish, recover | a restart requeues what may still run; what a command started outlives it |
| case numbers (`scratch_case_seq.py`) | counter, uid links, reserved numbers, what the records hold | allocate, allocate for a uid, reserve, reseed | uniqueness across crashes, a lost file and numbers taken outside the lock |
| web cases and joint task forces (`scratch_web_case.py`, `scratch_jtf.py`) | `web_cases/{pending,done,failed}`, `jtf_requests/...` | number, spec, spawn, acknowledge, publish | a bridge killed after the spawn finds the record again |
| docket (`scratch_docket.py`) | one file per entry | save, pause, resume, cancel, `run_now`, `run_due`, schedule arithmetic | a slot is consumed in one file and its record dropped in another |
| records (`scratch_records.py`) | ledgers, logs, `precincts.json`, `.trash` | append, write, retract, register, delete, restore, purge | a directory moves while deputies append to it; entry and move are two writes |
| sheriff (`scratch_sheriff.py`, `scratch_sheriff_request.py`) | `requests/{pending,done,denied}`, tokens | requests, confirmations by mail, compaction, edits, purges | a state machine over mails, with a kill between any two writes |
| critic and judges (`scratch_critic.py`) | `critics.json`, prompts, round directories | install, add, change, retire; `review`, `status` | read-modify-write outside the lock; polls meet half-written verdicts; rounds shared by two reviews |
| model switch (`scratch_model_switch.py`) | lanes, `.switch`, relaunch script, sessions, seed | request, cancel, apply, restore the work lane | four writes per switch, and a deputy that exits on purpose among others that die |
| hybrid lanes (`scratch_hybrid.py`) | round directories | hand-off in rounds, writers | a call is killed or repeated while its writer goes on |
| field guide (`scratch_field_guide.py`) | lessons, `standing.json`, history | add a lesson, queue, claim, rewrite, commit | lessons keep coming while a model is at work on those before |
| subtasks (`scratch_subtask_wake.py`, `scratch_task_parent.py`) | - | one append to the parent's mailbox | not modelled by themselves: a delivery as in `Mailbox` |
| dashboard, setup, email, model table, snapshots, design | - | views, installation, I/O | the dashboard's writes are those of the docket, the case form and the task forces; the rest is not modelled |

How they interact. A worker submits a job and parks (`--sleep`: sentinel,
roster state `waiting_jobs`, sleep marker). When the job is over, jobmgr writes
a ticket and calls `scratch_interrupt_worker.sh` (or appends to the mailbox of
a live owner), which stamps every guard, kills, and starts the relaunch script;
that script drains the mailbox into the prompt. User mail takes the same
interrupt, or coalesces into a boot that has not drained yet. If a worker dies
instead, the watchdog classifies the death and relaunches it within a cap, and
the inbox loop relaunches any dead worker with unread mail.

Around them: the inbox loop takes the oldest unread mail, and gives it to a
deputy's mailbox, to the sheriff's confirmations, to a one-shot handler, or, when
it names a precinct, to `web_cases/pending`, from where the web bridge spawns a
deputy under a case number; the dashboard's form and the docket's runner drop
records into the same directory. A deputy closes its case by appending to its
precinct's records, which only the sheriff rewrites; before that it may ask for a
review by a judge, hand its report to a writer of the other service, or switch
its own model, which the watchdog applies once it is gone.

What makes each part correct: jobmgr - every job that asked for a wake is
reported, normally once, and a parked owner always has something that will wake
it; mail path - an accepted message is never lost and is eventually in front of
a claude; watchdog - a worker that works is supervised, one that died is revived
or given up aloud, a crash loop is bounded, a parked one is left alone, a
finished one is called finished only then; gpu queue - a job is in one of its
directories until its result is, and none holds up the others; case numbers - no
number is two cases', no mail or record gets two deputies; docket - a slot fires
once and the next one is the schedule's next; intake - a mail that nobody looks
at again has reached somebody, and is answered once; judges - the gate fails
closed and no review fails for want of a prompt; records and sheriff - what was
filed stays, and a precinct is deleted only on a YES; model switch - the lane on
file is what runs and a session keeps its turns; hybrid - the newest document is
handed over and READY is the writer's word; field guide - no lesson counts as
reviewed that no rewrite has seen.

## 2. Plan

1. `JobMgr` implementing `WakeService`, with proofs. *Done*, the safety part of the
   refinement among them.
2. `Mailbox`, with proofs. *Done.*
3. `Watchdog`, with proofs. *Done*, for any number of workers and every overlap of
   writers, but for the steps that section 5 names.
4. The services: `GpuQueue`, `CaseNumbers` with both bridges, `Docket`, `Intake`,
   `LimitNotice`. *Done, with proofs.*
5. The review machines: `ModelSwitch`, `Records` and `Sheriff`, `Judges`,
   `Hybrid`, `FieldGuide`. *Done, with proofs.*
6. Every safety invariant that a run checks as a theorem for all values of the
   constants. *Done*, `ServicesTypeOK`, the conjunction of the services' type
   invariants, among them.
7. What a daemon that is killed, a call that fails and writers that overlap leave
   true. *Done*: where a property can be lost, its theorem names the step that loses
   it, and holds of every behaviour without that step.
8. `Fleet`: the watchdog's and the inbox loop's relaunches against the mail
   path, with a worker killed by `relaunch()`'s `kill-session` and a host that
   crashes; abstract specification: a worker has at most one claude, and mail
   once accepted is read.

## 3. The modules

### WakeService

One phase per job: `new`, `inflight`, `due`, `handed`, or `refused` (the CLI
reported a failed dispatch to the submitter), or `closed` (no wake asked). A
handover may take several due jobs of one owner at once. Fairness: what is due
is handed over.

### JobMgr

`submit[j]` is the program counter of a `--submit` process, `work[j]` the job
itself, `pendingDir` ... `wakesDir` the directories, `marker`, `sentinel` and
`wstate` what parking writes, `pc` with `todo`, `owing`, `fin` and `call` the
daemon inside `tick()`. Every write of a file is a step of its own, so a crash
of the daemon (`DaemonCrash`) or of a submitter (`SubmitCrash`) can fall between
any two. `finish()` is `FinishPublish`, `FinishTicket`, `FinishUnlink`;
`deliver_owner_wakes` is `DeliverHold`, `DeliverWait`, or `DeliverCall` followed
by one outcome of the subprocess and its bookkeeping. The three ways a wake
subprocess fails are `CallRefused` (rc 1, nothing happened),
`InterruptUnverified` (rc 3, appended and killed) and `CallTimesOut`.

Abstractions: `sent` counts to two; gone-marks, backoffs and the orphan delay
are booleans that a step of the clock sets; the emails, `check_overdue`, the
alert after three failures and `--status` are left out; a hold is one step per
owner; the owner runs its submits and its sleep one after the other.

Assumptions of timing, each a guard: a claude that an interrupt has just
relaunched takes longer to boot and to run its first `--sleep` than the daemon to
unlink the tickets it has just delivered (`SleepCheck`; an owner that was alive
all along, and only had its mailbox appended to, may park at any moment of the
delivery); a dispatch takes at most 30 s, so only a crashed submitter leaves a
record in `pending/` for 120 s (`PendingAges`).

A live owner can read the appended message at a mailbox poll, finish, and call
`--sleep` before the ticket is unlinked. The check finds the ticket, and the owner
is parked on nothing, although `--sleep` tells it that it "will be woken almost
immediately" (`scratch_jobmgr.py:412-413`). `misled` remembers whose check found
only such a ticket (`ParksOnToldTicket`), and `ParkedHasAWaker` promises a waker to
everybody else.

### Mailbox

One worker. `Append`, `Coalesce`, `NoBootUnderWay`, `Splice`, `Stamp`, `Kill`,
`Start`, `StartFails` are `scratch_inbox_deliver.sh` and
`scratch_interrupt_worker.sh`; `Drain`, `Park`, `Launch`, `Exit` and `Deadman`
the generated relaunch script; `PollDrains` and `PollReturns`
`scratch_read_mailbox.sh`; `NoticeDead` and `Revive` the two auto-relaunchers,
whose decision and start are separate steps. What runs under the mailbox's
`flock` is one step.

Assumptions of timing: the two writes after a drain come before the splice of an
interrupter that starts a process first; a claude looks at its prompt within the
deadman's 180 s; one delivery at a time. `Races` names two windows that the
passing run closes and that are real: `"drain"`, a boot drains between the
splice and the kill of an interrupt, and `"poll"`, a claude is killed between
the drain of its poll and its output. The first is the finding of
`mailbox_drain_race`; the second loses mail in the same way. A reviver that
comes second loses in tmux here; the watchdog's `relaunch()` would kill the
first one's session instead, which `Watchdog` models and the fleet composition
will bring together. The theorems `CoalesceSafe` and `PromptCovered` hold under
both races; `MailKept` admits both and excludes their harmful steps only.

### Watchdog

`roster` is `watchdog_jobs.json`, `copy` the list a tick works on; a tick loads
it, handles its workers in any order, and saves it if anything changed. One
action per branch of `tick()`: `TickSwitches` and `TickAborts` (a pending model
switch), `TickSkips`, `TickReset`, `TickAlive`, `TickDone`, `TickLimit`,
`TickNoMarker`, `TickBacksOff`, `TickGivesUp`, `TickInterrupted`, and
`TickEmails` followed by `TickRelaunches`, because the email to the operator is
sent between the classification and the relaunch. The interrupt entrypoint is
three steps (stamps, kill, start), the unread-mail fallback two, parking two.

`age` stands for the time since `last_relaunch_ts` in the four ranges that the
code tells apart; `relaunched` saturates at the cap; `tail` is what the log
says of the latest run. The alarms and their bookkeeping fields are left out;
they may make the tick save an otherwise unchanged copy, which `TickEnd` allows.

`Races` again names what the passing run excludes: `"tick"`, another writer's
update of the roster falls into a tick and is undone by the tick's save;
`"start"`, a worker parks or finishes while an interrupt is between its stamps
and its kill. With either, `WorkingIsTracked` fails; both are listed as hazards.
With two workers it fails even without them, and so does `CapBoundsLoops`: the
exception of `TickAborts` in the handling of one worker drops the counts and
states of workers relaunched earlier in that tick. That is a consequence of the
finding of `watchdog_stubborn_switch`, so the passing run has one worker. The
theorems go further: they allow every overlap and any number of workers, and
name the single steps after which the properties fail (`NoStartLost`,
`NoCountLost`, `NoParkOverwritten`).

### The services

Each is a module of its own and shares no variable with the others, except that
`Sheriff` is built on `Records`. Each process of the code is a program counter;
a `flock`ed section is one step unless others change what it reads without the
lock; a process may be killed between any two steps (`ManagerDies`,
`BridgeDies`, `HandlerDies`, `DocketDies`, `LoopDies`, `SheriffDies`,
`ApplierDies`, `HandoffKilled`, `GuideSheriffDies`).

| module | state | actions |
|---|---|---|
| `GpuQueue` | the three directories, the manager's phase, `shells` and `tails` of each run | `SubmitGpu`, `Answer`, `GiveUp` are `submit_gpu.py`; `ManagerStart` is recovery and the first listing; `Claim`, `Launch`, `Quarantine`, `Waited`, `TimeOut`, `Publish`, `Unlink` the loop. `Exit` is a command that ends, with or without what it started |
| `CaseNumbers` | counter, links, reservations, `filed` numbers; the records of both bridges | `AllocateBegin`/`AllocateEnd` under the lock, for one number or for a batch of the command line (`Batches`), of which the first number alone is looked up; `Reserve` and `FileByUid` outside it; `UidBegin`, `UidLink` of a handler; `WebStep` and `JtfStep` go record by record through quarantine, number, spec, spawn, acknowledgement and publication |
| `Docket` | the entry, the clock, the pass under way | `Tick`; `RunDue` and `RunDueRecord` (the dropped record, then the entry), `RunDueInVain`; `Save`, `Pause`, `Resume`, `Cancel`, `RunNow`, `RunNowRecord`. `NextOccurrence` is `next_occurrence`, `CatchUp` its bounded repetition |
| `Intake` | flags, deferred mails, the loop and the handlers | `LoopSearch`, `LoopFetch` (`cmd_next`), `LoopConfirm`, `LoopDeliver`, `LoopHandler`, `LoopMark`; `HandlerRuns`, `HandlerSucceeds`, `HandlerTryFails` (a try that another one follows), `HandlerHitsLimit`, `HandlerFails` (the last try), `HandlerLockTimeout`, `HandlerUnmarks`. A claude that fails or meets a limit may have answered before |
| `LimitNotice` | a notice, the hour it is read, the result | `LimitParsed` is `parse_limit_notice` with its five forms |
| `Judges` | register, prompts, two editors that hold a stale register, round directories, critics, reviews | `SeedBegin`, `SeedWrite` of the installer; `Register`, `Update`, `Retire`, then `KeeperWrite`, of the sheriff; `ReviewBegin`, `ReviewSpawn`, `ReviewVerdict`, `ReviewError`; `Critic*` leave the json and the prose in any order, or one of them, torn or not at all; `Source` is which of the two the verdict is read from |
| `Records` | `precincts.json`, a directory per precinct with the locks in it, the trash, each case's deputy and its append | `TakesCase`, `AppendOpen`, `AppendRead`, `AppendWrite`, `AppendFails` of the deputies, and the pieces the sheriff composes: `LedgerWrite`, `LogRead`/`LogWrite`, `DirectoryRegister`, `DeleteMove`/`DeleteEntry`, `RestoreMove`/`RestoreEntry`, `PurgeTrash`/`PurgeEntry` |
| `Sheriff` | queue, tokens, the step the daemon is at | `Submit`, `RequestDenied`, `RequestApproved` with `Perform`, `BeginConfirmation`, then `RestoreEnds`, `RequestFiled`, `RequestUnlinked`; `UserReplies`, `ConfirmYes`, `ConfirmCancel`, `DeleteEnds`, `ConfirmEnds`; `Compact` or `ApplyEdit`, then `Rewrite`; `Retract`, `RetractEnds`; `Purge`, `PurgeEnds` |
| `ModelSwitch` | lanes, `.switch`, script, codex session, transcripts, the deputy, the applier | `DoesATurn`, `AsksToSwitch` (any target, with any lane or none), `CancelsSwitch`, `LeavesRun`, `WrapperKilled`; `RevivedBy` the watchdog, the inbox loop or an interrupt; `WatchdogApplies`, `InboxRestores`, then `RewritesScript` or `WritesSeed`, `SetsCodexAside`, `Regenerates` (`RegenerateFails`), then `WritesLane`, `EndsSwitch`, `RelaunchesSwitched` |
| `Hybrid` | per round the two files and the writer; the call | `HandoffBegins`, `RoundSpawns`, then `RoundAnswered` or `RoundFails`, which end in `RoundEnds`: a next round for queries, whatever the status, or the end of the call; a writer leaves its files in any order, torn or not at all |
| `FieldGuide` | lessons, cursor, claim, request, the rewrite under way | `AddLesson`, `QueueRewrite`, `RequestedRewrite`, `AutomaticRewrite`, `ModelReturns`, `Commit`, `Defers`, `RecordsRewrite`, `CompletesRequest`, `ClaimAges`, `ClearStale` |

Outside `src/` and marked external: the clock, what an agent CLI does in a turn,
and what writers and critics leave in their directories.

Some of what the code does here disagrees with the impression a reader may get of
it. The properties say what does hold; the exceptions in them are these.

- GPU queue: a manager that is killed leaves its command running in a group of
  its own, puts the job back when it restarts, and runs it a second time beside
  the first; a process that survives SIGTERM runs beside the next job.
  `gpu_manager.py:6` says one job at a time.
- Case numbers: a counter rebuilt after its file was lost starts from what the
  records hold, so a number allocated and not yet filed is given again
  (`counterLost` in `OneHolder`). A batch looks up its first number only and runs
  over a number that is reserved or filed (`SpokenForIsSkipped` is of the first
  number), though the docstring of `allocate` says it never would.
- Web bridge: a bridge killed between the spawn and the acknowledgement spawns a
  second deputy for a record without a number (`bridgeDeaths` in
  `RecordHasOneDeputy`).
- Docket: a run by hand advances a stale entry by at most 500 occurrences, so an
  hourly entry that slept for more is still in the past after it (`FiredInTime` in
  the theorem). A runner killed between the record
  and the entry fires the slot again (`docketDeaths` in `SlotFiredOnce`).
- Intake: a handler that defers a mail before the loop marks it is undone by the
  mark (`"late_mark"`); an answer whose text speaks of a limit counts as a limit
  (`aboutLimits`); a claude that mailed its answer and then fails or meets a limit
  is run again, and answers again (`"relapse"` in `AnsweredOnce`); `next` writes
  back the deferred mails it read before its fetch, which drops one that was
  deferred meanwhile, so that it is merely looked at sooner.
- Judges: of two overlapping changes of the register one is lost; two reviews of
  the same round read each other's verdict; `status` keeps a round signed off that
  a later review of the same number would revise. Without a json that can be read
  the headline of the prose is the verdict and the list of must-fix items is empty,
  so a reservation in the prose is not seen (`Source` in `SignOffIsTheJudges`), though
  the comment in `parse_verdict` says that a sign-off with must-fix items is a REVISE.
- Records: the lock of a ledger or a log lies in the precinct's directory, and
  goes to the trash with it. An append that was under way then writes what it read
  to the directory that the next append made anew, over the line of that one
  (`disturbed` and `astray` in `FiledIsKept`), though `log_remove` calls the log
  append-only but for itself.
  A restore is refused when a journal entry made the directory anew; a
  compaction writes over paragraphs appended since it read, which count as folded
  (`removed`); whether a precinct has active cases is asked at the request and not
  again at the YES.
- Model switch: a switch that was cut short and is then asked for anew, cancelled,
  or applied again in vain leaves the script where it was brought, and the lanes
  file does not say so; nor does it when the switch names a lane that is not the
  target's (`strayed` in `LaneIsWhatRuns`). A cut-short switch across services that
  is applied again regenerates the script once more and sets aside the codex
  session the deputy has had meanwhile; what was said in it is left behind, and so
  are the turns of a deputy that somebody started while the switch was applied
  (`carried` begins again, `outrun`). The nudges of the wrapper, and a file write
  that fails within `apply()`, are left out; the generator may fail. One applies at
  a time: two would need a deputy that is started and closes its case, or asks
  anew, within the second that an apply takes.
- Hybrid: a READY without a document ends the call READY with an earlier round's
  document, or the draft, as the report (`ReadyIsTheWriters` promises the round's
  document only if there is one). A poll that finds the document before
  `response.json` takes the answer for malformed and asks the deputy; only the other
  order has a grace period.
- Limit notices: a date without a year that is past is next year's.

## 4. What TLC checks

| run | instance | shows |
|---|---|---|
| `jobmgr_safety` | a submitted job and an adopted one of one owner, one limit, one refused or timed-out call, parking at any moment of an append; 947 thousand states | `NoLostWake`, `ParkedHasAWaker`, `ReportedOnce` |
| `jobmgr_crash` | one job, one daemon crash, one unverified relaunch | `NeverForgotten`, `StrandedIsAlerted` |
| `jobmgr_live` | one job, one limit, two failures of any kind | `FinishedIsReported`; `JobMgr` implements `WakeService` |
| `mailbox` | a user mail, an interrupt and a relay, four nonces | `NoMailLost`, `BlobCoversPrompt`, `CoalescedRidesTheBoot`, `EveryMessageIsSeen` |
| `watchdog` | one worker, cap 2, two silent polls | `WorkingIsTracked`, `ParkedIsHonest`, `CapBoundsLoops`, `UnfinishedIsRevived`, `SwitchHonoured` |
| `services` | the ten services, one in each behaviour; 916 thousand states | the table below |
| `records_and_switch` | the two services with most to interleave, larger, one in each behaviour; 5 million states. The sheriff: one precinct, two cases, requests to delete, to restore and to retract a line, of which two are made, one token, one place in the trash, one death. The switch: a split within a service and one across, any target with any lane, one turn, three sessions, two faults | `FiledIsKept`, `LaneIsWhatRuns`, `SessionIsKept` |

`services` is a disjoint sum: `service` names the one service that a behaviour is
of, and the variables of the others stay at an initial value (`Fixed` chooses
one where there are several). No service reads another's variables, so the sum
has exactly the behaviours of the ten specifications, and each property speaks of
the variables of its own service.

| service | properties | instance |
|---|---|---|
| GPU queue | `GpuJobKept`, `GpuServed` | two jobs, one of them not runnable, the manager killed once |
| case numbers | `OneHolder`, `SpokenForIsSkipped`, `UidHasOneCase`, `RecordHasOneDeputy` | two handlers of one mail; a handler and a form; a task force with a repeated deputy; a malformed form and a task force without slots; a batch of three beside a form; one number taken from outside, one death |
| docket | `SlotFiredOnce`, `NextRunIsTheNextSlot` | an entry of each of the five frequencies; months of 3 and 2 days, weeks of 3, days of 2 hours of 2 ticks, 13 ticks; two operations by hand, one death, a grace of 5 ticks |
| intake | `MailKept`, `AnsweredOnce` | a stranger's mail, an empty one, one each for a legacy deputy, a confirmation, a deputy that ended and a live precinct, one whose answer speaks of limits; two handlers, one deferral, one fault of any kind, a relapse among them |
| limit notices | `LimitReset` | every form of notice at every hour of a year of two months of three days of four hours, a zone on either side of the host's |
| judges | `JudgeHasAPrompt`, `SignOffIsTheJudges` | a packaged judge and one that is added, two reviews that overlap, two rounds, two changes of the register, one death |
| records and sheriff | `DeletedOnYes` | one precinct where nobody files, one request of each of six kinds of which two are made, two tokens, two places in the trash, one death |
| model switch | types only | the report on the other service, one turn, two sessions, no fault |
| hybrid | `NewestReportIsHandedOver`, `ReadyIsTheWriters` | a plain file, a hand-off of two rounds, its continuation; one kill |
| field guide | `LessonsAreReviewed` | two categories, three lessons, a threshold of two, two requests, one fault |

Bounds. For the services: one death splits any two writes, and the retry after it
meets what the first attempt left; two requests are what it takes to delete a
precinct and restore or recreate it; two overlapping reviews and two handlers are
what shares a round or a lock; two appends are what overwrites a line, and two
faults what cuts a switch short and then its repetition, or kills the codex deputy
that was started in between; the small calendar has every boundary of the real
one (the end of an hour, day, week, month and year, a month too short for its
day) within reach. The horizon lets the docket fire, sleep past its grace and
be re-armed by hand. Two jobs of one owner are what a batch, a joined ticket and a second
park need; owners meet only in the daemon's sequential loop. One crash or
failure at each point is enough to separate any two writes, and `jobmgr_live`
allows two so that a retry fails as well. Three messages let one be in flight,
one interrupt it and one arrive besides; four nonces let an old deadman, a dead
boot and two newer boots coexist. A cap of 2 has a first, a last and a refused
relaunch, and the two shortest backoffs.

Five runs end in a violation; each is a disagreement between the code and its
own words.

| run | property | what happens |
|---|---|---|
| `jobmgr_crashed_finish` | `NoLostWake` | a daemon killed between the publication of `done/` and the ticket loses the wake, because the next tick's dedupe removes the record; `StrandedIsAlerted` is what is left |
| `mailbox_drain_race` | `NoMailLost` | splice before kill: mail drained in between dies with its boot and waits in a blob that nobody reads until the next interrupt, if that comes within 600 s |
| `watchdog_stubborn_switch` | `SwitchHonoured` | `agent_alive_nonzombie` does not exist, so a worker that asked for a switch and stays is never killed and every tick ends in an exception |
| `watchdog_stale_sentinel` | `DoneIsEarned` | the unread-mail branch revives a finished deputy without removing its sentinel |
| `model_switch_context` | `ContextIsCarried` | a switch to the other service renders the turns so far into a seed, which nothing reads: the new session starts from the launch prompt |

Fairness. The daemons' loops go on (`WF` of the daemon's step, of the tick's
step); clocks pass; a process that has begun a fixed sequence continues; the
revivers come round. Strong fairness is used only where an action needs a
moment that comes back again and again without lasting: a tick that finds a
grace period over, a tick of the watchdog between two starts, the drain of a
boot that may die but not for ever, an agent's mailbox checkpoint. No agent is
forced to submit, park, finish or die; a deputy that asked for a switch is
assumed to exit, as it is told to, except in `watchdog_stubborn_switch`. Of the
services only the GPU queue promises progress: the manager's loop goes on
(`ManagerStep`) while it is not killed, and a command ends, by itself or by its
time-out (`Exit`). The other services are safe without any fairness; they run
when somebody calls them.

`services` allows deadlock: a hand-off, a review or a workload that is over leaves
nothing to do, and the bounds end the others. Jobs submitted with
`--no-wake` are in `JobMgr` and in its theorems, but in no TLC instance.

## 5. What is proved

For all values of the constants, by TLAPS.

- `TypeCorrect` of `JobMgr`, of `Mailbox` and of `Watchdog`: the type invariants.
- `NothingForgotten`: `NeverForgotten`, with crashes anywhere. By the inductive
  invariant `FiledInv`: what `finish()` has in hand is in its source directory
  until it is published, and a submitter past its promotion has its running
  record or a published one.
- `WakesKept`: `NoLostWake`, however often the daemon is killed and calls fail, in
  the behaviours without two steps (`NoWakeLost`): `CrashLosesWake`, a death of the
  daemon between `done/` and the ticket of a job that nothing else knows of, and
  `RetryLosesWake`, a retry without a new message that a new ticket has joined.
  The first is the last step of the violation run `jobmgr_crashed_finish`. The second
  takes two jobs and an unverified relaunch, which `jobmgr_safety` leaves out for that
  reason: the retry sends no message and unlinks the ticket that has joined. By
  `WakeInv`: the job between its publication and its ticket is the one in `fin`, and
  the call in progress reports all tickets it will unlink.
- `ReportsAreSingle`: `ReportedOnce`, which asks for nothing but itself speaks only
  of behaviours without a crash or a failed call so far. By `OnceInv`, over
  `RecordInv`: the record of a job that has been told is gone but for the unlink
  under way, so nobody makes a second ticket, and a ticket that was reported is
  there only until it is settled. Crashes and faults are counted, so
  "none so far" holds of every earlier state too, and the invariant is needed only
  there.
- `SleepersHaveAWaker`: `ParkedHasAWaker` under the condition of `WakesKept`. By
  `SleepInv`: from the check of `--sleep` on, an owner that does not submit and is
  not `misled` has a record, a ticket or mail; a record goes when its ticket is
  there, a ticket when its message is in the mailbox, and while tickets are unlinked
  such an owner has more than them to wake it.
- `NobodyIsForgotten`: `NobodyParksForNothing`, which has no exception, in the
  behaviours that also avoid one step of an owner (`NoToldTicketTrusted`), a
  `--sleep` that finds only the ticket of a message just appended. Nobody else is
  ever misled.
- `ImplementsSafely`: `Service!Safety` under the same condition, that is, each
  initial state of `JobMgr` maps to one of `WakeService`, and each step to a step or
  a stutter. By `RecordInv`, which says in what directories a job is at each stage of
  its submission. Fairness is left to `jobmgr_live`.
- `PromptCovered`: `BlobCoversPrompt`, under every race. By `PromptInv`: what a boot
  holds is covered by the blob that carries its nonce, and a pane without a session
  holds nothing.
- `MailKept`: `NoMailLost` in the behaviours without two steps (`NoMailRace`):
  `DrainBeforeKill`, a boot drains mail that nobody has seen while an interrupt is
  between its splice and its kill, which is what `mailbox_drain_race` does, and
  `KillDuringPoll`, a kill hits a claude whose poll has drained the mailbox and not
  returned. By `MailInv`: an interrupter past its splice has the pane empty handed,
  its mail in the mailbox again, or read (`KillIsHarmless`).
- `CoalesceSafe`: `CoalescedRidesTheBoot` under any races. By `CoalesceInv`: a
  marker means that a boot is coming or has not drained.
- `ParkedKept`: `ParkedIsHonest`, for any number of workers and all overlaps, in the
  behaviours without two steps (`NoParkOverwritten`): a worker parks under a tick
  whose copy says something else, which the tick then writes over it, and the inbox
  loop stamps "running" on a worker that was started, and parked, since the loop
  noticed it. By `ParkInv`: while a worker is parked its entry says `waiting_jobs`
  in the file and, during a tick, in the copy that the tick will write over the file.
- `RunningIsSupervised`: `WorkingIsTracked`, for any number of workers and all
  overlaps, in the behaviours without four steps (`NoStartLost`): an interrupt or a
  revival writes "running" under a tick whose copy says otherwise; a tick classifies
  (done, limit, failed) a worker that an interrupt has killed and not yet started; a
  worker parks between the stamps of an interrupt and its kill; a tick that has
  changed its copy is aborted. By `TrackInv`: whoever is being interrupted, or runs
  and has not finished, has an entry that says "running", in the copy during a tick
  and in the file unless a tick has changed its copy; a parking worker has touched its
  sentinel, or an interrupt has removed that and is about to kill it.
- `LoopsAreBounded`: `CapBoundsLoops`, of which only two steps can make an end
  (`NoCountLost`): an interrupt or a revival begins under a tick in whose copy the
  worker looks as old as one that survived, and again the abort of a tick that has
  changed its copy. By `CountInv`: no entry counts fewer relaunches than there were,
  and one that looks old is of a worker that nobody is about to start and that, if it
  runs, has survived.
- `AloneIsSupervised`: all three of a single worker whose writers do not overlap
  (`Races = {}`), with no condition on the steps: such a worker is never stamped under
  a tick or parked under an interrupt (`Apart`), and a tick with something changed has
  dealt with somebody (`FirstOfTick`), and there is nobody else. This is the instance
  of the `watchdog` run.
- `JobsKept`: `GpuJobKept`, with a manager killed anywhere. By `GpuInv`: what the
  manager waits for has been started, so that what it publishes is a result, and
  what it unlinks from `running/` has its result in `done/`.
- `NumbersAreUnique`, `ReservedIsSkipped`: `OneHolder` and `SpokenForIsSkipped`.
  By `SeqInv`: a caller in the lock has found a first number that is not below the
  counter and that nobody has spoken for, and all numbers given out are below the
  counter, unless its file was lost; its batch lies between. So a number that was
  spoken for is only ever handed out inside a batch, by a caller that began below it.
  A number that is reserved or filed while the
  allocator is about to return it is not one that was reserved before.
- `MailHasOneCase`: `UidHasOneCase`. By `UidInv`: who holds the lock of the links
  works on a mail without a number, and who is past it has the number on file;
  only a handler in that lock is inside the allocator.
- `OneDeputyEach`: `RecordHasOneDeputy`. By `DeputyInv`, over both of these: the
  deputies of a record are counted against the bridge's deaths. A record with a mail
  has one link and all its deputies carry that number; a form has one deputy for
  each time the bridge spawned, and a respawn has spent a death.
- `NoMailForgotten`: `MailKept`. By `KeptInv`: the loop dispatches before it
  marks, so what it is about to mark has been dispatched, and its handler is at
  work or has brought it to an end; handlers work on mails that exist.
- `EveryMailOnce`: `AnsweredOnce`. By `TokenInv`: a mail has one token, and one more
  for every time the loop could not mark it or was killed over it, or a claude that
  had answered it failed and is run again; the token is with
  the unread mail or with its one handler, or an answer has used it up.
- `SlotsFireOnce`: `SlotFiredOnce`, for every calendar and set of schedules. By
  `FiredInv`: the slot fired last is not after the time of the pass that holds the
  lock, so re-arming moves past it, and an entry that still shows it (`Stale`) has
  been paid for by the runner's death; a run by hand only moves on
  (`CatchUpMovesOn`).
- `NextIsNext`: `NextRunIsTheNextSlot`, for every calendar and schedule, in the
  behaviours in which no entry is run by hand more than `MaxCatchupSteps` hours after
  the slot it shows (`FiredInTime`; the number of steps is the code's bound, and
  slots are an hour apart at least). It rests on `OccurrenceIsNext`: for all five
  frequencies the next occurrence is the first slot after the given time, a month
  too short for the day included, and on `CatchUpIsNext`, the same of the repetition.
- `WaitsEndInTime`: `LimitReset`, for every calendar, zone and notice. `ClockIsFirst`
  and `DateIsFirst` say that the hour and the date of a notice are the first ones to
  come: a date is a phase of the year (`YearPhase`), and it is past when it comes
  before the day (`PastIsBefore`).
- `JudgesHavePrompts`: `JudgeHasAPrompt`. By `PromptsFirst`: a judge without a prompt
  is neither in the register nor in the one that the installer or the sheriff is
  about to write, however stale that is.
- `GateFailsClosed`: `SignOffIsTheJudges`. By `ReviewInv`: what lies in a
  round, whole, is in `judged`, what its critics think (`WordsAreJudged`); no file
  makes more of it than its critic, but the prose, which drops a reservation; a
  result keeps the source it was read from, and words are never taken back.
- `NothingFiledIsLost`: `FiledIsKept`. By `LawInv`: a directory that is not there is
  empty, a deletion takes a new place in the trash, a restore finds nothing in its
  place, so no move overwrites a directory; each directory ever made has a lock of its
  own, and of the appends that no move disturbed one at most has read a file, which
  still is what it read, so that it writes over nothing. Its step is split: each step of the
  sheriff is one of the moves of the records (`RecordMove`) with what the move needs,
  and each move keeps `RecordInv`.
- `DeletionsArePaidFor`: `DeletedOnYes`. By `DeletionInv`: each deletion of a precinct
  has a token of that precinct with a YES of the user, and only a death between the
  entry and the end of the token lets one serve twice.
- `LanesAreRight`: `LaneIsWhatRuns`. By `LaneInv`: until the script is repointed the
  lanes file says what runs, and from then on the applier's record does
  (`WhatRuns`); what it has in hand was on disk when it began (`InHand`), and may have been
  replaced or dropped since. A switch that was cut short is on disk as "applying",
  and is applied again or has strayed.
- `SessionsAreKept`: `SessionIsKept`. By `SessionInv`: the session that a relaunch
  would resume knows the turns since the script was last regenerated or its session set
  aside, or there are none; a deputy that runs while that happens is `outrun`, and its
  turns do not count.
- `NewestIsHandedOver`, `ReadyIsEarned`: `NewestReportIsHandedOver` and
  `ReadyIsTheWriters`. By `HandoffInv`: the last good round of a call is the newest of
  those that it ended with a document, all before its present one. A READY is the last
  writer's word; its document is handed over with it if there is one.
- `LessonsReviewed`: `LessonsAreReviewed`. By `GuideInv`: a rewrite has in its
  prompt all lessons from the cursor to its own last one, which stays so while
  lessons are added, and the cursor moves under no rewrite since there is one
  sheriff.

- `ServicesHaveTypes`: `ServicesTypeOK`, of all services side by side. By
  `ServicesInv`, the conjunction of the invariants above with one for the bounds of
  each service. The types alone are not inductive: that a slot, a fault, a round or a
  lesson stays within its range is a count of what happened against the bound on it,
  and that no process holds a record it does not have rests on the services' own
  invariants. The step of one service keeps its part and leaves the others' variables
  alone.

The other theorems about a service are about the service alone, `services` checks the
same formulas in the product with the others; no service shares a variable with
another. Their specifications have no fairness, as safety needs none.

Some theorems have a condition on the behaviour: `[][NoWakeLost]_vars`,
`[][NoMailRace]_vars`, `[][NoParkOverwritten]_vars`, `[][NoStartLost]_vars`,
`[][NoCountLost]_vars`, `[][NoToldTicketTrusted]_vars` and
`[][FiredInTime]_docketVars`. Each names single steps that
the code can take, by the action and the state before it, and says nothing of the state
after it. None is there for the proof's sake: of each step of the job manager, of the
mail path and of the watchdog TLC finds a behaviour that takes it and no other of its
list and violates `NoLostWake`, `NobodyParksForNothing`, `NoMailLost`, `ParkedIsHonest`,
`WorkingIsTracked` or `CapBoundsLoops`, with one worker, or with two for the abort
of a tick.

Induction. TLAPS cannot apply the library's induction theorems, which take a
predicate as a parameter. `CalendarProofs` gets by without: by `WFMin` a set of
numbers has a least element, so a set of numbers with 0 and all successors is `Nat`
(`SetInduction`), and a function that is defined by recursion is what its equation
says (`UnfoldsOnPrefix`, `UnfoldsOnNat`). That gives the starts of the months and the
bounded repetition of `CatchUp`, which are recursive functions, no RECURSIVE operators.

The assumptions are those named in the modules, which TLC evaluates in the runs:
`JobMgrAssumption`, `MailboxAssumption`, `WatchdogAssumption` (the markers for no job,
owner, boot, message or worker are none of them, and the constants are of their kinds);
`IntakeAssumption` (mails are positive numbers, handlers numbers); `CasesAssumption` (the
callers of the allocator are told apart, no form has the id of a mail, each handler's
mail exists, and a batch has a number at least) and `CaseBoundsAssumption` (a task
force that is well formed has a lead, and numbers taken from outside are numbers);
`GpuAssumption` (a job is a positive stamp); `GuideAssumption` and
`DefersAssumption` (bounds are numbers); `RecordsAssumption` (there is a precinct
and every case belongs to one); `LawAssumption` (requests have positive numbers, are
about a precinct and of one of the six kinds); `JudgesAssumption` (the packaged
judges and the default one are judges, each review names a judge and a round);
`SwAssumption` (there is a split, each with a work and a report lane that name a
service and a model, and a session at least); `HybridAssumption` (a call begins at a
positive round and stays within `MaxWriterRounds`); `DocketAssumption` (units of
time are positive, months have a day at least, an entry has the fields of its
frequency in the ranges that `validate()` allows); `LimitAssumption` (units
positive, no zone a day or more from UTC, and no clock in the first day of the
calendar, so that no local time is before it).

What the proofs showed about the model. `WakeService` closed silent jobs one at a
time, but the dedupe of a tick drops the records of several at once; `Close` is of a
set now. The phase of a job without a wake was a `CASE` with two guards that could
both be true, and so was the reading of a writer's answer in `Hybrid`; both are
chains of `IF` now, in the order of the code. `Intake` counted a fault that happened
twice to one mail once, and with two faults `AnsweredOnce` failed for that reason;
faults are numbered now. The months of `Docket` were a table up to the horizon, and
are a function of every number now.

Only model-checked: liveness (`FinishedIsReported`, `StrandedIsAlerted`,
`EveryMessageIsSeen`, `UnfinishedIsRevived`, `SwitchHonoured`, `GpuServed`) and the
fairness of `ImplementsWakeService`, since TLAPS does not reason about `ENABLED` or
fairness. Every safety invariant of a passing run is a theorem.

## 6. Not modelled

- Subtasks (`scratch_subtask_wake.py`, `scratch_task_parent.py`): one append to
  the parent's mailbox, which is a delivery as in `Mailbox`, and lines stamped into
  a task's file; they keep no state that another part waits for.
- The dashboard's pages, its sessions and the state it collects: they read. What it
  writes is in `CaseNumbers` and `Docket`.
- Spawn, setup, start and stop, snapshots, process helpers: process plumbing. What
  a spawn leaves behind is the initial state of `Watchdog`.
- Email and IMAP as protocols, the table of models, the rendered views, the design
  document.
- Of the modelled components: prompts, texts and their parsing beyond what a
  property needs, logs, alarms and reports, receipts and acknowledgements, the
  attachments of mails, what `validate()` says of an entry's lanes and slots, the
  back-off of compaction, the retired band of case numbers, summer time and leap
  days.

Language-model output is a nondeterministic choice, of the worker, the critic, the
writer or the sheriff's model. Files are written atomically (the code uses a
temporary file and a rename, except for `watchdog_jobs.json`, which is rewritten in
place: a torn read makes `load()` return an empty list for one tick, and makes an
interrupt skip its stamp of the roster; and except for what agents write
themselves, whose halves `Judges` and `Hybrid` model).
