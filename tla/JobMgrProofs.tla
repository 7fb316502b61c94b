--------------------------- MODULE JobMgrProofs ---------------------------
(* Proofs about JobMgr, for every set of jobs and owners and every bound.  *)
EXTENDS JobMgr, TLAPS

USE JobMgrAssumption DEF JobMgrAssumption

\* A message reports jobs, and counting it keeps the counters in range.
LEMMA MessageTypes ==
    ASSUME TypeOK, SendBody
    PROVE  /\ sent' \in [Jobs -> 0..2]
           /\ [mail EXCEPT ![call.owner] = @ \cup Body]
                    \in [Owners -> SUBSET Jobs]
<1>1. \A n \in 0..2 : Count(n) \in 0..2
  BY DEF Count
<1>2. sent' \in [Jobs -> 0..2]
  BY <1>1 DEF TypeOK, SendBody
<1>3. call.owner \in Owners => Body \subseteq Jobs
  BY DEF TypeOK, Body
<1>4. [mail EXCEPT ![call.owner] = @ \cup Body] \in [Owners -> SUBSET Jobs]
  BY <1>3 DEF TypeOK
<1> QED BY <1>2, <1>4

\* The empty directories, the idle daemon and the running owners have their
\* types.
LEMMA TypeInit == Init => TypeOK
<1> SUFFICES ASSUME Init PROVE TypeOK
  OBVIOUS
<1>1. fin \in Finishes /\ call \in Calls
  BY DEF Init, Finishes, NoFin, Calls, NoCall
<1>2. /\ sent \in [Jobs -> 0..2]
      /\ crashes \in 0..MaxCrash /\ faults \in 0..MaxFault
      /\ limits \in 0..MaxLimit
  BY DEF Init
<1> QED
  BY <1>1, <1>2 DEF Init, TypeOK, SubmitStates, WorkStates, SleepStates,
                    MarkerStates, DaemonStates

\* One step per action: each primed variable is built from typed parts.
LEMMA TypeStep == TypeOK /\ [Next]_vars => TypeOK'
<1> SUFFICES ASSUME TypeOK, [Next]_vars PROVE TypeOK'
  OBVIOUS
<1> USE DEF TypeOK, SubmitStates, WorkStates, SleepStates, MarkerStates,
            DaemonStates
<1> USE DEF submitVars, recordVars, ticketVars, ownerVars, daemonVars,
            faultVars
<1>1. ASSUME NEW j \in Jobs, SubmitStep(j) PROVE TypeOK'
  <2>1. CASE SubmitPending(j) BY <2>1 DEF SubmitPending
  <2>2. CASE SubmitDispatch(j) BY <2>2 DEF SubmitDispatch
  <2>3. CASE SubmitDispatchFails(j) BY <2>3 DEF SubmitDispatchFails
  <2>4. CASE SubmitPromote(j) BY <2>4 DEF SubmitPromote
  <2>5. CASE SubmitExit(j) BY <2>5 DEF SubmitExit, Promoted
  <2>6. CASE SubmitCrash(j) BY <2>6 DEF SubmitCrash
  <2>7. CASE PendingAges(j) BY <2>7 DEF PendingAges
  <2>8. CASE Adopt(j) BY <2>8 DEF Adopt
  <2>9. CASE WorkFinishes(j) BY <2>9 DEF WorkFinishes
  <2>10. CASE WorkVanishes(j) BY <2>10 DEF WorkVanishes
  <2> QED BY <1>1, <2>1, <2>2, <2>3, <2>4, <2>5, <2>6, <2>7, <2>8, <2>9,
             <2>10 DEF SubmitStep
<1>2. ASSUME NEW o \in Owners, OwnerStep(o) PROVE TypeOK'
  <2>1. CASE SleepCheck(o) BY <2>1 DEF SleepCheck, MayPark
  <2>2. CASE SleepTouch(o) BY <2>2 DEF SleepTouch
  <2>3. CASE SleepSetState(o) BY <2>3 DEF SleepSetState
  <2>4. CASE SleepMark(o) BY <2>4 DEF SleepMark
  <2>5. CASE EndTurn(o) BY <2>5 DEF EndTurn
  <2>6. CASE OwnerDies(o) BY <2>6 DEF OwnerDies
  <2>7. CASE ReadMailbox(o) BY <2>7 DEF ReadMailbox
  <2>8. CASE WatchdogRevives(o) BY <2>8 DEF WatchdogRevives, Boot
  <2>9. CASE InboxRevives(o) BY <2>9 DEF InboxRevives, Boot
  <2> QED BY <1>2, <2>1, <2>2, <2>3, <2>4, <2>5, <2>6, <2>7, <2>8, <2>9
          DEF OwnerStep
<1>3. ASSUME FinishStep PROVE TypeOK'
  <2>1. CASE FinishPublish BY <2>1 DEF FinishPublish, Finishes
  <2>2. CASE FinishTicket BY <2>2 DEF FinishTicket, NewTicket, Finishes
  <2>3. CASE FinishUnlink BY <2>3 DEF FinishUnlink, Finishes, NoFin
  <2> QED BY <1>3, <2>1, <2>2, <2>3 DEF FinishStep
<1>4. ASSUME CheckStep PROVE TypeOK'
  <2>1. CASE TickStart BY <2>1 DEF TickStart
  <2>2. CASE TickListRunning BY <2>2 DEF TickListRunning
  <2>3. CASE TickListWakes BY <2>3 DEF TickListWakes, OwnersDue
  <2>4. ASSUME NEW j \in Jobs, TickOrphan(j) PROVE TypeOK'
    BY <2>4 DEF TickOrphan, BeginFinish, Finishes
  <2>5. ASSUME NEW j \in Jobs, CheckFinished(j) PROVE TypeOK'
    BY <2>5 DEF CheckFinished, BeginFinish, Finishes
  <2>6. ASSUME NEW j \in Jobs, CheckWaits(j) PROVE TypeOK'
    BY <2>6 DEF CheckWaits
  <2>7. ASSUME NEW j \in Jobs, CheckGone(j) PROVE TypeOK'
    BY <2>7 DEF CheckGone, BeginFinish, Finishes
  <2> QED BY <1>4, <2>1, <2>2, <2>3, <2>4, <2>5, <2>6, <2>7 DEF CheckStep
<1>5. ASSUME DeliverStep PROVE TypeOK'
  <2>1. ASSUME NEW o \in Owners, DeliverHold(o) PROVE TypeOK'
    BY <2>1 DEF DeliverHold, Tickets
  <2>2. ASSUME NEW o \in Owners, DeliverWait(o) PROVE TypeOK'
    BY <2>2 DEF DeliverWait
  <2>3. ASSUME NEW o \in Owners, DeliverCall(o) PROVE TypeOK'
    BY <2>3 DEF DeliverCall, Calls, Tickets
  <2>4. CASE InterruptSucceeds
    BY <2>4, MessageTypes DEF InterruptSucceeds, Boot
  <2>5. CASE AppendSucceeds
    BY <2>5, MessageTypes DEF AppendSucceeds
  <2>6. ASSUME NEW j \in Jobs, SettleTicket(j) PROVE TypeOK'
    BY <2>6 DEF SettleTicket
  <2>7. CASE SettleMarker BY <2>7 DEF SettleMarker, AllSettled, Calls, NoCall
  <2> QED BY <1>5, <2>1, <2>2, <2>3, <2>4, <2>5, <2>6, <2>7 DEF DeliverStep
<1>6. ASSUME CallFault PROVE TypeOK'
  <2> USE DEF CallFailed, Calls, NoCall, Tickets
  <2>1. CASE CallRefused BY <2>1 DEF CallRefused
  <2>2. CASE InterruptUnverified
    BY <2>2, MessageTypes DEF InterruptUnverified, KilledWithMail
  <2>3. CASE CallTimesOut
    BY <2>3, MessageTypes DEF CallTimesOut, KilledWithMail
  <2> QED BY <1>6, <2>1, <2>2, <2>3 DEF CallFault
<1>7. ASSUME StaleStep PROVE TypeOK'
  <2>1. CASE TickListSleepers BY <2>1 DEF TickListSleepers, Sleepers
  <2>2. CASE TickEnd BY <2>2 DEF TickEnd
  <2>3. CASE DaemonRestart BY <2>3 DEF DaemonRestart
  <2>4. ASSUME NEW o \in Owners, StaleWaits(o) PROVE TypeOK'
    BY <2>4 DEF StaleWaits
  <2>5. ASSUME NEW o \in Owners, StaleAlerts(o) PROVE TypeOK'
    BY <2>5 DEF StaleAlerts
  <2> QED BY <1>7, <2>1, <2>2, <2>3, <2>4, <2>5 DEF StaleStep
<1>8. ASSUME Environment PROVE TypeOK'
  <2>1. CASE LimitStrikes BY <2>1 DEF LimitStrikes
  <2>2. CASE LimitResets BY <2>2 DEF LimitResets
  <2>3. ASSUME NEW j \in Jobs, BackoffElapses(j) PROVE TypeOK'
    BY <2>3 DEF BackoffElapses
  <2>4. CASE DaemonCrash
    BY <2>4 DEF DaemonCrash, Finishes, NoFin, Calls, NoCall
  <2> QED BY <1>8, <1>6, <2>1, <2>2, <2>3, <2>4 DEF Environment
<1>9. CASE UNCHANGED vars BY <1>9 DEF vars
<1> QED BY <1>1, <1>2, <1>3, <1>4, <1>5, <1>7, <1>8, <1>9
        DEF Next, DaemonStep

\* Every variable keeps its type through every step of the job manager, its
\* clients and its environment.
THEOREM TypeCorrect == Spec => []TypeOK
<1> QED BY TypeInit, TypeStep, PTL DEF Spec

-----------------------------------------------------------------------------
(* NeverForgotten.  The promotion of a record and finish() both write the  *)
(* new place before they empty the old one; the strengthening says, for    *)
(* each point between two writes, which one has been made.                 *)

FiledSubmits ==
    \A j \in Jobs :
        /\ submit[j] \in {"pending", "dispatched", "crashed"} =>
               j \in pendingDir \cup runningDir \/ Finished(j)
        /\ submit[j] \in {"promoted", "exited"} =>
               j \in runningDir \/ Finished(j)
        /\ submit[j] \in {"failing", "failed"} => Finished(j)
PublishedFirst ==
    fin.job # NoJob /\ fin.step \in {"ticket", "unlink"} => Finished(fin.job)
FiledInv == TypeOK /\ FiledSubmits /\ PublishedFirst

\* Nothing is submitted at first.
LEMMA FiledInit == Init => FiledInv
<1> SUFFICES ASSUME Init PROVE FiledInv
  OBVIOUS
<1>1. TypeOK
  BY TypeInit
<1> QED BY <1>1 DEF Init, FiledInv, FiledSubmits, PublishedFirst, NoFin

\* Only the submit CLIs, finish() and the dedupe touch these directories.
LEMMA FiledStep == FiledInv /\ [Next]_vars => FiledInv'
<1> SUFFICES ASSUME FiledInv, [Next]_vars PROVE FiledSubmits' /\ PublishedFirst'
  BY TypeStep DEF FiledInv
<1> USE DEF FiledInv, FiledSubmits, PublishedFirst, Finished
<1> USE DEF submitVars, recordVars, ticketVars, ownerVars, daemonVars,
            faultVars
<1>a. TypeOK'
  BY TypeStep
<1>b. submit \in [Jobs -> SubmitStates] /\ fin \in Finishes
      /\ doneDir \in [Jobs -> {"none", "done", "died"}]
  BY DEF TypeOK
<1>1. ASSUME NEW i \in Jobs, SubmitStep(i)
      PROVE  FiledSubmits' /\ PublishedFirst'
  <2>1. CASE SubmitPending(i) BY <1>b, <2>1 DEF SubmitPending
  <2>2. CASE SubmitDispatch(i) BY <1>b, <2>2 DEF SubmitDispatch
  <2>3. CASE SubmitDispatchFails(i) BY <1>b, <2>3 DEF SubmitDispatchFails
  <2>4. CASE SubmitPromote(i) BY <1>b, <2>4 DEF SubmitPromote
  <2>5. CASE SubmitExit(i) BY <1>b, <2>5 DEF SubmitExit, Promoted
  <2>6. CASE SubmitCrash(i) BY <1>b, <2>6 DEF SubmitCrash
  <2>7. CASE PendingAges(i) BY <1>b, <2>7 DEF PendingAges
  <2>8. CASE Adopt(i) BY <1>b, <2>8 DEF Adopt
  <2>9. CASE WorkFinishes(i) BY <1>b, <2>9 DEF WorkFinishes
  <2>10. CASE WorkVanishes(i) BY <1>b, <2>10 DEF WorkVanishes
  <2> QED BY <1>1, <2>1, <2>2, <2>3, <2>4, <2>5, <2>6, <2>7, <2>8, <2>9,
             <2>10 DEF SubmitStep
<1>2. ASSUME FinishStep PROVE FiledSubmits' /\ PublishedFirst'
  <2>1. CASE FinishPublish BY <1>b, <2>1 DEF FinishPublish, Finishes
  <2>2. CASE FinishTicket BY <1>b, <2>2 DEF FinishTicket, NewTicket, Finishes
  <2>3. CASE FinishUnlink BY <1>b, <2>3 DEF FinishUnlink, Finishes, NoFin
  <2> QED BY <1>2, <2>1, <2>2, <2>3 DEF FinishStep
<1>3. ASSUME CheckStep PROVE FiledSubmits' /\ PublishedFirst'
  <2>1. CASE TickStart BY <1>b, <2>1 DEF TickStart
  <2>2. CASE TickListRunning \/ TickListWakes
    BY <1>b, <2>2 DEF TickListRunning, TickListWakes, OwnersDue
  <2>3. ASSUME NEW i \in Jobs,
               TickOrphan(i) \/ CheckFinished(i) \/ CheckWaits(i) \/ CheckGone(i)
        PROVE  FiledSubmits' /\ PublishedFirst'
    BY <1>b, <2>3 DEF TickOrphan, CheckFinished, CheckWaits, CheckGone,
                      BeginFinish
  <2> QED BY <1>3, <2>1, <2>2, <2>3 DEF CheckStep
<1>4. ASSUME UNCHANGED <<submit, recordVars, fin>>
      PROVE  FiledSubmits' /\ PublishedFirst'
  BY <1>4
<1>5. ASSUME \/ \E o \in Owners : OwnerStep(o)
             \/ DeliverStep \/ StaleStep \/ Environment
      PROVE  \/ UNCHANGED <<submit, recordVars, fin>>
             \/ DaemonCrash
  <2>1. \A o \in Owners : OwnerStep(o) => UNCHANGED <<submit, recordVars, fin>>
    BY DEF OwnerStep, SleepCheck, MayPark, SleepTouch, SleepSetState, SleepMark,
           EndTurn, OwnerDies, ReadMailbox, WatchdogRevives, InboxRevives
  <2>2. DeliverStep => UNCHANGED <<submit, recordVars, fin>>
    BY DEF DeliverStep, DeliverHold, DeliverWait, DeliverCall,
           InterruptSucceeds, AppendSucceeds, SettleTicket, SettleMarker, AllSettled
  <2>3. StaleStep => UNCHANGED <<submit, recordVars, fin>>
    BY DEF StaleStep, TickListSleepers, Sleepers, TickEnd, DaemonRestart, StaleWaits,
           StaleAlerts
  <2>4. Environment => UNCHANGED <<submit, recordVars, fin>> \/ DaemonCrash
    BY DEF Environment, LimitStrikes, LimitResets, BackoffElapses, CallFault,
           CallRefused, InterruptUnverified, CallTimesOut, CallFailed
  <2> QED BY <1>5, <2>1, <2>2, <2>3, <2>4
<1>6. CASE DaemonCrash
  BY <1>6, <1>b DEF DaemonCrash, NoFin
<1>7. CASE UNCHANGED vars
  BY <1>7, <1>4 DEF vars
<1> QED BY <1>1, <1>2, <1>3, <1>4, <1>5, <1>6, <1>7 DEF Next, DaemonStep

\* A submitted job never leaves jobs/ altogether, for every number of jobs and
\* owners and however often the daemon and the submit CLIs crash.
THEOREM NothingForgotten == Spec => []NeverForgotten
<1>1. FiledInv => NeverForgotten
  BY DEF FiledInv, FiledSubmits, NeverForgotten, TypeOK, SubmitStates
<1> QED BY <1>1, FiledInit, FiledStep, PTL DEF Spec

-----------------------------------------------------------------------------
(* NoLostWake.  At every moment the wake of a finished job is owed by      *)
(* exactly one part of the machinery; WakeInv names the part:              *)
(*   - finish(), between the publication and the ticket;                   *)
(*   - the failing submit CLI, or the orphan pass after its death;         *)
(*   - the ticket, or the message that was sent for it.                    *)
(* The rest says that finish() runs only inside the two passes that start  *)
(* it, on a record that is still there, and that a wake call carries every *)
(* ticket of its owner that no earlier one did.  Two steps of the code     *)
(* break this, and are excluded one by one: the daemon is killed between   *)
(* the publication and the ticket of a job that nothing else knows of, and *)
(* a retry that sends no new message has a ticket that joined meanwhile.   *)

Told(j) == sent[j] > 0 \/ j \in wakesDir

KnownElsewhere(j) ==
    \/ Told(j)
    \/ submit[j] \in {"failing", "failed"}
    \/ submit[j] = "crashed" /\ j \in pendingDir

CrashLosesWake ==
    /\ DaemonCrash
    /\ fin.job # NoJob /\ fin.step = "ticket"
    /\ WakeJob(fin.job) /\ ~KnownElsewhere(fin.job)
RetryLosesWake ==
    \E o \in Owners : /\ DeliverCall(o)
                      /\ Tickets(o) \cap appended # {}
                      /\ \E j \in Tickets(o) : sent[j] = 0
NoWakeLost == ~CrashLosesWake /\ ~RetryLosesWake

Owed ==
    \A j \in Jobs : Finished(j) /\ WakeJob(j) =>
        KnownElsewhere(j) \/ (fin.job = j /\ fin.step = "ticket")
UnlinkedAreTold ==
    fin.job # NoJob /\ fin.step = "unlink" /\ WakeJob(fin.job) => Told(fin.job)
SubmitRecords ==
    /\ \A j \in Jobs : submit[j] \in {"pending", "failing"} => j \in pendingDir
    /\ \A j \in orphaned : submit[j] = "crashed"
PassRecords ==
    /\ pc = "orphans" => todo \subseteq orphaned \cap pendingDir
    /\ pc = "check" => todo \subseteq runningDir
FinishRecord ==
    fin.job # NoJob =>
        /\ pc \in {"orphans", "check"} /\ fin.job \notin todo
        /\ fin.dir = "pending" => /\ fin.job \in pendingDir
                                  /\ submit[fin.job] = "crashed"
        /\ fin.dir = "running" => fin.job \in runningDir
CallTells ==
    /\ \A j \in appended : sent[j] > 0
    /\ \A o \in Owners : Tickets(o) \cap appended # {} =>
           msg[o] # {} /\ \A j \in msg[o] : sent[j] > 0
    /\ pc = "calling" =>
           /\ call.owner \in Owners /\ msg[call.owner] # {}
           /\ ~call.interrupt => call.attach
           /\ \A j \in Tickets(call.owner) : sent[j] > 0 \/ j \in Body
           /\ \A j \in msg[call.owner] :
                  sent[j] > 0 \/ (call.attach /\ j \in Tickets(call.owner))
    /\ pc = "settle" => \A j \in Tickets(call.owner) : sent[j] > 0
WakeInv ==
    /\ TypeOK
    /\ Owed /\ UnlinkedAreTold /\ SubmitRecords /\ PassRecords
    /\ FinishRecord /\ CallTells
Kept == Owed /\ UnlinkedAreTold /\ SubmitRecords /\ PassRecords /\ FinishRecord

\* The machinery starts with nothing owed.
LEMMA WakeInit == Init => WakeInv
<1> SUFFICES ASSUME Init PROVE WakeInv
  OBVIOUS
<1>1. TypeOK
  BY TypeInit
<1> QED
  BY <1>1 DEF Init, WakeInv, Owed, UnlinkedAreTold, SubmitRecords, PassRecords,
              FinishRecord, CallTells, NoFin, Finished

\* A message only ever adds to what an owner was told.
LEMMA SendingTells ==
    ASSUME TypeOK, SendBody
    PROVE  \A j \in Jobs : /\ sent[j] > 0 => sent'[j] > 0
                           /\ j \in Body => sent'[j] > 0
<1>1. \A n \in 0..2 : Count(n) > 0
  BY DEF Count
<1> QED BY <1>1 DEF SendBody, TypeOK

\* What a retry leaves out has been told, and what it carries is due or has been
\* told: a message is written anew unless a ticket of the batch was in the last one.
LEMMA CallStep ==
    ASSUME WakeInv, [Next]_vars, NoWakeLost
    PROVE  CallTells'
<1> USE DEF WakeInv, CallTells, Tickets
<1> USE DEF submitVars, recordVars, ticketVars, ownerVars, daemonVars, faultVars
<1>a. /\ fin \in Finishes /\ call \in Calls
      /\ sent \in [Jobs -> 0..2] /\ msg \in [Owners -> SUBSET Jobs]
      /\ wakesDir \subseteq Jobs /\ appended \subseteq Jobs
  BY DEF TypeOK
<1>1. ASSUME UNCHANGED <<wakesDir, appended, msg, sent, pc, call>> PROVE CallTells'
  BY <1>1 DEF Body
<1>2. ASSUME UNCHANGED <<wakesDir, appended, msg, sent>>, pc' \notin {"calling", "settle"}
      PROVE  CallTells'
  BY <1>2
<1>3. ASSUME FinishStep PROVE CallTells'
  <2>1. CASE FinishPublish \/ FinishUnlink
    BY <2>1, <1>1 DEF FinishPublish, FinishUnlink
  <2>2. CASE FinishTicket
    <3>1. /\ wakesDir' = wakesDir \cup NewTicket /\ appended' = appended \ {fin.job}
          /\ NewTicket \subseteq {fin.job} /\ UNCHANGED <<msg, sent, pc>>
          /\ pc \notin {"calling", "settle"}
      BY <2>2 DEF FinishTicket, NewTicket, FinishRecord
    <3> QED BY <3>1
  <2> QED BY <1>3, <2>1, <2>2 DEF FinishStep
<1>4. CASE CheckStep
  BY <1>2, <1>4 DEF CheckStep, TickStart, TickListRunning, TickListWakes, TickOrphan,
                    CheckFinished, CheckWaits, CheckGone
<1>5. ASSUME NEW o \in Owners, DeliverCall(o) PROVE CallTells'
  <2> DEFINE again == Tickets(o) \cap appended # {}
  <2>1. /\ UNCHANGED <<wakesDir, appended, sent>> /\ pc' = "calling"
        /\ msg' = IF again THEN msg ELSE [msg EXCEPT ![o] = Tickets(o)]
        /\ call'.owner = o /\ call'.attach = (~again \/ ~call'.interrupt)
    BY <1>5 DEF DeliverCall
  <2>2. Tickets(o) # {} /\ Tickets(o) \subseteq Jobs
    BY <1>5, <1>a DEF DeliverCall
  <2>3. again => \A j \in Tickets(o) : sent[j] > 0
    BY <1>5, <1>a DEF NoWakeLost, RetryLosesWake
  <2>4. again => msg[o] # {} /\ \A j \in msg[o] : sent[j] > 0
    OBVIOUS
  <2>5. CASE again
    BY <2>1, <2>3, <2>4, <2>5
  <2>6. CASE ~again
    <3>1. msg'[o] = Tickets(o) /\ \A p \in Owners : p # o => msg'[p] = msg[p]
      BY <2>1, <2>6, <1>a, <2>2
    <3>2. \A p \in Owners : Tickets(p) \cap appended # {} => p # o
      BY <2>6
    <3> QED BY <2>1, <2>2, <2>6, <3>1, <3>2 DEF Body
  <2> QED BY <2>5, <2>6
<1>6. ASSUME pc = "calling", SendBody, UNCHANGED <<wakesDir, msg>>,
             \/ appended' = appended
             \/ appended' = appended \cup Tickets(call.owner),
             (pc' = "settle" /\ call' = call) \/ pc' = "deliver"
      PROVE  CallTells'
  <2>1. \A j \in Jobs : /\ sent[j] > 0 => sent'[j] > 0
                        /\ j \in Body => sent'[j] > 0
    BY <1>6, SendingTells
  <2>2. \A j \in Tickets(call.owner) : sent'[j] > 0
    BY <1>6, <1>a, <2>1
  <2>3. \A j \in msg[call.owner] : sent'[j] > 0
    BY <1>6, <1>a, <2>1 DEF Body
  <2>4. \A j \in appended' : sent'[j] > 0
    BY <1>6, <1>a, <2>1, <2>2
  <2>5. ASSUME NEW o \in Owners, Tickets(o)' \cap appended' # {}
        PROVE  msg'[o] # {} /\ \A j \in msg'[o] : sent'[j] > 0
    <3>1. CASE o = call.owner
      BY <1>6, <2>3, <3>1
    <3>2. CASE o # call.owner
      <4>1. Tickets(o) \cap appended # {}
        BY <1>6, <2>5, <3>2
      <4> QED BY <1>6, <1>a, <2>1, <4>1
    <3> QED BY <3>1, <3>2
  <2> QED BY <1>6, <2>2, <2>4, <2>5
<1>7. ASSUME DeliverStep PROVE CallTells'
  <2>1. ASSUME NEW o \in Owners, DeliverHold(o) \/ DeliverWait(o) PROVE CallTells'
    BY <2>1, <1>2 DEF DeliverHold, DeliverWait
  <2>2. CASE InterruptSucceeds \/ AppendSucceeds
    BY <2>2, <1>6 DEF InterruptSucceeds, AppendSucceeds
  <2>3. ASSUME NEW i \in Jobs, SettleTicket(i) PROVE CallTells'
    BY <2>3, <1>a DEF SettleTicket
  <2>4. CASE SettleMarker
    BY <2>4, <1>2 DEF SettleMarker
  <2> QED BY <1>5, <1>7, <2>1, <2>2, <2>3, <2>4 DEF DeliverStep
<1>8. CASE StaleStep
  BY <1>2, <1>8 DEF StaleStep, TickListSleepers, TickEnd, DaemonRestart, StaleWaits,
                    StaleAlerts
<1>9. ASSUME Environment PROVE CallTells'
  <2>1. CASE LimitStrikes \/ LimitResets \/ \E j \in Jobs : BackoffElapses(j)
    BY <2>1, <1>1 DEF LimitStrikes, LimitResets, BackoffElapses
  <2>2. CASE CallRefused \/ DaemonCrash
    BY <2>2, <1>2 DEF CallRefused, CallFailed, DaemonCrash
  <2>3. CASE InterruptUnverified \/ CallTimesOut
    BY <2>3, <1>6 DEF InterruptUnverified, CallTimesOut, CallFailed, KilledWithMail
  <2> QED BY <1>9, <2>1, <2>2, <2>3 DEF Environment, CallFault
<1>10. ASSUME NEW i \in Jobs, SubmitStep(i) PROVE CallTells'
  BY <1>1, <1>10
     DEF SubmitStep, SubmitPending, SubmitDispatch, SubmitDispatchFails, SubmitPromote,
         SubmitExit, SubmitCrash, PendingAges, Adopt, WorkFinishes, WorkVanishes
<1>11. ASSUME NEW o \in Owners, OwnerStep(o) PROVE CallTells'
  BY <1>1, <1>11
     DEF OwnerStep, SleepCheck, SleepTouch, SleepSetState, SleepMark, EndTurn,
         OwnerDies, ReadMailbox, WatchdogRevives, InboxRevives
<1>12. CASE UNCHANGED vars
  BY <1>1, <1>12 DEF vars
<1> QED BY <1>3, <1>4, <1>7, <1>8, <1>9, <1>10, <1>11, <1>12 DEF Next, DaemonStep

\* Whoever owes a wake hands the debt on in the step that ends its part.
LEMMA WakeStep ==
    ASSUME WakeInv, [Next]_vars, NoWakeLost
    PROVE  WakeInv'
<1> SUFFICES Kept'
  BY TypeStep, CallStep DEF WakeInv, Kept
<1> USE DEF WakeInv, Kept, Owed, UnlinkedAreTold, SubmitRecords, PassRecords,
            FinishRecord, Told, Finished, KnownElsewhere
<1> USE DEF submitVars, recordVars, ticketVars, ownerVars, daemonVars,
            faultVars
<1>a. /\ submit \in [Jobs -> SubmitStates] /\ fin \in Finishes
      /\ doneDir \in [Jobs -> {"none", "done", "died"}]
      /\ sent \in [Jobs -> 0..2]
      /\ wakesDir \subseteq Jobs /\ todo \subseteq Jobs
      /\ pendingDir \subseteq Jobs /\ runningDir \subseteq Jobs
      /\ orphaned \subseteq Jobs
  BY DEF TypeOK
<1>1. ASSUME NEW i \in Jobs, SubmitStep(i) PROVE Kept'
  <2> USE <1>a
  <2>1. CASE SubmitPending(i) BY <2>1 DEF SubmitPending
  <2>2. CASE SubmitDispatch(i) BY <2>2 DEF SubmitDispatch
  <2>3. CASE SubmitDispatchFails(i)
    <3>1. /\ submit[i] = "pending"
          /\ submit' = [submit EXCEPT ![i] = "failing"]
          /\ doneDir' = [doneDir EXCEPT ![i] = "died"]
          /\ UNCHANGED <<orphaned, pendingDir, runningDir, ticketVars, sent,
                         daemonVars>>
      BY <2>3 DEF SubmitDispatchFails
    <3>2. Owed' /\ UnlinkedAreTold' /\ PassRecords'
      BY <3>1
    <3>3. SubmitRecords'
      <4>1. i \in pendingDir
        BY <3>1
      <4> QED BY <3>1, <4>1
    <3>4. FinishRecord'
      BY <3>1
    <3> QED BY <3>2, <3>3, <3>4
  <2>4. CASE SubmitPromote(i) BY <2>4 DEF SubmitPromote
  <2>5. CASE SubmitExit(i) BY <2>5 DEF SubmitExit, Promoted
  <2>6. CASE SubmitCrash(i) BY <2>6 DEF SubmitCrash
  <2>7. CASE PendingAges(i) BY <2>7 DEF PendingAges
  <2>8. CASE Adopt(i) BY <2>8 DEF Adopt
  <2>9. CASE WorkFinishes(i) BY <2>9 DEF WorkFinishes
  <2>10. CASE WorkVanishes(i) BY <2>10 DEF WorkVanishes
  <2> QED BY <1>1, <2>1, <2>2, <2>3, <2>4, <2>5, <2>6, <2>7, <2>8, <2>9,
             <2>10 DEF SubmitStep
<1>2. ASSUME NEW o \in Owners, OwnerStep(o) PROVE Kept'
  <2>1. UNCHANGED <<submitVars, recordVars, ticketVars, sent, daemonVars,
                    crashes, faults, limits>>
    BY <1>2 DEF OwnerStep, SleepCheck, MayPark, SleepTouch, SleepSetState, SleepMark,
          EndTurn, OwnerDies, ReadMailbox, WatchdogRevives, InboxRevives
  <2> QED BY <2>1
<1>3. ASSUME FinishStep PROVE Kept'
  <2> USE <1>a DEF Finishes
  <2>1. CASE FinishPublish BY <2>1 DEF FinishPublish
  <2>2. CASE FinishTicket BY <2>2 DEF FinishTicket, NewTicket
  <2>3. CASE FinishUnlink BY <2>3 DEF FinishUnlink, NoFin
  <2> QED BY <1>3, <2>1, <2>2, <2>3 DEF FinishStep
<1>4. ASSUME CheckStep PROVE Kept'
  <2> USE <1>a DEF NoFin
  <2>1. CASE TickStart BY <2>1 DEF TickStart
  <2>2. CASE TickListRunning BY <2>2 DEF TickListRunning
  <2>3. CASE TickListWakes BY <2>3 DEF TickListWakes, OwnersDue
  <2>4. ASSUME NEW i \in Jobs, TickOrphan(i) PROVE Kept'
    BY <2>4 DEF TickOrphan, BeginFinish
  <2>5. ASSUME NEW i \in Jobs, CheckFinished(i) PROVE Kept'
    BY <2>5 DEF CheckFinished, BeginFinish
  <2>6. ASSUME NEW i \in Jobs, CheckWaits(i) PROVE Kept'
    BY <2>6 DEF CheckWaits
  <2>7. ASSUME NEW i \in Jobs, CheckGone(i) PROVE Kept'
    BY <2>7 DEF CheckGone, BeginFinish
  <2> QED BY <1>4, <2>1, <2>2, <2>3, <2>4, <2>5, <2>6, <2>7 DEF CheckStep
<1>5. ASSUME DeliverStep PROVE Kept'
  <2> USE <1>a
  <2>1. ASSUME NEW o \in Owners, DeliverHold(o) PROVE Kept'
    BY <2>1 DEF DeliverHold
  <2>2. ASSUME NEW o \in Owners, DeliverWait(o) PROVE Kept'
    BY <2>2 DEF DeliverWait
  <2>3. ASSUME NEW o \in Owners, DeliverCall(o) PROVE Kept'
    BY <2>3 DEF DeliverCall
  <2>4. CASE InterruptSucceeds \/ AppendSucceeds
    <3>1. /\ SendBody /\ fin.job = NoJob /\ pc' = "settle"
          /\ UNCHANGED <<submitVars, recordVars, wakesDir, fin>>
      BY <2>4 DEF InterruptSucceeds, AppendSucceeds
    <3> QED BY <3>1, SendingTells
  <2>5. SettleMarker => Kept'
    BY DEF SettleMarker
  <2>6. ASSUME NEW i \in Jobs, SettleTicket(i) PROVE Kept'
    <3>1. /\ sent[i] > 0 /\ wakesDir' = wakesDir \ {i} /\ fin.job = NoJob
          /\ UNCHANGED <<submitVars, recordVars, sent, daemonVars>>
      BY <2>6 DEF SettleTicket, CallTells
    <3> QED BY <3>1
  <2> QED BY <1>5, <2>1, <2>2, <2>3, <2>4, <2>5, <2>6 DEF DeliverStep
<1>6. ASSUME StaleStep PROVE Kept'
  <2> USE <1>a
  <2>1. CASE TickListSleepers BY <2>1 DEF TickListSleepers, Sleepers
  <2>2. CASE TickEnd BY <2>2 DEF TickEnd
  <2>3. CASE DaemonRestart BY <2>3 DEF DaemonRestart
  <2>4. ASSUME NEW o \in Owners, StaleWaits(o) \/ StaleAlerts(o) PROVE Kept'
    BY <2>4 DEF StaleWaits, StaleAlerts
  <2> QED BY <1>6, <2>1, <2>2, <2>3, <2>4 DEF StaleStep
<1>7. ASSUME Environment PROVE Kept'
  <2> USE <1>a
  <2>1. CASE LimitStrikes \/ LimitResets
    BY <2>1 DEF LimitStrikes, LimitResets
  <2>2. ASSUME NEW i \in Jobs, BackoffElapses(i) PROVE Kept'
    BY <2>2 DEF BackoffElapses
  <2>3. CASE CallFault
    <3>1. /\ sent' = sent \/ SendBody
          /\ fin.job = NoJob /\ pc' = "deliver"
          /\ UNCHANGED <<submitVars, recordVars, wakesDir, fin>>
      BY <2>3 DEF CallFault, CallRefused, InterruptUnverified, CallTimesOut, CallFailed,
                  KilledWithMail
    <3> QED BY <3>1, SendingTells
  <2>4. CASE DaemonCrash
    <3>1. ~(fin.job # NoJob /\ fin.step = "ticket" /\ WakeJob(fin.job)
            /\ ~KnownElsewhere(fin.job))
      BY <2>4 DEF NoWakeLost, CrashLosesWake
    <3>2. fin' = NoFin /\ pc' = "down" /\ UNCHANGED <<submitVars, recordVars, wakesDir, sent>>
      BY <2>4 DEF DaemonCrash
    <3>3. NoFin.job = NoJob /\ NoJob \notin Jobs
      BY JobMgrAssumption DEF NoFin
    <3> QED BY <3>1, <3>2, <3>3
  <2> QED BY <1>7, <2>1, <2>2, <2>3, <2>4 DEF Environment
<1>8. CASE UNCHANGED vars
  BY <1>8 DEF vars
<1> QED BY <1>1, <1>2, <1>3, <1>4, <1>5, <1>6, <1>7, <1>8 DEF Next, DaemonStep

\* Both steps change pc.
LEMMA StutterLosesNothing == ASSUME [NoWakeLost]_vars PROVE NoWakeLost
BY DEF NoWakeLost, CrashLosesWake, RetryLosesWake, DaemonCrash, DeliverCall, vars, daemonVars

\* However often the daemon is killed and wake calls fail, no wake of a finished
\* job is lost but by one of two steps: a death of the daemon between done/ and the
\* ticket, and a retry without a new message that a new ticket has joined.
THEOREM WakesKept == Spec /\ [][NoWakeLost]_vars => []NoLostWake
<1>1. WakeInv => NoLostWake
  BY DEF WakeInv, TypeOK, Finishes, Owed, UnlinkedAreTold, SubmitRecords,
         FinishRecord, NoLostWake, Told, KnownElsewhere
<1>2. WakeInv /\ [Next]_vars /\ [NoWakeLost]_vars => WakeInv'
  BY WakeStep, StutterLosesNothing
<1> QED BY <1>1, <1>2, WakeInit, PTL DEF Spec

-----------------------------------------------------------------------------
(* Where the record and the ticket of a job can be, by how far its submit  *)
(* CLI is: the refinement, ReportedOnce and ParkedHasAWaker rest on it.    *)

Nowhere(j) == j \notin pendingDir \cup runningDir \cup wakesDir /\ sent[j] = 0

Submitted ==
    \A j \in Jobs :
        /\ submit[j] \in {"none", "failed"} => Nowhere(j)
        /\ submit[j] \in {"pending", "dispatched", "failing"} =>
               j \in pendingDir /\ j \notin runningDir \cup wakesDir /\ sent[j] = 0
        /\ submit[j] \in {"none", "pending", "dispatched"} => ~Finished(j)
        /\ submit[j] = "promoted" => j \in pendingDir
        /\ submit[j] \in {"dispatched", "promoted", "exited"} => work[j] # "none"
        /\ j \in runningDir => work[j] # "none"
TicketBeforeUnlink ==
    fin.job # NoJob /\ fin.step = "unlink" /\ WakeJob(fin.job) => fin.job \in wakesDir
TicketsAreDue == \A j \in wakesDir : Finished(j) /\ WakeJob(j)
UnsentWhileRunning == \A j \in runningDir : sent[j] = 0 \/ submit[j] = "crashed"
DroppedAreTold ==
    \A j \in runningDir : Finished(j) /\ WakeJob(j) =>
        \/ fin.job = j /\ fin.step # "publish"
        \/ Disowned(j)
        \/ pc \in {"down", "idle"} /\ j \in wakesDir
Placed == /\ Submitted /\ PublishedFirst /\ TicketBeforeUnlink /\ TicketsAreDue
          /\ UnsentWhileRunning /\ DroppedAreTold
RecordInv == WakeInv /\ Placed

\* Nothing is submitted at first.
LEMMA RecordInit == Init => RecordInv
<1> SUFFICES ASSUME Init PROVE RecordInv
  OBVIOUS
<1>1. WakeInv
  BY WakeInit
<1> QED
  BY <1>1 DEF Init, RecordInv, Placed, Submitted, Nowhere, Finished, PublishedFirst,
              TicketBeforeUnlink, TicketsAreDue, UnsentWhileRunning, DroppedAreTold, NoFin

\* The steps of an owner, of the watch on sleepers, and of the clocks touch
\* neither a record nor a ticket.
LEMMA Elsewhere ==
    ASSUME \/ \E o \in Owners : OwnerStep(o)
           \/ StaleStep
           \/ LimitStrikes \/ LimitResets \/ CallRefused
           \/ \E j \in Jobs : BackoffElapses(j)
           \/ \E o \in Owners : DeliverHold(o) \/ DeliverWait(o) \/ DeliverCall(o)
           \/ SettleMarker
    PROVE  /\ UNCHANGED <<submitVars, recordVars, wakesDir, sent, fin>>
           /\ pc \in {"down", "idle"} => pc' \in {"down", "idle"}
<1> DEFINE Same == /\ UNCHANGED <<submitVars, recordVars, wakesDir, sent, fin>>
                   /\ pc \in {"down", "idle"} => pc' \in {"down", "idle"}
<1> USE DEF submitVars, recordVars, ticketVars, ownerVars, daemonVars, faultVars
<1>1. \A o \in Owners : OwnerStep(o) => Same
  BY DEF OwnerStep, SleepCheck, SleepTouch, SleepSetState, SleepMark,
         EndTurn, OwnerDies, ReadMailbox, WatchdogRevives, InboxRevives
<1>2. StaleStep => Same
  BY DEF StaleStep, TickListSleepers, TickEnd, DaemonRestart, StaleWaits, StaleAlerts
<1>3. \A o \in Owners : DeliverHold(o) \/ DeliverWait(o) \/ DeliverCall(o) => Same
  BY DEF DeliverHold, DeliverWait, DeliverCall
<1> QED BY <1>1, <1>2, <1>3
        DEF LimitStrikes, LimitResets, CallRefused, CallFailed, BackoffElapses,
            SettleMarker

\* One step per action that moves a record or a ticket.
LEMMA RecordStep ==
    ASSUME RecordInv, [Next]_vars, NoWakeLost
    PROVE  RecordInv'
<1> SUFFICES Placed'
  BY WakeStep DEF RecordInv
<1> USE DEF RecordInv, Placed, Submitted, Nowhere, PublishedFirst, TicketBeforeUnlink,
            TicketsAreDue, UnsentWhileRunning, DroppedAreTold, Finished, Disowned
<1> USE DEF submitVars, recordVars, ticketVars, ownerVars, daemonVars, faultVars
<1>a. /\ submit \in [Jobs -> SubmitStates] /\ fin \in Finishes
      /\ work \in [Jobs -> WorkStates]
      /\ doneDir \in [Jobs -> {"none", "done", "died"}]
      /\ sent \in [Jobs -> 0..2] /\ wakesDir \subseteq Jobs
      /\ pendingDir \subseteq Jobs /\ runningDir \subseteq Jobs
  BY DEF WakeInv, TypeOK
<1>b. SubmitRecords /\ PassRecords /\ FinishRecord /\ CallTells
  BY DEF WakeInv
<1>1. ASSUME UNCHANGED <<submitVars, recordVars, wakesDir, sent, fin>>,
             pc \in {"down", "idle"} => pc' \in {"down", "idle"}
      PROVE  Placed'
  BY <1>1
<1>2. ASSUME NEW i \in Jobs, SubmitStep(i) PROVE Placed'
  <2> USE <1>a, <1>b DEF SubmitRecords, FinishRecord
  <2>1. CASE SubmitPending(i) BY <2>1 DEF SubmitPending
  <2>2. CASE SubmitDispatch(i) BY <2>2 DEF SubmitDispatch
  <2>3. CASE SubmitDispatchFails(i) BY <2>3 DEF SubmitDispatchFails
  <2>4. CASE SubmitPromote(i) BY <2>4 DEF SubmitPromote
  <2>5. CASE SubmitExit(i) BY <2>5 DEF SubmitExit, Promoted
  <2>6. CASE SubmitCrash(i) BY <2>6 DEF SubmitCrash
  <2>7. CASE PendingAges(i) BY <2>7 DEF PendingAges
  <2>8. CASE Adopt(i) BY <2>8 DEF Adopt
  <2>9. CASE WorkFinishes(i) BY <2>9 DEF WorkFinishes
  <2>10. CASE WorkVanishes(i) BY <2>10 DEF WorkVanishes
  <2> QED BY <1>2, <2>1, <2>2, <2>3, <2>4, <2>5, <2>6, <2>7, <2>8, <2>9,
             <2>10 DEF SubmitStep
<1>3. ASSUME FinishStep PROVE Placed'
  <2> USE <1>a, <1>b DEF FinishRecord, Finishes
  <2>1. CASE FinishPublish BY <2>1 DEF FinishPublish
  <2>2. CASE FinishTicket BY <2>2 DEF FinishTicket, NewTicket
  <2>3. CASE FinishUnlink BY <2>3 DEF FinishUnlink, NoFin
  <2> QED BY <1>3, <2>1, <2>2, <2>3 DEF FinishStep
<1>4. ASSUME CheckStep PROVE Placed'
  <2> USE <1>a, <1>b DEF PassRecords, SubmitRecords, FinishRecord, NoFin
  <2>1. CASE TickStart BY <2>1 DEF TickStart
  <2>2. CASE TickListRunning BY <2>2 DEF TickListRunning
  <2>3. CASE TickListWakes BY <2>3 DEF TickListWakes
  <2>4. ASSUME NEW i \in Jobs, TickOrphan(i) PROVE Placed'
    BY <2>4 DEF TickOrphan, BeginFinish
  <2>5. ASSUME NEW i \in Jobs, CheckFinished(i) PROVE Placed'
    BY <2>5 DEF CheckFinished, BeginFinish
  <2>6. ASSUME NEW i \in Jobs, CheckWaits(i) PROVE Placed'
    BY <2>6 DEF CheckWaits
  <2>7. ASSUME NEW i \in Jobs, CheckGone(i) PROVE Placed'
    BY <2>7 DEF CheckGone, BeginFinish
  <2> QED BY <1>4, <2>1, <2>2, <2>3, <2>4, <2>5, <2>6, <2>7 DEF CheckStep
<1>5. ASSUME pc \in {"calling", "settle"}, fin' = fin,
             UNCHANGED <<submitVars, recordVars>>,
             \/ SendBody /\ wakesDir' = wakesDir /\ pc = "calling"
             \/ sent' = sent /\ wakesDir' \subseteq wakesDir
      PROVE  Placed'
  <2>1. fin.job = NoJob
    BY <1>5, <1>b DEF FinishRecord
  <2>2. SendBody /\ pc = "calling" =>
            \A j \in Jobs : \/ sent'[j] = sent[j]
                           \/ (sent[j] > 0 /\ sent'[j] > 0)
                           \/ j \in wakesDir
    BY <1>a, <1>b DEF SendBody, Body, Count, CallTells, Tickets
  <2>3. \A j \in runningDir : Finished(j) /\ WakeJob(j) => Disowned(j)
    BY <1>5, <1>a, <2>1, JobMgrAssumption
  <2> QED BY <1>5, <2>1, <2>2, <2>3, <1>a
<1>6. ASSUME InterruptSucceeds \/ AppendSucceeds \/ CallTimesOut \/ InterruptUnverified
      PROVE  Placed'
  BY <1>6, <1>5 DEF InterruptSucceeds, AppendSucceeds, CallTimesOut, InterruptUnverified,
                    CallFailed, KilledWithMail
<1>7. ASSUME NEW i \in Jobs, SettleTicket(i) PROVE Placed'
  BY <1>7, <1>5 DEF SettleTicket
<1>8. CASE DaemonCrash
  <2>1. /\ fin'.job = NoJob /\ NoJob \notin Jobs /\ pc' = "down"
        /\ UNCHANGED <<submitVars, recordVars, wakesDir, sent>>
    BY <1>8, JobMgrAssumption DEF DaemonCrash, NoFin
  <2>2. ASSUME NEW j \in runningDir, Finished(j), WakeJob(j), ~Disowned(j)
        PROVE  j \in wakesDir
    <3>1. CASE fin.job = j /\ fin.step = "unlink"
      BY <3>1, <2>2, <1>a
    <3>2. CASE fin.job = j /\ fin.step = "ticket"
      <4>1. KnownElsewhere(j)
        BY <1>8, <2>2, <3>2, <1>a, JobMgrAssumption DEF NoWakeLost, CrashLosesWake
      <4> QED BY <4>1, <2>2, <1>a DEF KnownElsewhere, Told
    <3>3. CASE pc \in {"down", "idle"} /\ j \in wakesDir
      BY <3>3
    <3> QED BY <2>2, <3>1, <3>2, <3>3, <1>a DEF Finishes
  <2> QED BY <2>1, <2>2
<1>9. CASE UNCHANGED vars
  BY <1>9, <1>1 DEF vars
<1> QED BY <1>1, <1>2, <1>3, <1>4, <1>6, <1>7, <1>8, <1>9, Elsewhere
        DEF Next, DaemonStep, DeliverStep, Environment, CallFault

(* ReportedOnce.  The record of a job that has been told is gone, but for  *)
(* the unlink that is under way, so that nobody makes a second ticket; and *)
(* a ticket that has been reported is there only until it is settled.      *)

ToldAreUnlinked ==
    \A j \in Jobs : Told(j) /\ submit[j] # "crashed" /\ j \in runningDir =>
        fin.job = j /\ fin.step = "unlink" /\ fin.dir = "running"
SentAreSettled ==
    \A j \in wakesDir : sent[j] > 0 /\ submit[j] # "crashed" =>
        pc = "settle" /\ call.owner = Owner[j]
CallCarriesAll ==
    /\ appended = {}
    /\ pc = "calling" => call.attach /\ msg[call.owner] = Tickets(call.owner)
OnceInv ==
    /\ RecordInv /\ ToldAreUnlinked /\ SentAreSettled /\ CallCarriesAll
    /\ \A j \in Jobs : sent[j] = 2 => submit[j] = "crashed"

Unfaulted == crashes = 0 /\ faults = 0
OnceUnlessFaulted == TypeOK /\ (Unfaulted => OnceInv)

\* Faults are counted, so that where none has happened yet the step is none.
LEMMA FaultsAreCounted ==
    ASSUME TypeOK, [Next]_vars, Unfaulted'
    PROVE  Unfaulted /\ ~DaemonCrash /\ ~CallFault
<1> USE DEF Unfaulted, submitVars, recordVars, ticketVars, ownerVars, daemonVars, faultVars
<1>1. crashes \in Nat /\ faults \in Nat
  BY DEF TypeOK
<1>2. ~DaemonCrash
  BY <1>1 DEF DaemonCrash
<1>3. ~CallFault
  BY <1>1 DEF CallFault, CallRefused, InterruptUnverified, CallTimesOut, CallFailed
<1>4. \A o \in Owners : OwnerStep(o) => UNCHANGED <<crashes, faults>>
  BY DEF OwnerStep, SleepCheck, SleepTouch, SleepSetState, SleepMark,
         EndTurn, OwnerDies, ReadMailbox, WatchdogRevives, InboxRevives
<1>5. \A j \in Jobs : SubmitStep(j) => UNCHANGED faultVars
  BY DEF SubmitStep, SubmitPending, SubmitDispatch, SubmitDispatchFails, SubmitPromote,
         SubmitExit, SubmitCrash, PendingAges, Adopt, WorkFinishes, WorkVanishes
<1>6. FinishStep \/ CheckStep => UNCHANGED faultVars
  BY DEF FinishStep, FinishPublish, FinishTicket, FinishUnlink, CheckStep, TickStart,
         TickListRunning, TickListWakes, TickOrphan, CheckFinished, CheckWaits, CheckGone
<1>7. DeliverStep \/ StaleStep => UNCHANGED faultVars
  BY DEF DeliverStep, DeliverHold, DeliverWait, DeliverCall, InterruptSucceeds,
         AppendSucceeds, SettleTicket, SettleMarker, StaleStep, TickListSleepers,
         TickEnd, DaemonRestart, StaleWaits, StaleAlerts
<1>8. LimitStrikes \/ LimitResets \/ (\E j \in Jobs : BackoffElapses(j)) =>
          UNCHANGED <<crashes, faults>>
  BY DEF LimitStrikes, LimitResets, BackoffElapses
<1> QED BY <1>2, <1>3, <1>4, <1>5, <1>6, <1>7, <1>8
        DEF Next, DaemonStep, Environment, vars

\* Without a fault every message is a new one with all tickets of its owner.
LEMMA CarriesAllStep ==
    ASSUME RecordInv, CallCarriesAll, [Next]_vars, ~DaemonCrash, ~CallFault
    PROVE  CallCarriesAll'
<1> USE DEF CallCarriesAll, Tickets
<1> USE DEF submitVars, recordVars, ticketVars, ownerVars, daemonVars, faultVars
<1>a. msg \in [Owners -> SUBSET Jobs] /\ FinishRecord
  BY DEF RecordInv, WakeInv, TypeOK
<1>1. ASSUME appended' = {}, pc' # "calling" PROVE CallCarriesAll'
  BY <1>1
<1>2. ASSUME UNCHANGED <<wakesDir, appended, msg, pc, call>> PROVE CallCarriesAll'
  BY <1>2
<1>3. CASE FinishStep
  BY <1>1, <1>3, <1>a
     DEF FinishStep, FinishPublish, FinishTicket, FinishUnlink, FinishRecord
<1>4. CASE CheckStep
  BY <1>1, <1>4 DEF CheckStep, TickStart, TickListRunning, TickListWakes, TickOrphan,
                    CheckFinished, CheckWaits, CheckGone
<1>5. ASSUME NEW o \in Owners, DeliverCall(o) PROVE CallCarriesAll'
  <2>1. /\ UNCHANGED <<wakesDir, appended>> /\ msg' = [msg EXCEPT ![o] = Tickets(o)]
        /\ call'.owner = o /\ call'.attach
    BY <1>5 DEF DeliverCall
  <2> QED BY <2>1, <1>a
<1>6. CASE DeliverStep /\ ~\E o \in Owners : DeliverCall(o)
  BY <1>1, <1>6 DEF DeliverStep, DeliverHold, DeliverWait, InterruptSucceeds,
                    AppendSucceeds, SettleTicket, SettleMarker
<1>7. CASE StaleStep
  BY <1>1, <1>7 DEF StaleStep, TickListSleepers, TickEnd, DaemonRestart, StaleWaits,
                    StaleAlerts
<1>8. CASE Environment
  BY <1>2, <1>8 DEF Environment, LimitStrikes, LimitResets, BackoffElapses
<1>9. ASSUME NEW i \in Jobs, SubmitStep(i) PROVE CallCarriesAll'
  BY <1>2, <1>9
     DEF SubmitStep, SubmitPending, SubmitDispatch, SubmitDispatchFails, SubmitPromote,
         SubmitExit, SubmitCrash, PendingAges, Adopt, WorkFinishes, WorkVanishes
<1>10. ASSUME NEW o \in Owners, OwnerStep(o) PROVE CallCarriesAll'
  BY <1>2, <1>10
     DEF OwnerStep, SleepCheck, SleepTouch, SleepSetState, SleepMark, EndTurn,
         OwnerDies, ReadMailbox, WatchdogRevives, InboxRevives
<1>11. CASE UNCHANGED vars
  BY <1>2, <1>11 DEF vars
<1> QED BY <1>3, <1>4, <1>5, <1>6, <1>7, <1>8, <1>9, <1>10, <1>11 DEF Next, DaemonStep

\* A ticket is made where none was reported, reported once, then unlinked.
LEMMA OnceStep ==
    ASSUME OnceInv, [Next]_vars, ~DaemonCrash, ~CallFault
    PROVE  OnceInv'
<1> DEFINE Once == /\ ToldAreUnlinked /\ SentAreSettled
                   /\ \A j \in Jobs : sent[j] = 2 => submit[j] = "crashed"
<1> SUFFICES Once'
  <2>1. NoWakeLost
    BY DEF OnceInv, CallCarriesAll, NoWakeLost, CrashLosesWake, RetryLosesWake
  <2> QED BY <2>1, RecordStep, CarriesAllStep DEF OnceInv
<1> USE DEF OnceInv, ToldAreUnlinked, SentAreSettled, Told
<1> USE DEF submitVars, recordVars, ticketVars, ownerVars, daemonVars, faultVars
<1>a. /\ submit \in [Jobs -> SubmitStates] /\ fin \in Finishes
      /\ sent \in [Jobs -> 0..2] /\ wakesDir \subseteq Jobs /\ call \in Calls
      /\ pendingDir \subseteq Jobs /\ runningDir \subseteq Jobs
  BY DEF RecordInv, Placed, WakeInv, TypeOK
<1>b. /\ SubmitRecords /\ PassRecords /\ FinishRecord /\ CallCarriesAll
      /\ Submitted /\ UnlinkedAreTold
  BY DEF RecordInv, Placed, WakeInv
<1>1. ASSUME UNCHANGED <<submitVars, recordVars, wakesDir, sent, fin>>,
             pc = "settle" => UNCHANGED <<pc, call>> \/ Tickets(call.owner) = {}
      PROVE  Once'
  BY <1>1 DEF Tickets
<1>2. ASSUME NEW i \in Jobs, SubmitStep(i) PROVE Once'
  <2> USE <1>a, <1>b DEF SubmitRecords, FinishRecord, Submitted, Nowhere
  <2>1. CASE SubmitPending(i) BY <2>1 DEF SubmitPending
  <2>2. CASE SubmitDispatch(i) BY <2>2 DEF SubmitDispatch
  <2>3. CASE SubmitDispatchFails(i) BY <2>3 DEF SubmitDispatchFails
  <2>4. CASE SubmitPromote(i) BY <2>4 DEF SubmitPromote
  <2>5. CASE SubmitExit(i) BY <2>5 DEF SubmitExit, Promoted
  <2>6. CASE SubmitCrash(i) BY <2>6 DEF SubmitCrash
  <2>7. CASE PendingAges(i) BY <2>7 DEF PendingAges
  <2>8. CASE Adopt(i) BY <2>8 DEF Adopt
  <2>9. CASE WorkFinishes(i) BY <2>9 DEF WorkFinishes
  <2>10. CASE WorkVanishes(i) BY <2>10 DEF WorkVanishes
  <2> QED BY <1>2, <2>1, <2>2, <2>3, <2>4, <2>5, <2>6, <2>7, <2>8, <2>9,
             <2>10 DEF SubmitStep
<1>3. ASSUME FinishStep PROVE Once'
  <2> USE <1>a, <1>b DEF FinishRecord, Finishes
  <2>1. CASE FinishPublish BY <2>1 DEF FinishPublish
  <2>2. CASE FinishTicket BY <2>2 DEF FinishTicket, NewTicket
  <2>3. CASE FinishUnlink BY <2>3 DEF FinishUnlink, NoFin
  <2> QED BY <1>3, <2>1, <2>2, <2>3 DEF FinishStep
<1>4. ASSUME CheckStep PROVE Once'
  <2> USE <1>a, <1>b DEF PassRecords, SubmitRecords, FinishRecord, NoFin
  <2>1. CASE TickStart BY <2>1 DEF TickStart
  <2>2. CASE TickListRunning BY <2>2 DEF TickListRunning
  <2>3. CASE TickListWakes BY <2>3 DEF TickListWakes
  <2>4. ASSUME NEW i \in Jobs, TickOrphan(i) PROVE Once'
    BY <2>4 DEF TickOrphan, BeginFinish
  <2>5. ASSUME NEW i \in Jobs, CheckFinished(i) PROVE Once'
    BY <2>5 DEF CheckFinished, BeginFinish
  <2>6. ASSUME NEW i \in Jobs, CheckWaits(i) PROVE Once'
    BY <2>6 DEF CheckWaits
  <2>7. ASSUME NEW i \in Jobs, CheckGone(i) PROVE Once'
    BY <2>7 DEF CheckGone, BeginFinish
  <2> QED BY <1>4, <2>1, <2>2, <2>3, <2>4, <2>5, <2>6, <2>7 DEF CheckStep
<1>5. ASSUME DeliverStep PROVE Once'
  <2>1. ASSUME NEW o \in Owners, DeliverHold(o) \/ DeliverWait(o) \/ DeliverCall(o)
        PROVE  Once'
    BY <2>1, <1>1, Elsewhere DEF DeliverHold, DeliverWait, DeliverCall
  <2>2. CASE InterruptSucceeds \/ AppendSucceeds
    <3>1. /\ pc = "calling" /\ pc' = "settle" /\ SendBody
          /\ UNCHANGED <<submitVars, recordVars, wakesDir, fin, call>>
      BY <2>2 DEF InterruptSucceeds, AppendSucceeds
    <3>2. Body = Tickets(call.owner)
      BY <3>1, <1>b DEF CallCarriesAll, Body
    <3>3. \A j \in Jobs : IF j \in wakesDir /\ Owner[j] = call.owner
                          THEN sent'[j] = Count(sent[j]) ELSE sent'[j] = sent[j]
      BY <3>1, <3>2, <1>a DEF SendBody, Tickets
    <3>4. \A j \in wakesDir : submit[j] # "crashed" => sent[j] = 0
      BY <3>1, <1>a
    <3>5. \A j \in Jobs : sent'[j] = 2 => submit'[j] = "crashed"
      BY <3>1, <3>3, <3>4, <1>a DEF Count
    <3>6. ToldAreUnlinked'
      BY <3>1, <3>3, <1>a
    <3>7. SentAreSettled'
      BY <3>1, <3>3, <3>4, <1>a
    <3> QED BY <3>5, <3>6, <3>7
  <2>3. ASSUME NEW i \in Jobs, SettleTicket(i) PROVE Once'
    BY <2>3 DEF SettleTicket
  <2>4. CASE SettleMarker
    BY <2>4, <1>1, Elsewhere DEF SettleMarker, AllSettled
  <2> QED BY <1>5, <2>1, <2>2, <2>3, <2>4 DEF DeliverStep
<1>6. ASSUME \E o \in Owners : OwnerStep(o) PROVE Once'
  <2>1. UNCHANGED <<pc, call>>
    BY <1>6 DEF OwnerStep, SleepCheck, SleepTouch, SleepSetState, SleepMark,
          EndTurn, OwnerDies, ReadMailbox, WatchdogRevives, InboxRevives
  <2> QED BY <1>1, <1>6, <2>1, Elsewhere
<1>7. ASSUME StaleStep PROVE Once'
  <2>1. pc # "settle"
    BY <1>7 DEF StaleStep, TickListSleepers, TickEnd, DaemonRestart, StaleWaits,
                StaleAlerts
  <2> QED BY <1>1, <1>7, <2>1, Elsewhere
<1>8. ASSUME Environment PROVE Once'
  BY <1>1, <1>8, Elsewhere DEF Environment, LimitStrikes, LimitResets, BackoffElapses
<1>9. CASE UNCHANGED vars
  BY <1>9, <1>1 DEF vars
<1> QED BY <1>2, <1>3, <1>4, <1>5, <1>6, <1>7, <1>8, <1>9 DEF Next, DaemonStep

\* As long as the daemon was not killed and no wake call failed, no job whose
\* submit CLI lived to its end is reported to its owner twice, for any number of
\* jobs and owners and across usage limits.
THEOREM ReportsAreSingle == Spec => []ReportedOnce
<1>1. Init => OnceUnlessFaulted
  BY RecordInit, TypeInit
     DEF OnceUnlessFaulted, OnceInv, ToldAreUnlinked, SentAreSettled, CallCarriesAll,
         Init, Told
<1>2. OnceUnlessFaulted /\ [Next]_vars => OnceUnlessFaulted'
  BY TypeStep, FaultsAreCounted, OnceStep DEF OnceUnlessFaulted
<1>3. OnceUnlessFaulted => ReportedOnce
  BY DEF OnceUnlessFaulted, Unfaulted, OnceInv, ReportedOnce
<1> QED BY <1>1, <1>2, <1>3, PTL DEF Spec

(* ParkedHasAWaker.  From cmd_sleep's check on, an owner that does not     *)
(* submit and does not read has a record, a ticket or mail: a record goes  *)
(* when its ticket is there, and a ticket when its message is in the mail. *)

NoneDisowned(o) == \A j \in Jobs : Owner[j] = o => ~Disowned(j)
SleepersAwait ==
    \A o \in Owners : sleepCli[o] # "idle" =>
        /\ ~Submitting(o)
        /\ NoneDisowned(o) /\ o \notin misled => Awaited(o)
        /\ pc = "settle" /\ call.owner = o /\ o \notin misled
            => mail[o] # {} \/ Inflight(o) # {}
SleepInv == RecordInv /\ SleepersAwait
\* Nobody sleeps at first.
LEMMA SleepInit == Init => SleepInv
<1> SUFFICES ASSUME Init PROVE SleepInv
  OBVIOUS
<1> QED BY RecordInit DEF Init, SleepInv, SleepersAwait

\* Being disowned is for ever.
LEMMA DisownedStays ==
    ASSUME TypeOK, [Next]_vars
    PROVE  \A j \in Jobs : Disowned(j) => Disowned(j)'
<1> USE DEF Disowned, Finished
<1> USE DEF submitVars, recordVars, ticketVars, ownerVars, daemonVars, faultVars
<1>a. /\ submit \in [Jobs -> SubmitStates] /\ work \in [Jobs -> WorkStates]
      /\ doneDir \in [Jobs -> {"none", "done", "died"}] /\ fin \in Finishes
  BY DEF TypeOK
<1>1. ASSUME UNCHANGED <<submit, work, doneDir>>
      PROVE  \A j \in Jobs : Disowned(j) => Disowned(j)'
  BY <1>1
<1>2. ASSUME NEW i \in Jobs, SubmitStep(i)
      PROVE  \A j \in Jobs : Disowned(j) => Disowned(j)'
  <2> USE <1>a
  <2>1. CASE SubmitPending(i) BY <2>1 DEF SubmitPending
  <2>2. CASE SubmitDispatch(i) BY <2>2 DEF SubmitDispatch
  <2>3. CASE SubmitDispatchFails(i) BY <2>3 DEF SubmitDispatchFails
  <2>4. CASE SubmitPromote(i) BY <2>4 DEF SubmitPromote
  <2>5. CASE SubmitExit(i) BY <2>5 DEF SubmitExit, Promoted
  <2>6. CASE SubmitCrash(i) \/ PendingAges(i) BY <2>6 DEF SubmitCrash, PendingAges
  <2>7. CASE Adopt(i) BY <2>7 DEF Adopt
  <2>8. CASE WorkFinishes(i) \/ WorkVanishes(i) BY <2>8 DEF WorkFinishes, WorkVanishes
  <2> QED BY <1>2, <2>1, <2>2, <2>3, <2>4, <2>5, <2>6, <2>7, <2>8 DEF SubmitStep
<1>3. CASE FinishPublish
  BY <1>3, <1>a DEF FinishPublish, Finishes
<1>4. FinishTicket \/ FinishUnlink \/ CheckStep => UNCHANGED <<submit, work, doneDir>>
  BY DEF FinishTicket, FinishUnlink, CheckStep, TickStart, TickListRunning,
         TickListWakes, TickOrphan, CheckFinished, CheckWaits, CheckGone
<1>5. DeliverStep \/ CallFault \/ DaemonCrash => UNCHANGED <<submit, work, doneDir>>
  BY Elsewhere
     DEF DeliverStep, InterruptSucceeds, AppendSucceeds, SettleTicket, CallFault,
         InterruptUnverified, CallTimesOut, CallFailed, DaemonCrash
<1> QED BY <1>1, <1>2, <1>3, <1>4, <1>5, Elsewhere
        DEF Next, DaemonStep, FinishStep, Environment, vars

\* While an owner sleeps, what it waits for goes from its record to its ticket to
\* its mail.
LEMMA SleepStep ==
    ASSUME SleepInv, [Next]_vars, NoWakeLost
    PROVE  SleepInv'
<1> SUFFICES ASSUME NEW o \in Owners, sleepCli'[o] # "idle"
             PROVE  /\ ~Submitting(o)'
                    /\ NoneDisowned(o)' /\ o \notin misled' => Awaited(o)'
                    /\ (pc = "settle" /\ call.owner = o /\ o \notin misled
                         => mail[o] # {} \/ Inflight(o) # {})'
  BY RecordStep DEF SleepInv, SleepersAwait
<1> DEFINE Await == /\ ~Submitting(o)
                    /\ NoneDisowned(o) /\ o \notin misled => Awaited(o)
                    /\ pc = "settle" /\ call.owner = o /\ o \notin misled
                        => mail[o] # {} \/ Inflight(o) # {}
<1> SUFFICES Await'
  OBVIOUS
<1> USE DEF SleepInv
<1> USE DEF submitVars, recordVars, ticketVars, ownerVars, daemonVars, faultVars
<1>a. /\ submit \in [Jobs -> SubmitStates] /\ fin \in Finishes
      /\ sleepCli \in [Owners -> SleepStates] /\ mail \in [Owners -> SUBSET Jobs]
      /\ wakesDir \subseteq Jobs /\ call \in Calls
      /\ pendingDir \subseteq Jobs /\ runningDir \subseteq Jobs
  BY DEF RecordInv, WakeInv, TypeOK
<1>b. /\ PassRecords /\ FinishRecord /\ CallTells
      /\ Submitted /\ TicketBeforeUnlink /\ DroppedAreTold
  BY DEF RecordInv, Placed, WakeInv
<1>c. NoneDisowned(o)' => NoneDisowned(o)
  BY DisownedStays DEF NoneDisowned, RecordInv, WakeInv
<1>d. sleepCli[o] # "idle" => Await
  BY DEF SleepersAwait
<1> USE DEF Awaited
<1>1. ASSUME UNCHANGED <<submit, pendingDir, runningDir, wakesDir>>,
             sleepCli[o] # "idle",
             mail[o] \subseteq mail'[o], o \notin misled' => o \notin misled,
             pc' = "settle" => UNCHANGED <<pc, call>>
      PROVE  Await'
  BY <1>1, <1>c, <1>d DEF Submitting, Inflight, Tickets
<1>2. ASSUME NEW i \in Jobs, SubmitStep(i) PROVE Await'
  <2>1. sleepCli[o] # "idle" /\ UNCHANGED <<sleepCli, mail, wakesDir, pc, call, misled>>
    BY <1>2 DEF SubmitStep, SubmitPending, SubmitDispatch, SubmitDispatchFails,
          SubmitPromote, SubmitExit, SubmitCrash, PendingAges, Adopt, WorkFinishes,
          WorkVanishes
  <2>2. ~Submitting(o)
    BY <2>1, <1>d
  <2>3. Owner[i] = o => submit[i] \notin {"pending", "dispatched", "promoted", "failing"}
    BY <2>2 DEF Submitting
  <2>4. \/ Owner[i] # o
        \/ Adopt(i) \/ PendingAges(i) \/ WorkFinishes(i) \/ WorkVanishes(i)
    BY <1>2, <2>1, <2>3
       DEF SubmitStep, SubmitPending, SubmitDispatch, SubmitDispatchFails,
           SubmitPromote, SubmitExit, SubmitCrash, Promoted
  <2>5. \A j \in Jobs : Owner[j] = o =>
            /\ submit'[j] = submit[j] \/ submit'[j] = "exited"
            /\ j \in pendingDir => j \in pendingDir'
            /\ j \in runningDir => j \in runningDir'
    <3>1. CASE Owner[i] # o
      BY <1>2, <1>a, <3>1
         DEF SubmitStep, SubmitPending, SubmitDispatch, SubmitDispatchFails,
          SubmitPromote, SubmitExit, Promoted, SubmitCrash, PendingAges, Adopt,
          WorkFinishes, WorkVanishes
    <3>2. CASE Adopt(i) \/ PendingAges(i) \/ WorkFinishes(i) \/ WorkVanishes(i)
      BY <1>a, <3>2 DEF Adopt, PendingAges, WorkFinishes, WorkVanishes
    <3> QED BY <2>4, <3>1, <3>2
  <2>6. ~Submitting(o)'
    BY <2>2, <2>5 DEF Submitting
  <2>7. Inflight(o) \subseteq Inflight(o)'
    BY <2>5, <1>a DEF Inflight
  <2> QED BY <2>1, <2>6, <2>7, <1>c, <1>d DEF Tickets
<1>3. ASSUME NEW p \in Owners, OwnerStep(p) PROVE Await'
  <2> USE <1>a
  <2>0. UNCHANGED <<submitVars, recordVars, ticketVars, pc, call>>
        /\ \A q \in Owners : q # p => (q \in misled <=> q \in misled')
    BY <1>3 DEF OwnerStep, SleepCheck, SleepTouch, SleepSetState, SleepMark,
          EndTurn, OwnerDies, ReadMailbox, WatchdogRevives, InboxRevives
  <2>1. CASE SleepCheck(p)
    <3>1. CASE p = o
      BY <2>0, <2>1, <3>1
         DEF SleepCheck, MayPark, ParksOnToldTicket, Submitting, Inflight, Tickets
    <3>2. CASE p # o
      BY <2>0, <2>1, <3>2, <1>1 DEF SleepCheck
    <3> QED BY <3>1, <3>2
  <2>2. CASE SleepTouch(p) \/ SleepSetState(p) \/ SleepMark(p) \/ EndTurn(p)
    BY <2>0, <2>2, <1>1 DEF SleepTouch, SleepSetState, SleepMark, EndTurn
  <2>3. CASE OwnerDies(p) \/ ReadMailbox(p)
    BY <2>0, <2>3, <1>1 DEF OwnerDies, ReadMailbox
  <2>4. CASE WatchdogRevives(p) \/ InboxRevives(p)
    BY <2>0, <2>4, <1>1 DEF WatchdogRevives, InboxRevives, Boot
  <2> QED BY <1>3, <2>1, <2>2, <2>3, <2>4 DEF OwnerStep
<1>4. ASSUME FinishStep PROVE Await'
  <2> USE <1>a, <1>b
  <2>0. /\ sleepCli[o] # "idle" /\ UNCHANGED <<submit, sleepCli, mail, pc, call, misled>>
        /\ pc # "settle" /\ wakesDir \subseteq wakesDir'
    BY <1>4 DEF FinishStep, FinishPublish, FinishTicket, FinishUnlink, FinishRecord
  <2>1. CASE FinishPublish \/ FinishTicket
    BY <2>0, <2>1, <1>c, <1>d DEF FinishPublish, FinishTicket, Submitting, Inflight, Tickets
  <2>2. CASE FinishUnlink
    <3>1. \A j \in Inflight(o) : j \in Inflight(o)' \/ j \in Tickets(o)'
      BY <2>0, <2>2 DEF FinishUnlink, Inflight, Tickets, TicketBeforeUnlink
    <3> QED BY <2>0, <2>2, <3>1, <1>c, <1>d DEF FinishUnlink, Submitting, Tickets
  <2> QED BY <1>4, <2>1, <2>2 DEF FinishStep
<1>5. ASSUME CheckStep PROVE Await'
  <2>1. CASE TickStart
    <3>1. fin.job = NoJob
      BY <2>1, <1>b DEF TickStart, FinishRecord
    <3>2. NoneDisowned(o) => \A j \in Inflight(o) : j \in Inflight(o)' \/ j \in Tickets(o)
      BY <2>1, <3>1, <1>a, <1>b, JobMgrAssumption
         DEF TickStart, Inflight, Tickets, DroppedAreTold, NoneDisowned
    <3> QED BY <2>1, <3>2, <1>c, <1>d DEF TickStart, Submitting, Tickets
  <2>2. ~TickStart => /\ UNCHANGED <<submit, pendingDir, runningDir, wakesDir, sleepCli, mail, misled>>
                      /\ pc' # "settle"
    BY <1>5 DEF CheckStep, TickListRunning, TickListWakes, TickOrphan, CheckFinished,
                CheckWaits, CheckGone
  <2> QED BY <2>1, <2>2, <1>1
<1>6. ASSUME DeliverStep PROVE Await'
  <2> USE <1>a
  <2>1. ASSUME NEW p \in Owners, DeliverHold(p) \/ DeliverWait(p) \/ DeliverCall(p)
        PROVE  Await'
    BY <2>1, <1>1 DEF DeliverHold, DeliverWait, DeliverCall
  <2>2. CASE InterruptSucceeds
    <3>1. call.owner # o
      BY <2>2, <1>b DEF InterruptSucceeds, Boot, CallTells
    <3> QED BY <2>2, <3>1, <1>b, <1>c, <1>d
            DEF InterruptSucceeds, Boot, CallTells, Submitting, Inflight, Tickets
  <2>3. CASE AppendSucceeds
    <3>1. /\ call.owner \in Owners /\ Body # {}
          /\ UNCHANGED <<submit, pendingDir, runningDir, wakesDir, sleepCli, call, misled>>
          /\ mail' = [mail EXCEPT ![call.owner] = @ \cup Body]
      BY <2>3, <1>b DEF AppendSucceeds, CallTells, Body
    <3> QED BY <3>1, <1>c, <1>d DEF Submitting, Inflight, Tickets
  <2>4. ASSUME NEW i \in Jobs, SettleTicket(i) PROVE Await'
    <3>1. /\ sleepCli[o] # "idle" /\ i \in Tickets(call.owner) /\ pc = "settle"
          /\ UNCHANGED <<submit, pendingDir, runningDir, sleepCli, mail, pc, call, misled>>
          /\ wakesDir' = wakesDir \ {i}
      BY <2>4 DEF SettleTicket
    <3>2. CASE call.owner = o
      BY <3>1, <3>2, <1>d DEF Submitting, Inflight, Tickets
    <3>3. CASE call.owner # o
      BY <3>1, <3>3, <1>c, <1>d DEF Submitting, Inflight, Tickets
    <3> QED BY <3>2, <3>3
  <2>5. CASE SettleMarker
    BY <2>5, <1>1 DEF SettleMarker
  <2> QED BY <1>6, <2>1, <2>2, <2>3, <2>4, <2>5 DEF DeliverStep
<1>7. ASSUME StaleStep PROVE Await'
  BY <1>7, <1>1
     DEF StaleStep, TickListSleepers, TickEnd, DaemonRestart, StaleWaits, StaleAlerts
<1>8. ASSUME Environment PROVE Await'
  <2>1. CASE LimitStrikes \/ LimitResets \/ CallRefused \/ DaemonCrash
    BY <2>1, <1>1 DEF LimitStrikes, LimitResets, CallRefused, CallFailed, DaemonCrash
  <2>2. ASSUME NEW i \in Jobs, BackoffElapses(i) PROVE Await'
    BY <2>2, <1>1 DEF BackoffElapses
  <2>3. CASE CallTimesOut \/ InterruptUnverified
    <3>1. /\ UNCHANGED <<submit, pendingDir, runningDir, wakesDir, misled>>
          /\ pc' = "deliver"
      BY <2>3 DEF CallTimesOut, InterruptUnverified, CallFailed
    <3>2. sleepCli[o] # "idle" /\ mail[o] \subseteq mail'[o]
      BY <2>3, <1>a, <1>b DEF CallTimesOut, InterruptUnverified, KilledWithMail, CallFailed,
                              CallTells
    <3> QED BY <1>1, <3>1, <3>2
  <2> QED BY <1>8, <2>1, <2>2, <2>3 DEF Environment, CallFault
<1>9. CASE UNCHANGED vars
  BY <1>9, <1>1 DEF vars
<1> QED BY <1>2, <1>3, <1>4, <1>5, <1>6, <1>7, <1>8, <1>9 DEF Next, DaemonStep

\* A parked owner has something that will wake it, for any number of jobs and
\* owners, deaths of the daemon and failed calls, unless one of the two steps that
\* lose a wake is taken; the owner that parked on a told ticket is excepted.
THEOREM SleepersHaveAWaker == Spec /\ [][NoWakeLost]_vars => []ParkedHasAWaker
<1>1. SleepInv => ParkedHasAWaker
  BY DEF SleepInv, SleepersAwait, ParkedHasAWaker, ParkedAndGone, NoneDisowned, Awaited
<1>2. SleepInv /\ [Next]_vars /\ [NoWakeLost]_vars => SleepInv'
  BY SleepStep, StutterLosesNothing
<1> QED BY <1>1, <1>2, SleepInit, PTL DEF Spec

\* The step to exclude for the promise without an exception: a --sleep that finds
\* nothing but the ticket of a message just appended to the owner's mailbox.
NoToldTicketTrusted == \A o \in Owners : SleepCheck(o) => ~ParksOnToldTicket(o)

\* Nobody else is ever misled.
LEMMA NobodyMisled ==
    ASSUME TypeOK, misled = {}, [Next]_vars, [NoToldTicketTrusted]_vars
    PROVE  misled' = {}
<1>1. NoToldTicketTrusted \/ UNCHANGED vars
  OBVIOUS
<1> USE DEF submitVars, recordVars, ticketVars, ownerVars, daemonVars, faultVars
<1>2. CASE UNCHANGED vars
  BY <1>2 DEF vars
<1>3. ASSUME NEW o \in Owners, OwnerStep(o), NoToldTicketTrusted PROVE misled' = {}
  BY <1>3 DEF NoToldTicketTrusted, OwnerStep, SleepCheck, SleepTouch, SleepSetState,
       SleepMark, EndTurn, OwnerDies, ReadMailbox, WatchdogRevives, InboxRevives
<1>4. ASSUME NEW j \in Jobs, SubmitStep(j) PROVE misled' = {}
  BY <1>4 DEF SubmitStep, SubmitPending, SubmitDispatch, SubmitDispatchFails,
       SubmitPromote, SubmitExit, SubmitCrash, PendingAges, Adopt, WorkFinishes,
       WorkVanishes
<1>5. ASSUME FinishStep \/ CheckStep PROVE misled' = {}
  BY <1>5 DEF FinishStep, FinishPublish, FinishTicket, FinishUnlink, CheckStep,
       TickStart, TickListRunning, TickListWakes, TickOrphan, CheckFinished,
       CheckWaits, CheckGone
<1>6. ASSUME DeliverStep \/ StaleStep PROVE misled' = {}
  BY <1>6 DEF DeliverStep, DeliverHold, DeliverWait, DeliverCall, InterruptSucceeds,
       AppendSucceeds, SettleTicket, SettleMarker, StaleStep, TickListSleepers,
       TickEnd, DaemonRestart, StaleWaits, StaleAlerts
<1>7. ASSUME Environment PROVE misled' = {}
  BY <1>7 DEF Environment, LimitStrikes, LimitResets, BackoffElapses, CallFault,
       CallRefused, InterruptUnverified, CallTimesOut, CallFailed, DaemonCrash
<1> QED BY <1>1, <1>2, <1>3, <1>4, <1>5, <1>6, <1>7 DEF Next, DaemonStep

\* Without such a --sleep either, every parked owner has something that wakes it.
THEOREM NobodyIsForgotten ==
    Spec /\ [][NoWakeLost]_vars /\ [][NoToldTicketTrusted]_vars
        => []NobodyParksForNothing
<1>1. Init => misled = {}
  BY DEF Init
<1>2. ParkedHasAWaker /\ misled = {} => NobodyParksForNothing
  BY DEF ParkedHasAWaker, NobodyParksForNothing
<1>3. TypeOK /\ misled = {} /\ [Next]_vars /\ [NoToldTicketTrusted]_vars
          => (misled = {})'
  BY NobodyMisled
<1> QED BY <1>1, <1>2, <1>3, TypeCorrect, SleepersHaveAWaker, PTL DEF Spec

-----------------------------------------------------------------------------
(* The job manager implements the safety part of WakeService.  Each step   *)
(* moves the phases of a set of jobs, of one or of a batch, or none.       *)

phaseBar == [j \in Jobs |-> WakePhase(j)]

LEMMA MoveTo ==
    ASSUME NEW S \in SUBSET Jobs, NEW from, NEW to,
           \A j \in S : WakePhase(j) = from /\ WakePhase(j)' = to,
           \A j \in Jobs \ S : WakePhase(j)' = WakePhase(j)
    PROVE  Service!Move(S, from, to)
BY DEF Service!Move

\* Nobody has submitted: all jobs are new.
LEMMA RefinesInit == Init => Service!Init
BY DEF Init, Service!Init, WakePhase

\* One step per action that moves a phase.
LEMMA RefinesStep ==
    ASSUME RecordInv, FiledInv, [Next]_vars, NoWakeLost
    PROVE  [Service!Next]_phaseBar
<1> DEFINE Implemented == [Service!Next]_phaseBar
<1> SUFFICES Implemented
  OBVIOUS
<1> USE DEF submitVars, recordVars, ticketVars, ownerVars, daemonVars, faultVars
<1>a. /\ submit \in [Jobs -> SubmitStates] /\ fin \in Finishes
      /\ doneDir \in [Jobs -> {"none", "done", "died"}]
      /\ sent \in [Jobs -> 0..2] /\ wakesDir \subseteq Jobs
      /\ pendingDir \subseteq Jobs /\ runningDir \subseteq Jobs
      /\ msg \in [Owners -> SUBSET Jobs]
  BY DEF RecordInv, WakeInv, TypeOK
<1>b. /\ SubmitRecords /\ PassRecords /\ FinishRecord /\ CallTells
      /\ Owed /\ UnlinkedAreTold /\ Submitted /\ TicketBeforeUnlink
  BY DEF RecordInv, Placed, WakeInv
<1>c. FiledSubmits
  BY DEF FiledInv
<1>1. ASSUME \A j \in Jobs : WakePhase(j)' = WakePhase(j) PROVE Implemented
  BY <1>1 DEF phaseBar
<1>2. ASSUME UNCHANGED <<submit, pendingDir, runningDir, wakesDir, sent>>
      PROVE  Implemented
  BY <1>1, <1>2 DEF WakePhase
<1>3. ASSUME NEW i \in Jobs,
             \/ WakePhase(i) = "new" /\ WakePhase(i)' = "inflight"
             \/ WakePhase(i) = "inflight" /\ WakePhase(i)' = "refused"
             \/ WakePhase(i) = "inflight" /\ WakePhase(i)' = "due" /\ i \notin NoWake
             \/ WakePhase(i) = "inflight" /\ WakePhase(i)' = "closed" /\ i \in NoWake
             \/ WakePhase(i)' = WakePhase(i),
             \A j \in Jobs \ {i} : WakePhase(j)' = WakePhase(j)
      PROVE  Implemented
  <2>1. CASE WakePhase(i)' = WakePhase(i)
    BY <1>1, <1>3, <2>1
  <2>2. CASE WakePhase(i) = "inflight" /\ WakePhase(i)' = "closed" /\ i \in NoWake
    <3>1. Service!Close({i})
      BY <1>3, <2>2, MoveTo DEF Service!Close
    <3> QED BY <3>1 DEF Service!Next
  <2>3. CASE WakePhase(i) = "new" /\ WakePhase(i)' = "inflight"
    BY <1>3, <2>3, MoveTo DEF Service!Accept, Service!Next
  <2>4. CASE WakePhase(i) = "inflight" /\ WakePhase(i)' = "refused"
    BY <1>3, <2>4, MoveTo DEF Service!Refuse, Service!Next
  <2>5. CASE WakePhase(i) = "inflight" /\ WakePhase(i)' = "due" /\ i \notin NoWake
    BY <1>3, <2>5, MoveTo DEF Service!Complete, Service!Next
  <2> QED BY <1>3, <2>1, <2>2, <2>3, <2>4, <2>5
<1>4. ASSUME NEW i \in Jobs, SubmitStep(i) PROVE Implemented
  <2> USE <1>a, <1>b DEF SubmitRecords, Submitted, Nowhere, WakePhase
  <2>1. CASE SubmitPending(i) BY <2>1, <1>3 DEF SubmitPending
  <2>2. CASE SubmitDispatch(i) BY <2>2, <1>1 DEF SubmitDispatch
  <2>3. CASE SubmitDispatchFails(i) BY <2>3, <1>1 DEF SubmitDispatchFails
  <2>4. CASE SubmitPromote(i) BY <2>4, <1>1 DEF SubmitPromote
  <2>5. CASE SubmitExit(i)
    <3>1. CASE submit[i] = "failing"
      BY <2>5, <3>1, <1>3 DEF SubmitExit
    <3>2. CASE submit[i] = "promoted"
      <4>1. i \in runningDir \/ Finished(i)
        BY <3>2, <1>c DEF FiledSubmits
      <4>2. i \notin runningDir /\ WakeJob(i) => Told(i)
        BY <3>2, <4>1 DEF Owed, KnownElsewhere, FinishRecord, Finishes
      <4>3. /\ submit' = [submit EXCEPT ![i] = "exited"] /\ pendingDir' = pendingDir \ {i}
            /\ UNCHANGED <<runningDir, wakesDir, sent>>
        BY <2>5, <3>2 DEF SubmitExit
      <4>4. i \in pendingDir
        BY <3>2
      <4> QED BY <3>2, <4>2, <4>3, <4>4, <1>3 DEF WakeJob, Told
    <3> QED BY <2>5, <3>1, <3>2 DEF SubmitExit, Promoted
  <2>6. CASE SubmitCrash(i) BY <2>6, <1>1 DEF SubmitCrash
  <2>7. CASE PendingAges(i) BY <2>7, <1>2 DEF PendingAges
  <2>8. CASE Adopt(i) BY <2>8, <1>3 DEF Adopt
  <2>9. CASE WorkFinishes(i) BY <2>9, <1>2 DEF WorkFinishes
  <2>10. CASE WorkVanishes(i) BY <2>10, <1>2 DEF WorkVanishes
  <2> QED BY <1>4, <2>1, <2>2, <2>3, <2>4, <2>5, <2>6, <2>7, <2>8, <2>9,
             <2>10 DEF SubmitStep
<1>5. ASSUME FinishStep PROVE Implemented
  <2> USE <1>a, <1>b DEF FinishRecord, Finishes, WakePhase
  <2>1. CASE FinishPublish BY <2>1, <1>2 DEF FinishPublish
  <2>2. CASE FinishTicket BY <2>2, <1>3 DEF FinishTicket, NewTicket, WakeJob
  <2>3. CASE FinishUnlink
    BY <2>3, <1>3 DEF FinishUnlink, UnlinkedAreTold, Told, WakeJob
  <2> QED BY <1>5, <2>1, <2>2, <2>3 DEF FinishStep
<1>6. CASE TickStart
  <2> DEFINE S == {j \in Jobs : WakePhase(j)' # WakePhase(j)}
  <2>1. /\ runningDir' = {j \in runningDir : ~Finished(j)} /\ fin.job = NoJob
        /\ UNCHANGED <<submit, pendingDir, wakesDir, sent>>
    BY <1>6, <1>b DEF TickStart, FinishRecord
  <2>2. \A j \in S : /\ j \in NoWake
                     /\ WakePhase(j) = "inflight" /\ WakePhase(j)' = "closed"
    BY <2>1, <1>a, <1>b DEF WakePhase, Owed, KnownElsewhere, Told, WakeJob, Submitted
  <2>3. Service!Close(S)
    BY <2>2, MoveTo DEF Service!Close
  <2> QED BY <2>3 DEF Service!Next
<1>7. ASSUME CheckStep, ~TickStart PROVE Implemented
  BY <1>7, <1>2 DEF CheckStep, TickListRunning, TickListWakes, TickOrphan,
                    CheckFinished, CheckWaits, CheckGone
<1>8. ASSUME pc = "calling", SendBody,
             UNCHANGED <<submit, pendingDir, runningDir, wakesDir>>
      PROVE  Implemented
  <2> DEFINE S == {j \in Body : sent[j] = 0}
  <2>1. call.owner \in Owners /\ Body \subseteq Jobs /\ S \subseteq Tickets(call.owner)
    BY <1>8, <1>a, <1>b DEF CallTells, Body, Tickets
  <2>2. \A j \in Jobs : IF j \in Body THEN sent'[j] > 0 ELSE sent'[j] = sent[j]
    BY <1>8, <1>a DEF SendBody, Count
  <2>3. \A j \in S : WakePhase(j) = "due" /\ WakePhase(j)' = "handed"
    BY <1>8, <1>a, <1>b, <2>1, <2>2 DEF Tickets, WakePhase, Submitted, Nowhere
  <2>4. \A j \in Jobs \ S : WakePhase(j)' = WakePhase(j)
    BY <1>8, <1>a, <2>1, <2>2 DEF WakePhase
  <2>5. CASE S = {}
    BY <1>1, <2>4, <2>5
  <2>6. CASE S # {}
    <3>1. S \in SUBSET Jobs
      BY <2>1
    <3>2. Service!Move(S, "due", "handed")
      BY <2>3, <2>4, <3>1, MoveTo
    <3>3. Service!HandOver(call.owner, S)
      BY <2>1, <2>6, <3>2 DEF Service!HandOver, Tickets
    <3> QED BY <2>1, <3>1, <3>3 DEF Service!Next
  <2> QED BY <2>5, <2>6
<1>9. ASSUME InterruptSucceeds \/ AppendSucceeds \/ CallTimesOut \/ InterruptUnverified
      PROVE  Implemented
  BY <1>9, <1>8 DEF InterruptSucceeds, AppendSucceeds, CallTimesOut, InterruptUnverified,
                    CallFailed, KilledWithMail
<1>10. ASSUME NEW i \in Jobs, SettleTicket(i) PROVE Implemented
  BY <1>10, <1>1, <1>a, <1>b DEF SettleTicket, CallTells, WakePhase
<1>11. CASE DaemonCrash \/ UNCHANGED vars
  BY <1>11, <1>2 DEF DaemonCrash, vars
<1> QED BY <1>2, <1>4, <1>5, <1>6, <1>7, <1>9, <1>10, <1>11, Elsewhere
        DEF Next, DaemonStep, DeliverStep, Environment, CallFault

\* The job manager implements the wake service, as far as safety goes: each job goes
\* through the phases in order and is handed over with a batch of its own owner's,
\* for any number of jobs and owners, with and without wakes, adopted ones too, and
\* however often it is killed, but for the two steps that lose a wake.
THEOREM ImplementsSafely == Spec /\ [][NoWakeLost]_vars => Service!Safety
<1>1. RecordInv /\ [Next]_vars /\ [NoWakeLost]_vars => RecordInv'
  BY RecordStep, StutterLosesNothing
<1>2. RecordInv /\ FiledInv /\ [Next]_vars /\ [NoWakeLost]_vars => [Service!Next]_phaseBar
  BY RefinesStep, StutterLosesNothing
<1> QED BY <1>1, <1>2, RecordInit, FiledInit, FiledStep, RefinesInit, PTL
        DEF Spec, Service!Safety, phaseBar
=============================================================================
