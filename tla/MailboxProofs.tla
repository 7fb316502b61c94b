--------------------------- MODULE MailboxProofs ---------------------------
(* Theorems about Mailbox, for every set of messages and boots.            *)
EXTENDS Mailbox, TLAPS

USE MailboxAssumption DEF MailboxAssumption

-----------------------------------------------------------------------------
(* Type correctness.                                                       *)

LEMMA TypeInit == Init => TypeOK
BY DEF Init, TypeOK, Stages, Callers

LEMMA TypeStep == TypeOK /\ [Next]_vars => TypeOK'
<1> SUFFICES ASSUME TypeOK, [Next]_vars PROVE TypeOK'
  OBVIOUS
<1> USE DEF TypeOK, Stages, Callers, files, pane
<1>1. ASSUME NEW m \in Msgs, Append(m) PROVE TypeOK'
  <2>1. /\ caller' \in Callers /\ current' \in Msgs \cup {NoMsg}
        /\ mailbox' \subseteq Msgs /\ delivered' \subseteq Msgs
    BY <1>1 DEF Append
  <2> QED BY <1>1, <2>1 DEF Append
<1>2. CASE Deliver
  <2>1. CASE Coalesce BY <2>1 DEF Coalesce
  <2>2. CASE NoBootUnderWay BY <2>2 DEF NoBootUnderWay
  <2>3. CASE Splice BY <2>3 DEF Splice, Reinjected
  <2>4. CASE Stamp BY <2>4 DEF Stamp
  <2>5. CASE Kill BY <2>5 DEF Kill, PaneGone
  <2>6. CASE Start BY <2>6 DEF Start, FreshBoot
  <2>7. CASE StartFails BY <2>7 DEF StartFails
  <2> QED BY <1>2, <2>1, <2>2, <2>3, <2>4, <2>5, <2>6, <2>7 DEF Deliver
<1>3. CASE NoticeDead BY <1>3 DEF NoticeDead
<1>4. CASE Revive BY <1>4 DEF Revive, FreshBoot
<1>5. CASE BootStep
  <2>1. CASE Drain BY <2>1 DEF Drain
  <2>2. CASE Park BY <2>2 DEF Park
  <2>3. CASE Launch BY <2>3 DEF Launch
  <2> QED BY <1>5, <2>1, <2>2, <2>3 DEF BootStep
<1>6. CASE Answer BY <1>6 DEF Answer
<1>7. CASE Exit BY <1>7 DEF Exit, PaneGone, ClearBlob
<1>8. CASE BootDies BY <1>8 DEF BootDies, PaneGone
<1>9. ASSUME NEW b \in Boots, Deadman(b) PROVE TypeOK'
  BY <1>9 DEF Deadman, ClearBlob
<1>10. CASE PollDrains BY <1>10 DEF PollDrains
<1>11. CASE PollReturns BY <1>11 DEF PollReturns
<1>12. CASE UNCHANGED vars BY <1>12 DEF vars
<1> QED
  BY <1>1, <1>2, <1>3, <1>4, <1>5, <1>6, <1>7, <1>8, <1>9, <1>10, <1>11,
     <1>12 DEF Next

\* The type invariant, for every instance.
THEOREM TypeCorrect == Spec => []TypeOK
<1> QED BY TypeInit, TypeStep, PTL DEF Spec

-----------------------------------------------------------------------------
(* What a claude may not have read is in the blob, under every race.  A     *)
(* script that has not drained holds nothing.                               *)

EmptyHanded == stage \in {"none", "boot"} => bootMail = {}

PromptInv == TypeOK /\ BlobCoversPrompt /\ EmptyHanded

LEMMA PromptInit == Init => PromptInv
BY TypeInit DEF Init, PromptInv, BlobCoversPrompt, EmptyHanded

LEMMA PromptStep == PromptInv /\ [Next]_vars => PromptInv'
<1> SUFFICES ASSUME PromptInv, [Next]_vars PROVE PromptInv'
  OBVIOUS
<1>0. TypeOK /\ TypeOK'
  BY TypeStep DEF PromptInv
<1> SUFFICES BlobCoversPrompt' /\ EmptyHanded'
  BY <1>0 DEF PromptInv
<1> USE DEF PromptInv, BlobCoversPrompt, EmptyHanded, files, pane
<1>1. CASE \E m \in Msgs : Append(m) BY <1>1 DEF Append
<1>2. CASE Deliver
  <2>1. CASE Coalesce \/ NoBootUnderWay BY <2>1 DEF Coalesce, NoBootUnderWay
  <2>2. CASE Splice BY <2>2 DEF Splice, Reinjected
  <2>3. CASE Stamp BY <2>3 DEF Stamp
  <2>4. CASE Kill BY <2>4 DEF Kill, PaneGone
  <2>5. CASE Start \/ StartFails BY <2>5 DEF Start, StartFails, FreshBoot, Alive
  <2> QED BY <1>2, <2>1, <2>2, <2>3, <2>4, <2>5 DEF Deliver
<1>3. CASE NoticeDead \/ Revive BY <1>3 DEF NoticeDead, Revive, FreshBoot, Alive
<1>4. CASE BootStep
  <2>1. CASE Drain BY <2>1 DEF Drain
  <2>2. CASE Park BY <2>2 DEF Park
  <2>3. CASE Launch BY <2>3 DEF Launch
  <2> QED BY <1>4, <2>1, <2>2, <2>3 DEF BootStep
<1>5. CASE Answer BY <1>5 DEF Answer
<1>6. CASE Exit \/ BootDies BY <1>6 DEF Exit, BootDies, PaneGone
<1>7. ASSUME NEW b \in Boots, Deadman(b) PROVE BlobCoversPrompt' /\ EmptyHanded'
  \* An own blob goes only when its mail has been answered.
  <2>1. CASE b = boot BY <1>7, <2>1 DEF Deadman, ClearBlob
  <2>2. CASE b # boot BY <1>7, <2>2 DEF Deadman, ClearBlob, OwnBlob
  <2> QED BY <2>1, <2>2
<1>8. CASE PollDrains \/ PollReturns BY <1>8 DEF PollDrains, PollReturns
<1>9. CASE UNCHANGED vars BY <1>9 DEF vars
<1> QED BY <1>1, <1>2, <1>3, <1>4, <1>5, <1>6, <1>7, <1>8, <1>9 DEF Next

\* The inflight blob always covers the prompt of a claude that may not have read
\* it, whatever races: a drain before the kill, a kill during a poll, a deadman or
\* an exit that belongs to another boot.
THEOREM PromptCovered == Spec => []BlobCoversPrompt
<1>1. PromptInv => BlobCoversPrompt BY DEF PromptInv
<1> QED BY <1>1, PromptInit, PromptStep, PTL DEF Spec

-----------------------------------------------------------------------------
(* No mail is lost but by two steps: a boot drains mail nobody has seen     *)
(* between an interrupter's splice and its kill, and a kill hits a poll     *)
(* whose output is nowhere else.  The invariant says why every other kill   *)
(* is harmless: from the splice to the kill, everything in the prompt is in *)
(* the mailbox again or has been seen.                                      *)

DrainBeforeKill ==
    Drain /\ caller \in {"stamp", "kill"} /\ ~(mailbox \subseteq seen)
KillDuringPoll == Kill /\ ~(polled \subseteq mailbox \cup seen)
NoMailRace == ~DrainBeforeKill /\ ~KillDuringPoll

KillIsHarmless ==
    caller \in {"stamp", "kill"} =>
        bootMail \subseteq mailbox \cup polled \cup seen

MailInv == PromptInv /\ NoMailLost /\ KillIsHarmless

LEMMA MailInit == Init => MailInv
BY PromptInit DEF Init, MailInv, NoMailLost, KillIsHarmless

LEMMA MailStep ==
  ASSUME MailInv, [Next]_vars, NoMailRace
  PROVE  MailInv'
<1>0. PromptInv /\ PromptInv' /\ stage \in Stages
  BY PromptStep DEF MailInv, PromptInv, TypeOK
<1> SUFFICES NoMailLost' /\ KillIsHarmless'
  BY <1>0 DEF MailInv
<1> USE DEF MailInv, NoMailLost, KillIsHarmless, files, pane
<1>1. ASSUME NEW m \in Msgs, Append(m) PROVE NoMailLost' /\ KillIsHarmless'
  <2>1. caller' \notin {"stamp", "kill"}
    BY <1>1 DEF Append
  <2> QED BY <1>1, <2>1 DEF Append
<1>2. CASE Deliver
  <2>1. CASE Coalesce BY <2>1 DEF Coalesce
  <2>2. CASE NoBootUnderWay BY <2>2 DEF NoBootUnderWay
  <2>3. CASE Splice
    <3>1. bootMail \subseteq mailbox' \cup polled \cup seen
      <4>1. CASE stage \in {"none", "boot"}
        BY <4>1, <1>0 DEF PromptInv, EmptyHanded
      <4>2. CASE stage \in {"parked", "claude"}
        BY <2>3, <4>2, <1>0 DEF PromptInv, BlobCoversPrompt, Splice, Reinjected
      <4> QED BY <1>0, <2>3, <4>1, <4>2 DEF Splice, Stages
    <3> QED BY <2>3, <3>1 DEF Splice, Reinjected
  <2>4. CASE Stamp BY <2>4 DEF Stamp
  <2>5. CASE Kill BY <2>5 DEF Kill, PaneGone, NoMailRace, KillDuringPoll
  <2>6. CASE Start
    BY <2>6, <1>0 DEF Start, FreshBoot, Alive, PromptInv, EmptyHanded
  <2>7. CASE StartFails BY <2>7 DEF StartFails
  <2> QED BY <1>2, <2>1, <2>2, <2>3, <2>4, <2>5, <2>6, <2>7 DEF Deliver
<1>3. CASE NoticeDead BY <1>3 DEF NoticeDead
<1>4. CASE Revive
  BY <1>4, <1>0 DEF Revive, FreshBoot, Alive, PromptInv, EmptyHanded
<1>5. CASE BootStep
  <2>1. CASE Drain
    BY <2>1, <1>0 DEF Drain, NoMailRace, DrainBeforeKill, PromptInv, EmptyHanded
  <2>2. CASE Park BY <2>2 DEF Park
  <2>3. CASE Launch BY <2>3 DEF Launch
  <2> QED BY <1>5, <2>1, <2>2, <2>3 DEF BootStep
<1>6. CASE Answer BY <1>6 DEF Answer
<1>7. CASE Exit BY <1>7 DEF Exit, PaneGone
<1>8. CASE BootDies
  BY <1>8, <1>0 DEF BootDies, PaneGone, PromptInv, EmptyHanded
<1>9. ASSUME NEW b \in Boots, Deadman(b) PROVE NoMailLost' /\ KillIsHarmless'
  BY <1>9 DEF Deadman
<1>10. CASE PollDrains BY <1>10 DEF PollDrains
<1>11. CASE PollReturns BY <1>11 DEF PollReturns
<1>12. CASE UNCHANGED vars BY <1>12 DEF vars
<1> QED
  BY <1>1, <1>2, <1>3, <1>4, <1>5, <1>6, <1>7, <1>8, <1>9, <1>10, <1>11,
     <1>12 DEF Next

\* Either step changes the stage or the caller.
LEMMA StutterIsNoRace == ASSUME [NoMailRace]_vars, TypeOK PROVE NoMailRace
BY DEF NoMailRace, DrainBeforeKill, KillDuringPoll, Drain, Kill, PaneGone, vars, pane

\* Unless one of the two steps is taken no delivered message is ever lost,
\* however often the worker is interrupted, dies and is revived.
THEOREM MailKept == Spec /\ [][NoMailRace]_vars => []NoMailLost
<1>1. MailInv => NoMailLost BY DEF MailInv
<1>2. MailInv /\ [Next]_vars /\ [NoMailRace]_vars => MailInv'
  BY MailStep, StutterIsNoRace DEF MailInv, PromptInv
<1> QED BY <1>1, <1>2, MailInit, PTL DEF Spec

-----------------------------------------------------------------------------
(* Coalescing is safe under every race: outside an interrupt, neither the   *)
(* marker nor a coalesced message survives the drain of the boot.          *)

MarkerMeansBoot ==
    /\ caller \in {"idle", "check", "start"}
    /\ marker \/ coalesced \cap mailbox # {}
    => stage \in {"none", "boot"}

CoalesceInv ==
    /\ TypeOK /\ MarkerMeansBoot
    /\ coalesced \subseteq delivered
    /\ caller = "check" => current \in delivered

LEMMA CoalesceStep == CoalesceInv /\ [Next]_vars => CoalesceInv'
<1> SUFFICES ASSUME CoalesceInv, [Next]_vars PROVE CoalesceInv'
  OBVIOUS
<1>0. TypeOK /\ TypeOK'
  BY TypeStep DEF CoalesceInv
<1> DEFINE Rest == /\ MarkerMeansBoot /\ coalesced \subseteq delivered
                   /\ caller = "check" => current \in delivered
<1> SUFFICES Rest'
  BY <1>0 DEF CoalesceInv
<1> USE DEF CoalesceInv, MarkerMeansBoot, files, pane
<1>1. ASSUME NEW m \in Msgs, Append(m) PROVE Rest'
  <2>1. coalesced' \cap mailbox' = coalesced \cap mailbox
    BY <1>1 DEF Append
  <2> QED BY <1>1, <2>1 DEF Append, Idle
<1>2. CASE Deliver
  <2>1. CASE Coalesce BY <2>1 DEF Coalesce, BootSeen
  <2>2. CASE NoBootUnderWay BY <2>2 DEF NoBootUnderWay
  <2>3. CASE Splice BY <2>3 DEF Splice
  <2>4. CASE Stamp BY <2>4 DEF Stamp
  <2>5. CASE Kill BY <2>5 DEF Kill, PaneGone
  <2>6. CASE Start BY <2>6 DEF Start, FreshBoot
  <2>7. CASE StartFails BY <2>7 DEF StartFails, Alive
  <2> QED BY <1>2, <2>1, <2>2, <2>3, <2>4, <2>5, <2>6, <2>7 DEF Deliver
<1>3. CASE NoticeDead BY <1>3 DEF NoticeDead
<1>4. CASE Revive BY <1>4 DEF Revive, FreshBoot
<1>5. CASE BootStep
  <2>1. CASE Drain BY <2>1 DEF Drain
  <2>2. CASE Park BY <2>2 DEF Park
  <2>3. CASE Launch BY <2>3 DEF Launch
  <2> QED BY <1>5, <2>1, <2>2, <2>3 DEF BootStep
<1>6. CASE Answer BY <1>6 DEF Answer
<1>7. CASE Exit BY <1>7 DEF Exit, PaneGone
<1>8. CASE BootDies BY <1>8 DEF BootDies, PaneGone
<1>9. ASSUME NEW b \in Boots, Deadman(b) PROVE Rest'
  BY <1>9 DEF Deadman
<1>10. CASE PollDrains BY <1>10 DEF PollDrains
<1>11. CASE PollReturns BY <1>11 DEF PollReturns
<1>12. CASE UNCHANGED vars BY <1>12 DEF vars
<1> QED
  BY <1>1, <1>2, <1>3, <1>4, <1>5, <1>6, <1>7, <1>8, <1>9, <1>10, <1>11,
     <1>12 DEF Next

\* Mail that the router leaves to a boot under way is never stranded in the
\* mailbox of the claude that boot starts.
THEOREM CoalesceSafe == Spec => []CoalescedRidesTheBoot
<1>1. Init => CoalesceInv
  <2>1. Init => TypeOK BY TypeInit
  <2> QED BY <2>1 DEF Init, CoalesceInv, MarkerMeansBoot
<1>2. CoalesceInv => CoalescedRidesTheBoot
  BY DEF CoalesceInv, MarkerMeansBoot, CoalescedRidesTheBoot, Idle
<1> QED BY <1>1, <1>2, CoalesceStep, PTL DEF Spec
=============================================================================
