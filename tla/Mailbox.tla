------------------------------ MODULE Mailbox ------------------------------
(***************************************************************************)
(* One worker's mail path: how a message reaches the prompt of the         *)
(* worker's claude although the worker is killed and rebooted at any time, *)
(* often in order to deliver that very message.                            *)
(*                                                                         *)
(*   scratch_inbox_deliver.sh    a user's mail to a live worker: append,   *)
(*                               then coalesce into a boot or interrupt    *)
(*   scratch_interrupt_worker.sh the interrupt itself: splice, stamp, kill,*)
(*                               relaunch (jobmgr and agents call it too)  *)
(*   scratch_mailbox_append.sh   a relay that does not interrupt           *)
(*   scratch_gen_relaunch.sh     the boot: drain, park in inflight, claude *)
(*   scratch_read_mailbox.sh     a live claude's own poll                  *)
(*   scratch_inbox_loop.sh, scratch_watchdog.py  relaunch of a dead worker *)
(*                                                                         *)
(* Everything that happens under the mailbox's flock is one step.  Three   *)
(* facts of timing are guards: the two writes that follow a drain are      *)
(* sooner than the python process an interrupter starts before its splice; *)
(* a claude looks at its prompt within the 180 s of the deadman; a         *)
(* relaunch drains within BOOT_FRESH_S or is dead.                         *)
(***************************************************************************)
EXTENDS Naturals

CONSTANTS
    Msgs,
    Kind,       \* how each message arrives: "user", "relay", "interrupt"
    Boots,      \* nonces; one is reused only when nothing refers to it
    NoBoot,
    NoMsg,
    Races       \* which narrow races may happen: a boot "drain" between an
                \* interrupter's splice and its kill, a kill during a "poll"

ASSUME MailboxAssumption ==
    /\ Kind \in [Msgs -> {"user", "relay", "interrupt"}]
    /\ NoBoot \notin Boots /\ NoMsg \notin Msgs
    /\ Races \subseteq {"drain", "poll"}

VARIABLES
    mailbox,    \* mailbox_<name>.md
    inflight,   \* inflight_<name>.md
    gen,        \* inflight_<name>.gen
    marker,     \* relaunching_<name> exists
    boot,       \* the nonce of the pane that runs, NoBoot without a session
    stage,      \* how far the relaunch script in the pane is
    bootMail,   \* what that script drained: its variable, later the prompt
    deadmen,    \* the boots whose deadman subshell still sleeps
    polled,     \* drained by a poll whose output claude has not yet seen
    reviving,   \* a reviver has found the worker dead and is about to act
    caller,     \* where the delivery in progress stands
    current,    \* ... and its message
    delivered,  \* messages appended so far
    coalesced,  \* messages left to the boot that was under way
    seen        \* messages a claude had in front of it

files == <<mailbox, inflight, gen, marker>>
pane  == <<boot, stage, bootMail>>
vars  == <<files, pane, deadmen, polled, reviving, caller, current, delivered,
           coalesced, seen>>

Stages  == {"none", "boot", "drained", "parked", "claude"}
Callers == {"idle", "check", "splice", "stamp", "kill", "start"}

TypeOK ==
    /\ mailbox \subseteq Msgs /\ inflight \subseteq Msgs
    /\ gen \in Boots \cup {NoBoot} /\ marker \in BOOLEAN
    /\ boot \in Boots \cup {NoBoot} /\ stage \in Stages
    /\ boot = NoBoot <=> stage = "none"
    /\ bootMail \subseteq Msgs /\ deadmen \subseteq Boots
    /\ polled \subseteq Msgs /\ reviving \in BOOLEAN
    /\ caller \in Callers /\ current \in Msgs \cup {NoMsg}
    /\ current = NoMsg <=> caller = "idle"
    /\ delivered \subseteq Msgs /\ coalesced \subseteq Msgs
    /\ seen \subseteq Msgs

Alive   == stage # "none"
Idle    == caller = "idle"

\* The worker starts with a claude that has read its task.
Init ==
    /\ mailbox = {} /\ inflight = {} /\ gen = NoBoot /\ marker = FALSE
    /\ boot \in Boots /\ stage = "claude" /\ bootMail = {}
    /\ deadmen = {} /\ polled = {} /\ reviving = FALSE
    /\ caller = "idle" /\ current = NoMsg
    /\ delivered = {} /\ coalesced = {} /\ seen = {}

-----------------------------------------------------------------------------
(* Delivering.                                                             *)

\* The append, under the flock.  A relay ends here, and so does user mail for
\* a dead worker, which the inbox loop will relaunch.
Append(m) ==
    /\ Idle /\ m \notin delivered
    /\ mailbox' = mailbox \cup {m}
    /\ delivered' = delivered \cup {m}
    /\ caller' = IF Kind[m] = "interrupt" THEN "splice"
                 ELSE IF Kind[m] = "user" /\ Alive THEN "check"
                 ELSE "idle"
    /\ current' = IF caller' = "idle" THEN NoMsg ELSE m
    /\ UNCHANGED <<inflight, gen, marker, pane, deadmen, polled, coalesced,
                   seen, reviving>>

\* The boot coalesce: a marker seen under the flock proves that the boot has
\* not drained yet and will scoop the message.
BootSeenBeforeTheLock == marker \/ stage = "drained"      \* mutant
BootSeen == marker
Coalesce ==
    /\ caller = "check" /\ BootSeen
    /\ coalesced' = coalesced \cup {current}
    /\ caller' = "idle" /\ current' = NoMsg
    /\ UNCHANGED <<files, pane, deadmen, polled, reviving, delivered, seen>>

\* No marker, or one older than BOOT_FRESH_S that a crashed boot has left.
NoBootUnderWay ==
    /\ caller = "check"
    /\ caller' = "splice"
    /\ UNCHANGED <<files, pane, deadmen, polled, reviving, current, delivered,
                   coalesced, seen>>

\* 1.6: what the last boot drained and has not plausibly read goes back into
\* the mailbox.  A blob whose boot is gone may be more than 600 s old: dropped.
NotReinjected == mailbox                                  \* mutant
Reinjected == mailbox \cup inflight
Splice ==
    /\ caller = "splice" /\ stage # "drained"
    /\ \/ mailbox' = Reinjected
       \/ gen # boot /\ mailbox' = mailbox
    /\ inflight' = {} /\ gen' = NoBoot
    /\ caller' = "stamp"
    /\ UNCHANGED <<marker, pane, deadmen, polled, reviving, current, delivered,
                   coalesced, seen>>

\* 2: the boot marker (with the guard stamps, the sentinel and the roster).
Stamp ==
    /\ caller = "stamp"
    /\ marker' = TRUE
    /\ caller' = "kill"
    /\ UNCHANGED <<mailbox, inflight, gen, pane, deadmen, polled, reviving,
                   current, delivered, coalesced, seen>>

PaneGoneHalf == boot' = boot /\ stage' = "none" /\ bootMail' = {} \* mutant
PaneGone == boot' = NoBoot /\ stage' = "none" /\ bootMail' = {}

\* 3: the surgical kill leaves the deadman alive; before claude runs there is
\* none to kill and tmux kill-session takes the whole pane.
Kill ==
    /\ caller = "kill"
    /\ polled = {} \/ "poll" \in Races
    /\ PaneGone
    /\ deadmen' = IF stage = "claude" THEN deadmen ELSE deadmen \ {boot}
    /\ polled' = {}
    /\ caller' = "start"
    /\ UNCHANGED <<files, reviving, current, delivered, coalesced, seen>>

FreshBoot(b) ==
    /\ b \in Boots \ ({gen} \cup deadmen)
    /\ boot' = b /\ stage' = "boot" /\ bootMail' = {}

\* 4, 5: tmux new-session (it refuses when somebody else was faster), verify.
Start ==
    /\ caller = "start"
    /\ IF Alive THEN UNCHANGED pane ELSE \E b \in Boots : FreshBoot(b)
    /\ caller' = "idle" /\ current' = NoMsg
    /\ UNCHANGED <<files, deadmen, polled, reviving, delivered, coalesced,
                   seen>>

\* rc 3: the session did not come up, and the marker is withdrawn.
StartFails ==
    /\ caller = "start" /\ ~Alive
    /\ marker' = FALSE
    /\ caller' = "idle" /\ current' = NoMsg
    /\ UNCHANGED <<mailbox, inflight, gen, pane, deadmen, polled, reviving,
                   delivered, coalesced, seen>>

\* The inbox loop (unread mail) or the watchdog finds the worker dead and the
\* stamps old (from a splice to the new session is a fraction of a second) ...
FoundDeadUnmarked ==                                      \* mutant
    ~Alive /\ ~marker /\ caller \in {"idle", "check", "splice"}
FoundDead == ~Alive /\ caller \in {"idle", "check", "splice"}
NoticeDead ==
    /\ FoundDead /\ ~reviving
    /\ reviving' = TRUE
    /\ UNCHANGED <<files, pane, deadmen, polled, caller, current, delivered,
                   coalesced, seen>>

\* ... and starts it, without a boot marker; tmux refuses a second session.
Revive ==
    /\ reviving
    /\ reviving' = FALSE
    /\ IF Alive THEN UNCHANGED pane ELSE \E b \in Boots : FreshBoot(b)
    /\ UNCHANGED <<files, deadmen, polled, caller, current, delivered,
                   coalesced, seen>>

-----------------------------------------------------------------------------
(* The relaunch script and its claude.                                     *)

\* Under the flock: the mailbox goes into MAIL_CONTENT, the marker away.
Drain ==
    /\ stage = "boot"
    /\ caller \notin {"stamp", "kill"} \/ "drain" \in Races
    /\ stage' = "drained"
    /\ bootMail' = mailbox
    /\ mailbox' = {} /\ marker' = FALSE
    /\ UNCHANGED <<inflight, gen, boot, deadmen, polled, reviving, caller,
                   current, delivered, coalesced, seen>>

\* The blob, its nonce, and the deadman, if there was mail.
Park ==
    /\ stage = "drained"
    /\ stage' = "parked"
    /\ IF bootMail = {} THEN UNCHANGED <<inflight, gen, deadmen>>
       ELSE /\ inflight' = bootMail /\ gen' = boot
            /\ deadmen' = deadmen \cup {boot}
    /\ UNCHANGED <<mailbox, marker, boot, bootMail, polled, reviving, caller,
                   current, delivered, coalesced, seen>>

Launch ==
    /\ stage = "parked"
    /\ stage' = "claude"
    /\ UNCHANGED <<files, boot, bootMail, deadmen, polled, reviving, caller,
                   current, delivered, coalesced, seen>>

\* The resumed claude's first act is to answer the message in its prompt.
Answer ==
    /\ stage = "claude" /\ ~(bootMail \subseteq seen)
    /\ seen' = seen \cup bootMail
    /\ UNCHANGED <<files, pane, deadmen, polled, reviving, caller, current,
                   delivered, coalesced>>

\* The nonce keeps a deadman and a wrapper from clearing a newer boot's blob.
AnyBlob(b) == TRUE                                        \* mutant
OwnBlob(b) == gen = b
ClearBlob(b) ==
    IF OwnBlob(b) THEN inflight' = {} /\ gen' = NoBoot
                  ELSE UNCHANGED <<inflight, gen>>

\* 180 s after the boot; by then a claude that still runs has answered.
Deadman(b) ==
    /\ b \in deadmen
    /\ b = boot => stage = "claude" /\ bootMail \subseteq seen
    /\ deadmen' = deadmen \ {b}
    /\ ClearBlob(b)
    /\ UNCHANGED <<mailbox, marker, pane, polled, reviving, caller, current,
                   delivered, coalesced, seen>>

\* "once claude has run, the injected mail counts as processed"
Exit ==
    /\ stage = "claude" /\ polled = {}
    /\ seen' = seen \cup bootMail
    /\ PaneGone
    /\ ClearBlob(boot)
    /\ UNCHANGED <<mailbox, marker, deadmen, polled, reviving, caller, current,
                   delivered, coalesced>>

\* The relaunch script dies before it has drained anything.
BootDies ==
    /\ stage = "boot"
    /\ PaneGone
    /\ UNCHANGED <<files, deadmen, polled, reviving, caller, current,
                   delivered, coalesced, seen>>

\* A poll from one of claude's tool calls: the ancestor check, then the drain.
PollDrains ==
    /\ stage = "claude" /\ mailbox # {} /\ polled = {}
    /\ polled' = mailbox
    /\ mailbox' = {}
    /\ UNCHANGED <<inflight, gen, marker, pane, deadmen, reviving, caller,
                   current, delivered, coalesced, seen>>

\* ... and its output reaches claude.
PollReturns ==
    /\ polled # {}
    /\ seen' = seen \cup polled
    /\ polled' = {}
    /\ UNCHANGED <<files, pane, deadmen, reviving, caller, current, delivered,
                   coalesced>>

-----------------------------------------------------------------------------
Deliver ==
    \/ Coalesce \/ NoBootUnderWay \/ Splice \/ Stamp \/ Kill \/ Start
    \/ StartFails

BootStep == Drain \/ Park \/ Launch

Next ==
    \/ \E m \in Msgs : Append(m)
    \/ Deliver \/ NoticeDead \/ Revive
    \/ BootStep \/ Answer \/ Exit \/ BootDies
    \/ \E b \in Boots : Deadman(b)
    \/ PollDrains \/ PollReturns

\* A delivery and a boot go on; the revivers come round; a claude that runs
\* looks at its prompt and, from time to time, at its mailbox.  Boots may die
\* again and again, but not for ever before they drain.
Fairness ==
    /\ WF_vars(Deliver)
    /\ WF_vars(NoticeDead /\ mailbox # {}) /\ WF_vars(Revive)
    /\ SF_vars(Drain) /\ WF_vars(Park) /\ WF_vars(Launch)
    /\ WF_vars(Answer) /\ SF_vars(PollDrains) /\ WF_vars(PollReturns)
    /\ \A b \in Boots : WF_vars(Deadman(b))

Spec == Init /\ [][Next]_vars /\ Fairness

-----------------------------------------------------------------------------
(* Properties.                                                             *)

\* A delivered message is in the mailbox, in the hands of the boot or of the
\* poll that drained it, or a claude has seen it: neither the kills nor the
\* drains they race with lose mail (the carry-forward of inflight).
NoMailLost == delivered \subseteq mailbox \cup bootMail \cup polled \cup seen

\* What a boot has drained and its claude has not answered is in the inflight
\* blob under this boot's nonce, or has gone back to the mailbox: it may be
\* killed now.  (No other boot's deadman or exit clears it.)
BlobCoversPrompt ==
    stage \in {"parked", "claude"} =>
        bootMail \subseteq mailbox \cup polled \cup seen
                           \cup (IF gen = boot THEN inflight ELSE {})

\* Mail that was left to the boot under way is not sitting in the mailbox of a
\* claude that has booted without it: its boot has not drained yet, or died.
CoalescedRidesTheBoot ==
    coalesced \cap mailbox # {} /\ Idle => stage \in {"none", "boot"}

\* Every delivered message comes before a claude.
EveryMessageIsSeen == \A m \in Msgs : m \in delivered ~> m \in seen
=============================================================================
