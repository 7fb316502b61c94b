--------------------------- MODULE WatchdogProofs ---------------------------
(* Theorems about Watchdog, for every set of workers and every cap.        *)
EXTENDS Watchdog, TLAPS

USE WatchdogAssumption DEF WatchdogAssumption

-----------------------------------------------------------------------------
(* Type correctness.                                                       *)

LEMMA FreshIsEntry == Fresh \in Entries
BY DEF Fresh, Entries, States

\* The ways in which the code changes an entry keep it an entry.
LEMMA EntryState ==
  ASSUME NEW e \in Entries, NEW s \in States
  PROVE  [e EXCEPT !.state = s] \in Entries
BY DEF Entries

LEMMA EntryAge ==
  ASSUME NEW e \in Entries, NEW a \in {"fresh", "gap", "long", "old"}
  PROVE  [e EXCEPT !.age = a] \in Entries
BY DEF Entries

LEMMA EntryFields ==
  ASSUME NEW e \in Entries
  PROVE  /\ e.state \in States /\ e.relaunched \in 0..MaxRelaunch
         /\ e.dead \in 0..DeadTicks - 1
         /\ e.age \in {"fresh", "gap", "long", "old"}
BY DEF Entries

LEMMA RevivedType ==
  ASSUME TypeOK, NEW w \in Workers
  PROVE  Revived(w) \in [Workers -> Entries]
<1>1. roster[w] \in Entries BY DEF TypeOK
<1>2. [roster[w] EXCEPT !.state = "running", !.age = "fresh"] \in Entries
  BY <1>1 DEF Entries, States
<1> QED BY <1>1, <1>2 DEF Revived, TypeOK

LEMMA RelaunchedType ==
  ASSUME TypeOK, NEW w \in Workers
  PROVE  Relaunched(w) \in Entries
<1>1. copy[w] \in Entries BY DEF TypeOK
<1>2. More(copy[w].relaunched) \in 0..MaxRelaunch
  BY <1>1, EntryFields DEF More
<1> QED BY <1>1, <1>2 DEF Relaunched, Entries, States

LEMMA KeepType ==
  ASSUME TypeOK, NEW w \in Workers, NEW e \in Entries, Keep(w, e)
  PROVE  copy' \in [Workers -> Entries] /\ changed' \in BOOLEAN
BY DEF Keep, TypeOK

LEMMA BootType ==
  ASSUME TypeOK, NEW w \in Workers, Boot(w)
  PROVE  /\ up' \subseteq Workers /\ mail' \subseteq Workers
         /\ finished' \subseteq Workers /\ parked' \subseteq Workers
         /\ parking' \subseteq Workers /\ tail' \in [Workers -> Tails]
BY DEF Boot, TypeOK, Tails

LEMMA StartSessionType ==
  ASSUME TypeOK, NEW w \in Workers, StartSession(w)
  PROVE  /\ up' \subseteq Workers /\ mail' \subseteq Workers
         /\ finished' \subseteq Workers /\ parked' \subseteq Workers
         /\ parking' \subseteq Workers /\ tail' \in [Workers -> Tails]
<1>1. CASE Up(w) BY <1>1 DEF StartSession, TypeOK, runs
<1>2. CASE ~Up(w) BY <1>2, BootType DEF StartSession
<1> QED BY <1>1, <1>2

LEMMA RelaunchType ==
  ASSUME TypeOK, NEW w \in Workers, NEW e \in Entries, Relaunch(w, e)
  PROVE  /\ up' \subseteq Workers /\ mail' \subseteq Workers
         /\ finished' \subseteq Workers /\ parked' \subseteq Workers
         /\ parking' \subseteq Workers /\ tail' \in [Workers -> Tails]
         /\ copy' \in [Workers -> Entries] /\ changed' \in BOOLEAN
         /\ stamp' \subseteq Workers
<1>1. Boot(w) /\ Keep(w, e) BY DEF Relaunch
<1>2. stamp' \subseteq Workers BY DEF Relaunch, TypeOK
<1> QED BY <1>1, <1>2, BootType, KeepType

LEMMA WorkerType ==
  ASSUME TypeOK, NEW w \in Workers, WorkerStep(w) PROVE TypeOK'
<1> USE DEF TypeOK, files, runs, daemon
<1>1. CASE TouchSentinel(w) BY <1>1 DEF TouchSentinel
<1>2. CASE ParkTouch(w) BY <1>2 DEF ParkTouch
<1>3. CASE ParkState(w)
  <2>1. [roster[w] EXCEPT !.state = "waiting_jobs"] \in Entries
    BY EntryState DEF States
  <2>2. roster' \in [Workers -> Entries] BY <1>3, <2>1 DEF ParkState
  <2> QED BY <1>3, <2>2 DEF ParkState
<1>4. CASE RequestSwitch(w) BY <1>4 DEF RequestSwitch
<1>5. ASSUME NEW how \in {"rc0", "error", "limit"}, Exits(w, how)
      PROVE  TypeOK'
  BY <1>5 DEF Exits, Gone, Tails
<1>6. CASE LeavesForSwitch(w) BY <1>5, <1>6 DEF LeavesForSwitch
<1>7. CASE PaneDies(w) BY <1>7 DEF PaneDies, Gone
<1>8. CASE ReadsMail(w) BY <1>8 DEF ReadsMail
<1> QED
  BY <1>1, <1>2, <1>3, <1>4, <1>5, <1>6, <1>7, <1>8 DEF WorkerStep

LEMMA StarterType ==
  ASSUME TypeOK, NEW w \in Workers, StarterStep(w) PROVE TypeOK'
<1> USE DEF TypeOK, files, daemon
<1>1. CASE InterruptStamps(w)
  <2>1. roster' \in [Workers -> Entries]
    BY <1>1, RevivedType DEF InterruptStamps
  <2>2. intr' \in [Workers -> {"none", "kill", "start"}]
    BY <1>1 DEF InterruptStamps
  <2>3. /\ mail' \subseteq Workers /\ stamp' \subseteq Workers
        /\ sentinel' \subseteq Workers /\ held' \subseteq Workers
        /\ parked' \subseteq Workers
    BY <1>1 DEF InterruptStamps
  <2> QED BY <1>1, <2>1, <2>2, <2>3 DEF InterruptStamps
<1>2. CASE InterruptKills(w) BY <1>2 DEF InterruptKills, Gone
<1>3. CASE InterruptStarts(w)
  <2>1. StartSession(w) BY <1>3 DEF InterruptStarts
  <2> QED BY <1>3, <2>1, StartSessionType DEF InterruptStarts
<1>4. CASE RelayArrives(w) BY <1>4 DEF RelayArrives, runs
<1>5. CASE FollowUp(w) BY <1>5 DEF FollowUp, runs
<1>6. CASE InboxNotices(w) BY <1>6 DEF InboxNotices, runs
<1>7. CASE InboxRevives(w)
  <2>1. StartSession(w) BY <1>7 DEF InboxRevives
  <2>2. roster' \in [Workers -> Entries]
    BY <1>7, RevivedType DEF InboxRevives
  <2> QED BY <1>7, <2>1, <2>2, StartSessionType DEF InboxRevives
<1> QED
  BY <1>1, <1>2, <1>3, <1>4, <1>5, <1>6, <1>7 DEF StarterStep

LEMMA ClockType ==
  ASSUME TypeOK, NEW w \in Workers, ClockStep(w) PROVE TypeOK'
<1> USE DEF TypeOK, files, runs, daemon
<1>1. CASE Ages(w)
  <2>1. Older(roster[w].age) \in {"fresh", "gap", "long", "old"} BY DEF Older
  <2>2. [roster[w] EXCEPT !.age = Older(roster[w].age)] \in Entries
    BY <2>1, EntryAge
  <2>3. roster' \in [Workers -> Entries] /\ copy' \in [Workers -> Entries]
    BY <1>1, <2>2 DEF Ages
  <2>4. spent' \in [Workers -> 0..MaxRelaunch + 1] BY <1>1 DEF Ages
  <2> QED BY <1>1, <2>3, <2>4 DEF Ages
<1>2. CASE StampAges(w) BY <1>2 DEF StampAges
<1>3. CASE ResetPasses(w) BY <1>3 DEF ResetPasses
<1>4. CASE GracePasses(w) BY <1>4 DEF GracePasses
<1>5. CASE HoldWake(w) BY <1>5 DEF HoldWake
<1> QED BY <1>1, <1>2, <1>3, <1>4, <1>5 DEF ClockStep

LEMMA TickWorkerType ==
  ASSUME TypeOK, NEW w \in Workers,
         \/ TickAborts(w) \/ TickSwitches(w) \/ TickSkips(w) \/ TickReset(w)
         \/ TickAlive(w) \/ TickDone(w) \/ TickLimit(w) \/ TickNoMarker(w)
         \/ TickBacksOff(w) \/ TickGivesUp(w) \/ TickInterrupted(w)
         \/ TickEmails(w)
  PROVE  TypeOK'
<1> USE DEF TypeOK, files, runs
<1>a. copy[w] \in Entries OBVIOUS
<1>b. 0 \in 0..DeadTicks - 1 /\ 0 \in 0..MaxRelaunch OBVIOUS
<1>c. \A e \in Entries :
        /\ [e EXCEPT !.dead = 0] \in Entries
        /\ \A s \in States : [e EXCEPT !.state = s, !.dead = 0] \in Entries
  BY <1>b DEF Entries
<1>d. Relaunched(w) \in Entries BY RelaunchedType
<1>e. [copy EXCEPT ![w].dead = 0] \in [Workers -> Entries] BY <1>a, <1>c
<1>f. Spend(w) => spent' \in [Workers -> 0..MaxRelaunch + 1] BY DEF Spend
<1>1. CASE TickAborts(w)
  <2>1. copy' \in [Workers -> Entries] /\ changed' \in BOOLEAN
    BY <1>1 DEF TickAborts
  <2>2. pc' \in {"idle", "scan", "email"}
        /\ (target' = NoWorker <=> pc' # "email")
    BY <1>1 DEF TickAborts, Scanning
  <2> QED BY <1>1, <2>1, <2>2 DEF TickAborts
<1>2. CASE TickSwitches(w)
  <2> DEFINE d == [copy[w] EXCEPT !.dead = Undead(w)]
             r == [copy[w] EXCEPT !.state = "running", !.age = "fresh",
                                  !.dead = Undead(w)]
  <2>1. Undead(w) \in 0..DeadTicks - 1 BY <1>a, <1>b, EntryFields DEF Undead
  <2>2. d \in Entries /\ r \in Entries BY <1>a, <2>1 DEF Entries, States
  <2>3. CASE Relaunch(w, r)
    BY <1>2, <2>2, <2>3, RelaunchType
       DEF TickSwitches, Handled, Scanning, DropRequest
  <2>4. CASE Keep(w, d) /\ UNCHANGED <<runs, mail, stamp>>
    BY <1>2, <2>2, <2>4, KeepType
       DEF TickSwitches, Handled, Scanning, DropRequest
  <2> QED BY <1>2, <2>3, <2>4 DEF TickSwitches
<1>3. CASE TickSkips(w) BY <1>3 DEF TickSkips, Handled
<1>4. CASE TickReset(w)
  <2>1. Relaunch(w, Relaunched(w)) BY <1>4 DEF TickReset
  <2> QED BY <1>4, <1>d, <2>1, RelaunchType DEF TickReset, Handled
<1>5. CASE TickAlive(w)
  <2>1. [copy[w] EXCEPT !.dead = 0, !.relaunched = 0] \in Entries
    BY <1>a, <1>b DEF Entries
  <2>2. \E e \in Entries : Keep(w, e) BY <1>5, <1>a, <1>c, <2>1 DEF TickAlive
  <2>3. copy' \in [Workers -> Entries] /\ changed' \in BOOLEAN
    BY <2>2, KeepType
  <2> QED BY <1>5, <2>3 DEF TickAlive, Handled
<1>6. CASE TickDone(w)
  <2>1. [copy[w] EXCEPT !.state = "done", !.dead = 0] \in Entries
    BY <1>a, <1>c DEF States
  <2>2. copy' \in [Workers -> Entries] /\ changed' \in BOOLEAN
    BY <1>6, <2>1, KeepType DEF TickDone
  <2> QED BY <1>6, <2>2 DEF TickDone, Handled
<1>7. CASE TickLimit(w)
  <2>1. [copy[w] EXCEPT !.state = "waiting_reset", !.dead = 0] \in Entries
    BY <1>a, <1>c DEF States
  <2>2. copy' \in [Workers -> Entries] /\ changed' \in BOOLEAN
    BY <1>7, <2>1, KeepType DEF TickLimit
  <2>3. clock' \in [Workers -> {"future", "past"}] BY <1>7 DEF TickLimit
  <2> QED BY <1>7, <2>2, <2>3 DEF TickLimit, Handled
<1>8. CASE TickNoMarker(w)
  <2>1. copy[w].dead + 1 \in 0..DeadTicks - 1
    BY <1>8, <1>a, EntryFields DEF TickNoMarker, Patient
  <2>2. [copy[w] EXCEPT !.dead = @ + 1] \in Entries
    BY <1>a, <2>1 DEF Entries
  <2>3. copy' \in [Workers -> Entries] /\ changed' \in BOOLEAN
    BY <1>8, <2>2, KeepType DEF TickNoMarker
  <2> QED BY <1>8, <2>3 DEF TickNoMarker, Handled
<1>9. CASE TickBacksOff(w)
  <2>1. changed' \in BOOLEAN BY <1>9 DEF TickBacksOff
  <2> QED BY <1>9, <1>e, <2>1 DEF TickBacksOff, Handled
<1>10. CASE TickGivesUp(w)
  <2>1. [copy[w] EXCEPT !.state = "failed", !.dead = 0] \in Entries
    BY <1>a, <1>c DEF States
  <2>2. copy' \in [Workers -> Entries] /\ changed' \in BOOLEAN
    BY <1>10, <2>1, KeepType DEF TickGivesUp
  <2> QED BY <1>10, <2>2 DEF TickGivesUp, Handled
<1>11. CASE TickInterrupted(w)
  <2>1. [Relaunched(w) EXCEPT !.dead = 0] \in Entries BY <1>c, <1>d
  <2>2. Relaunch(w, [Relaunched(w) EXCEPT !.dead = 0])
    BY <1>11 DEF TickInterrupted
  <2>3. Spend(w) BY <1>11 DEF TickInterrupted
  <2> QED
    BY <1>11, <1>f, <2>1, <2>2, <2>3, RelaunchType
       DEF TickInterrupted, Handled
<1>12. CASE TickEmails(w) BY <1>12, <1>e DEF TickEmails
<1> QED BY <1>1, <1>2, <1>3, <1>4, <1>5, <1>6, <1>7, <1>8, <1>9, <1>10,
           <1>11, <1>12

LEMMA TickType ==
  ASSUME TypeOK, TickStep PROVE TypeOK'
<1> USE DEF TypeOK, files, runs
<1>1. CASE TickLoad
  <2>1. copy' \in [Workers -> Entries] /\ changed' \in BOOLEAN
    BY <1>1 DEF TickLoad
  <2>2. pc' \in {"idle", "scan", "email"}
        /\ (target' = NoWorker <=> pc' # "email")
    BY <1>1 DEF TickLoad
  <2> QED BY <1>1, <2>1, <2>2 DEF TickLoad
<1>2. CASE TickRelaunches
  <2>1. target \in Workers BY <1>2 DEF TickRelaunches
  <2>2. Relaunched(target) \in Entries BY <2>1, RelaunchedType
  <2>3. Relaunch(target, Relaunched(target)) BY <1>2 DEF TickRelaunches
  <2>4. spent' \in [Workers -> 0..MaxRelaunch + 1]
    BY <1>2, <2>1 DEF TickRelaunches, Spend
  <2> QED
    BY <1>2, <2>1, <2>2, <2>3, <2>4, RelaunchType DEF TickRelaunches
<1>3. CASE TickEnd BY <1>3 DEF TickEnd
<1> QED BY <1>1, <1>2, <1>3, TickWorkerType DEF TickStep

LEMMA TypeInit == Init => TypeOK
<1> SUFFICES ASSUME Init PROVE TypeOK OBVIOUS
<1>1. roster \in [Workers -> Entries] /\ copy \in [Workers -> Entries]
  BY FreshIsEntry DEF Init
<1>2. /\ tail \in [Workers -> Tails] /\ clock \in [Workers -> {"future", "past"}]
      /\ intr \in [Workers -> {"none", "kill", "start"}]
  BY DEF Init, Tails
<1>3. spent \in [Workers -> 0..MaxRelaunch + 1] BY DEF Init
<1>4. \A S \in {sentinel, mail, stamp, switch, held, up, finished, parking,
                parked, reviving, todo} : S \subseteq Workers
  BY DEF Init
<1>5. /\ pc \in {"idle", "scan", "email"} /\ changed \in BOOLEAN
      /\ target \in Workers \cup {NoWorker}
      /\ target = NoWorker <=> pc # "email"
  BY DEF Init
<1> QED BY <1>1, <1>2, <1>3, <1>4, <1>5 DEF TypeOK

LEMMA TypeNext == TypeOK /\ [Next]_vars => TypeOK'
<1> SUFFICES ASSUME TypeOK, [Next]_vars PROVE TypeOK' OBVIOUS
<1>1. CASE UNCHANGED vars
  BY <1>1 DEF vars, files, runs, daemon, TypeOK
<1>2. CASE Next BY <1>2, TickType, WorkerType, StarterType, ClockType DEF Next
<1> QED BY <1>1, <1>2

\* The roster, the watchdog's copy of it, the sessions and the flags keep their
\* types through every tick, start, interrupt and death.
THEOREM TypeCorrect == Spec => []TypeOK
BY TypeInit, TypeNext, PTL DEF Spec

-----------------------------------------------------------------------------
(***************************************************************************)
(* What a step of a tick does to the worker it deals with, as far as the   *)
(* invariants below go: it leaves it as it is, it classifies a dead one, or *)
(* it starts it.                                                           *)
(***************************************************************************)

LooksAt(w) ==
    /\ pc = "scan" /\ pc' \in {"scan", "email"} /\ (changed => changed')
    /\ UNCHANGED <<roster, up, parking, parked, intr, reviving, spent>>
    /\ \/ sentinel' = sentinel
       \/ ~Up(w) /\ sentinel' = sentinel \ {w}
    /\ \A v \in Workers :
          copy'[v].state = copy[v].state /\ copy'[v].age = copy[v].age
    /\ \A v \in Workers \ {w} : copy'[v].relaunched = copy[v].relaunched
    /\ \/ copy'[w].relaunched = copy[w].relaunched
       \/ Up(w) /\ copy[w].age = "old" /\ changed'
    /\ pc' = "email" => target' = w /\ copy'[w].relaunched < MaxRelaunch

Classifies(w) ==
    /\ Classifying(w) /\ ~Up(w) /\ pc' = "scan" /\ changed'
    /\ UNCHANGED <<roster, sentinel, up, parking, parked, intr, reviving, spent>>
    /\ \A v \in Workers \ {w} : copy'[v] = copy[v]
    /\ copy'[w].age = copy[w].age /\ copy'[w].relaunched = copy[w].relaunched

StartsAgain(w) ==
    /\ pc # "idle" /\ pc' = "scan" /\ changed'
    /\ up' = up \cup {w} /\ parked' = parked \ {w} /\ parking' = parking \ {w}
    /\ UNCHANGED <<roster, intr, reviving>>
    /\ sentinel' \in {sentinel, sentinel \ {w}}
    /\ \A v \in Workers \ {w} : copy'[v] = copy[v] /\ spent'[v] = spent[v]
    /\ copy'[w].state = "running" /\ copy'[w].age = "fresh"
    /\ \/ spent' = spent /\ copy[w].relaunched <= copy'[w].relaunched
       \/ /\ spent'[w] <= spent[w] + 1
          /\ copy'[w].relaunched = More(copy[w].relaunched)
          /\ IF pc = "email" THEN w = target ELSE copy[w].relaunched < MaxRelaunch

\* What the lemmas below need of the types.
LEMMA Shapes ==
  ASSUME TypeOK
  PROVE  /\ \A w \in Workers :
              /\ roster[w] \in Entries /\ copy[w] \in Entries
              /\ roster[w].relaunched \in Nat /\ copy[w].relaunched \in Nat
              /\ roster[w].relaunched <= MaxRelaunch
              /\ copy[w].relaunched <= MaxRelaunch
              /\ spent[w] \in Nat
         /\ DOMAIN roster = Workers /\ DOMAIN copy = Workers
         /\ DOMAIN spent = Workers /\ DOMAIN intr = Workers
         /\ pc \in {"idle", "scan", "email"} /\ changed \in BOOLEAN
<1>1. \A w \in Workers : roster[w] \in Entries /\ copy[w] \in Entries
  BY DEF TypeOK
<1>2. \A w \in Workers : spent[w] \in 0..MaxRelaunch + 1
  BY DEF TypeOK
<1> QED BY <1>1, <1>2, EntryFields DEF TypeOK

LEMMA KeepEffect ==
  ASSUME TypeOK, NEW w \in Workers, NEW e, Keep(w, e)
  PROVE  /\ copy'[w] = e /\ changed' = TRUE
         /\ \A v \in Workers \ {w} : copy'[v] = copy[v]
BY DEF Keep, TypeOK

\* What a relaunch makes of an entry.
LEMMA RelaunchedFields ==
  ASSUME TypeOK, NEW w \in Workers
  PROVE  LET r == Relaunched(w)
         IN /\ r.state = "running" /\ r.age = "fresh"
            /\ r.relaunched = More(copy[w].relaunched)
            /\ [r EXCEPT !.dead = 0].state = "running"
            /\ [r EXCEPT !.dead = 0].age = "fresh"
            /\ [r EXCEPT !.dead = 0].relaunched = More(copy[w].relaunched)
            /\ copy[w].relaunched <= More(copy[w].relaunched)
<1>1. copy[w] \in Entries /\ copy[w].relaunched \in Nat
  BY Shapes
<1>2. /\ Relaunched(w).state = "running" /\ Relaunched(w).age = "fresh"
      /\ Relaunched(w).relaunched = More(copy[w].relaunched)
  BY <1>1 DEF Relaunched, Entries
<1>3. copy[w].relaunched <= More(copy[w].relaunched)
  BY <1>1 DEF More
<1>4. 0 \in 0..DeadTicks - 1 /\ Relaunched(w) \in Entries
  BY RelaunchedType
<1>5. ASSUME NEW r \in Entries
      PROVE  /\ [r EXCEPT !.dead = 0].state = r.state
             /\ [r EXCEPT !.dead = 0].age = r.age
             /\ [r EXCEPT !.dead = 0].relaunched = r.relaunched
  BY DEF Entries
<1> QED BY <1>2, <1>3, <1>4, <1>5

LEMMA SpendEffect ==
  ASSUME TypeOK, NEW w \in Workers, Spend(w)
  PROVE  /\ spent'[w] <= spent[w] + 1
         /\ \A v \in Workers \ {w} : spent'[v] = spent[v]
BY Shapes DEF Spend

\* The three of an entry that is replaced by a relaunch.
LEMMA RelaunchEffect ==
  ASSUME TypeOK, NEW w \in Workers, NEW e, Relaunch(w, e),
         pc # "idle", pc' = "scan", UNCHANGED <<roster, intr, reviving>>,
         sentinel' \in {sentinel, sentinel \ {w}},
         e.state = "running", e.age = "fresh",
         \/ spent' = spent /\ copy[w].relaunched <= e.relaunched
         \/ /\ Spend(w) /\ e.relaunched = More(copy[w].relaunched)
            /\ IF pc = "email" THEN w = target ELSE copy[w].relaunched < MaxRelaunch
  PROVE  StartsAgain(w)
<1>1. /\ up' = up \cup {w} /\ parked' = parked \ {w} /\ parking' = parking \ {w}
      /\ Keep(w, e)
  BY DEF Relaunch, Boot
<1>2. /\ copy'[w] = e /\ changed' = TRUE
      /\ \A v \in Workers \ {w} : copy'[v] = copy[v]
  BY <1>1, KeepEffect
<1>3. \A v \in Workers \ {w} : spent'[v] = spent[v]
  BY SpendEffect
<1>4. \/ spent' = spent /\ copy[w].relaunched <= copy'[w].relaunched
      \/ /\ spent'[w] <= spent[w] + 1
         /\ copy'[w].relaunched = More(copy[w].relaunched)
         /\ IF pc = "email" THEN w = target ELSE copy[w].relaunched < MaxRelaunch
  BY <1>2, SpendEffect
<1> QED BY <1>1, <1>2, <1>3, <1>4 DEF StartsAgain

LEMMA TickSwitchEffect ==
  ASSUME TypeOK, NEW w \in Workers, TickSwitches(w)
  PROVE  LooksAt(w) \/ StartsAgain(w)
<1>1. /\ pc = "scan" /\ pc' = "scan" /\ ~Up(w) /\ sentinel' = sentinel \ {w}
      /\ UNCHANGED <<roster, intr, reviving, spent>>
  BY DEF TickSwitches, Scanning, Handled
<1>2. copy[w] \in Entries /\ Undead(w) \in 0..DeadTicks - 1
  BY Shapes, EntryFields DEF Undead
<1>3. CASE Relaunch(w, [copy[w] EXCEPT !.state = "running", !.age = "fresh",
                                       !.dead = Undead(w)])
  <2> DEFINE r == [copy[w] EXCEPT !.state = "running", !.age = "fresh",
                                  !.dead = Undead(w)]
  <2>1. /\ r.state = "running" /\ r.age = "fresh"
        /\ r.relaunched = copy[w].relaunched
    BY <1>2 DEF Entries
  <2>2. PICK e : /\ Relaunch(w, e) /\ e.state = "running" /\ e.age = "fresh"
                 /\ e.relaunched = copy[w].relaunched
    BY <1>3, <2>1, Zenon
  <2>3. copy[w].relaunched <= e.relaunched
    BY <2>2, Shapes
  <2> QED BY <1>1, <2>2, <2>3, RelaunchEffect
<1>4. CASE /\ Keep(w, [copy[w] EXCEPT !.dead = Undead(w)])
           /\ UNCHANGED <<runs, mail, stamp>>
  <2>1. PICK e : /\ Keep(w, e) /\ e.state = copy[w].state
                 /\ e.age = copy[w].age /\ e.relaunched = copy[w].relaunched
    BY <1>2, <1>4 DEF Entries
  <2>2. /\ copy'[w] = e /\ changed' = TRUE
        /\ \A v \in Workers \ {w} : copy'[v] = copy[v]
    BY <2>1, KeepEffect
  <2> QED BY <1>1, <1>4, <2>1, <2>2 DEF LooksAt, runs
<1> QED BY <1>3, <1>4 DEF TickSwitches

\* Every step of a tick that deals with a worker is one of the three, or the
\* exception that ends the tick.
LEMMA TickEffect ==
  ASSUME TypeOK, NEW w \in Workers,
         \/ TickSwitches(w) \/ TickSkips(w) \/ TickReset(w)
         \/ TickAlive(w) \/ TickDone(w) \/ TickLimit(w) \/ TickNoMarker(w)
         \/ TickBacksOff(w) \/ TickGivesUp(w) \/ TickInterrupted(w)
         \/ TickEmails(w)
  PROVE  \/ LooksAt(w) \/ StartsAgain(w)
         \/ Classifies(w) /\ (TickDone(w) \/ TickLimit(w) \/ TickGivesUp(w))
<1>a. /\ copy[w] \in Entries /\ copy[w].relaunched \in Nat
      /\ 0 \in 0..DeadTicks - 1
  BY Shapes
<1>b. Interrupted(w) \/ Incomplete(w) \/ Crashed(w) =>
         Classifying(w) /\ ~Up(w) /\ pc = "scan"
  BY DEF Interrupted, Incomplete, Crashed, Unfinished, Dead, Classifying, Scanning
<1>c. ASSUME Classifying(w), UNCHANGED <<files, runs, intr, reviving, spent>>,
             pc' = "scan",
             NEW e, Keep(w, e), e.state = copy[w].state, e.age = copy[w].age,
             \/ e.relaunched = copy[w].relaunched
             \/ Up(w) /\ copy[w].age = "old"
      PROVE  LooksAt(w)
  <2>1. /\ copy'[w] = e /\ changed' = TRUE
        /\ \A v \in Workers \ {w} : copy'[v] = copy[v]
    BY <1>c, KeepEffect
  <2> QED BY <1>c, <2>1 DEF LooksAt, Classifying, Scanning, files, runs
<1>d. ASSUME Classifying(w), ~Up(w), UNCHANGED <<files, runs, intr, reviving, spent>>,
             pc' = "scan", NEW s \in States,
             Keep(w, [copy[w] EXCEPT !.state = s, !.dead = 0])
      PROVE  Classifies(w)
  <2> DEFINE r == [copy[w] EXCEPT !.state = s, !.dead = 0]
  <2>0. r.age = copy[w].age /\ r.relaunched = copy[w].relaunched
    BY <1>a, <1>d DEF Entries
  <2>1. PICK e : /\ Keep(w, e) /\ e.age = copy[w].age
                 /\ e.relaunched = copy[w].relaunched
    BY <1>d, <2>0, Zenon
  <2>2. /\ copy'[w] = e /\ changed' = TRUE
        /\ \A v \in Workers \ {w} : copy'[v] = copy[v]
    BY <2>1, KeepEffect
  <2> QED BY <1>d, <2>1, <2>2 DEF Classifies, files, runs
<1>e. ASSUME copy' = [copy EXCEPT ![w].dead = 0]
      PROVE  \A v \in Workers : /\ copy'[v].state = copy[v].state
                                /\ copy'[v].age = copy[v].age
                                /\ copy'[v].relaunched = copy[v].relaunched
  <2>1. /\ copy'[w] = [copy[w] EXCEPT !.dead = 0]
        /\ \A v \in Workers \ {w} : copy'[v] = copy[v]
    BY <1>e, Shapes
  <2>2. /\ copy'[w].state = copy[w].state /\ copy'[w].age = copy[w].age
        /\ copy'[w].relaunched = copy[w].relaunched
    BY <1>a, <2>1 DEF Entries
  <2> QED BY <2>1, <2>2
<1>1. CASE TickSwitches(w) BY <1>1, TickSwitchEffect
<1>2. CASE TickSkips(w)
  BY <1>2 DEF TickSkips, Scanning, Handled, LooksAt, files, runs
<1>3. CASE TickReset(w)
  <2>1. /\ pc = "scan" /\ pc' = "scan" /\ Relaunch(w, Relaunched(w))
        /\ UNCHANGED <<roster, intr, reviving, sentinel, spent>>
    BY <1>3 DEF TickReset, Scanning, Handled
  <2>2. PICK e : /\ Relaunch(w, e) /\ e.state = "running" /\ e.age = "fresh"
                 /\ copy[w].relaunched <= e.relaunched
    BY <2>1, RelaunchedFields
  <2> QED BY <2>1, <2>2, RelaunchEffect
<1>4. CASE TickAlive(w)
  <2>1. /\ Classifying(w) /\ Up(w) /\ pc' = "scan"
        /\ UNCHANGED <<files, runs, intr, reviving, spent>>
    BY <1>4 DEF TickAlive, Classifying, Scanning, Handled
  <2>2. CASE Keep(w, [copy[w] EXCEPT !.dead = 0])
    <3>1. PICK e : /\ Keep(w, e) /\ e.state = copy[w].state
                   /\ e.age = copy[w].age /\ e.relaunched = copy[w].relaunched
      BY <1>a, <2>2 DEF Entries
    <3> QED BY <1>c, <2>1, <3>1
  <2>3. CASE Survived(w) /\ Keep(w, [copy[w] EXCEPT !.dead = 0, !.relaunched = 0])
    <3> DEFINE r == [copy[w] EXCEPT !.dead = 0, !.relaunched = 0]
    <3>0. r.state = copy[w].state /\ r.age = copy[w].age
      BY <1>a DEF Entries
    <3>1. PICK e : /\ Keep(w, e) /\ e.state = copy[w].state
                   /\ e.age = copy[w].age
      BY <2>3, <3>0, Zenon
    <3> QED BY <1>c, <2>1, <2>3, <3>1 DEF Survived
  <2> QED BY <1>4, <2>2, <2>3 DEF TickAlive
<1>5. CASE TickDone(w)
  <2>1. /\ Classifying(w) /\ ~Up(w) /\ pc' = "scan"
        /\ Keep(w, [copy[w] EXCEPT !.state = "done", !.dead = 0])
        /\ UNCHANGED <<files, runs, intr, reviving, spent>>
    BY <1>5 DEF TickDone, Dead, Classifying, Scanning, Handled
  <2> QED BY <1>5, <1>d, <2>1 DEF States
<1>6. CASE TickLimit(w)
  <2>1. /\ Classifying(w) /\ ~Up(w) /\ pc' = "scan"
        /\ Keep(w, [copy[w] EXCEPT !.state = "waiting_reset", !.dead = 0])
        /\ UNCHANGED <<files, runs, intr, reviving, spent>>
    BY <1>6 DEF TickLimit, Unfinished, Dead, Classifying, Scanning, Handled
  <2> QED BY <1>6, <1>d, <2>1 DEF States
<1>7. CASE TickNoMarker(w)
  <2>1. /\ Classifying(w) /\ pc' = "scan"
        /\ Keep(w, [copy[w] EXCEPT !.dead = @ + 1])
        /\ UNCHANGED <<files, runs, intr, reviving, spent>>
    BY <1>7 DEF TickNoMarker, Unfinished, Dead, Classifying, Scanning, Handled
  <2>2. PICK e : /\ Keep(w, e) /\ e.state = copy[w].state
                 /\ e.age = copy[w].age /\ e.relaunched = copy[w].relaunched
    BY <1>a, <2>1 DEF Entries
  <2> QED BY <1>c, <2>1, <2>2
<1>8. CASE TickBacksOff(w)
  <2>1. /\ pc = "scan" /\ pc' = "scan" /\ copy' = [copy EXCEPT ![w].dead = 0]
        /\ (changed => changed')
        /\ UNCHANGED <<files, runs, intr, reviving, spent>>
    BY <1>8, <1>b DEF TickBacksOff, Handled
  <2> QED BY <2>1, <1>e DEF LooksAt, files, runs
<1>9. CASE TickGivesUp(w)
  <2>1. /\ Classifying(w) /\ ~Up(w) /\ pc' = "scan"
        /\ Keep(w, [copy[w] EXCEPT !.state = "failed", !.dead = 0])
        /\ UNCHANGED <<files, runs, intr, reviving, spent>>
    BY <1>9, <1>b DEF TickGivesUp, Handled
  <2> QED BY <1>9, <1>d, <2>1 DEF States
<1>10. CASE TickInterrupted(w)
  <2>1. /\ pc = "scan" /\ pc' = "scan"
        /\ Relaunch(w, [Relaunched(w) EXCEPT !.dead = 0])
        /\ Spend(w) /\ copy[w].relaunched < MaxRelaunch
        /\ UNCHANGED <<roster, sentinel, intr, reviving>>
    BY <1>10, <1>b DEF TickInterrupted, Handled, CanRelaunch
  <2>2. PICK e : /\ Relaunch(w, e) /\ e.state = "running" /\ e.age = "fresh"
                 /\ e.relaunched = More(copy[w].relaunched)
    BY <2>1, RelaunchedFields
  <2> QED BY <2>1, <2>2, RelaunchEffect
<1>11. CASE TickEmails(w)
  <2>1. /\ pc = "scan" /\ pc' = "email" /\ target' = w
        /\ copy' = [copy EXCEPT ![w].dead = 0] /\ changed' = changed
        /\ copy[w].relaunched < MaxRelaunch
        /\ UNCHANGED <<roster, sentinel, up, parking, parked, intr, reviving, spent>>
    BY <1>11, <1>b DEF TickEmails, CanRelaunch, files, runs
  <2> QED BY <2>1, <1>e DEF LooksAt
<1> QED BY <1>1, <1>2, <1>3, <1>4, <1>5, <1>6, <1>7, <1>8, <1>9, <1>10, <1>11

LEMMA TickRelaunchEffect ==
  ASSUME TypeOK, TickRelaunches PROVE target \in Workers /\ StartsAgain(target)
<1>1. PICK t \in Workers : t = target
  BY DEF TickRelaunches, TypeOK
<1>2. /\ pc = "email" /\ pc' = "scan" /\ Relaunch(t, Relaunched(t)) /\ Spend(t)
      /\ UNCHANGED <<roster, sentinel, intr, reviving>>
  BY <1>1 DEF TickRelaunches
<1>3. PICK e : /\ Relaunch(t, e) /\ e.state = "running" /\ e.age = "fresh"
               /\ e.relaunched = More(copy[t].relaunched)
  BY <1>2, RelaunchedFields
<1>4. StartsAgain(t) BY <1>1, <1>2, <1>3, RelaunchEffect
<1> QED BY <1>1, <1>4

\* What a start makes of the flags.
LEMMA StartEffect ==
  ASSUME NEW w \in Workers, StartSession(w)
  PROVE  \/ Up(w) /\ UNCHANGED <<up, parking, parked>>
         \/ /\ ~Up(w) /\ up' = up \cup {w}
            /\ parking' = parking \ {w} /\ parked' = parked \ {w}
BY DEF StartSession, Boot, runs

\* What a starter of the worker writes into the roster.
LEMMA RevivedEffect ==
  ASSUME TypeOK, NEW w \in Workers, roster' = Revived(w)
  PROVE  /\ \A v \in Workers \ {w} : roster'[v] = roster[v]
         /\ roster'[w].state = "running" /\ roster'[w].age = "fresh"
         /\ roster'[w].relaunched = roster[w].relaunched
BY Shapes DEF Revived, Entries

\* A minute that passes.
LEMMA AgesEffect ==
  ASSUME TypeOK, NEW w \in Workers, Ages(w)
  PROVE  /\ pc = "idle" /\ pc' = "idle" /\ changed' = changed /\ intr[w] = "none"
         /\ UNCHANGED <<sentinel, up, parking, parked, intr, reviving, target>>
         /\ \A v \in Workers \ {w} : roster'[v] = roster[v]
         /\ roster'[w].state = roster[w].state
         /\ roster'[w].relaunched = roster[w].relaunched
         /\ roster'[w].age = "old" => roster[w].age = "long"
         /\ spent' = IF roster[w].age = "long" /\ Up(w)
                     THEN [spent EXCEPT ![w] = 0] ELSE spent
<1>1. /\ roster' = [roster EXCEPT ![w].age = Older(@)] /\ roster[w].age # "old"
  BY DEF Ages
<1>2. /\ \A v \in Workers \ {w} : roster'[v] = roster[v]
      /\ roster'[w].state = roster[w].state
      /\ roster'[w].relaunched = roster[w].relaunched
      /\ roster'[w].age = Older(roster[w].age)
  BY <1>1, Shapes DEF Entries
<1>3. Older(roster[w].age) = "old" => roster[w].age = "long"
  BY <1>1, Shapes, EntryFields DEF Older
<1> QED BY <1>2, <1>3 DEF Ages, Steady, runs

-----------------------------------------------------------------------------
(***************************************************************************)
(* A parked worker is honest in the roster, for any number of workers and  *)
(* whatever overlaps, but for two steps: a worker that parks while a tick   *)
(* is under way, whose copy says something else, and a revival of a worker  *)
(* that has been started, and has parked, since the loop noticed it.        *)
(***************************************************************************)

ParksUnderTick(w) ==
    ParkState(w) /\ pc # "idle" /\ copy[w].state # "waiting_jobs"
RevivesParked(w) == InboxRevives(w) /\ Up(w) /\ w \in parked
NoParkOverwritten == \A w \in Workers : ~ParksUnderTick(w) /\ ~RevivesParked(w)

\* While it is parked its entry says so, in the file and in the copy that a
\* running tick is about to write over the file.
Honest(r) == \A w \in parked : r[w].state = "waiting_jobs"
ParkInv == TypeOK /\ Honest(roster) /\ (pc # "idle" => Honest(copy))

\* A step that leaves the entries of those that stay parked as they are.
LEMMA ParkFrame ==
  ASSUME ParkInv, TypeOK', pc' = pc, parked' \subseteq parked,
         \A v \in parked' : roster'[v].state = roster[v].state,
         pc # "idle" => \A v \in parked' : copy'[v].state = copy[v].state
  PROVE  ParkInv'
BY DEF ParkInv, Honest

LEMMA ParkTick ==
  ASSUME ParkInv, TypeOK', TickStep PROVE ParkInv'
<1>a. TypeOK BY DEF ParkInv
<1>1. CASE TickLoad
  BY <1>1 DEF TickLoad, ParkInv, Honest, files, runs
<1>2. ASSUME NEW w \in Workers, StartsAgain(w) PROVE ParkInv'
  BY <1>2, <1>a DEF StartsAgain, ParkInv, Honest, TypeOK
<1>3. CASE TickRelaunches BY <1>2, <1>3, <1>a, TickRelaunchEffect
<1>4. CASE TickEnd
  BY <1>4 DEF TickEnd, ParkInv, Honest, runs
<1>5. ASSUME NEW w \in Workers, TickAborts(w) PROVE ParkInv'
  BY <1>5 DEF TickAborts, ParkInv, Honest, files, runs
<1>6. ASSUME NEW w \in Workers, LooksAt(w) PROVE ParkInv'
  BY <1>6, <1>a DEF LooksAt, ParkInv, Honest, TypeOK
<1>7. ASSUME NEW w \in Workers, Classifies(w) PROVE ParkInv'
  <2>1. w \notin parked
    BY <1>7 DEF Classifies, Classifying, Scanning, Skipped, ParkInv, Honest
  <2> QED BY <1>7, <1>a, <2>1 DEF Classifies, Classifying, Scanning, ParkInv,
                                  Honest, TypeOK
<1> QED BY <1>1, <1>2, <1>3, <1>4, <1>5, <1>6, <1>7, <1>a, TickEffect DEF TickStep

LEMMA ParkWorker ==
  ASSUME ParkInv, TypeOK', NEW w \in Workers, ~ParksUnderTick(w), WorkerStep(w)
  PROVE  ParkInv'
<1>1. CASE TouchSentinel(w)
  BY <1>1, ParkFrame DEF TouchSentinel, daemon
<1>2. CASE ParkTouch(w)
  BY <1>2, ParkFrame DEF ParkTouch, daemon
<1>3. CASE ParkState(w)
  <2>1. /\ \A v \in Workers \ {w} : roster'[v] = roster[v]
        /\ roster'[w].state = "waiting_jobs"
    BY <1>3, Shapes DEF ParkState, ParkInv, Entries
  <2>2. pc # "idle" => copy[w].state = "waiting_jobs"
    BY <1>3 DEF ParksUnderTick
  <2> QED BY <1>3, <2>1, <2>2 DEF ParkState, ParkInv, Honest, TypeOK, daemon
<1>4. CASE RequestSwitch(w)
  BY <1>4, ParkFrame DEF RequestSwitch, runs, daemon
<1>5. ASSUME NEW how \in {"rc0", "error", "limit"}, Exits(w, how)
      PROVE  ParkInv'
  BY <1>5, ParkFrame DEF Exits, files, daemon
<1>6. CASE LeavesForSwitch(w) BY <1>5, <1>6 DEF LeavesForSwitch
<1>7. CASE PaneDies(w) BY <1>7, ParkFrame DEF PaneDies, files, daemon
<1>8. CASE ReadsMail(w) BY <1>8, ParkFrame DEF ReadsMail, runs, daemon
<1> QED
  BY <1>1, <1>2, <1>3, <1>4, <1>5, <1>6, <1>7, <1>8 DEF WorkerStep

LEMMA ParkStarter ==
  ASSUME ParkInv, TypeOK', NEW w \in Workers, ~RevivesParked(w), StarterStep(w)
  PROVE  ParkInv'
<1>a. TypeOK BY DEF ParkInv
<1>1. CASE InterruptStamps(w)
  <2>1. \A v \in Workers \ {w} : roster'[v] = roster[v]
    BY <1>1, <1>a, RevivedEffect DEF InterruptStamps
  <2> QED BY <1>1, <1>a, <2>1, ParkFrame DEF InterruptStamps, daemon, TypeOK
<1>2. CASE InterruptKills(w)
  BY <1>2, ParkFrame DEF InterruptKills, files, daemon
<1>3. CASE InterruptStarts(w)
  BY <1>3, StartEffect, ParkFrame DEF InterruptStarts, daemon
<1>4. CASE RelayArrives(w) BY <1>4, ParkFrame DEF RelayArrives, runs, daemon
<1>5. CASE FollowUp(w) BY <1>5, ParkFrame DEF FollowUp, runs, daemon
<1>6. CASE InboxNotices(w) BY <1>6, ParkFrame DEF InboxNotices, runs, daemon
<1>7. CASE InboxRevives(w)
  <2>1. \A v \in Workers \ {w} : roster'[v] = roster[v]
    BY <1>7, <1>a, RevivedEffect DEF InboxRevives
  <2>2. parked' \subseteq parked \ {w}
    BY <1>7, StartEffect DEF InboxRevives, RevivesParked
  <2> QED BY <1>7, <1>a, <2>1, <2>2, ParkFrame DEF InboxRevives, daemon, TypeOK
<1> QED
  BY <1>1, <1>2, <1>3, <1>4, <1>5, <1>6, <1>7 DEF StarterStep

LEMMA ParkClock ==
  ASSUME ParkInv, TypeOK', NEW w \in Workers, ClockStep(w) PROVE ParkInv'
<1>a. TypeOK BY DEF ParkInv
<1>1. CASE Ages(w)
  <2>1. \A v \in Workers : roster'[v].state = roster[v].state
    BY <1>1, <1>a, AgesEffect
  <2> QED BY <1>1, <1>a, <2>1, AgesEffect, ParkFrame DEF TypeOK
<1>2. CASE StampAges(w) BY <1>2, ParkFrame DEF StampAges, runs, daemon
<1>3. CASE ResetPasses(w)
  BY <1>3, ParkFrame DEF ResetPasses, files, runs, daemon
<1>4. CASE GracePasses(w) BY <1>4, ParkFrame DEF GracePasses, runs, daemon
<1>5. CASE HoldWake(w) BY <1>5, ParkFrame DEF HoldWake, runs, daemon
<1> QED BY <1>1, <1>2, <1>3, <1>4, <1>5 DEF ClockStep

LEMMA ParkNext == ParkInv /\ [Next]_vars /\ [NoParkOverwritten]_vars => ParkInv'
<1> SUFFICES ASSUME ParkInv, [Next]_vars, [NoParkOverwritten]_vars
             PROVE  ParkInv'
  OBVIOUS
<1>1. TypeOK' BY TypeNext DEF ParkInv
<1>2. CASE UNCHANGED vars
  BY <1>1, <1>2, ParkFrame DEF vars, files, runs, daemon
<1>3. CASE Next /\ NoParkOverwritten
  BY <1>1, <1>3, ParkTick, ParkWorker, ParkStarter, ParkClock
     DEF Next, NoParkOverwritten
<1> QED BY <1>2, <1>3

\* A worker that has parked stands in the roster as waiting_jobs until it is
\* started: no tick, interrupt, revival or switch, in whatever order and overlap,
\* turns it into a worker that the watchdog relaunches, or takes for done.  The
\* only steps that can break it, and that the theorem therefore excludes, are a
\* park under a tick that has read the worker as something else (its write at the
\* end overwrites the park), and a revival that finds the worker parked (it stamps
\* "running" and starts nothing).
THEOREM ParkedKept == Spec /\ [][NoParkOverwritten]_vars => []ParkedIsHonest
<1>1. Init => ParkInv
  <2> SUFFICES ASSUME Init PROVE ParkInv OBVIOUS
  <2> QED BY TypeInit DEF Init, ParkInv, Honest
<1>2. ParkInv => ParkedIsHonest
  BY DEF ParkInv, Honest, ParkedIsHonest
<1> QED BY <1>1, ParkNext, <1>2, PTL DEF Spec

-----------------------------------------------------------------------------
(***************************************************************************)
(* Who runs is supervised: for any number of workers and whatever overlaps, *)
(* but for four steps.  An interrupt or a revival writes "running" under a  *)
(* tick whose copy says otherwise; a tick classifies a worker that an       *)
(* interrupt has killed and is about to start; a worker parks between the   *)
(* stamps of an interrupt and its kill; and a tick that has relaunched or   *)
(* reclassified somebody is aborted and drops its copy.                     *)
(***************************************************************************)

StampUnderTick(w) ==
    /\ InterruptStamps(w) \/ InboxRevives(w)
    /\ pc # "idle" /\ copy[w].state # "running"
StartOverlooked(w) ==
    intr[w] # "none" /\ (TickDone(w) \/ TickLimit(w) \/ TickGivesUp(w))
ParksUnderInterrupt(w) == intr[w] # "none" /\ ParkState(w)
UpdateLost(w) == TickAborts(w) /\ changed
NoStartLost ==
    \A w \in Workers : /\ ~StampUnderTick(w) /\ ~StartOverlooked(w)
                       /\ ~ParksUnderInterrupt(w) /\ ~UpdateLost(w)

\* Those that are to be supervised: who runs and has not finished, and who is
\* being interrupted.  Their entries say so in the file, unless a tick has changed
\* its copy, and in the copy of a tick.
Supervisable == {w \in Workers : intr[w] # "none" \/ w \in up \ sentinel}
Tracks(r) == \A w \in Supervisable : r[w].state = "running"

\* A worker that parks is there and has touched its sentinel, or an interrupt has
\* removed that and is about to kill it.
ParkingIsMarked ==
    \A w \in parking : w \in up /\ (w \in sentinel \/ intr[w] = "kill")
IdleIsUnchanged == pc = "idle" => ~changed

TrackInv ==
    /\ TypeOK /\ ParkingIsMarked /\ IdleIsUnchanged
    /\ ~changed => Tracks(roster)
    /\ pc # "idle" => Tracks(copy)

\* A step outside the ticks: who is newly to be supervised has an entry that says
\* so, and nobody else's state changes.
LEMMA TrackFrame ==
  ASSUME TrackInv, TypeOK', UNCHANGED <<pc, changed>>, ParkingIsMarked',
         \A v \in Supervisable' :
             \/ roster'[v].state = "running"
             \/ v \in Supervisable /\ roster'[v].state = roster[v].state,
         pc # "idle" => \A v \in Supervisable' :
             \/ copy'[v].state = "running"
             \/ v \in Supervisable /\ copy'[v].state = copy[v].state
  PROVE  TrackInv'
BY DEF TrackInv, Tracks, IdleIsUnchanged

\* A step that adds nobody to them and writes no entry.
LEMMA TrackStutter ==
  ASSUME TrackInv, TypeOK', UNCHANGED <<pc, changed, roster, copy>>,
         ParkingIsMarked', Supervisable' \subseteq Supervisable
  PROVE  TrackInv'
BY TrackFrame

LEMMA TrackTick ==
  ASSUME TrackInv, TypeOK', NoStartLost, TickStep PROVE TrackInv'
<1>a. TypeOK BY DEF TrackInv
<1>1. CASE TickLoad
  BY <1>1 DEF TickLoad, TrackInv, Tracks, Supervisable, ParkingIsMarked,
              IdleIsUnchanged, files, runs
<1>2. ASSUME NEW w \in Workers, StartsAgain(w) PROVE TrackInv'
  <2>1. ParkingIsMarked'
    BY <1>2 DEF StartsAgain, TrackInv, ParkingIsMarked
  <2>2. Supervisable' \subseteq Supervisable \cup {w}
    BY <1>2 DEF StartsAgain, Supervisable
  <2> QED BY <1>2, <1>a, <2>1, <2>2
             DEF StartsAgain, TrackInv, Tracks, IdleIsUnchanged, Supervisable
<1>3. CASE TickRelaunches BY <1>2, <1>3, <1>a, TickRelaunchEffect
<1>4. CASE TickEnd
  BY <1>4 DEF TickEnd, TrackInv, Tracks, Supervisable, ParkingIsMarked,
              IdleIsUnchanged, runs
<1>5. ASSUME NEW w \in Workers, TickAborts(w) PROVE TrackInv'
  <2>1. ~changed BY <1>5 DEF NoStartLost, UpdateLost
  <2> QED BY <1>5, <2>1 DEF TickAborts, TrackInv, Tracks, Supervisable,
             ParkingIsMarked, IdleIsUnchanged, files, runs
<1>6. ASSUME NEW w \in Workers, LooksAt(w) PROVE TrackInv'
  <2>1. Supervisable' \subseteq Supervisable
    BY <1>6 DEF LooksAt, Supervisable, Up
  <2>2. ParkingIsMarked'
    BY <1>6 DEF LooksAt, TrackInv, ParkingIsMarked, Up
  <2> QED BY <1>6, <2>1, <2>2
             DEF LooksAt, TrackInv, Tracks, Supervisable, IdleIsUnchanged
<1>7. ASSUME NEW w \in Workers, Classifies(w),
             TickDone(w) \/ TickLimit(w) \/ TickGivesUp(w)
      PROVE  TrackInv'
  <2>1. intr[w] = "none" BY <1>7 DEF NoStartLost, StartOverlooked
  <2>2. w \notin Supervisable /\ Supervisable' = Supervisable
    BY <1>7, <2>1 DEF Classifies, Supervisable, Up
  <2>3. ParkingIsMarked'
    BY <1>7 DEF Classifies, TrackInv, ParkingIsMarked
  <2>4. \A v \in Supervisable' : copy'[v].state = "running"
    BY <1>7, <2>2 DEF Classifies, Classifying, Scanning, TrackInv, Tracks,
                      Supervisable
  <2> QED BY <1>7, <2>3, <2>4 DEF Classifies, TrackInv, Tracks, IdleIsUnchanged
<1> QED BY <1>1, <1>2, <1>3, <1>4, <1>5, <1>6, <1>7, <1>a, TickEffect DEF TickStep

LEMMA TrackWorker ==
  ASSUME TrackInv, TypeOK', NEW w \in Workers, NoStartLost, WorkerStep(w)
  PROVE  TrackInv'
<1>a. ParkingIsMarked /\ TypeOK BY DEF TrackInv
<1> USE DEF ParkingIsMarked, Supervisable
<1>1. CASE TouchSentinel(w)
  BY <1>1, <1>a, TrackStutter DEF TouchSentinel, daemon
<1>2. CASE ParkTouch(w)
  BY <1>2, <1>a, TrackStutter DEF ParkTouch, daemon, Up
<1>3. CASE ParkState(w)
  <2>1. w \notin Supervisable
    BY <1>3, <1>a DEF ParkState, NoStartLost, ParksUnderInterrupt
  <2>2. /\ \A v \in Workers \ {w} : roster'[v] = roster[v]
        /\ UNCHANGED <<sentinel, up, intr, copy, pc, changed>>
    BY <1>3, <1>a, Shapes DEF ParkState, daemon
  <2> QED BY <1>3, <1>a, <2>1, <2>2, TrackFrame DEF ParkState
<1>4. CASE RequestSwitch(w)
  BY <1>4, <1>a, TrackStutter DEF RequestSwitch, runs, daemon
<1>5. ASSUME NEW how \in {"rc0", "error", "limit"}, Exits(w, how)
      PROVE  TrackInv'
  BY <1>5, <1>a, TrackStutter DEF Exits, Gone, files, daemon
<1>6. CASE LeavesForSwitch(w) BY <1>5, <1>6 DEF LeavesForSwitch
<1>7. CASE PaneDies(w)
  BY <1>7, <1>a, TrackStutter DEF PaneDies, Gone, files, daemon
<1>8. CASE ReadsMail(w)
  BY <1>8, <1>a, TrackStutter DEF ReadsMail, runs, daemon
<1> QED
  BY <1>1, <1>2, <1>3, <1>4, <1>5, <1>6, <1>7, <1>8 DEF WorkerStep

LEMMA TrackStarter ==
  ASSUME TrackInv, TypeOK', NEW w \in Workers, NoStartLost, StarterStep(w)
  PROVE  TrackInv'
<1>a. ParkingIsMarked /\ TypeOK /\ DOMAIN intr = Workers
  BY DEF TrackInv, TypeOK
<1>b. w \in Workers OBVIOUS
<1> USE DEF ParkingIsMarked, Supervisable
<1>1. CASE InterruptStamps(w)
  <2>1. pc # "idle" => copy[w].state = "running"
    BY <1>1 DEF NoStartLost, StampUnderTick
  <2>2. /\ \A v \in Workers \ {w} : roster'[v] = roster[v] /\ intr'[v] = intr[v]
        /\ roster'[w].state = "running" /\ intr'[w] = "kill"
    BY <1>1, <1>a, RevivedEffect DEF InterruptStamps
  <2>3. /\ sentinel' = sentinel \ {w}
        /\ UNCHANGED <<up, parking, copy, pc, changed>>
    BY <1>1 DEF InterruptStamps, daemon
  <2>4. ParkingIsMarked' BY <1>a, <2>2, <2>3 DEF TypeOK
  <2>5. Supervisable' \subseteq Supervisable \cup {w} BY <2>2, <2>3
  <2> QED BY <2>1, <2>2, <2>3, <2>4, <2>5, TrackFrame
<1>2. CASE InterruptKills(w)
  BY <1>2, <1>a, TrackStutter DEF InterruptKills, Gone, files, daemon
<1>3. CASE InterruptStarts(w)
  <2>1. /\ intr[w] = "start" /\ intr' = [intr EXCEPT ![w] = "none"]
        /\ up' \subseteq up \cup {w} /\ up \subseteq up' /\ parking' \subseteq parking
        /\ UNCHANGED <<roster, sentinel, copy, pc, changed>>
    BY <1>3, StartEffect DEF InterruptStarts, daemon
  <2> QED BY <1>a, <2>1, TrackStutter
<1>4. CASE RelayArrives(w)
  BY <1>4, <1>a, TrackStutter DEF RelayArrives, runs, daemon
<1>5. CASE FollowUp(w)
  BY <1>5, <1>a, TrackStutter DEF FollowUp, runs, daemon, Up
<1>6. CASE InboxNotices(w)
  BY <1>6, <1>a, TrackStutter DEF InboxNotices, runs, daemon
<1>7. CASE InboxRevives(w)
  <2>1. pc # "idle" => copy[w].state = "running"
    BY <1>7 DEF NoStartLost, StampUnderTick
  <2>2. /\ \A v \in Workers \ {w} : roster'[v] = roster[v]
        /\ roster'[w].state = "running"
    BY <1>7, <1>a, RevivedEffect DEF InboxRevives
  <2>3. /\ up' \subseteq up \cup {w} /\ up \subseteq up' /\ parking' \subseteq parking
        /\ UNCHANGED <<sentinel, intr, copy, pc, changed>>
    BY <1>7, StartEffect DEF InboxRevives, daemon
  <2>4. ParkingIsMarked' BY <1>a, <2>3
  <2>5. Supervisable' \subseteq Supervisable \cup {w} BY <2>3
  <2> QED BY <2>1, <2>2, <2>3, <2>4, <2>5, TrackFrame
<1> QED
  BY <1>1, <1>2, <1>3, <1>4, <1>5, <1>6, <1>7 DEF StarterStep

LEMMA TrackClock ==
  ASSUME TrackInv, TypeOK', NEW w \in Workers, ClockStep(w) PROVE TrackInv'
<1>a. ParkingIsMarked /\ TypeOK BY DEF TrackInv
<1> USE DEF ParkingIsMarked, Supervisable
<1>1. CASE Ages(w)
  <2>1. \A v \in Workers : roster'[v].state = roster[v].state
    BY <1>1, <1>a, AgesEffect
  <2> QED BY <1>1, <1>a, <2>1, AgesEffect, TrackFrame
<1>2. CASE StampAges(w) BY <1>2, <1>a, TrackStutter DEF StampAges, runs, daemon
<1>3. CASE ResetPasses(w)
  BY <1>3, <1>a, TrackStutter DEF ResetPasses, files, runs, daemon
<1>4. CASE GracePasses(w)
  BY <1>4, <1>a, TrackStutter DEF GracePasses, runs, daemon
<1>5. CASE HoldWake(w) BY <1>5, <1>a, TrackStutter DEF HoldWake, runs, daemon
<1> QED BY <1>1, <1>2, <1>3, <1>4, <1>5 DEF ClockStep

LEMMA TrackInit == Init => TrackInv
<1> SUFFICES ASSUME Init PROVE TrackInv OBVIOUS
<1>1. \A w \in Workers : roster[w].state = "running"
  BY DEF Init, Fresh
<1> QED BY <1>1, TypeInit
           DEF Init, TrackInv, ParkingIsMarked, IdleIsUnchanged, Tracks, Supervisable

LEMMA TrackNext == TrackInv /\ [Next]_vars /\ [NoStartLost]_vars => TrackInv'
<1> SUFFICES ASSUME TrackInv, [Next]_vars, [NoStartLost]_vars PROVE TrackInv'
  OBVIOUS
<1>1. TypeOK' BY TypeNext DEF TrackInv
<1>2. CASE UNCHANGED vars
  BY <1>1, <1>2, TrackStutter DEF vars, files, runs, daemon, TrackInv,
                                  ParkingIsMarked, Supervisable
<1>3. CASE Next /\ NoStartLost
  BY <1>1, <1>3, TrackTick, TrackWorker, TrackStarter, TrackClock DEF Next
<1> QED BY <1>2, <1>3

\* A worker that runs and has neither finished nor parked stands in the roster as
\* running, for any number of workers: whoever started it, in whatever order and
\* overlap, the watchdog supervises it.  Only the four steps above can break it.
THEOREM RunningIsSupervised ==
  Spec /\ [][NoStartLost]_vars => []WorkingIsTracked
<1>1. TrackInv => WorkingIsTracked
  BY DEF TrackInv, Tracks, Supervisable, IdleIsUnchanged, WorkingIsTracked,
         Settled, TypeOK
<1> QED BY TrackInit, TrackNext, <1>1, PTL DEF Spec

-----------------------------------------------------------------------------
(***************************************************************************)
(* The cap bounds a relaunch loop, for any number of workers and whatever  *)
(* overlaps, but for two steps: an interrupt or a revival that begins under *)
(* a tick whose copy makes the worker look as old as one that survived, and *)
(* a tick that has relaunched somebody and drops its copy.                  *)
(***************************************************************************)

AgeUnderTick(w) ==
    /\ InterruptStamps(w) \/ InboxRevives(w)
    /\ pc # "idle" /\ copy[w].age = "old"
NoCountLost == \A w \in Workers : ~AgeUnderTick(w) /\ ~UpdateLost(w)

\* No entry counts fewer relaunches than there were; an entry looks as old as a
\* survivor's only if nobody is about to start the worker, and of one that runs
\* only if it did survive.
Counts(r) ==
    \A w \in Workers :
        /\ spent[w] <= r[w].relaunched
        /\ r[w].age = "old" => intr[w] = "none" /\ (w \in up => spent[w] = 0)
EmailIsForDue == pc = "email" => copy[target].relaunched < MaxRelaunch

CountInv ==
    /\ TypeOK /\ IdleIsUnchanged /\ EmailIsForDue
    /\ ~changed => Counts(roster)
    /\ pc # "idle" => Counts(copy)

\* A step outside the ticks: it counts nothing, and who runs or is interrupted
\* after it did so before or has a young entry.
LEMMA CountFrame ==
  ASSUME CountInv, TypeOK', UNCHANGED <<pc, changed, target, spent>>,
         \A v \in Workers :
             /\ roster'[v].relaunched = roster[v].relaunched
             /\ roster'[v].age = "old" =>
                   /\ roster[v].age = "old"
                   /\ intr[v] = "none" => intr'[v] = "none" /\ (v \in up' => v \in up),
         pc # "idle" => \A v \in Workers :
             /\ copy'[v].relaunched = copy[v].relaunched
             /\ copy'[v].age = "old" =>
                   /\ copy[v].age = "old"
                   /\ intr[v] = "none" => intr'[v] = "none" /\ (v \in up' => v \in up)
  PROVE  CountInv'
<1>1. ~changed' => Counts(roster)'
  BY DEF CountInv, Counts
<1>2. pc' # "idle" => Counts(copy)'
  BY DEF CountInv, Counts
<1>3. EmailIsForDue'
  BY DEF CountInv, EmailIsForDue, TypeOK
<1> QED BY <1>1, <1>2, <1>3 DEF CountInv, IdleIsUnchanged

\* A step that starts and interrupts nobody and writes no entry.
LEMMA CountStutter ==
  ASSUME CountInv, TypeOK', UNCHANGED <<pc, changed, target, spent, roster, copy>>,
         up' \subseteq up, \A v \in Workers : intr[v] = "none" => intr'[v] = "none"
  PROVE  CountInv'
BY CountFrame

LEMMA CountTick ==
  ASSUME CountInv, TypeOK', NoCountLost, TickStep PROVE CountInv'
<1>a. TypeOK BY DEF CountInv
<1>1. CASE TickLoad
  BY <1>1 DEF TickLoad, CountInv, Counts, IdleIsUnchanged, EmailIsForDue, files, runs
<1>2. ASSUME NEW w \in Workers, StartsAgain(w) PROVE CountInv'
  <2>1. spent[w] \in Nat /\ spent'[w] \in Nat /\ copy[w].relaunched \in Nat
        /\ copy'[w].relaunched \in Nat
    BY <1>a, Shapes DEF TypeOK, Entries
  <2>2. spent[w] <= copy[w].relaunched
    BY <1>2 DEF StartsAgain, CountInv, Counts
  <2>3. spent'[w] <= copy'[w].relaunched
    <3>1. CASE spent' = spent /\ copy[w].relaunched <= copy'[w].relaunched
      BY <2>1, <2>2, <3>1
    <3>2. CASE /\ spent'[w] <= spent[w] + 1
               /\ copy'[w].relaunched = More(copy[w].relaunched)
               /\ IF pc = "email" THEN w = target
                                  ELSE copy[w].relaunched < MaxRelaunch
      <4>1. copy[w].relaunched < MaxRelaunch
        BY <3>2 DEF CountInv, EmailIsForDue
      <4>2. copy'[w].relaunched = copy[w].relaunched + 1
        BY <2>1, <3>2, <4>1 DEF More
      <4> QED BY <2>1, <2>2, <3>2, <4>2
    <3> QED BY <1>2, <3>1, <3>2 DEF StartsAgain
  <2>4. Counts(copy)'
    BY <1>2, <2>3 DEF StartsAgain, CountInv, Counts
  <2> QED BY <1>2, <2>4 DEF StartsAgain, CountInv, IdleIsUnchanged, EmailIsForDue
<1>3. CASE TickRelaunches BY <1>2, <1>3, <1>a, TickRelaunchEffect
<1>4. CASE TickEnd
  BY <1>4 DEF TickEnd, CountInv, Counts, IdleIsUnchanged, EmailIsForDue, runs
<1>5. ASSUME NEW w \in Workers, TickAborts(w) PROVE CountInv'
  <2>1. ~changed BY <1>5 DEF NoCountLost, UpdateLost
  <2> QED BY <1>5, <2>1 DEF TickAborts, CountInv, Counts, IdleIsUnchanged,
                            EmailIsForDue, files, runs
<1>6. ASSUME NEW w \in Workers, LooksAt(w) PROVE CountInv'
  <2>1. EmailIsForDue'
    BY <1>6 DEF LooksAt, EmailIsForDue
  <2>2. \A v \in Workers : /\ spent[v] \in Nat
                           /\ copy'[v].relaunched \in Nat
    BY <1>a, Shapes DEF TypeOK, Entries
  <2>3. Counts(copy)
    BY <1>6 DEF LooksAt, CountInv
  <2>4. \A v \in Workers : spent[v] <= copy'[v].relaunched
    BY <1>6, <2>2, <2>3 DEF LooksAt, Counts, Up
  <2>5. Counts(copy)'
    BY <1>6, <2>3, <2>4 DEF LooksAt, Counts
  <2> QED BY <1>6, <2>1, <2>5 DEF LooksAt, CountInv, Counts, IdleIsUnchanged
<1>7. ASSUME NEW w \in Workers, Classifies(w) PROVE CountInv'
  <2>1. pc = "scan" /\ \A v \in Workers : /\ copy'[v].age = copy[v].age
                                          /\ copy'[v].relaunched = copy[v].relaunched
    BY <1>7 DEF Classifies, Classifying, Scanning
  <2> QED BY <1>7, <2>1 DEF Classifies, CountInv, Counts, IdleIsUnchanged,
                            EmailIsForDue
<1> QED BY <1>1, <1>2, <1>3, <1>4, <1>5, <1>6, <1>7, <1>a, TickEffect DEF TickStep

LEMMA CountWorker ==
  ASSUME CountInv, TypeOK', NEW w \in Workers, WorkerStep(w) PROVE CountInv'
<1>a. TypeOK BY DEF CountInv
<1>1. CASE TouchSentinel(w) BY <1>1, CountStutter DEF TouchSentinel, daemon
<1>2. CASE ParkTouch(w) BY <1>2, CountStutter DEF ParkTouch, daemon
<1>3. CASE ParkState(w)
  <2>1. \A v \in Workers : /\ roster'[v].age = roster[v].age
                           /\ roster'[v].relaunched = roster[v].relaunched
    BY <1>3, <1>a, Shapes DEF ParkState, Entries
  <2> QED BY <1>3, <2>1, CountFrame DEF ParkState, daemon
<1>4. CASE RequestSwitch(w)
  BY <1>4, CountStutter DEF RequestSwitch, runs, daemon
<1>5. ASSUME NEW how \in {"rc0", "error", "limit"}, Exits(w, how)
      PROVE  CountInv'
  BY <1>5, CountStutter DEF Exits, Gone, files, daemon
<1>6. CASE LeavesForSwitch(w) BY <1>5, <1>6 DEF LeavesForSwitch
<1>7. CASE PaneDies(w) BY <1>7, CountStutter DEF PaneDies, Gone, files, daemon
<1>8. CASE ReadsMail(w) BY <1>8, CountStutter DEF ReadsMail, runs, daemon
<1> QED
  BY <1>1, <1>2, <1>3, <1>4, <1>5, <1>6, <1>7, <1>8 DEF WorkerStep

LEMMA CountStarter ==
  ASSUME CountInv, TypeOK', NEW w \in Workers, NoCountLost, StarterStep(w)
  PROVE  CountInv'
<1>a. TypeOK /\ DOMAIN intr = Workers BY DEF CountInv, TypeOK
<1>b. \A v \in Workers : intr[v] # "none" =>
         /\ ~changed => roster[v].age # "old"
         /\ pc # "idle" => copy[v].age # "old"
  BY DEF CountInv, Counts
<1>1. CASE InterruptStamps(w)
  <2>1. pc # "idle" => copy[w].age # "old"
    BY <1>1 DEF NoCountLost, AgeUnderTick
  <2>2. /\ \A v \in Workers \ {w} : roster'[v] = roster[v] /\ intr'[v] = intr[v]
        /\ roster'[w].age = "fresh" /\ roster'[w].relaunched = roster[w].relaunched
    BY <1>1, <1>a, RevivedEffect DEF InterruptStamps
  <2>3. UNCHANGED <<up, copy, pc, changed, target, spent>>
    BY <1>1 DEF InterruptStamps, daemon
  <2> QED BY <2>1, <2>2, <2>3, CountFrame
<1>2. CASE InterruptKills(w)
  BY <1>2, <1>a, CountStutter DEF InterruptKills, Gone, files, daemon
<1>3. CASE InterruptStarts(w)
  <2>1. /\ intr[w] = "start" /\ intr' = [intr EXCEPT ![w] = "none"]
        /\ up' \subseteq up \cup {w}
        /\ UNCHANGED <<roster, copy, pc, changed, target, spent>>
    BY <1>3, StartEffect DEF InterruptStarts, daemon
  <2>2. \A v \in Workers \ {w} : intr'[v] = intr[v]
    BY <1>a, <2>1
  <2>3. ~changed' => Counts(roster)'
    BY <1>b, <2>1, <2>2 DEF CountInv, Counts
  <2>4. pc' # "idle" => Counts(copy)'
    BY <1>b, <2>1, <2>2 DEF CountInv, Counts
  <2> QED BY <2>1, <2>3, <2>4 DEF CountInv, IdleIsUnchanged, EmailIsForDue
<1>4. CASE RelayArrives(w)
  BY <1>4, CountStutter DEF RelayArrives, runs, daemon
<1>5. CASE FollowUp(w) BY <1>5, CountStutter DEF FollowUp, runs, daemon
<1>6. CASE InboxNotices(w)
  BY <1>6, CountStutter DEF InboxNotices, runs, daemon
<1>7. CASE InboxRevives(w)
  <2>1. pc # "idle" => copy[w].age # "old"
    BY <1>7 DEF NoCountLost, AgeUnderTick
  <2>2. /\ \A v \in Workers \ {w} : roster'[v] = roster[v]
        /\ roster'[w].age = "fresh" /\ roster'[w].relaunched = roster[w].relaunched
    BY <1>7, <1>a, RevivedEffect DEF InboxRevives
  <2>3. /\ up' \subseteq up \cup {w}
        /\ UNCHANGED <<intr, copy, pc, changed, target, spent>>
    BY <1>7, StartEffect DEF InboxRevives, daemon
  <2> QED BY <2>1, <2>2, <2>3, CountFrame
<1> QED
  BY <1>1, <1>2, <1>3, <1>4, <1>5, <1>6, <1>7 DEF StarterStep

LEMMA CountClock ==
  ASSUME CountInv, TypeOK', NEW w \in Workers, ClockStep(w) PROVE CountInv'
<1>a. TypeOK BY DEF CountInv
<1>1. CASE Ages(w)
  <2>1. /\ pc = "idle" /\ pc' = "idle" /\ changed' = changed
        /\ UNCHANGED <<up, intr>> /\ intr[w] = "none"
    BY <1>1, <1>a, AgesEffect
  <2>2. \A v \in Workers : spent'[v] = spent[v] \/ spent'[v] = 0
    BY <1>1, <1>a, AgesEffect, Shapes
  <2>3. \A v \in Workers : roster'[v].relaunched = roster[v].relaunched
    BY <1>1, <1>a, AgesEffect
  <2>4. Counts(roster)
    BY <2>1 DEF CountInv, IdleIsUnchanged
  <2>5. \A v \in Workers : spent'[v] <= roster'[v].relaunched
    BY <1>a, <2>2, <2>3, <2>4, Shapes DEF Counts
  <2>6. roster'[w].age = "old" /\ w \in up => spent'[w] = 0
    BY <1>1, <1>a, AgesEffect, Shapes DEF Up
  <2>7. \A v \in Workers \ {w} : roster'[v] = roster[v]
    BY <1>1, <1>a, AgesEffect
  <2>8. Counts(roster)'
    BY <2>1, <2>2, <2>4, <2>5, <2>6, <2>7 DEF Counts
  <2> QED BY <2>1, <2>8 DEF CountInv, IdleIsUnchanged, EmailIsForDue
<1>2. CASE StampAges(w) BY <1>2, CountStutter DEF StampAges, runs, daemon
<1>3. CASE ResetPasses(w)
  BY <1>3, CountStutter DEF ResetPasses, files, runs, daemon
<1>4. CASE GracePasses(w) BY <1>4, CountStutter DEF GracePasses, runs, daemon
<1>5. CASE HoldWake(w) BY <1>5, CountStutter DEF HoldWake, runs, daemon
<1> QED BY <1>1, <1>2, <1>3, <1>4, <1>5 DEF ClockStep

LEMMA CountInit == Init => CountInv
<1> SUFFICES ASSUME Init PROVE CountInv OBVIOUS
<1>1. \A w \in Workers : roster[w] = Fresh /\ spent[w] = 0 /\ intr[w] = "none"
  BY DEF Init
<1>2. Fresh.relaunched = 0 BY DEF Fresh
<1>3. Counts(roster)
  <2> SUFFICES ASSUME NEW w \in Workers
               PROVE  /\ spent[w] <= roster[w].relaunched
                      /\ roster[w].age = "old" =>
                            intr[w] = "none" /\ (w \in up => spent[w] = 0)
    BY DEF Counts
  <2>1. /\ spent[w] = 0 /\ roster[w].relaunched = 0 /\ intr[w] = "none"
    BY <1>1, <1>2
  <2> QED BY <2>1
<1> QED BY <1>3, TypeInit DEF Init, CountInv, IdleIsUnchanged, EmailIsForDue

LEMMA CountNext == CountInv /\ [Next]_vars /\ [NoCountLost]_vars => CountInv'
<1> SUFFICES ASSUME CountInv, [Next]_vars, [NoCountLost]_vars PROVE CountInv'
  OBVIOUS
<1>1. TypeOK' BY TypeNext DEF CountInv
<1>2. CASE UNCHANGED vars
  BY <1>1, <1>2, CountStutter DEF vars, files, runs, daemon
<1>3. CASE Next /\ NoCountLost
  BY <1>1, <1>3, CountTick, CountWorker, CountStarter, CountClock DEF Next
<1> QED BY <1>2, <1>3

\* The watchdog relaunches no worker more than MAX_RELAUNCH times between two runs
\* that survive SURVIVE_RESET_SEC, for any number of workers and however deaths,
\* interrupts, revivals and parks alternate.  Only the two steps above, which lose
\* a count, can break it.
THEOREM LoopsAreBounded == Spec /\ [][NoCountLost]_vars => []CapBoundsLoops
<1>1. CountInv => CapBoundsLoops
  <2> SUFFICES ASSUME CountInv, NEW w \in Workers PROVE spent[w] <= MaxRelaunch
    BY DEF CapBoundsLoops
  <2>1. spent[w] <= roster[w].relaunched \/ spent[w] <= copy[w].relaunched
    BY DEF CountInv, Counts, IdleIsUnchanged
  <2> QED BY <2>1, Shapes DEF CountInv
<1> QED BY CountInit, CountNext, <1>1, PTL DEF Spec

-----------------------------------------------------------------------------
(***************************************************************************)
(* Without an overlap none of those steps happens, but the abort of a tick  *)
(* that has dealt with another worker: of one worker all three hold without *)
(* a condition on the steps.                                               *)
(***************************************************************************)

Apart ==
    /\ TypeOK /\ reviving \cap up \cap parked = {}
    /\ \A w \in parking : Up(w) /\ Steady(w)
    /\ \A w \in Workers : intr[w] # "none" => pc = "idle"

LEMMA ApartStep ==
  ASSUME Races = {}, Apart, TypeOK', Next PROVE Apart'
<1>a. DOMAIN intr = Workers BY DEF Apart, TypeOK
<1> USE DEF Apart, Steady, Up
<1>1. CASE TickLoad
  BY <1>1 DEF TickLoad, Starting, files, runs
<1>2. ASSUME UNCHANGED <<intr, reviving>>, pc # "idle", parking' \subseteq parking,
             up \subseteq up', reviving \cap up' \cap parked' = {}
      PROVE  Apart'
  BY <1>2
<1>3. ASSUME NEW w \in Workers, StartsAgain(w) PROVE Apart'
  BY <1>2, <1>3 DEF StartsAgain
<1>4. CASE TickRelaunches BY <1>3, <1>4, TickRelaunchEffect
<1>5. CASE TickEnd BY <1>2, <1>5 DEF TickEnd, runs
<1>6. ASSUME NEW w \in Workers, TickAborts(w) \/ LooksAt(w) \/ Classifies(w)
      PROVE  Apart'
  BY <1>2, <1>6 DEF TickAborts, Scanning, LooksAt, Classifies, Classifying, files, runs
<1>7. CASE TickStep
  BY <1>1, <1>3, <1>4, <1>5, <1>6, <1>7, TickEffect DEF TickStep
<1>8. ASSUME NEW w \in Workers, WorkerStep(w) PROVE Apart'
  <2>1. CASE TouchSentinel(w) BY <2>1 DEF TouchSentinel, daemon
  <2>2. CASE ParkTouch(w) BY <2>2 DEF ParkTouch, MayFinish, Up, daemon
  <2>3. CASE ParkState(w) BY <2>3 DEF ParkState, daemon
  <2>4. CASE RequestSwitch(w) BY <2>4 DEF RequestSwitch, runs, daemon
  <2>5. ASSUME NEW how \in {"rc0", "error", "limit"}, Exits(w, how) PROVE Apart'
    BY <2>5 DEF Exits, Gone, daemon
  <2>6. CASE LeavesForSwitch(w) BY <2>5, <2>6 DEF LeavesForSwitch
  <2>7. CASE PaneDies(w) BY <2>7 DEF PaneDies, Gone, daemon
  <2>8. CASE ReadsMail(w) BY <2>8 DEF ReadsMail, runs, daemon
  <2> QED BY <1>8, <2>1, <2>2, <2>3, <2>4, <2>5, <2>6, <2>7, <2>8 DEF WorkerStep
<1>9. ASSUME NEW w \in Workers, StarterStep(w) PROVE Apart'
  <2>1. CASE InterruptStamps(w)
    BY <2>1, <1>a DEF InterruptStamps, MayWrite, daemon
  <2>2. CASE InterruptKills(w)
    BY <2>2, <1>a DEF InterruptKills, Gone, daemon
  <2>3. CASE InterruptStarts(w)
    BY <2>3, <1>a, StartEffect DEF InterruptStarts, Up, daemon
  <2>4. CASE RelayArrives(w) BY <2>4 DEF RelayArrives, runs, daemon
  <2>5. CASE FollowUp(w) BY <2>5 DEF FollowUp, runs, daemon
  <2>6. CASE InboxNotices(w)
    <3>1. w \notin up /\ reviving = {} /\ reviving' = {w}
          /\ UNCHANGED <<up, parked, parking, intr, pc>>
      BY <2>6 DEF InboxNotices, Up, runs, daemon
    <3>2. w \notin parking
      BY <3>1
    <3> QED BY <3>1
  <2>7. CASE InboxRevives(w)
    BY <2>7, StartEffect DEF InboxRevives, daemon
  <2> QED BY <1>9, <2>1, <2>2, <2>3, <2>4, <2>5, <2>6, <2>7 DEF StarterStep
<1>10. ASSUME NEW w \in Workers, ClockStep(w) PROVE Apart'
  BY <1>10 DEF ClockStep, Ages, StampAges, ResetPasses, GracePasses, HoldWake,
               files, runs, daemon
<1> QED BY <1>7, <1>8, <1>9, <1>10 DEF Next

LEMMA ApartHolds == ASSUME Races = {} PROVE Spec => []Apart
<1>1. Init => Apart
  BY TypeInit DEF Init, Apart
<1>2. Apart /\ [Next]_vars => Apart'
  <2> SUFFICES ASSUME Apart, [Next]_vars PROVE Apart' OBVIOUS
  <2>1. TypeOK' BY TypeNext DEF Apart
  <2>2. CASE UNCHANGED vars
    BY <2>1, <2>2 DEF Apart, Steady, Up, vars, runs, daemon
  <2> QED BY <2>1, <2>2, ApartStep
<1> QED BY <1>1, <1>2, PTL DEF Spec

\* A tick whose copy is worth saving has dealt with somebody already ...
FirstOfTick == pc # "idle" /\ changed => todo # Workers

LEMMA FirstOfTickHolds == Spec => [](TypeOK /\ FirstOfTick)
<1>1. Init => TypeOK /\ FirstOfTick
  BY TypeInit DEF Init, FirstOfTick
<1>2. TypeOK /\ FirstOfTick /\ [Next]_vars => (TypeOK /\ FirstOfTick)'
  <2> SUFFICES ASSUME TypeOK, FirstOfTick, [Next]_vars PROVE FirstOfTick'
    BY TypeNext
  <2>1. CASE UNCHANGED <<pc, changed, todo>> BY <2>1 DEF FirstOfTick
  <2>2. ASSUME NEW w \in Workers, WorkerStep(w) \/ StarterStep(w) \/ ClockStep(w)
        PROVE  UNCHANGED <<pc, changed, todo>>
    BY <2>2 DEF WorkerStep, TouchSentinel, ParkTouch, ParkState, RequestSwitch,
       LeavesForSwitch, Exits, PaneDies, ReadsMail, StarterStep, InterruptStamps,
       InterruptKills, InterruptStarts, RelayArrives, FollowUp, InboxNotices,
       InboxRevives, ClockStep, Ages, StampAges, ResetPasses, GracePasses, HoldWake,
       daemon
  <2>3. ASSUME NEW w \in Workers, Handled(w) PROVE FirstOfTick'
    BY <2>3 DEF Handled, FirstOfTick
  <2>4. CASE TickLoad BY <2>4 DEF TickLoad, FirstOfTick
  <2>5. CASE TickRelaunches
    BY <2>5 DEF TickRelaunches, FirstOfTick, TypeOK
  <2>6. CASE TickEnd BY <2>6 DEF TickEnd, FirstOfTick
  <2>7. ASSUME NEW w \in Workers, TickAborts(w) PROVE FirstOfTick'
    BY <2>7 DEF TickAborts, FirstOfTick
  <2>8. ASSUME NEW w \in Workers, TickEmails(w) PROVE FirstOfTick'
    BY <2>8 DEF TickEmails, Incomplete, Crashed, Unfinished, Dead, Classifying,
                Scanning, FirstOfTick
  <2>9. ASSUME NEW w \in Workers,
               \/ TickSwitches(w) \/ TickSkips(w) \/ TickReset(w) \/ TickAlive(w)
               \/ TickDone(w) \/ TickLimit(w) \/ TickNoMarker(w) \/ TickBacksOff(w)
               \/ TickGivesUp(w) \/ TickInterrupted(w)
        PROVE  FirstOfTick'
    BY <2>3, <2>9 DEF TickSwitches, TickSkips, TickReset, TickAlive, TickDone,
       TickLimit, TickNoMarker, TickBacksOff, TickGivesUp, TickInterrupted
  <2>10. CASE UNCHANGED vars BY <2>1, <2>10 DEF vars, daemon
  <2> QED BY <2>1, <2>2, <2>4, <2>5, <2>6, <2>7, <2>8, <2>9, <2>10 DEF Next, TickStep
<1> QED BY <1>1, <1>2, PTL DEF Spec

\* ... so that of one worker alone no update is ever lost.
LEMMA AloneLosesNothing ==
  ASSUME Races = {}, NEW w0, Workers = {w0}
  PROVE  Spec => /\ [][NoParkOverwritten]_vars
                 /\ [][NoStartLost]_vars /\ [][NoCountLost]_vars
<1>1. ASSUME TypeOK, FirstOfTick, Apart
      PROVE  NoParkOverwritten /\ NoStartLost /\ NoCountLost
  <2> SUFFICES ASSUME NEW w \in Workers
               PROVE  /\ ~ParksUnderTick(w) /\ ~RevivesParked(w)
                      /\ ~StampUnderTick(w) /\ ~StartOverlooked(w)
                      /\ ~ParksUnderInterrupt(w) /\ ~UpdateLost(w) /\ ~AgeUnderTick(w)
    BY DEF NoParkOverwritten, NoStartLost, NoCountLost
  <2>1. ~ParksUnderTick(w) BY DEF ParksUnderTick, ParkState, MayWrite
  <2>2. ~RevivesParked(w) BY <1>1 DEF RevivesParked, InboxRevives, Up, Apart
  <2>3. ~StampUnderTick(w) /\ ~AgeUnderTick(w)
    BY DEF StampUnderTick, AgeUnderTick, InterruptStamps, InboxRevives, MayWrite
  <2>4. ~StartOverlooked(w)
    BY <1>1 DEF StartOverlooked, Apart, TickDone, TickLimit, TickGivesUp, Interrupted,
       Incomplete, Crashed, Unfinished, Dead, Classifying, Scanning
  <2>5. ~ParksUnderInterrupt(w)
    BY <1>1 DEF ParksUnderInterrupt, ParkState, Apart, Steady
  <2>6. ~UpdateLost(w)
    BY <1>1 DEF UpdateLost, TickAborts, Scanning, FirstOfTick, TypeOK
  <2> QED BY <2>1, <2>2, <2>3, <2>4, <2>5, <2>6
<1> QED BY <1>1, ApartHolds, FirstOfTickHolds, PTL DEF Spec

\* Of one worker, and if no other writer of the roster falls into a tick and the
\* worker neither finishes nor parks while somebody is about to start it, all
\* three hold without a condition on the steps.
THEOREM AloneIsSupervised ==
  ASSUME Races = {}, NEW w0, Workers = {w0}
  PROVE  Spec => [](WorkingIsTracked /\ ParkedIsHonest /\ CapBoundsLoops)
BY RunningIsSupervised, ParkedKept, LoopsAreBounded, AloneLosesNothing, PTL

=============================================================================
