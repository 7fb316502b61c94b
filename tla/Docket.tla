------------------------------- MODULE Docket -------------------------------
(***************************************************************************)
(* scratch_docket.py: a standing entry that drops a fresh record for a     *)
(* bridge whenever its schedule comes due.  The runner is started every    *)
(* minute, an operator edits, pauses, resumes, cancels and fires by hand   *)
(* from the dashboard, all under one lock; the runner does without when it *)
(* cannot have it.  Entries do not touch each other: one is modelled.      *)
(*                                                                         *)
(* Time is counted in ticks of a small calendar with the code's units, no  *)
(* daylight saving.  Time 0 is None.  The prompt, the lanes and the slots  *)
(* of an entry, and what validate() says about them, are left out.         *)
(***************************************************************************)
EXTENDS Naturals, Sequences, FiniteSetsExt

CONSTANTS
    TicksPerHour, HoursPerDay, DaysPerWeek,
    MonthLengths,       \* in days; the months repeat
    Schedules,          \* freq, and the fields that freq uses
    Grace,              \* MISSED_GRACE_SEC
    MaxCatchupSteps,
    Horizon, MaxEdits, MaxDocketDeaths

ASSUME DocketAssumption ==
    /\ {TicksPerHour, HoursPerDay, DaysPerWeek} \subseteq Nat \ {0}
    /\ MonthLengths \in Seq(Nat \ {0}) /\ MonthLengths # <<>>
    /\ \A e \in Schedules :
          /\ e.freq \in {"once", "hourly", "daily", "weekly", "monthly"}
          /\ e.freq = "once"    => e.start \in Nat
          /\ e.freq # "once"    => e.at \in 0 .. HoursPerDay * TicksPerHour - 1
          /\ e.freq = "weekly"  => e.dow \in 0 .. DaysPerWeek - 1
          /\ e.freq = "monthly" => e.dom \in Nat \ {0}
    /\ Grace \in Nat /\ MaxCatchupSteps \in Nat
    /\ Horizon \in Nat \ {0} /\ MaxEdits \in Nat /\ MaxDocketDeaths \in Nat

VARIABLES
    clock,
    schedule, nextRun, paused,  \* the entry's record
    cancelled,                  \* it was moved to cancelled/
    pass,       \* who holds the lock over a fired record: the runner, which
                \* slot it is for, and the time its pass began
    \* For the properties only.
    armedAfter, \* nextRun was asked for as the first slot after this
    fired,      \* the latest slot the runner dropped a record for
    refired,    \* how often that was not a later one than before
    edits, docketDeaths

docketVars == <<clock, schedule, nextRun, paused, cancelled, pass, armedAfter,
                fired, refired, edits, docketDeaths>>

NoTime == 0
NoPass == [by |-> "nobody", slot |-> NoTime, now |-> NoTime]
Hour   == TicksPerHour
Day    == HoursPerDay * Hour
Week   == DaysPerWeek * Day

DocketTypeOK ==
    /\ clock \in 1 .. Horizon /\ schedule \in Schedules
    /\ nextRun \in Nat /\ armedAfter \in Nat
    /\ paused \in BOOLEAN /\ cancelled \in BOOLEAN
    /\ pass.by \in {"nobody", "runner", "operator"}
    /\ fired \in Nat /\ refired \in Nat
    /\ edits \in 0 .. MaxEdits /\ docketDeaths \in 0 .. MaxDocketDeaths

-----------------------------------------------------------------------------
(* next_occurrence.                                                        *)

MonthLength(m) == MonthLengths[(m % Len(MonthLengths)) + 1]
MonthStart[m \in Nat] ==
    IF m = 0 THEN 0 ELSE MonthStart[m - 1] + MonthLength(m - 1) * Day
\* (No month is shorter than a day.)
MonthOf(t) == Max({m \in 0 .. t \div Day : MonthStart[m] <= t})

AtLeast(x, y) == IF x < y THEN y ELSE x
AtMost(x, y)  == IF x < y THEN x ELSE y

\* The entry's time in month m: a short month clamps to its last day.
InMonth(m, e) == MonthStart[m] + (AtMost(e.dom, MonthLength(m)) - 1) * Day + e.at

NotBefore(candidate, after, unit) ==                                  \* mutant
    IF candidate < after THEN candidate + unit ELSE candidate

\* A candidate in the present unit, the next unit's when that is not after.
StrictlyAfter(candidate, after, unit) ==
    IF candidate <= after THEN candidate + unit ELSE candidate

NextOccurrence(e, after) ==
    LET midnight == after - (after % Day)
        weekday  == (after \div Day) % DaysPerWeek
    IN CASE e.freq = "once"   -> IF e.start > after THEN e.start ELSE NoTime
         [] e.freq = "hourly" ->
              StrictlyAfter(after - (after % Hour) + (e.at % Hour), after, Hour)
         [] e.freq = "daily"  -> StrictlyAfter(midnight + e.at, after, Day)
         [] e.freq = "weekly" ->
              StrictlyAfter(midnight + e.at
                            + ((DaysPerWeek + e.dow - weekday) % DaysPerWeek) * Day,
                            after, Week)
         [] e.freq = "monthly" ->
              LET m == MonthOf(after)
              IN  InMonth(Min({k \in m .. m + 13 : InMonth(k, e) > after}), e)

\* What the schedule says, whatever the way it is computed.
IsSlot(e, t) ==
    LET inDay == t % Day
        month == MonthOf(t)
        day   == (t - MonthStart[month]) \div Day + 1
    IN CASE e.freq = "once"    -> t = e.start
         [] e.freq = "hourly"  -> t % Hour = e.at % Hour
         [] e.freq = "daily"   -> inDay = e.at
         [] e.freq = "weekly"  -> inDay = e.at /\ (t \div Day) % DaysPerWeek = e.dow
         [] e.freq = "monthly" ->
              inDay = e.at /\ day = AtMost(e.dom, MonthLength(month))

\* _after_the_consumed_slot: from the slot that was showing, so that the phase
\* stays, stepping over the ones that are past.
OneStep(e, slot, now) == NextOccurrence(e, slot)                      \* mutant

CatchUp(e, slot, now) ==
    LET cand[k \in 0 .. MaxCatchupSteps] ==
            IF k = 0 THEN NextOccurrence(e, slot)
            ELSE LET last == cand[k - 1]
                 IN  IF last = NoTime \/ last > now THEN last ELSE NextOccurrence(e, last)
    IN  cand[MaxCatchupSteps]

DocketInit ==
    /\ clock = 1 /\ schedule \in Schedules
    /\ nextRun = NextOccurrence(schedule, 1) /\ armedAfter = 1
    /\ paused = FALSE /\ cancelled = FALSE /\ pass = NoPass
    /\ fired = NoTime /\ refired = 0 /\ edits = 0 /\ docketDeaths = 0

-----------------------------------------------------------------------------
(* The runner.                                                             *)

Free == pass = NoPass /\ ~cancelled

Rearm(after) ==
    /\ nextRun' = NextOccurrence(schedule, after)
    /\ armedAfter' = after

\* The box may sleep: a tick does not wait for the runner.
Tick ==
    /\ clock < Horizon
    /\ clock' = clock + 1
    /\ UNCHANGED <<schedule, nextRun, paused, cancelled, pass, armedAfter, fired, refired,
                   edits, docketDeaths>>

Due == Free /\ ~paused /\ nextRun # NoTime /\ nextRun <= clock

\* fire(): the record is in the bridge's pending/, the entry's not yet written.
RunDue ==
    /\ Due /\ clock - nextRun <= Grace
    /\ pass' = [by |-> "runner", slot |-> nextRun, now |-> clock]
    /\ fired' = nextRun
    /\ refired' = IF nextRun > fired THEN refired ELSE refired + 1
    /\ UNCHANGED <<clock, schedule, nextRun, paused, cancelled, armedAfter, edits,
                   docketDeaths>>

\* Missed by more than the grace, or fire() raised: recorded, and consumed.
RunDueInVain ==
    /\ Due
    /\ Rearm(clock)
    /\ UNCHANGED <<clock, schedule, paused, cancelled, pass, fired, refired, edits,
                   docketDeaths>>

RunDueRecord ==
    /\ pass.by = "runner"
    /\ Rearm(pass.now)
    /\ pass' = NoPass
    /\ UNCHANGED <<clock, schedule, paused, cancelled, fired, refired, edits, docketDeaths>>

-----------------------------------------------------------------------------
(* The operator.                                                           *)

Edit == edits < MaxEdits /\ edits' = edits + 1

\* save() of a live entry, its schedule changed or not.
Save(e) ==
    /\ Free /\ Edit
    /\ schedule' = e
    /\ nextRun' = NextOccurrence(e, clock) /\ armedAfter' = clock
    /\ UNCHANGED <<clock, paused, cancelled, pass, fired, refired, docketDeaths>>

Pause ==
    /\ Free /\ Edit /\ paused' = TRUE
    /\ UNCHANGED <<clock, schedule, nextRun, cancelled, pass, armedAfter, fired, refired,
                   docketDeaths>>

\* Re-arms from now; a one-off that is past raises, and nothing is written.
Resume ==
    /\ Free /\ Edit /\ NextOccurrence(schedule, clock) # NoTime
    /\ paused' = FALSE
    /\ Rearm(clock)
    /\ UNCHANGED <<clock, schedule, cancelled, pass, fired, refired, docketDeaths>>

Cancel ==
    /\ Free /\ Edit
    /\ cancelled' = TRUE /\ nextRun' = NoTime
    /\ UNCHANGED <<clock, schedule, paused, pass, armedAfter, fired, refired, docketDeaths>>

RunNow ==
    /\ Free /\ Edit
    /\ pass' = [by |-> "operator", slot |-> nextRun, now |-> clock]
    /\ UNCHANGED <<clock, schedule, nextRun, paused, cancelled, armedAfter, fired, refired,
                   docketDeaths>>

\* A paused entry keeps the schedule it has; so does a spent one.
RunNowRecord ==
    /\ pass.by = "operator"
    /\ IF paused \/ pass.slot = NoTime
       THEN UNCHANGED <<nextRun, armedAfter>>
       ELSE /\ nextRun' = CatchUp(schedule, pass.slot, pass.now)
            /\ armedAfter' = AtLeast(pass.slot, pass.now)
    /\ pass' = NoPass
    /\ UNCHANGED <<clock, schedule, paused, cancelled, fired, refired, edits, docketDeaths>>

\* Whoever fired is killed before it writes the entry.
DocketDies ==
    /\ pass # NoPass /\ docketDeaths < MaxDocketDeaths
    /\ pass' = NoPass /\ docketDeaths' = docketDeaths + 1
    /\ UNCHANGED <<clock, schedule, nextRun, paused, cancelled, armedAfter, fired, refired,
                   edits>>

DocketNext ==
    \/ Tick \/ RunDue \/ RunDueInVain \/ RunDueRecord
    \/ \E e \in Schedules : Save(e)
    \/ Pause \/ Resume \/ Cancel \/ RunNow \/ RunNowRecord \/ DocketDies

DocketSpec == DocketInit /\ [][DocketNext]_docketVars

-----------------------------------------------------------------------------
(* Properties.                                                             *)

\* The runner queues one run for a slot, whatever is edited, resumed or fired
\* by hand around it, unless it was killed between the two files it writes.
SlotFiredOnce == refired <= docketDeaths

\* An armed entry waits for the first slot of its schedule after the time it
\* was armed at; after a manual run that is the one after the consumed slot,
\* or after now when the schedule was stale.
NextRunIsTheNextSlot ==
    nextRun # NoTime =>
        /\ IsSlot(schedule, nextRun) /\ nextRun > armedAfter
        /\ \A t \in armedAfter + 1 .. nextRun - 1 : ~IsSlot(schedule, t)

=============================================================================
