------------------------------ MODULE LimitNotice ------------------------------
(***************************************************************************)
(* scratch_inbox.py, parse_limit_notice: when the limit a notice speaks of *)
(* is reset.  The inbox and the watchdog wait until then.                  *)
(*                                                                         *)
(* The calendar is a small one (hours in a day, days in a month, months in *)
(* a year), every time is a number of hours, and a zone is what its clock  *)
(* is ahead.  A notice gives its reset as a number of hours from now, a    *)
(* full date, a month and a day, a time of day, or in no form known, a     *)
(* date with a time of day or without.  The patterns that tell the forms   *)
(* apart are left out, and so are the minutes, leap days and the change to *)
(* summer time.                                                            *)
(***************************************************************************)
EXTENDS Integers, FiniteSetsExt

CONSTANTS HoursADay, DaysAMonth, MonthsAYear, HostZone, NoticeZones, NowTimes

ASSUME LimitAssumption ==
    /\ {HoursADay, DaysAMonth, MonthsAYear} \subseteq Nat \ {0}
    /\ HostZone \in Int /\ NoticeZones \subseteq Int
    \* No zone is a day ahead or behind, and the first day of the calendar is over.
    /\ \A z \in NoticeZones \cup {HostZone} : -HoursADay < z /\ z < HoursADay
    /\ NowTimes \subseteq Nat /\ \A t \in NowTimes : t >= HoursADay

VARIABLES
    notice,         \* what the notice says
    now,            \* when it is read
    reset           \* what was made of it, 0 before

limitVars == <<notice, now, reset>>

NoClock == HoursADay
NoZone  == HoursADay
DayHours  == 0 .. HoursADay - 1
MonthDays    == 0 .. DaysAMonth - 1
YearMonths  == 0 .. MonthsAYear - 1
ADay     == HoursADay
AMonth   == HoursADay * DaysAMonth
AYear    == AMonth * MonthsAYear

HourAt(t)  == t % ADay
DayAt(t)   == (t \div ADay) % DaysAMonth
MonthAt(t) == (t \div AMonth) % MonthsAYear
Instant(year, month, day, hour) == year * AYear + month * AMonth + day * ADay + hour

NoticeForms   == {"relative", "iso", "dated", "clock", "none"}
Notices == [form : NoticeForms, hours : 1 .. 2, month : YearMonths, day : MonthDays,
            clock : DayHours \cup {NoClock}, zone : NoticeZones \cup {NoZone}]

LimitTypeOK == notice \in Notices /\ now \in NowTimes /\ reset \in Nat

\* A notice that says "limit" and "reset": another one is not parsed.
LimitInit ==
    /\ notice \in {n \in Notices : /\ n.form # "relative" => n.hours = 1
                                   /\ n.form \in {"relative", "none", "clock"} =>
                                         n.month = 0 /\ n.day = 0
                                   /\ n.form \in {"relative", "none"} => n.clock = NoClock
                                   /\ n.form = "clock" => n.clock # NoClock}
    /\ now \in NowTimes
    /\ reset = 0

-----------------------------------------------------------------------------

\* _extract_tz: the zone a notice names, the host's without one.
ZoneOf(n) == IF n.zone = NoZone THEN HostZone ELSE n.zone

\* _parse_clock; a date without one means midnight.
ClockOf(n) == IF n.clock = NoClock THEN 0 ELSE n.clock

\* The year of a date without one: a day that is past is next year's.
DatedAt(n, local) ==
    LET past == \/ n.month < MonthAt(local)
                \/ n.month = MonthAt(local) /\ n.day < DayAt(local)
    IN  Instant((local \div AYear) + IF past THEN 1 ELSE 0, n.month, n.day, ClockOf(n))

ClockThisDay(n, local) ==                                             \* mutant
    (local - HourAt(local)) + ClockOf(n)

\* Today, or tomorrow when the hour has come.
ClockAt(n, local) ==
    LET today == (local - HourAt(local)) + ClockOf(n)
    IN  IF today <= local THEN today + ADay ELSE today

\* parse_reset_epoch: all of it is computed on the notice's clock.
ParseReset(n, t) ==
    LET local == t + ZoneOf(n)
    IN  CASE n.form = "relative" -> t + n.hours
          [] n.form = "iso"   -> Instant(1, n.month, n.day, ClockOf(n)) - ZoneOf(n)
          [] n.form = "dated" -> DatedAt(n, local) - ZoneOf(n)
          [] n.form = "clock" -> ClockAt(n, local) - ZoneOf(n)
          [] OTHER            -> t + 1

LimitParsed ==
    /\ reset = 0
    /\ reset' = ParseReset(notice, now)
    /\ UNCHANGED <<notice, now>>

LimitNext == LimitParsed

LimitSpec == LimitInit /\ [][LimitNext]_limitVars

-----------------------------------------------------------------------------

\* The wait ends at the first hour to come at which a clock of the notice's zone
\* shows what the notice says (from the start of today for a date, whose time may
\* be over); and a notice in no known form is looked at again within the hour.
\* The month's, year's and zone's ends are where it goes wrong.
LimitReset ==
    LET local == now + ZoneOf(notice)
        Shows(t) == /\ HourAt(t) = ClockOf(notice)
                    /\ notice.form = "dated" =>
                          MonthAt(t) = notice.month /\ DayAt(t) = notice.day
        from == IF notice.form = "dated" THEN local - HourAt(local) ELSE local + 1
    IN  reset # 0 =>
          /\ notice.form \in {"dated", "clock"} =>
                reset + ZoneOf(notice) = Min({t \in from .. local + AYear + ADay : Shows(t)})
          /\ notice.form \in {"relative", "none"} => reset \in now + 1 .. now + 2

=============================================================================
