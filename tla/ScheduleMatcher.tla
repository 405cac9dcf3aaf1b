-------------------------- MODULE ScheduleMatcher --------------------------
(***************************************************************************)
(* scheduling/matcher.py: which jobs of a schedule are due in a minute.    *)
(* A minute is a number of minutes since midnight UTC of some first day;   *)
(* the same arithmetic on a zone's wall clock gives its local day, hour    *)
(* and minute.  A cron expression is its sets of minutes and hours; the    *)
(* fields for the day are "*", as in every job of config/schedule.yaml.    *)
(***************************************************************************)
EXTENDS Integers

CONSTANTS
  Schedule,        \* the ScheduleFile: its timezone, and its jobs by name
  Zones,           \* the zones of the IANA database that it may name
  MinutesPerHour,
  FirstWeekday     \* weekday() of the first day: 0 is a Monday

VARIABLE calendar  \* the offset of each zone from UTC in each minute

WeekendTimezone == "America/New_York"
NoTimezone      == "none"

Jobs        == DOMAIN Schedule.jobs
JobDefinition ==
  [minutes : SUBSET Nat, hours : SUBSET (0 .. 23), enabled : BOOLEAN,
   runWeekend : BOOLEAN, timezone : Zones \cup {NoTimezone}]

ASSUME ScheduleAssumption ==
  /\ WeekendTimezone \in Zones /\ Schedule.timezone \in Zones
  /\ \A j \in Jobs : Schedule.jobs[j] \in JobDefinition
  /\ MinutesPerHour \in Nat \ {0} /\ FirstWeekday \in 0 .. 6

-----------------------------------------------------------------------------
(* datetime.astimezone, and the fields of a local time *)

Local(at, zone) == at + calendar[zone][at]

MinutesPerDay  == 24 * MinutesPerHour
MinuteOf(local) == local % MinutesPerHour
HourOf(local)   == (local \div MinutesPerHour) % 24
DayOf(local)    == local \div MinutesPerDay
Weekday(local)  == (DayOf(local) + FirstWeekday) % 7

\* croniter.match
CronMatches(job, local) ==
  MinuteOf(local) \in job.minutes /\ HourOf(local) \in job.hours

-----------------------------------------------------------------------------
(* matcher.py *)

\* Mutant: the weekend is that of the job's own zone.
IsDueByOwnWeekend(job, at, zone) ==
  /\ CronMatches(job, Local(at, zone))
  /\ job.runWeekend \/ Weekday(Local(at, zone)) < 5

IsDue(job, at, zone) ==
  /\ CronMatches(job, Local(at, zone))
  /\ job.runWeekend \/ Weekday(Local(at, WeekendTimezone)) < 5

\* job.timezone or schedule.timezone
TimezoneOf(job) ==
  IF job.timezone = NoTimezone THEN Schedule.timezone ELSE job.timezone

DueJobs(at) ==
  {j \in Jobs : LET job == Schedule.jobs[j]
                IN  job.enabled /\ IsDue(job, at, TimezoneOf(job))}

=============================================================================
