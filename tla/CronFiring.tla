----------------------------- MODULE CronFiring -----------------------------
(***************************************************************************)
(* The poll loop of PollTiming and the matcher together, over days: what   *)
(* run_forever hands to _dispatch, with its clock read at intervals, its   *)
(* iterations cut short by exceptions, and the clocks of New York put      *)
(* forward or back.  The schedule stays as it is, and no job is refused    *)
(* for an instance of it that still runs: reloads, and what _dispatch      *)
(* makes of a job, are in SchedulerWorker.                                 *)
(***************************************************************************)
EXTENDS PollTiming, ScheduleMatcher, FiniteSets

CONSTANT Calendars

ASSUME CalendarAssumption ==
  \A c \in Calendars : c \in [Zones -> [0 .. MaxMinute -> Int]]

VARIABLES
  fired,        \* history: the jobs handed to _dispatch, with their minutes
  doneMinute,   \* history: the reading of the last iteration that came to its
  doneSecond,   \*   end, or the start of the loop: its minute, its second,
  sinceDone     \*   and the seconds since

doneReading == <<doneMinute, doneSecond, sinceDone>>
firingVars  == <<vars, calendar, fired, doneReading>>

FiringInit ==
  /\ Init
  /\ calendar \in Calendars /\ fired = {}
  /\ doneMinute = minute /\ doneSecond = second /\ sinceDone = 0

\* The jobs due at the minute that was read which are not in the dedupe set.
ToFire == {j \in DueJobs(seenMinute) : <<j, seenMinute>> \notin fired}

TimePasses ==
  /\ Tick
  /\ sinceDone' = sinceDone + 1
  /\ UNCHANGED <<calendar, fired, doneMinute, doneSecond>>

Unfinished ==
  /\ Wake \/ ReadClock \/ Fail
  /\ UNCHANGED <<calendar, fired, doneReading>>

\* One pass of the loop over due_jobs.
Fire(j) ==
  /\ pc = "work" /\ j \in ToFire
  /\ fired' = fired \cup {<<j, seenMinute>>}
  /\ UNCHANGED <<vars, calendar, doneReading>>

\* Mutant: last_seen_minute is assigned before the jobs have had their pass, and
\* an exception loses those that had not.
FinishAfterFailure ==
  /\ Beat
  /\ ToFire = {} \/ failures > 0
  /\ doneMinute' = seenMinute /\ doneSecond' = seenSecond /\ sinceDone' = sinceRead
  /\ UNCHANGED <<calendar, fired>>

\* The iteration comes to its end: every job that is due has had its pass.
Finish ==
  /\ Beat /\ ToFire = {}
  /\ doneMinute' = seenMinute /\ doneSecond' = seenSecond /\ sinceDone' = sinceRead
  /\ UNCHANGED <<calendar, fired>>

FiringNext == TimePasses \/ Unfinished \/ Finish \/ \E j \in Jobs : Fire(j)

FiringSpec == FiringInit /\ [][FiringNext]_firingVars

-----------------------------------------------------------------------------
(* Properties *)

Contract == INSTANCE CronContract WITH
  time <- seenMinute, due <- DueJobs(seenMinute),
  fired <- {j \in Jobs : <<j, seenMinute>> \in fired}

\* The loop, which looks at the clock now and then, drops an iteration at any
\* exception and is never told what it missed, keeps the promise of a cron.
CronIsKept == Contract!Spec

\* The zone by whose days a job is counted.
DayZone(job) == IF job.runWeekend THEN TimezoneOf(job) ELSE WeekendTimezone

RunsOn(job, day) ==
  job.enabled /\ (job.runWeekend \/ (day + FirstWeekday) % 7 \notin {5, 6})

FiredOn(j, zone, day) == {f \in fired : f[1] = j /\ DayOf(Local(f[2], zone)) = day}

\* The days of a zone that have begun and ended since the start.
WholeDays(zone) == DayOf(Local(0, zone)) + 1 .. DayOf(Local(seenMinute, zone)) - 1

\* A job with one hour and minute runs once on every day of its own zone if it
\* has run_weekend; otherwise once on every weekday of New York and never on a
\* weekend of New York, be it another day already in the zone of the job, and
\* over a change of the clocks.  One that is not enabled never runs.
DailyJobsFireDaily ==
  \A j \in Jobs :
    LET job == Schedule.jobs[j]
    IN  \A d \in WholeDays(DayZone(job)) :
          Cardinality(FiredOn(j, DayZone(job), d)) = IF RunsOn(job, d) THEN 1 ELSE 0

\* What that takes of a calendar: no zone is put back over midnight, and the
\* minute of a job comes once on every whole day on which it runs, of the zone
\* it is counted by.  (At 13:00 in Tokyo, 23:00 or 0:00 in New York, it may come
\* twice or not at all on the Sunday of a change, which is no day to run on.)
DailyCalendar(c) ==
  LET InZone(at, zone) == at + c[zone][at]
      Day(at, zone)    == DayOf(InZone(at, zone))
  IN  \A j \in Jobs :
        LET job     == Schedule.jobs[j]
            zone    == DayZone(job)
            Hits(d) == {m \in 0 .. MaxMinute : /\ Day(m, zone) = d
                                               /\ CronMatches(job, InZone(m, TimezoneOf(job)))}
        IN  /\ \A k, m \in 0 .. MaxMinute : k <= m => Day(k, zone) <= Day(m, zone)
            /\ \A d \in Day(0, zone) + 1 .. Day(MaxMinute, zone) - 1 :
                 RunsOn(job, d) => \E m \in 0 .. MaxMinute : Hits(d) = {m}

=============================================================================
