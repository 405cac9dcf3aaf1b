---------------------------- MODULE MCCronFiring ----------------------------
(***************************************************************************)
(* Some days about a change of the clocks in New York, from the start of a *)
(* Friday, UTC; a "minute" of the model is half an hour.                   *)
(***************************************************************************)
EXTENDS CronFiring

TheZones == {"America/New_York", "Asia/Tokyo"}

Daily(hour, minuteOfHour, zone, weekend, on) ==
  [hours |-> {hour}, minutes |-> {minuteOfHour}, timezone |-> zone,
   runWeekend |-> weekend, enabled |-> on]

\* The jobs of config/schedule.yaml (one by the default zone), and three more.
TheSchedule ==
  [timezone |-> "Asia/Tokyo",
   jobs |-> [daily_ingestion |-> Daily(10, 0, "Asia/Tokyo", FALSE, TRUE),
             sticky_notes    |-> Daily(10, 1, "Asia/Tokyo", FALSE, TRUE),
             streaming       |-> Daily(12, 1, "Asia/Tokyo", FALSE, TRUE),
             daily_trades    |-> Daily(13, 0, "none", FALSE, TRUE),
             every_day       |-> Daily(13, 0, "Asia/Tokyo", TRUE, TRUE),
             opening         |-> Daily(9, 1, "America/New_York", FALSE, TRUE),
             switched_off    |-> Daily(10, 0, "none", TRUE, FALSE)]]

\* The clocks are changed on the Sunday at 2:00, New York time.
Sunday == 2 * 24
Changes(before, hour, after) ==
  [zone \in TheZones |->
    [m \in 0 .. MaxMinute |->
      MinutesPerHour * IF zone = "Asia/Tokyo" THEN 9
                       ELSE IF m < MinutesPerHour * (Sunday + hour) THEN before ELSE after]]
Spring == Changes(-5, 7, -4)
Autumn == Changes(-4, 6, -5)
TheCalendars == {Spring, Autumn}

ASSUME DailyCalendarAssumption == \A c \in Calendars : DailyCalendar(c)

=============================================================================
