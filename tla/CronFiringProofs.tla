-------------------------- MODULE CronFiringProofs --------------------------
(***************************************************************************)
(* How often the loop must poll, for every length of a minute, poll        *)
(* interval, duration of the work, and number of failed iterations; and    *)
(* that it then implements CronContract, for every schedule and calendar.  *)
(***************************************************************************)
EXTENDS CronFiring, FiniteSetTheorems, TLAPS

-----------------------------------------------------------------------------
(* The timing of the loop *)

\* The longest an iteration and its sleep take.
Cycle == PollInterval + MaxWork

\* What the seconds since the last reading say about the wall clock: it is in
\* the same minute, in the next one, or more than a minute has passed.
ClockInv ==
  \/ minute = seenMinute /\ second = seenSecond + sinceRead
  \/ minute = seenMinute + 1 /\ second + MinuteLength = seenSecond + sinceRead
  \/ minute > seenMinute + 1 /\ sinceRead > MinuteLength

\* How long ago the clock was read and the heartbeat written, by the number of
\* iterations that failed since.
AgeInv ==
  /\ pc = "sleep" =>
       /\ elapsed <= PollInterval
       /\ sinceRead <= MaxWork + failures * Cycle + elapsed
       /\ beatAge <= failures * Cycle + elapsed
  /\ pc # "sleep" =>
       /\ elapsed <= MaxWork
       /\ beatAge <= failures * Cycle + PollInterval + elapsed
  /\ pc = "reload" => sinceRead <= MaxWork + failures * Cycle + PollInterval + elapsed
  /\ pc = "work" => sinceRead <= elapsed

TimingInv == TypeOK /\ ClockInv /\ AgeInv

LEMMA CycleArithmetic ==
  /\ Cycle \in Nat /\ PollInterval \in Nat /\ MaxWork \in Nat /\ MinuteLength \in Nat
  /\ \A f \in Nat : f * Cycle \in Nat /\ (f + 1) * Cycle = f * Cycle + Cycle
  /\ 0 * Cycle = 0
  /\ \A f \in 0 .. MaxFailures : f * Cycle <= MaxFailures * Cycle
  <1>1. Cycle \in Nat
    BY TimingAssumption DEF Cycle
  <1>2. \A f \in 0 .. MaxFailures, c \in Nat : f * c <= MaxFailures * c
    BY TimingAssumption
  <1> QED
    BY <1>1, <1>2, TimingAssumption

LEMMA TimingInit == Init => TimingInv
  BY TimingAssumption, CycleArithmetic
  DEF Init, TimingInv, TypeOK, ClockInv, AgeInv

LEMMA TimingStep == TimingInv /\ [Next]_vars => TimingInv'
  <1> SUFFICES ASSUME TimingInv, [Next]_vars PROVE TimingInv'
    OBVIOUS
  <1> DEFINE fc == failures * Cycle
  <1>0. /\ fc \in Nat /\ Cycle = PollInterval + MaxWork
        /\ failures \in Nat
    BY CycleArithmetic DEF TimingInv, TypeOK, Cycle
  <1> USE TimingAssumption DEF TimingInv, TypeOK, wallClock, reading
  <1>1. CASE Tick
    <2>1. TypeOK'
      BY <1>1 DEF Tick
    <2>2. ClockInv'
      BY <1>1 DEF Tick, ClockInv
    <2>3. failures' * Cycle = fc
      BY <1>1 DEF Tick
    <2> HIDE DEF fc
    <2>4. AgeInv'
      BY <1>0, <1>1, <2>3 DEF Tick, AgeInv
    <2> QED BY <2>1, <2>2, <2>4
  <1>2. CASE Wake
    <2>1. failures' * Cycle = fc
      BY <1>2 DEF Wake
    <2> HIDE DEF fc
    <2> QED BY <1>0, <1>2, <2>1 DEF Wake, ClockInv, AgeInv
  <1>3. CASE ReadClock
    <2>1. failures' * Cycle = fc
      BY <1>3 DEF ReadClock
    <2> HIDE DEF fc
    <2> QED BY <1>0, <1>3, <2>1 DEF ReadClock, ClockInv, AgeInv
  <1>4. CASE Beat
    <2>1. failures' * Cycle = 0
      BY <1>4, CycleArithmetic DEF Beat
    <2> HIDE DEF fc
    <2> QED BY <1>0, <1>4, <2>1 DEF Beat, ClockInv, AgeInv
  <1>5. CASE Fail
    <2>1. failures' * Cycle = fc + Cycle
      BY <1>0, <1>5, CycleArithmetic DEF Fail
    <2> HIDE DEF fc
    <2> QED BY <1>0, <1>5, <2>1 DEF Fail, ClockInv, AgeInv
  <1>6. CASE UNCHANGED vars
    BY <1>6 DEF vars, ClockInv, AgeInv
  <1> QED
    BY <1>1, <1>2, <1>3, <1>4, <1>5, <1>6 DEF Next

\* The invariant of the timing.
THEOREM TimingInvariance == Spec => []TimingInv
  BY TimingInit, TimingStep, PTL DEF Spec

\* The clock and the counts stay within their bounds, for any timing.
THEOREM TimingTypes == Spec => []TypeOK
  <1>1. TimingInv => TypeOK
    BY DEF TimingInv
  <1> QED
    BY <1>1, TimingInvariance, PTL

\* If the loop, with MaxFailures iterations in a row cut short by an exception
\* and one more that is not, goes round within a minute, then it looks at the
\* clock in every minute, and no job due every minute misses one.  With the
\* default poll interval of 60 seconds the condition is false for any work.
THEOREM CadenceTheorem ==
  ASSUME (MaxFailures + 1) * Cycle + MaxWork <= MinuteLength
  PROVE  Spec => EveryMinuteIsSeen
  <1>1. TimingInv /\ [Next]_vars => [seenMinute' <= seenMinute + 1]_vars
    <2> SUFFICES ASSUME TimingInv, Next
                 PROVE  seenMinute' <= seenMinute + 1
      OBVIOUS
    <2>1. CASE ReadClock
      <3>1. failures * Cycle <= MaxFailures * Cycle
        BY CycleArithmetic DEF TimingInv, TypeOK
      <3>2. (MaxFailures + 1) * Cycle = MaxFailures * Cycle + Cycle
        BY CycleArithmetic, TimingAssumption
      <3>3. failures * Cycle \in Nat /\ MaxFailures * Cycle \in Nat
        BY CycleArithmetic, TimingAssumption DEF TimingInv, TypeOK
      <3>4. Cycle = PollInterval + MaxWork
        BY DEF Cycle
      <3>5. sinceRead <= MaxWork + failures * Cycle + PollInterval + elapsed /\ elapsed <= MaxWork
        BY <2>1 DEF ReadClock, TimingInv, AgeInv
      <3>6. sinceRead <= MinuteLength
        <4> DEFINE a == failures * Cycle
                   b == MaxFailures * Cycle
        <4>1. /\ a \in Nat /\ b \in Nat /\ a <= b
              /\ sinceRead <= MaxWork + a + PollInterval + elapsed /\ elapsed <= MaxWork
              /\ b + PollInterval + MaxWork + MaxWork <= MinuteLength
          BY <3>1, <3>2, <3>3, <3>4, <3>5, TimingAssumption
        <4> HIDE DEF a, b
        <4> QED BY <4>1, TimingAssumption DEF TimingInv, TypeOK
      <3> QED BY <2>1, <3>6, TimingAssumption DEF ReadClock, TimingInv, TypeOK, ClockInv
    <2>2. CASE Tick \/ Wake \/ Beat \/ Fail
      BY <2>2 DEF Tick, Wake, Beat, Fail, reading, TimingInv, TypeOK
    <2> QED BY <2>1, <2>2 DEF Next
  <1> QED
    BY <1>1, TimingInvariance, PTL DEF Spec, EveryMinuteIsSeen

\* If the same round takes no longer than three poll intervals, a running loop
\* is never reported as stale.
THEOREM FreshnessTheorem ==
  ASSUME (MaxFailures + 1) * Cycle <= StaleAfter
  PROVE  Spec => []LiveLoopIsFresh
  <1>1. TimingInv => LiveLoopIsFresh
    <2> SUFFICES ASSUME TimingInv PROVE LiveLoopIsFresh
      OBVIOUS
    <2> DEFINE a == failures * Cycle
               b == MaxFailures * Cycle
    <2>1. a \in Nat /\ b \in Nat /\ a <= b
      BY CycleArithmetic, TimingAssumption DEF TimingInv, TypeOK
    <2>2. b + Cycle <= StaleAfter /\ Cycle = PollInterval + MaxWork
      BY CycleArithmetic, TimingAssumption DEF Cycle
    <2>3. /\ pc = "sleep" => elapsed <= PollInterval /\ beatAge <= a + elapsed
          /\ pc # "sleep" => elapsed <= MaxWork /\ beatAge <= a + PollInterval + elapsed
      BY DEF TimingInv, AgeInv
    <2> HIDE DEF a, b
    <2> QED BY <2>1, <2>2, <2>3, TimingAssumption
          DEF TimingInv, TypeOK, LiveLoopIsFresh, StaleAfter
  <1> QED
    BY <1>1, TimingInvariance, PTL

-----------------------------------------------------------------------------
(* The loop as a cron *)

Settled == seenMinute = 0 \/ DueJobs(seenMinute) \subseteq {j \in Jobs : <<j, seenMinute>> \in fired}

\* The last reading whose iteration came to its end: where it lies, like
\* ClockInv; how long ago it was, like AgeInv; and what has been done for it.
DoneClock ==
  \/ minute = doneMinute /\ second = doneSecond + sinceDone
  \/ minute = doneMinute + 1 /\ second + MinuteLength = doneSecond + sinceDone
  \/ minute > doneMinute + 1 /\ sinceDone > MinuteLength

DoneAge ==
  /\ pc = "sleep" => sinceDone <= MaxWork + failures * Cycle + elapsed
  /\ pc # "sleep" => sinceDone <= MaxWork + failures * Cycle + PollInterval + elapsed

DoneType ==
  doneMinute \in Nat /\ doneSecond \in 0 .. MinuteLength - 1 /\ sinceDone \in Nat

FiredInv ==
  /\ doneMinute <= seenMinute /\ seenMinute <= minute
  /\ \A j \in Jobs, m \in Nat : <<j, m>> \in fired => m <= seenMinute
  /\ seenMinute = doneMinute => Settled

FiringInv == TimingInv /\ DoneType /\ DoneClock /\ DoneAge /\ FiredInv

LEMMA FiringInitial == FiringInit => FiringInv
  <1> SUFFICES ASSUME FiringInit PROVE FiringInv
    OBVIOUS
  <1>1. TimingInv
    BY TimingInit DEF FiringInit
  <1>2. failures * Cycle = 0
    BY CycleArithmetic DEF FiringInit, Init
  <1>3. DoneType /\ DoneClock /\ FiredInv
    BY TimingAssumption DEF FiringInit, Init, DoneType, DoneClock, FiredInv, Settled
  <1>4. DoneAge
    BY <1>2, TimingAssumption DEF FiringInit, Init, DoneAge
  <1> QED BY <1>1, <1>3, <1>4 DEF FiringInv

\* The timing of the loop is that of PollTiming.
LEMMA FiringIsTimed == [FiringNext]_firingVars => [Next]_vars
  BY DEF FiringNext, firingVars, TimePasses, Unfinished, Fire, Finish, Next, vars

\* So what is proved of the timing holds of the loop with its jobs too.
THEOREM LoopKeepsTiming == FiringSpec => Spec
  <1>1. FiringInit => Init
    BY DEF FiringInit
  <1> QED
    BY <1>1, FiringIsTimed, PTL DEF FiringSpec, Spec

LEMMA FiringStep == FiringInv /\ [FiringNext]_firingVars => FiringInv'
  <1> SUFFICES ASSUME FiringInv, [FiringNext]_firingVars PROVE FiringInv'
    OBVIOUS
  <1>0. TimingInv /\ TimingInv'
    BY FiringIsTimed, TimingStep DEF FiringInv
  <1> DEFINE fc == failures * Cycle
  <1>a. /\ fc \in Nat /\ Cycle = PollInterval + MaxWork
        /\ failures \in Nat
    BY <1>0, CycleArithmetic DEF TimingInv, TypeOK, Cycle
  <1> USE TimingAssumption DEF FiringInv, DoneType, wallClock, reading, doneReading
  <1>1. CASE TimePasses
    <2>1. failures' * Cycle = fc
      BY <1>1 DEF TimePasses, Tick
    <2> HIDE DEF fc
    <2>2. DoneType' /\ DoneClock'
      BY <1>1 DEF TimePasses, Tick, DoneClock, TimingInv, TypeOK
    <2>3. DoneAge'
      BY <1>a, <1>1, <2>1 DEF TimePasses, Tick, DoneAge, TimingInv, TypeOK
    <2>4. FiredInv'
      BY <1>1 DEF TimePasses, Tick, FiredInv, Settled, DueJobs, IsDue, Local, TimingInv, TypeOK
    <2> QED BY <1>0, <2>2, <2>3, <2>4
  <1>2. CASE Unfinished /\ Wake
    <2>1. failures' * Cycle = fc
      BY <1>2 DEF Wake
    <2> HIDE DEF fc
    <2>2. DoneType' /\ DoneClock'
      BY <1>2 DEF Unfinished, Wake, DoneClock
    <2>3. DoneAge'
      BY <1>a, <1>2, <2>1 DEF Unfinished, Wake, DoneAge, TimingInv, TypeOK
    <2>4. FiredInv'
      BY <1>2 DEF Unfinished, Wake, FiredInv, Settled, DueJobs, IsDue, Local
    <2> QED BY <1>0, <2>2, <2>3, <2>4
  <1>3. CASE Unfinished /\ ReadClock
    <2>1. failures' * Cycle = fc
      BY <1>3 DEF ReadClock
    <2> HIDE DEF fc
    <2>2. DoneType' /\ DoneClock'
      BY <1>3 DEF Unfinished, ReadClock, DoneClock
    <2>3. DoneAge'
      BY <1>a, <1>3, <2>1 DEF Unfinished, ReadClock, DoneAge, TimingInv, TypeOK
    <2>4. FiredInv'
      BY <1>3 DEF Unfinished, ReadClock, FiredInv, Settled, DueJobs, IsDue, Local,
                  DoneClock, TimingInv, TypeOK
    <2> QED BY <1>0, <2>2, <2>3, <2>4
  <1>4. CASE Unfinished /\ Fail
    <2>1. failures' * Cycle = fc + Cycle
      BY <1>a, <1>4, CycleArithmetic DEF Fail
    <2> HIDE DEF fc
    <2>2. DoneType' /\ DoneClock'
      BY <1>4 DEF Unfinished, Fail, DoneClock
    <2>3. DoneAge'
      BY <1>0, <1>a, <1>4, <2>1 DEF Unfinished, Fail, DoneAge, AgeInv, TimingInv, TypeOK
    <2>4. FiredInv'
      BY <1>4 DEF Unfinished, Fail, FiredInv, Settled, DueJobs, IsDue, Local
    <2> QED BY <1>0, <2>2, <2>3, <2>4
  <1>5. CASE Finish
    <2>1. failures' * Cycle = 0
      BY <1>5, CycleArithmetic DEF Finish, Beat
    <2> HIDE DEF fc
    <2>2. DoneType' /\ DoneClock'
      BY <1>0, <1>5 DEF Finish, Beat, DoneClock, ClockInv, TimingInv, TypeOK
    <2>3. DoneAge'
      BY <1>0, <1>a, <1>5, <2>1 DEF Finish, Beat, DoneAge, AgeInv, TimingInv, TypeOK
    <2>4. DueJobs(seenMinute) \subseteq {j \in Jobs : <<j, seenMinute>> \in fired}
      BY <1>5 DEF Finish, ToFire, DueJobs
    <2>5. FiredInv'
      BY <1>0, <1>5, <2>4 DEF Finish, Beat, FiredInv, Settled, DueJobs, IsDue, Local, TimingInv, TypeOK
    <2> QED BY <1>0, <2>2, <2>3, <2>5
  <1>6. CASE \E j \in Jobs : Fire(j)
    <2>1. UNCHANGED <<vars, calendar, doneReading>> /\ fired \subseteq fired'
      BY <1>6 DEF Fire
    <2>2. DoneType' /\ DoneClock' /\ DoneAge'
      BY <2>1 DEF vars, DoneClock, DoneAge
    <2>3. \A j \in Jobs, m \in Nat : <<j, m>> \in fired' => m <= seenMinute
      BY <1>0, <1>6 DEF Fire, FiredInv, TimingInv, TypeOK
    <2>4. Settled => Settled'
      BY <2>1 DEF vars, Settled, DueJobs, IsDue, Local
    <2>5. FiredInv'
      BY <2>1, <2>3, <2>4 DEF vars, FiredInv
    <2> QED BY <1>0, <2>2, <2>5
  <1>7. CASE UNCHANGED firingVars
    <2>1. DoneType' /\ DoneClock' /\ DoneAge'
      BY <1>7 DEF firingVars, vars, DoneClock, DoneAge
    <2>2. FiredInv'
      BY <1>7 DEF firingVars, vars, FiredInv, Settled, DueJobs, IsDue, Local
    <2> QED BY <1>0, <2>1, <2>2
  <1> QED
    BY <1>1, <1>2, <1>3, <1>4, <1>5, <1>6, <1>7 DEF FiringNext, Unfinished

\* The invariant of the loop as a cron.
THEOREM FiringInvariance == FiringSpec => []FiringInv
  BY FiringInitial, FiringStep, PTL DEF FiringSpec

\* Under that condition the loop turns from a minute to the next one, and
\* only when it has begun every job that was due.
LEMMA NextMinute ==
  ASSUME (MaxFailures + 1) * Cycle + MaxWork <= MinuteLength,
         FiringInv, ReadClock, minute # seenMinute
  PROVE  minute = seenMinute + 1 /\ Settled
  <1>1. sinceDone <= MinuteLength
    <2> DEFINE a == failures * Cycle
               b == MaxFailures * Cycle
    <2>1. /\ a \in Nat /\ b \in Nat /\ a <= b
          /\ sinceDone <= MaxWork + a + PollInterval + elapsed /\ elapsed <= MaxWork
          /\ b + PollInterval + MaxWork + MaxWork <= MinuteLength
      <3>1. a \in Nat /\ b \in Nat /\ a <= b
        BY CycleArithmetic, TimingAssumption DEF FiringInv, TimingInv, TypeOK
      <3>2. sinceDone <= MaxWork + a + PollInterval + elapsed /\ elapsed <= MaxWork
        BY DEF ReadClock, FiringInv, TimingInv, AgeInv, DoneAge
      <3>3. (MaxFailures + 1) * Cycle = b + Cycle /\ Cycle = PollInterval + MaxWork
        BY CycleArithmetic, TimingAssumption DEF Cycle
      <3> QED BY <3>1, <3>2, <3>3, TimingAssumption
    <2> HIDE DEF a, b
    <2> QED BY <2>1, TimingAssumption DEF FiringInv, DoneType, TimingInv, TypeOK
  <1>2. minute = seenMinute + 1 /\ seenMinute = doneMinute
    BY <1>1, TimingAssumption
    DEF FiringInv, DoneClock, DoneType, FiredInv, TimingInv, TypeOK
  <1> QED BY <1>2 DEF FiringInv, FiredInv

\* If the loop, with MaxFailures iterations in a row cut short and one more
\* that is not, goes round within a minute, then it begins every job once in
\* every minute in which the job is due, and no other: it implements the cron.
THEOREM CronTheorem ==
  ASSUME (MaxFailures + 1) * Cycle + MaxWork <= MinuteLength
  PROVE  FiringSpec => CronIsKept
  <1>1. FiringInit => Contract!Init
    BY DEF FiringInit, Init, Contract!Init, DueJobs
  <1>2. FiringInv /\ [FiringNext]_firingVars => [Contract!Next]_Contract!contractVars
    <2> SUFFICES ASSUME FiringInv, [FiringNext]_firingVars
                 PROVE  [Contract!Next]_Contract!contractVars
      OBVIOUS
    <2>1. CASE TimePasses \/ Finish \/ (Unfinished /\ (Wake \/ Fail)) \/ UNCHANGED firingVars
      <3>1. UNCHANGED <<seenMinute, calendar, fired>>
        BY <2>1 DEF TimePasses, Tick, Finish, Beat, Unfinished, Wake, Fail, firingVars, vars, reading
      <3> QED BY <3>1 DEF Contract!contractVars, DueJobs, IsDue, Local
    <2>2. CASE \E j \in Jobs : Fire(j)
      <3>1. PICK j \in Jobs : Fire(j)
        BY <2>2
      <3>2. Contract!Fire(j)
        BY <3>1 DEF Fire, ToFire, Contract!Fire, vars, reading, DueJobs, IsDue, Local
      <3> QED BY <3>2 DEF Contract!Next
    <2>3. CASE Unfinished /\ ReadClock
      <3>1. seenMinute' = minute /\ UNCHANGED <<calendar, fired>>
        BY <2>3 DEF Unfinished, ReadClock
      <3>2. CASE minute = seenMinute
        BY <3>1, <3>2 DEF Contract!contractVars, DueJobs, IsDue, Local
      <3>3. CASE minute # seenMinute
        <4>1. minute = seenMinute + 1 /\ Settled
          BY <2>3, <3>3, NextMinute
        <4>2. {j \in Jobs : <<j, seenMinute'>> \in fired'} = {}
          BY <3>1, <4>1, TimingAssumption DEF FiringInv, FiredInv, TimingInv, TypeOK
        <4>3. Contract!Advance
          BY <3>1, <4>1, <4>2 DEF Contract!Advance, DueJobs, Settled
        <4> QED BY <4>3 DEF Contract!Next
      <3> QED BY <3>2, <3>3
    <2> QED BY <2>1, <2>2, <2>3 DEF FiringNext, Unfinished
  <1> QED
    BY <1>1, <1>2, FiringInvariance, PTL DEF FiringSpec, CronIsKept, Contract!Spec

-----------------------------------------------------------------------------
(* Days *)

\* What has been begun: nothing but what was due, and in the minutes that are
\* over all of it.
PastInv ==
  /\ calendar \in Calendars
  /\ fired \subseteq Jobs \X (0 .. seenMinute)
  /\ \A f \in fired : f[1] \in DueJobs(f[2])
  /\ \A m \in 1 .. seenMinute - 1 : \A j \in DueJobs(m) : <<j, m>> \in fired

LEMMA PastStep ==
  ASSUME (MaxFailures + 1) * Cycle + MaxWork <= MinuteLength,
         FiringInv, PastInv, [FiringNext]_firingVars
  PROVE  PastInv'
  <1>1. seenMinute \in Nat
    BY DEF FiringInv, TimingInv, TypeOK
  <1>2. calendar' = calendar /\ \A m : DueJobs(m)' = DueJobs(m)
    <2>1. calendar' = calendar
      BY DEF FiringNext, TimePasses, Unfinished, Finish, Fire, firingVars
    <2> QED BY <2>1 DEF DueJobs, IsDue, Local
  <1>3. CASE UNCHANGED <<seenMinute, fired>>
    BY <1>2, <1>3 DEF PastInv
  <1>4. CASE \E j \in Jobs : Fire(j)
    <2>1. PICK j \in Jobs : Fire(j)
      BY <1>4
    <2>2. fired' = fired \cup {<<j, seenMinute>>} /\ seenMinute' = seenMinute /\ j \in DueJobs(seenMinute)
      BY <2>1 DEF Fire, ToFire, vars, reading
    <2> QED BY <1>1, <1>2, <2>2 DEF PastInv
  <1>5. CASE ReadClock /\ minute # seenMinute /\ fired' = fired
    <2>1. seenMinute' = seenMinute + 1 /\ Settled
      BY <1>5, NextMinute DEF ReadClock
    <2>2. \A m \in 1 .. seenMinute' - 1 : \A j \in DueJobs(m) : <<j, m>> \in fired
      <3>1. \A m \in 1 .. seenMinute' - 1 : m \in 1 .. seenMinute - 1 \/ (m = seenMinute /\ m # 0)
        BY <1>1, <2>1
      <3> QED BY <2>1, <3>1 DEF PastInv, Settled
    <2>3. 0 .. seenMinute \subseteq 0 .. seenMinute'
      BY <1>1, <2>1
    <2> QED BY <1>2, <1>5, <2>2, <2>3 DEF PastInv
  <1> QED
    BY <1>3, <1>4, <1>5
    DEF FiringNext, TimePasses, Tick, Unfinished, Wake, ReadClock, Fail, Finish, Beat, firingVars, vars, reading

LEMMA DayType ==
  ASSUME calendar \in Calendars, NEW m \in 0 .. MaxMinute, NEW j \in Jobs
  PROVE  DayOf(Local(m, DayZone(Schedule.jobs[j]))) \in Int
  <1> DEFINE zone == DayZone(Schedule.jobs[j])
  <1>1. zone \in Zones
    BY ScheduleAssumption DEF DayZone, TimezoneOf, JobDefinition
  <1>2. calendar[zone][m] \in Int
    BY <1>1, CalendarAssumption
  <1> HIDE DEF zone
  <1>3. Local(m, zone) \in Int /\ MinutesPerDay \in Nat \ {0}
    BY <1>2, ScheduleAssumption DEF Local, MinutesPerDay
  <1>4. \A l \in Int, n \in Nat \ {0} : l \div n \in Int
    OBVIOUS
  <1> QED BY <1>3, <1>4 DEF DayOf, zone

\* The matcher's weekend is that of the day by which the job is counted.
LEMMA DueFacts ==
  ASSUME calendar \in Calendars, NEW m \in 0 .. MaxMinute, NEW j \in Jobs
  PROVE  LET job == Schedule.jobs[j]
         IN  j \in DueJobs(m) <=> /\ RunsOn(job, DayOf(Local(m, DayZone(job))))
                                  /\ CronMatches(job, Local(m, TimezoneOf(job)))
  <1> DEFINE job == Schedule.jobs[j]
             day == DayOf(Local(m, WeekendTimezone))
  <1>1. j \in DueJobs(m) <=> /\ job.enabled /\ CronMatches(job, Local(m, TimezoneOf(job)))
                             /\ job.runWeekend \/ Weekday(Local(m, WeekendTimezone)) < 5
    BY DEF DueJobs, IsDue
  <1>2. CASE job.runWeekend
    BY <1>1, <1>2 DEF RunsOn
  <1>3. CASE ~job.runWeekend
    <2>1. DayZone(job) = WeekendTimezone
      BY <1>3 DEF DayZone
    <2>2. day \in Int
      BY <2>1, DayType
    <2> HIDE DEF day
    <2>3. (day + FirstWeekday) % 7 < 5 <=> (day + FirstWeekday) % 7 \notin {5, 6}
      <3>1. day + FirstWeekday \in Int
        BY <2>2, ScheduleAssumption
      <3>2. \A x \in Int : x % 7 \in 0 .. 6
        OBVIOUS
      <3>3. (day + FirstWeekday) % 7 \in 0 .. 6
        BY <3>1, <3>2
      <3> QED BY <3>3
    <2>4. Weekday(Local(m, WeekendTimezone)) = (day + FirstWeekday) % 7
      BY DEF Weekday, day
    <2> HIDE DEF job
    <2> QED BY <1>1, <1>3, <2>1, <2>3, <2>4 DEF RunsOn, job, day
  <1> QED BY <1>2, <1>3

LEMMA CalendarFacts ==
  ASSUME DailyCalendar(calendar), NEW j \in Jobs
  PROVE  LET job  == Schedule.jobs[j]
             zone == DayZone(job)
         IN  /\ \A k, m \in 0 .. MaxMinute :
                  k <= m => DayOf(Local(k, zone)) <= DayOf(Local(m, zone))
             /\ \A d \in DayOf(Local(0, zone)) + 1 .. DayOf(Local(MaxMinute, zone)) - 1 :
                  RunsOn(job, d) =>
                    \E m \in 0 .. MaxMinute :
                      {k \in 0 .. MaxMinute : /\ DayOf(Local(k, zone)) = d
                                              /\ CronMatches(job, Local(k, TimezoneOf(job)))} = {m}
  BY DEF DailyCalendar, Local

\* If the loop goes round within a minute, as in CronTheorem, and the minute of
\* each job comes once a day, then each job is begun once on every day on which
\* it is to run, by the days it is counted by, and never on another.
THEOREM DailyTheorem ==
  ASSUME (MaxFailures + 1) * Cycle + MaxWork <= MinuteLength,
         \A c \in Calendars : DailyCalendar(c)
  PROVE  FiringSpec => []DailyJobsFireDaily
  <1>1. FiringInit => PastInv
    BY DEF FiringInit, Init, PastInv
  <1>2. FiringInv /\ PastInv /\ [FiringNext]_firingVars => PastInv'
    BY PastStep
  <1>3. FiringInv /\ PastInv => DailyJobsFireDaily
    <2> SUFFICES ASSUME FiringInv, PastInv, NEW j \in Jobs,
                        NEW d \in WholeDays(DayZone(Schedule.jobs[j]))
                 PROVE  Cardinality(FiredOn(j, DayZone(Schedule.jobs[j]), d)) =
                          IF RunsOn(Schedule.jobs[j], d) THEN 1 ELSE 0
      BY DEF DailyJobsFireDaily
    <2> DEFINE job == Schedule.jobs[j]
               zone == DayZone(job)
               Day(m) == DayOf(Local(m, zone))
               Hits == {m \in 0 .. MaxMinute : Day(m) = d /\ CronMatches(job, Local(m, TimezoneOf(job)))}
               runs == FiredOn(j, zone, d)
    <2>1. seenMinute \in 0 .. MaxMinute /\ MaxMinute \in Nat /\ calendar \in Calendars
      BY TimingAssumption DEF FiringInv, TimingInv, TypeOK, PastInv
    <2>2. \A m \in 0 .. MaxMinute : Day(m) \in Int
      BY <2>1, DayType
    <2>3. d \in Int /\ Day(0) < d /\ d < Day(seenMinute)
      <3>1. d \in Day(0) + 1 .. Day(seenMinute) - 1
        BY DEF WholeDays
      <3>2. Day(0) \in Int /\ Day(seenMinute) \in Int
        BY <2>1, <2>2
      <3> HIDE DEF Day
      <3> QED BY <3>1, <3>2
    <2>4. /\ \A k, m \in 0 .. MaxMinute : k <= m => Day(k) <= Day(m)
          /\ d \in Day(0) + 1 .. Day(MaxMinute) - 1 /\ RunsOn(job, d) =>
               \E m \in 0 .. MaxMinute : Hits = {m}
      BY <2>1, CalendarFacts
    <2>5. \A m \in 0 .. MaxMinute :
            j \in DueJobs(m) <=> RunsOn(job, Day(m)) /\ CronMatches(job, Local(m, TimezoneOf(job)))
      BY <2>1, DueFacts
    <2>6. runs = {f \in fired : f[1] = j /\ Day(f[2]) = d}
      BY DEF FiredOn
    <2>7. \A m \in Hits : m \in 0 .. MaxMinute /\ Day(m) = d /\ CronMatches(job, Local(m, TimezoneOf(job)))
      OBVIOUS
    <2>8. \A m \in 0 .. MaxMinute : Day(m) = d /\ CronMatches(job, Local(m, TimezoneOf(job))) => m \in Hits
      OBVIOUS
    <2>9. Day(seenMinute) <= Day(MaxMinute) /\ d \in Day(0) + 1 .. Day(MaxMinute) - 1
      <3>1. Day(0) \in Int /\ Day(seenMinute) \in Int /\ Day(MaxMinute) \in Int
        BY <2>1, <2>2
      <3>2. Day(seenMinute) <= Day(MaxMinute)
        BY <2>1, <2>4
      <3> HIDE DEF Day
      <3> QED BY <2>3, <3>1, <3>2
    <2> HIDE DEF job, zone, Day, Hits, runs
    <2>10. \A m \in 0 .. MaxMinute : Day(m) = d => m \in 1 .. seenMinute - 1
      <3> SUFFICES ASSUME NEW m \in 0 .. MaxMinute, Day(m) = d PROVE m \in 1 .. seenMinute - 1
        OBVIOUS
      <3>1. m # 0
        BY <2>3
      <3>2. ~(seenMinute <= m)
        BY <2>1, <2>2, <2>3, <2>4
      <3> QED BY <2>1, <3>1, <3>2
    <2>11. \A f \in runs : \E m \in 0 .. MaxMinute :
             f = <<j, m>> /\ Day(m) = d /\ j \in DueJobs(m)
      BY <2>1, <2>6 DEF PastInv
    <2>12. CASE ~RunsOn(job, d)
      <3>1. runs = {}
        BY <2>5, <2>11, <2>12
      <3> QED BY <2>12, <3>1, FS_EmptySet DEF job, zone, runs
    <2>13. CASE RunsOn(job, d)
      <3>1. PICK m \in 0 .. MaxMinute : Hits = {m}
        BY <2>4, <2>9, <2>13
      <3>2. Day(m) = d /\ j \in DueJobs(m) /\ m \in 1 .. seenMinute - 1
        BY <2>5, <2>7, <2>10, <2>13, <3>1
      <3>3. <<j, m>> \in runs
        BY <2>6, <3>2 DEF PastInv
      <3>4. \A f \in runs : f = <<j, m>>
        BY <2>5, <2>8, <2>11, <3>1
      <3>5. runs = {<<j, m>>}
        BY <3>3, <3>4
      <3> QED BY <2>13, <3>5, FS_Singleton DEF job, zone, runs
    <2> QED BY <2>12, <2>13
  <1> QED
    BY <1>1, <1>2, <1>3, FiringInvariance, PTL DEF FiringSpec

=============================================================================
