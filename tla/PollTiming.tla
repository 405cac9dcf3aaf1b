----------------------------- MODULE PollTiming -----------------------------
(***************************************************************************)
(* The cadence of run_forever in seconds: an iteration reloads, reads the  *)
(* clock, works, writes the heartbeat, and sleeps poll_interval_seconds    *)
(* AFTER its work, so that two readings of the clock are a poll interval   *)
(* and an iteration's work apart.  SchedulerWorker counts minutes and lets *)
(* any number of them pass between two iterations; this module is about    *)
(* how many can, and about the age of the heartbeat that /ready tests.     *)
(*                                                                         *)
(* Bound: MaxMinute, the minute at which the clock stops.                  *)
(***************************************************************************)
EXTENDS Integers

CONSTANTS
  MinuteLength,   \* seconds to a minute
  PollInterval,   \* settings.poll_interval_seconds
  MaxWork,        \* longest an iteration takes, without its sleep
  MaxFailures,    \* iterations in a row that may end in an exception
  MaxMinute

ASSUME TimingAssumption ==
  /\ MinuteLength \in Nat \ {0} /\ PollInterval \in Nat \ {0}
  /\ MaxWork \in Nat /\ MaxFailures \in Nat /\ MaxMinute \in Nat

VARIABLES
  pc,           \* "reload" and then "work", the iteration; or "sleep"
  minute,       \* the wall clock: minutes,
  second,       \* and seconds of the minute
  seenMinute,   \* the minute read last: last_seen_minute
  seenSecond,   \* history: the second at which it was read
  sinceRead,    \* seconds since the clock was read
  elapsed,      \* seconds since the iteration, or the sleep, began
  beatAge,      \* seconds since the heartbeat was written, or the loop began
  failures      \* iterations that failed since one wrote a heartbeat

wallClock == <<minute, second>>
reading   == <<seenMinute, seenSecond, sinceRead>>
vars      == <<pc, wallClock, reading, elapsed, beatAge, failures>>

\* Mutant: a smaller multiplier.
StaleAfterTwo == 2 * PollInterval

StaleAfter == 3 * PollInterval      \* HEARTBEAT_STALE_MULTIPLIER

\* The first reading of the clock, at any second.
Init ==
  /\ pc = "work" /\ elapsed = 0 /\ sinceRead = 0 /\ beatAge = 0 /\ failures = 0
  /\ minute = 0 /\ seenMinute = 0
  /\ second \in 0 .. MinuteLength - 1 /\ seenSecond = second

\* Mutant: a minute has one second too many.
TickPastMinute ==
  /\ elapsed < (IF pc = "sleep" THEN PollInterval ELSE MaxWork)
  /\ IF second < MinuteLength
       THEN second' = second + 1 /\ UNCHANGED minute
       ELSE second' = 0 /\ minute < MaxMinute /\ minute' = minute + 1
  /\ sinceRead' = sinceRead + 1 /\ elapsed' = elapsed + 1 /\ beatAge' = beatAge + 1
  /\ UNCHANGED <<pc, seenMinute, seenSecond, failures>>

\* A second passes: an iteration takes MaxWork at most, and a sleep as long as
\* it was asked to.
Tick ==
  /\ elapsed < (IF pc = "sleep" THEN PollInterval ELSE MaxWork)
  /\ IF second + 1 < MinuteLength
       THEN second' = second + 1 /\ UNCHANGED minute
       ELSE second' = 0 /\ minute < MaxMinute /\ minute' = minute + 1
  /\ sinceRead' = sinceRead + 1 /\ elapsed' = elapsed + 1 /\ beatAge' = beatAge + 1
  /\ UNCHANGED <<pc, seenMinute, seenSecond, failures>>

\* The sleep is over.
Wake ==
  /\ pc = "sleep" /\ elapsed = PollInterval
  /\ pc' = "reload" /\ elapsed' = 0
  /\ UNCHANGED <<wallClock, reading, beatAge, failures>>

\* now = datetime.now(UTC)
ReadClock ==
  /\ pc = "reload"
  /\ pc' = "work"
  /\ seenMinute' = minute /\ seenSecond' = second /\ sinceRead' = 0
  /\ UNCHANGED <<wallClock, elapsed, beatAge, failures>>

\* write_heartbeat, the end of an iteration.
Beat ==
  /\ pc = "work"
  /\ pc' = "sleep" /\ elapsed' = 0 /\ beatAge' = 0 /\ failures' = 0
  /\ UNCHANGED <<wallClock, reading>>

\* Mutant: any number of iterations in a row may fail.
FailForever ==
  /\ pc # "sleep"
  /\ pc' = "sleep" /\ elapsed' = 0
  /\ UNCHANGED <<wallClock, reading, beatAge, failures>>

\* An exception ends the iteration before its heartbeat, or, if it is one of
\* _maybe_reload, before it has read the clock.
Fail ==
  /\ pc # "sleep" /\ failures < MaxFailures
  /\ pc' = "sleep" /\ elapsed' = 0 /\ failures' = failures + 1
  /\ UNCHANGED <<wallClock, reading, beatAge>>

Next == Tick \/ Wake \/ ReadClock \/ Beat \/ Fail

Spec == Init /\ [][Next]_vars

-----------------------------------------------------------------------------
(* Properties *)

\* Type correctness: the clock stays within a minute and within its bound, and
\* no more iterations fail in a row than are allowed to.
TypeOK ==
  /\ pc \in {"reload", "work", "sleep"}
  /\ minute \in 0 .. MaxMinute /\ second \in 0 .. MinuteLength - 1
  /\ seenMinute \in 0 .. MaxMinute /\ seenSecond \in 0 .. MinuteLength - 1
  /\ sinceRead \in Nat /\ elapsed \in Nat /\ beatAge \in Nat
  /\ failures \in 0 .. MaxFailures

\* No minute passes between two readings of the clock without one of them
\* falling into it: a job due every minute is looked at every minute.
EveryMinuteIsSeen == [][seenMinute' <= seenMinute + 1]_vars

\* The heartbeat of a loop that is running is never so old that /ready calls
\* the loop dead.
LiveLoopIsFresh == beatAge <= StaleAfter

=============================================================================
