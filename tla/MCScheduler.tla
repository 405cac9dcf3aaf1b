---------------------------- MODULE MCScheduler ----------------------------
(***************************************************************************)
(* Instances of the scheduler worker for TLC: job names, tasks and the     *)
(* contents of the schedule file.                                          *)
(***************************************************************************)
EXTENDS SchedulerProperties, TLC

CONSTANTS j1, j2, t1, t2

OneJob   == {j1}
TwoJobs  == {j1, j2}
TwoTasks == {t1, t2}

TaskSymmetry == Permutations(Tasks)

EveryMinute(allow, retries) ==
  [enabled |-> TRUE, allowConcurrent |-> allow, maxRetries |-> retries,
   due |-> {0, 1, 2}]
OddMinutes == [EveryMinute(FALSE, -1) EXCEPT !.due = {1}]

Valid(s)   == [kind |-> "valid", jobs |-> s]
Unreadable == [kind |-> "invalid", jobs |-> EmptyMap]
Escaping   == [kind |-> "raises", jobs |-> EmptyMap]

\* Two jobs, one of which retries and may overlap itself; or that one alone,
\* rescheduled, and forbidden to.
TwoFiles == {Valid(j1 :> EveryMinute(FALSE, 0) @@
                   j2 :> [EveryMinute(TRUE, 1) EXCEPT !.due = {1}]),
             Valid(j2 :> EveryMinute(FALSE, -1))}

\* One job, which a retry follows when it fails.
RetryFile == {Valid(j1 :> EveryMinute(FALSE, 1))}

\* One job, then another, a file that is rejected, and an exception.
ReloadFiles == {Valid(j1 :> EveryMinute(FALSE, 1)), Valid(j2 :> OddMinutes),
                Unreadable, Escaping}

=============================================================================
