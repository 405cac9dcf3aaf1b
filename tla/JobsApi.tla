------------------------------ MODULE JobsApi ------------------------------
(***************************************************************************)
(* api/routes/jobs.py: GET /jobs.  The API is a process of its own and     *)
(* cannot see the schedule in force; it loads the file at each request.    *)
(***************************************************************************)
EXTENDS SchedulerWorker

\* list_jobs_route.  A ScheduleLoadError is answered with 500 by the route, and
\* any other exception by Bottle.  A job's own time zone or the default is part
\* of the minutes in which it is due.
Listed(f) ==
  IF f.kind = "valid" THEN [code |-> 200, jobs |-> f.jobs]
                      ELSE [code |-> 500, jobs |-> EmptyMap]

ListJobs == Listed(file)

=============================================================================
