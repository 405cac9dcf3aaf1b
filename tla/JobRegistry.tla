---------------------------- MODULE JobRegistry ----------------------------
(***************************************************************************)
(* workers/job_registry.py: the in-memory registry of in-flight jobs that  *)
(* the dispatcher consults to prevent overlapping runs.  It is a dict from *)
(* a job NAME to the execution that registered last; every method holds    *)
(* one lock for its whole body, so each is one atomic step.                *)
(***************************************************************************)
EXTENDS Maps

VARIABLE running    \* JobRegistry._running: job name -> execution id

InitRegistry == running = EmptyMap

IsRunning(job) == job \in DOMAIN running

\* A second execution of the same name overwrites the first one's entry.
MarkStarted(job, execution) == running' = Put(running, job, execution)

\* Mutant: the entry is never removed.
MarkFinishedNever(job) == UNCHANGED running

\* pop(job_name, None): removes whatever entry the name has, whoever put it.
MarkFinished(job) == running' = Drop(running, job)

=============================================================================
