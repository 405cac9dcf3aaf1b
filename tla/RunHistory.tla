----------------------------- MODULE RunHistory -----------------------------
(***************************************************************************)
(* The writers of repository/run_history.py and the table they write,      *)
(* cron_runner_job_runs.  A row is keyed by its execution id; of its       *)
(* columns only `status` matters to the properties.  Both writers swallow  *)
(* every exception, so a failed write is a write that changes nothing; one *)
(* that was committed but whose acknowledgement was lost has succeeded.    *)
(***************************************************************************)
EXTENDS Maps, Naturals, FiniteSets

CONSTANT MaxUnrecorded  \* bound on the executions the database loses a write of
ASSUME MaxUnrecordedAssumption == MaxUnrecorded \in Nat

VARIABLES
  rows,         \* cron_runner_job_runs: execution id -> status
  unrecorded    \* history: executions one of whose writes the database lost

Terminal == {"success", "failed", "timeout"}    \* job_runner.STATUS_*
Status   == {"started"} \cup Terminal           \* runs.VALID_STATUSES

InitHistory == rows = EmptyMap /\ unrecorded = {}

\* The except branch of either writer: logged, and the caller goes on.
WriteFails(e) ==
  /\ Cardinality(unrecorded \cup {e}) <= MaxUnrecorded
  /\ unrecorded' = unrecorded \cup {e}
  /\ UNCHANGED rows

\* record_start: INSERT of a row with status "started".
RecordStart(e) ==
  \/ /\ rows' = Put(rows, e, "started")
     /\ UNCHANGED unrecorded
  \/ WriteFails(e)

\* Mutant: only a success is recorded.
RecordSuccess(e, status) ==
  /\ rows' = IF e \in DOMAIN rows /\ status = "success"
               THEN [rows EXCEPT ![e] = status] ELSE rows
  /\ UNCHANGED unrecorded

\* record_completion: UPDATE ... WHERE id = e.  Without a row it matches
\* nothing, and that is not an error.
RecordCompletion(e, status) ==
  \/ /\ rows' = IF e \in DOMAIN rows THEN [rows EXCEPT ![e] = status] ELSE rows
     /\ UNCHANGED unrecorded
  \/ WriteFails(e)

=============================================================================
