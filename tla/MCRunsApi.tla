----------------------------- MODULE MCRunsApi -----------------------------
(***************************************************************************)
(* Instances of the run-history API for TLC.                               *)
(***************************************************************************)
EXTENDS RunsApi, TLC

CONSTANTS r1, r2, r3

ThreeRuns   == {r1, r2, r3}
RunSymmetry == Permutations(Runs)

Query(job, status, from, to, limit) ==
  [job |-> job, status |-> status, from |-> from, to |-> to, limit |-> limit]

\* Everything; the runs of a job; those with a status, or in a window of time;
\* and parameters out of range.
MixedQueries ==
  {Query("a", NoFilter, 0, 9, 1), Query(NoFilter, NoFilter, 0, 9, 2),
   Query(NoFilter, "started", 0, 9, 1), Query(NoFilter, NoFilter, 1, 2, 1),
   Query(NoFilter, "no such status", 0, 9, 1), Query(NoFilter, NoFilter, 0, 9, 3)}

=============================================================================
