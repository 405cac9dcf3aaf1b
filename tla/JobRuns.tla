------------------------------ MODULE JobRuns ------------------------------
(***************************************************************************)
(* What the run history promises its readers, whatever the scheduler, its  *)
(* worker threads and the database do: the runs of one dispatch appear in  *)
(* the order of their attempts, a run enters as "started" and is closed at *)
(* most once, and no run of a dispatch follows one that succeeded.         *)
(***************************************************************************)
EXTENDS Integers, Maps

CONSTANTS
  Tasks,          \* identities of dispatches
  Attempts        \* the attempt numbers a dispatch may reach

VARIABLE log            \* dispatch -> its runs: attempt -> status

Endings == {"success", "failed", "timeout"}

Logged(t) == DOMAIN log[t]

Init == log = [t \in Tasks |-> EmptyMap]

\* Attempt a of dispatch t is logged: it is newer than every logged attempt
\* of the dispatch, and none of those has succeeded.
Open(t, a) ==
  /\ \A b \in Logged(t) : b < a /\ log[t][b] # "success"
  /\ log' = [log EXCEPT ![t] = Put(@, a, "started")]

\* An open run gets its outcome, before any later attempt is logged.
Close(t, a, outcome) ==
  /\ log[t][a] = "started"
  /\ \A b \in Logged(t) : b <= a
  /\ log' = [log EXCEPT ![t][a] = outcome]

\* A step changes the log of one dispatch.
Next ==
  \E t \in Tasks :
    /\ log'[t] # log[t]
    /\ \/ \E a \in Attempts : Open(t, a)
       \/ \E a \in Logged(t), outcome \in Endings : Close(t, a, outcome)

Spec == Init /\ [][Next]_log

=============================================================================
