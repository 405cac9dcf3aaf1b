---------------------------- MODULE CronContract ----------------------------
(***************************************************************************)
(* What a cron promises, whatever its loop is like: minute by minute, each *)
(* job that is due is begun once, before the next minute is turned to, and *)
(* no other is begun.  The minute in which it starts may be partly over.   *)
(***************************************************************************)
EXTENDS Integers

CONSTANT Jobs

VARIABLES
  time,    \* the minute the cron is at
  due,     \* the jobs that are due in it
  fired    \* those begun

contractVars == <<time, due, fired>>

Init == time = 0 /\ due \subseteq Jobs /\ fired = {}

Fire(j) ==
  /\ j \in due \ fired
  /\ fired' = fired \cup {j}
  /\ UNCHANGED <<time, due>>

Advance ==
  /\ due \subseteq fired \/ time = 0
  /\ time' = time + 1
  /\ due' \subseteq Jobs /\ fired' = {}

Next == Advance \/ \E j \in Jobs : Fire(j)

Spec == Init /\ [][Next]_contractVars

=============================================================================
