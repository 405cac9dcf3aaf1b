----------------------------- MODULE Readiness -----------------------------
(***************************************************************************)
(* GET /ready, and what it learns of the scheduler.  Two programs of       *)
(* supervisord.conf run side by side: the scheduler, which writes the      *)
(* heartbeat file; and the API, which reads that file and pings the        *)
(* database with SELECT 1, so that its answer does not depend on the       *)
(* schema.  Each is restarted when it dies, without the other, and the     *)
(* file outlives the process that wrote it.                                *)
(*                                                                         *)
(* The age of the heartbeat counts up to the first value that is stale.    *)
(* Bound: MaxCrashes, the kills of the scheduler.                          *)
(***************************************************************************)
EXTENDS Integers

CONSTANTS
  StaleAfter,     \* poll_interval_seconds * HEARTBEAT_STALE_MULTIPLIER
  StartRetries,   \* startretries of supervisord.conf
  MaxCrashes

ASSUME ReadinessAssumption ==
  StaleAfter \in Nat \ {0} /\ StartRetries \in Nat /\ MaxCrashes \in Nat

VARIABLES
  dbUp,         \* does the database answer SELECT 1?
  file,         \* the schedule file: "valid" or "invalid"
  scheduler,    \* "boot", "loop", "write", "down", "fatal" or "stopped"
  tries,        \* starts that failed in a row, as supervisord counts them
  crashes,      \* how often the scheduler was killed
  temp,         \* the heartbeat's temporary file: "none", "empty" or "whole"
  leaked,       \* temporary files that nobody will remove
  beat,         \* the heartbeat file: NoBeat, or its age and whether it is whole
  probe,        \* the API: "idle", "read" when it has read the heartbeat, "down"
  alive,        \* what it made of the heartbeat: loaded and fresh?
  answer        \* what the last to ask got: "none", "ready" or "not_ready"

schedulerVars == <<scheduler, tries, crashes, temp, leaked>>
apiVars       == <<probe, alive, answer>>
vars == <<dbUp, file, schedulerVars, beat, apiVars>>

NoBeat == [age |-> 0, whole |-> FALSE, exists |-> FALSE]

Init ==
  /\ dbUp \in BOOLEAN /\ file \in {"valid", "invalid"}
  /\ scheduler = "boot" /\ tries = 0 /\ crashes = 0 /\ temp = "none" /\ leaked = 0
  /\ beat = NoBeat
  /\ probe = "idle" /\ alive = FALSE /\ answer = "none"

-----------------------------------------------------------------------------
(* The scheduler and its heartbeat *)

schedulerOnly == <<dbUp, file, apiVars>>

\* load_initial_schedule succeeds: state.schedule_loaded stays TRUE from here.
Load ==
  /\ scheduler = "boot" /\ file = "valid"
  /\ scheduler' = "loop" /\ tries' = 0
  /\ UNCHANGED <<schedulerOnly, beat, crashes, temp, leaked>>

\* Mutant: one retry too many.
LoadFailsOnceMore ==
  /\ scheduler = "boot" /\ file = "invalid"
  /\ scheduler' = "down" /\ tries <= StartRetries /\ tries' = tries + 1
  /\ UNCHANGED <<schedulerOnly, beat, crashes, temp, leaked>>

\* It raises, and the process exits.  supervisord gives up after startretries
\* exits within startsecs; an exit later than that is an ordinary one.
LoadFails ==
  /\ scheduler = "boot" /\ file = "invalid"
  /\ \/ scheduler' = "down" /\ tries' = 0
     \/ IF tries < StartRetries
          THEN scheduler' = "down" /\ tries' = tries + 1
          ELSE scheduler' = "fatal" /\ UNCHANGED tries
  /\ UNCHANGED <<schedulerOnly, beat, crashes, temp, leaked>>

\* Mutant: no restart after a start that failed.
RestartUnlessFailed ==
  /\ scheduler = "down" /\ tries = 0
  /\ scheduler' = "boot"
  /\ UNCHANGED <<schedulerOnly, beat, tries, crashes, temp, leaked>>

\* autorestart
Restart ==
  /\ scheduler = "down"
  /\ scheduler' = "boot"
  /\ UNCHANGED <<schedulerOnly, beat, tries, crashes, temp, leaked>>

\* write_heartbeat: mkstemp, the dump of the payload, os.replace.
MakeTemp ==
  /\ scheduler = "loop"
  /\ scheduler' = "write" /\ temp' = "empty"
  /\ UNCHANGED <<schedulerOnly, beat, tries, crashes, leaked>>

FillTemp ==
  /\ scheduler = "write" /\ temp = "empty"
  /\ temp' = "whole"
  /\ UNCHANGED <<schedulerOnly, beat, scheduler, tries, crashes, leaked>>

\* Mutant: the file is replaced before it is complete.
ReplaceEarly ==
  /\ scheduler = "write"
  /\ beat' = [age |-> 0, whole |-> (temp = "whole"), exists |-> TRUE]
  /\ scheduler' = "loop" /\ temp' = "none"
  /\ UNCHANGED <<schedulerOnly, tries, crashes, leaked>>

Replace ==
  /\ scheduler = "write" /\ temp = "whole"
  /\ beat' = [age |-> 0, whole |-> TRUE, exists |-> TRUE]
  /\ scheduler' = "loop" /\ temp' = "none"
  /\ UNCHANGED <<schedulerOnly, tries, crashes, leaked>>

\* Mutant: the temporary file is not removed.
WriteFailsUncleaned ==
  /\ scheduler = "write"
  /\ scheduler' = "loop"
  /\ UNCHANGED <<schedulerOnly, beat, tries, crashes, temp, leaked>>

\* Either write fails, and the finally clause removes the temporary file.
WriteFails ==
  /\ scheduler = "write"
  /\ scheduler' = "loop" /\ temp' = "none"
  /\ UNCHANGED <<schedulerOnly, beat, tries, crashes, leaked>>

\* The process is killed: no finally clause runs.
Kill ==
  /\ scheduler \in {"loop", "write"} /\ crashes < MaxCrashes
  /\ scheduler' = "down" /\ crashes' = crashes + 1
  /\ temp' = "none" /\ leaked' = IF temp = "none" THEN leaked ELSE leaked + 1
  /\ UNCHANGED <<schedulerOnly, beat, tries>>

\* The operator stops the program.
Stop ==
  /\ scheduler = "loop"
  /\ scheduler' = "stopped"
  /\ UNCHANGED <<schedulerOnly, beat, tries, crashes, temp, leaked>>

-----------------------------------------------------------------------------
(* GET /ready *)

\* Mutant: a heartbeat of any age will do.
ReadHeartbeatOfAnyAge ==
  /\ probe = "idle"
  /\ probe' = "read"
  /\ alive' = (beat.exists /\ beat.whole)
  /\ UNCHANGED <<dbUp, file, schedulerVars, beat, answer>>

\* read_heartbeat and heartbeat_age_seconds.  A file that is missing or does
\* not parse is no heartbeat.
ReadHeartbeat ==
  /\ probe = "idle"
  /\ probe' = "read"
  /\ alive' = (beat.exists /\ beat.whole /\ beat.age <= StaleAfter)
  /\ UNCHANGED <<dbUp, file, schedulerVars, beat, answer>>

\* check_database, and the answer.
Respond ==
  /\ probe = "read"
  /\ probe' = "idle"
  /\ answer' = IF alive /\ dbUp THEN "ready" ELSE "not_ready"
  /\ UNCHANGED <<dbUp, file, schedulerVars, beat, alive>>

\* The API dies, with the request it was answering; the next to ask finds no
\* one.  It keeps no state, and nothing else is lost with it.
ApiDies ==
  /\ probe # "down"
  /\ probe' = "down" /\ alive' = FALSE /\ answer' = "none"
  /\ UNCHANGED <<dbUp, file, schedulerVars, beat>>

ApiRestarts ==
  /\ probe = "down"
  /\ probe' = "idle"
  /\ UNCHANGED <<dbUp, file, schedulerVars, beat, alive, answer>>

-----------------------------------------------------------------------------
(* Time, the database and the operator *)

Older(b) == [b EXCEPT !.age = IF @ > StaleAfter THEN @ ELSE @ + 1]

Tick ==
  /\ beat.exists /\ beat' = Older(beat)
  /\ UNCHANGED <<dbUp, file, schedulerVars, apiVars>>

DbChanges ==
  /\ dbUp' = ~dbUp
  /\ UNCHANGED <<file, schedulerVars, beat, apiVars>>

EditFile ==
  /\ file' \in {"valid", "invalid"} \ {file}
  /\ UNCHANGED <<dbUp, schedulerVars, beat, apiVars>>

Scheduler == Load \/ LoadFails \/ MakeTemp \/ FillTemp \/ Replace
Api       == ReadHeartbeat \/ Respond \/ ApiDies \/ ApiRestarts

Next ==
  \/ Scheduler \/ Api \/ Restart \/ WriteFails \/ Kill \/ Stop
  \/ Tick \/ DbChanges \/ EditFile

\* Time passes, the processes that run make progress, supervisord restarts
\* what died, and somebody keeps asking.
Spec ==
  /\ Init /\ [][Next]_vars
  /\ WF_vars(Tick) /\ WF_vars(Scheduler) /\ WF_vars(Restart)
  /\ WF_vars(ReadHeartbeat) /\ WF_vars(Respond) /\ WF_vars(ApiRestarts)

-----------------------------------------------------------------------------
(* Properties *)

\* Type correctness: supervisord's count of failed starts stays within
\* startretries.
TypeOK ==
  /\ dbUp \in BOOLEAN
  /\ file \in {"valid", "invalid"}
  /\ scheduler \in {"boot", "loop", "write", "down", "fatal", "stopped"}
  /\ tries \in 0 .. StartRetries /\ crashes \in 0 .. MaxCrashes
  /\ temp \in {"none", "empty", "whole"} /\ leaked \in 0 .. MaxCrashes
  /\ beat \in [age : 0 .. StaleAfter + 1, whole : BOOLEAN, exists : BOOLEAN]
  /\ probe \in {"idle", "read", "down"} /\ alive \in BOOLEAN
  /\ answer \in {"none", "ready", "not_ready"}

\* A reader never sees a heartbeat that is partly written, wherever the writer
\* is interrupted, fails or is killed.
HeartbeatIsWhole == beat.exists => beat.whole

\* A temporary file is left behind only by a kill in the middle of a write.
TempsAreRemoved ==
  /\ temp # "none" => scheduler = "write"
  /\ leaked <= crashes

\* A scheduler that stays away is found out: from some time on /ready does not
\* answer that it is ready, however often the API dies in between.
Gone == scheduler \in {"down", "boot", "fatal", "stopped"}
DeathIsNoticed == <>[]Gone => <>[](answer # "ready")

\* A schedule file that is repaired for good brings the scheduler back, unless
\* supervisord has given it up or an operator has stopped it.
RepairIsNoticed ==
  <>[](file = "valid") => []<>(scheduler \in {"loop", "write", "fatal", "stopped"})

=============================================================================
