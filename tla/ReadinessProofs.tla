-------------------------- MODULE ReadinessProofs --------------------------
(***************************************************************************)
(* What the heartbeat file is at any moment, for every staleness limit,    *)
(* every number of start retries and every number of kills.                *)
(***************************************************************************)
EXTENDS Readiness, TLAPS

\* A write that is under way has made its temporary file, and no other moment
\* has one.
WriteInv == scheduler = "write" <=> temp # "none"

ReadinessInv == TypeOK /\ HeartbeatIsWhole /\ WriteInv /\ TempsAreRemoved

LEMMA ReadinessInit == Init => ReadinessInv
  <1> SUFFICES ASSUME Init PROVE ReadinessInv
    OBVIOUS
  <1>1. beat \in [age : 0 .. StaleAfter + 1, whole : BOOLEAN, exists : BOOLEAN] /\ ~beat.exists
    BY ReadinessAssumption DEF Init, NoBeat
  <1>2. WriteInv /\ TempsAreRemoved
    BY DEF Init, WriteInv, TempsAreRemoved
  <1>3. tries \in 0 .. StartRetries /\ crashes \in 0 .. MaxCrashes /\ leaked \in 0 .. MaxCrashes
    BY ReadinessAssumption DEF Init
  <1>4. TypeOK
    BY <1>1, <1>3 DEF Init, TypeOK
  <1> QED BY <1>1, <1>2, <1>4 DEF ReadinessInv, HeartbeatIsWhole

LEMMA AgeingKeepsHeartbeat ==
  ASSUME NEW b \in [age : 0 .. StaleAfter + 1, whole : BOOLEAN, exists : BOOLEAN]
  PROVE  /\ Older(b) \in [age : 0 .. StaleAfter + 1, whole : BOOLEAN, exists : BOOLEAN]
         /\ Older(b).whole = b.whole /\ Older(b).exists = b.exists
  BY ReadinessAssumption DEF Older

LEMMA ReadinessStep == ReadinessInv /\ [Next]_vars => ReadinessInv'
  <1> SUFFICES ASSUME ReadinessInv, [Next]_vars PROVE ReadinessInv'
    OBVIOUS
  <1> USE ReadinessAssumption
      DEF ReadinessInv, TypeOK, HeartbeatIsWhole, WriteInv, TempsAreRemoved,
          schedulerVars, apiVars, schedulerOnly
  <1>1. CASE Load
    BY <1>1 DEF Load
  <1>2. CASE LoadFails
    BY <1>2 DEF LoadFails
  <1>3. CASE MakeTemp
    BY <1>3 DEF MakeTemp
  <1>4. CASE FillTemp
    BY <1>4 DEF FillTemp
  <1>5. CASE Replace
    BY <1>5 DEF Replace
  <1>6. CASE Restart \/ WriteFails \/ Stop
    <2>1. CASE Restart
      BY <2>1 DEF Restart
    <2>2. CASE WriteFails
      BY <2>2 DEF WriteFails
    <2>3. CASE Stop
      BY <2>3 DEF Stop
    <2> QED BY <1>6, <2>1, <2>2, <2>3
  <1>7. CASE Kill
    BY <1>7 DEF Kill
  <1>8. CASE Api
    <2>1. CASE ReadHeartbeat
      BY <2>1 DEF ReadHeartbeat
    <2>2. CASE Respond
      BY <2>2 DEF Respond
    <2>3. CASE ApiDies \/ ApiRestarts
      BY <2>3 DEF ApiDies, ApiRestarts
    <2> QED BY <1>8, <2>1, <2>2, <2>3 DEF Api
  <1>9. CASE Tick
    <2>1. beat' = Older(beat) /\ beat.exists
      BY <1>9 DEF Tick
    <2> QED BY <1>9, <2>1, AgeingKeepsHeartbeat DEF Tick
  <1>10. CASE DbChanges \/ EditFile
    <2>1. CASE DbChanges
      BY <2>1 DEF DbChanges
    <2>2. CASE EditFile
      BY <2>2 DEF EditFile
    <2> QED BY <1>10, <2>1, <2>2
  <1>11. CASE UNCHANGED vars
    BY <1>11 DEF vars
  <1> QED
    BY <1>1, <1>2, <1>3, <1>4, <1>5, <1>6, <1>7, <1>8, <1>9, <1>10, <1>11
    DEF Next, Scheduler

\* The invariant of the heartbeat file and its writer.
THEOREM ReadinessInvariance == Spec => []ReadinessInv
  BY ReadinessInit, ReadinessStep, PTL DEF Spec

\* Type correctness: failed starts in a row stay within startretries.
THEOREM ReadinessTypes == Spec => []TypeOK
  <1>1. ReadinessInv => TypeOK
    BY DEF ReadinessInv
  <1> QED
    BY <1>1, ReadinessInvariance, PTL

\* Wherever write_heartbeat is interrupted, fails or is killed, a reader finds
\* a whole heartbeat or none.
THEOREM HeartbeatIsAtomic == Spec => []HeartbeatIsWhole
  <1>1. ReadinessInv => HeartbeatIsWhole
    BY DEF ReadinessInv
  <1> QED
    BY <1>1, ReadinessInvariance, PTL

\* Its temporary file survives only a kill in the middle of a write, and each
\* kill leaves one at most.
THEOREM OnlyKillsLeakTemps == Spec => []TempsAreRemoved
  <1>1. ReadinessInv => TempsAreRemoved
    BY DEF ReadinessInv
  <1> QED
    BY <1>1, ReadinessInvariance, PTL

=============================================================================
