-------------------------- MODULE MigrationsProofs --------------------------
(***************************************************************************)
(* What overlapping, killed and repeated runs of the migrations leave in   *)
(* the database, for every number of migrators, runs and downgrades.       *)
(***************************************************************************)
EXTENDS Migrations, FiniteSetTheorems, TLAPS

-----------------------------------------------------------------------------
(* Schemas, and the tables that are moved between them *)

LEMMA SchemaFacts ==
  /\ Schemas = {"archive", Default, Target}
  /\ Default # Target /\ Default # "archive" /\ Target # "archive"
  <1>1. Range(Elsewhere) = {"archive", Default}
    BY DEF Elsewhere, Range
  <1> QED BY <1>1 DEF Schemas, Default, Target

\* What ORDER BY and LIMIT 1 select.
LEMMA FirstIs ==
  ASSUME NEW found \in SUBSET Schemas
  PROVE  First(found) = IF "archive" \in found THEN {"archive"}
                        ELSE IF Default \in found THEN {Default} ELSE {}
  <1>1. DOMAIN Elsewhere = 1 .. 2 /\ Elsewhere[1] = "archive" /\ Elsewhere[2] = Default
    BY DEF Elsewhere
  <1>2. 1 .. 2 = {1, 2} /\ 1 .. 1 = {1}
    OBVIOUS
  <1>3. ASSUME NEW s \in Schemas
        PROVE  (\A i \in DOMAIN Elsewhere : Elsewhere[i] \in found =>
                  \E k \in 1 .. i : Elsewhere[k] = s)
                 <=> /\ "archive" \in found => s = "archive"
                     /\ Default \in found => s \in {"archive", Default}
    BY <1>1, <1>2
  <1>4. First(found) = {s \in found \ {Target} :
                          /\ "archive" \in found => s = "archive"
                          /\ Default \in found => s \in {"archive", Default}}
    BY <1>3 DEF First
  <1> QED BY <1>4, SchemaFacts

TableKinds == {"none", "copy", "old", "new"}

\* Migration 0002 moves one table into the target schema, the copy first, if it
\* has none; what else there is stays where it is, and no rows are lost.
LEMMA MoveFacts ==
  ASSUME NEW t \in [Schemas -> TableKinds], t[Default] # "none", t[Target] = "none"
  PROVE  LET from  == IF t["archive"] # "none" THEN "archive" ELSE Default
             moved == TableOf0002(t)
         IN  /\ First({s \in Schemas : t[s] # "none"}) = {from}
             /\ moved = [t EXCEPT ![from] = "none", ![Target] = t[from]]
             /\ moved \in [Schemas -> TableKinds] /\ moved[Target] # "none"
             /\ t["archive"] = "none" => moved["archive"] = "none" /\ moved[Default] = "none"
             /\ (\E s \in Schemas : t[s] = "old") => \E s \in Schemas : moved[s] = "old"
  <1> DEFINE from  == IF t["archive"] # "none" THEN "archive" ELSE Default
             held  == {s \in Schemas : t[s] # "none"}
             moved == TableOf0002(t)
  <1>1. First(held) = {from}
    BY FirstIs, SchemaFacts
  <1>2. (CHOOSE src \in {from} : TRUE) = from
    OBVIOUS
  <1>3. moved = [s \in Schemas |-> IF s = from THEN "none" ELSE IF s = Target THEN t[from] ELSE t[s]]
    <2> HIDE DEF from
    <2> QED BY <1>1, <1>2 DEF TableOf0002
  <1>4. from \in Schemas /\ from # Target /\ t[from] # "none"
    BY SchemaFacts
  <1>5. moved = [t EXCEPT ![from] = "none", ![Target] = t[from]]
    <2> HIDE DEF from
    <2> QED BY <1>3, <1>4, SchemaFacts
  <1>6. moved \in [Schemas -> TableKinds] /\ moved[Target] # "none"
    <2> HIDE DEF from, moved
    <2> QED BY <1>3, <1>4, SchemaFacts DEF TableKinds
  <1>7. t["archive"] = "none" => moved["archive"] = "none" /\ moved[Default] = "none"
    BY <1>3, SchemaFacts
  <1>8. (\E s \in Schemas : t[s] = "old") => \E s \in Schemas : moved[s] = "old"
    <2> SUFFICES ASSUME NEW s \in Schemas, t[s] = "old" PROVE \E u \in Schemas : moved[u] = "old"
      OBVIOUS
    <2> HIDE DEF from, moved
    <2>1. CASE s = from
      BY <1>3, <1>4, <2>1, SchemaFacts
    <2>2. CASE s # from
      BY <1>3, <2>2, SchemaFacts
    <2> QED BY <2>1, <2>2
  <1> QED BY <1>1, <1>5, <1>6, <1>7, <1>8

-----------------------------------------------------------------------------
(* Invariants *)

Recorded == revision[Target]

\* The version table has been relocated, or there has never been one.
Settled == Target \in versionIn \/ versionIn = {}

\* Where a version table is says what it records; and what is recorded, or
\* that the old table was not relocated yet, says where the job runs are.
DatabaseInv ==
  /\ \A s \in Schemas \ {Target} : revision[s] = IF s \in versionIn THEN {"0001"} ELSE {}
  /\ Target \notin versionIn => Recorded = {}
  /\ Recorded \in {{}, {"0001"}, {"0002"}}
  /\ Recorded = {"0001"} \/ ~Settled => Default \in Holding /\ Target \notin Holding
  /\ Recorded = {"0002"} => Target \in Holding
  /\ versionIn = {} => ~copies

\* Without copies there is one version table, and one table of job runs.
PlainInv ==
  ~copies =>
    /\ versionIn \in {{}, {Default}, {Target}}
    /\ Holding = IF versionIn = {Default} \/ Recorded = {"0001"} THEN {Default}
                 ELSE IF Recorded = {"0002"} THEN {Target} ELSE {}

\* What a run has found is elsewhere; it goes on only with a version table in
\* its place, or with none; and the revision it has read can be behind the one
\* recorded, but not ahead.
MigratorInv ==
  \A m \in Migrators :
    /\ pc[m] = "found" => source[m] = {} \/ \E s \in Schemas \ {Target} : source[m] = {s}
    /\ (pc[m] = "found" /\ source[m] = {}) \/ pc[m] \in {"prepared", "read"} => Settled
    /\ pc[m] = "read" => /\ heads[m] \in {{}, {"0001"}, {"0002"}}
                         /\ heads[m] = {"0002"} => Recorded = {"0002"}

MigrationsInv == TypeOK /\ DatabaseInv /\ PlainInv /\ MigratorInv

LEMMA MigrationsInit == Init => MigrationsInv
  <1> SUFFICES ASSUME Init PROVE MigrationsInv
    OBVIOUS
  <1>1. TypeOK
    <2>1. table \in [Schemas -> {"none", "copy", "old", "new"}]
      BY SchemaFacts DEF Init, NoTable
    <2>2. versionIn \subseteq Schemas /\ copies \in BOOLEAN
      BY SchemaFacts DEF Init
    <2>3. revision \in [Schemas -> SUBSET {"0001", "0002"}]
      BY DEF Init
    <2>4. /\ pc \in [Migrators -> {"idle", "found", "prepared", "read", "done", "failed"}]
          /\ source \in [Migrators -> SUBSET Schemas]
          /\ heads \in [Migrators -> SUBSET {"0001", "0002"}]
          /\ runs \in 0 .. MaxRuns /\ downgrades \in 0 .. MaxDowngrades
      BY MigrationsAssumption DEF Init
    <2> QED BY <2>1, <2>2, <2>3, <2>4 DEF TypeOK
  <1>2. MigratorInv
    BY DEF Init, MigratorInv
  <1>3. DatabaseInv /\ PlainInv
    BY SchemaFacts DEF Init, DatabaseInv, PlainInv, Recorded, Settled, Holding, NoTable
  <1> QED BY <1>1, <1>2, <1>3 DEF MigrationsInv

\* A step that leaves the database alone has only to account for the migrator
\* that makes it.
LEMMA MigratorAlone ==
  ASSUME MigrationsInv, TypeOK', UNCHANGED <<versionIn, revision, table, copies>>, NEW m \in Migrators,
         \A k \in Migrators \ {m} : UNCHANGED <<pc[k], source[k], heads[k]>>,
         pc'[m] = "found" => source'[m] = {} \/ \E s \in Schemas \ {Target} : source'[m] = {s},
         (pc'[m] = "found" /\ source'[m] = {}) \/ pc'[m] \in {"prepared", "read"} => Settled,
         pc'[m] = "read" => /\ heads'[m] \in {{}, {"0001"}, {"0002"}}
                            /\ heads'[m] = {"0002"} => Recorded = {"0002"}
  PROVE  MigrationsInv'
  <1>1. DatabaseInv' /\ PlainInv' /\ Settled' = Settled /\ Recorded' = Recorded
    BY DEF MigrationsInv, DatabaseInv, PlainInv, Recorded, Settled, Holding
  <1>2. MigratorInv'
    BY <1>1 DEF MigrationsInv, MigratorInv
  <1> QED BY <1>1, <1>2 DEF MigrationsInv

LEMMA RelocateStep ==
  ASSUME MigrationsInv, NEW m \in Migrators, Relocate(m)
  PROVE  MigrationsInv'
  <1> USE DEF MigrationsInv
  <1>1. pc[m] = "found" /\ pc' = [pc EXCEPT ![m] = "prepared"]
    BY DEF Relocate, Enter
  <1>2. UNCHANGED <<table, source, heads, runs, downgrades, copies>> /\ Holding' = Holding
    BY DEF Relocate, Holding
  <1>3. CASE source[m] = {}
    <2>1. UNCHANGED <<versionIn, revision>>
      BY <1>3, SchemaFacts DEF Relocate, TypeOK
    <2>2. TypeOK' /\ Settled
      BY <1>1, <1>2, <1>3, <2>1 DEF TypeOK, MigratorInv
    <2> QED BY <1>1, <1>2, <2>1, <2>2, MigratorAlone DEF TypeOK
  <1>4. CASE source[m] # {}
    <2>1. PICK s \in Schemas \ {Target} : source[m] = {s}
      BY <1>1, <1>4 DEF MigratorInv
    <2>2. s \in versionIn /\ Target \notin versionIn
      BY <2>1, <1>4 DEF Relocate, Movable
    <2>3. versionIn' = (versionIn \ {s}) \cup {Target}
      BY <2>1 DEF Relocate
    <2>4. revision[s] = {"0001"} /\ revision[Target] = {}
      BY <2>2 DEF DatabaseInv, Recorded
    <2>5. revision' = [revision EXCEPT ![s] = {}, ![Target] = {"0001"}]
      <3>1. UNION {revision[src] : src \in source[m]} = {"0001"}
        BY <2>1, <2>4
      <3>2. revision' = [u \in Schemas |-> IF u = s THEN {}
                                           ELSE IF u = Target THEN {"0001"} ELSE revision[u]]
        BY <2>1, <2>4, <3>1 DEF Relocate
      <3> QED BY <2>1, <3>2, SchemaFacts DEF TypeOK
    <2>6. TypeOK'
      BY <1>1, <1>2, <2>1, <2>3, <2>5, SchemaFacts DEF TypeOK
    <2>7. Recorded' = {"0001"} /\ Settled'
      BY <2>1, <2>3, <2>5, SchemaFacts DEF Recorded, Settled, TypeOK
    <2>8. Default \in Holding /\ Target \notin Holding
      BY <2>2 DEF DatabaseInv, Settled
    <2>9. DatabaseInv'
      BY <1>2, <2>1, <2>3, <2>5, <2>7, <2>8 DEF DatabaseInv, TypeOK, Settled
    <2>10. PlainInv'
      BY <1>2, <2>1, <2>2, <2>3, <2>7, SchemaFacts DEF PlainInv
    <2>11. MigratorInv'
      BY <1>1, <1>2, <2>4, <2>7 DEF MigratorInv, Recorded, TypeOK
    <2> QED BY <2>6, <2>9, <2>10, <2>11
  <1> QED BY <1>3, <1>4

\* What an upgrade that applies finds and leaves.
LEMMA UpgradeFacts ==
  ASSUME MigrationsInv, NEW m \in Migrators, pc[m] = "read", heads[m] # {"0002"}, Applies(m)
  PROVE  LET t == TableOf0001(m) IN
         /\ t \in [Schemas -> TableKinds] /\ t[Default] # "none" /\ t[Target] = "none"
         /\ t["archive"] = table["archive"]
         /\ Recorded \in {{}, {"0001"}} /\ Settled
         /\ heads[m] = {} => Recorded = {} /\ table[Default] = "none"
         /\ (\E s \in Schemas : table[s] = "old") => \E s \in Schemas : t[s] = "old"
  <1> DEFINE t == TableOf0001(m)
  <1> USE DEF MigrationsInv
  <1>1. heads[m] \in {{}, {"0001"}} /\ Settled
    BY DEF MigratorInv
  <1>2. table \in [Schemas -> TableKinds]
    BY DEF TypeOK, TableKinds
  <1>3. CASE heads[m] = {}
    <2>1. table[Default] = "none" /\ t = [table EXCEPT ![Default] = "new"]
      BY <1>3 DEF Applies, TableOf0001
    <2>2. t \in [Schemas -> TableKinds] /\ t[Default] = "new" /\ t["archive"] = table["archive"]
      BY <1>2, <2>1, SchemaFacts DEF TableKinds
    <2>3. First({s \in Schemas : t[s] # "none"}) # {}
      <3> DEFINE held == {s \in Schemas : t[s] # "none"}
      <3>1. Default \in held /\ held \in SUBSET Schemas
        BY <2>2, SchemaFacts
      <3>2. First(held) # {}
        <4> HIDE DEF held
        <4> QED BY <3>1, FirstIs
      <3> QED BY <3>2
    <2>4. t[Target] = "none" /\ table[Target] = "none"
      BY <1>2, <2>1, <2>3, SchemaFacts DEF Applies
    <2>5. Recorded = {}
      BY <1>3, <2>4 DEF Applies, DatabaseInv, Recorded, Holding
    <2>6. (\E s \in Schemas : table[s] = "old") => \E s \in Schemas : t[s] = "old"
      BY <1>2, <2>1, SchemaFacts
    <2> QED BY <1>1, <2>1, <2>2, <2>4, <2>5, <2>6
  <1>4. CASE heads[m] = {"0001"}
    <2>1. Recorded = {"0001"} /\ t = table
      BY <1>4 DEF Applies, TableOf0001, Recorded
    <2>2. t[Default] # "none" /\ t[Target] = "none"
      BY <2>1, SchemaFacts DEF DatabaseInv, Holding
    <2> QED BY <1>1, <1>2, <1>4, <2>1, <2>2
  <1> QED BY <1>1, <1>3, <1>4

LEMMA UpgradeStep ==
  ASSUME MigrationsInv, NEW m \in Migrators, Upgrade(m)
  PROVE  /\ MigrationsInv'
         /\ table'[Target] # "none" /\ revision'[Target] = {"0002"}
         /\ HasOldRows => HasOldRows'
  <1> USE DEF MigrationsInv
  <1>1. pc[m] = "read" /\ pc' = [pc EXCEPT ![m] = "done"] /\ UNCHANGED <<source, heads, runs, downgrades, copies>>
    BY DEF Upgrade, Enter
  <1>2. CASE UNCHANGED database /\ heads[m] = {"0002"}
    <2>1. TypeOK'
      BY <1>1, <1>2 DEF TypeOK, database
    <2>2. MigrationsInv'
      BY <1>1, <1>2, <2>1, MigratorAlone DEF TypeOK, database
    <2>3. Recorded = {"0002"} /\ Target \in Holding
      BY <1>1, <1>2 DEF MigratorInv, DatabaseInv
    <2> QED BY <1>2, <2>2, <2>3 DEF database, Recorded, Holding, HasOldRows
  <1>3. CASE heads[m] # {"0002"} /\ Applies(m) /\ ~UNCHANGED database
    <2> DEFINE t == TableOf0001(m)
               from == IF t["archive"] # "none" THEN "archive" ELSE Default
    <2>1. /\ t \in [Schemas -> TableKinds] /\ t[Default] # "none" /\ t[Target] = "none"
          /\ t["archive"] = table["archive"]
          /\ Recorded \in {{}, {"0001"}} /\ Settled
          /\ heads[m] = {} => Recorded = {} /\ table[Default] = "none"
          /\ (\E s \in Schemas : table[s] = "old") => \E s \in Schemas : t[s] = "old"
      BY <1>1, <1>3, UpgradeFacts
    <2>2. /\ table' = TableOf0002(t) /\ versionIn' = versionIn \cup {Target}
          /\ revision' = [revision EXCEPT ![Target] = {"0002"}]
      BY <1>3 DEF Upgrade
    <2> HIDE DEF t
    <2>3. /\ table' \in [Schemas -> TableKinds] /\ table'[Target] # "none"
          /\ t["archive"] = "none" => table'["archive"] = "none" /\ table'[Default] = "none"
          /\ (\E s \in Schemas : t[s] = "old") => \E s \in Schemas : table'[s] = "old"
      BY <2>1, <2>2, MoveFacts
    <2>4. TypeOK'
      BY <1>1, <2>2, <2>3, SchemaFacts DEF TypeOK, TableKinds
    <2>5. Recorded' = {"0002"} /\ Settled' /\ Target \in Holding'
      BY <2>2, <2>3, SchemaFacts DEF Recorded, Settled, Holding, TypeOK
    <2>6. DatabaseInv'
      BY <1>1, <2>2, <2>5, SchemaFacts DEF DatabaseInv, TypeOK, Recorded
    <2>7. PlainInv'
      <3> SUFFICES ASSUME ~copies PROVE versionIn' = {Target} /\ Holding' = {Target}
        BY <1>1, <2>5, SchemaFacts DEF PlainInv
      <3>1. versionIn' = {Target}
        BY <2>1, <2>2, SchemaFacts DEF PlainInv, Settled
      <3>2. table["archive"] = "none"
        BY SchemaFacts DEF PlainInv, Holding
      <3> QED BY <2>1, <2>3, <3>1, <3>2, SchemaFacts DEF Holding
    <2>8. MigratorInv'
      BY <1>1, <2>5 DEF MigratorInv, TypeOK
    <2> QED BY <2>1, <2>3, <2>4, <2>5, <2>6, <2>7, <2>8 DEF HasOldRows, Recorded
  <1>4. CASE heads[m] # {"0002"} /\ UNCHANGED database
    <2>1. revision' = [revision EXCEPT ![Target] = {"0002"}]
      BY <1>4 DEF Upgrade
    <2>2. Recorded = {"0002"}
      BY <1>4, <2>1, SchemaFacts DEF Recorded, database, TypeOK
    <2>3. FALSE
      BY <1>1, <1>4, <2>2, UpgradeFacts DEF Upgrade
    <2> QED BY <2>3
  <1> QED BY <1>2, <1>3, <1>4 DEF Upgrade

LEMMA DowngradeStep ==
  ASSUME MigrationsInv, Downgrade
  PROVE  MigrationsInv'
  <1> USE DEF MigrationsInv
  <1>1. \A m \in Migrators : pc[m] \notin {"found", "prepared", "read"}
    BY DEF Downgrade
  <1>2. UNCHANGED <<versionIn, pc, source, heads, runs, copies>>
    BY DEF Downgrade, migratorVars
  <1>3. Settled' = Settled /\ MigratorInv'
    BY <1>1, <1>2 DEF Settled, MigratorInv
  <1>4. CASE revision[Target] = {"0002"}
    <2>1. table[Target] # "none"
      BY <1>4 DEF DatabaseInv, Recorded, Holding
    <2>2. /\ table[Default] = "none"
          /\ table' = [table EXCEPT ![Default] = table[Target], ![Target] = "none"]
          /\ revision' = [revision EXCEPT ![Target] = {"0001"}]
      BY <1>4, <2>1 DEF Downgrade
    <2>3. TypeOK'
      BY <1>2, <2>2, SchemaFacts, MigrationsAssumption DEF TypeOK, Downgrade
    <2>4. Recorded' = {"0001"} /\ Holding' = (Holding \ {Target}) \cup {Default}
      BY <2>1, <2>2, SchemaFacts DEF Recorded, Holding, TypeOK
    <2>5. Settled /\ Target \in versionIn
      BY <1>4 DEF DatabaseInv, Settled, Recorded
    <2>6. DatabaseInv'
      BY <1>2, <1>3, <2>2, <2>4, <2>5, SchemaFacts DEF DatabaseInv, TypeOK
    <2>7. PlainInv'
      BY <1>2, <1>4, <2>4, <2>5, SchemaFacts DEF PlainInv, Recorded
    <2> QED BY <1>3, <2>3, <2>6, <2>7
  <1>5. CASE revision[Target] = {"0001"} /\ revision[Target] # {"0002"}
    <2>1. /\ table' = [table EXCEPT ![Default] = "none"]
          /\ revision' = [revision EXCEPT ![Target] = {}]
      BY <1>5 DEF Downgrade
    <2>2. TypeOK'
      BY <1>2, <2>1, SchemaFacts, MigrationsAssumption DEF TypeOK, Downgrade
    <2>3. Recorded' = {} /\ Holding' = Holding \ {Default}
      BY <2>1, SchemaFacts DEF Recorded, Holding, TypeOK
    <2>4. Settled /\ Target \in versionIn
      BY <1>5 DEF DatabaseInv, Settled, Recorded
    <2>5. DatabaseInv'
      BY <1>2, <1>3, <2>1, <2>3, <2>4, SchemaFacts DEF DatabaseInv, TypeOK
    <2>6. PlainInv'
      BY <1>2, <1>5, <2>3, <2>4, SchemaFacts DEF PlainInv, Recorded
    <2> QED BY <1>3, <2>2, <2>5, <2>6
  <1> QED BY <1>4, <1>5 DEF Downgrade

LEMMA MigrationsStep == MigrationsInv /\ [Next]_vars => MigrationsInv'
  <1> SUFFICES ASSUME MigrationsInv, [Next]_vars PROVE MigrationsInv'
    OBVIOUS
  <1>1. ASSUME NEW m \in Migrators, Find(m) PROVE MigrationsInv'
    <2>1. versionIn \subseteq Schemas
      BY DEF MigrationsInv, TypeOK
    <2>2. First(versionIn) = IF "archive" \in versionIn THEN {"archive"}
                             ELSE IF Default \in versionIn THEN {Default} ELSE {}
      BY <2>1, FirstIs
    <2>3. First(versionIn) \subseteq Schemas
      BY <2>2, SchemaFacts
    <2>4. TypeOK'
      BY <1>1, <2>3, MigrationsAssumption DEF Find, Enter, MigrationsInv, TypeOK, database
    <2>5. First(versionIn) = {} => Settled
      BY <2>1, <2>2, SchemaFacts DEF Settled
    <2> QED
      BY <1>1, <2>2, <2>4, <2>5, MigratorAlone, SchemaFacts
      DEF Find, Enter, database, MigrationsInv, TypeOK
  <1>2. ASSUME NEW m \in Migrators, Relocate(m) PROVE MigrationsInv'
    BY <1>2, RelocateStep
  <1>3. ASSUME NEW m \in Migrators, ReadHeads(m) PROVE MigrationsInv'
    <2>1. TypeOK'
      BY <1>3, SchemaFacts DEF ReadHeads, Enter, MigrationsInv, TypeOK, database
    <2>2. Settled /\ Recorded \in {{}, {"0001"}, {"0002"}}
      BY <1>3 DEF ReadHeads, Enter, MigrationsInv, MigratorInv, DatabaseInv
    <2> QED
      BY <1>3, <2>1, <2>2, MigratorAlone DEF ReadHeads, Enter, database, MigrationsInv, TypeOK, Recorded
  <1>4. ASSUME NEW m \in Migrators, Upgrade(m) PROVE MigrationsInv'
    BY <1>4, UpgradeStep
  <1>5. ASSUME NEW m \in Migrators, RelocateFails(m) \/ UpgradeFails(m) \/ Kill(m) \/ Again(m)
        PROVE  MigrationsInv'
    <2>1. UNCHANGED <<database, source, heads, runs, downgrades, copies>>
      BY <1>5 DEF RelocateFails, UpgradeFails, Kill, Again
    <2>2. pc' = [pc EXCEPT ![m] = "failed"] \/ pc' = [pc EXCEPT ![m] = "idle"]
      BY <1>5 DEF RelocateFails, UpgradeFails, Kill, Again, Enter
    <2>3. TypeOK'
      BY <2>1, <2>2 DEF MigrationsInv, TypeOK, database
    <2> QED
      BY <2>1, <2>2, <2>3, MigratorAlone DEF database, MigrationsInv, TypeOK
  <1>6. CASE Downgrade
    BY <1>6, DowngradeStep
  <1>7. CASE UNCHANGED vars
    BY <1>7 DEF vars, database, migratorVars, MigrationsInv, TypeOK, DatabaseInv, PlainInv,
                MigratorInv, Settled, Recorded, Holding
  <1> QED
    BY <1>1, <1>2, <1>3, <1>4, <1>5, <1>6, <1>7 DEF Next

-----------------------------------------------------------------------------
(* Theorems *)

\* The invariant of the migrations.
THEOREM MigrationsInvariance == Spec => []MigrationsInv
  BY MigrationsInit, MigrationsStep, PTL DEF Spec

\* Type correctness.
THEOREM MigrationsTypes == Spec => []TypeOK
  <1>1. MigrationsInv => TypeOK
    BY DEF MigrationsInv
  <1> QED
    BY <1>1, MigrationsInvariance, PTL

\* Whatever runs overlap and wherever they are killed, the recorded revision
\* says where the table of job runs is: for any number of runs and migrators.
THEOREM RevisionStaysTrue == Spec => []RevisionIsTrue
  <1>1. MigrationsInv => RevisionIsTrue
    <2> SUFFICES ASSUME MigrationsInv PROVE RevisionIsTrue
      OBVIOUS
    <2> USE DEF MigrationsInv
    <2>1. /\ Recorded = {"0001"} => Default \in Holding /\ Target \notin Holding
          /\ Recorded = {"0002"} => Target \in Holding
      BY DEF DatabaseInv
    <2>2. ASSUME ~copies
          PROVE  /\ Cardinality(versionIn) <= 1
                 /\ versionIn = {Default} => Holding = {Default}
                 /\ versionIn # {Default} =>
                      Holding = CASE Recorded = {}       -> {}
                                  [] Recorded = {"0001"} -> {Default}
                                  [] Recorded = {"0002"} -> {Target}
                                  [] OTHER               -> Schemas
      <3>1. versionIn \in {{}, {Default}, {Target}}
        BY <2>2 DEF PlainInv
      <3>2. Cardinality(versionIn) <= 1
        <4>1. Cardinality({}) = 0
          BY FS_EmptySet
        <4>2. Cardinality({Default}) = 1 /\ Cardinality({Target}) = 1
          BY FS_Singleton
        <4> QED BY <3>1, <4>1, <4>2
      <3>3. Recorded \in {{}, {"0001"}, {"0002"}}
        BY DEF DatabaseInv
      <3>4. Holding = IF versionIn = {Default} \/ Recorded = {"0001"} THEN {Default}
                      ELSE IF Recorded = {"0002"} THEN {Target} ELSE {}
        BY <2>2 DEF PlainInv
      <3>5. CASE versionIn = {Default}
        BY <3>2, <3>4, <3>5
      <3>6. CASE versionIn # {Default} /\ Recorded = {}
        BY <3>2, <3>4, <3>6
      <3>7. CASE versionIn # {Default} /\ Recorded = {"0001"}
        BY <3>2, <3>4, <3>7
      <3>8. CASE versionIn # {Default} /\ Recorded = {"0002"}
        BY <3>2, <3>4, <3>8
      <3> QED BY <3>3, <3>5, <3>6, <3>7, <3>8
    <2> QED BY <2>1, <2>2 DEF RevisionIsTrue, Recorded
  <1> QED
    BY <1>1, MigrationsInvariance, PTL

\* An upgrade that reports success has left the table in the service's schema
\* and the revision at the head, whatever ran beside it.
THEOREM SuccessMeansHead == Spec => UpgradeReachesHead
  <1>1. MigrationsInv /\ [Next]_vars =>
          [\A m \in Migrators : pc'[m] = "done" /\ pc[m] # "done" =>
             table'[Target] # "none" /\ revision'[Target] = {"0002"}]_vars
    <2> SUFFICES ASSUME MigrationsInv, Next, NEW m \in Migrators, pc'[m] = "done", pc[m] # "done"
                 PROVE  table'[Target] # "none" /\ revision'[Target] = {"0002"}
      OBVIOUS
    <2>1. PICK k \in Migrators : Upgrade(k)
      BY DEF Next, Find, Relocate, RelocateFails, ReadHeads, UpgradeFails, Kill, Again, Downgrade,
             Enter, migratorVars, MigrationsInv, TypeOK
    <2> QED BY <2>1, UpgradeStep
  <1> QED
    BY <1>1, MigrationsInvariance, PTL DEF Spec, UpgradeReachesHead

\* No upgrade loses the rows of an earlier installation, copies or not: only an
\* operator who takes the first migration back does.
THEOREM UpgradesKeepRows == Spec => RowsPersist
  <1>1. MigrationsInv /\ [Next]_vars =>
          [HasOldRows /\ ~HasOldRows' => downgrades' = downgrades + 1]_vars
    <2> SUFFICES ASSUME MigrationsInv, Next, HasOldRows, ~HasOldRows'
                 PROVE  downgrades' = downgrades + 1
      OBVIOUS
    <2>1. CASE \E m \in Migrators : Upgrade(m)
      BY <2>1, UpgradeStep
    <2>2. CASE Downgrade
      BY <2>2 DEF Downgrade
    <2>3. CASE UNCHANGED table
      BY <2>3 DEF HasOldRows
    <2> QED
      BY <2>1, <2>2, <2>3 DEF Next, Find, Relocate, RelocateFails, ReadHeads, UpgradeFails, Kill, Again, database
  <1> QED
    BY <1>1, MigrationsInvariance, PTL DEF Spec, RowsPersist

=============================================================================
