----------------------------- MODULE Migrations -----------------------------
(***************************************************************************)
(* `alembic upgrade head`: alembic/env.py and the two migrations, run by   *)
(* supervisord's db-migrate and by operators, possibly at the same time    *)
(* and possibly killed.  A run is two transactions: _prepare_schema, and   *)
(* then all the migrations from the revision it reads up to the head.      *)
(* PostgreSQL runs DDL in transactions, so each is all or nothing; but     *)
(* another run may commit between the reading of the revision and the DDL. *)
(*                                                                         *)
(* Modelled of the database: in which schemas there is a version table and *)
(* a table of job runs, and which revisions the version tables record.     *)
(* Bounds: MaxRuns, MaxDowngrades.                                         *)
(***************************************************************************)
EXTENDS Integers, Sequences, FiniteSets, SequencesExt

CONSTANTS
  Migrators,        \* processes that may run alembic
  MaxRuns,
  MaxDowngrades

ASSUME MigrationsAssumption ==
  MaxRuns \in Nat /\ MaxDowngrades \in Nat

Target    == "monitoring"               \* SCHEMA_NAME
Default   == "public"                   \* current_schema()
Elsewhere == <<"archive", Default>>     \* the other schemas, as ORDER BY sorts them
Schemas   == Range(Elsewhere) \cup {Target}

VARIABLES
  versionIn,    \* the schemas with a version table
  revision,     \* schema -> revisions its version table records
  table,        \* schema -> the table of job runs in it: "none", "copy", "old"
                \* (with the rows of an earlier installation) or "new"
  pc,           \* migrator -> "idle", "found", "prepared", "read", "done", "failed"
  source,       \* migrator -> where it has found a version table
  heads,        \* migrator -> the revisions it has read
  runs,         \* runs begun
  downgrades,   \* downgrades made
  copies        \* does a schema that somebody else made hold copies of the
                \* two tables, or of one?

database   == <<versionIn, revision, table>>
migratorVars == <<pc, source, heads, runs>>
vars == <<database, migratorVars, downgrades, copies>>

NoTable == [s \in Schemas |-> "none"]

\* A new database, or one that the service used before it had a schema of its
\* own; and maybe copies of its tables in a schema that somebody else made.
Init ==
  /\ \/ table = NoTable /\ versionIn = {} /\ copies = FALSE
     \/ /\ table \in {[NoTable EXCEPT ![Default] = "old", !["archive"] = copy] :
                       copy \in {"none", "copy"}}
        /\ versionIn \in {{Default}, {Default, "archive"}}
        /\ copies = (table["archive"] = "copy" \/ "archive" \in versionIn)
  /\ revision = [s \in Schemas |-> IF s \in versionIn THEN {"0001"} ELSE {}]
  /\ pc = [m \in Migrators |-> "idle"] /\ source = [m \in Migrators |-> {}]
  /\ heads = [m \in Migrators |-> {}]
  /\ runs = 0 /\ downgrades = 0

\* SELECT table_schema ... ORDER BY table_schema LIMIT 1, of the schemas other
\* than the target; as a set, empty or a singleton.
First(found) ==
  {s \in found \ {Target} :
     \A i \in DOMAIN Elsewhere : Elsewhere[i] \in found =>
       \E k \in 1 .. i : Elsewhere[k] = s}

Holding == {s \in Schemas : table[s] # "none"}

-----------------------------------------------------------------------------
(* alembic upgrade head *)

Enter(m, from, to) == pc[m] = from /\ pc' = [pc EXCEPT ![m] = to]

\* _prepare_schema looks for a version table elsewhere.
Find(m) ==
  /\ Enter(m, "idle", "found")
  /\ runs < MaxRuns /\ runs' = runs + 1
  /\ source' = [source EXCEPT ![m] = First(versionIn)]
  /\ UNCHANGED <<database, heads, downgrades, copies>>

\* ALTER TABLE ... SET SCHEMA, which fails where there is a table of that name,
\* or when another run has moved this one meanwhile.
Movable(m) == source[m] # {} => source[m] \subseteq versionIn /\ Target \notin versionIn

Relocate(m) ==
  /\ Enter(m, "found", "prepared") /\ Movable(m)
  /\ versionIn' = IF source[m] = {} THEN versionIn
                  ELSE (versionIn \ source[m]) \cup {Target}
  /\ revision' = [s \in Schemas |->
                    IF s \in source[m] THEN {}
                    ELSE IF s = Target THEN revision[s] \cup UNION {revision[src] : src \in source[m]}
                    ELSE revision[s]]
  /\ UNCHANGED <<table, source, heads, runs, downgrades, copies>>

RelocateFails(m) ==
  /\ Enter(m, "found", "failed") /\ ~Movable(m)
  /\ UNCHANGED <<database, source, heads, runs, downgrades, copies>>

\* Mutant: an empty version table is read as a revision.
ReadHeadsOrBase(m) ==
  /\ Enter(m, "prepared", "read")
  /\ heads' = [heads EXCEPT ![m] = IF revision[Target] = {} THEN {"base"} ELSE revision[Target]]
  /\ UNCHANGED <<database, source, runs, downgrades, copies>>

\* context.run_migrations begins with the current heads.
ReadHeads(m) ==
  /\ Enter(m, "prepared", "read")
  /\ heads' = [heads EXCEPT ![m] = revision[Target]]
  /\ UNCHANGED <<database, source, runs, downgrades, copies>>

\* 0001, with the version table if there is none, on the way to 0002: a table
\* in the default schema, if that has none.
TableOf0001(m) ==
  IF heads[m] = {} THEN [table EXCEPT ![Default] = "new"] ELSE table

\* Mutant: the table is copied, not moved.
TableOf0002Copied(t) == [t EXCEPT ![Target] = t[Default]]

\* Mutant: the table is created anew in its schema.
TableOf0002Recreated(t) == [NoTable EXCEPT ![Target] = "new"]

\* 0002: the first table found elsewhere is moved here.
TableOf0002(t) ==
  LET from == First({s \in Schemas : t[s] # "none"}) IN
  [s \in Schemas |-> IF s \in from THEN "none"
                     ELSE IF s = Target /\ from # {} THEN t[CHOOSE src \in from : TRUE]
                     ELSE t[s]]

\* Alembic records a step by INSERT of 0001, or by an UPDATE of the row it read.
Applies(m) ==
  LET t == TableOf0001(m) IN
  /\ heads[m] = {} => table[Default] = "none" /\ "0001" \notin revision[Target]
  /\ heads[m] = {"0001"} => revision[Target] = {"0001"}
  /\ First({s \in Schemas : t[s] # "none"}) # {} => t[Target] = "none"

\* Mutant: any recorded revision is taken for the head.
UpgradeUnrecorded(m) ==
  /\ Enter(m, "read", "done")
  /\ \/ heads[m] # {} /\ UNCHANGED database
     \/ /\ heads[m] = {} /\ Applies(m)
        /\ table' = TableOf0002(TableOf0001(m))
        /\ versionIn' = versionIn \cup {Target}
        /\ revision' = [revision EXCEPT ![Target] = {"0002"}]
  /\ UNCHANGED <<source, heads, runs, downgrades, copies>>

Upgrade(m) ==
  /\ Enter(m, "read", "done")
  /\ \/ heads[m] = {"0002"} /\ UNCHANGED database
     \/ /\ heads[m] # {"0002"} /\ Applies(m)
        /\ table' = TableOf0002(TableOf0001(m))
        /\ versionIn' = versionIn \cup {Target}
        /\ revision' = [revision EXCEPT ![Target] = {"0002"}]
  /\ UNCHANGED <<source, heads, runs, downgrades, copies>>

\* A statement fails, and all of them are rolled back.
UpgradeFails(m) ==
  /\ Enter(m, "read", "failed")
  /\ heads[m] # {"0002"} /\ ~Applies(m)
  /\ UNCHANGED <<database, source, heads, runs, downgrades, copies>>

-----------------------------------------------------------------------------
(* Kills, restarts, and an operator who takes a migration back *)

Kill(m) ==
  /\ pc[m] \in {"found", "prepared", "read"}
  /\ pc' = [pc EXCEPT ![m] = "failed"]
  /\ UNCHANGED <<database, source, heads, runs, downgrades, copies>>

\* The container is started again, or the operator calls alembic again.
Again(m) ==
  /\ pc[m] \in {"done", "failed"}
  /\ pc' = [pc EXCEPT ![m] = "idle"]
  /\ UNCHANGED <<database, source, heads, runs, downgrades, copies>>

\* alembic downgrade -1, when no upgrade is under way: 0002 moves the table to
\* the default schema, 0001 drops it.
Downgrade ==
  /\ downgrades < MaxDowngrades /\ downgrades' = downgrades + 1
  /\ \A m \in Migrators : pc[m] \notin {"found", "prepared", "read"}
  /\ \/ /\ revision[Target] = {"0002"}
        /\ table[Target] # "none" => table[Default] = "none"
        /\ table' = IF table[Target] = "none" THEN table
                    ELSE [table EXCEPT ![Default] = table[Target], ![Target] = "none"]
        /\ revision' = [revision EXCEPT ![Target] = {"0001"}]
     \/ /\ revision[Target] = {"0001"} /\ table[Default] # "none"
        /\ table' = [table EXCEPT ![Default] = "none"]
        /\ revision' = [revision EXCEPT ![Target] = {}]
  /\ UNCHANGED <<versionIn, migratorVars, copies>>

Next ==
  \/ \E m \in Migrators :
       \/ Find(m) \/ Relocate(m) \/ RelocateFails(m) \/ ReadHeads(m)
       \/ Upgrade(m) \/ UpgradeFails(m) \/ Kill(m) \/ Again(m)
  \/ Downgrade

Spec == Init /\ [][Next]_vars

-----------------------------------------------------------------------------
(* Properties *)

\* Type correctness.
TypeOK ==
  /\ versionIn \subseteq Schemas
  /\ revision \in [Schemas -> SUBSET {"0001", "0002"}]
  /\ table \in [Schemas -> {"none", "copy", "old", "new"}]
  /\ pc \in [Migrators -> {"idle", "found", "prepared", "read", "done", "failed"}]
  /\ source \in [Migrators -> SUBSET Schemas]
  /\ heads \in [Migrators -> SUBSET {"0001", "0002"}]
  /\ runs \in 0 .. MaxRuns /\ downgrades \in 0 .. MaxDowngrades
  /\ copies \in BOOLEAN

\* Whatever runs overlap and wherever they are killed, the revision that is
\* recorded says where the table of job runs is.  If no other schema has copies
\* there is one version table at most, and no other table.
RevisionIsTrue ==
  LET recorded == revision[Target] IN
  /\ recorded = {"0001"} => Default \in Holding /\ Target \notin Holding
  /\ recorded = {"0002"} => Target \in Holding
  /\ ~copies =>
       /\ Cardinality(versionIn) <= 1
       /\ versionIn = {Default} => Holding = {Default}
       /\ versionIn # {Default} =>
            Holding = CASE recorded = {}       -> {}
                        [] recorded = {"0001"} -> {Default}
                        [] recorded = {"0002"} -> {Target}
                        [] OTHER               -> Schemas

\* The rows of an earlier installation are lost by no upgrade, copies or not,
\* but only when an operator takes the first migration back.
HasOldRows == \E s \in Schemas : table[s] = "old"
RowsPersist == [][HasOldRows /\ ~HasOldRows' => downgrades' = downgrades + 1]_vars

\* An upgrade that reports success leaves the table in the service's schema.
UpgradeReachesHead ==
  [][\A m \in Migrators : pc'[m] = "done" /\ pc[m] # "done" =>
       table'[Target] # "none" /\ revision'[Target] = {"0002"}]_vars

=============================================================================
