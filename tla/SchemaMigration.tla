--------------------------- MODULE SchemaMigration ---------------------------
(***************************************************************************)
(* The storage migrator and the API's check of the schema.  A migrator     *)
(* holds a session-level advisory lock over four transactions; it may die  *)
(* between any two of them, which ends its session and frees the lock.     *)
(*                                                                         *)
(* Which columns and indexes earlier versions had is not in the            *)
(* repository: the database may come with any of the tables, each with any *)
(* of its parts.                                                           *)
(***************************************************************************)
EXTENDS Naturals

CONSTANTS
    Migrators,     \* migrate.py processes
    Servers,       \* API processes
    CurrentSchema, \* BUSINESS_SCHEMA_VERSION
    Tables,        \* the tables of Base.metadata
    Parts,         \* their columns, indexes and foreign keys
    TableOf,       \* the table of each part
    Patched        \* the parts create_business_tables adds to a table that is there

ASSUME SchemaAssumption ==
    /\ CurrentSchema \in Nat \ {0}
    /\ TableOf \in [Parts -> Tables] /\ Patched \subseteq Parts

VARIABLES
    migratorAt, \* where each migrator stands
    recorded,   \* the business version in the version table, 0 for none
    tables,     \* the tables that are there
    parts,      \* the parts that are there
    inherited,  \* history: the tables that an earlier version had created
    serverAt    \* where each API process stands

schemaVars == <<migratorAt, recorded, tables, parts, inherited, serverAt>>

MigratorPlaces == {"start", "locked", "behind", "created", "unlocking", "done", "dead"}

SchemaTypeOK ==
    /\ migratorAt \in [Migrators -> MigratorPlaces]
    /\ recorded \in 0..CurrentSchema
    /\ tables \subseteq Tables /\ parts \subseteq Parts /\ inherited \subseteq Tables
    /\ serverAt \in [Servers -> {"starting", "ready", "refused"}]

PartsOf(T) == {p \in Parts : TableOf[p] \in T}

\* A database that is new, or that an earlier version has migrated
SchemaInit ==
    /\ migratorAt = [m \in Migrators |-> "start"]
    /\ recorded \in 0..(CurrentSchema - 1)
    /\ tables \in SUBSET Tables /\ parts \in SUBSET PartsOf(tables)
    /\ inherited = tables
    /\ serverAt = [a \in Servers |-> "starting"]

HoldsLock(m) == migratorAt[m] \in {"locked", "behind", "created", "unlocking"}
MoveMigrator(m, place) == migratorAt' = [migratorAt EXCEPT ![m] = place]

\* schema_migration_lock
TakeMigrationLock(m) ==
    /\ migratorAt[m] = "start"
    /\ \A other \in Migrators : ~ HoldsLock(other)
    /\ MoveMigrator(m, "locked")
    /\ UNCHANGED <<recorded, tables, parts, inherited, serverAt>>

\* create_schema_version_table, then get_schema_versions
ReadVersion(m) ==
    /\ migratorAt[m] = "locked"
    /\ MoveMigrator(m, IF recorded = CurrentSchema THEN "unlocking" ELSE "behind")
    /\ UNCHANGED <<recorded, tables, parts, inherited, serverAt>>

\* Mutant: the columns and indexes of later versions are left to create_all.
CreateAllOnly(m) ==
    /\ migratorAt[m] = "behind"
    /\ tables' = Tables
    /\ parts' = parts \cup PartsOf(Tables \ tables)
    /\ MoveMigrator(m, "created")
    /\ UNCHANGED <<recorded, inherited, serverAt>>

\* create_business_tables, one transaction: create_all creates the tables that
\* are missing and leaves the others as they are; the ALTER TABLE and CREATE
\* INDEX statements add some parts to these.
CreateTables(m) ==
    /\ migratorAt[m] = "behind"
    /\ tables' = Tables
    /\ parts' = parts \cup PartsOf(Tables \ tables) \cup Patched
    /\ MoveMigrator(m, "created")
    /\ UNCHANGED <<recorded, inherited, serverAt>>

RecordVersion(m) ==
    /\ migratorAt[m] = "created"
    /\ recorded' = CurrentSchema
    /\ MoveMigrator(m, "unlocking")
    /\ UNCHANGED <<tables, parts, inherited, serverAt>>

ReleaseMigrationLock(m) ==
    /\ migratorAt[m] = "unlocking"
    /\ MoveMigrator(m, "done")
    /\ UNCHANGED <<recorded, tables, parts, inherited, serverAt>>

MigratorDies(m) ==
    /\ HoldsLock(m)
    /\ MoveMigrator(m, "dead")
    /\ UNCHANGED <<recorded, tables, parts, inherited, serverAt>>

\* It is started again.
MigratorRestarts(m) ==
    /\ migratorAt[m] = "dead"
    /\ MoveMigrator(m, "start")
    /\ UNCHANGED <<recorded, tables, parts, inherited, serverAt>>

\* require_current_schema in the lifespan of the API
RequireSchema(a) ==
    /\ serverAt[a] \in {"starting", "refused"} \* restart: unless-stopped
    /\ serverAt' = [serverAt EXCEPT ![a] =
                        IF recorded = CurrentSchema THEN "ready" ELSE "refused"]
    /\ UNCHANGED <<migratorAt, recorded, tables, parts, inherited>>

SchemaNext ==
    \/ \E m \in Migrators :
        \/ TakeMigrationLock(m) \/ ReadVersion(m) \/ CreateTables(m)
        \/ RecordVersion(m) \/ ReleaseMigrationLock(m)
        \/ MigratorDies(m) \/ MigratorRestarts(m)
    \/ \E a \in Servers : RequireSchema(a)

SchemaSpec == SchemaInit /\ [][SchemaNext]_schemaVars

-----------------------------------------------------------------------------
(* Property                                                                 *)

\* An API process that is ready serves from a database with every table, with
\* every part of the tables that no earlier version had created and with every
\* patched part of the others, and two migrators are never between reading the
\* version and recording it, wherever one of them died.  Of the other parts of
\* an inherited table nothing is known: create_all does not add them.
ReadyMeansMigrated ==
    /\ \A a \in Servers : serverAt[a] = "ready" =>
        /\ tables = Tables
        /\ PartsOf(Tables \ inherited) \cup Patched \subseteq parts
    /\ \A m, n \in Migrators : HoldsLock(m) /\ HoldsLock(n) => m = n
=============================================================================
