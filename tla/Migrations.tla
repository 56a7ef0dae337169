------------------------------ MODULE Migrations ------------------------------
(***************************************************************************)
(* The migrations of the database (db/schema.ts, SqliteDB.runMigrations):  *)
(* a start runs those whose version is not recorded, statement by          *)
(* statement, each committed by itself, and then records the version.  The *)
(* process may stop between any two, and a statement that fails stops it.  *)
(***************************************************************************)
EXTENDS Naturals, Sequences

CONSTANTS
    OldRows,        \* the rows a database of version 1 to 6 may have in records
    Absent,         \* no such table
    MaxStops

ASSUME MigrationsAssumption == \A rows \in SUBSET OldRows : rows # Absent

VARIABLES
    applied,        \* the versions recorded are 1..applied
    table, legacy,  \* the rows of records and of records_legacy, or Absent
    statement,      \* the next of the migration that runs; 0 when the process is down
    serving,        \* all are applied and the node works
    original,       \* history: the rows before any migration
    stops

migrationVars == <<applied, table, legacy, statement, serving, original, stops>>

Latest == 8

MigrationsInit ==
    /\ original \in SUBSET OldRows
    /\ \/ applied = 0 /\ original = {} /\ table = Absent
       \/ applied \in 1..6 /\ table = original
    /\ legacy = Absent
    /\ statement = 0
    /\ serving = FALSE
    /\ stops = 0

\* Mutant: the old table is dropped before its rows are copied.
StatementsDropFirst(v) ==
    CASE v = 1 -> <<"drop records", "create records", "ensure", "version">>
      [] v = 7 -> <<"rename records", "create records", "drop legacy", "copy legacy", "ensure", "version">>
      [] OTHER -> <<"ensure", "version">>

\* MIGRATIONS; "ensure" is CREATE .. IF NOT EXISTS of other tables and of indexes.
Statements(v) ==
    CASE v = 1 -> <<"drop records", "create records", "ensure", "version">>
      [] v = 7 -> <<"rename records", "create records", "copy legacy", "drop legacy", "ensure", "version">>
      [] OTHER -> <<"ensure", "version">>

\* The constructor starts with the first version that is not recorded.
Open ==
    /\ statement = 0 /\ ~serving
    /\ IF applied = Latest THEN serving' = TRUE /\ UNCHANGED statement
       ELSE statement' = 1 /\ UNCHANGED serving
    /\ UNCHANGED <<applied, table, legacy, original, stops>>

Fails(s) ==
    \/ s = "create records" /\ table # Absent
    \/ s = "rename records" /\ (table = Absent \/ legacy # Absent)
    \/ s \in {"copy legacy", "drop legacy"} /\ legacy = Absent

\* What a statement does to the two tables.
Effect(s) ==
    CASE s = "drop records" -> table' = Absent /\ UNCHANGED legacy
      [] s = "create records" -> table' = {} /\ UNCHANGED legacy
      [] s = "rename records" -> table' = Absent /\ legacy' = table
      [] s = "copy legacy" -> table' = table \cup legacy /\ UNCHANGED legacy
      [] s = "drop legacy" -> legacy' = Absent /\ UNCHANGED table
      [] OTHER -> UNCHANGED <<table, legacy>>

Execute ==
    LET run == Statements(applied + 1)
        s == run[statement] IN
    /\ statement > 0
    /\ IF Fails(s) THEN statement' = 0 /\ UNCHANGED <<applied, table, legacy, serving>> ELSE
         /\ Effect(s)
         /\ applied' = IF s = "version" THEN applied + 1 ELSE applied
         /\ serving' = (s = "version" /\ applied + 1 = Latest)
         /\ statement' = IF s # "version" THEN statement + 1
                         ELSE IF applied + 1 = Latest THEN 0 ELSE 1
    /\ UNCHANGED <<original, stops>>

Stop ==
    /\ statement > 0 \/ serving
    /\ stops < MaxStops /\ stops' = stops + 1
    /\ statement' = 0 /\ serving' = FALSE
    /\ UNCHANGED <<applied, table, legacy, original>>

MigrationsNext == Open \/ Execute \/ Stop

\* The process is started again, and goes on when it is not stopped.
MigrationsFairness == WF_migrationVars(Open) /\ WF_migrationVars(Execute)

MigrationsSpec == MigrationsInit /\ [][MigrationsNext]_migrationVars /\ MigrationsFairness

-----------------------------------------------------------------------------
\* No stop, at whatever statement, and no start after it loses a row that the
\* database had: it is in the table, or still in the one it is copied from, and all
\* are in the one table when the node serves.
RowsSurvive ==
    /\ applied > 0 => original \subseteq (IF table = Absent THEN {} ELSE table)
                                      \cup (IF legacy = Absent THEN {} ELSE legacy)
    /\ serving => original \subseteq table /\ legacy = Absent

\* What the comment on MIGRATIONS says: each runs exactly once, so that every version
\* comes to be recorded.
EachMigrationRuns == \A v \in 1..Latest : <>(applied >= v)
=============================================================================
