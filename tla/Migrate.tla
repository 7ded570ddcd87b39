------------------------------- MODULE Migrate -------------------------------
(***************************************************************************)
(* go/cmd/migrate: brings the event store's schema up or down, one version  *)
(* per database transaction, and records each version in schema_migrations. *)
(* The server's entrypoint runs it on every boot; an operator may run it by  *)
(* hand (bin/db_migrate.sh) at the same time.  No lock keeps two apart.      *)
(*                                                                          *)
(* The schema is what the two migrations make of the column that holds the  *)
(* aggregate ids: no table, a text column, a uuid column.                   *)
(***************************************************************************)
EXTENDS Integers, Sequences, FiniteSetsExt

CONSTANT Migrators  \* who may run the command

VARIABLES
    table,     \* the schema the database really has
    recorded,  \* the versions in schema_migrations
    migrator   \* per migrator, its program counter and the versions left to do,
               \* which it takes in their order

migrateVars == <<table, recorded, migrator>>

migrationVersions == {1, 2}

Tables == {"none", "text", "uuid"}
Off == [pc |-> "off", todo |-> {}]
Running(m) == migrator[m].pc \in {"up", "down"}

\* What a migration does to the table, and when its statements fail: the table
\* must not exist for 00001 up and must exist for either direction of 00002.
\* All of them may be repeated except 00001 up.
Fits(v, direction) ==
    /\ v = 1 /\ direction = "up" => table = "none"
    /\ v = 2 => table # "none"
Result(v, direction) ==
    CASE v = 1 /\ direction = "down" -> "none"
      [] v = 2 /\ direction = "up"   -> "uuid"
      [] OTHER                       -> "text"

MigrateInit ==
    /\ table = "none"
    /\ recorded = {}
    /\ migrator = [m \in Migrators |-> Off]

MigrateGoto(m, pc, todo) == migrator' = [migrator EXCEPT ![m] = [pc |-> pc, todo |-> todo]]

\* appliedVersions is read once, at the start.
runUp(m) ==
    /\ migrator[m].pc = "off"
    /\ MigrateGoto(m, "up", migrationVersions \ recorded)
    /\ UNCHANGED <<table, recorded>>

\* Only the last version on record.
runDown(m) ==
    /\ migrator[m].pc = "off"
    /\ MigrateGoto(m, "down", IF recorded = {} THEN {} ELSE {Max(recorded)})
    /\ UNCHANGED <<table, recorded>>

\* Mutant: the version is recorded outside the transaction, and not in time.
applyStep_Unrecorded(m) ==
    /\ Running(m)
    /\ migrator[m].todo # {}
    /\ LET v == Min(migrator[m].todo)
           up == migrator[m].pc = "up"
       IN  IF Fits(v, migrator[m].pc)
             THEN /\ table' = Result(v, migrator[m].pc)
                  /\ UNCHANGED recorded
                  /\ MigrateGoto(m, migrator[m].pc, migrator[m].todo \ {v})
             ELSE /\ MigrateGoto(m, "fatal", {})
                  /\ UNCHANGED <<table, recorded>>

\* The statements and the bookkeeping commit together or not at all: recording
\* a version that is there already breaks the primary key.
applyStep(m) ==
    /\ Running(m)
    /\ migrator[m].todo # {}
    /\ LET v == Min(migrator[m].todo)
           up == migrator[m].pc = "up"
       IN  IF Fits(v, migrator[m].pc) /\ ~(up /\ v \in recorded)
             THEN /\ table' = Result(v, migrator[m].pc)
                  /\ recorded' = IF up THEN recorded \union {v} ELSE recorded \ {v}
                  /\ MigrateGoto(m, migrator[m].pc, migrator[m].todo \ {v})
             ELSE /\ MigrateGoto(m, "fatal", {})
                  /\ UNCHANGED <<table, recorded>>

migrated(m) ==
    /\ Running(m)
    /\ migrator[m].todo = {}
    /\ MigrateGoto(m, "done", {})
    /\ UNCHANGED <<table, recorded>>

\* Nobody migrates up while somebody migrates down.  No code sees to it.
OneDirection == ~\E m, n \in Migrators : migrator[m].pc = "up" /\ migrator[n].pc = "down"

RecordMatches ==
    \/ recorded = {}     /\ table = "none"
    \/ recorded = {1}    /\ table = "text"
    \/ recorded = {1, 2} /\ table = "uuid"

\* As long as whoever runs the command keeps to one direction at a time, the
\* versions on record are the ones the table really went through, in order and
\* without a gap, however often migrations are interrupted, repeated or run
\* twice at a time: runUp trusts the record and nothing else (applyStep).
SchemaMatches == []OneDirection => []RecordMatches
=============================================================================
