--------------------------- MODULE SchemaMigration --------------------------
(***************************************************************************)
(* Opening the database of pkg/sqlitestore: configure runs a script of     *)
(* statements, each committed on its own, and migrate then brings a        *)
(* version 1 database to version 2 in one transaction.  Any number of      *)
(* processes may be opening or using the same file (an instance starts     *)
(* while the previous one drains); each can stop at any point.             *)
(*                                                                         *)
(* SQLite itself is external: a statement is atomic, and a transaction     *)
(* that has read may write only while what it read is the latest state.    *)
(***************************************************************************)
EXTENDS Naturals, Sequences, FiniteSetsExt, SequencesExt

CONSTANTS
    Openers,      \* processes
    Clients,      \* rows that oauth_clients may hold
    MaxFailures   \* bound: how often a process is stopped from outside

ASSUME OpenersAssumption == MaxFailures \in Nat

VARIABLES
    tables,     \* the tables that exist
    indexes,    \* the expiry indexes that exist
    versions,   \* the rows of oauth_schema_version
    column,     \* oauth_clients has the column last_used_at
    lastUsed,   \* last_used_at of every row of oauth_clients
    pc,         \* where each process is in Open
    line,       \* the statement of the script each process runs next
    snapshots,  \* the open transactions whose reads are still the latest state
    failures    \* how many processes were stopped

db == <<tables, indexes, versions, column, lastUsed>>
vars == <<tables, indexes, versions, column, lastUsed, pc, line, snapshots, failures>>

currentSchemaVersion == 2

Tables == {"schema_version", "clients", "authorizations", "consents", "codes",
           "refresh_grants"}
ExpiryIndexes == {"authorizations", "consents", "codes"}

\* last_used_at: NULL, a copy of created_at, or the time of a real use.
Activity == {"null", "created", "used"}

SchemaTypeOK ==
    /\ tables \subseteq Tables
    /\ indexes \subseteq ExpiryIndexes
    /\ versions \in BoundedSeq(0 .. 3, 2)
    /\ column \in BOOLEAN
    /\ DOMAIN lastUsed \subseteq Clients /\ lastUsed \in [DOMAIN lastUsed -> Activity]
    /\ pc \in [Openers -> {"down", "script", "version", "require", "begin", "commit",
                           "ready"}]
    /\ line \in [Openers -> 1 .. 13]
    /\ snapshots \subseteq Openers
    /\ failures \in 0 .. MaxFailures

-----------------------------------------------------------------------------
(* Databases that a process may find: none, version 1 as older releases    *)
(* left it, version 2, and the ones migrate must refuse.                   *)

NoRows == [c \in {} |-> "null"]

Fresh ==
    /\ tables = {} /\ indexes = {} /\ versions = <<>> /\ column = FALSE
    /\ lastUsed = NoRows

\* Version 1, with or without rows and expiry indexes, and without the column.
Legacy ==
    /\ tables \in {{"schema_version", "clients"}, Tables}
    /\ indexes \in {{}, ExpiryIndexes} /\ (indexes # {} => tables = Tables)
    /\ versions = <<1>> /\ column = FALSE
    /\ \E rows \in SUBSET Clients : lastUsed = [c \in rows |-> "null"]

Current ==
    /\ tables = Tables /\ indexes = ExpiryIndexes /\ versions = <<2>> /\ column = TRUE
    /\ \E rows \in SUBSET Clients : lastUsed \in [rows -> {"created", "used"}]

\* A later release, a damaged version table, or version 2 without its column.
Unsupported ==
    /\ tables = Tables /\ indexes = ExpiryIndexes
    /\ \/ versions \in {<<3>>, <<0>>, <<1, 2>>} /\ column \in BOOLEAN
       \/ versions = <<2>> /\ column = FALSE
    /\ lastUsed = [c \in Clients |-> IF column THEN "used" ELSE "null"]

Init ==
    /\ Fresh \/ Legacy \/ Current \/ Unsupported
    /\ pc = [o \in Openers |-> "down"]
    /\ line = [o \in Openers |-> 1]
    /\ snapshots = {}
    /\ failures = 0

-----------------------------------------------------------------------------
Goto(o, label) == pc' = [pc EXCEPT ![o] = label]

\* A commit that changes the database makes every open read stale.
Commit == snapshots' = IF db' = db THEN snapshots ELSE {}

ReadOnly == UNCHANGED db /\ UNCHANGED snapshots

\* Open returns an error and closes the database; a transaction is rolled back.
Fail(o) ==
    /\ Goto(o, "down")
    /\ snapshots' = snapshots \ {o}
    /\ UNCHANGED db /\ UNCHANGED line

-----------------------------------------------------------------------------
(* configure.  The refresh family index, created IF NOT EXISTS and never    *)
(* dropped, is left out.                                                   *)

Script ==
    <<<<"table", "schema_version">>, <<"seed", "schema_version">>, <<"table", "clients">>,
      <<"table", "authorizations">>, <<"table", "consents">>, <<"table", "codes">>,
      <<"table", "refresh_grants">>,
      <<"drop", "authorizations">>, <<"drop", "consents">>, <<"drop", "codes">>,
      <<"index", "authorizations">>, <<"index", "consents">>, <<"index", "codes">>>>

Runs(o, kind) == pc[o] = "script" /\ Script[line[o]][1] = kind

Target(o) == Script[line[o]][2]

\* Mutant: the end of the script is not noticed.
AdvancePastEnd(o) ==
    /\ line' = [line EXCEPT ![o] = @ + 1]
    /\ UNCHANGED pc

Advance(o) ==
    IF line[o] < Len(Script)
    THEN line' = [line EXCEPT ![o] = @ + 1] /\ UNCHANGED pc
    ELSE Goto(o, "version") /\ UNCHANGED line

\* CREATE TABLE IF NOT EXISTS: a new oauth_clients has the column.
CreateTable(o) ==
    /\ Runs(o, "table")
    /\ tables' = tables \cup {Target(o)}
    /\ column' = (column \/ (Target(o) = "clients" /\ "clients" \notin tables))
    /\ UNCHANGED <<indexes, versions, lastUsed, failures>>
    /\ Commit /\ Advance(o)

\* Mutant: the row is inserted without WHERE NOT EXISTS.
SeedAgain(o) ==
    /\ Runs(o, "seed")
    /\ Len(versions) < 2
    /\ versions' = Append(versions, 1)
    /\ UNCHANGED <<tables, indexes, column, lastUsed, failures>>
    /\ Commit /\ Advance(o)

\* INSERT ... SELECT 1 WHERE NOT EXISTS
SeedVersion(o) ==
    /\ Runs(o, "seed")
    /\ versions' = IF versions = <<>> THEN <<1>> ELSE versions
    /\ UNCHANGED <<tables, indexes, column, lastUsed, failures>>
    /\ Commit /\ Advance(o)

\* Mutant: the script does not drop the indexes it is about to create.
KeepIndex(o) ==
    /\ Runs(o, "drop")
    /\ UNCHANGED <<db, failures>>
    /\ Commit /\ Advance(o)

\* DROP INDEX IF EXISTS
DropIndex(o) ==
    /\ Runs(o, "drop")
    /\ indexes' = indexes \ {Target(o)}
    /\ UNCHANGED <<tables, versions, column, lastUsed, failures>>
    /\ Commit /\ Advance(o)

\* CREATE INDEX, without IF NOT EXISTS
CreateIndex(o) ==
    /\ Runs(o, "index")
    /\ Target(o) \notin indexes
    /\ indexes' = indexes \cup {Target(o)}
    /\ UNCHANGED <<tables, versions, column, lastUsed, failures>>
    /\ Commit /\ Advance(o)

\* Another process has created the index since this one dropped it.
IndexExists(o) ==
    /\ Runs(o, "index")
    /\ Target(o) \in indexes
    /\ Fail(o) /\ UNCHANGED failures

-----------------------------------------------------------------------------
(* migrate                                                                 *)

minimum == IF versions = <<>> THEN 0 ELSE Min(ToSet(versions))
maximum == IF versions = <<>> THEN 0 ELSE Max(ToSet(versions))

Acceptable == Len(versions) = 1 /\ minimum >= 1 /\ maximum =< currentSchemaVersion

RefuseVersion(o) ==
    /\ pc[o] = "version"
    /\ ~Acceptable
    /\ Fail(o) /\ UNCHANGED failures

AcceptVersion(o) ==
    /\ pc[o] = "version"
    /\ Acceptable
    /\ Goto(o, IF maximum = currentSchemaVersion THEN "require" ELSE "begin")
    /\ ReadOnly /\ UNCHANGED <<line, failures>>

requireColumn(o) ==
    /\ pc[o] = "require"
    /\ \/ column /\ Goto(o, "ready") /\ ReadOnly /\ UNCHANGED line
       \/ ~column /\ Fail(o)
    /\ UNCHANGED failures

\* The transaction begins and inspects the columns.
BeginMigration(o) ==
    /\ pc[o] = "begin"
    /\ Goto(o, "commit")
    /\ snapshots' = snapshots \cup {o}
    /\ UNCHANGED <<db, line, failures>>

\* Mutant: last_used_at is set from created_at for every row, every time.
MigrateOverwriting(o) ==
    /\ pc[o] = "commit"
    /\ o \in snapshots
    /\ column' = TRUE
    /\ lastUsed' = [c \in DOMAIN lastUsed |-> "created"]
    /\ versions' = [i \in DOMAIN versions |->
                      IF versions[i] = 1 THEN currentSchemaVersion ELSE versions[i]]
    /\ UNCHANGED <<tables, indexes, line, failures>>
    /\ snapshots' = IF db' = db THEN snapshots \ {o} ELSE {}
    /\ Goto(o, "ready")

\* Mutant: the new column is not filled.
MigrateWithoutBackfill(o) ==
    /\ pc[o] = "commit"
    /\ o \in snapshots
    /\ column' = TRUE
    /\ versions' = [i \in DOMAIN versions |->
                      IF versions[i] = 1 THEN currentSchemaVersion ELSE versions[i]]
    /\ UNCHANGED <<tables, indexes, lastUsed, line, failures>>
    /\ snapshots' = IF db' = db THEN snapshots \ {o} ELSE {}
    /\ Goto(o, "ready")

\* ALTER TABLE and the backfill if the column is missing, then the version.
CommitMigration(o) ==
    /\ pc[o] = "commit"
    /\ o \in snapshots
    /\ column' = TRUE
    /\ lastUsed' = [c \in DOMAIN lastUsed |->
                      IF ~column /\ lastUsed[c] = "null" THEN "created" ELSE lastUsed[c]]
    /\ versions' = [i \in DOMAIN versions |->
                      IF versions[i] = 1 THEN currentSchemaVersion ELSE versions[i]]
    /\ UNCHANGED <<tables, indexes, line, failures>>
    /\ snapshots' = IF db' = db THEN snapshots \ {o} ELSE {}
    /\ Goto(o, "ready")

\* Another process has written since the transaction read: SQLite refuses.
LoseSnapshot(o) ==
    /\ pc[o] = "commit"
    /\ o \notin snapshots
    /\ Fail(o) /\ UNCHANGED failures

-----------------------------------------------------------------------------
\* A process is started, or restarted after its Open failed.
Start(o) ==
    /\ pc[o] = "down"
    /\ Goto(o, "script")
    /\ line' = [line EXCEPT ![o] = 1]
    /\ ReadOnly /\ UNCHANGED failures

\* A process dies, is shut down, or one of its statements fails.
Stop(o) ==
    /\ pc[o] # "down"
    /\ failures < MaxFailures
    /\ failures' = failures + 1
    /\ Fail(o)

\* RegisterClient and TouchClient of a process that has opened the store; a
\* registration may also evict idle clients (which ones: see OAuthStore).
UseClient(o) ==
    /\ pc[o] = "ready"
    /\ \E c \in Clients, kept \in SUBSET DOMAIN lastUsed :
         lastUsed' = [d \in kept \cup {c} |->
                        IF d = c THEN "used" ELSE lastUsed[d]]
    /\ UNCHANGED <<tables, indexes, versions, column, pc, line, failures>>
    /\ Commit

Open(o) ==
    \/ Start(o)
    \/ CreateTable(o) \/ SeedVersion(o) \/ DropIndex(o) \/ CreateIndex(o)
    \/ IndexExists(o)
    \/ RefuseVersion(o) \/ AcceptVersion(o) \/ requireColumn(o)
    \/ BeginMigration(o) \/ CommitMigration(o) \/ LoseSnapshot(o)

Next == \E o \in Openers : Open(o) \/ Stop(o) \/ UseClient(o)

\* Open is straight-line code, and a process that fails to open is started
\* again.
Spec == Init /\ [][Next]_vars /\ \A o \in Openers : WF_vars(Open(o))

-----------------------------------------------------------------------------
\* A store that Open has returned is at the current version with all its
\* tables, and every client has a time of last use, whatever state the file
\* was in and however many opens were interrupted before (configure, migrate).
OpenMeansMigrated ==
    (\E o \in Openers : pc[o] = "ready") =>
        /\ versions = <<currentSchemaVersion>>
        /\ tables = Tables
        /\ column
        /\ \A c \in DOMAIN lastUsed : lastUsed[c] # "null"

\* Opening never loses a client and never overwrites the time of a real use,
\* not even by a process that still believes the database to be version 1
\* (migrate: "safe to run repeatedly").
ActivityKept ==
    [][\A o \in Openers : pc'[o] # pc[o] \/ line'[o] # line[o] =>
         \A c \in DOMAIN lastUsed :
           /\ c \in DOMAIN lastUsed'
           /\ lastUsed[c] = "used" => lastUsed'[c] = "used"]_vars

Upgradable ==
    \/ versions \in {<<>>, <<1>>}
    \/ versions = <<2>> /\ column

\* A database that Open refuses keeps its version rows and its clients: the
\* script that runs before the version is read must not touch them.
RefusedDatabaseUntouched ==
    [][~Upgradable => UNCHANGED <<versions, column, lastUsed>>]_vars

\* Two processes are in the middle of Open.
Contended ==
    \E o, p \in Openers : o # p /\ {pc[o], pc[p]} \cap {"down", "ready"} = {}

\* A database that can be upgraded is eventually open in every process, unless
\* processes keep opening it at the same time for ever: neither an interrupted
\* open nor one that was overtaken leaves anything behind that makes the next
\* one fail (DROP INDEX before CREATE INDEX, IF NOT EXISTS, one transaction).
EventuallyOpen ==
    <>[]~Contended => (Upgradable ~> \A o \in Openers : pc[o] = "ready")
=============================================================================
