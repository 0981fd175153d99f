---------------------------- MODULE SchemaProofs ----------------------------
(***************************************************************************)
(* Opening the database, for any number of processes, clients and          *)
(* interruptions: a store that is open is migrated, no time of use is lost *)
(* and a database that migrate refuses stays as it was.                    *)
(***************************************************************************)
EXTENDS SchemaMigration, TLAPS

\* The rows that oauth_schema_version holds, from the databases of Init on.
Known == {<<>>, <<0>>, << 1 >>, << 2 >>, <<3>>, <<1, 2>>}

LEMMA ScriptLines ==
    /\ Len(Script) = 13
    /\ \A n \in 1 .. 13 :
         /\ Script[n][1] = IF n \in {1, 3, 4, 5, 6, 7} THEN "table"
                           ELSE IF n = 2 THEN "seed" ELSE IF n < 11 THEN "drop"
                           ELSE "index"
         /\ n \in {1, 2} => Script[n][2] = "schema_version"
         /\ n = 3 => Script[n][2] = "clients"
         /\ n \in {4, 8, 11} => Script[n][2] = "authorizations"
         /\ n \in {5, 9, 12} => Script[n][2] = "consents"
         /\ n \in {6, 10, 13} => Script[n][2] = "codes"
         /\ n = 7 => Script[n][2] = "refresh_grants"
BY DEF Script

\* migrate accepts exactly one row, 1 or 2.
LEMMA AcceptableVersions ==
    ASSUME versions \in Known
    PROVE  /\ Acceptable => versions \in {<< 1 >>, << 2 >>}
           /\ versions = << 1 >> => maximum # currentSchemaVersion
           /\ versions = << 2 >> => maximum = currentSchemaVersion
<1>1. ASSUME NEW n \in Nat PROVE Min({n}) = n /\ Max({n}) = n
  BY DEF Min, Max
<1>2. ASSUME NEW n \in Nat, versions = <<n>>
      PROVE  minimum = n /\ maximum = n
  <2>1. ToSet(versions) = {n}
    BY <1>2 DEF ToSet
  <2>2. versions # <<>>
    BY <1>2
  <2> QED BY <1>1, <2>1, <2>2 DEF minimum, maximum
<1>3. ~(Acceptable /\ versions \in {<<>>, <<1, 2>>})
  BY DEF Acceptable
<1>4. versions = <<0>> => ~Acceptable
  BY <1>2 DEF Acceptable
<1>5. versions = <<3>> => ~Acceptable
  BY <1>2 DEF Acceptable, currentSchemaVersion
<1>6. versions = << 1 >> => maximum # currentSchemaVersion
  BY <1>2 DEF currentSchemaVersion
<1>7. versions = << 2 >> => maximum = currentSchemaVersion
  BY <1>2 DEF currentSchemaVersion
<1> QED BY <1>3, <1>4, <1>5, <1>6, <1>7 DEF Known

\* The UPDATE of the migration.
LEMMA Bumped ==
    ASSUME versions \in {<< 1 >>, << 2 >>}
    PROVE  [i \in DOMAIN versions |->
               IF versions[i] = 1 THEN currentSchemaVersion ELSE versions[i]] = << 2 >>
BY DEF currentSchemaVersion

LEMMA KnownVersions == Known \subseteq BoundedSeq(0 .. 3, 2)
BY DEF Known, BoundedSeq, SeqOf

-----------------------------------------------------------------------------
\* The tables that the script has created before line n.
Created(n) ==
    {t \in Tables : \/ t = "schema_version" /\ n > 1
                    \/ t = "clients" /\ n > 3
                    \/ t = "authorizations" /\ n > 4
                    \/ t = "consents" /\ n > 5
                    \/ t = "codes" /\ n > 6
                    \/ t = "refresh_grants" /\ n > 7}

\* What a process may rely on, wherever it is in Open and whatever the others
\* have done meanwhile.
Reached(o) ==
    /\ pc[o] = "script" => /\ Created(line[o]) \subseteq tables
                           /\ line[o] > 2 => versions # <<>>
    /\ pc[o] \in {"version", "require", "begin", "commit", "ready"} =>
          tables = Tables /\ versions # <<>>
    /\ pc[o] = "require" => versions = << 2 >>
    /\ pc[o] \in {"begin", "commit"} => versions = << 1 >> \/ (versions = << 2 >> /\ column)
    /\ pc[o] = "ready" => versions = << 2 >> /\ column

\* A column that exists is filled, rows need a table, and a database that
\* migrate will refuse has all its tables.
Opening ==
    /\ versions \in Known
    /\ \A o \in Openers : Reached(o)
    /\ column => \A c \in DOMAIN lastUsed : lastUsed[c] # "null"
    /\ "clients" \notin tables => DOMAIN lastUsed = {}
    /\ ~Upgradable => tables = Tables

\* The positions in Open.
Labels == {"down", "script", "version", "require", "begin", "commit", "ready"}

LEMMA OpeningInitial == Init => SchemaTypeOK /\ Opening
<1> SUFFICES ASSUME Init PROVE SchemaTypeOK /\ Opening
  OBVIOUS
<1>1. versions \in Known
  BY DEF Init, Fresh, Legacy, Current, Unsupported, Known
<1>2. /\ DOMAIN lastUsed \subseteq Clients /\ lastUsed \in [DOMAIN lastUsed -> Activity]
      /\ column => \A c \in DOMAIN lastUsed : lastUsed[c] # "null"
      /\ "clients" \notin tables => DOMAIN lastUsed = {}
  BY DEF Init, Fresh, Legacy, Current, Unsupported, NoRows, Activity, Tables
<1>3. ~Upgradable => tables = Tables
  BY DEF Init, Fresh, Legacy, Current, Unsupported, Upgradable
<1>4. tables \subseteq Tables /\ indexes \subseteq ExpiryIndexes /\ column \in BOOLEAN
  BY DEF Init, Fresh, Legacy, Current, Unsupported, Tables, ExpiryIndexes
<1>5. /\ pc \in [Openers -> Labels] /\ line \in [Openers -> 1 .. 13]
      /\ snapshots \subseteq Openers /\ failures \in 0 .. MaxFailures
      /\ \A o \in Openers : pc[o] = "down"
  BY OpenersAssumption DEF Init, Labels
<1> QED BY <1>1, <1>2, <1>3, <1>4, <1>5, KnownVersions
        DEF SchemaTypeOK, Opening, Reached, Labels

\* The database of the next state: the version rows change only from none to 1
\* and from 1 to 2, and neither a table nor the column is ever dropped.
Upgraded ==
    /\ versions' \in Known
    /\ versions' = versions \/ (versions = <<>> /\ versions' = << 1 >>)
                            \/ (versions = << 1 >> /\ versions' = << 2 >> /\ column')
    /\ tables \subseteq tables' /\ tables' \subseteq Tables
    /\ column => column'

\* Such a step leaves what the other processes rely on.
LEMMA OthersReached ==
    ASSUME Upgraded, NEW p \in Openers, Reached(p), versions \in Known,
           pc'[p] = pc[p], line'[p] = line[p]
    PROVE  Reached(p)'
<1>1. versions # <<>> => versions' # <<>>
  BY DEF Upgraded
<1>2. versions = << 2 >> => versions' = << 2 >>
  BY DEF Upgraded
<1>3. versions = << 1 >> => versions' = << 1 >> \/ (versions' = << 2 >> /\ column')
  BY DEF Upgraded
<1>4. tables = Tables => tables' = Tables
  BY DEF Upgraded
<1>5. tables \subseteq tables' /\ (column => column')
  BY DEF Upgraded
<1> QED BY <1>1, <1>2, <1>3, <1>4, <1>5 DEF Reached, Created

-----------------------------------------------------------------------------
\* Where a statement leaves its process: on the next line, or past the script.
LEMMA Advanced ==
    ASSUME SchemaTypeOK, NEW o \in Openers, pc[o] = "script", Advance(o)
    PROVE  /\ pc' \in [Openers -> Labels] /\ line' \in [Openers -> 1 .. 13]
           /\ \A p \in Openers \ {o} : pc'[p] = pc[p] /\ line'[p] = line[p]
           /\ \/ pc'[o] = "script" /\ line'[o] = line[o] + 1
              \/ pc'[o] = "version" /\ line[o] = 13
<1> USE DEF SchemaTypeOK, Labels
<1>1. CASE line[o] < 13
  <2>1. line' = [line EXCEPT ![o] = @ + 1] /\ pc' = pc
    BY <1>1, ScriptLines DEF Advance
  <2> QED BY <1>1, <2>1
<1>2. CASE ~(line[o] < 13)
  <2>1. line' = line /\ pc' = [pc EXCEPT ![o] = "version"]
    BY <1>2, ScriptLines DEF Advance, Goto
  <2> QED BY <1>2, <2>1
<1> QED BY <1>1, <1>2

\* The part of Opening that is about the database.
Filled ==
    /\ column => \A c \in DOMAIN lastUsed : lastUsed[c] # "null"
    /\ "clients" \notin tables => DOMAIN lastUsed = {}
    /\ ~Upgradable => tables = Tables

Refused == ~Upgradable => UNCHANGED <<versions, column, lastUsed>>

LEMMA Committed ==
    ASSUME SchemaTypeOK, Commit PROVE (snapshots \subseteq Openers)'
BY DEF SchemaTypeOK, Commit

LEMMA CreateTableStep ==
    ASSUME SchemaTypeOK, Opening, NEW o \in Openers, CreateTable(o)
    PROVE  SchemaTypeOK' /\ Upgraded /\ Filled' /\ Refused /\ Reached(o)'
           /\ \A p \in Openers \ {o} : pc'[p] = pc[p] /\ line'[p] = line[p]
<1>1. /\ pc[o] = "script" /\ line[o] \in 1 .. 13 /\ Script[line[o]][1] = "table"
      /\ tables' = tables \cup {Script[line[o]][2]}
      /\ column' = (column \/ (Script[line[o]][2] = "clients" /\ "clients" \notin tables))
      /\ UNCHANGED <<indexes, versions, lastUsed, failures>>
      /\ Commit /\ Advance(o)
  BY DEF CreateTable, Runs, Target, SchemaTypeOK
<1>2. line[o] \in {1, 3, 4, 5, 6, 7} /\ Script[line[o]][2] \in Tables
      /\ Created(line[o] + 1) \subseteq Created(line[o]) \cup {Script[line[o]][2]}
  BY <1>1, ScriptLines DEF Tables, Created
<1>3. /\ pc' \in [Openers -> Labels] /\ line' \in [Openers -> 1 .. 13]
      /\ \A p \in Openers \ {o} : pc'[p] = pc[p] /\ line'[p] = line[p]
      /\ pc'[o] = "script" /\ line'[o] = line[o] + 1
  BY <1>1, <1>2, Advanced
<1>4. column' \in BOOLEAN /\ tables' \subseteq Tables /\ (snapshots \subseteq Openers)'
  BY <1>1, <1>2, Committed DEF SchemaTypeOK
<1>5. SchemaTypeOK'
  BY <1>1, <1>3, <1>4 DEF SchemaTypeOK, Labels
<1>6. Upgraded
  BY <1>1, <1>4 DEF Upgraded, Opening
<1>7. Created(line[o]) \subseteq tables /\ (line[o] > 2 => versions # <<>>)
  BY <1>1 DEF Opening, Reached
<1>8. Reached(o)'
  BY <1>1, <1>2, <1>3, <1>7 DEF Reached
<1>9. Refused
  <2>1. ~Upgradable => "clients" \in tables
    BY DEF Opening, Tables
  <2>2. "clients" \in tables => column' = column
    BY <1>1 DEF SchemaTypeOK
  <2> QED BY <1>1, <2>1, <2>2 DEF Refused
<1>10. Filled'
  BY <1>1, <1>4 DEF Opening, Filled, Upgradable
<1> QED BY <1>3, <1>5, <1>6, <1>8, <1>9, <1>10

LEMMA SeedVersionStep ==
    ASSUME SchemaTypeOK, Opening, NEW o \in Openers, SeedVersion(o)
    PROVE  SchemaTypeOK' /\ Upgraded /\ Filled' /\ Refused /\ Reached(o)'
           /\ \A p \in Openers \ {o} : pc'[p] = pc[p] /\ line'[p] = line[p]
<1>1. /\ pc[o] = "script" /\ line[o] \in 1 .. 13 /\ Script[line[o]][1] = "seed"
      /\ versions' = IF versions = <<>> THEN << 1 >> ELSE versions
      /\ UNCHANGED <<tables, indexes, column, lastUsed, failures>>
      /\ Commit /\ Advance(o)
  BY DEF SeedVersion, Runs, SchemaTypeOK
<1>2. line[o] = 2
  BY <1>1, ScriptLines
<1>3. /\ pc' \in [Openers -> Labels] /\ line' \in [Openers -> 1 .. 13]
      /\ \A p \in Openers \ {o} : pc'[p] = pc[p] /\ line'[p] = line[p]
      /\ pc'[o] = "script" /\ line'[o] = 3
  BY <1>1, <1>2, Advanced
<1>4. versions' \in Known /\ versions' # <<>>
  BY <1>1 DEF Opening, Known
<1>5. SchemaTypeOK'
  BY <1>1, <1>3, <1>4, Committed, KnownVersions DEF SchemaTypeOK, Labels
<1>6. Upgraded
  BY <1>1, <1>4 DEF Upgraded, Opening, SchemaTypeOK
<1>7. Created(2) \subseteq tables /\ Created(3) \subseteq Created(2)
  BY <1>1, <1>2 DEF Opening, Reached, Created
<1>8. Reached(o)'
  BY <1>1, <1>3, <1>4, <1>7 DEF Reached
<1>9. Refused
  BY <1>1 DEF Refused, Upgradable
<1>10. Filled'
  BY <1>1 DEF Opening, Filled, Upgradable
<1> QED BY <1>3, <1>5, <1>6, <1>8, <1>9, <1>10

LEMMA IndexStep ==
    ASSUME SchemaTypeOK, Opening, NEW o \in Openers, DropIndex(o) \/ CreateIndex(o)
    PROVE  SchemaTypeOK' /\ Upgraded /\ Filled' /\ Refused /\ Reached(o)'
           /\ \A p \in Openers \ {o} : pc'[p] = pc[p] /\ line'[p] = line[p]
<1>1. /\ pc[o] = "script" /\ line[o] \in 1 .. 13 /\ Script[line[o]][1] \in {"drop", "index"}
      /\ indexes' \subseteq indexes \cup {Script[line[o]][2]}
      /\ UNCHANGED <<tables, versions, column, lastUsed, failures>>
      /\ Commit /\ Advance(o)
  BY DEF DropIndex, CreateIndex, Runs, Target, SchemaTypeOK
<1>2. line[o] \in 8 .. 13 /\ Script[line[o]][2] \in ExpiryIndexes
  BY <1>1, ScriptLines DEF ExpiryIndexes
<1>3. /\ pc' \in [Openers -> Labels] /\ line' \in [Openers -> 1 .. 13]
      /\ \A p \in Openers \ {o} : pc'[p] = pc[p] /\ line'[p] = line[p]
      /\ \/ pc'[o] = "script" /\ line'[o] = line[o] + 1
         \/ pc'[o] = "version"
  BY <1>1, Advanced
<1>4. indexes' \subseteq ExpiryIndexes
  BY <1>1, <1>2 DEF SchemaTypeOK
<1>5. SchemaTypeOK'
  BY <1>1, <1>3, <1>4, Committed DEF SchemaTypeOK, Labels
<1>6. Upgraded
  BY <1>1 DEF Upgraded, Opening, SchemaTypeOK
<1>7. tables = Tables /\ versions # <<>>
  <2>1. Created(line[o]) \subseteq tables /\ versions # <<>>
    BY <1>1, <1>2 DEF Opening, Reached
  <2>2. Tables \subseteq Created(line[o])
    BY <1>2 DEF Created, Tables
  <2> QED BY <2>1, <2>2 DEF SchemaTypeOK
<1>8. Reached(o)'
  BY <1>1, <1>3, <1>7 DEF Reached, Created
<1>9. Refused /\ Filled'
  BY <1>1 DEF Opening, Filled, Refused, Upgradable
<1> QED BY <1>3, <1>5, <1>6, <1>8, <1>9

\* The steps that only read, and the ones that end Open with an error.
LEMMA ReadStep ==
    ASSUME SchemaTypeOK, Opening, NEW o \in Openers,
           Start(o) \/ IndexExists(o) \/ RefuseVersion(o) \/ AcceptVersion(o)
           \/ requireColumn(o) \/ BeginMigration(o) \/ LoseSnapshot(o) \/ Stop(o)
    PROVE  SchemaTypeOK' /\ Upgraded /\ Filled' /\ Refused /\ Reached(o)'
           /\ \A p \in Openers \ {o} : pc'[p] = pc[p] /\ line'[p] = line[p]
<1>1. UNCHANGED <<tables, indexes, versions, column, lastUsed>>
  BY DEF Start, IndexExists, RefuseVersion, AcceptVersion, requireColumn, BeginMigration,
         LoseSnapshot, Stop, Fail, ReadOnly, db
<1>2. PICK label \in Labels : pc' = [pc EXCEPT ![o] = label]
  BY DEF Start, IndexExists, RefuseVersion, AcceptVersion, requireColumn, BeginMigration,
         LoseSnapshot, Stop, Fail, Goto, Labels
<1>3. line' = line \/ (line' = [line EXCEPT ![o] = 1] /\ pc'[o] = "script")
  BY DEF Start, IndexExists, RefuseVersion, AcceptVersion, requireColumn, BeginMigration,
         LoseSnapshot, Stop, Fail, Goto, SchemaTypeOK
<1>4. failures' \in 0 .. MaxFailures /\ (snapshots \subseteq Openers)'
  BY OpenersAssumption
  DEF Start, IndexExists, RefuseVersion, AcceptVersion, requireColumn, BeginMigration,
      LoseSnapshot, Stop, Fail, ReadOnly, SchemaTypeOK
<1>5. line' \in [Openers -> 1 .. 13]
  BY <1>3 DEF SchemaTypeOK
<1>6. SchemaTypeOK'
  BY <1>1, <1>2, <1>4, <1>5 DEF SchemaTypeOK, Labels
<1>7. Upgraded /\ Refused /\ Filled'
  BY <1>1 DEF Upgraded, Opening, SchemaTypeOK, Refused, Filled, Upgradable
<1>8. \A p \in Openers \ {o} : pc'[p] = pc[p] /\ line'[p] = line[p]
  BY <1>2, <1>3 DEF SchemaTypeOK
<1>9. Reached(o)'
  <2>1. CASE Start(o)
    <3>1. pc'[o] = "script" /\ line'[o] = 1
      BY <2>1 DEF Start, Goto, SchemaTypeOK
    <3> QED BY <1>1, <3>1 DEF Reached, Created
  <2>2. CASE IndexExists(o) \/ RefuseVersion(o) \/ LoseSnapshot(o) \/ Stop(o)
    <3>1. pc'[o] = "down"
      BY <2>2 DEF IndexExists, RefuseVersion, LoseSnapshot, Stop, Fail, Goto, SchemaTypeOK
    <3> QED BY <3>1 DEF Reached
  <2>3. CASE AcceptVersion(o)
    <3>1. /\ pc[o] = "version" /\ Acceptable
          /\ pc'[o] = IF maximum = currentSchemaVersion THEN "require" ELSE "begin"
      BY <2>3 DEF AcceptVersion, Goto, SchemaTypeOK
    <3>2. tables = Tables /\ versions # <<>>
      BY <3>1 DEF Opening, Reached
    <3>3. /\ versions \in {<< 1 >>, << 2 >>}
          /\ pc'[o] = IF versions = << 2 >> THEN "require" ELSE "begin"
      BY <3>1, AcceptableVersions DEF Opening
    <3> QED BY <1>1, <3>2, <3>3 DEF Reached
  <2>4. CASE requireColumn(o)
    <3>1. pc[o] = "require" /\ pc'[o] \in {"ready", "down"} /\ (pc'[o] = "ready" => column)
      BY <2>4 DEF requireColumn, Goto, Fail, SchemaTypeOK
    <3> QED BY <1>1, <3>1 DEF Opening, Reached
  <2>5. CASE BeginMigration(o)
    <3>1. pc[o] = "begin" /\ pc'[o] = "commit"
      BY <2>5 DEF BeginMigration, Goto, SchemaTypeOK
    <3> QED BY <1>1, <3>1 DEF Opening, Reached
  <2> QED BY <2>1, <2>2, <2>3, <2>4, <2>5
<1> QED BY <1>6, <1>7, <1>8, <1>9

\* The transaction of the migration: it fills the column it adds and leaves the
\* times that are there.
LEMMA CommitMigrationStep ==
    ASSUME SchemaTypeOK, Opening, NEW o \in Openers, CommitMigration(o)
    PROVE  SchemaTypeOK' /\ Upgraded /\ Filled' /\ Refused /\ Reached(o)'
           /\ \A p \in Openers \ {o} : pc'[p] = pc[p] /\ line'[p] = line[p]
<1>1. /\ pc[o] = "commit" /\ column' = TRUE
      /\ lastUsed' = [c \in DOMAIN lastUsed |->
                        IF ~column /\ lastUsed[c] = "null" THEN "created" ELSE lastUsed[c]]
      /\ versions' = [i \in DOMAIN versions |->
                        IF versions[i] = 1 THEN currentSchemaVersion ELSE versions[i]]
      /\ UNCHANGED <<tables, indexes, line, failures>>
      /\ snapshots' = IF db' = db THEN snapshots \ {o} ELSE {}
      /\ pc' = [pc EXCEPT ![o] = "ready"]
  BY DEF CommitMigration, Goto
<1>2. tables = Tables /\ (versions = << 1 >> \/ (versions = << 2 >> /\ column))
  BY <1>1 DEF Opening, Reached
<1>3. versions' = << 2 >>
  BY <1>1, <1>2, Bumped
<1>4. /\ DOMAIN lastUsed' = DOMAIN lastUsed /\ DOMAIN lastUsed \subseteq Clients
      /\ lastUsed \in [DOMAIN lastUsed -> Activity]
  BY <1>1 DEF SchemaTypeOK
<1>5. /\ lastUsed' \in [DOMAIN lastUsed' -> Activity]
      /\ \A c \in DOMAIN lastUsed' : lastUsed'[c] # "null"
  BY <1>1, <1>4 DEF Activity, Opening
<1>6. /\ pc' \in [Openers -> Labels] /\ pc'[o] = "ready"
      /\ \A p \in Openers \ {o} : pc'[p] = pc[p] /\ line'[p] = line[p]
  BY <1>1 DEF SchemaTypeOK, Labels
<1>7. versions' \in Known /\ (snapshots \subseteq Openers)'
  BY <1>1, <1>3 DEF Known, SchemaTypeOK
<1>8. SchemaTypeOK'
  BY <1>1, <1>4, <1>5, <1>6, <1>7, KnownVersions DEF SchemaTypeOK, Labels
<1>9. Upgraded
  BY <1>1, <1>2, <1>3, <1>7 DEF Upgraded
<1>10. Reached(o)'
  <2>1. versions' # <<>>
    BY <1>3
  <2>2. tables' = Tables
    BY <1>1, <1>2
  <2>3. column'
    BY <1>1
  <2> QED BY <1>3, <1>6, <2>1, <2>2, <2>3 DEF Reached
<1>11. Refused
  BY <1>2 DEF Refused, Upgradable
<1>12. Filled'
  BY <1>1, <1>2, <1>5 DEF Filled, Tables
<1> QED BY <1>6, <1>8, <1>9, <1>10, <1>11, <1>12

LEMMA UseClientStep ==
    ASSUME SchemaTypeOK, Opening, NEW o \in Openers, UseClient(o)
    PROVE  SchemaTypeOK' /\ Upgraded /\ Filled' /\ Refused
           /\ \A p \in Openers : pc'[p] = pc[p] /\ line'[p] = line[p]
<1>1. PICK c \in Clients, kept \in SUBSET DOMAIN lastUsed :
        lastUsed' = [d \in kept \cup {c} |-> IF d = c THEN "used" ELSE lastUsed[d]]
  BY DEF UseClient
<1>2. /\ pc[o] = "ready" /\ Commit
      /\ UNCHANGED <<tables, indexes, versions, column, pc, line, failures>>
  BY DEF UseClient
<1>3. tables = Tables /\ versions = << 2 >> /\ column
  BY <1>2 DEF Opening, Reached
<1>4. /\ DOMAIN lastUsed' = kept \cup {c} /\ DOMAIN lastUsed \subseteq Clients
      /\ lastUsed \in [DOMAIN lastUsed -> Activity]
      /\ \A d \in DOMAIN lastUsed : lastUsed[d] # "null"
  BY <1>1, <1>3 DEF SchemaTypeOK, Opening
<1>5. /\ lastUsed' \in [DOMAIN lastUsed' -> Activity]
      /\ \A d \in DOMAIN lastUsed' : lastUsed'[d] # "null"
  BY <1>1, <1>4 DEF Activity
<1>6. DOMAIN lastUsed' \subseteq Clients
  BY <1>4
<1>7. SchemaTypeOK'
  BY <1>2, <1>5, <1>6, Committed DEF SchemaTypeOK
<1>8. Upgraded
  BY <1>2 DEF Upgraded, Opening, SchemaTypeOK
<1>9. Refused /\ Filled'
  BY <1>2, <1>3, <1>5 DEF Refused, Filled, Upgradable, Tables
<1> QED BY <1>2, <1>7, <1>8, <1>9

-----------------------------------------------------------------------------
LEMMA OpeningStep ==
    ASSUME SchemaTypeOK, Opening, [Next]_vars
    PROVE  SchemaTypeOK' /\ Opening' /\ Refused
<1>1. CASE UNCHANGED vars
  BY <1>1 DEF vars, SchemaTypeOK, Opening, Reached, Upgradable, Refused
<1>2. ASSUME NEW o \in Openers, Open(o) \/ Stop(o)
      PROVE  SchemaTypeOK' /\ Opening' /\ Refused
  <2>1. SchemaTypeOK' /\ Upgraded /\ Filled' /\ Refused /\ Reached(o)'
        /\ \A p \in Openers \ {o} : pc'[p] = pc[p] /\ line'[p] = line[p]
    BY <1>2, CreateTableStep, SeedVersionStep, IndexStep, ReadStep, CommitMigrationStep
       DEF Open
  <2>2. \A p \in Openers : Reached(p)'
    BY <2>1, OthersReached DEF Opening
  <2> QED BY <2>1, <2>2 DEF Opening, Filled, Upgraded
<1>3. ASSUME NEW o \in Openers, UseClient(o) PROVE SchemaTypeOK' /\ Opening' /\ Refused
  <2>1. SchemaTypeOK' /\ Upgraded /\ Filled' /\ Refused
        /\ \A p \in Openers : pc'[p] = pc[p] /\ line'[p] = line[p]
    BY <1>3, UseClientStep
  <2>2. \A p \in Openers : Reached(p)'
    BY <2>1, OthersReached DEF Opening
  <2> QED BY <2>1, <2>2 DEF Opening, Filled, Upgraded
<1> QED BY <1>1, <1>2, <1>3 DEF Next

LEMMA OpeningCorrect == Spec => [](SchemaTypeOK /\ Opening)
<1>1. SchemaTypeOK /\ Opening /\ [Next]_vars => (SchemaTypeOK /\ Opening)'
  BY OpeningStep
<1> QED BY <1>1, OpeningInitial, PTL DEF Spec

\* The database and every process in Open stay within the schema that configure
\* and migrate know, whatever they find.
THEOREM SchemaTypeCorrect == Spec => []SchemaTypeOK
BY OpeningCorrect, PTL

\* For any number of processes opening the file at once and stopped anywhere, a
\* store that Open returned is migrated, complete and filled.
THEOREM OpenMeansMigratedCorrect == Spec => []OpenMeansMigrated
<1>1. Opening => OpenMeansMigrated
  BY DEF Opening, Reached, OpenMeansMigrated, currentSchemaVersion
<1> QED BY <1>1, OpeningCorrect, PTL

\* No step of Open drops a client or overwrites the time of a real use.
THEOREM ActivityKeptCorrect == Spec => ActivityKept
<1> DEFINE Keeps == \A o \in Openers : pc'[o] # pc[o] \/ line'[o] # line[o] =>
                       \A c \in DOMAIN lastUsed :
                         /\ c \in DOMAIN lastUsed'
                         /\ lastUsed[c] = "used" => lastUsed'[c] = "used"
<1>1. ASSUME NEW o \in Openers, Open(o) \/ Stop(o)
      PROVE  lastUsed' = lastUsed \/ CommitMigration(o)
  BY <1>1 DEF Open, Stop, Start, CreateTable, SeedVersion, DropIndex, CreateIndex,
              IndexExists, RefuseVersion, AcceptVersion, requireColumn, BeginMigration,
              LoseSnapshot, Fail, ReadOnly, db
<1>2. ASSUME NEW o \in Openers, CommitMigration(o) PROVE Keeps
  BY <1>2 DEF CommitMigration
<1>3. ASSUME NEW o \in Openers, UseClient(o) PROVE Keeps
  BY <1>3 DEF UseClient
<1>4. [Next]_vars => [Keeps]_vars
  BY <1>1, <1>2, <1>3 DEF Next
<1> QED BY <1>4, PTL DEF Spec, ActivityKept

\* The script that runs before the version is checked, and every later step,
\* leave the version rows and the clients of a database that is refused.
THEOREM RefusedDatabaseUntouchedCorrect == Spec => RefusedDatabaseUntouched
<1>1. SchemaTypeOK /\ Opening /\ [Next]_vars => [Refused]_vars
  BY OpeningStep
<1> QED BY <1>1, OpeningCorrect, PTL DEF Spec, RefusedDatabaseUntouched, Refused
=============================================================================
