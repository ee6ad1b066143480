---------------------------- MODULE MigrationRunner ----------------------------
(***************************************************************************)
(* The upgrade of the database on every start of the server: the runner of *)
(* src/server/util/migrationRunner.js over src/server/migrations, none of  *)
(* it in a transaction.  The process may be killed between any two         *)
(* statements, and a statement that rewrites too many rows never commits;  *)
(* the next start runs the interrupted migration again from its beginning. *)
(*                                                                         *)
(* A migration adds objects to the schema - tables, columns, indexes,      *)
(* widened types - and 0013 also moves data: it folds the legacy keys of   *)
(* the config table into a first target and gives the history to it.  One  *)
(* step is one statement that writes, with the reads it is decided by:     *)
(* nothing else has the database open, the API is not up yet.              *)
(***************************************************************************)
EXTENDS Naturals, Sequences, FiniteSets

CONSTANTS
    MaxRows,              \* the history has at most so many rows
    MaxCrashes,           \* how often the process is killed in one behaviour
    StatementRows,        \* a statement that rewrites more rows is cut off
    BACKFILL_CHUNK_ROWS

ASSUME MigrationAssumption ==
    /\ MaxRows \in Nat /\ MaxCrashes \in Nat
    /\ StatementRows \in Nat /\ BACKFILL_CHUNK_ROWS \in Nat \ {0}
    /\ BACKFILL_CHUNK_ROWS <= StatementRows

VARIABLES
    recorded,  \* SequelizeMeta: the numbers of the migrations that are done
    schema,    \* the objects the database has
    legacy,    \* whether the config table still holds a chosen provider
    targets,   \* the ids of the rows of the targets table
    history,   \* the targetId of every past speedtest; 0 is NULL
    dialect,
    chosen,    \* whether a provider had been chosen before the upgrade
    pc,        \* where the start-up is; "down" is a process that is not running
    at,        \* the migration it has come to
    step,      \* the object of that migration it has come to
    crashes

database == <<recorded, schema, legacy, targets, history>>
origin == <<dialect, chosen>>
control == <<pc, at, step>>
vars == <<database, origin, control, crashes>>

(* What each migration adds, in its order.                                 *)
InitialSetup == <<"speedtests", "config", "nodes", "recommendations", "integration_data">>
AddJitterColumn == <<"jitter">>
AddServerNameHostColumns == <<"serverName", "serverHost">>
IndexSpeedtestsCreated == <<"speedtests_created">>
AddQualityColumns == <<"packetLoss", "downloadLatency", "uploadLatency">>
AddConnectionIdentityColumns == <<"isp", "externalIp">>
WidenSpeedtestError == <<"error_TEXT">>
AddProviderColumn == <<"provider">>
AddTransferColumns == <<"bytesDownloaded", "bytesUploaded">>
WidenSpeedtestPing == <<"ping_DOUBLE">>
AddServerLocationColumn == <<"serverLocation">>
WidenRecommendationPing == <<"recommendations_ping_DOUBLE">>
AddTargets == <<"targets", "targetId", "speedtests_target_created">>
IndexSpeedtestsTarget == <<"speedtests_target_created">>
AddTargetTuning == <<"iperfDuration", "iperfStreams">>
AddTargetUdp == <<"iperfUdp", "iperfBitrate">>
AddBaselinePercent == <<"baselinePercent">>
AddHopsColumn == <<"hops">>
AddApiTokens == <<"api_tokens", "api_tokens_digest_unique">>
AddConnectionChanges == <<"connection_changes", "connection_changes_created">>
AddTargetOstSkipCertificateVerification == <<"ostSkipCertificateVerification">>

Adds == <<
    InitialSetup, AddJitterColumn, AddServerNameHostColumns,
    IndexSpeedtestsCreated, AddQualityColumns, AddConnectionIdentityColumns,
    WidenSpeedtestError, AddProviderColumn, AddTransferColumns,
    WidenSpeedtestPing, AddServerLocationColumn, WidenRecommendationPing,
    AddTargets, IndexSpeedtestsTarget, AddTargetTuning, AddTargetUdp,
    AddBaselinePercent, AddHopsColumn, AddApiTokens, AddConnectionChanges,
    AddTargetOstSkipCertificateVerification >>

ADD_TARGETS == 13
Migrations == 1..Len(Adds)
Objects == UNION {{Adds[m][i] : i \in 1..Len(Adds[m])} : m \in Migrations}
Rows == 1..MaxRows

(* sqlite has no type to widen: those migrations return at once.           *)
Widenings == {"error_TEXT", "ping_DOUBLE", "recommendations_ping_DOUBLE"}
Wanted(m) == {Adds[m][i] : i \in 1..Len(Adds[m])} \ IF dialect = "sqlite" THEN Widenings ELSE {}

Upto(k) == UNION {Wanted(m) : m \in 1..k}

(* An installation of any version, or a new one: before 0001 there may be  *)
(* a database without the table that tracks migrations, and the 0013 of    *)
(* earlier versions made no index.                                         *)
Init ==
    /\ dialect \in {"sqlite", "mysql"}
    /\ \E done \in 0..Len(Adds) :
        /\ recorded = 1..done
        /\ \/ schema = Upto(done)
           \/ done = 0 /\ schema = Upto(1)
           \/ done = ADD_TARGETS /\ schema = Upto(done) \ {"speedtests_target_created"}
        /\ \E n \in IF "speedtests" \in schema THEN 0..MaxRows ELSE {0} :
            IF done < ADD_TARGETS
            THEN /\ legacy \in IF "config" \in schema THEN BOOLEAN ELSE {FALSE}
                 /\ targets = {}
                 /\ history = [r \in 1..n |-> 0]
            ELSE /\ legacy = FALSE
                 /\ targets \in {{}, {1}}
                 /\ history = [r \in 1..n |-> IF targets = {} THEN 0 ELSE 1]
    /\ chosen = (legacy \/ targets # {})
    /\ pc = "down" /\ at = 1 /\ step = 1
    /\ crashes = 0

(* A statement that fails, or a kill: the exit leaves what was committed.  *)
Dies == pc' = "down" /\ UNCHANGED <<database, at, step>>

(*-------------------------------- the runner -------------------------------*)

Boot ==
    /\ pc = "down"
    /\ pc' = "migrate" /\ at' = 1 /\ step' = 1
    /\ UNCHANGED <<database, origin, crashes>>

NextMigrationRecordsFirst ==
    /\ pc = "migrate"
    /\ \/ /\ at > Len(Adds)
          /\ pc' = "booted" /\ UNCHANGED <<at, step, recorded>>
       \/ /\ at <= Len(Adds) /\ at \in recorded
          /\ at' = at + 1 /\ UNCHANGED <<pc, step, recorded>>
       \/ /\ at <= Len(Adds) /\ at \notin recorded
          /\ pc' = "up" /\ step' = 1 /\ recorded' = recorded \union {at} /\ UNCHANGED at
    /\ UNCHANGED <<schema, legacy, targets, history, origin, crashes>>

(* The filter of the pending migrations, as the loop meets them.           *)
NextMigration ==
    /\ pc = "migrate"
    /\ \/ /\ at > Len(Adds)
          /\ pc' = "booted" /\ UNCHANGED <<at, step>>
       \/ /\ at <= Len(Adds) /\ at \in recorded
          /\ at' = at + 1 /\ UNCHANGED <<pc, step>>
       \/ /\ at <= Len(Adds) /\ at \notin recorded
          /\ pc' = "up" /\ step' = 1 /\ UNCHANGED at
    /\ UNCHANGED <<database, origin, crashes>>

(* The guard of every up(): describeTable, showAllTables, showIndex.       *)
Missing(object) == object \notin schema

(* The database refuses an object it has: a duplicate column or index.     *)
AddObject(object) ==
    IF object \in schema
    THEN Dies
    ELSE schema' = schema \union {object} /\ step' = step + 1
         /\ UNCHANGED <<recorded, legacy, targets, history, pc, at>>

Up ==
    /\ pc = "up"
    /\ IF step <= Len(Adds[at])
       THEN LET object == Adds[at][step] IN
            IF object \in Wanted(at) /\ Missing(object)
            THEN AddObject(object)
            ELSE step' = step + 1 /\ UNCHANGED <<database, pc, at>>
       ELSE /\ pc' = IF at = ADD_TARGETS THEN "seed" ELSE "record"
            /\ UNCHANGED <<database, at, step>>
    /\ UNCHANGED <<origin, crashes>>

Record ==
    /\ pc = "record"
    /\ recorded' = recorded \union {at} /\ at' = at + 1 /\ pc' = "migrate"
    /\ UNCHANGED <<schema, legacy, targets, history, step, origin, crashes>>

(*------------------------- the data of 0013-add-targets --------------------*)

SeedNeededByKeys == legacy

(* Nothing but a seed can be in the table before 0013 is recorded.         *)
SeedNeeded == legacy /\ targets = {}

SeedThenSkip ==
    /\ pc = "seed"
    /\ targets' = IF SeedNeeded THEN targets \union {Cardinality(targets) + 1} ELSE targets
    /\ pc' = IF SeedNeeded THEN "backfill" ELSE "forget"
    /\ UNCHANGED <<recorded, schema, legacy, history, at, step, origin, crashes>>

Seed ==
    /\ pc = "seed"
    /\ targets' = IF SeedNeeded THEN targets \union {Cardinality(targets) + 1} ELSE targets
    /\ pc' = IF targets' # {} THEN "backfill" ELSE "forget"
    /\ UNCHANGED <<recorded, schema, legacy, history, at, step, origin, crashes>>

Unattributed == {r \in DOMAIN history : history[r] = 0}
Earliest(ids) == CHOOSE id \in ids : \A other \in ids : id <= other

ChunkWhole == Unattributed

(* The rows one back-fill statement rewrites: the lowest ids left.         *)
Chunk == {r \in Unattributed : Cardinality({s \in Unattributed : s <= r}) <= BACKFILL_CHUNK_ROWS}

BackfillOnce ==
    /\ pc = "backfill"
    /\ history' = [r \in DOMAIN history |-> IF r \in Chunk THEN Earliest(targets) ELSE history[r]]
    /\ pc' = "forget"
    /\ UNCHANGED <<recorded, schema, legacy, targets, at, step, origin, crashes>>

Backfill ==
    /\ pc = "backfill"
    /\ IF Cardinality(Chunk) > StatementRows
       THEN Dies
       ELSE /\ history' = [r \in DOMAIN history |-> IF r \in Chunk THEN Earliest(targets) ELSE history[r]]
            /\ pc' = IF Unattributed \ Chunk = {} THEN "forget" ELSE "backfill"
            /\ UNCHANGED <<recorded, schema, legacy, targets, at, step>>
    /\ UNCHANGED <<origin, crashes>>

KeepKeys ==
    /\ pc = "forget"
    /\ pc' = "record"
    /\ UNCHANGED <<database, at, step, origin, crashes>>

(* The legacy keys go last.                                                *)
ForgetKeys ==
    /\ pc = "forget"
    /\ legacy' = FALSE /\ pc' = "record"
    /\ UNCHANGED <<recorded, schema, targets, history, at, step, origin, crashes>>

(*------------------------------- the process -------------------------------*)

Crash ==
    /\ pc # "down" /\ crashes < MaxCrashes
    /\ Dies
    /\ crashes' = crashes + 1 /\ UNCHANGED origin

Work == Boot \/ NextMigration \/ Up \/ Seed \/ Backfill \/ ForgetKeys \/ Record
Next == Work \/ Crash

Spec == Init /\ [][Next]_vars

(* The units start the server again whenever it has gone (Restart=always), *)
(* and a start-up that is not killed goes on.                              *)
FairSpec == Spec /\ WF_vars(Work)

(*------------------------------- properties --------------------------------*)

TypeOK ==
    /\ recorded \subseteq Migrations /\ schema \subseteq Objects
    /\ legacy \in BOOLEAN /\ chosen \in BOOLEAN /\ dialect \in {"sqlite", "mysql"}
    /\ targets \subseteq Nat /\ DOMAIN history \subseteq Rows
    /\ \A r \in DOMAIN history : history[r] \in targets \union {0}
    /\ pc \in {"down", "migrate", "up", "seed", "backfill", "forget", "record", "booted"}
    /\ at \in 1..(Len(Adds) + 1) /\ step \in Nat
    /\ pc \in {"up", "seed", "backfill", "forget", "record"} => at \in Migrations \ recorded
    /\ crashes \in 0..MaxCrashes

(* However often 0013 is cut off and run again, the upgrade leaves at most *)
(* one target - two would be measured and reported twice every hour - and  *)
(* none where no provider had ever been chosen.                            *)
OneSeed == Cardinality(targets) <= IF chosen THEN 1 ELSE 0

(* Once 0013 is recorded nothing runs it again: by then the choice has     *)
(* become a target, and every past test has been given to it.              *)
HistoryAttributed ==
    ADD_TARGETS \in recorded /\ chosen =>
        targets # {} /\ \A r \in DOMAIN history : history[r] \in targets

(* At no moment is the old choice only half moved: the keys stay until     *)
(* what replaces them is complete, so no kill can lose it.                 *)
ChoiceNeverLost ==
    chosen /\ ~legacy => targets # {} /\ Unattributed = {}

(* A migration is recorded only after all it adds is there, in whatever    *)
(* order versions and kills came.  (The index of an early 0013 is 0014's.) *)
RecordedIsApplied ==
    \A m \in recorded : m # ADD_TARGETS => Wanted(m) \subseteq schema

(* A server that is up has the whole schema of its version, every migration *)
(* recorded, and no legacy key left, whatever it came from and however it  *)
(* got here.                                                               *)
BootedIsComplete ==
    pc = "booted" => recorded = Migrations /\ schema = Upto(Len(Adds)) /\ ~legacy

(* Whatever the version it came from, the interrupted upgrade is completed *)
(* by some later start: no statement fails for having succeeded before,    *)
(* and none is too long to commit.                                         *)
UpgradeEnds == <>[](pc = "booted" /\ recorded = Migrations)
=============================================================================
