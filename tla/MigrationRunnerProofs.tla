------------------------- MODULE MigrationRunnerProofs -------------------------
(***************************************************************************)
(* That an interrupted upgrade loses and doubles nothing, for a history of *)
(* any length, any chunk and any number of kills.  The properties are not  *)
(* inductive: the moment the keys go is right only because the back-fill   *)
(* is left when no row is without a target, and a second run of 0013 only  *)
(* because the keys are what is deleted last.  UpgradeInv says so.         *)
(***************************************************************************)
EXTENDS MigrationRunner, FiniteSetTheorems, TLAPS

AtWork == {"up", "seed", "backfill", "forget", "record"}

(* Where the start-up is, and that what it works on is not recorded yet.   *)
ControlInv ==
    /\ pc \in {"seed", "backfill", "forget"} => at = ADD_TARGETS
    /\ pc \in AtWork => at \notin recorded

(* What the data of 0013 is at each point of it.                           *)
DataInv ==
    /\ targets \in {{}, {1}}
    /\ \A r \in DOMAIN history : history[r] \in targets \union {0}
    /\ legacy \in BOOLEAN /\ chosen \in BOOLEAN
    /\ chosen <=> legacy \/ targets # {}
    /\ legacy => ADD_TARGETS \notin recorded
    /\ chosen /\ ~legacy => Unattributed = {}
    /\ pc = "backfill" => targets # {}
    /\ pc = "forget" => (chosen => targets # {} /\ Unattributed = {})
    /\ pc = "record" /\ at = ADD_TARGETS => ~legacy

UpgradeInv == ControlInv /\ DataInv

(* The lowest id of the seeded table is the seed's.                        *)
LEMMA EarliestOfSeed == Earliest({1}) = 1
BY DEF Earliest

(* Every installation an upgrade can start from satisfies the invariant.   *)
LEMMA UpgradeInit == Init => UpgradeInv
<1> SUFFICES ASSUME Init PROVE UpgradeInv
  OBVIOUS
<1>1. PICK done \in 0..Len(Adds) :
        /\ recorded = 1..done
        /\ \E n \in IF "speedtests" \in schema THEN 0..MaxRows ELSE {0} :
            IF done < ADD_TARGETS
            THEN /\ legacy \in IF "config" \in schema THEN BOOLEAN ELSE {FALSE}
                 /\ targets = {}
                 /\ history = [r \in 1..n |-> 0]
            ELSE /\ legacy = FALSE
                 /\ targets \in {{}, {1}}
                 /\ history = [r \in 1..n |-> IF targets = {} THEN 0 ELSE 1]
  BY Zenon DEF Init
<1>2. PICK n : IF done < ADD_TARGETS
            THEN /\ legacy \in IF "config" \in schema THEN BOOLEAN ELSE {FALSE}
                 /\ targets = {}
                 /\ history = [r \in 1..n |-> 0]
            ELSE /\ legacy = FALSE
                 /\ targets \in {{}, {1}}
                 /\ history = [r \in 1..n |-> IF targets = {} THEN 0 ELSE 1]
  BY <1>1, Zenon
<1>3. pc = "down" /\ chosen = (legacy \/ targets # {})
  BY Zenon DEF Init
<1>4. legacy \in BOOLEAN /\ chosen \in BOOLEAN /\ (chosen <=> legacy \/ targets # {})
  BY <1>2, <1>3, Zenon
<1>5. ControlInv
  BY <1>3 DEF ControlInv, AtWork
<1>6. CASE done < ADD_TARGETS
  BY <1>1, <1>2, <1>3, <1>4, <1>5, <1>6 DEF UpgradeInv, DataInv, Unattributed, ADD_TARGETS
<1>7. CASE ~(done < ADD_TARGETS)
  BY <1>1, <1>2, <1>3, <1>4, <1>5, <1>7 DEF UpgradeInv, DataInv, Unattributed, ADD_TARGETS
<1> QED
  BY <1>6, <1>7

(* Every statement of a start-up, and a kill between two, preserves it.    *)
LEMMA UpgradeStep == UpgradeInv /\ [Next]_vars => UpgradeInv'
<1> SUFFICES ASSUME UpgradeInv, [Next]_vars PROVE UpgradeInv'
  OBVIOUS
<1> USE DEF UpgradeInv, ControlInv, DataInv, AtWork, Unattributed, database, origin, control
<1>1. CASE Boot
  BY <1>1 DEF Boot
<1>2. CASE NextMigration
  BY <1>2 DEF NextMigration
<1>3. CASE Up
  BY <1>3 DEF Up, AddObject, Dies, ADD_TARGETS
<1>4. CASE Seed
  <2>1. pc = "seed" /\ at = ADD_TARGETS /\ at \notin recorded
    BY <1>4 DEF Seed
  <2>2. /\ UNCHANGED <<recorded, legacy, history, at, chosen>>
        /\ targets' = IF SeedNeeded THEN targets \union {Cardinality(targets) + 1} ELSE targets
        /\ pc' = IF targets' # {} THEN "backfill" ELSE "forget"
    BY <1>4 DEF Seed
  <2>3. CASE SeedNeeded
    <3>1. targets = {} /\ legacy
      BY <2>3 DEF SeedNeeded
    <3>2. targets' = {1}
      BY <2>2, <2>3, <3>1, FS_EmptySet
    <3> QED
      BY <2>1, <2>2, <3>1, <3>2
  <2>4. CASE ~SeedNeeded
    BY <2>1, <2>2, <2>4 DEF SeedNeeded
  <2> QED
    BY <2>3, <2>4
<1>5. CASE Backfill
  <2>1. pc = "backfill" /\ targets = {1} /\ at = ADD_TARGETS /\ at \notin recorded
    BY <1>5 DEF Backfill
  <2>2. CASE Cardinality(Chunk) > StatementRows
    BY <1>5, <2>1, <2>2 DEF Backfill, Dies
  <2>3. CASE ~(Cardinality(Chunk) > StatementRows)
    <3>1. /\ UNCHANGED <<recorded, legacy, targets, at, chosen>>
          /\ history' = [r \in DOMAIN history |-> IF r \in Chunk THEN 1 ELSE history[r]]
          /\ pc' = IF Unattributed \ Chunk = {} THEN "forget" ELSE "backfill"
      BY <1>5, <2>1, <2>3, EarliestOfSeed DEF Backfill
    <3>2. \A r \in DOMAIN history' : history'[r] \in targets' \union {0}
      BY <2>1, <3>1
    <3>3. Unattributed' = Unattributed \ Chunk
      BY <3>1
    <3> QED
      BY <2>1, <3>1, <3>2, <3>3
  <2> QED
    BY <2>2, <2>3
<1>6. CASE ForgetKeys
  BY <1>6 DEF ForgetKeys
<1>7. CASE Record
  BY <1>7 DEF Record
<1>8. CASE Crash
  BY <1>8 DEF Crash, Dies
<1>9. CASE UNCHANGED vars
  BY <1>9 DEF vars
<1> QED
  BY <1>1, <1>2, <1>3, <1>4, <1>5, <1>6, <1>7, <1>8, <1>9 DEF Next, Work

(* At most one target comes of an upgrade, and none without a choice; the  *)
(* choice is never half moved; what is recorded left no test unattributed. *)
THEOREM UpgradeCorrect == Spec => [](OneSeed /\ HistoryAttributed /\ ChoiceNeverLost)
<1>1. UpgradeInv => OneSeed /\ HistoryAttributed /\ ChoiceNeverLost
  <2> SUFFICES ASSUME UpgradeInv PROVE OneSeed /\ HistoryAttributed /\ ChoiceNeverLost
    OBVIOUS
  <2>1. OneSeed
    BY FS_EmptySet, FS_Singleton DEF UpgradeInv, DataInv, OneSeed
  <2>2. ChoiceNeverLost
    BY DEF UpgradeInv, DataInv, ChoiceNeverLost
  <2>3. HistoryAttributed
    BY DEF UpgradeInv, DataInv, HistoryAttributed, Unattributed
  <2> QED
    BY <2>1, <2>2, <2>3
<1>2. QED
  BY UpgradeInit, UpgradeStep, <1>1, PTL DEF Spec

(*--------------------------- the schema of an upgrade ----------------------*)

(* What has been looked at is there, as far as this dialect wants it.      *)
Applied(m, upto) ==
    \A i \in 1..Len(Adds[m]) : i < upto /\ Adds[m][i] \in Wanted(m) => Adds[m][i] \in schema

(* What holds of the schema at each point of the loop over a migration.    *)
SchemaInv ==
    /\ recorded \subseteq Migrations /\ schema \subseteq Objects
    /\ dialect \in {"sqlite", "mysql"}
    /\ DOMAIN history \subseteq Rows
    /\ pc \in AtWork \union {"down", "migrate", "booted"}
    /\ at \in 1..(Len(Adds) + 1) /\ step \in Nat \ {0}
    /\ pc \in AtWork => at \in Migrations
    /\ crashes \in 0..MaxCrashes
    /\ RecordedIsApplied
    /\ pc = "up" => Applied(at, step)
    /\ pc \in AtWork \ {"up"} => Wanted(at) \subseteq schema

(* The first twelve know nothing of the index 0013 came to make.           *)
Early(names) ==
    Len(names) \in 0..5 /\ \A i \in 1..Len(names) : names[i] # "speedtests_target_created"

(* Every migration adds a sequence of at most five names.                  *)
LEMMA AddsType ==
    /\ Len(Adds) = 21
    /\ \A m \in 1..21 : Len(Adds[m]) \in 0..5
    /\ \A m \in 1..12 : Early(Adds[m])
<1>1. Adds[1] = InitialSetup /\ Early(InitialSetup)
  BY DEF Adds, InitialSetup, Early
<1>2. Adds[2] = AddJitterColumn /\ Early(AddJitterColumn)
  BY DEF Adds, AddJitterColumn, Early
<1>3. Adds[3] = AddServerNameHostColumns /\ Early(AddServerNameHostColumns)
  BY DEF Adds, AddServerNameHostColumns, Early
<1>4. Adds[4] = IndexSpeedtestsCreated /\ Early(IndexSpeedtestsCreated)
  BY DEF Adds, IndexSpeedtestsCreated, Early
<1>5. Adds[5] = AddQualityColumns /\ Early(AddQualityColumns)
  BY DEF Adds, AddQualityColumns, Early
<1>6. Adds[6] = AddConnectionIdentityColumns /\ Early(AddConnectionIdentityColumns)
  BY DEF Adds, AddConnectionIdentityColumns, Early
<1>7. Adds[7] = WidenSpeedtestError /\ Early(WidenSpeedtestError)
  BY DEF Adds, WidenSpeedtestError, Early
<1>8. Adds[8] = AddProviderColumn /\ Early(AddProviderColumn)
  BY DEF Adds, AddProviderColumn, Early
<1>9. Adds[9] = AddTransferColumns /\ Early(AddTransferColumns)
  BY DEF Adds, AddTransferColumns, Early
<1>10. Adds[10] = WidenSpeedtestPing /\ Early(WidenSpeedtestPing)
  BY DEF Adds, WidenSpeedtestPing, Early
<1>11. Adds[11] = AddServerLocationColumn /\ Early(AddServerLocationColumn)
  BY DEF Adds, AddServerLocationColumn, Early
<1>12. Adds[12] = WidenRecommendationPing /\ Early(WidenRecommendationPing)
  BY DEF Adds, WidenRecommendationPing, Early
<1>13. Adds[13] = AddTargets /\ Len(AddTargets) \in 0..5
  BY DEF Adds, AddTargets
<1>14. Adds[14] = IndexSpeedtestsTarget /\ Len(IndexSpeedtestsTarget) \in 0..5
  BY DEF Adds, IndexSpeedtestsTarget
<1>15. Adds[15] = AddTargetTuning /\ Len(AddTargetTuning) \in 0..5
  BY DEF Adds, AddTargetTuning
<1>16. Adds[16] = AddTargetUdp /\ Len(AddTargetUdp) \in 0..5
  BY DEF Adds, AddTargetUdp
<1>17. Adds[17] = AddBaselinePercent /\ Len(AddBaselinePercent) \in 0..5
  BY DEF Adds, AddBaselinePercent
<1>18. Adds[18] = AddHopsColumn /\ Len(AddHopsColumn) \in 0..5
  BY DEF Adds, AddHopsColumn
<1>19. Adds[19] = AddApiTokens /\ Len(AddApiTokens) \in 0..5
  BY DEF Adds, AddApiTokens
<1>20. Adds[20] = AddConnectionChanges /\ Len(AddConnectionChanges) \in 0..5
  BY DEF Adds, AddConnectionChanges
<1>21. Adds[21] = AddTargetOstSkipCertificateVerification /\ Len(AddTargetOstSkipCertificateVerification) \in 0..5
  BY DEF Adds, AddTargetOstSkipCertificateVerification
<1>22. Len(Adds) = 21
  BY DEF Adds
<1>23. \A m \in 1..12 : Early(Adds[m])
  <2> SUFFICES ASSUME NEW m \in 1..12 PROVE Early(Adds[m])
    OBVIOUS
  <2>1. \/ m = 1 \/ m = 2 \/ m = 3 \/ m = 4 \/ m = 5 \/ m = 6
        \/ m = 7 \/ m = 8 \/ m = 9 \/ m = 10 \/ m = 11 \/ m = 12
    OBVIOUS
  <2> QED
    BY <2>1, <1>1, <1>2, <1>3, <1>4, <1>5, <1>6, <1>7, <1>8, <1>9, <1>10, <1>11, <1>12, Zenon
<1>24. \A m \in 13..21 : Len(Adds[m]) \in 0..5
  <2> SUFFICES ASSUME NEW m \in 13..21 PROVE Len(Adds[m]) \in 0..5
    OBVIOUS
  <2>1. \/ m = 13 \/ m = 14 \/ m = 15 \/ m = 16 \/ m = 17
        \/ m = 18 \/ m = 19 \/ m = 20 \/ m = 21
    OBVIOUS
  <2> QED
    BY <2>1, <1>13, <1>14, <1>15, <1>16, <1>17, <1>18, <1>19, <1>20, <1>21, Zenon
<1>25. \A m \in 1..12 : Len(Adds[m]) \in 0..5
  BY <1>23, Zenon DEF Early
<1>26. \A m \in 1..21 : m \in 1..12 \/ m \in 13..21
  OBVIOUS
<1> QED
  BY <1>22, <1>23, <1>24, <1>25, <1>26, Zenon

(* So lengths are numbers, and what is wanted is among the objects.        *)
LEMMA AddsFacts ==
    /\ Len(Adds) \in Nat
    /\ \A m \in Migrations : Len(Adds[m]) \in Nat /\ Wanted(m) \subseteq Objects
<1>1. Len(Adds) \in Nat /\ \A m \in Migrations : Len(Adds[m]) \in 0..5
  BY AddsType DEF Migrations
<1>2. ASSUME NEW m \in Migrations PROVE Len(Adds[m]) \in Nat /\ Wanted(m) \subseteq Objects
  <2>1. Len(Adds[m]) \in Nat
    BY <1>1
  <2>2. Wanted(m) \subseteq {Adds[m][i] : i \in 1..Len(Adds[m])}
    BY DEF Wanted
  <2>3. {Adds[m][i] : i \in 1..Len(Adds[m])} \subseteq Objects
    BY DEF Objects
  <2> QED
    BY <2>1, <2>2, <2>3
<1> QED
  BY <1>1, <1>2

(* Where the upgrade starts from: what is recorded is there.               *)
LEMMA SchemaInit == Init => SchemaInv
<1> SUFFICES ASSUME Init PROVE SchemaInv
  OBVIOUS
<1> USE MigrationAssumption
<1>1. /\ dialect \in {"sqlite", "mysql"}
      /\ pc = "down" /\ at = 1 /\ step = 1 /\ crashes = 0
  BY Zenon DEF Init
<1>2. PICK done \in 0..Len(Adds) :
        /\ recorded = 1..done
        /\ \/ schema = Upto(done)
           \/ done = 0 /\ schema = Upto(1)
           \/ done = ADD_TARGETS /\ schema = Upto(done) \ {"speedtests_target_created"}
        /\ \E n \in IF "speedtests" \in schema THEN 0..MaxRows ELSE {0} :
            IF done < ADD_TARGETS
            THEN /\ legacy \in IF "config" \in schema THEN BOOLEAN ELSE {FALSE}
                 /\ targets = {}
                 /\ history = [r \in 1..n |-> 0]
            ELSE /\ legacy = FALSE
                 /\ targets \in {{}, {1}}
                 /\ history = [r \in 1..n |-> IF targets = {} THEN 0 ELSE 1]
  BY Zenon DEF Init
<1>3. Len(Adds) \in Nat /\ Len(Adds) >= 1
  BY AddsType
<1>4. recorded \subseteq Migrations
  BY <1>2, <1>3 DEF Migrations
<1>5. schema \subseteq Objects
  BY <1>2, <1>3, AddsFacts DEF Upto, Migrations
<1>6. DOMAIN history \subseteq Rows
  <2>1. PICK n \in IF "speedtests" \in schema THEN 0..MaxRows ELSE {0} :
            IF done < ADD_TARGETS
            THEN /\ legacy \in IF "config" \in schema THEN BOOLEAN ELSE {FALSE}
                 /\ targets = {}
                 /\ history = [r \in 1..n |-> 0]
            ELSE /\ legacy = FALSE
                 /\ targets \in {{}, {1}}
                 /\ history = [r \in 1..n |-> IF targets = {} THEN 0 ELSE 1]
    BY <1>2, Zenon
  <2>2. DOMAIN history = 1..n
    <3>1. CASE done < ADD_TARGETS
      BY <2>1, <3>1
    <3>2. CASE ~(done < ADD_TARGETS)
      BY <2>1, <3>2
    <3> QED
      BY <3>1, <3>2
  <2>3. n \in 0..MaxRows
    BY <2>1
  <2> QED
    BY <2>2, <2>3 DEF Rows
<1>7. RecordedIsApplied
  <2> SUFFICES ASSUME NEW m \in recorded, m # ADD_TARGETS PROVE Wanted(m) \subseteq schema
    BY DEF RecordedIsApplied
  <2>1. Wanted(m) \subseteq Upto(done)
    BY <1>2 DEF Upto
  <2>2. CASE schema = Upto(done)
    BY <2>1, <2>2
  <2>3. CASE done = 0
    BY <1>2, <2>3
  <2>4. CASE done = ADD_TARGETS /\ schema = Upto(done) \ {"speedtests_target_created"}
    <3>1. m \in 1..12
      BY <1>2, <2>4 DEF ADD_TARGETS
    <3>2. "speedtests_target_created" \notin Wanted(m)
      <4>1. Early(Adds[m])
        BY <3>1, AddsType
      <4>2. \A i \in 1..Len(Adds[m]) : Adds[m][i] # "speedtests_target_created"
        BY <4>1 DEF Early
      <4> QED
        BY <4>2 DEF Wanted
    <3> QED
      BY <2>1, <2>4, <3>2
  <2> QED
    BY <1>2, <2>2, <2>3, <2>4
<1> QED
  BY <1>1, <1>3, <1>4, <1>5, <1>6, <1>7 DEF SchemaInv, AtWork

(* Every statement keeps it: an object is only ever added, and a migration *)
(* is left for the next point when its last object has been looked at.     *)
LEMMA SchemaStep == UpgradeInv /\ SchemaInv /\ [Next]_vars => SchemaInv'
<1> SUFFICES ASSUME UpgradeInv, SchemaInv, [Next]_vars PROVE SchemaInv'
  OBVIOUS
<1> USE MigrationAssumption, AddsFacts DEF SchemaInv, AtWork, database, origin, control
<1>0. dialect' = dialect
  BY DEF Next, Work, Boot, NextMigration, Up, Seed, Backfill, ForgetKeys, Record, Crash, vars
<1>w. \A m : Wanted(m)' = Wanted(m)
  BY <1>0 DEF Wanted
<1>k. schema' = schema /\ recorded' = recorded => RecordedIsApplied'
  BY <1>w DEF RecordedIsApplied
<1>1. CASE Boot
  BY <1>1, <1>0, <1>k DEF Boot
<1>2. CASE NextMigration
  BY <1>2, <1>0, <1>k DEF NextMigration, Applied, Migrations
<1>3. CASE Up
  <2> USE <1>3 DEF Up
  <2>1. pc = "up" /\ at \in Migrations /\ recorded' = recorded /\ history' = history /\ crashes' = crashes
    BY DEF AddObject, Dies
  <2>2. schema \subseteq schema' /\ schema' \subseteq Objects
    BY <2>1 DEF AddObject, Dies
  <2>3. RecordedIsApplied'
    BY <1>w, <2>1, <2>2 DEF RecordedIsApplied
  <2>4. CASE step <= Len(Adds[at])
    <3> DEFINE object == Adds[at][step]
    <3>1. CASE object \in Wanted(at) /\ object \notin schema
      <4>1. schema' = schema \union {object} /\ step' = step + 1 /\ pc' = pc /\ at' = at
        BY <2>4, <3>1 DEF AddObject, Missing
      <4>2. Applied(at, step)'
        BY <4>1, <2>1, <1>w DEF Applied
      <4> QED
        BY <1>0, <2>1, <2>2, <2>3, <4>1, <4>2
    <3>2. CASE ~(object \in Wanted(at) /\ object \notin schema)
      <4>1. schema' = schema /\ step' = step + 1 /\ pc' = pc /\ at' = at
        BY <2>4, <3>2 DEF Missing
      <4>2. Applied(at, step)'
        BY <3>2, <4>1, <2>1, <1>w DEF Applied
      <4> QED
        BY <1>0, <2>1, <2>2, <2>3, <4>1, <4>2
    <3> QED
      BY <3>1, <3>2
  <2>5. CASE ~(step <= Len(Adds[at]))
    <3>1. schema' = schema /\ step' = step /\ at' = at /\ pc' \in {"seed", "record"}
      BY <2>5
    <3>2. Wanted(at) \subseteq schema
      BY <2>1, <2>5 DEF Applied, Wanted
    <3> QED
      BY <1>0, <1>w, <2>1, <2>2, <2>3, <3>1, <3>2
  <2> QED
    BY <2>4, <2>5
<1>4. CASE Seed
  BY <1>4, <1>0, <1>w, <1>k DEF Seed
<1>5. CASE Backfill
  <2>1. /\ schema' = schema /\ recorded' = recorded /\ at' = at /\ step' = step /\ crashes' = crashes
        /\ DOMAIN history' = DOMAIN history /\ pc = "backfill"
        /\ pc' \in {"down", "forget", "backfill"}
    BY <1>5 DEF Backfill, Dies
  <2> QED
    BY <2>1, <1>0, <1>w, <1>k
<1>6. CASE ForgetKeys
  BY <1>6, <1>0, <1>w, <1>k DEF ForgetKeys
<1>7. CASE Record
  <2>1. RecordedIsApplied'
    BY <1>7, <1>w DEF Record, RecordedIsApplied
  <2> QED
    BY <1>7, <1>0, <2>1 DEF Record, Migrations
<1>8. CASE Crash
  BY <1>8, <1>0, <1>k DEF Crash, Dies
<1>9. CASE UNCHANGED vars
  BY <1>9, <1>0, <1>w, <1>k DEF vars, Applied
<1> QED
  BY <1>1, <1>2, <1>3, <1>4, <1>5, <1>6, <1>7, <1>8, <1>9 DEF Next, Work

(* What is recorded as done has been done, whatever version the upgrade    *)
(* came from and wherever it was cut off; and the state is of its type.    *)
THEOREM RecordedCorrect == Spec => [](TypeOK /\ RecordedIsApplied)
<1>1. UpgradeInv /\ SchemaInv => TypeOK /\ RecordedIsApplied
  <2> SUFFICES ASSUME UpgradeInv, SchemaInv PROVE TypeOK /\ RecordedIsApplied
    OBVIOUS
  <2>1. targets \subseteq Nat
    BY DEF UpgradeInv, DataInv
  <2> QED
    BY <2>1 DEF UpgradeInv, ControlInv, DataInv, SchemaInv, AtWork, TypeOK
<1>2. QED
  BY UpgradeInit, UpgradeStep, SchemaInit, SchemaStep, <1>1, PTL DEF Spec

(*------------------------ a start-up goes to its end -----------------------*)

(* What the loop has passed is recorded, a recorded 0013 lacks at most the *)
(* index 0014 makes, and nothing is there that no migration wants.         *)
CompleteInv ==
    /\ pc \in AtWork \union {"migrate"} => 1..(at - 1) \subseteq recorded
    /\ pc = "booted" => Migrations \subseteq recorded
    /\ ADD_TARGETS \in recorded => Wanted(ADD_TARGETS) \ {"speedtests_target_created"} \subseteq schema
    /\ schema \subseteq Upto(Len(Adds))
    /\ pc = "up" => step <= Len(Adds[at]) + 1

(* A start-up never goes back: no object, record, target or attribution is *)
(* taken away, and no legacy key comes back.                               *)
NothingIsUndone ==
    [][/\ recorded \subseteq recorded' /\ schema \subseteq schema' /\ targets \subseteq targets'
       /\ legacy' => legacy
       /\ DOMAIN history' = DOMAIN history
       /\ \A r \in DOMAIN history : history[r] # 0 => history'[r] = history[r]]_vars

(* Only a kill stops a start-up: the guards let no statement be refused    *)
(* for what an interrupted run left, and no chunk is too long to commit.   *)
OnlyKillsStop == [][pc # "down" /\ pc' = "down" => Crash]_vars

(* How far a start-up still has to go.                                     *)
Pace ==
    CASE pc = "migrate" -> 12 [] pc = "up" -> 11 - step
      [] pc = "seed" -> 3 [] pc = "backfill" -> 2 [] pc = "forget" -> 1
      [] OTHER -> 0

StepsLeft == 20 * (Len(Adds) + 1 - at) + Pace + Cardinality(Unattributed)

(* Every step of a start-up that is not killed brings it nearer its end,   *)
(* so after that many of them the server is up.                            *)
StartAdvances == [][pc # "down" /\ pc' # "down" => StepsLeft' < StepsLeft]_vars

StepsBounded == StepsLeft \in 0..(20 * Len(Adds) + 12 + MaxRows)

(* The least of a set of numbers.                                          *)
LEMMA LeastOf ==
  ASSUME NEW T, T \subseteq Nat, T # {}
  PROVE  \E low \in T : \A other \in T : low <= other
<1>1. PICK low \in T : \A other \in T : ~(<<other, low>> \in OpToRel(<, Nat))
  BY WFMin, NatLessThanWellFounded, Zenon
<1>2. ASSUME NEW other \in T PROVE low <= other
  <2>1. other \in Nat /\ low \in Nat
    OBVIOUS
  <2>2. other < low => <<other, low>> \in OpToRel(<, Nat)
    BY <2>1 DEF OpToRel
  <2>3. ~(other < low)
    BY <1>1, <2>2, Zenon
  <2> QED
    BY <2>1, <2>3
<1> QED
  BY <1>2

(* The rows of one statement, of any set of rows left to attribute.        *)
Lowest(left) == {r \in left : Cardinality({s \in left : s <= r}) <= BACKFILL_CHUNK_ROWS}

(* A statement rewrites no more rows than it may.                          *)
LEMMA LowestAreFew ==
  ASSUME NEW left, left \subseteq Rows
  PROVE  Cardinality(Lowest(left)) <= BACKFILL_CHUNK_ROWS
<1> USE MigrationAssumption
<1>1. IsFiniteSet(left) /\ left \subseteq Nat /\ \A r \in left : r >= 1 /\ r <= MaxRows
  <2>1. IsFiniteSet(Rows) /\ Rows \subseteq Nat
    BY FS_Interval DEF Rows
  <2>2. IsFiniteSet(left)
    BY <2>1, FS_Subset
  <2> QED
    BY <2>1, <2>2 DEF Rows
<1>2. CASE Lowest(left) = {}
  BY <1>2, FS_EmptySet
<1>3. CASE Lowest(left) # {}
  <2> DEFINE Above == {b \in Nat : \A r \in Lowest(left) : r <= b}
  <2>1. Above \subseteq Nat /\ MaxRows \in Above
    BY <1>1 DEF Lowest
  <2>2. PICK top \in Above : \A b \in Above : top <= b
    <3> HIDE DEF Above
    <3> QED
      BY <2>1, LeastOf, Zenon
  <2>3. top \in Lowest(left)
    <3> SUFFICES ASSUME top \notin Lowest(left) PROVE FALSE
      OBVIOUS
    <3>1. PICK r \in Lowest(left) : TRUE
      BY <1>3
    <3>2. top \in Nat /\ top >= 1
      BY <1>1, <3>1 DEF Lowest
    <3>3. \A s \in Lowest(left) : s <= top - 1
      BY <1>1, <3>2 DEF Lowest
    <3>4. top - 1 \in Above
      BY <3>2, <3>3
    <3> QED
      BY <2>2, <3>2, <3>4
  <2>4. Lowest(left) \subseteq {s \in left : s <= top}
    BY DEF Lowest
  <2>5. IsFiniteSet({s \in left : s <= top})
    BY <1>1, FS_Subset
  <2>6. Cardinality(Lowest(left)) <= Cardinality({s \in left : s <= top})
    BY <2>4, <2>5, FS_Subset, Zenon
  <2>7. Cardinality({s \in left : s <= top}) <= BACKFILL_CHUNK_ROWS
    BY <2>3 DEF Lowest
  <2>8. IsFiniteSet(Lowest(left))
    BY <1>1, FS_Subset DEF Lowest
  <2> QED
    BY <2>5, <2>6, <2>7, <2>8, FS_CardinalityType
<1> QED
  BY <1>2, <1>3

(* And as long as a row is left, it rewrites one.                          *)
LEMMA LowestIsSome ==
  ASSUME NEW left, left \subseteq Rows, left # {}
  PROVE  Lowest(left) # {}
<1>1. left \subseteq Nat
  BY DEF Rows
<1>2. PICK low \in left : \A other \in left : low <= other
  BY <1>1, LeastOf, Zenon
<1>3. {s \in left : s <= low} = {low}
  <2>1. \A s \in left : s <= low <=> s = low
    BY <1>1, <1>2
  <2> QED
    BY <2>1
<1>4. Cardinality({s \in left : s <= low}) = 1
  BY <1>3, FS_Singleton
<1> QED
  BY <1>2, <1>4, MigrationAssumption DEF Lowest

(* Each statement leaves fewer rows than it found.                         *)
LEMMA LeavesFewer ==
  ASSUME NEW left, left \subseteq Rows
  PROVE  /\ Cardinality(left) \in 0..MaxRows
         /\ Cardinality(left \ Lowest(left)) \in Nat
         /\ left # {} => Cardinality(left \ Lowest(left)) < Cardinality(left)
<1> USE MigrationAssumption
<1>1. IsFiniteSet(Rows) /\ Cardinality(Rows) = MaxRows
  BY FS_Interval DEF Rows
<1>2. IsFiniteSet(left) /\ Cardinality(left) <= MaxRows
  BY <1>1, FS_Subset
<1>3. /\ IsFiniteSet(left \ Lowest(left)) /\ Cardinality(left \ Lowest(left)) <= Cardinality(left)
      /\ Cardinality(left) = Cardinality(left \ Lowest(left)) => left = left \ Lowest(left)
  BY <1>2, FS_Subset
<1>4. Cardinality(left) \in Nat /\ Cardinality(left \ Lowest(left)) \in Nat
  BY <1>2, <1>3, FS_CardinalityType
<1>5. left # {} => left # left \ Lowest(left)
  BY LowestIsSome DEF Lowest
<1> QED
  BY <1>2, <1>3, <1>4, <1>5

(* What the later migrations want is in the whole of it.                   *)
LEMMA UptoAll ==
    /\ \A m \in Migrations : Wanted(m) \subseteq Upto(Len(Adds))
    /\ \A k \in 0..Len(Adds) : Upto(k) \subseteq Upto(Len(Adds))
    /\ "speedtests_target_created" \in Wanted(14)
<1>1. Len(Adds) = 21
  BY AddsType
<1>2. \A m \in Migrations : Wanted(m) \subseteq Upto(Len(Adds))
  BY <1>1 DEF Upto, Migrations
<1>3. ASSUME NEW k \in 0..Len(Adds) PROVE Upto(k) \subseteq Upto(Len(Adds))
  BY <1>1, <1>3 DEF Upto
<1>4. "speedtests_target_created" \in Wanted(14)
  <2>1. Adds[14] = <<"speedtests_target_created">>
    BY DEF Adds, IndexSpeedtestsTarget
  <2> QED
    BY <2>1 DEF Wanted, Widenings
<1> QED
  BY <1>2, <1>3, <1>4

(* An upgrade starts from no more than the schema of some version.         *)
LEMMA CompleteInit == Init => CompleteInv
<1> SUFFICES ASSUME Init PROVE CompleteInv
  OBVIOUS
<1>1. pc = "down"
  BY Zenon DEF Init
<1>2. PICK done \in 0..Len(Adds) :
        /\ recorded = 1..done
        /\ \/ schema = Upto(done)
           \/ done = 0 /\ schema = Upto(1)
           \/ done = ADD_TARGETS /\ schema = Upto(done) \ {"speedtests_target_created"}
  BY Zenon DEF Init
<1>3. Len(Adds) = 21
  BY AddsType
<1>4. schema \subseteq Upto(Len(Adds))
  <2>1. Upto(done) \subseteq Upto(Len(Adds)) /\ Upto(1) \subseteq Upto(Len(Adds))
    BY <1>3, UptoAll
  <2> QED
    BY <1>2, <2>1
<1>5. ASSUME ADD_TARGETS \in recorded
      PROVE  Wanted(ADD_TARGETS) \ {"speedtests_target_created"} \subseteq schema
  <2>1. done # 0 /\ ADD_TARGETS \in 1..done
    BY <1>2, <1>3, <1>5 DEF ADD_TARGETS
  <2>2. Wanted(ADD_TARGETS) \subseteq Upto(done)
    BY <2>1 DEF Upto
  <2> QED
    BY <1>2, <2>1, <2>2
<1> QED
  BY <1>1, <1>4, <1>5 DEF CompleteInv, AtWork

(* Every statement keeps it.                                               *)
LEMMA CompleteStep ==
    UpgradeInv /\ SchemaInv /\ CompleteInv /\ [Next]_vars => CompleteInv'
<1> SUFFICES ASSUME UpgradeInv, SchemaInv, CompleteInv, [Next]_vars PROVE CompleteInv'
  OBVIOUS
<1> USE AddsFacts DEF CompleteInv, AtWork, database, origin, control
<1>0. dialect' = dialect
  BY DEF Next, Work, Boot, NextMigration, Up, Seed, Backfill, ForgetKeys, Record, Crash, vars
<1>t. /\ at \in 1..(Len(Adds) + 1) /\ step \in Nat \ {0} /\ recorded \subseteq Migrations
      /\ pc \in AtWork => at \in Migrations
      /\ pc \in AtWork \ {"up"} => Wanted(at) \subseteq schema
  BY DEF SchemaInv
<1>w. Wanted(ADD_TARGETS)' = Wanted(ADD_TARGETS) /\ Upto(Len(Adds))' = Upto(Len(Adds))
  BY <1>0 DEF Wanted, Upto
<1>1. CASE Boot
  BY <1>1, <1>w DEF Boot
<1>2. CASE NextMigration
  BY <1>2, <1>t, <1>w DEF NextMigration, Migrations
<1>3. CASE Up
  <2> USE <1>3 DEF Up
  <2>1. pc = "up" /\ recorded' = recorded
    BY DEF AddObject, Dies
  <2>2. CASE step <= Len(Adds[at])
    <3> DEFINE object == Adds[at][step]
    <3>1. CASE object \in Wanted(at) /\ object \notin schema
      <4>1. schema' = schema \union {object} /\ step' = step + 1 /\ pc' = pc /\ at' = at
        BY <2>2, <3>1 DEF AddObject, Missing
      <4>2. object \in Upto(Len(Adds))
        BY <2>1, <3>1, <1>t, UptoAll
      <4>3. schema \subseteq schema' /\ schema' \subseteq Upto(Len(Adds))
        BY <4>1, <4>2
      <4> HIDE DEF object
      <4> QED
        BY <2>1, <2>2, <4>1, <4>3, <1>t, <1>w
    <3>2. CASE ~(object \in Wanted(at) /\ object \notin schema)
      <4>1. schema' = schema /\ step' = step + 1 /\ pc' = pc /\ at' = at
        BY <2>2, <3>2 DEF Missing
      <4> QED
        BY <2>1, <2>2, <4>1, <1>t, <1>w
    <3> QED
      BY <3>1, <3>2
  <2>3. CASE ~(step <= Len(Adds[at]))
    BY <2>1, <2>3, <1>w
  <2> QED
    BY <2>2, <2>3
<1>4. CASE Seed
  BY <1>4, <1>w DEF Seed
<1>5. CASE Backfill
  <2>1. /\ schema' = schema /\ recorded' = recorded /\ at' = at /\ pc = "backfill"
        /\ pc' \in {"down", "forget", "backfill"}
    BY <1>5 DEF Backfill, Dies
  <2> QED
    BY <2>1, <1>w
<1>6. CASE ForgetKeys
  BY <1>6, <1>w DEF ForgetKeys
<1>7. CASE Record
  <2>1. 1..(at' - 1) \subseteq recorded'
    BY <1>7, <1>t DEF Record, Migrations
  <2>2. ADD_TARGETS \in recorded' => Wanted(ADD_TARGETS) \ {"speedtests_target_created"} \subseteq schema
    BY <1>7, <1>t DEF Record
  <2> QED
    BY <1>7, <1>w, <2>1, <2>2 DEF Record
<1>8. CASE Crash
  BY <1>8, <1>w DEF Crash, Dies
<1>9. CASE UNCHANGED vars
  BY <1>9, <1>w DEF vars
<1> QED
  BY <1>1, <1>2, <1>3, <1>4, <1>5, <1>6, <1>7, <1>8, <1>9 DEF Next, Work

(* All of it, for the steps of a start-up.                                 *)
StartInv == UpgradeInv /\ SchemaInv /\ CompleteInv

(* The state a start-up ends in is the state of its version.               *)
LEMMA CompleteAtBoot == StartInv => BootedIsComplete
<1> SUFFICES ASSUME StartInv, pc = "booted"
             PROVE  recorded = Migrations /\ schema = Upto(Len(Adds)) /\ ~legacy
  BY DEF BootedIsComplete
<1>1. Len(Adds) = 21
  BY AddsType
<1>2. recorded = Migrations
  BY DEF StartInv, SchemaInv, CompleteInv
<1>3. ADD_TARGETS \in recorded /\ 14 \in recorded
  BY <1>1, <1>2 DEF Migrations, ADD_TARGETS
<1>4. ~legacy
  BY <1>3 DEF StartInv, UpgradeInv, DataInv
<1>5. Wanted(14) \subseteq schema
  BY <1>3 DEF StartInv, SchemaInv, RecordedIsApplied, ADD_TARGETS
<1>6. ASSUME NEW m \in Migrations PROVE Wanted(m) \subseteq schema
  <2>1. CASE m = ADD_TARGETS
    BY <2>1, <1>3, <1>5, UptoAll DEF StartInv, CompleteInv
  <2>2. CASE m # ADD_TARGETS
    BY <2>2, <1>2, <1>6 DEF StartInv, SchemaInv, RecordedIsApplied
  <2> QED
    BY <2>1, <2>2
<1>7. Upto(Len(Adds)) \subseteq schema
  BY <1>6 DEF Upto, Migrations
<1> QED
  BY <1>2, <1>4, <1>7 DEF StartInv, CompleteInv

(* Nothing of what is there is taken away.                                 *)
LEMMA KeepsAll ==
    StartInv /\ [Next]_vars =>
       /\ recorded \subseteq recorded' /\ schema \subseteq schema' /\ targets \subseteq targets'
       /\ legacy' => legacy
       /\ DOMAIN history' = DOMAIN history
       /\ \A r \in DOMAIN history : history[r] # 0 => history'[r] = history[r]
<1> SUFFICES ASSUME StartInv, [Next]_vars
             PROVE  /\ recorded \subseteq recorded' /\ schema \subseteq schema' /\ targets \subseteq targets'
                    /\ legacy' => legacy
                    /\ DOMAIN history' = DOMAIN history
                    /\ \A r \in DOMAIN history : history[r] # 0 => history'[r] = history[r]
  OBVIOUS
<1> USE DEF database, origin, control, Dies
<1>1. CASE Boot
  BY <1>1 DEF Boot
<1>2. CASE NextMigration
  BY <1>2 DEF NextMigration
<1>3. CASE Up
  BY <1>3 DEF Up, AddObject
<1>4. CASE Seed
  BY <1>4 DEF Seed
<1>5. CASE Backfill
  <2>1. UNCHANGED <<recorded, schema, legacy, targets>>
    BY <1>5 DEF Backfill
  <2>2. \/ history' = history
        \/ history' = [r \in DOMAIN history |-> IF r \in Chunk THEN Earliest(targets) ELSE history[r]]
    BY <1>5 DEF Backfill
  <2>3. \A r \in Chunk : history[r] = 0
    BY DEF Chunk, Unattributed
  <2> QED
    BY <2>1, <2>2, <2>3
<1>6. CASE ForgetKeys
  BY <1>6 DEF ForgetKeys
<1>7. CASE Record
  BY <1>7 DEF Record
<1>8. CASE Crash
  BY <1>8 DEF Crash
<1>9. CASE UNCHANGED vars
  BY <1>9 DEF vars
<1> QED
  BY <1>1, <1>2, <1>3, <1>4, <1>5, <1>6, <1>7, <1>8, <1>9 DEF Next, Work

(* The back-fill's statement is never the one that is cut off.             *)
LEMMA ChunkCommits == SchemaInv => ~(Cardinality(Chunk) > StatementRows)
<1> SUFFICES ASSUME SchemaInv PROVE ~(Cardinality(Chunk) > StatementRows)
  OBVIOUS
<1>1. Unattributed \subseteq Rows
  BY DEF SchemaInv, Unattributed
<1>2. Chunk = Lowest(Unattributed)
  BY DEF Chunk, Lowest
<1>3. Chunk \subseteq Rows
  BY <1>1 DEF Chunk
<1>4. IsFiniteSet(Rows)
  BY FS_Interval, MigrationAssumption DEF Rows
<1>5. Cardinality(Chunk) \in Nat
  BY <1>3, <1>4, FS_Subset, FS_CardinalityType
<1>6. Cardinality(Chunk) <= BACKFILL_CHUNK_ROWS
  BY <1>1, <1>2, LowestAreFew
<1> QED
  BY <1>5, <1>6, MigrationAssumption

(* No action of the start-up itself ends it.                               *)
LEMMA StopsOnlyKilled == StartInv /\ [Next]_vars => (pc # "down" /\ pc' = "down" => Crash)
<1> SUFFICES ASSUME StartInv, [Next]_vars, pc # "down", ~Crash PROVE pc' # "down"
  BY Zenon
<1> USE DEF database, origin, control
<1>1. CASE Boot
  BY <1>1 DEF Boot
<1>2. CASE NextMigration
  BY <1>2 DEF NextMigration
<1>3. CASE Up
  BY <1>3 DEF Up, AddObject, Missing
<1>4. CASE Seed
  BY <1>4 DEF Seed
<1>5. CASE Backfill
  BY <1>5, ChunkCommits DEF Backfill, StartInv
<1>6. CASE ForgetKeys
  BY <1>6 DEF ForgetKeys
<1>7. CASE Record
  BY <1>7 DEF Record
<1>8. CASE UNCHANGED vars
  BY <1>8 DEF vars
<1> QED
  BY <1>1, <1>2, <1>3, <1>4, <1>5, <1>6, <1>7, <1>8 DEF Next, Work

(* What is left to do is a number, and not a large one.                    *)
LEMMA StepsCounted ==
    StartInv => /\ StepsBounded
                /\ Pace \in 0..12 /\ Cardinality(Unattributed) \in 0..MaxRows
                /\ pc = "up" => step \in 1..6 /\ Pace = 11 - step
<1> SUFFICES ASSUME StartInv
             PROVE  /\ StepsBounded
                    /\ Pace \in 0..12 /\ Cardinality(Unattributed) \in 0..MaxRows
                    /\ pc = "up" => step \in 1..6 /\ Pace = 11 - step
  OBVIOUS
<1>1. Len(Adds) = 21 /\ at \in 1..22 /\ step \in Nat \ {0}
  BY AddsType DEF StartInv, SchemaInv
<1>2. ASSUME pc = "up" PROVE step \in 1..6
  <2>1. at \in 1..21
    BY <1>1, <1>2 DEF StartInv, SchemaInv, AtWork, Migrations
  <2>2. Len(Adds[at]) \in 0..5
    BY <2>1, AddsType
  <2>3. step <= Len(Adds[at]) + 1
    BY <1>2 DEF StartInv, CompleteInv
  <2>4. \A len \in 0..5 : step <= len + 1 => step \in 1..6
    BY <1>1
  <2> QED
    BY <2>2, <2>3, <2>4, Zenon
<1>3. Pace \in 0..12 /\ (pc = "up" => Pace = 11 - step)
  BY <1>2 DEF Pace
<1>4. Unattributed \subseteq Rows
  BY DEF StartInv, SchemaInv, Unattributed
<1>5. Cardinality(Unattributed) \in 0..MaxRows
  BY <1>4, LeavesFewer
<1>6. StepsBounded
  <2> DEFINE pace == Pace  left == Cardinality(Unattributed)
  <2>1. pace \in 0..12 /\ left \in 0..MaxRows /\ StepsLeft = 20 * (21 + 1 - at) + pace + left
    BY <1>1, <1>3, <1>5 DEF StepsLeft
  <2> HIDE DEF pace, left
  <2>2. StepsLeft \in 0..(20 * 21 + 12 + MaxRows)
    BY <1>1, <2>1, MigrationAssumption
  <2> QED
    BY <1>1, <2>2 DEF StepsBounded
<1> QED
  BY <1>2, <1>3, <1>5, <1>6

(* How the measure falls: the next migration, or the next step of this one, *)
(* or fewer rows left to attribute.                                        *)
LEMMA Falls ==
  ASSUME NEW here \in 1..22, NEW there \in 1..22,
         NEW pace \in 0..12, NEW slower \in 0..12,
         NEW left \in Nat, NEW fewer \in Nat, fewer <= left,
         \/ there > here
         \/ there = here /\ slower < pace
         \/ there = here /\ slower <= pace /\ fewer < left
  PROVE  20 * (21 + 1 - there) + slower + fewer < 20 * (21 + 1 - here) + pace + left
OBVIOUS

(* Every step that is not a kill uses some of it up.                       *)
LEMMA Advances ==
    StartInv /\ StartInv' /\ [Next]_vars /\ pc # "down" /\ pc' # "down"
        => StepsLeft' < StepsLeft \/ UNCHANGED vars
<1> SUFFICES ASSUME StartInv, StartInv', [Next]_vars, pc # "down", pc' # "down", ~UNCHANGED vars
             PROVE  StepsLeft' < StepsLeft
  OBVIOUS
<1> DEFINE left == Cardinality(Unattributed)
<1>1. Len(Adds) = 21 /\ at \in 1..22 /\ at' \in 1..22
  BY AddsType DEF StartInv, SchemaInv
<1>2. /\ Pace \in 0..12 /\ left \in 0..MaxRows
      /\ pc = "up" => step \in 1..6 /\ Pace = 11 - step
  BY StepsCounted
<1>3. Unattributed \subseteq Rows /\ Unattributed' \subseteq Rows
  BY DEF StartInv, SchemaInv, Unattributed
<1>4. left' \in 0..MaxRows
  BY <1>3, LeavesFewer DEF SchemaInv
<1>5. history' = history => left' = left
  BY DEF Unattributed
<1>6. SUFFICES /\ Pace' \in 0..12 /\ left' <= left
               /\ \/ at' > at
                  \/ at' = at /\ Pace' < Pace
                  \/ at' = at /\ Pace' <= Pace /\ left' < left
  <2> DEFINE pace == Pace  more == Pace'  few == left'  many == left
  <2>1. pace \in 0..12 /\ few \in Nat /\ many \in Nat
    BY <1>2, <1>4, MigrationAssumption
  <2>2. /\ StepsLeft = 20 * (21 + 1 - at) + pace + many
        /\ StepsLeft' = 20 * (21 + 1 - at') + more + few
    BY <1>1 DEF StepsLeft
  <2>3. more \in 0..12 /\ few <= many
    BY <1>6
  <2>4. \/ at' > at
        \/ at' = at /\ more < pace
        \/ at' = at /\ more <= pace /\ few < many
    BY <1>6
  <2> HIDE DEF pace, more, few, many
  <2>5. 20 * (21 + 1 - at') + more + few < 20 * (21 + 1 - at) + pace + many
    BY <1>1, <2>1, <2>3, <2>4, Falls
  <2> QED
    BY <2>2, <2>5
<1> USE <1>1, <1>2, <1>4, <1>5, MigrationAssumption DEF database, origin, control
<1> HIDE DEF left
<1>a. CASE Boot
  BY <1>a DEF Boot
<1>b. CASE NextMigration
  BY <1>b DEF NextMigration, Pace
<1>c. CASE Up
  <2>1. /\ pc = "up" /\ at' = at /\ history' = history
        /\ \/ step' = step + 1 /\ pc' = "up"
           \/ pc' \in {"seed", "record"}
    BY <1>c DEF Up, AddObject, Dies
  <2> QED
    BY <2>1 DEF Pace
<1>d. CASE Seed
  BY <1>d DEF Seed, Pace
<1>e. CASE Backfill
  <2>1. /\ pc = "backfill" /\ at' = at
        /\ history' = [r \in DOMAIN history |-> IF r \in Chunk THEN Earliest(targets) ELSE history[r]]
        /\ pc' = IF Unattributed \ Chunk = {} THEN "forget" ELSE "backfill"
    BY <1>e, ChunkCommits DEF Backfill, StartInv
  <2>2. targets = {1}
    BY <2>1 DEF StartInv, UpgradeInv, DataInv
  <2>3. Unattributed' = Unattributed \ Lowest(Unattributed)
    BY <2>1, <2>2, EarliestOfSeed DEF Unattributed, Chunk, Lowest
  <2>4. left' <= left /\ (Unattributed # {} => left' < left)
    <3>1. Unattributed # {} => left' < left
      BY <1>3, <2>3, LeavesFewer DEF left
    <3>2. Unattributed = {} => left' = left
      BY <2>3 DEF left, Lowest
    <3> QED
      BY <3>1, <3>2
  <2>5. Pace = 2 /\ Pace' = IF Unattributed \ Chunk = {} THEN 1 ELSE 2
    BY <2>1 DEF Pace
  <2> QED
    BY <2>1, <2>4, <2>5
<1>f. CASE ForgetKeys
  BY <1>f DEF ForgetKeys, Pace
<1>g. CASE Record
  BY <1>g DEF Record, Pace
<1>h. CASE Crash
  BY <1>h DEF Crash, Dies
<1> QED
  BY <1>a, <1>b, <1>c, <1>d, <1>e, <1>f, <1>g, <1>h DEF Next, Work

(* The invariant of a start-up holds of every start of every upgrade.      *)
LEMMA StartAlways == Spec => []StartInv
<1>1. Init => StartInv
  BY UpgradeInit, SchemaInit, CompleteInit DEF StartInv
<1>2. StartInv /\ [Next]_vars => StartInv'
  BY UpgradeStep, SchemaStep, CompleteStep DEF StartInv
<1> QED
  BY <1>1, <1>2, PTL DEF Spec

(* Whatever version it came from and however often it was killed, a server *)
(* that is up has its whole schema; and on the way there nothing that a    *)
(* killed start did is taken back.                                         *)
THEOREM BootedCorrect == Spec => []BootedIsComplete /\ NothingIsUndone
<1>1. StartInv /\ [Next]_vars =>
        [/\ recorded \subseteq recorded' /\ schema \subseteq schema' /\ targets \subseteq targets'
         /\ legacy' => legacy
         /\ DOMAIN history' = DOMAIN history
         /\ \A r \in DOMAIN history : history[r] # 0 => history'[r] = history[r]]_vars
  BY KeepsAll
<1> QED
  BY StartAlways, CompleteAtBoot, <1>1, PTL DEF Spec, NothingIsUndone

(* A start-up that is not killed ends, and no later than it may: each of   *)
(* its steps uses up some of a bounded number, and none of them stops it.  *)
(* This is what UpgradeEnds rests on, for a history of any length.         *)
THEOREM UpgradeIsFinite == Spec => []StepsBounded /\ StartAdvances /\ OnlyKillsStop
<1>1. StartInv => StepsBounded
  BY StepsCounted
<1>2. StartInv /\ StartInv' /\ [Next]_vars => [pc # "down" /\ pc' # "down" => StepsLeft' < StepsLeft]_vars
  BY Advances
<1>3. StartInv /\ [Next]_vars => [pc # "down" /\ pc' = "down" => Crash]_vars
  BY StopsOnlyKilled
<1> QED
  BY StartAlways, <1>1, <1>2, <1>3, PTL DEF Spec, StartAdvances, OnlyKillsStop
=============================================================================
