---------------------------- MODULE AdminMutations ----------------------------
(***************************************************************************)
(* The operator's changes to targets and API tokens, the restored backup   *)
(* and the factory reset, one at a time through the queue of               *)
(* util/adminMutation.js; and what runs beside that queue and keys its     *)
(* rows by target id: the rounds and the restored histories, which read    *)
(* the targets once and write rows afterwards (controller/speedtests.js),  *)
(* and the recommendations behind a queue of their own.                    *)
(*                                                                         *)
(* One step per await. A target is [id, name, order, line]: line is a      *)
(* ghost, the identity of what is measured. It stays with a target through *)
(* renaming and reordering, and a restored row has the line of the live    *)
(* target it was matched with by name, or a new one. A row of the history  *)
(* is the id it was filed under, the line that was measured, and whether   *)
(* it is late: written after a restore had looked at the history, by a     *)
(* writer that read its targets before that restore replaced them.         *)
(***************************************************************************)
EXTENDS Integers, Sequences, FiniteSets

CONSTANTS Requests, Recorders, Names,
          Installed,     \* the names on record when the process starts, in order
          Files,         \* the backups: [rows, tokens, recommendations]
          Absent,        \* a backup says nothing of tokens, or of a row's order
          MAX_TOKENS,
          MaxListed,     \* bound: ids a request to reorder lists
          MaxCalls       \* bound: mutations asked for

OrderAt(rows, i) == IF rows[i].order = Absent THEN i - 1 ELSE rows[i].order

\* The values a sequence has more than once.
Repeated(values) ==
    {values[i] : i \in {j \in DOMAIN values :
                          \E k \in DOMAIN values : k # j /\ values[k] = values[j]}}

\* Of a backup nothing is asked but its types: its ids, names and orders may collide,
\* a file from before targets has no ids (0), and it may hold several rows of
\* recommendations. An old install may hold twins of one name.
ASSUME AdminAssumption ==
    /\ MAX_TOKENS \in Nat \ {0} /\ MaxListed \in Nat /\ MaxCalls \in Nat
    /\ Absent \notin Nat
    /\ \A names \in Installed : names \in Seq(Names)
    /\ \A f \in Files :
         /\ f.rows \in Seq([id : Nat, name : Names, order : Nat \cup {Absent}])
         /\ f.tokens \in 0..MAX_TOKENS \cup {Absent}
         /\ f.recommendations \in Nat

VARIABLES
    targets, nextId,        \* the table and its AUTOINCREMENT
    tokens,                 \* how many API tokens are stored
    recommendations,        \* how many rows: made by rounds, and restored
    history,
    queue, call,            \* mutateAdminEntities; the locals of each mutation
    recorder,               \* rounds and restored histories at work
    updates,                \* the queue of controller/recommendations.js
    lines, issued,          \* ghosts: lines so far; mutations so far
    shared                  \* ghost: what the rows last installed or restored share

tables == <<targets, nextId, lines, shared>>
recorderVars == <<history, recorder>>
vars == <<tables, tokens, recommendations, recorderVars, queue, call, updates, issued>>

Blank == [op |-> "none", at |-> "idle", id |-> 0, name |-> Absent, ids |-> <<>>,
          order |-> 0, file |-> Absent, occupied |-> {}, live |-> {}]
Quiet == [at |-> "idle", targets |-> {}, late |-> FALSE]

Init ==
    /\ \E names \in Installed :
         /\ targets = {[id |-> i, name |-> names[i], order |-> i - 1, line |-> i] : i \in DOMAIN names}
         /\ nextId = Len(names) + 1 /\ lines = Len(names) + 1
         /\ shared = [names |-> Repeated(names), orders |-> {}]
    /\ tokens = 0 /\ recommendations = [made |-> 0, restored |-> 0] /\ history = {}
    /\ queue = <<>> /\ call = [r \in Requests |-> Blank]
    /\ recorder = [c \in Recorders |-> Quiet] /\ updates = <<>>
    /\ issued = 0

Ids(rows) == {t.id : t \in rows}
Exists(id) == id \in Ids(targets)

-----------------------------------------------------------------------------
(* The queue: the front one runs, and leaves however it ended.             *)

Asked(r, asked) ==
    /\ call[r].op = "none" /\ issued < MaxCalls
    /\ call' = [call EXCEPT ![r] = [asked EXCEPT !.at = "queued"]]
    /\ queue' = Append(queue, r) /\ issued' = issued + 1
    /\ UNCHANGED <<tables, tokens, recommendations, recorderVars, updates>>

\* What a page that lists the targets can ask for, or a file be handed in for.
Asks(r) ==
    \/ \E n \in Names : Asked(r, [Blank EXCEPT !.op = "create", !.name = n])
    \/ \E id \in Ids(targets), n \in Names :
         Asked(r, [Blank EXCEPT !.op = "rename", !.id = id, !.name = n])
    \/ \E id \in Ids(targets) : Asked(r, [Blank EXCEPT !.op = "delete", !.id = id])
    \/ \E n \in 0..MaxListed : \E ids \in [1..n -> Ids(targets)] :
         Asked(r, [Blank EXCEPT !.op = "reorder", !.ids = ids])
    \/ \E op \in {"issue", "revoke", "reset"} : Asked(r, [Blank EXCEPT !.op = op])
    \/ \E f \in Files : Asked(r, [Blank EXCEPT !.op = "import", !.file = f])

\* Mutant: nothing waits for its turn.
RunsAtOnce(r) == r \in {queue[i] : i \in DOMAIN queue}

Runs(r) == queue # <<>> /\ Head(queue) = r

At(r, op, at) == Runs(r) /\ call[r].op = op /\ call[r].at = at

Leaves(r) == call' = [call EXCEPT ![r] = Blank] /\ queue' = Tail(queue)

Goes(r, next) == call' = [call EXCEPT ![r] = next] /\ UNCHANGED queue

\* It answers 400 or 404, or a statement of it is refused: nothing was written.
Refused(r) ==
    /\ Runs(r) /\ Leaves(r)
    /\ UNCHANGED <<tables, tokens, recommendations, recorderVars, updates, issued>>

Reads(r, next) ==
    /\ Goes(r, next)
    /\ UNCHANGED <<tables, tokens, recommendations, recorderVars, updates, issued>>

-----------------------------------------------------------------------------
(* The routes of targets and tokens. A guard that fails is Refused.        *)

nameTaken(name, excludeId) == \E t \in targets : t.id # excludeId /\ t.name = name

CreateChecks(r) ==
    /\ At(r, "create", "queued") /\ ~nameTaken(call[r].name, 0)
    /\ Reads(r, [call[r] EXCEPT !.at = "named"])

\* Mutant: the newest target is taken for the last one.
nextSortOrderOfNewest(order) ==
    IF targets = {} THEN order = 0
    ELSE \E last \in targets : order = last.order + 1 /\ \A t \in targets : t.id <= last.id

nextSortOrder(order) ==
    IF targets = {} THEN order = 0
    ELSE \E last \in targets : order = last.order + 1 /\ \A t \in targets : t.order <= last.order

CreateOrders(r) ==
    /\ At(r, "create", "named")
    /\ \E order \in {0} \cup {t.order + 1 : t \in targets} :
         /\ nextSortOrder(order)
         /\ Reads(r, [call[r] EXCEPT !.at = "ordered", !.order = order])

CreateInserts(r) ==
    /\ At(r, "create", "ordered") /\ Leaves(r)
    /\ targets' = targets \cup {[id |-> nextId, name |-> call[r].name,
                                 order |-> call[r].order, line |-> lines]}
    /\ nextId' = nextId + 1 /\ lines' = lines + 1
    /\ UNCHANGED <<shared, tokens, recommendations, recorderVars, updates, issued>>

\* PATCH /:id, of the name. Keeping its own name is no renaming.
RenameReads(r) ==
    /\ At(r, "rename", "queued") /\ Exists(call[r].id)
    /\ Reads(r, [call[r] EXCEPT !.at = "read", !.live = {t \in targets : t.id = call[r].id}])

RenameChecks(r) ==
    /\ At(r, "rename", "read")
    /\ \/ \E t \in call[r].live : t.name = call[r].name
       \/ ~nameTaken(call[r].name, call[r].id)
    /\ Reads(r, [call[r] EXCEPT !.at = "named"])

RenameWrites(r) ==
    /\ At(r, "rename", "named") /\ Leaves(r)
    /\ targets' = {IF t.id = call[r].id THEN [t EXCEPT !.name = call[r].name] ELSE t : t \in targets}
    /\ UNCHANGED <<nextId, lines, shared, tokens, recommendations, recorderVars, updates, issued>>

DeleteReads(r) ==
    /\ At(r, "delete", "queued") /\ Exists(call[r].id)
    /\ Reads(r, [call[r] EXCEPT !.at = "read"])

\* The rows it measured keep its id.
DeleteWrites(r) ==
    /\ At(r, "delete", "read") /\ Leaves(r)
    /\ targets' = {t \in targets : t.id # call[r].id}
    /\ UNCHANGED <<nextId, lines, shared, tokens, recommendations, recorderVars, updates, issued>>

coversAll(ids) ==
    /\ \A i, j \in DOMAIN ids : ids[i] = ids[j] => i = j
    /\ Len(ids) = Cardinality(targets)
    /\ \A t \in targets : \E i \in DOMAIN ids : ids[i] = t.id

ReorderReads(r) ==
    /\ At(r, "reorder", "queued") /\ coversAll(call[r].ids)
    /\ Reads(r, [call[r] EXCEPT !.at = "read"])

Reordered(t, ids) ==
    IF \E i \in DOMAIN ids : ids[i] = t.id
    THEN [t EXCEPT !.order = (CHOOSE i \in DOMAIN ids : ids[i] = t.id) - 1] ELSE t

ReorderWrites(r) ==
    /\ At(r, "reorder", "read") /\ Leaves(r)
    /\ targets' = {Reordered(t, call[r].ids) : t \in targets}
    /\ UNCHANGED <<nextId, lines, shared, tokens, recommendations, recorderVars, updates, issued>>

TokenCounts(r) ==
    /\ At(r, "issue", "queued") /\ tokens < MAX_TOKENS
    /\ Reads(r, [call[r] EXCEPT !.at = "read"])

TokenIssued(r) ==
    /\ At(r, "issue", "read") /\ Leaves(r) /\ tokens' = tokens + 1
    /\ UNCHANGED <<tables, recommendations, recorderVars, updates, issued>>

TokenRevoked(r) ==
    /\ At(r, "revoke", "queued") /\ tokens > 0 /\ Leaves(r) /\ tokens' = tokens - 1
    /\ UNCHANGED <<tables, recommendations, recorderVars, updates, issued>>

-----------------------------------------------------------------------------
(* importConfig. Which ids of the file have rows here is read first, then  *)
(* the live targets; each row is settled onto an id, and one transaction   *)
(* replaces the tables.                                                    *)

Rows(r) == call[r].file.rows

ImportReadsHistory(r) ==
    /\ At(r, "import", "queued")
    /\ \A i, j \in 1..Len(Rows(r)) : i # j /\ Rows(r)[i].id = Rows(r)[j].id => Rows(r)[i].id = 0
    /\ Reads(r, [call[r] EXCEPT !.at = "occupied",
                   !.occupied = Ids(history) \cap {Rows(r)[i].id : i \in 1..Len(Rows(r))}])

ImportReadsTargets(r) ==
    /\ At(r, "import", "occupied")
    /\ Reads(r, [call[r] EXCEPT !.at = "settling", !.live = targets])

\* Where a name is filed here: the first of its targets as they are listed, if any.
liveIdsByName(name, live) ==
    {t.id : t \in {u \in live : /\ u.name = name
                               /\ \A v \in live : v.name = name /\ v # u =>
                                    u.order < v.order \/ (u.order = v.order /\ u.id < v.id)}}

\* Mutant: an id no live target is known by is the file's to give.
restoredIdLoosely(row, occupied, live, taken) ==
    LET named == {t \in live : t.name = row.name}
        settled == IF \E t \in named : t.id = row.id THEN {row.id} ELSE liveIdsByName(row.name, live)
    IN  IF settled \ taken # {} THEN CHOOSE id \in settled \ taken : TRUE
        ELSE IF row.id \in taken THEN 0 ELSE row.id

\* Mutant: the file's number is asked before the name.
restoredIdByNumber(row, occupied, live, taken) ==
    IF row.id \in taken THEN 0
    ELSE IF row.id \in occupied /\ ~\E t \in live : t.id = row.id /\ t.name = row.name THEN 0
    ELSE row.id

\* The id of the live target of that name, its own if that wears it; else the file's own, unless it is
\* taken or history stands under it; 0 for a fresh one.
restoredId(row, occupied, live, taken) ==
    LET named == {t \in live : t.name = row.name}
        settled == IF \E t \in named : t.id = row.id THEN {row.id} ELSE liveIdsByName(row.name, live)
    IN  IF settled \ taken # {} THEN CHOOSE id \in settled \ taken : TRUE
        ELSE IF row.id \in taken \cup occupied THEN 0 ELSE row.id

ImportSettles(r) ==
    LET ids == call[r].ids
        k == Len(ids) + 1
        taken == {ids[i] : i \in DOMAIN ids} \ {0}
    IN  /\ At(r, "import", "settling") /\ k <= Len(Rows(r))
        /\ Reads(r, [call[r] EXCEPT !.ids =
                       Append(ids, restoredId(Rows(r)[k], call[r].occupied, call[r].live, taken))])

\* Rows with an id are written before those that take the next one.
Kept(r) == {call[r].ids[i] : i \in DOMAIN call[r].ids} \ {0}
FreshBefore(r, i) == Cardinality({j \in DOMAIN call[r].ids : j < i /\ call[r].ids[j] = 0})
\* The first id past every one assigned and every one kept.
FirstFree(r, base) ==
    /\ base >= nextId /\ \A id \in Kept(r) : id < base
    /\ base = nextId \/ base - 1 \in Kept(r)

\* A row that was matched with a live target by its name is that target still.
LineOf(r, i) ==
    LET same == {t \in call[r].live : t.id = call[r].ids[i] /\ t.name = Rows(r)[i].name}
    IN  IF same = {} THEN lines + i ELSE (CHOOSE t \in same : TRUE).line

Restored(r, i, base) ==
    [id |-> IF call[r].ids[i] = 0 THEN base + FreshBefore(r, i) ELSE call[r].ids[i],
     name |-> Rows(r)[i].name, order |-> OrderAt(Rows(r), i), line |-> LineOf(r, i)]

ImportCommits(r) ==
    LET n == Len(Rows(r)) IN
    /\ At(r, "import", "settling") /\ Len(call[r].ids) = n /\ Leaves(r)
    /\ \E base \in {nextId} \cup {id + 1 : id \in Kept(r)} :
         /\ FirstFree(r, base)
         /\ targets' = {Restored(r, i, base) : i \in 1..n}
         /\ nextId' = base + FreshBefore(r, n + 1)
    /\ lines' = lines + n + 1
    /\ shared' = [names |-> Repeated([i \in 1..n |-> Rows(r)[i].name]),
                  orders |-> Repeated([i \in 1..n |-> OrderAt(Rows(r), i)])]
    /\ tokens' = IF call[r].file.tokens = Absent THEN tokens ELSE call[r].file.tokens
    /\ recommendations' = [made |-> 0, restored |-> call[r].file.recommendations]
    /\ recorder' = [c \in Recorders |->
                      [recorder[c] EXCEPT !.late = recorder[c].at = "writing"]]
    /\ UNCHANGED <<history, updates, issued>>

\* factoryReset, as far as these tables go; the history stays.
ResetCommits(r) ==
    /\ At(r, "reset", "queued") /\ Leaves(r)
    /\ targets' = {} /\ tokens' = 0 /\ recommendations' = [made |-> 0, restored |-> 0]
    /\ shared' = [names |-> {}, orders |-> {}]
    /\ UNCHANGED <<nextId, lines, recorderVars, updates, issued>>

-----------------------------------------------------------------------------
(* Beside the queue: a round, or the restore of a history, reads the       *)
(* targets once and then writes rows under their ids, any number of them.  *)

adminVars == <<tables, tokens, queue, call, issued>>

RecorderReads(c) ==
    /\ recorder[c].at = "idle" /\ targets # {}
    /\ recorder' = [recorder EXCEPT ![c] = [at |-> "writing", late |-> FALSE,
                      targets |-> {[id |-> t.id, line |-> t.line] : t \in targets}]]
    /\ UNCHANGED <<adminVars, recommendations, history, updates>>

Restoring == \E r \in Requests : call[r].op = "import" /\ call[r].at \in {"occupied", "settling"}

RecorderWrites(c) ==
    /\ recorder[c].at = "writing"
    /\ \E t \in recorder[c].targets :
         history' = history \cup {[id |-> t.id, line |-> t.line,
                                   late |-> recorder[c].late \/ Restoring]}
    /\ UNCHANGED <<adminVars, recommendations, recorder, updates>>

\* The sweep, or a row or all of them deleted by hand.
HistoryRemoved ==
    /\ \E row \in history : history' = history \ {row}
    /\ UNCHANGED <<adminVars, recommendations, recorder, updates>>

RecorderEnds(c) ==
    /\ recorder[c].at = "writing" /\ recorder' = [recorder EXCEPT ![c] = Quiet]
    /\ UNCHANGED <<adminVars, recommendations, history, updates>>

\* A member of a round goes on to refresh the recommendations.
UpdateAsked(c) ==
    /\ recorder[c].at = "writing"
    /\ recorder' = [recorder EXCEPT ![c] = [Quiet EXCEPT !.at = "queued"]]
    /\ updates' = Append(updates, c)
    /\ UNCHANGED <<adminVars, recommendations, history>>

\* Mutant: applyUpdate without its queue.
UpdateRunsAtOnce(c) == recorder[c].at \in {"queued", "found", "missing"}

UpdateRuns(c) == updates # <<>> /\ Head(updates) = c

UpdateLeaves(c) == updates' = Tail(updates) /\ recorder' = [recorder EXCEPT ![c] = Quiet]

UpdateReads(c) ==
    /\ UpdateRuns(c) /\ recorder[c].at = "queued"
    /\ recorder' = [recorder EXCEPT ![c].at =
                      IF recommendations.made + recommendations.restored > 0 THEN "found" ELSE "missing"]
    /\ UNCHANGED <<adminVars, recommendations, history, updates>>

\* The figures of a row that is there, and nothing if it went since, or a new row.
UpdateWrites(c) ==
    /\ UpdateRuns(c) /\ recorder[c].at \in {"found", "missing"} /\ UpdateLeaves(c)
    /\ IF recorder[c].at = "missing"
       THEN recommendations' = [recommendations EXCEPT !.made = @ + 1]
       ELSE UNCHANGED recommendations
    /\ UNCHANGED <<adminVars, history>>

UpdateRefused(c) ==
    /\ UpdateRuns(c) /\ UpdateLeaves(c)
    /\ UNCHANGED <<adminVars, recommendations, history>>

-----------------------------------------------------------------------------
Serve(r) ==
    \/ CreateChecks(r) \/ CreateOrders(r) \/ CreateInserts(r)
    \/ RenameReads(r) \/ RenameChecks(r) \/ RenameWrites(r)
    \/ DeleteReads(r) \/ DeleteWrites(r) \/ ReorderReads(r) \/ ReorderWrites(r)
    \/ TokenCounts(r) \/ TokenIssued(r) \/ TokenRevoked(r)
    \/ ImportReadsHistory(r) \/ ImportReadsTargets(r) \/ ImportSettles(r) \/ ImportCommits(r)
    \/ ResetCommits(r) \/ Refused(r)

Update(c) == UpdateReads(c) \/ UpdateWrites(c) \/ UpdateRefused(c)

Next ==
    \/ \E r \in Requests : Asks(r) \/ Serve(r)
    \/ \E c \in Recorders :
         RecorderReads(c) \/ RecorderWrites(c) \/ RecorderEnds(c) \/ UpdateAsked(c) \/ Update(c)
    \/ HistoryRemoved

Spec == Init /\ [][Next]_vars

-----------------------------------------------------------------------------
CallType == [op : {"none", "create", "rename", "delete", "reorder", "issue", "revoke", "reset", "import"},
             at : {"idle", "queued", "named", "ordered", "read", "occupied", "settling"},
             id : Nat, name : Names \cup {Absent}, ids : Seq(Nat), order : Nat,
             file : Files \cup {Absent}, occupied : SUBSET Nat,
             live : SUBSET [id : Nat, name : Names, order : Nat, line : Nat]]

\* The types; and the two limits no table enforces, MAX_TOKENS and one row of
\* recommendations made by the rounds since the last restore or reset.
TypeOK ==
    /\ targets \subseteq [id : Nat \ {0}, name : Names, order : Nat, line : Nat]
    /\ shared \in [names : SUBSET Names, orders : SUBSET Nat]
    /\ nextId \in Nat \ {0} /\ lines \in Nat /\ issued \in 0..MaxCalls
    /\ tokens \in 0..MAX_TOKENS /\ recommendations \in [made : 0..1, restored : Nat]
    /\ history \subseteq [id : Nat \ {0}, line : Nat, late : BOOLEAN]
    /\ queue \in Seq(Requests) /\ call \in [Requests -> CallType]
    /\ recorder \in [Recorders -> [at : {"idle", "writing", "queued", "found", "missing"},
                                   targets : SUBSET [id : Nat \ {0}, line : Nat], late : BOOLEAN]]
    /\ updates \in Seq(Recorders)

\* No two targets share an id; and none a name (the key a history backup is
\* restored by) or a place in the order, whatever creations, renamings,
\* reorderings and restores were asked for at the same time - unless the backup
\* last restored, or the install, gave it to two rows itself, which is let in on
\* purpose: nothing done here adds to those, or leaves any after a reset.
TargetsAreDistinct ==
    \A t, u \in targets : t # u =>
      /\ t.id # u.id
      /\ t.name = u.name => t.name \in shared.names
      /\ t.order = u.order => t.order \in shared.orders

\* A measurement is filed under an id that only the line it measured ever wears:
\* not a new target, and not a restored one that the backup gave that number.
\* Excepted are the rows written after a restore had looked.
HistoryKeepsItsLine ==
    \A row \in history, t \in targets : row.id = t.id /\ ~row.late => row.line = t.line

\* No step takes a line's measurements away from it while its name stays on
\* record, if it is the only one of that name: a restore gives its id to a row of
\* that name, whatever ids the backup names, and restoring the same backup again
\* does so again. Of twins only the contract says which keep theirs.
NameKeepsItsHistory ==
    [][\A t \in targets :
         /\ \A u \in targets : u.name = t.name => u = t
         /\ \E row \in history : row.id = t.id /\ ~row.late
         /\ \E u \in targets' : u.name = t.name
         => \E u \in targets' : u.name = t.name /\ u.id = t.id]_vars

-----------------------------------------------------------------------------
(* The contract the queue implements. It knows nothing of lines, or of which *)
(* rows are late.                                                          *)

\* The restore that has looked at the history and not yet written: what it goes by.
Looks == {[file |-> call[r].file, occupied |-> call[r].occupied] :
            r \in {q \in Requests : call[q].op = "import" /\ call[q].at \in {"occupied", "settling"}}}

Contract == INSTANCE AdminContract WITH
    targets <- {[id |-> t.id, name |-> t.name, order |-> t.order] : t \in targets},
    measured <- Ids(history), looks <- Looks

\* Mutations do not see each other half done: whatever was asked for at the same
\* time, each is one step on the tables as it finds them - what it checked several
\* awaits ago is still so when it writes. Only a restore is two: it goes by the
\* history it has read, and what is measured from then on it does not know of;
\* between the two no other mutation is seen.
ImplementsContract == Contract!Spec
=============================================================================
