------------------------- MODULE AdminMutationsProofs -------------------------
(***************************************************************************)
(* What holds of AdminMutations for any number of requests, rounds, names  *)
(* and backups, twins included. The argument: only the front of the queue is   *)
(* past its first await, so what it has read of the targets is still so    *)
(* when it writes; and what a restore has read of the history is out of    *)
(* date only by rows that are marked late.                                 *)
(***************************************************************************)
EXTENDS AdminMutations, SequenceTheorems, FiniteSetTheorems, TLAPS

USE AdminAssumption

Started(r) == call[r].at \notin {"idle", "queued"}

\* What came in with the request.
WellFormed(r) ==
    /\ call[r].op \in {"create", "rename"} => call[r].name \in Names
    /\ call[r].op = "import" => call[r].file \in Files
    /\ call[r].op = "import" /\ call[r].at \in {"queued", "occupied"} => call[r].ids = <<>>
    /\ call[r].op = "none" => call[r].at = "idle"

\* What a mutation that has started goes by.
KnowsName(r) ==
    /\ call[r].op = "create" /\ call[r].at \in {"named", "ordered"} =>
         ~nameTaken(call[r].name, 0)
    /\ call[r].op = "create" /\ call[r].at = "ordered" =>
         \A t \in targets : t.order < call[r].order
    /\ call[r].op = "rename" /\ call[r].at = "read" =>
         call[r].live = {t \in targets : t.id = call[r].id}
    /\ call[r].op = "rename" /\ call[r].at = "named" =>
         \/ ~nameTaken(call[r].name, call[r].id)
         \/ \E t \in targets : t.id = call[r].id /\ t.name = call[r].name
    /\ call[r].op = "reorder" /\ call[r].at = "read" => coversAll(call[r].ids)

KnowsRoom(r) == call[r].op = "issue" /\ call[r].at = "read" => tokens < MAX_TOKENS

FileIds(r) == {Rows(r)[i].id : i \in 1..Len(Rows(r))}
KnowsHistory(r) ==
    call[r].op = "import" /\ call[r].at \in {"occupied", "settling"} =>
        \A row \in history : ~row.late /\ row.id \in FileIds(r) => row.id \in call[r].occupied

\* No other target has its name.
Alone(t) == \A u \in targets : u.name = t.name => u = t

\* A row's id is free of it, or that of a live target of its name, or its own with
\* no history seen under it; and if that name is one target's only, or the row's own
\* number one of its targets', that target has lost its id to another row at most.
Settled(r, i) ==
    LET ids == call[r].ids IN
    /\ ids[i] # 0 =>
         \/ \E t \in targets : t.id = ids[i] /\ t.name = Rows(r)[i].name
         \/ ids[i] = Rows(r)[i].id /\ ids[i] \notin call[r].occupied
    /\ \A t \in targets : t.name = Rows(r)[i].name /\ (Alone(t) \/ Rows(r)[i].id = t.id) =>
         ids[i] = t.id \/ \E j \in 1..Len(ids) : j # i /\ ids[j] = t.id
    /\ \A j \in 1..Len(ids) : i # j /\ ids[i] # 0 => ids[i] # ids[j]

KnowsTargets(r) ==
    call[r].op = "import" /\ call[r].at = "settling" =>
        /\ call[r].live = targets
        /\ Len(call[r].ids) <= Len(Rows(r))
        /\ \A i \in 1..Len(call[r].ids) : Settled(r, i)

Knows(r) == KnowsName(r) /\ KnowsRoom(r) /\ KnowsHistory(r) /\ KnowsTargets(r)

QueueInv == \A r \in Requests : WellFormed(r) /\ (Started(r) => Runs(r))
KnowledgeInv == \A r \in Requests : Knows(r)

\* An id that was given is never given again.
IdsInv ==
    /\ \A t \in targets : t.id < nextId
    /\ \A row \in history : row.id < nextId
    /\ \A c \in Recorders : \A t \in recorder[c].targets : t.id < nextId

\* What a writer that is not late has read is still so.
SnapshotInv ==
    \A c \in Recorders : recorder[c].at = "writing" /\ ~recorder[c].late =>
        \A s \in recorder[c].targets, t \in targets : s.id = t.id => s.line = t.line

\* Only the front of the other queue is past its read.
UpdateInv ==
    \A c \in Recorders :
        /\ recorder[c].at \in {"found", "missing"} => UpdateRuns(c)
        /\ recorder[c].at = "missing" => recommendations.made = 0

IInv == /\ TypeOK /\ TargetsAreDistinct /\ HistoryKeepsItsLine
        /\ QueueInv /\ KnowledgeInv /\ IdsInv /\ SnapshotInv /\ UpdateInv

LEMMA BlankType == Blank \in CallType
BY EmptySeq DEF Blank, CallType

LEMMA FileRows ==
    ASSUME NEW f \in Files
    PROVE  /\ Len(f.rows) \in Nat
           /\ f.rows \in Seq([id : Nat, name : Names, order : Nat \cup {Absent}])
           /\ \A i \in 1..Len(f.rows) :
                /\ f.rows[i] \in [id : Nat, name : Names, order : Nat \cup {Absent}]
                /\ OrderAt(f.rows, i) \in Nat
<1> DEFINE Row == [id : Nat, name : Names, order : Nat \cup {Absent}]
<1>0. f.rows \in Seq(Row)
  BY Zenon
<1> HIDE DEF Row
<1>1. Len(f.rows) \in Nat
  BY <1>0, LenProperties
<1>2. ASSUME NEW i \in 1..Len(f.rows)
      PROVE  f.rows[i] \in Row /\ OrderAt(f.rows, i) \in Nat
  <2>1. f.rows[i] \in Row
    BY <1>0, ElementOfSeq
  <2>2. f.rows[i].order \in Nat \cup {Absent}
    BY <2>1 DEF Row
  <2> QED BY <2>1, <2>2, <1>1 DEF OrderAt
<1> QED BY <1>0, <1>1, <1>2 DEF Row

-----------------------------------------------------------------------------
\* The inductive invariant holds when the process starts.
THEOREM InitIInv == Init => IInv
<1> SUFFICES ASSUME Init PROVE IInv
  OBVIOUS
<1>1. PICK names \in Installed :
         /\ targets = {[id |-> i, name |-> names[i], order |-> i - 1, line |-> i] : i \in DOMAIN names}
         /\ nextId = Len(names) + 1 /\ lines = Len(names) + 1
         /\ shared = [names |-> Repeated(names), orders |-> {}]
  BY DEF Init
<1>2. /\ names \in Seq(Names) /\ DOMAIN names = 1..Len(names) /\ Len(names) \in Nat
      /\ \A i \in DOMAIN names : names[i] \in Names
  OBVIOUS
<1>3. /\ history = {} /\ queue = <<>> /\ updates = <<>> /\ tokens = 0 /\ issued = 0
      /\ recommendations = [made |-> 0, restored |-> 0]
      /\ call = [r \in Requests |-> Blank] /\ recorder = [c \in Recorders |-> Quiet]
  BY DEF Init
<1>4. TypeOK
  <2>1. Repeated(names) \subseteq Names
    BY <1>2 DEF Repeated
  <2> QED BY <1>1, <1>2, <1>3, <2>1, BlankType, EmptySeq DEF TypeOK, Quiet
<1>5. TargetsAreDistinct /\ HistoryKeepsItsLine
  <2>1. \A i, j \in DOMAIN names : i # j /\ names[i] = names[j] => names[i] \in Repeated(names)
    BY DEF Repeated
  <2>2. HistoryKeepsItsLine
    BY <1>3 DEF HistoryKeepsItsLine
  <2> QED BY <1>1, <1>2, <2>1, <2>2 DEF TargetsAreDistinct
<1>6. QueueInv
  BY <1>3 DEF QueueInv, WellFormed, Started, Blank
<1>7. KnowledgeInv
  BY <1>3 DEF KnowledgeInv, Knows, KnowsName, KnowsRoom, KnowsHistory, KnowsTargets, Blank
<1>8. IdsInv /\ SnapshotInv /\ UpdateInv
  BY <1>1, <1>2, <1>3 DEF IdsInv, SnapshotInv, UpdateInv, Quiet
<1> QED BY <1>4, <1>5, <1>6, <1>7, <1>8 DEF IInv
-----------------------------------------------------------------------------
(* What is common to the steps of the queue.                               *)

\* A mutation that leaves takes the only one that had started with it.
LEMMA LeavesQueue ==
    ASSUME IInv, NEW r \in Requests, Runs(r), Leaves(r)
    PROVE  /\ queue' \in Seq(Requests) /\ call' \in [Requests -> CallType]
           /\ QueueInv' /\ KnowledgeInv'
           /\ \A q \in Requests : call'[q].at \in {"idle", "queued"}
<1>1. queue' \in Seq(Requests) /\ call' \in [Requests -> CallType]
  BY BlankType, HeadTailProperties DEF IInv, TypeOK, Leaves, Runs
<1>2. ASSUME NEW q \in Requests PROVE call'[q].at \in {"idle", "queued"} /\ WellFormed(q)'
  <2>1. CASE q = r
    BY <2>1 DEF IInv, TypeOK, Leaves, Blank, WellFormed
  <2>2. CASE q # r
    <3>1. ~Runs(q) /\ call'[q] = call[q]
      BY <2>2 DEF Runs, Leaves, IInv, TypeOK
    <3> QED BY <3>1 DEF IInv, QueueInv, Started, WellFormed
  <2> QED BY <2>1, <2>2
<1>3. QueueInv'
  BY <1>2 DEF QueueInv, Started
<1>4. KnowledgeInv'
  <2> SUFFICES ASSUME NEW q \in Requests PROVE Knows(q)'
    BY DEF KnowledgeInv
  <2> QED BY <1>2 DEF Knows, KnowsName, KnowsRoom, KnowsHistory, KnowsTargets
<1> QED BY <1>1, <1>2, <1>3, <1>4

\* A mutation that goes on needs to know what its next await is entered with.
LEMMA ReadsOn ==
    ASSUME IInv, NEW r \in Requests, Runs(r), NEW next \in CallType, Reads(r, next),
           next.op # "none", WellFormed(r)', Knows(r)'
    PROVE  IInv'
<1>1. /\ call' = [call EXCEPT ![r] = next]
      /\ UNCHANGED <<queue, targets, nextId, lines, shared, tokens, recommendations, history, recorder,
                     updates, issued>>
  BY DEF Reads, Goes, tables, recorderVars
<1>2. TypeOK'
  BY <1>1 DEF IInv, TypeOK
<1>3. QueueInv'
  <2> SUFFICES ASSUME NEW q \in Requests PROVE WellFormed(q)' /\ (Started(q)' => Runs(q)')
    BY DEF QueueInv
  <2>1. Runs(r)'
    BY <1>1 DEF Runs
  <2>2. q # r => call'[q] = call[q]
    BY <1>1 DEF IInv, TypeOK
  <2> QED BY <1>1, <2>1, <2>2 DEF IInv, QueueInv, WellFormed, Started, Runs
<1>4. KnowledgeInv'
  <2> SUFFICES ASSUME NEW q \in Requests, q # r PROVE Knows(q)'
    BY DEF KnowledgeInv
  <2>1. call'[q] = call[q]
    BY <1>1 DEF IInv, TypeOK
  <2>2. Knows(q)
    BY DEF IInv, KnowledgeInv
  <2> QED BY <1>1, <2>1, <2>2 DEF Knows, KnowsName, KnowsRoom, KnowsHistory, KnowsTargets,
        nameTaken, coversAll, FileIds, Rows, Settled, Alone
<1>5. TargetsAreDistinct' /\ HistoryKeepsItsLine' /\ IdsInv' /\ SnapshotInv' /\ UpdateInv'
  BY <1>1 DEF IInv, TargetsAreDistinct, HistoryKeepsItsLine, IdsInv, SnapshotInv, UpdateInv, UpdateRuns
<1> QED BY <1>2, <1>3, <1>4, <1>5 DEF IInv

LEMMA AskedInv ==
    ASSUME IInv, NEW r \in Requests, NEW asked \in CallType, Asked(r, asked),
           asked.op # "none", asked.ids = <<>> \/ asked.op = "reorder",
           asked.op \in {"create", "rename"} => asked.name \in Names,
           asked.op = "import" => asked.file \in Files
    PROVE  IInv'
<1> DEFINE next == [asked EXCEPT !.at = "queued"]
<1>1. /\ call' = [call EXCEPT ![r] = next] /\ queue' = Append(queue, r)
      /\ call[r].op = "none" /\ issued < MaxCalls /\ issued' = issued + 1
      /\ UNCHANGED <<targets, nextId, lines, shared, tokens, recommendations, history, recorder, updates>>
  BY DEF Asked, tables, recorderVars
<1>2. /\ next \in CallType /\ next.at = "queued" /\ next.op = asked.op /\ next.ids = asked.ids
      /\ next.name = asked.name /\ next.file = asked.file
  BY DEF CallType
<1> HIDE DEF next
<1>3. TypeOK'
  BY <1>1, <1>2 DEF IInv, TypeOK
<1>4. ASSUME NEW q \in Requests PROVE WellFormed(q)' /\ (Started(q)' => Runs(q)') /\ Knows(q)'
  <2>1. CASE q = r
    <3>1. call'[q] = next
      BY <1>1, <2>1 DEF IInv, TypeOK
    <3> QED BY <1>2, <3>1 DEF WellFormed, Started, Knows, KnowsName, KnowsRoom, KnowsHistory, KnowsTargets
  <2>2. CASE q # r
    <3>1. call'[q] = call[q] /\ WellFormed(q) /\ (Started(q) => Runs(q)) /\ Knows(q)
      BY <1>1, <2>2 DEF IInv, TypeOK, QueueInv, KnowledgeInv
    <3>2. Runs(q) => Runs(q)'
      BY <1>1 DEF Runs, IInv, TypeOK
    <3>3. WellFormed(q)' /\ (Started(q)' => Runs(q)')
      BY <3>1, <3>2 DEF WellFormed, Started
    <3>4. KnowsName(q)' /\ KnowsRoom(q)'
      BY <1>1, <3>1 DEF Knows, KnowsName, KnowsRoom, nameTaken, coversAll
    <3>5. KnowsHistory(q)'
      <4>1. FileIds(q)' = FileIds(q)
        BY <3>1 DEF FileIds, Rows
      <4> QED BY <1>1, <3>1, <4>1 DEF Knows, KnowsHistory
    <3>6. KnowsTargets(q)'
      BY <1>1, <3>1 DEF Knows, KnowsTargets, Rows, Settled, Alone
    <3> QED BY <3>3, <3>4, <3>5, <3>6 DEF Knows
  <2> QED BY <2>1, <2>2
<1>5. TargetsAreDistinct' /\ HistoryKeepsItsLine' /\ IdsInv' /\ SnapshotInv' /\ UpdateInv'
  BY <1>1 DEF IInv, TargetsAreDistinct, HistoryKeepsItsLine, IdsInv, SnapshotInv, UpdateInv, UpdateRuns
<1> QED BY <1>3, <1>4, <1>5 DEF IInv, QueueInv, KnowledgeInv

\* What is asked for is a call of its type.
LEMMA AsksAsked == ASSUME IInv, NEW r \in Requests, Asks(r) PROVE \E asked \in CallType : Asked(r, asked)
<1>0. \A id \in Ids(targets) : id \in Nat
  BY DEF Ids, IInv, TypeOK
<1>1. \A n \in Names : [Blank EXCEPT !.op = "create", !.name = n] \in CallType
  BY BlankType DEF CallType
<1>2. \A id \in Ids(targets), n \in Names : [Blank EXCEPT !.op = "rename", !.id = id, !.name = n] \in CallType
  BY <1>0, BlankType DEF CallType
<1>3. \A id \in Ids(targets) : [Blank EXCEPT !.op = "delete", !.id = id] \in CallType
  BY <1>0, BlankType DEF CallType
<1>4. \A n \in 0..MaxListed : \A ids \in [1..n -> Ids(targets)] :
        [Blank EXCEPT !.op = "reorder", !.ids = ids] \in CallType
  <2> TAKE n \in 0..MaxListed
  <2> TAKE ids \in [1..n -> Ids(targets)]
  <2>1. n \in Nat /\ ids \in [1..n -> Nat]
    BY <1>0
  <2>2. ids \in Seq(Nat)
    BY <2>1, SeqDef
  <2> QED BY <2>2, BlankType DEF CallType
<1>5. \A op \in {"issue", "revoke", "reset"} : [Blank EXCEPT !.op = op] \in CallType
  BY BlankType DEF CallType
<1>6. \A f \in Files : [Blank EXCEPT !.op = "import", !.file = f] \in CallType
  BY BlankType DEF CallType
<1> QED BY <1>1, <1>2, <1>3, <1>4, <1>5, <1>6, Zenon DEF Asks

LEMMA AsksInv == ASSUME IInv, NEW r \in Requests, Asks(r) PROVE IInv'
<1>0. \A id \in Ids(targets) : id \in Nat
  BY DEF Ids, IInv, TypeOK
<1>1. ASSUME NEW n \in Names, Asked(r, [Blank EXCEPT !.op = "create", !.name = n]) PROVE IInv'
  <2>1. [Blank EXCEPT !.op = "create", !.name = n] \in CallType
    BY BlankType DEF CallType
  <2> QED BY <1>1, <2>1, AskedInv DEF Blank
<1>2. ASSUME NEW id \in Ids(targets), NEW n \in Names,
             Asked(r, [Blank EXCEPT !.op = "rename", !.id = id, !.name = n]) PROVE IInv'
  <2>1. [Blank EXCEPT !.op = "rename", !.id = id, !.name = n] \in CallType
    BY <1>0, BlankType DEF CallType
  <2> QED BY <1>2, <2>1, AskedInv DEF Blank
<1>3. ASSUME NEW id \in Ids(targets), Asked(r, [Blank EXCEPT !.op = "delete", !.id = id]) PROVE IInv'
  <2>1. [Blank EXCEPT !.op = "delete", !.id = id] \in CallType
    BY <1>0, BlankType DEF CallType
  <2> QED BY <1>3, <2>1, AskedInv DEF Blank
<1>4. ASSUME NEW n \in 0..MaxListed, NEW ids \in [1..n -> Ids(targets)],
             Asked(r, [Blank EXCEPT !.op = "reorder", !.ids = ids]) PROVE IInv'
  <2>0. n \in Nat /\ ids \in [1..n -> Nat]
    BY <1>0
  <2>1. ids \in Seq(Nat)
    BY <2>0, SeqDef
  <2>2. [Blank EXCEPT !.op = "reorder", !.ids = ids] \in CallType
    BY <2>1, BlankType DEF CallType
  <2> QED BY <1>4, <2>2, AskedInv DEF Blank
<1>5. ASSUME NEW op \in {"issue", "revoke", "reset"}, Asked(r, [Blank EXCEPT !.op = op]) PROVE IInv'
  <2>1. [Blank EXCEPT !.op = op] \in CallType
    BY BlankType DEF CallType
  <2> QED BY <1>5, <2>1, AskedInv DEF Blank
<1>6. ASSUME NEW f \in Files, Asked(r, [Blank EXCEPT !.op = "import", !.file = f]) PROVE IInv'
  <2>1. [Blank EXCEPT !.op = "import", !.file = f] \in CallType
    BY BlankType DEF CallType
  <2> QED BY <1>6, <2>1, AskedInv DEF Blank
<1> QED BY <1>1, <1>2, <1>3, <1>4, <1>5, <1>6 DEF Asks
-----------------------------------------------------------------------------
(* The reads: what each has learned holds until it is acted upon.          *)

LEMMA RequestRead ==
    ASSUME IInv, NEW r \in Requests, NEW op, NEW at, At(r, op, at), NEW next \in CallType,
           Reads(r, next)
    PROVE  call' = [call EXCEPT ![r] = next] /\ call'[r] = next /\ call[r] \in CallType
           /\ Runs(r) /\ WellFormed(r) /\ Knows(r) /\ call[r].op = op /\ call[r].at = at
           /\ UNCHANGED <<targets, tokens, history>>
BY DEF At, Reads, Goes, tables, recorderVars, IInv, TypeOK, QueueInv, KnowledgeInv

LEMMA RouteReadsInv ==
    ASSUME IInv, NEW r \in Requests,
           \/ CreateChecks(r) \/ CreateOrders(r) \/ RenameReads(r) \/ RenameChecks(r)
           \/ DeleteReads(r) \/ ReorderReads(r) \/ TokenCounts(r)
    PROVE  IInv'
<1>0. call[r] \in CallType
  BY DEF IInv, TypeOK
<1>1. ASSUME CreateChecks(r) PROVE IInv'
  <2> DEFINE next == [call[r] EXCEPT !.at = "named"]
  <2>1. next \in CallType /\ next.op = call[r].op /\ next.name = call[r].name /\ next.at = "named"
    BY <1>0 DEF CallType
  <2> HIDE DEF next
  <2>2. At(r, "create", "queued") /\ Reads(r, next) /\ ~nameTaken(call[r].name, 0)
    BY <1>1 DEF CreateChecks, next
  <2>3. WellFormed(r)' /\ Knows(r)'
    BY <2>1, <2>2, RequestRead DEF WellFormed, Knows, KnowsName, KnowsRoom, KnowsHistory, KnowsTargets, nameTaken
  <2> QED BY <2>1, <2>2, <2>3, RequestRead, ReadsOn
<1>2. ASSUME CreateOrders(r) PROVE IInv'
  <2>1. PICK order \in {0} \cup {t.order + 1 : t \in targets} :
          nextSortOrder(order) /\ Reads(r, [call[r] EXCEPT !.at = "ordered", !.order = order])
    BY <1>2 DEF CreateOrders
  <2> DEFINE next == [call[r] EXCEPT !.at = "ordered", !.order = order]
  <2>2. order \in Nat /\ \A t \in targets : t.order < order
    <3>1. \A t \in targets : t.order \in Nat
      BY DEF IInv, TypeOK
    <3>2. order \in Nat
      BY <2>1, <3>1
    <3>3. \A t \in targets : t.order < order
      BY <2>1, <3>1, <3>2 DEF nextSortOrder
    <3> QED BY <3>2, <3>3
  <2>3. /\ next \in CallType /\ next.op = call[r].op /\ next.name = call[r].name /\ next.at = "ordered"
        /\ next.order = order
    BY <1>0, <2>2 DEF CallType
  <2>4. Reads(r, next)
    BY <2>1
  <2> HIDE DEF next
  <2>5. At(r, "create", "named")
    BY <1>2 DEF CreateOrders
  <2>6. WellFormed(r)' /\ Knows(r)'
    BY <2>2, <2>3, <2>4, <2>5, RequestRead DEF WellFormed, Knows, KnowsName, KnowsRoom, KnowsHistory, KnowsTargets, nameTaken
  <2> QED BY <2>3, <2>4, <2>5, <2>6, RequestRead, ReadsOn
<1>3. ASSUME RenameReads(r) PROVE IInv'
  <2> DEFINE next == [call[r] EXCEPT !.at = "read", !.live = {t \in targets : t.id = call[r].id}]
  <2>0. {t \in targets : t.id = call[r].id} \in SUBSET [id : Nat, name : Names, order : Nat, line : Nat]
    BY DEF IInv, TypeOK
  <2>1. /\ next \in CallType /\ next.op = call[r].op /\ next.name = call[r].name /\ next.at = "read"
        /\ next.id = call[r].id /\ next.live = {t \in targets : t.id = call[r].id}
    BY <1>0, <2>0 DEF CallType
  <2>2. At(r, "rename", "queued") /\ Reads(r, next)
    BY <1>3 DEF RenameReads
  <2> HIDE DEF next
  <2>3. WellFormed(r)' /\ Knows(r)'
    BY <2>1, <2>2, RequestRead DEF WellFormed, Knows, KnowsName, KnowsRoom, KnowsHistory, KnowsTargets
  <2> QED BY <2>1, <2>2, <2>3, RequestRead, ReadsOn
<1>4. ASSUME RenameChecks(r) PROVE IInv'
  <2> DEFINE next == [call[r] EXCEPT !.at = "named"]
  <2>1. /\ next \in CallType /\ next.op = call[r].op /\ next.name = call[r].name /\ next.at = "named"
        /\ next.id = call[r].id
    BY <1>0 DEF CallType
  <2>2. At(r, "rename", "read") /\ Reads(r, next)
    BY <1>4 DEF RenameChecks
  <2> HIDE DEF next
  <2>3. \/ ~nameTaken(call[r].name, call[r].id)
        \/ \E t \in targets : t.id = call[r].id /\ t.name = call[r].name
    <3>1. call[r].live = {t \in targets : t.id = call[r].id}
      BY <2>1, <2>2, RequestRead DEF Knows, KnowsName
    <3> QED BY <1>4, <3>1 DEF RenameChecks
  <2>4. WellFormed(r)' /\ Knows(r)'
    BY <2>1, <2>2, <2>3, RequestRead DEF WellFormed, Knows, KnowsName, KnowsRoom, KnowsHistory, KnowsTargets, nameTaken
  <2> QED BY <2>1, <2>2, <2>4, RequestRead, ReadsOn
<1>5. ASSUME DeleteReads(r) PROVE IInv'
  <2> DEFINE next == [call[r] EXCEPT !.at = "read"]
  <2>1. next \in CallType /\ next.op = call[r].op /\ next.at = "read"
    BY <1>0 DEF CallType
  <2>2. At(r, "delete", "queued") /\ Reads(r, next)
    BY <1>5 DEF DeleteReads
  <2> HIDE DEF next
  <2>3. WellFormed(r)' /\ Knows(r)'
    BY <2>1, <2>2, RequestRead DEF WellFormed, Knows, KnowsName, KnowsRoom, KnowsHistory, KnowsTargets
  <2> QED BY <2>1, <2>2, <2>3, RequestRead, ReadsOn
<1>6. ASSUME ReorderReads(r) PROVE IInv'
  <2> DEFINE next == [call[r] EXCEPT !.at = "read"]
  <2>1. next \in CallType /\ next.op = call[r].op /\ next.at = "read" /\ next.ids = call[r].ids
    BY <1>0 DEF CallType
  <2>2. At(r, "reorder", "queued") /\ Reads(r, next) /\ coversAll(call[r].ids)
    BY <1>6 DEF ReorderReads
  <2> HIDE DEF next
  <2>3. WellFormed(r)' /\ Knows(r)'
    BY <2>1, <2>2, RequestRead DEF WellFormed, Knows, KnowsName, KnowsRoom, KnowsHistory, KnowsTargets, coversAll
  <2> QED BY <2>1, <2>2, <2>3, RequestRead, ReadsOn
<1>7. ASSUME TokenCounts(r) PROVE IInv'
  <2> DEFINE next == [call[r] EXCEPT !.at = "read"]
  <2>1. next \in CallType /\ next.op = call[r].op /\ next.at = "read"
    BY <1>0 DEF CallType
  <2>2. At(r, "issue", "queued") /\ Reads(r, next) /\ tokens < MAX_TOKENS
    BY <1>7 DEF TokenCounts
  <2> HIDE DEF next
  <2>3. WellFormed(r)' /\ Knows(r)'
    BY <2>1, <2>2, RequestRead DEF WellFormed, Knows, KnowsName, KnowsRoom, KnowsHistory, KnowsTargets
  <2> QED BY <2>1, <2>2, <2>3, RequestRead, ReadsOn
<1> QED BY <1>1, <1>2, <1>3, <1>4, <1>5, <1>6, <1>7
LEMMA ImportReadsInv ==
    ASSUME IInv, NEW r \in Requests,
           ImportReadsHistory(r) \/ ImportReadsTargets(r)
    PROVE  IInv'
<1>0. call[r] \in CallType
  BY DEF IInv, TypeOK
<1>1. ASSUME ImportReadsHistory(r) PROVE IInv'
  <2> DEFINE seen == Ids(history) \cap FileIds(r)
             next == [call[r] EXCEPT !.at = "occupied", !.occupied = seen]
  <2>0. seen \in SUBSET Nat
    BY DEF IInv, TypeOK, Ids
  <2>1. /\ next \in CallType /\ next.op = call[r].op /\ next.at = "occupied" /\ next.occupied = seen
        /\ next.file = call[r].file /\ next.ids = call[r].ids
    BY <1>0, <2>0 DEF CallType
  <2>2. At(r, "import", "queued") /\ Reads(r, next)
    BY <1>1 DEF ImportReadsHistory, FileIds
  <2> HIDE DEF next
  <2>3. FileIds(r)' = FileIds(r)
    BY <2>1, <2>2, RequestRead DEF FileIds, Rows
  <2>4. KnowsHistory(r)'
    BY <2>1, <2>2, <2>3, RequestRead DEF KnowsHistory, Ids
  <2>5. WellFormed(r)' /\ Knows(r)'
    BY <2>1, <2>2, <2>4, RequestRead DEF WellFormed, Knows, KnowsName, KnowsRoom, KnowsTargets
  <2> QED BY <2>1, <2>2, <2>5, RequestRead, ReadsOn
<1>2. ASSUME ImportReadsTargets(r) PROVE IInv'
  <2> DEFINE next == [call[r] EXCEPT !.at = "settling", !.live = targets]
  <2>0. targets \in SUBSET [id : Nat, name : Names, order : Nat, line : Nat]
    BY DEF IInv, TypeOK
  <2>1. /\ next \in CallType /\ next.op = call[r].op /\ next.at = "settling" /\ next.live = targets
        /\ next.file = call[r].file /\ next.ids = call[r].ids /\ next.occupied = call[r].occupied
    BY <1>0, <2>0 DEF CallType
  <2>2. At(r, "import", "occupied") /\ Reads(r, next)
    BY <1>2 DEF ImportReadsTargets
  <2> HIDE DEF next
  <2>3. FileIds(r)' = FileIds(r)
    BY <2>1, <2>2, RequestRead DEF FileIds, Rows
  <2>4. KnowsHistory(r)'
    BY <2>1, <2>2, <2>3, RequestRead DEF KnowsHistory, Knows
  <2>5. call[r].ids = <<>> /\ call[r].file \in Files
    BY <2>1, <2>2, RequestRead DEF WellFormed
  <2>6. Len(Rows(r)) \in Nat /\ Rows(r)' = Rows(r)
    BY <2>1, <2>2, <2>5, RequestRead, FileRows DEF Rows
  <2>7. KnowsTargets(r)'
    BY <2>1, <2>2, <2>5, <2>6, RequestRead DEF KnowsTargets
  <2>8. WellFormed(r)' /\ Knows(r)'
    BY <2>1, <2>2, <2>4, <2>7, RequestRead DEF WellFormed, Knows, KnowsName, KnowsRoom
  <2> QED BY <2>1, <2>2, <2>8, RequestRead, ReadsOn
<1> QED BY <1>1, <1>2

\* What restoredId answers: a target that is alone with the row's name, or has its
\* number too, is the one that is found.
LEMMA RestoredIdAnswer ==
    ASSUME NEW row, NEW occupied, NEW taken, row.id \in Nat, IInv
    PROVE  LET id == restoredId(row, occupied, targets, taken) IN
           /\ id \in Nat
           /\ id # 0 => /\ id \notin taken
                        /\ \/ \E t \in targets : t.id = id /\ t.name = row.name
                           \/ id = row.id /\ id \notin occupied
           /\ \A t \in targets : t.name = row.name /\ (Alone(t) \/ row.id = t.id) =>
                id = t.id \/ t.id \in taken
<1> DEFINE named == {t \in targets : t.name = row.name}
           first == liveIdsByName(row.name, targets)
           settled == IF \E t \in named : t.id = row.id THEN {row.id} ELSE first
           id == restoredId(row, occupied, targets, taken)
<1>1. first \subseteq {t.id : t \in named}
  BY DEF liveIdsByName
<1>2. \A t \in named : Alone(t) => first = {t.id}
  BY DEF liveIdsByName, Alone
<1>3. id = IF settled \ taken # {} THEN CHOOSE x \in settled \ taken : TRUE
           ELSE IF row.id \in taken \cup occupied THEN 0 ELSE row.id
  BY DEF restoredId
<1>4. \A t \in named : t.id \in Nat
  BY DEF IInv, TypeOK
<1> HIDE DEF id, first
<1>5. settled \subseteq {t.id : t \in named}
  BY <1>1
<1>6. \A t \in named : Alone(t) \/ row.id = t.id => settled = {t.id}
  BY <1>2 DEF Alone
<1> HIDE DEF settled
<1>7. CASE settled \ taken # {}
  <2>1. id \in settled \ taken
    BY <1>3, <1>7
  <2>2. PICK t \in named : t.id = id
    BY <1>5, <2>1
  <2>3. \A u \in named : Alone(u) \/ row.id = u.id => id = u.id
    BY <1>6, <2>1
  <2> QED BY <1>4, <2>1, <2>2, <2>3 DEF id
<1>8. CASE settled \ taken = {}
  <2>1. id = IF row.id \in taken \cup occupied THEN 0 ELSE row.id
    BY <1>3, <1>8
  <2>2. \A u \in named : Alone(u) \/ row.id = u.id => u.id \in taken
    BY <1>6, <1>8
  <2> QED BY <2>1, <2>2 DEF id
<1> QED BY <1>7, <1>8

LEMMA ImportSettlesInv ==
    ASSUME IInv, NEW r \in Requests, ImportSettles(r)
    PROVE  IInv'
<1> DEFINE ids == call[r].ids
           k == Len(ids) + 1
           taken == {ids[i] : i \in DOMAIN ids} \ {0}
           id == restoredId(Rows(r)[k], call[r].occupied, call[r].live, taken)
           next == [call[r] EXCEPT !.ids = Append(ids, id)]
<1>1. /\ At(r, "import", "settling") /\ Reads(r, next) /\ k <= Len(Rows(r))
      /\ call[r] \in CallType
  BY DEF ImportSettles, IInv, TypeOK
<1>2. /\ Knows(r) /\ WellFormed(r) /\ call[r].op = "import" /\ call[r].at = "settling" /\ Runs(r)
  BY <1>1 DEF At, IInv, QueueInv, KnowledgeInv
<1>3. /\ call[r].file \in Files /\ call[r].live = targets
      /\ \A i \in 1..Len(ids) : Settled(r, i)
  BY <1>2 DEF WellFormed, Knows, KnowsTargets
<1>4. /\ ids \in Seq(Nat) /\ Len(ids) \in Nat /\ DOMAIN ids = 1..Len(ids)
      /\ k \in Nat /\ k = Len(ids) + 1 /\ 1..k = (1..Len(ids)) \cup {k} /\ k \notin 1..Len(ids)
      /\ call[r].ids = ids
  <2>1. ids \in Seq(Nat)
    BY <1>1 DEF CallType
  <2>2. Len(ids) \in Nat /\ DOMAIN ids = 1..Len(ids)
    BY <2>1, LenProperties
  <2> HIDE DEF ids
  <2> QED BY <2>1, <2>2 DEF ids
<1>5. /\ Len(Rows(r)) \in Nat /\ k \in 1..Len(Rows(r)) /\ Rows(r)[k].id \in Nat
  <2>1. /\ Len(Rows(r)) \in Nat
        /\ \A i \in 1..Len(Rows(r)) : Rows(r)[i].id \in Nat
    BY <1>3, FileRows DEF Rows
  <2> HIDE DEF k
  <2>2. k \in 1..Len(Rows(r))
    BY <1>1, <1>4, <2>1
  <2> QED BY <2>1, <2>2
<1> HIDE DEF taken
<1>6. /\ id \in Nat
      /\ id # 0 => /\ id \notin taken
                   /\ \/ \E t \in targets : t.id = id /\ t.name = Rows(r)[k].name
                      \/ id = Rows(r)[k].id /\ id \notin call[r].occupied
      /\ \A t \in targets : t.name = Rows(r)[k].name /\ (Alone(t) \/ Rows(r)[k].id = t.id) =>
           id = t.id \/ t.id \in taken
  <2> DEFINE row == Rows(r)[k]
             occupied == call[r].occupied
  <2> HIDE DEF row, occupied
  <2>1. id = restoredId(row, occupied, targets, taken) /\ row.id \in Nat
    BY <1>3, <1>5 DEF row, occupied
  <2> HIDE DEF id
  <2> QED BY <2>1, RestoredIdAnswer DEF row, occupied
<1>T. taken = {ids[i] : i \in 1..Len(ids)} \ {0}
  BY <1>4 DEF taken
<1> HIDE DEF ids, k
<1> HIDE DEF id
<1>7. /\ Append(ids, id) \in Seq(Nat) /\ Len(Append(ids, id)) = k
      /\ \A i \in 1..Len(ids) : Append(ids, id)[i] = ids[i]
      /\ Append(ids, id)[k] = id
  BY <1>4, <1>6
<1>8. /\ next \in CallType /\ next.op = "import" /\ next.at = "settling" /\ next.live = targets
      /\ next.file = call[r].file /\ next.ids = Append(ids, id) /\ next.occupied = call[r].occupied
  BY <1>1, <1>2, <1>3, <1>7 DEF CallType
<1> HIDE DEF next
<1>9. call'[r] = next /\ UNCHANGED <<targets, tokens, history>>
  BY <1>1, <1>8, RequestRead
<1>10. FileIds(r)' = FileIds(r) /\ Rows(r)' = Rows(r)
  BY <1>8, <1>9 DEF FileIds, Rows
<1>11. KnowsHistory(r)'
  BY <1>2, <1>8, <1>9, <1>10 DEF KnowsHistory, Knows
<1>12. ASSUME NEW i \in 1..k PROVE Settled(r, i)'
  <2> DEFINE new == Append(ids, id)
             Fits(x, n) == \/ \E t \in targets : t.id = x /\ t.name = Rows(r)[n].name
                           \/ x = Rows(r)[n].id /\ x \notin call[r].occupied
             Claims(t, n) == t.name = Rows(r)[n].name /\ (Alone(t) \/ Rows(r)[n].id = t.id)
  <2>1. Settled(r, i)' <=>
          /\ new[i] # 0 => Fits(new[i], i)
          /\ \A t \in targets : Claims(t, i) =>
               new[i] = t.id \/ \E j \in 1..Len(new) : j # i /\ new[j] = t.id
          /\ \A j \in 1..Len(new) : i # j /\ new[i] # 0 => new[i] # new[j]
    <3>1. /\ call'[r].ids = new /\ call'[r].occupied = call[r].occupied
          /\ Rows(r)' = Rows(r) /\ targets' = targets
      BY <1>8, <1>9, <1>10
    <3> HIDE DEF new
    <3> QED BY <3>1 DEF Settled, Alone
  <2>2. \A n \in 1..Len(ids) :
          /\ ids[n] # 0 => Fits(ids[n], n)
          /\ \A t \in targets : Claims(t, n) =>
               ids[n] = t.id \/ \E j \in 1..Len(ids) : j # n /\ ids[j] = t.id
          /\ \A j \in 1..Len(ids) : n # j /\ ids[n] # 0 => ids[n] # ids[j]
    BY <1>3, <1>4 DEF Settled
  <2>3. id # 0 => Fits(id, k)
    BY <1>6
  <2>C. \A t \in targets : Claims(t, k) => id = t.id \/ t.id \in taken
    BY <1>6
  <2> HIDE DEF new, Fits, Claims
  <2>4. /\ Len(new) = k /\ new[k] = id
        /\ \A n \in 1..Len(ids) : new[n] = ids[n]
    BY <1>7 DEF new
  <2>5. \A n \in 1..Len(ids) : n \in 1..k /\ n # k /\ (id # 0 => id # ids[n])
    BY <1>4, <1>6, <1>T
  <2>6. CASE i = k
    <3>1. \A t \in targets : Claims(t, k) =>
            id = t.id \/ \E j \in 1..Len(ids) : ids[j] = t.id
      BY <2>C, <1>T
    <3>2. \A t \in targets : Claims(t, k) =>
            new[k] = t.id \/ \E j \in 1..k : j # k /\ new[j] = t.id
      BY <2>4, <2>5, <3>1
    <3>3. \A j \in 1..k : k # j /\ new[k] # 0 => new[k] # new[j]
      BY <1>4, <2>4, <2>5
    <3> QED BY <2>1, <2>3, <2>4, <2>6, <3>2, <3>3
  <2>7. CASE i # k
    <3>1. i \in 1..Len(ids)
      BY <1>4, <2>7
    <3>2. \A t \in targets : Claims(t, i) =>
            new[i] = t.id \/ \E j \in 1..k : j # i /\ new[j] = t.id
      BY <2>2, <2>4, <2>5, <3>1
    <3>3. \A j \in 1..k : i # j /\ new[i] # 0 => new[i] # new[j]
      BY <1>4, <2>2, <2>4, <2>5, <3>1
    <3> QED BY <2>1, <2>2, <2>4, <3>1, <3>2, <3>3
  <2> QED BY <2>6, <2>7
<1>13. KnowsTargets(r)'
  BY <1>1, <1>7, <1>8, <1>9, <1>10, <1>12 DEF KnowsTargets
<1>14. WellFormed(r)' /\ Knows(r)'
  BY <1>3, <1>8, <1>9, <1>11, <1>13 DEF WellFormed, Knows, KnowsName, KnowsRoom
<1> QED BY <1>1, <1>2, <1>8, <1>14, ReadsOn
-----------------------------------------------------------------------------
(* The writes: each is the last step of its mutation.                      *)

TargetType == [id : Nat \ {0}, name : Names, order : Nat, line : Nat]
SharedType == [names : SUBSET Names, orders : SUBSET Nat]
RecorderType == [at : {"idle", "writing", "queued", "found", "missing"},
                 targets : SUBSET [id : Nat \ {0}, line : Nat], late : BOOLEAN]

\* What a write owes to leave everything as it should be.
LEMMA WritesOn ==
    ASSUME IInv, NEW r \in Requests, Runs(r), Leaves(r), UNCHANGED <<history, updates, issued>>,
           targets' \subseteq TargetType, nextId' \in Nat, nextId <= nextId', lines' \in Nat,
           tokens' \in 0..MAX_TOKENS, shared' \in SharedType,
           recommendations' \in [made : 0..1, restored : Nat],
           recommendations'.made \in {0, recommendations.made},
           recorder' \in [Recorders -> RecorderType],
           \A c \in Recorders : /\ recorder'[c].at = recorder[c].at
                                /\ recorder'[c].targets = recorder[c].targets,
           \A t \in targets' : t.id < nextId',
           TargetsAreDistinct', HistoryKeepsItsLine', SnapshotInv'
    PROVE  IInv'
<1>1. TypeOK'
  BY LeavesQueue DEF IInv, TypeOK, TargetType, RecorderType, SharedType
<1>2. IdsInv'
  BY DEF IInv, TypeOK, IdsInv
<1>3. UpdateInv'
  BY DEF IInv, UpdateInv, UpdateRuns
<1> QED BY <1>1, <1>2, <1>3, LeavesQueue DEF IInv

\* Where no target gets an id or a line it did not have, the writers stay right.
LEMMA SameLines ==
    ASSUME IInv, UNCHANGED <<history, recorder>>,
           \A u \in targets' : \E t \in targets : u.id = t.id /\ u.line = t.line
    PROVE  HistoryKeepsItsLine' /\ SnapshotInv' /\ \A u \in targets' : u.id < nextId
BY DEF IInv, HistoryKeepsItsLine, SnapshotInv, IdsInv

LEMMA TablesKept ==
    ASSUME IInv, NEW r \in Requests, Runs(r), Leaves(r),
           UNCHANGED <<nextId, lines, history, recorder, updates, issued>>,
           targets' \subseteq TargetType, shared' \in SharedType, TargetsAreDistinct',
           \A u \in targets' : \E t \in targets : u.id = t.id /\ u.line = t.line,
           tokens' \in 0..MAX_TOKENS,
           recommendations' \in [made : 0..1, restored : Nat],
           recommendations'.made \in {0, recommendations.made}
    PROVE  IInv'
<1>1. HistoryKeepsItsLine' /\ SnapshotInv' /\ \A u \in targets' : u.id < nextId
  BY SameLines
<1>2. /\ nextId' \in Nat /\ nextId <= nextId' /\ lines' \in Nat
      /\ recorder' \in [Recorders -> RecorderType]
  BY DEF IInv, TypeOK, RecorderType
<1> QED BY <1>1, <1>2, WritesOn

LEMMA SmallWritesInv ==
    ASSUME IInv, NEW r \in Requests,
           \/ Refused(r) \/ RenameWrites(r) \/ DeleteWrites(r) \/ ReorderWrites(r)
           \/ TokenIssued(r) \/ TokenRevoked(r) \/ ResetCommits(r)
    PROVE  IInv'
<1>0. /\ targets \subseteq TargetType /\ tokens \in 0..MAX_TOKENS
      /\ recommendations \in [made : 0..1, restored : Nat] /\ TargetsAreDistinct
      /\ shared \in SharedType
  BY DEF IInv, TypeOK, TargetType, SharedType
<1>1. CASE Refused(r)
  BY <1>0, <1>1, TablesKept DEF Refused, tables, recorderVars, TargetsAreDistinct
<1>2. CASE RenameWrites(r)
  <2>1. /\ Runs(r) /\ Leaves(r) /\ call[r].op = "rename" /\ call[r].at = "named"
        /\ targets' = {IF t.id = call[r].id THEN [t EXCEPT !.name = call[r].name] ELSE t : t \in targets}
        /\ UNCHANGED <<nextId, lines, shared, tokens, recommendations, history, recorder, updates, issued>>
    BY <1>2 DEF RenameWrites, At, recorderVars
  <2>2. /\ call[r].name \in Names
        /\ \/ ~nameTaken(call[r].name, call[r].id)
           \/ \E t \in targets : t.id = call[r].id /\ t.name = call[r].name
    BY <2>1 DEF IInv, QueueInv, WellFormed, KnowledgeInv, Knows, KnowsName
  <2> DEFINE Renamed(t) == IF t.id = call[r].id THEN [t EXCEPT !.name = call[r].name] ELSE t
  <2>3. ASSUME NEW t \in targets
        PROVE  /\ Renamed(t) \in TargetType /\ Renamed(t).id = t.id /\ Renamed(t).order = t.order
               /\ Renamed(t).line = t.line
               /\ Renamed(t).name = IF t.id = call[r].id THEN call[r].name ELSE t.name
    BY <1>0, <2>2 DEF TargetType
  <2>T. targets' = {Renamed(t) : t \in targets}
    BY <2>1
  <2> HIDE DEF Renamed
  <2>4. /\ targets' \subseteq TargetType
        /\ \A u \in targets' : \E t \in targets : u.id = t.id /\ u.line = t.line
    BY <2>T, <2>3
  <2>5. TargetsAreDistinct'
    <3> SUFFICES ASSUME NEW t \in targets, NEW u \in targets, t # u
                 PROVE  /\ Renamed(t).id # Renamed(u).id
                        /\ Renamed(t).name = Renamed(u).name => Renamed(t).name \in shared.names
                        /\ Renamed(t).order = Renamed(u).order => Renamed(t).order \in shared.orders
      BY <2>1, <2>T DEF TargetsAreDistinct
    <3>1. /\ t.id # u.id
          /\ t.name = u.name => t.name \in shared.names
          /\ t.order = u.order => t.order \in shared.orders
      BY <1>0 DEF TargetsAreDistinct
    <3>2. CASE ~nameTaken(call[r].name, call[r].id)
      BY <2>3, <3>1, <3>2 DEF nameTaken
    <3>3. CASE \E v \in targets : v.id = call[r].id /\ v.name = call[r].name
      <4>1. PICK v \in targets : v.id = call[r].id /\ v.name = call[r].name
        BY <3>3
      <4>2. \A w \in targets : w.id = v.id => w = v
        BY <1>0 DEF TargetsAreDistinct
      <4>3. Renamed(t).name = t.name /\ Renamed(u).name = u.name
        BY <2>3, <4>1, <4>2
      <4> QED BY <2>3, <3>1, <4>3
    <3> QED BY <2>2, <3>2, <3>3
  <2> QED BY <1>0, <2>1, <2>4, <2>5, TablesKept
<1>3. CASE DeleteWrites(r)
  <2>1. /\ Runs(r) /\ Leaves(r) /\ targets' = {t \in targets : t.id # call[r].id}
        /\ UNCHANGED <<nextId, lines, shared, tokens, recommendations, history, recorder, updates, issued>>
    BY <1>3 DEF DeleteWrites, At, recorderVars
  <2>2. TargetsAreDistinct' /\ targets' \subseteq TargetType
    BY <1>0, <2>1 DEF TargetsAreDistinct
  <2> QED BY <1>0, <2>1, <2>2, TablesKept
<1>4. CASE ReorderWrites(r)
  <2> DEFINE ids == call[r].ids
             Place(t) == CHOOSE i \in DOMAIN ids : ids[i] = t.id
  <2>1. /\ Runs(r) /\ Leaves(r) /\ call[r].op = "reorder" /\ call[r].at = "read"
        /\ targets' = {Reordered(t, ids) : t \in targets}
        /\ UNCHANGED <<nextId, lines, shared, tokens, recommendations, history, recorder, updates, issued>>
    BY <1>4 DEF ReorderWrites, At, recorderVars
  <2>2. coversAll(ids)
    BY <2>1 DEF IInv, KnowledgeInv, Knows, KnowsName
  <2>3. ids \in Seq(Nat) /\ DOMAIN ids \subseteq Nat \ {0}
    BY DEF IInv, TypeOK, CallType
  <2> HIDE DEF ids
  <2>4. ASSUME NEW t \in targets
        PROVE  /\ Place(t) \in DOMAIN ids /\ ids[Place(t)] = t.id
               /\ Reordered(t, ids) = [t EXCEPT !.order = Place(t) - 1]
    BY <2>2 DEF coversAll, Reordered
  <2> HIDE DEF Place
  <2>5. ASSUME NEW t \in targets
        PROVE  LET u == Reordered(t, ids)
               IN  /\ u \in TargetType /\ u.id = t.id /\ u.line = t.line /\ u.name = t.name
                   /\ u.order = Place(t) - 1
    BY <1>0, <2>3, <2>4 DEF TargetType
  <2>6. /\ targets' \subseteq TargetType
        /\ \A u \in targets' : \E t \in targets : u.id = t.id /\ u.line = t.line
    BY <2>1, <2>5
  <2>7. ASSUME NEW t \in targets, NEW u \in targets, t # u PROVE Place(t) - 1 # Place(u) - 1
    <3>1. t.id # u.id
      BY <1>0, <2>7 DEF TargetsAreDistinct
    <3>2. Place(t) # Place(u) /\ Place(t) \in Nat /\ Place(u) \in Nat
      BY <2>3, <2>4, <3>1
    <3> QED BY <3>2
  <2>8. TargetsAreDistinct'
    BY <1>0, <2>1, <2>5, <2>7 DEF TargetsAreDistinct
  <2> QED BY <1>0, <2>1, <2>6, <2>8, TablesKept
<1>5. CASE TokenIssued(r)
  <2>1. tokens < MAX_TOKENS
    BY <1>5 DEF TokenIssued, At, IInv, KnowledgeInv, Knows, KnowsRoom
  <2>2. /\ Runs(r) /\ Leaves(r) /\ tokens' = tokens + 1
        /\ UNCHANGED <<targets, nextId, lines, shared, recommendations, history, recorder, updates, issued>>
    BY <1>5 DEF TokenIssued, At, tables, recorderVars
  <2>3. tokens' \in 0..MAX_TOKENS
    BY <1>0, <2>1, <2>2
  <2> QED BY <1>0, <2>2, <2>3, TablesKept DEF TargetsAreDistinct
<1>6. CASE TokenRevoked(r)
  <2>1. /\ Runs(r) /\ Leaves(r) /\ tokens' = tokens - 1 /\ tokens > 0
        /\ UNCHANGED <<targets, nextId, lines, shared, recommendations, history, recorder, updates, issued>>
    BY <1>6 DEF TokenRevoked, At, tables, recorderVars
  <2>2. tokens' \in 0..MAX_TOKENS
    BY <1>0, <2>1
  <2> QED BY <1>0, <2>1, <2>2, TablesKept DEF TargetsAreDistinct
<1>7. CASE ResetCommits(r)
  <2>1. /\ Runs(r) /\ Leaves(r) /\ targets' = {} /\ tokens' = 0
        /\ recommendations' = [made |-> 0, restored |-> 0]
        /\ shared' = [names |-> {}, orders |-> {}]
        /\ UNCHANGED <<nextId, lines, history, recorder, updates, issued>>
    BY <1>7 DEF ResetCommits, At, recorderVars
  <2>2. shared' \in SharedType
    BY <2>1 DEF SharedType
  <2> QED BY <1>0, <2>1, <2>2, TablesKept DEF TargetsAreDistinct
<1> QED BY <1>1, <1>2, <1>3, <1>4, <1>5, <1>6, <1>7

LEMMA CreateInsertsInv == ASSUME IInv, NEW r \in Requests, CreateInserts(r) PROVE IInv'
<1> DEFINE new == [id |-> nextId, name |-> call[r].name, order |-> call[r].order, line |-> lines]
<1>1. /\ Runs(r) /\ Leaves(r) /\ call[r].op = "create" /\ call[r].at = "ordered"
      /\ targets' = targets \cup {new} /\ nextId' = nextId + 1 /\ lines' = lines + 1
      /\ UNCHANGED <<shared, tokens, recommendations, history, recorder, updates, issued>>
  BY DEF CreateInserts, At, recorderVars
<1>2. /\ call[r].name \in Names /\ ~nameTaken(call[r].name, 0)
      /\ \A t \in targets : t.order < call[r].order
  BY <1>1 DEF IInv, QueueInv, WellFormed, KnowledgeInv, Knows, KnowsName
<1>3. /\ targets \subseteq TargetType /\ nextId \in Nat \ {0} /\ lines \in Nat
      /\ tokens \in 0..MAX_TOKENS /\ recommendations \in [made : 0..1, restored : Nat]
      /\ recorder \in [Recorders -> RecorderType] /\ call[r].order \in Nat
      /\ history \subseteq [id : Nat \ {0}, line : Nat, late : BOOLEAN] /\ shared \in SharedType
  BY DEF IInv, TypeOK, TargetType, RecorderType, CallType, SharedType
<1>4. targets' \subseteq TargetType
  BY <1>1, <1>2, <1>3 DEF TargetType
<1>5. \A t \in targets : t.id \in Nat \ {0} /\ t.id < nextId /\ t.order \in Nat /\ t.name # new.name
  BY <1>2, <1>3 DEF IInv, IdsInv, TargetType, nameTaken
<1>6. TargetsAreDistinct'
  BY <1>1, <1>2, <1>3, <1>5 DEF TargetsAreDistinct, IInv
<1>7. HistoryKeepsItsLine'
  <2>1. \A row \in history : row.id < nextId /\ row.id \in Nat
    BY <1>3 DEF IInv, IdsInv
  <2> QED BY <1>1, <1>3, <2>1 DEF HistoryKeepsItsLine, IInv
<1>8. SnapshotInv'
  <2>1. \A c \in Recorders : \A s \in recorder[c].targets : s.id < nextId /\ s.id \in Nat
    BY <1>3 DEF IInv, IdsInv, RecorderType
  <2> QED BY <1>1, <1>3, <2>1 DEF SnapshotInv, IInv
<1>9. nextId' \in Nat /\ nextId <= nextId' /\ lines' \in Nat /\ \A t \in targets' : t.id < nextId'
  BY <1>1, <1>3, <1>5
<1> QED BY <1>1, <1>3, <1>4, <1>6, <1>7, <1>8, <1>9, WritesOn
\* The ids of a restore: the fresh ones are distinct, and past those that are kept.
IdOf(r, i, base) ==
    IF call[r].ids[i] = 0 THEN base + FreshBefore(r, i) ELSE call[r].ids[i]

LEMMA FreshIds ==
    ASSUME NEW r, call[r].ids \in Seq(Nat),
           NEW base \in Nat, \A id \in Kept(r) : id < base
    PROVE  /\ FreshBefore(r, Len(call[r].ids) + 1) \in Nat
           /\ \A i \in 1..Len(call[r].ids) :
                /\ call[r].ids[i] = 0 => base <= IdOf(r, i, base)
                /\ IdOf(r, i, base) \in Nat
                /\ IdOf(r, i, base) < base + FreshBefore(r, Len(call[r].ids) + 1)
           /\ \A i, j \in 1..Len(call[r].ids) : i < j /\ call[r].ids[i] = 0 =>
                IdOf(r, i, base) # IdOf(r, j, base)
           /\ \A i, j \in 1..Len(call[r].ids) : call[r].ids[i] # 0 /\ call[r].ids[j] = 0 =>
                IdOf(r, i, base) # IdOf(r, j, base)
<1> DEFINE ids == call[r].ids
           F(i) == {j \in DOMAIN ids : j < i /\ ids[j] = 0}
           n == Len(ids)
<1>1. n \in Nat /\ DOMAIN ids = 1..n /\ \A i \in 1..n : ids[i] \in Nat
  <2>1. ids \in Seq(Nat)
    OBVIOUS
  <2> HIDE DEF ids
  <2> QED BY <2>1, LenProperties
<1>2. \A i : FreshBefore(r, i) = Cardinality(F(i))
  BY DEF FreshBefore
<1>3. \A i \in 1..n : ids[i] # 0 => ids[i] < base
  BY <1>1 DEF Kept
<1> HIDE DEF ids, n
<1>4. ASSUME NEW i PROVE IsFiniteSet(F(i)) /\ Cardinality(F(i)) \in Nat
  <2>1. IsFiniteSet(1..n)
    BY <1>1, FS_Interval
  <2>2. F(i) \in SUBSET (1..n)
    BY <1>1
  <2>3. IsFiniteSet(F(i))
    BY <2>1, <2>2, FS_Subset
  <2> QED BY <2>3, FS_CardinalityType
<1>5. ASSUME NEW i \in 1..n, NEW j \in 1..(n + 1), i < j, ids[i] = 0
      PROVE  Cardinality(F(i)) < Cardinality(F(j))
  <2>1. F(i) \in SUBSET F(j) /\ F(i) # F(j)
    BY <1>1, <1>5
  <2>2. /\ IsFiniteSet(F(j)) /\ Cardinality(F(i)) \in Nat /\ Cardinality(F(j)) \in Nat
    BY <1>4
  <2>3. Cardinality(F(i)) <= Cardinality(F(j)) /\ (Cardinality(F(j)) = Cardinality(F(i)) => F(j) = F(i))
    BY <2>1, <2>2, FS_Subset
  <2> QED BY <2>1, <2>2, <2>3
<1> DEFINE C(i) == Cardinality(F(i))
<1>6. (\A i : C(i) \in Nat) /\ \A i \in 1..n, j \in 1..(n + 1) : i < j /\ ids[i] = 0 => C(i) < C(j)
  BY <1>4, <1>5
<1>7. \A i : FreshBefore(r, i) = C(i)
  BY <1>2
<1> HIDE DEF C, F
<1> DEFINE Id(i) == IdOf(r, i, base)
<1>8. \A i \in 1..n : Id(i) = IF ids[i] = 0 THEN base + C(i) ELSE ids[i]
  BY <1>7 DEF IdOf, ids
<1> HIDE DEF Id
<1>9. /\ C(n + 1) \in Nat
      /\ \A i \in 1..n :
           /\ ids[i] = 0 => base <= Id(i)
           /\ Id(i) \in Nat /\ Id(i) < base + C(n + 1)
  BY <1>1, <1>3, <1>6, <1>8
<1>10. ASSUME NEW i \in 1..n, NEW j \in 1..n, i < j, ids[i] = 0 PROVE Id(i) # Id(j)
  <2>1. CASE ids[j] = 0
    <3>1. C(i) < C(j) /\ C(i) \in Nat /\ C(j) \in Nat
      BY <1>1, <1>6, <1>10
    <3> QED BY <1>8, <1>10, <2>1, <3>1
  <2>2. CASE ids[j] # 0
    BY <1>1, <1>3, <1>6, <1>8, <1>10, <2>2
  <2> QED BY <2>1, <2>2
<1>11. \A i, j \in 1..n : ids[i] # 0 /\ ids[j] = 0 => Id(i) # Id(j)
  BY <1>1, <1>3, <1>6, <1>8
<1> QED BY <1>7, <1>9, <1>10, <1>11 DEF ids, n, Id

\* What the contract knows of a target.
Bare(t) == [id |-> t.id, name |-> t.name, order |-> t.order]
Shown == {Bare(t) : t \in targets}

\* No row of another name can be given the number of this target.
Protected(r, t) ==
    \/ t.id \in call[r].occupied
    \/ \A i \in 1..Len(Rows(r)) : Rows(r)[i].id = t.id => Rows(r)[i].name = t.name

\* What a restore does, told by what it has read of the history.
RestoredAs(r, ids) ==
    LET n == Len(Rows(r)) IN
    /\ ids \in [1..n -> Nat]
    /\ Shown' = {[id |-> ids[i], name |-> Rows(r)[i].name, order |-> OrderAt(Rows(r), i)] : i \in 1..n}
    /\ \A i, j \in 1..n : i # j => ids[i] # ids[j]
    /\ \A i \in 1..n :
         /\ \/ \E t \in targets : t.id = ids[i] /\ t.name = Rows(r)[i].name
            \/ ids[i] = Rows(r)[i].id /\ ids[i] \notin call[r].occupied
            \/ ids[i] >= nextId
         /\ ids[i] < nextId'
    /\ \A t \in targets, i \in 1..n :
         /\ Rows(r)[i].name = t.name /\ Protected(r, t)
         /\ Alone(t) \/ Rows(r)[i].id = t.id
         => \E j \in 1..n : ids[j] = t.id /\ Rows(r)[j].name = t.name
    /\ nextId' >= nextId

LEMMA ImportCommitsInv ==
    ASSUME IInv, NEW r \in Requests, ImportCommits(r)
    PROVE  /\ IInv'
           /\ \A t \in targets :
                /\ Alone(t)
                /\ \E row \in history : row.id = t.id /\ ~row.late
                /\ \E u \in targets' : u.name = t.name
                => \E u \in targets' : u.name = t.name /\ u.id = t.id
           /\ \E ids : RestoredAs(r, ids)
<1> DEFINE ids == call[r].ids
           n == Len(Rows(r))
           f == call[r].file
<1>1. /\ Runs(r) /\ Leaves(r) /\ call[r].op = "import" /\ call[r].at = "settling" /\ Len(ids) = n
      /\ lines' = lines + n + 1
      /\ shared' = [names |-> Repeated([i \in 1..n |-> Rows(r)[i].name]),
                    orders |-> Repeated([i \in 1..n |-> OrderAt(Rows(r), i)])]
      /\ tokens' = IF f.tokens = Absent THEN tokens ELSE f.tokens
      /\ recommendations' = [made |-> 0, restored |-> f.recommendations]
      /\ recorder' = [c \in Recorders |-> [recorder[c] EXCEPT !.late = recorder[c].at = "writing"]]
      /\ UNCHANGED <<history, updates, issued>>
  BY DEF ImportCommits, At
<1>2. PICK base \in {nextId} \cup {id + 1 : id \in Kept(r)} :
         /\ FirstFree(r, base)
         /\ targets' = {Restored(r, i, base) : i \in 1..n}
         /\ nextId' = base + FreshBefore(r, n + 1)
  BY DEF ImportCommits
<1>3. /\ targets \subseteq TargetType /\ nextId \in Nat \ {0} /\ lines \in Nat
      /\ tokens \in 0..MAX_TOKENS /\ recorder \in [Recorders -> RecorderType]
      /\ history \subseteq [id : Nat \ {0}, line : Nat, late : BOOLEAN]
      /\ ids \in Seq(Nat) /\ TargetsAreDistinct
  BY DEF IInv, TypeOK, TargetType, RecorderType, CallType
<1>4. f \in Files /\ KnowsHistory(r) /\ KnowsTargets(r)
  BY <1>1 DEF IInv, QueueInv, WellFormed, KnowledgeInv, Knows
<1>5. /\ n \in Nat
      /\ \A i \in 1..n : Rows(r)[i].id \in Nat /\ Rows(r)[i].name \in Names /\ OrderAt(Rows(r), i) \in Nat
  BY <1>4, FileRows DEF Rows
<1>6. /\ call[r].live = targets
      /\ \A i \in 1..n : Settled(r, i)
  BY <1>1, <1>4 DEF KnowsTargets
<1>7. \A i \in 1..n : ids[i] \in Nat
  <2> HIDE DEF ids, n
  <2> QED BY <1>1, <1>3, ElementOfSeq
<1>8. base \in Nat \ {0} /\ nextId <= base /\ \A id \in Kept(r) : id < base
  <2>1. \A id \in Kept(r) : id \in Nat
    BY <1>3 DEF Kept
  <2> QED BY <1>2, <1>3, <2>1 DEF FirstFree
<1> DEFINE Id(i) == IdOf(r, i, base)
           top == base + FreshBefore(r, n + 1)
<1>F. /\ FreshBefore(r, n + 1) \in Nat
      /\ \A i \in 1..n : /\ ids[i] = 0 => base <= Id(i)
                         /\ Id(i) \in Nat /\ Id(i) < top
      /\ \A i, j \in 1..n : i < j /\ ids[i] = 0 => Id(i) # Id(j)
      /\ \A i, j \in 1..n : ids[i] # 0 /\ ids[j] = 0 => Id(i) # Id(j)
  <2> HIDE DEF n
  <2>1. Len(call[r].ids) = n
    BY <1>1
  <2> QED BY <1>3, <1>8, <2>1, FreshIds
<1>9. /\ top \in Nat /\ nextId <= top /\ base <= top
      /\ \A i \in 1..n : /\ Id(i) \in Nat \ {0} /\ Id(i) < top
                         /\ ids[i] = 0 => nextId <= Id(i)
                         /\ ids[i] # 0 => Id(i) = ids[i]
  <2>1. \A i \in 1..n : ids[i] # 0 => Id(i) = ids[i]
    BY DEF IdOf
  <2> HIDE DEF ids, n, Id
  <2> QED BY <1>3, <1>7, <1>8, <1>F, <2>1
<1>10. \A i, j \in 1..n : i # j => Id(i) # Id(j)
  <2> SUFFICES ASSUME NEW i \in 1..n, NEW j \in 1..n, i # j PROVE Id(i) # Id(j)
    OBVIOUS
  <2>1. CASE ids[i] # 0 /\ ids[j] # 0
    <3>1. ids[i] # ids[j]
      BY <1>1, <1>6, <2>1 DEF Settled
    <3> QED BY <1>9, <2>1, <3>1
  <2>2. CASE (ids[i] # 0 /\ ids[j] = 0) \/ (ids[i] = 0 /\ ids[j] # 0)
    BY <1>F, <2>2
  <2>3. CASE ids[i] = 0 /\ ids[j] = 0
    <3>1. i < j \/ j < i
      BY <1>5
    <3> QED BY <1>F, <2>3, <3>1
  <2> QED BY <2>1, <2>2, <2>3
<1>11. ASSUME NEW i \in 1..n
       PROVE  /\ LineOf(r, i) \in Nat
              /\ \A t \in targets : t.id = ids[i] /\ t.name = Rows(r)[i].name => LineOf(r, i) = t.line
  <2> DEFINE same == {t \in targets : t.id = ids[i] /\ t.name = Rows(r)[i].name}
  <2>1. LineOf(r, i) = IF same = {} THEN lines + i ELSE (CHOOSE t \in same : TRUE).line
    BY <1>6 DEF LineOf
  <2>2. \A t, u \in same : t = u
    BY <1>3 DEF TargetsAreDistinct
  <2>3. \A t \in targets : t.line \in Nat
    BY <1>3 DEF TargetType
  <2>4. same \subseteq targets
    OBVIOUS
  <2>5. same # {} => (CHOOSE t \in same : TRUE) \in same
    OBVIOUS
  <2> QED BY <1>3, <2>1, <2>2, <2>3, <2>4, <2>5
<1>12. ASSUME NEW i \in 1..n
       PROVE  LET u == Restored(r, i, base)
              IN  /\ u \in TargetType /\ u.id = Id(i) /\ u.name = Rows(r)[i].name
                  /\ u.order = OrderAt(Rows(r), i) /\ u.line = LineOf(r, i)
  BY <1>5, <1>9, <1>11 DEF Restored, TargetType, IdOf
<1> DEFINE Row(i) == Restored(r, i, base)
<1>13. targets' = {Row(i) : i \in 1..n}
  BY <1>2
<1>14. \A i \in 1..n : /\ Row(i) \in TargetType /\ Row(i).id = Id(i) /\ Row(i).name = Rows(r)[i].name
                       /\ Row(i).order = OrderAt(Rows(r), i) /\ Row(i).line = LineOf(r, i)
  BY <1>12
<1> HIDE DEF ids, n, f, Id, top, Row
<1>15. targets' \subseteq TargetType /\ \A t \in targets' : t.id < top
  BY <1>9, <1>13, <1>14
<1> DEFINE names == [i \in 1..n |-> Rows(r)[i].name]
           orders == [i \in 1..n |-> OrderAt(Rows(r), i)]
<1>S. /\ Repeated(names) \subseteq Names /\ Repeated(orders) \subseteq Nat
      /\ \A i, j \in 1..n : i # j /\ Rows(r)[i].name = Rows(r)[j].name =>
           Rows(r)[i].name \in Repeated(names)
      /\ \A i, j \in 1..n : i # j /\ OrderAt(Rows(r), i) = OrderAt(Rows(r), j) =>
           OrderAt(Rows(r), i) \in Repeated(orders)
  BY <1>5 DEF Repeated
<1>16. TargetsAreDistinct' /\ shared' \in SharedType
  <2>1. shared'.names = Repeated(names) /\ shared'.orders = Repeated(orders) /\ shared' \in SharedType
    BY <1>1, <1>S DEF SharedType
  <2> HIDE DEF names, orders
  <2> SUFFICES ASSUME NEW i \in 1..n, NEW j \in 1..n, i # j
               PROVE  /\ Row(i).id # Row(j).id
                      /\ Row(i).name = Row(j).name => Row(i).name \in Repeated(names)
                      /\ Row(i).order = Row(j).order => Row(i).order \in Repeated(orders)
    BY <1>13, <2>1 DEF TargetsAreDistinct
  <2> QED BY <1>10, <1>14, <1>S
<1>17. ASSUME NEW row \in history, ~row.late, NEW i \in 1..n, row.id = Id(i)
       PROVE  \E t \in targets : t.id = ids[i] /\ t.name = Rows(r)[i].name
  <2>1. row.id < nextId /\ row.id \in Nat
    BY <1>3 DEF IInv, IdsInv
  <2>2. ids[i] # 0 /\ ids[i] = row.id
    BY <1>3, <1>9, <1>17, <2>1
  <2>3. CASE ids[i] = Rows(r)[i].id /\ ids[i] \notin call[r].occupied
    <3>1. row.id \in FileIds(r)
      BY <2>2, <2>3 DEF FileIds, n
    <3> QED BY <1>1, <1>4, <1>17, <2>2, <2>3, <3>1 DEF KnowsHistory
  <2> QED BY <1>6, <2>2, <2>3 DEF Settled, ids
<1>18. HistoryKeepsItsLine'
  <2> SUFFICES ASSUME NEW row \in history, NEW i \in 1..n, ~row.late, row.id = Id(i)
               PROVE  row.line = LineOf(r, i)
    BY <1>1, <1>13, <1>14 DEF HistoryKeepsItsLine
  <2>1. PICK t \in targets : t.id = ids[i] /\ t.name = Rows(r)[i].name
    BY <1>17
  <2>2. ids[i] # 0 /\ row.id = t.id
    BY <1>3, <1>9, <2>1 DEF TargetType
  <2>3. row.line = t.line
    BY <2>2 DEF IInv, HistoryKeepsItsLine
  <2> QED BY <1>11, <2>1, <2>3
<1>19. SnapshotInv'
  <2>1. ASSUME NEW c \in Recorders, recorder'[c].at = "writing" PROVE recorder'[c].late
    <3>1. recorder'[c] = [recorder[c] EXCEPT !.late = recorder[c].at = "writing"]
      BY <1>1
    <3>2. recorder'[c].at = recorder[c].at /\ recorder'[c].late = (recorder[c].at = "writing")
      BY <1>3, <3>1 DEF RecorderType
    <3> QED BY <2>1, <3>2, Zenon
  <2> QED BY <2>1 DEF SnapshotInv
<1>20. /\ recorder' \in [Recorders -> RecorderType]
       /\ \A c \in Recorders : recorder'[c].at = recorder[c].at /\ recorder'[c].targets = recorder[c].targets
  <2>1. ASSUME NEW c \in Recorders
        PROVE  LET now == [recorder[c] EXCEPT !.late = recorder[c].at = "writing"]
               IN  now \in RecorderType /\ now.at = recorder[c].at /\ now.targets = recorder[c].targets
    <3> DEFINE late == recorder[c].at = "writing"
    <3>1. late \in BOOLEAN /\ recorder[c] \in RecorderType
      BY <1>3
    <3> HIDE DEF late
    <3>2. LET now == [recorder[c] EXCEPT !.late = late]
          IN  now \in RecorderType /\ now.at = recorder[c].at /\ now.targets = recorder[c].targets
      BY <3>1 DEF RecorderType
    <3> QED BY <3>2 DEF late
  <2> DEFINE Now(c) == [recorder[c] EXCEPT !.late = recorder[c].at = "writing"]
  <2>2. recorder' = [c \in Recorders |-> Now(c)]
    BY <1>1
  <2>3. \A c \in Recorders : Now(c) \in RecorderType /\ Now(c).at = recorder[c].at
                             /\ Now(c).targets = recorder[c].targets
    BY <2>1
  <2> HIDE DEF Now
  <2> QED BY <2>2, <2>3
<1>21. /\ tokens' \in 0..MAX_TOKENS
       /\ recommendations' \in [made : 0..1, restored : Nat] /\ recommendations'.made = 0
       /\ lines' \in Nat /\ nextId' \in Nat /\ nextId <= nextId' /\ nextId' = top
  BY <1>1, <1>2, <1>3, <1>4, <1>5, <1>9 DEF top
<1>22. IInv'
  BY <1>1, <1>15, <1>16, <1>18, <1>19, <1>20, <1>21, WritesOn
<1>23. ASSUME NEW t \in targets, NEW i \in 1..n, Rows(r)[i].name = t.name, Protected(r, t),
              Alone(t) \/ Rows(r)[i].id = t.id
       PROVE  \E j \in 1..n : Id(j) = t.id /\ Rows(r)[j].name = t.name
  <2>0. t.id # 0
    BY <1>3 DEF TargetType
  <2>1. PICK j \in 1..n : ids[j] = t.id
    BY <1>1, <1>6, <1>23 DEF Settled, ids
  <2>2. CASE \E u \in targets : u.id = ids[j] /\ u.name = Rows(r)[j].name
    <3>1. PICK u \in targets : u.id = ids[j] /\ u.name = Rows(r)[j].name
      BY <2>2
    <3>2. u = t
      BY <1>3, <2>1, <3>1 DEF TargetsAreDistinct
    <3> QED BY <1>9, <2>0, <2>1, <3>1, <3>2
  <2>3. CASE ids[j] = Rows(r)[j].id /\ ids[j] \notin call[r].occupied
    <3>1. Rows(r)[j].name = t.name
      BY <1>23, <2>1, <2>3 DEF Protected, n
    <3> QED BY <1>9, <2>0, <2>1, <3>1
  <2> QED BY <1>6, <2>0, <2>1, <2>2, <2>3 DEF Settled, ids
<1>24. ASSUME NEW t \in targets, Alone(t), NEW row \in history, row.id = t.id, ~row.late,
              NEW v \in targets', v.name = t.name
       PROVE  \E u \in targets' : u.name = t.name /\ u.id = t.id
  <2>1. Protected(r, t)
    <3>1. CASE t.id \in FileIds(r)
      BY <1>1, <1>4, <1>24, <3>1 DEF KnowsHistory, Protected
    <3>2. CASE t.id \notin FileIds(r)
      BY <3>2 DEF FileIds, Protected
    <3> QED BY <3>1, <3>2
  <2>2. PICK i \in 1..n : Rows(r)[i].name = t.name
    BY <1>13, <1>14, <1>24
  <2>3. PICK j \in 1..n : Id(j) = t.id /\ Rows(r)[j].name = t.name
    BY <1>23, <1>24, <2>1, <2>2
  <2> QED BY <1>13, <1>14, <2>3
<1> DEFINE given == [i \in 1..n |-> Id(i)]
<1>25. Shown' = {[id |-> given[i], name |-> Rows(r)[i].name, order |-> OrderAt(Rows(r), i)] : i \in 1..n}
  <2>1. \A i \in 1..n : Bare(Row(i)) = [id |-> given[i], name |-> Rows(r)[i].name, order |-> OrderAt(Rows(r), i)]
    BY <1>14 DEF Bare
  <2>2. Shown' = {Bare(Row(i)) : i \in 1..n}
    BY <1>13 DEF Shown
  <2> QED BY <2>1, <2>2
<1>26. ASSUME NEW i \in 1..n
       PROVE  \/ \E t \in targets : t.id = Id(i) /\ t.name = Rows(r)[i].name
              \/ Id(i) = Rows(r)[i].id /\ Id(i) \notin call[r].occupied
              \/ Id(i) >= nextId
  <2>1. CASE ids[i] = 0
    BY <1>3, <1>9, <2>1
  <2>2. CASE ids[i] # 0
    <3>1. Id(i) = ids[i]
      BY <1>9, <2>2
    <3> QED BY <1>6, <2>2, <3>1 DEF Settled, ids
  <2> QED BY <2>1, <2>2
<1>28. RestoredAs(r, given)
  <2>1. \A i \in 1..n : given[i] = Id(i) /\ Id(i) \in Nat /\ Id(i) < nextId'
    BY <1>9, <1>21
  <2>2. given \in [1..n -> Nat]
    BY <2>1
  <2>3. \A i, j \in 1..n : i # j => given[i] # given[j]
    BY <1>10, <2>1
  <2>4. ASSUME NEW i \in 1..n
        PROVE  /\ \/ \E t \in targets : t.id = given[i] /\ t.name = Rows(r)[i].name
                  \/ given[i] = Rows(r)[i].id /\ given[i] \notin call[r].occupied
                  \/ given[i] >= nextId
               /\ given[i] < nextId'
    <3>1. given[i] = Id(i) /\ Id(i) < nextId'
      BY <2>1
    <3> HIDE DEF given, Id
    <3> QED BY <1>26, <3>1
  <2>5. nextId' >= nextId
    BY <1>3, <1>21
  <2>6. \A t \in targets, i \in 1..n :
          /\ Rows(r)[i].name = t.name /\ Protected(r, t)
          /\ Alone(t) \/ Rows(r)[i].id = t.id
          => \E j \in 1..n : given[j] = t.id /\ Rows(r)[j].name = t.name
    BY <1>23, <2>1
  <2> HIDE DEF given
  <2> QED BY <1>25, <2>2, <2>3, <2>4, <2>5, <2>6 DEF RestoredAs, n
<1> QED BY <1>22, <1>24, <1>28
-----------------------------------------------------------------------------
(* Beside the queue: the targets and the mutations stay as they are.       *)

\* Without a new row that is not late, what the mutations know is still so.
LEMMA BesideOn ==
    ASSUME IInv, UNCHANGED <<targets, nextId, lines, shared, tokens, queue, call, issued>>,
           recommendations' \in [made : 0..1, restored : Nat],
           history' \subseteq [id : Nat \ {0}, line : Nat, late : BOOLEAN],
           recorder' \in [Recorders -> RecorderType], updates' \in Seq(Recorders),
           \A row \in history' : row.id < nextId,
           \A row \in history' : ~row.late /\ row \notin history => ~Restoring,
           \A c \in Recorders : \A t \in recorder'[c].targets : t.id < nextId,
           HistoryKeepsItsLine', SnapshotInv', UpdateInv'
    PROVE  IInv'
<1>1. TypeOK' /\ TargetsAreDistinct'
  BY DEF IInv, TypeOK, RecorderType, TargetsAreDistinct
<1>2. QueueInv'
  BY DEF IInv, QueueInv, WellFormed, Started, Runs
<1>3. ASSUME NEW r \in Requests PROVE Knows(r)'
  <2>1. Knows(r)
    BY DEF IInv, KnowledgeInv
  <2>2. KnowsName(r)' /\ KnowsRoom(r)'
    BY <2>1 DEF Knows, KnowsName, KnowsRoom, nameTaken, coversAll
  <2>3. KnowsTargets(r)'
    BY <2>1 DEF Knows, KnowsTargets, Settled, Alone, Rows
  <2>4. KnowsHistory(r)'
    <3>1. FileIds(r)' = FileIds(r)
      BY DEF FileIds, Rows
    <3>2. call[r].op = "import" /\ call[r].at \in {"occupied", "settling"} => Restoring
      BY DEF Restoring
    <3> QED BY <2>1, <3>1, <3>2 DEF Knows, KnowsHistory
  <2> QED BY <2>2, <2>3, <2>4 DEF Knows
<1>4. IdsInv'
  BY DEF IInv, IdsInv
<1> QED BY <1>1, <1>2, <1>3, <1>4 DEF IInv, KnowledgeInv

LEMMA HistoryInv ==
    ASSUME IInv, (\E c \in Recorders : RecorderWrites(c)) \/ HistoryRemoved
    PROVE  IInv'
<1>0. /\ recommendations \in [made : 0..1, restored : Nat] /\ updates \in Seq(Recorders)
      /\ history \subseteq [id : Nat \ {0}, line : Nat, late : BOOLEAN]
      /\ recorder \in [Recorders -> RecorderType]
      /\ \A row \in history : row.id < nextId
      /\ \A c \in Recorders : \A t \in recorder[c].targets : t.id < nextId
  BY DEF IInv, TypeOK, RecorderType, IdsInv
<1>1. ASSUME NEW c \in Recorders, RecorderWrites(c) PROVE IInv'
  <2> DEFINE late == recorder[c].late \/ Restoring
  <2>1. PICK t \in recorder[c].targets :
          history' = history \cup {[id |-> t.id, line |-> t.line, late |-> late]}
    BY <1>1 DEF RecorderWrites
  <2>2. /\ UNCHANGED <<targets, nextId, lines, shared, tokens, queue, call, issued, recommendations, recorder, updates>>
        /\ recorder[c].at = "writing"
    BY <1>1 DEF RecorderWrites, adminVars, tables
  <2>3. late \in BOOLEAN /\ recorder[c].late \in BOOLEAN /\ (Restoring => late) /\ (recorder[c].late => late)
    BY <1>0 DEF RecorderType, Restoring
  <2>4. t.id \in Nat \ {0} /\ t.line \in Nat /\ t.id < nextId
    BY <1>0 DEF RecorderType
  <2> DEFINE new == [id |-> t.id, line |-> t.line, late |-> late]
  <2>5. /\ new.id = t.id /\ new.line = t.line /\ new.late = late
        /\ new \in [id : Nat \ {0}, line : Nat, late : BOOLEAN]
    BY <2>3, <2>4
  <2>6. ~late => \A u \in targets : t.id = u.id => t.line = u.line
    BY <2>2, <2>3 DEF IInv, SnapshotInv
  <2>7. history' = history \cup {new}
    BY <2>1
  <2> HIDE DEF new, late
  <2>8. HistoryKeepsItsLine'
    BY <2>2, <2>5, <2>6, <2>7 DEF IInv, HistoryKeepsItsLine
  <2>9. /\ \A row \in history' : row.id < nextId
        /\ \A row \in history' : ~row.late /\ row \notin history => ~Restoring
        /\ history' \subseteq [id : Nat \ {0}, line : Nat, late : BOOLEAN]
    BY <1>0, <2>3, <2>4, <2>5, <2>7
  <2>10. SnapshotInv' /\ UpdateInv'
    BY <2>2 DEF IInv, SnapshotInv, UpdateInv, UpdateRuns
  <2> QED BY <1>0, <2>2, <2>8, <2>9, <2>10, BesideOn
<1>2. ASSUME HistoryRemoved PROVE IInv'
  <2>1. /\ UNCHANGED <<targets, nextId, lines, shared, tokens, queue, call, issued, recommendations, recorder, updates>>
        /\ history' \subseteq history
    BY <1>2 DEF HistoryRemoved, adminVars, tables
  <2>2. HistoryKeepsItsLine' /\ SnapshotInv' /\ UpdateInv'
    BY <2>1 DEF IInv, HistoryKeepsItsLine, SnapshotInv, UpdateInv, UpdateRuns
  <2> QED BY <1>0, <2>1, <2>2, BesideOn
<1> QED BY <1>1, <1>2

LEMMA RecorderInv ==
    ASSUME IInv, NEW c \in Recorders,
           RecorderReads(c) \/ RecorderEnds(c) \/ UpdateAsked(c) \/ Update(c)
    PROVE  IInv'
<1>0. /\ recommendations \in [made : 0..1, restored : Nat] /\ updates \in Seq(Recorders)
      /\ history \subseteq [id : Nat \ {0}, line : Nat, late : BOOLEAN]
      /\ recorder \in [Recorders -> RecorderType]
      /\ \A row \in history : row.id < nextId
      /\ \A d \in Recorders : \A t \in recorder[d].targets : t.id < nextId
      /\ UpdateInv
  BY DEF IInv, TypeOK, RecorderType, IdsInv
<1>1. Quiet \in RecorderType /\ [Quiet EXCEPT !.at = "queued"] \in RecorderType
  BY DEF Quiet, RecorderType
<1>2. UNCHANGED <<targets, nextId, lines, shared, tokens, queue, call, issued, history>>
  BY DEF RecorderReads, RecorderEnds, UpdateAsked, Update, UpdateReads, UpdateWrites, UpdateRefused,
     adminVars, tables
<1>3. HistoryKeepsItsLine'
  BY <1>2 DEF IInv, HistoryKeepsItsLine
<1>4. ASSUME RecorderReads(c) PROVE IInv'
  <2> DEFINE seen == {[id |-> t.id, line |-> t.line] : t \in targets}
             new == [at |-> "writing", late |-> FALSE, targets |-> seen]
  <2>1. recorder' = [recorder EXCEPT ![c] = new] /\ UNCHANGED <<recommendations, updates>> /\ recorder[c].at = "idle"
    BY <1>4 DEF RecorderReads
  <2>2. /\ seen \in SUBSET [id : Nat \ {0}, line : Nat] /\ \A s \in seen : s.id < nextId
        /\ \A s \in seen, t \in targets : s.id = t.id => s.line = t.line
    BY DEF IInv, TypeOK, IdsInv, TargetsAreDistinct
  <2> HIDE DEF seen
  <2>3. new \in RecorderType /\ new.targets = seen /\ new.at = "writing"
    BY <2>2 DEF RecorderType
  <2> HIDE DEF new
  <2>4. /\ recorder' \in [Recorders -> RecorderType]
        /\ \A d \in Recorders : \A t \in recorder'[d].targets : t.id < nextId
    BY <1>0, <2>1, <2>2, <2>3
  <2>5. SnapshotInv'
    BY <1>0, <1>2, <2>1, <2>2, <2>3 DEF IInv, SnapshotInv
  <2>6. UpdateInv'
    BY <1>0, <2>1, <2>3 DEF UpdateInv, UpdateRuns
  <2> QED BY <1>0, <1>2, <1>3, <2>1, <2>4, <2>5, <2>6, BesideOn
<1>5. ASSUME NEW new \in RecorderType, recorder' = [recorder EXCEPT ![c] = new],
             new.at # "writing", new.targets \subseteq recorder[c].targets,
             recommendations' \in [made : 0..1, restored : Nat], updates' \in Seq(Recorders), UpdateInv'
      PROVE  IInv'
  <2>1. /\ recorder' \in [Recorders -> RecorderType]
        /\ \A d \in Recorders : \A t \in recorder'[d].targets : t.id < nextId
    BY <1>0, <1>5
  <2>2. SnapshotInv'
    BY <1>0, <1>2, <1>5 DEF IInv, SnapshotInv
  <2> QED BY <1>0, <1>2, <1>3, <1>5, <2>1, <2>2, BesideOn
<1>6. ASSUME RecorderEnds(c) PROVE IInv'
  <2>1. recorder' = [recorder EXCEPT ![c] = Quiet] /\ UNCHANGED <<recommendations, updates>>
    BY <1>6 DEF RecorderEnds
  <2>2. UpdateInv'
    BY <1>0, <2>1 DEF UpdateInv, UpdateRuns, Quiet
  <2> QED BY <1>0, <1>1, <1>5, <2>1, <2>2 DEF Quiet
<1>7. ASSUME UpdateAsked(c) PROVE IInv'
  <2>1. /\ recorder' = [recorder EXCEPT ![c] = [Quiet EXCEPT !.at = "queued"]]
        /\ updates' = Append(updates, c) /\ UNCHANGED recommendations
    BY <1>7 DEF UpdateAsked
  <2>2. updates' \in Seq(Recorders) /\ \A d \in Recorders : UpdateRuns(d) => UpdateRuns(d)'
    BY <1>0, <2>1 DEF UpdateRuns
  <2>3. UpdateInv'
    BY <1>0, <2>1, <2>2 DEF UpdateInv, Quiet
  <2> QED BY <1>0, <1>1, <1>5, <2>1, <2>2, <2>3 DEF Quiet
<1>8. ASSUME UpdateReads(c) PROVE IInv'
  <2> DEFINE at == IF recommendations.made + recommendations.restored > 0 THEN "found" ELSE "missing"
             new == [recorder[c] EXCEPT !.at = at]
  <2>1. recorder' = [recorder EXCEPT ![c] = new] /\ UpdateRuns(c) /\ UNCHANGED <<recommendations, updates>>
    BY <1>8 DEF UpdateReads
  <2>2. /\ new \in RecorderType /\ new.at \in {"found", "missing"} /\ new.targets = recorder[c].targets
        /\ new.at = "missing" => recommendations.made = 0
    <3>1. at \in {"found", "missing"} /\ (at = "missing" => recommendations.made = 0)
      BY <1>0
    <3> HIDE DEF at
    <3>2. recorder[c] \in RecorderType
      BY <1>0
    <3> QED BY <3>1, <3>2 DEF RecorderType
  <2> HIDE DEF new
  <2>3. UpdateInv'
    BY <1>0, <2>1, <2>2 DEF UpdateInv, UpdateRuns
  <2> QED BY <1>0, <1>5, <2>1, <2>2, <2>3
<1>9. ASSUME UpdateWrites(c) \/ UpdateRefused(c) PROVE IInv'
  <2>1. UpdateRuns(c) /\ updates' = Tail(updates) /\ recorder' = [recorder EXCEPT ![c] = Quiet]
    BY <1>9 DEF UpdateWrites, UpdateRefused, UpdateLeaves
  <2>2. updates' \in Seq(Recorders)
    BY <1>0, <2>1, HeadTailProperties DEF UpdateRuns
  <2>3. recommendations' \in [made : 0..1, restored : Nat]
    <3>1. recorder[c].at = "missing" => recommendations.made = 0
      BY <1>0 DEF UpdateInv
    <3> QED BY <1>0, <1>9, <3>1 DEF UpdateWrites, UpdateRefused
  <2>4. \A d \in Recorders : recorder'[d].at \notin {"found", "missing"}
    BY <1>0, <2>1 DEF UpdateInv, UpdateRuns, Quiet
  <2>5. UpdateInv'
    BY <2>4 DEF UpdateInv
  <2> QED BY <1>0, <1>1, <1>5, <2>1, <2>2, <2>3, <2>5 DEF Quiet
<1> QED BY <1>4, <1>6, <1>7, <1>8, <1>9 DEF Update

-----------------------------------------------------------------------------
LEMMA StepIInv == IInv /\ [Next]_vars => IInv'
<1> SUFFICES ASSUME IInv, [Next]_vars PROVE IInv'
  OBVIOUS
<1>1. ASSUME NEW r \in Requests, Asks(r) \/ Serve(r) PROVE IInv'
  BY <1>1, AsksInv, RouteReadsInv, ImportReadsInv, ImportSettlesInv, SmallWritesInv, CreateInsertsInv,
     ImportCommitsInv DEF Serve
<1>2. ASSUME NEW c \in Recorders,
             RecorderReads(c) \/ RecorderWrites(c) \/ RecorderEnds(c) \/ UpdateAsked(c) \/ Update(c)
      PROVE  IInv'
  BY <1>2, RecorderInv, HistoryInv
<1>3. CASE HistoryRemoved
  BY <1>3, HistoryInv
<1>4. CASE UNCHANGED vars
  <2>1. /\ UNCHANGED <<targets, nextId, lines, shared, tokens, queue, call, issued>>
        /\ UNCHANGED <<recommendations, history, recorder, updates>>
    BY <1>4 DEF vars, tables, recorderVars
  <2> QED BY <2>1, BesideOn DEF IInv, TypeOK, RecorderType, IdsInv, HistoryKeepsItsLine, SnapshotInv,
        UpdateInv, UpdateRuns
<1> QED BY <1>1, <1>2, <1>3, <1>4 DEF Next

\* The types, and the limits of the tokens and of the recommendations, hold of
\* every instance: a mutation that has counted is the only one that can have.
THEOREM TypeCorrect == Spec => []TypeOK
<1>1. IInv => TypeOK
  BY DEF IInv
<1> QED BY <1>1, InitIInv, StepIInv, PTL DEF Spec

\* Ids stay distinct through every create, rename, reorder and restore; names and
\* places in the order do but for those that the backup last restored, or the
\* install, gave to two rows itself.
THEOREM TargetsDistinct == Spec => []TargetsAreDistinct
<1>1. IInv => TargetsAreDistinct
  BY DEF IInv
<1> QED BY <1>1, InitIInv, StepIInv, PTL DEF Spec

\* No id that has a measurement of one line under it is ever worn by another.
THEOREM HistoryKept == Spec => []HistoryKeepsItsLine
<1>1. IInv => HistoryKeepsItsLine
  BY DEF IInv
<1> QED BY <1>1, InitIInv, StepIInv, PTL DEF Spec
NameKept ==
    \A t \in targets :
        /\ \A u \in targets : u.name = t.name => u = t
        /\ \E row \in history : row.id = t.id /\ ~row.late
        /\ \E u \in targets' : u.name = t.name
        => \E u \in targets' : u.name = t.name /\ u.id = t.id

LEMMA StepNameKept == IInv /\ [Next]_vars => NameKept
<1> SUFFICES ASSUME IInv, [Next]_vars PROVE NameKept
  OBVIOUS
<1>1. ASSUME \A u \in targets' : \E w \in targets : w.id = u.id /\ w.name = u.name
      PROVE  NameKept
  BY <1>1 DEF NameKept
<1>2. CASE targets' = targets
  BY <1>1, <1>2
<1>3. ASSUME NEW r \in Requests, ImportCommits(r) PROVE NameKept
  BY <1>3, ImportCommitsInv DEF NameKept, Alone
<1>4. ASSUME NEW r \in Requests, CreateInserts(r) PROVE NameKept
  <2>1. /\ targets' = targets \cup {[id |-> nextId, name |-> call[r].name,
                                     order |-> call[r].order, line |-> lines]}
        /\ call[r].op = "create" /\ call[r].at = "ordered"
    BY <1>4 DEF CreateInserts, At
  <2>2. ~nameTaken(call[r].name, 0) /\ \A t \in targets : t.id # 0
    BY <2>1 DEF IInv, TypeOK, KnowledgeInv, Knows, KnowsName
  <2> QED BY <2>1, <2>2 DEF nameTaken, NameKept
<1>5. ASSUME NEW r \in Requests, RenameWrites(r) PROVE NameKept
  <2>1. /\ targets' = {IF t.id = call[r].id THEN [t EXCEPT !.name = call[r].name] ELSE t : t \in targets}
        /\ call[r].op = "rename" /\ call[r].at = "named"
    BY <1>5 DEF RenameWrites, At
  <2>2. \/ ~nameTaken(call[r].name, call[r].id)
        \/ \E t \in targets : t.id = call[r].id /\ t.name = call[r].name
    BY <2>1 DEF IInv, KnowledgeInv, Knows, KnowsName
  <2>3. ASSUME NEW u \in targets'
        PROVE  \E w \in targets : /\ w.id = u.id
                                  /\ u.name = IF w.id = call[r].id THEN call[r].name ELSE w.name
    <3>1. PICK w \in targets : u = IF w.id = call[r].id THEN [w EXCEPT !.name = call[r].name] ELSE w
      BY <2>1
    <3>2. w \in TargetType
      BY DEF IInv, TypeOK, TargetType
    <3> QED BY <3>1, <3>2 DEF TargetType
  <2>4. ASSUME NEW u \in targets', NEW t \in targets, u.name = t.name,
               \A v \in targets : v.name = t.name => v = t
        PROVE  u.id = t.id
    <3>1. PICK w \in targets : w.id = u.id /\ u.name = IF w.id = call[r].id THEN call[r].name ELSE w.name
      BY <2>3
    <3>2. CASE w.id # call[r].id
      BY <2>4, <3>1, <3>2
    <3>3. CASE w.id = call[r].id
      BY <2>2, <2>4, <3>1, <3>3 DEF nameTaken
    <3> QED BY <3>2, <3>3
  <2> QED BY <2>4 DEF NameKept
<1>6. ASSUME NEW r \in Requests, DeleteWrites(r) \/ ResetCommits(r) PROVE NameKept
  BY <1>1, <1>6 DEF DeleteWrites, ResetCommits
<1>7. ASSUME NEW r \in Requests, ReorderWrites(r) PROVE NameKept
  <2>1. ASSUME NEW t \in targets
        PROVE  Reordered(t, call[r].ids).id = t.id /\ Reordered(t, call[r].ids).name = t.name
    BY DEF Reordered, IInv, TypeOK
  <2> QED BY <1>1, <1>7, <2>1 DEF ReorderWrites
<1>8. ASSUME NEW r \in Requests,
             \/ Asks(r) \/ Refused(r) \/ CreateChecks(r) \/ CreateOrders(r) \/ RenameReads(r)
             \/ RenameChecks(r) \/ DeleteReads(r) \/ ReorderReads(r) \/ TokenCounts(r)
             \/ TokenIssued(r) \/ TokenRevoked(r)
             \/ ImportReadsHistory(r) \/ ImportReadsTargets(r) \/ ImportSettles(r)
      PROVE  targets' = targets
  BY <1>8 DEF Asks, Asked, Refused, CreateChecks, CreateOrders, RenameReads, RenameChecks, DeleteReads,
     ReorderReads, TokenCounts, TokenIssued, TokenRevoked, ImportReadsHistory, ImportReadsTargets,
     ImportSettles, Reads, tables
<1>9. ASSUME NEW c \in Recorders,
             RecorderReads(c) \/ RecorderWrites(c) \/ RecorderEnds(c) \/ UpdateAsked(c) \/ Update(c)
      PROVE  targets' = targets
  BY <1>9 DEF RecorderReads, RecorderWrites, RecorderEnds, UpdateAsked, Update, UpdateReads,
     UpdateWrites, UpdateRefused, adminVars, tables
<1>10. HistoryRemoved \/ UNCHANGED vars => targets' = targets
  BY DEF HistoryRemoved, adminVars, tables, vars
<1> QED BY <1>2, <1>3, <1>4, <1>5, <1>6, <1>7, <1>8, <1>9, <1>10 DEF Next, Serve

\* The only target of its name keeps its id, if it has measurements that are not
\* late, as long as its name is on record: whatever numbers the restored backups give
\* it, and however many of their rows share that name.
THEOREM NameKeepsHistory == Spec => NameKeepsItsHistory
<1>1. IInv /\ [Next]_vars => [NameKept]_vars
  BY StepNameKept
<1>2. Spec => [][NameKept]_vars
  BY <1>1, InitIInv, StepIInv, PTL DEF Spec
<1> QED BY <1>2 DEF NameKeepsItsHistory, NameKept

HIDE AdminAssumption

-----------------------------------------------------------------------------
(* The contract: every step of a mutation that writes is that change at    *)
(* once, on the tables as they are; every other one is none, but for the   *)
(* look a restore takes at the history, or one that is given up.           *)

LEMMA ContractInit == Init => Contract!Init
<1> SUFFICES ASSUME Init PROVE Contract!Init
  OBVIOUS
<1>1. IInv
  BY InitIInv
<1>2. \A t, u \in Shown : t # u => t.id # u.id
  BY <1>1 DEF IInv, TargetsAreDistinct, Shown, Bare
<1>3. \A t \in Shown : t.id < nextId
  BY <1>1 DEF IInv, IdsInv, Shown, Bare
<1>4. tokens = 0 /\ Ids(history) = {}
  BY DEF Init, Ids
<1>5. Looks = {}
  BY DEF Init, Looks, Blank
<1> QED BY <1>2, <1>3, <1>4, <1>5 DEF Contract!Init, Shown, Bare

LEMMA SameMeasured == UNCHANGED history => Ids(history)' = Ids(history)
BY DEF Ids

LEMMA ContractStutter ==
    UNCHANGED <<targets, nextId, tokens>> /\ Ids(history)' = Ids(history) /\ Looks' = Looks
    => UNCHANGED Contract!vars
BY DEF Contract!vars

Looking(r) == call[r].op = "import" /\ call[r].at \in {"occupied", "settling"}

\* Only the front of the queue can have looked at the history.
LEMMA OthersLook ==
    ASSUME IInv, NEW r \in Requests, Runs(r)
    PROVE  /\ \A q \in Requests : q # r => ~Looking(q)
           /\ ~Looking(r) => Looks = {}
           /\ Looking(r) => Looks = {[file |-> call[r].file, occupied |-> call[r].occupied]}
<1>1. ASSUME NEW q \in Requests, q # r PROVE ~Looking(q)
  <2>1. ~Runs(q)
    BY <1>1 DEF Runs
  <2>2. ~Started(q)
    BY <2>1 DEF IInv, QueueInv
  <2> QED BY <2>2 DEF Started, Looking
<1>2. Looks = {[file |-> call[q].file, occupied |-> call[q].occupied] : q \in {q \in Requests : Looking(q)}}
  BY DEF Looks, Looking
<1>3. ~Looking(r) => {q \in Requests : Looking(q)} = {}
  BY <1>1
<1>4. Looking(r) => {q \in Requests : Looking(q)} = {r}
  BY <1>1
<1> QED BY <1>1, <1>2, <1>3, <1>4

\* The last step of a mutation leaves no look behind.
LEMMA LooksEnd ==
    ASSUME IInv, NEW r \in Requests, Runs(r), Leaves(r)
    PROVE  Looks' = {}
BY LeavesQueue DEF Looks

LEMMA WholeStep ==
    ASSUME IInv, NEW r \in Requests, Runs(r), Leaves(r), ~Looking(r), UNCHANGED history
    PROVE  /\ Looks = {} /\ Looks' = {} /\ Ids(history)' = Ids(history)
           /\ Contract!Whole
BY OthersLook, LooksEnd, SameMeasured DEF Contract!Whole

LEMMA ContractMutation == Contract!Whole /\ Contract!Mutation => Contract!Next
BY DEF Contract!Next

LEMMA ContractCreate ==
    ASSUME IInv, NEW r \in Requests, CreateInserts(r)
    PROVE  Contract!Next
<1> DEFINE new == [id |-> nextId, name |-> call[r].name, order |-> call[r].order, line |-> lines]
<1>1. /\ targets' = targets \cup {new} /\ nextId' = nextId + 1 /\ UNCHANGED <<tokens, history>>
      /\ call[r].op = "create" /\ call[r].at = "ordered" /\ Runs(r) /\ Leaves(r)
  BY DEF CreateInserts, At, recorderVars
<1>2. PICK n \in Names : n = call[r].name
  BY <1>1 DEF IInv, QueueInv, WellFormed
<1>3. ~nameTaken(n, 0) /\ \A t \in targets : t.order < call[r].order
  BY <1>1, <1>2 DEF IInv, KnowledgeInv, Knows, KnowsName
<1>4. \A t \in targets : t.id # 0
  BY DEF IInv, TypeOK
<1>5. Shown' = Shown \cup {Bare(new)}
  BY <1>1 DEF Shown
<1>6. Bare(new).name = n /\ Bare(new).id = nextId /\ Bare(new).order = call[r].order
  BY <1>2 DEF Bare
<1>7. \A u \in Shown : u.order < Bare(new).order
  BY <1>3, <1>6 DEF Shown, Bare
<1>8. {t \in Shown : t.name = n} = {}
  BY <1>3, <1>4 DEF nameTaken, Shown, Bare
<1>9. Contract!Create(n)
  BY <1>1, <1>5, <1>6, <1>7, <1>8 DEF Contract!Create, Contract!Named, Shown, Bare
<1>10. Contract!Whole
  BY <1>1, WholeStep DEF Looking
<1> QED BY <1>9, <1>10, ContractMutation DEF Contract!Mutation

\* A renamed target that went in the meantime cannot be: the queue has one at a
\* time. Told that way or not, a write that finds no row is no step.
LEMMA ContractRename ==
    ASSUME IInv, NEW r \in Requests, RenameWrites(r)
    PROVE  Contract!Next \/ UNCHANGED Contract!vars
<1>1. /\ UNCHANGED <<nextId, tokens, history>>
      /\ targets' = {IF t.id = call[r].id THEN [t EXCEPT !.name = call[r].name] ELSE t : t \in targets}
      /\ call[r].op = "rename" /\ call[r].at = "named" /\ Runs(r) /\ Leaves(r)
  BY DEF RenameWrites, At, recorderVars
<1>W. Looks = {} /\ Looks' = {} /\ Ids(history)' = Ids(history) /\ Contract!Whole
  BY <1>1, WholeStep DEF Looking
<1>2. PICK n \in Names : n = call[r].name
  BY <1>1 DEF IInv, QueueInv, WellFormed
<1>3. /\ targets \subseteq TargetType
      /\ ~nameTaken(n, call[r].id) \/ \E t \in targets : t.id = call[r].id /\ t.name = n
  BY <1>1, <1>2 DEF IInv, KnowledgeInv, Knows, KnowsName, TypeOK, TargetType
<1>4. CASE \A t \in targets : t.id # call[r].id
  <2>1. targets' = targets
    BY <1>1, <1>4
  <2> QED BY <1>1, <1>W, <2>1, ContractStutter
<1>5. CASE \E t \in targets : t.id = call[r].id
  <2>1. PICK t \in targets : t.id = call[r].id
    BY <1>5
  <2>2. Bare(t) \in Shown /\ Bare(t).id = call[r].id
    BY <2>1 DEF Shown, Bare
  <2>3. \/ \A u \in Shown : u.name = n => u.id = call[r].id
        \/ \E u \in Shown : u.name = n /\ u.id = call[r].id
    <3>1. CASE ~nameTaken(n, call[r].id)
      BY <3>1 DEF nameTaken, Shown, Bare
    <3>2. CASE \E v \in targets : v.id = call[r].id /\ v.name = n
      <4>1. PICK v \in targets : v.id = call[r].id /\ v.name = n
        BY <3>2
      <4>2. Bare(v) \in Shown /\ Bare(v).id = v.id /\ Bare(v).name = v.name
        BY DEF Shown, Bare
      <4> QED BY <4>1, <4>2
    <3> QED BY <1>3, <3>1, <3>2
  <2> DEFINE Named(u) == IF u.id = call[r].id THEN [u EXCEPT !.name = n] ELSE u
  <2>4. Shown' = {Named(u) : u \in Shown}
    <3>1. \A u \in targets : Bare(Named(u)) = Named(Bare(u))
      BY <1>3 DEF Bare, TargetType
    <3>2. targets' = {Named(u) : u \in targets}
      BY <1>1, <1>2
    <3>3. {Named(u) : u \in Shown} = {Named(Bare(u)) : u \in targets}
      BY DEF Shown
    <3> HIDE DEF Named
    <3>4. Shown' = {Bare(Named(u)) : u \in targets}
      BY <3>2 DEF Shown
    <3> QED BY <3>1, <3>3, <3>4
  <2>5. Contract!WithId(Bare(t).id) # {}
    BY <2>2 DEF Contract!WithId, Shown, Bare
  <2>6. \/ Contract!Named(n) \subseteq Contract!WithId(Bare(t).id)
        \/ \E u \in Contract!WithId(Bare(t).id) : u.name = n
    BY <2>2, <2>3 DEF Contract!WithId, Contract!Named, Shown, Bare
  <2>7. Shown' = {IF u.id = Bare(t).id THEN [u EXCEPT !.name = n] ELSE u : u \in Shown}
    BY <2>2, <2>4
  <2>8. Contract!Rename(Bare(t).id, n)
    BY <1>1, <2>5, <2>6, <2>7 DEF Contract!Rename, Shown, Bare
  <2>9. Contract!Mutation
    BY <2>2, <2>8 DEF Contract!Mutation, Shown, Bare
  <2> QED BY <1>W, <2>9, ContractMutation
<1> QED BY <1>4, <1>5

LEMMA ContractDelete ==
    ASSUME IInv, NEW r \in Requests, DeleteWrites(r)
    PROVE  Contract!Next \/ UNCHANGED Contract!vars
<1>1. /\ UNCHANGED <<nextId, tokens, history>>
      /\ targets' = {t \in targets : t.id # call[r].id}
      /\ call[r].op = "delete" /\ Runs(r) /\ Leaves(r)
  BY DEF DeleteWrites, At, recorderVars
<1>W. Looks = {} /\ Looks' = {} /\ Ids(history)' = Ids(history) /\ Contract!Whole
  BY <1>1, WholeStep DEF Looking
<1>2. CASE \A t \in targets : t.id # call[r].id
  BY <1>1, <1>2, <1>W, ContractStutter
<1>3. CASE \E t \in targets : t.id = call[r].id
  <2>1. PICK t \in targets : t.id = call[r].id
    BY <1>3
  <2>2. Bare(t) \in Shown /\ Bare(t).id = call[r].id
    BY <2>1 DEF Shown, Bare
  <2>3. Shown' = Shown \ {u \in Shown : u.id = Bare(t).id}
    BY <1>1, <2>2 DEF Shown, Bare
  <2>4. Contract!Delete(Bare(t).id)
    BY <1>1, <2>2, <2>3 DEF Contract!Delete, Contract!WithId, Shown, Bare
  <2>5. Contract!Mutation
    BY <2>2, <2>4 DEF Contract!Mutation, Shown, Bare
  <2> QED BY <1>W, <2>5, ContractMutation
<1> QED BY <1>2, <1>3

\* A list that covers the targets puts each of them in a place of its own, and
\* leaves no place empty.
LEMMA PlacesFilled ==
    ASSUME TypeOK, NEW ids \in Seq(Nat), coversAll(ids), TargetsAreDistinct
    PROVE  \E place \in [targets -> 1..Len(ids)] :
             /\ \A t \in targets : Reordered(t, ids) = [t EXCEPT !.order = place[t] - 1]
             /\ \A t, u \in targets : place[t] = place[u] => t = u
             /\ \A i \in 1..Len(ids) : \E t \in targets : place[t] = i
<1> DEFINE place == [t \in targets |-> CHOOSE i \in DOMAIN ids : ids[i] = t.id]
<1>1. /\ Len(ids) \in Nat /\ DOMAIN ids = 1..Len(ids) /\ Len(ids) = Cardinality(targets)
      /\ \A t \in targets : \E i \in DOMAIN ids : ids[i] = t.id
  BY DEF coversAll
<1>2. \A t \in targets : place[t] \in 1..Len(ids) /\ ids[place[t]] = t.id
  BY <1>1
<1>3. place \in [targets -> 1..Len(ids)]
  BY <1>2
<1>4. \A t \in targets : Reordered(t, ids) = [t EXCEPT !.order = place[t] - 1]
  BY <1>1 DEF Reordered
<1> HIDE DEF place
<1>5. \A t, u \in targets : place[t] = place[u] => t = u
  BY <1>2 DEF TargetsAreDistinct
<1>6. IsFiniteSet(1..Len(ids)) /\ Cardinality(1..Len(ids)) = Len(ids)
  BY <1>1, FS_Interval
<1>7. place \in Injection(targets, 1..Len(ids))
  BY <1>3, <1>5 DEF Injection, IsInjective
<1>8. place \in Surjection(targets, 1..Len(ids))
  BY <1>1, <1>6, <1>7, FS_Injection
<1>9. \A i \in 1..Len(ids) : \E t \in targets : place[t] = i
  BY <1>8 DEF Surjection
<1> QED BY <1>3, <1>4, <1>5, <1>9

LEMMA ContractReorder ==
    ASSUME IInv, NEW r \in Requests, ReorderWrites(r)
    PROVE  Contract!Next
<1> DEFINE ids == call[r].ids
           k == Len(ids)
<1>1. /\ targets' = {Reordered(t, ids) : t \in targets} /\ UNCHANGED <<nextId, tokens, history>>
      /\ call[r].op = "reorder" /\ call[r].at = "read" /\ Runs(r) /\ Leaves(r)
  BY DEF ReorderWrites, At, recorderVars
<1>W. Contract!Whole
  BY <1>1, WholeStep DEF Looking
<1>2. coversAll(ids) /\ ids \in Seq(Nat) /\ k \in Nat /\ targets \subseteq TargetType
  BY <1>1 DEF IInv, KnowledgeInv, Knows, KnowsName, TypeOK, CallType, TargetType
<1>3. PICK place \in [targets -> 1..k] :
        /\ \A t \in targets : Reordered(t, ids) = [t EXCEPT !.order = place[t] - 1]
        /\ \A t, u \in targets : place[t] = place[u] => t = u
        /\ \A i \in 1..k : \E t \in targets : place[t] = i
  BY <1>2, PlacesFilled DEF IInv
<1> HIDE DEF ids, k
<1> DEFINE Placed(t) == [id |-> t.id, name |-> t.name, order |-> place[t] - 1]
<1>4. \A t \in targets : Bare(Reordered(t, ids)) = Placed(t)
  BY <1>2, <1>3 DEF Bare, TargetType
<1>5. Shown' = {Placed(t) : t \in targets}
  <2>1. Shown' = {Bare(Reordered(t, ids)) : t \in targets}
    BY <1>1 DEF Shown
  <2> QED BY <1>4, <2>1
<1>6. /\ \A t \in targets : Placed(t).id = t.id /\ Placed(t).name = t.name /\ Placed(t).order = place[t] - 1
      /\ \A t \in targets : Bare(t).id = t.id /\ Bare(t).name = t.name
  BY DEF Bare
<1> HIDE DEF Placed
<1>7. {[id |-> v.id, name |-> v.name] : v \in Shown'} = {[id |-> v.id, name |-> v.name] : v \in Shown}
  <2>1. {[id |-> v.id, name |-> v.name] : v \in Shown'} = {[id |-> t.id, name |-> t.name] : t \in targets}
    BY <1>5, <1>6
  <2>2. {[id |-> v.id, name |-> v.name] : v \in Shown} = {[id |-> t.id, name |-> t.name] : t \in targets}
    BY <1>6 DEF Shown
  <2> QED BY <2>1, <2>2
<1>8. {v.order : v \in Shown'} = 0 .. (k - 1)
  <2>1. {v.order : v \in Shown'} = {place[t] - 1 : t \in targets}
    BY <1>5, <1>6
  <2>2. \A t \in targets : place[t] - 1 \in 0 .. (k - 1)
    BY <1>2, <1>3
  <2>3. ASSUME NEW j \in 0 .. (k - 1) PROVE \E t \in targets : j = place[t] - 1
    <3>1. j + 1 \in 1..k /\ (j + 1) - 1 = j
      BY <1>2
    <3>2. PICK t \in targets : place[t] = j + 1
      BY <1>3, <3>1
    <3> QED BY <3>1, <3>2
  <2>4. {place[t] - 1 : t \in targets} = 0 .. (k - 1)
    <3>1. {place[t] - 1 : t \in targets} \subseteq 0 .. (k - 1)
      BY <2>2
    <3>2. 0 .. (k - 1) \subseteq {place[t] - 1 : t \in targets}
      BY <2>3
    <3> QED BY <3>1, <3>2
  <2> QED BY <2>1, <2>4
<1>9. k \in {0} \cup {v.order + 1 : v \in Shown'}
  <2>1. CASE k # 0
    <3>1. PICK t \in targets : place[t] = k
      BY <1>2, <1>3, <2>1
    <3>2. Placed(t) \in Shown' /\ Placed(t).order + 1 = k
      BY <1>2, <1>5, <1>6, <3>1
    <3> QED BY <3>2
  <2> QED BY <2>1
<1>10. \A v, w \in Shown' : v.order = w.order => v = w
  <2>1. ASSUME NEW t \in targets, NEW u \in targets, place[t] - 1 = place[u] - 1 PROVE t = u
    BY <1>2, <1>3, <2>1
  <2> QED BY <1>5, <1>6, <2>1
<1>11. Contract!Reorder
  BY <1>1, <1>7, <1>8, <1>9, <1>10 DEF Contract!Reorder, Shown, Bare
<1> QED BY <1>W, <1>11, ContractMutation DEF Contract!Mutation

LEMMA ContractTokens ==
    ASSUME IInv, NEW r \in Requests, TokenIssued(r) \/ TokenRevoked(r) \/ ResetCommits(r)
    PROVE  Contract!Next
<1>W. Contract!Whole
  <2>1. /\ Runs(r) /\ Leaves(r) /\ UNCHANGED history
        /\ call[r].op \in {"issue", "revoke", "reset"}
    BY DEF TokenIssued, TokenRevoked, ResetCommits, At, recorderVars
  <2> QED BY <2>1, WholeStep DEF Looking
<1>1. CASE TokenIssued(r)
  <2>1. tokens < MAX_TOKENS /\ tokens' = tokens + 1 /\ UNCHANGED <<targets, nextId, history>>
    BY <1>1 DEF TokenIssued, At, IInv, KnowledgeInv, Knows, KnowsRoom, tables, recorderVars
  <2>2. Contract!Issue
    BY <2>1 DEF Contract!Issue
  <2> QED BY <1>W, <2>2, ContractMutation DEF Contract!Mutation
<1>2. CASE TokenRevoked(r)
  <2>1. tokens > 0 /\ tokens' = tokens - 1 /\ UNCHANGED <<targets, nextId, history>>
    BY <1>2 DEF TokenRevoked, At, tables, recorderVars
  <2>2. Contract!Revoke
    BY <2>1 DEF Contract!Revoke
  <2> QED BY <1>W, <2>2, ContractMutation DEF Contract!Mutation
<1>3. CASE ResetCommits(r)
  <2>1. targets' = {} /\ tokens' = 0 /\ UNCHANGED <<nextId, history>>
    BY <1>3 DEF ResetCommits, recorderVars
  <2>2. Contract!Reset
    BY <2>1 DEF Contract!Reset
  <2> QED BY <1>W, <2>2, ContractMutation DEF Contract!Mutation
<1> QED BY <1>1, <1>2, <1>3

\* A restore looks: its file and what of the history it has seen are kept.
LEMMA ContractLook ==
    ASSUME IInv, NEW r \in Requests, ImportReadsHistory(r)
    PROVE  Contract!Next
<1>1. /\ At(r, "import", "queued") /\ Runs(r) /\ call[r].op = "import" /\ call[r].at = "queued"
      /\ UNCHANGED <<targets, nextId, tokens, history>>
  BY DEF ImportReadsHistory, At, Reads, tables, recorderVars
<1>2. PICK f \in Files : f = call[r].file
  BY <1>1 DEF IInv, QueueInv, WellFormed
<1> DEFINE seen == Ids(history) \cap {f.rows[i].id : i \in 1..Len(f.rows)}
           next == [call[r] EXCEPT !.at = "occupied", !.occupied = seen]
<1>3. call' = [call EXCEPT ![r] = next]
  BY <1>2 DEF ImportReadsHistory, Reads, Goes, Rows
<1>4. next.op = "import" /\ next.at = "occupied" /\ next.file = f /\ next.occupied = seen
  BY <1>1, <1>2 DEF IInv, TypeOK, CallType
<1> HIDE DEF next
<1>5. call'[r] = next /\ \A q \in Requests : q # r => call'[q] = call[q]
  BY <1>3 DEF IInv, TypeOK
<1>6. (\A q \in Requests : q # r => ~Looking(q)) /\ Looks = {}
  BY <1>1, OthersLook DEF Looking
<1>7. Looks' = {[file |-> f, occupied |-> seen]}
  <2>1. {q \in Requests : call'[q].op = "import" /\ call'[q].at \in {"occupied", "settling"}} = {r}
    BY <1>4, <1>5, <1>6 DEF Looking
  <2>2. Looks' = {[file |-> call'[q].file, occupied |-> call'[q].occupied] : q \in {r}}
    BY <2>1 DEF Looks
  <2>3. call'[r].file = f /\ call'[r].occupied = seen
    BY <1>4, <1>5
  <2> HIDE DEF seen
  <2> QED BY <2>2, <2>3
<1>8. Contract!Look(f)
  BY <1>1, <1>6, <1>7, SameMeasured DEF Contract!Look
<1> QED BY <1>2, <1>8 DEF Contract!Next

LEMMA ContractRestore ==
    ASSUME IInv, NEW r \in Requests, ImportCommits(r)
    PROVE  Contract!Next
<1>1. /\ call[r].op = "import" /\ call[r].at = "settling" /\ UNCHANGED history /\ Runs(r) /\ Leaves(r)
      /\ tokens' = IF call[r].file.tokens = Absent THEN tokens ELSE call[r].file.tokens
  BY DEF ImportCommits, At
<1>2. PICK look \in Looks : look.file = call[r].file /\ look.occupied = call[r].occupied
  <2>1. Looking(r)
    BY <1>1 DEF Looking
  <2>2. [file |-> call[r].file, occupied |-> call[r].occupied] \in Looks
    BY <1>1, <2>1, OthersLook
  <2> QED BY <2>2
<1>3. PICK ids : RestoredAs(r, ids)
  BY ImportCommitsInv
<1> DEFINE rows == look.file.rows
           n == Len(rows)
<1>4. Rows(r) = rows /\ look.occupied = call[r].occupied
  BY <1>2 DEF Rows
<1> HIDE DEF rows
<1>R. /\ ids \in [1..n -> Nat]
      /\ Shown' = {[id |-> ids[i], name |-> rows[i].name, order |-> OrderAt(rows, i)] : i \in 1..n}
      /\ \A i, j \in 1..n : i # j => ids[i] # ids[j]
      /\ \A i \in 1..n :
           /\ \/ \E t \in targets : t.id = ids[i] /\ t.name = rows[i].name
              \/ ids[i] = rows[i].id /\ ids[i] \notin look.occupied
              \/ ids[i] >= nextId
           /\ ids[i] < nextId'
      /\ \A t \in targets, i \in 1..n :
           /\ rows[i].name = t.name /\ Protected(r, t)
           /\ Alone(t) \/ rows[i].id = t.id
           => \E j \in 1..n : ids[j] = t.id /\ rows[j].name = t.name
      /\ nextId' >= nextId
  BY <1>3, <1>4, Zenon DEF RestoredAs
<1>5. Shown' = {[id |-> ids[i], name |-> rows[i].name, order |-> Contract!OrderAt(rows, i)] : i \in 1..n}
  BY <1>R DEF OrderAt, Contract!OrderAt
<1>6. ids \in [1..n -> {t.id : t \in Shown'}]
  <2>1. \A i \in 1..n : \E t \in Shown' : t.id = ids[i]
    <3> TAKE i \in 1..n
    <3> DEFINE u == [id |-> ids[i], name |-> rows[i].name, order |-> Contract!OrderAt(rows, i)]
    <3> u \in Shown' /\ u.id = ids[i]
      BY <1>5
    <3> QED OBVIOUS
  <2>2. \A i \in 1..n : ids[i] \in {t.id : t \in Shown'}
    BY <2>1
  <2> QED BY <1>R, <2>2
<1>7. \A t \in targets : Bare(t) \in Shown /\ Bare(t).id = t.id /\ Bare(t).name = t.name
  BY DEF Shown, Bare
<1>8. ASSUME NEW i \in 1..n
      PROVE  /\ \/ ids[i] \in {t.id : t \in Contract!Named(rows[i].name)}
                \/ ids[i] = rows[i].id /\ ids[i] \notin look.occupied
                \/ ids[i] >= nextId
             /\ ids[i] < nextId'
  <2>1. ASSUME NEW t \in targets, t.id = ids[i], t.name = rows[i].name
        PROVE  ids[i] \in {u.id : u \in Contract!Named(rows[i].name)}
    <3>1. Bare(t) \in Contract!Named(rows[i].name) /\ Bare(t).id = ids[i]
      BY <2>1 DEF Contract!Named, Bare
    <3> QED BY <3>1
  <2> QED BY <1>R, <2>1
<1>9. ASSUME NEW u \in Shown, NEW i \in 1..n, rows[i].name = u.name,
             Contract!Stands(u, rows, look.occupied),
             Contract!Named(u.name) = {u} \/ rows[i].id = u.id
      PROVE  \E j \in 1..n : ids[j] = u.id /\ rows[j].name = u.name
  <2>1. PICK t \in targets : u = Bare(t)
    BY DEF Shown
  <2>2. u.id = t.id /\ u.name = t.name
    BY <2>1, <1>7
  <2>3. Protected(r, t)
    BY <1>4, <1>9, <2>2 DEF Protected, Contract!Stands
  <2>4. Alone(t) \/ rows[i].id = t.id
    <3>1. ASSUME Contract!Named(u.name) = {u}, NEW w \in targets, w.name = t.name PROVE w = t
      <4>1. Bare(w) \in Contract!Named(u.name)
        BY <2>2, <3>1 DEF Contract!Named, Bare
      <4>2. Bare(w) = u
        BY <3>1, <4>1
      <4>3. w.id = t.id
        BY <1>7, <2>2, <4>2
      <4> QED BY <4>3 DEF IInv, TargetsAreDistinct
    <3> QED BY <1>9, <2>2, <3>1 DEF Alone
  <2> QED BY <1>R, <1>9, <2>2, <2>3, <2>4
<1>10. tokens' = IF look.file.tokens = Absent THEN tokens ELSE look.file.tokens
  BY <1>1, <1>2
<1>11. Looks' = {} /\ Ids(history)' = Ids(history)
  BY <1>1, LooksEnd, SameMeasured
<1>12. Contract!Restore(look)
  <2>1. \E given \in [1..n -> {t.id : t \in Shown'}] :
          /\ Shown' = {[id |-> given[i], name |-> rows[i].name, order |-> Contract!OrderAt(rows, i)] : i \in 1..n}
          /\ \A i, j \in 1..n : i # j => given[i] # given[j]
          /\ \A i \in 1..n :
               /\ \/ given[i] \in {t.id : t \in Contract!Named(rows[i].name)}
                  \/ given[i] = rows[i].id /\ given[i] \notin look.occupied
                  \/ given[i] >= nextId
               /\ given[i] < nextId'
          /\ \A t \in Shown, i \in 1..n :
               /\ rows[i].name = t.name /\ Contract!Stands(t, rows, look.occupied)
               /\ Contract!Named(t.name) = {t} \/ rows[i].id = t.id
               => \E j \in 1..n : given[j] = t.id /\ rows[j].name = t.name
    <3> WITNESS ids \in [1..n -> {t.id : t \in Shown'}]
    <3> QED BY <1>5, <1>R, <1>8, <1>9, Zenon
  <2> QED BY <1>R, <1>10, <1>11, <2>1 DEF Contract!Restore, Shown, Bare, rows
<1> QED BY <1>12 DEF Contract!Next

\* A request that is refused gives its look up, if it had taken one.
LEMMA ContractRefused ==
    ASSUME IInv, NEW r \in Requests, Refused(r)
    PROVE  Contract!Next \/ UNCHANGED Contract!vars
<1>1. Runs(r) /\ Leaves(r) /\ UNCHANGED <<targets, nextId, tokens, history>>
  BY DEF Refused, tables, recorderVars
<1>2. Looks' = {} /\ Ids(history)' = Ids(history)
  BY <1>1, LooksEnd, SameMeasured
<1>3. CASE Looks = {}
  BY <1>1, <1>2, <1>3, ContractStutter
<1>4. CASE Looks # {}
  BY <1>1, <1>2, <1>4 DEF Contract!GiveUp, Contract!Next
<1> QED BY <1>3, <1>4

\* The other reads are nobody's business: no look is taken or changed.
LEMMA ContractReads ==
    ASSUME IInv, NEW r \in Requests,
           \/ Asks(r) \/ CreateChecks(r) \/ CreateOrders(r) \/ RenameReads(r)
           \/ RenameChecks(r) \/ DeleteReads(r) \/ ReorderReads(r) \/ TokenCounts(r)
           \/ ImportReadsTargets(r) \/ ImportSettles(r)
    PROVE  UNCHANGED Contract!vars
<1>1. UNCHANGED <<targets, nextId, tokens, history>>
  BY DEF Asks, Asked, CreateChecks, CreateOrders, RenameReads, RenameChecks, DeleteReads,
     ReorderReads, TokenCounts, ImportReadsTargets, ImportSettles, Reads, tables, recorderVars
<1>2. ASSUME NEW next, call' = [call EXCEPT ![r] = next],
             \/ ~Looking(r) /\ ~(next.op = "import" /\ next.at \in {"occupied", "settling"})
             \/ /\ Looking(r) /\ next.op = "import" /\ next.at = "settling"
                /\ next.file = call[r].file /\ next.occupied = call[r].occupied
      PROVE  UNCHANGED Contract!vars
  <2>1. call'[r] = next /\ \A q \in Requests : q # r => call'[q] = call[q]
    BY <1>2 DEF IInv, TypeOK
  <2>2. \A q \in Requests : Looking(q)' <=> Looking(q)
    BY <1>2, <2>1 DEF Looking
  <2>3. \A q \in Requests : Looking(q) =>
          call'[q].file = call[q].file /\ call'[q].occupied = call[q].occupied
    BY <1>2, <2>1
  <2>4. Looks' = Looks
    BY <2>2, <2>3 DEF Looks, Looking
  <2> QED BY <1>1, <2>4, SameMeasured, ContractStutter
<1>3. call[r] \in CallType
  BY DEF IInv, TypeOK
<1>4. CASE Asks(r)
  <2>1. PICK asked \in CallType : Asked(r, asked)
    BY <1>4, AsksAsked
  <2>2. /\ call[r].op = "none" /\ call' = [call EXCEPT ![r] = [asked EXCEPT !.at = "queued"]]
        /\ [asked EXCEPT !.at = "queued"].at = "queued"
    BY <2>1 DEF Asked, CallType
  <2> QED BY <1>2, <2>2 DEF Looking
<1>5. CASE \/ CreateChecks(r) \/ CreateOrders(r) \/ RenameReads(r) \/ RenameChecks(r)
           \/ DeleteReads(r) \/ ReorderReads(r) \/ TokenCounts(r)
  <2>1. PICK next : /\ call' = [call EXCEPT ![r] = next] /\ next.op = call[r].op
                    /\ call[r].op # "import"
    BY <1>3, <1>5 DEF CreateChecks, CreateOrders, RenameReads, RenameChecks, DeleteReads, ReorderReads,
       TokenCounts, At, Reads, Goes, CallType
  <2> QED BY <1>2, <2>1 DEF Looking
<1>6. CASE ImportReadsTargets(r) \/ ImportSettles(r)
  <2>1. PICK next : /\ call' = [call EXCEPT ![r] = next] /\ next.op = "import" /\ next.at = "settling"
                    /\ next.file = call[r].file /\ next.occupied = call[r].occupied /\ Looking(r)
    BY <1>3, <1>6 DEF ImportReadsTargets, ImportSettles, At, Reads, Goes, CallType, Looking
  <2> QED BY <1>2, <2>1
<1> QED BY <1>4, <1>5, <1>6

\* A row is filed under an id that was given. Removing one may leave others under it.
LEMMA ContractHistory ==
    ASSUME IInv, HistoryRemoved \/ \E c \in Recorders : RecorderWrites(c)
    PROVE  Contract!Next \/ UNCHANGED Contract!vars
<1>1. UNCHANGED <<targets, nextId, tokens>> /\ Looks' = Looks
  BY DEF HistoryRemoved, RecorderWrites, adminVars, tables, Looks
<1>2. CASE \E c \in Recorders : RecorderWrites(c)
  <2>1. PICK c \in Recorders : RecorderWrites(c)
    BY <1>2
  <2>2. PICK t \in recorder[c].targets :
          history' = history \cup {[id |-> t.id, line |-> t.line, late |-> recorder[c].late \/ Restoring]}
    BY <2>1 DEF RecorderWrites
  <2>3. t.id < nextId
    BY DEF IInv, IdsInv
  <2> DEFINE row == [id |-> t.id, line |-> t.line, late |-> recorder[c].late \/ Restoring]
  <2>4. Ids(history)' = Ids(history) \cup {t.id}
    <3>1. history' = history \cup {row} /\ row.id = t.id
      BY <2>2
    <3> HIDE DEF row
    <3> QED BY <3>1 DEF Ids
  <2>5. Contract!Measure(t.id) /\ t.id \in Ids(history)'
    BY <1>1, <2>3, <2>4 DEF Contract!Measure
  <2> QED BY <2>5 DEF Contract!Next
<1>3. CASE HistoryRemoved
  <2>1. PICK row \in history : history' = history \ {row}
    BY <1>3 DEF HistoryRemoved
  <2>2. CASE Ids(history)' = Ids(history)
    BY <1>1, <2>2, ContractStutter
  <2>3. CASE Ids(history)' # Ids(history)
    <3>1. Ids(history)' \subseteq Ids(history) /\ Ids(history) \ {row.id} \subseteq Ids(history)'
      BY <2>1 DEF Ids
    <3>2. row.id \in Ids(history) /\ Ids(history)' = Ids(history) \ {row.id}
      BY <2>3, <3>1
    <3>3. Contract!Forget(row.id)
      BY <1>1, <3>2 DEF Contract!Forget
    <3> QED BY <3>2, <3>3 DEF Contract!Next
  <2> QED BY <2>2, <2>3
<1> QED BY <1>2, <1>3

LEMMA ContractStep == IInv /\ [Next]_vars => [Contract!Next]_Contract!vars
<1> SUFFICES ASSUME IInv, [Next]_vars PROVE Contract!Next \/ UNCHANGED Contract!vars
  OBVIOUS
<1>1. CASE UNCHANGED <<targets, nextId, tokens, history, call>>
  <2>1. Looks' = Looks
    BY <1>1 DEF Looks
  <2> QED BY <1>1, <2>1, SameMeasured, ContractStutter
<1>2. ASSUME NEW c \in Recorders,
             RecorderReads(c) \/ RecorderEnds(c) \/ UpdateAsked(c) \/ Update(c)
      PROVE  UNCHANGED <<targets, nextId, tokens, history, call>>
  BY <1>2 DEF RecorderReads, RecorderEnds, UpdateAsked, Update, UpdateReads, UpdateWrites,
     UpdateRefused, adminVars, tables
<1>3. UNCHANGED vars => UNCHANGED <<targets, nextId, tokens, history, call>>
  BY DEF vars, tables, recorderVars
<1>4. ASSUME NEW r \in Requests, Asks(r) \/ Serve(r) PROVE Contract!Next \/ UNCHANGED Contract!vars
  BY <1>4, ContractReads, ContractRefused, ContractCreate, ContractRename, ContractDelete, ContractReorder,
     ContractTokens, ContractLook, ContractRestore, Zenon DEF Serve
<1> QED BY <1>1, <1>2, <1>3, <1>4, ContractHistory, Zenon DEF Next

\* Whatever is asked for at once, and however its awaits interleave with the rounds
\* and the restored histories, a mutation is one step on the tables as they are; a
\* restore is one on the targets as they are and on the history as it has read it,
\* with no other mutation in between.
THEOREM MutationsAreSerial == Spec => ImplementsContract
<1>1. Spec => [][Contract!Next]_Contract!vars
  BY InitIInv, StepIInv, ContractStep, PTL DEF Spec
<1>2. Spec => Contract!Init
  BY ContractInit, PTL DEF Spec
<1> QED BY <1>1, <1>2, PTL DEF ImplementsContract, Contract!Spec
=============================================================================
