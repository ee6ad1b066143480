---------------------------- MODULE AdminContract -----------------------------
(***************************************************************************)
(* What the queue of util/adminMutation.js promises: each change to the    *)
(* targets and tokens is one step, and looks at the tables of that moment. *)
(* AdminMutations implements it with an await between every look and the   *)
(* write that goes by it. The history is written outside the queue, so a    *)
(* restore is two steps: it looks at the history, and it replaces the       *)
(* targets going by that look, whatever was measured since.                *)
(***************************************************************************)
EXTENDS Integers, Sequences

CONSTANTS Names, Files, Absent, MAX_TOKENS

VARIABLES
    targets,     \* records [id, name, order]
    nextId,      \* no id from here on was ever given
    tokens,
    measured,    \* the ids measurements are filed under
    looks        \* the restore under way, if any: [file, occupied]

vars == <<targets, nextId, tokens, measured, looks>>

OrderAt(rows, i) == IF rows[i].order = Absent THEN i - 1 ELSE rows[i].order

Named(n) == {t \in targets : t.name = n}
WithId(id) == {t \in targets : t.id = id}

Init ==
    /\ \A t, u \in targets : t # u => t.id # u.id
    /\ \A t \in targets : t.id < nextId
    /\ tokens = 0 /\ measured = {} /\ looks = {}

\* What goes with a mutation that is one step: no restore is under way.
Whole == looks = {} /\ UNCHANGED <<looks, measured>>

\* A new target has a name nobody has, an id nobody ever had, and comes last.
Create(n) ==
    /\ Named(n) = {} /\ nextId' = nextId + 1 /\ UNCHANGED tokens
    /\ \E t \in targets' :
         /\ t.name = n /\ t.id = nextId /\ \A u \in targets : u.order < t.order
         /\ targets' = targets \cup {t}

\* It takes a name nobody else has, or stays what it is.
Rename(id, n) ==
    /\ WithId(id) # {}
    /\ Named(n) \subseteq WithId(id) \/ \E t \in WithId(id) : t.name = n
    /\ targets' = {IF t.id = id THEN [t EXCEPT !.name = n] ELSE t : t \in targets}
    /\ UNCHANGED <<nextId, tokens>>

Delete(id) ==
    /\ WithId(id) # {} /\ targets' = targets \ WithId(id)
    /\ UNCHANGED <<nextId, tokens>>

\* The same targets in an order without gaps.
Reorder ==
    /\ {[id |-> t.id, name |-> t.name] : t \in targets'}
         = {[id |-> t.id, name |-> t.name] : t \in targets}
    /\ \E n \in {0} \cup {t.order + 1 : t \in targets'} : {t.order : t \in targets'} = 0 .. (n - 1)
    /\ \A t, u \in targets' : t.order = u.order => t = u
    /\ UNCHANGED <<nextId, tokens>>

\* One more API token while there is room for it, or one less.
Issue == tokens < MAX_TOKENS /\ tokens' = tokens + 1 /\ UNCHANGED <<targets, nextId>>
Revoke == tokens > 0 /\ tokens' = tokens - 1 /\ UNCHANGED <<targets, nextId>>

\* A restore reads which of the ids its file names have measurements.
Look(f) ==
    /\ looks = {}
    /\ looks' = {[file |-> f, occupied |-> measured \cap {f.rows[i].id : i \in 1..Len(f.rows)}]}
    /\ UNCHANGED <<targets, nextId, tokens, measured>>

GiveUp == looks # {} /\ looks' = {} /\ UNCHANGED <<targets, nextId, tokens, measured>>

\* A target whose id no row of another name may have.
Stands(t, rows, occupied) ==
    t.id \in occupied \/ \A i \in 1..Len(rows) : rows[i].id = t.id => rows[i].name = t.name

\* The rows of the backup replace the table. Each has an id of its own: that of a
\* target of its name, the file's own if no measurement was seen under it, or a new
\* one. A target that stands and is the only one of its name, or is in the file as
\* it is here, keeps its id on a row of that name, if the file has one.
Restore(look) ==
    LET rows == look.file.rows
        n == Len(rows)
    IN
    /\ \E ids \in [1..n -> {t.id : t \in targets'}] :
         /\ targets' = {[id |-> ids[i], name |-> rows[i].name, order |-> OrderAt(rows, i)] : i \in 1..n}
         /\ \A i, j \in 1..n : i # j => ids[i] # ids[j]
         /\ \A i \in 1..n :
              /\ \/ ids[i] \in {t.id : t \in Named(rows[i].name)}
                 \/ ids[i] = rows[i].id /\ ids[i] \notin look.occupied
                 \/ ids[i] >= nextId
              /\ ids[i] < nextId'
         /\ \A t \in targets, i \in 1..n :
              /\ rows[i].name = t.name /\ Stands(t, rows, look.occupied)
              /\ Named(t.name) = {t} \/ rows[i].id = t.id
              => \E j \in 1..n : ids[j] = t.id /\ rows[j].name = t.name
    /\ nextId' >= nextId
    /\ tokens' = IF look.file.tokens = Absent THEN tokens ELSE look.file.tokens
    /\ looks' = {} /\ UNCHANGED measured

Reset == targets' = {} /\ tokens' = 0 /\ UNCHANGED nextId

\* A measurement is filed under an id that was given, or goes.
Measure(id) == id < nextId /\ measured' = measured \cup {id} /\ UNCHANGED <<targets, nextId, tokens, looks>>
Forget(id) == measured' = measured \ {id} /\ UNCHANGED <<targets, nextId, tokens, looks>>

Mutation ==
    \/ \E n \in Names : Create(n) \/ \E t \in targets : Rename(t.id, n)
    \/ \E t \in targets : Delete(t.id)
    \/ Reorder \/ Issue \/ Revoke \/ Reset

Next ==
    \/ Whole /\ Mutation
    \/ \E f \in Files : Look(f)
    \/ GiveUp \/ \E look \in looks : Restore(look)
    \/ \E id \in measured' : Measure(id)
    \/ \E id \in measured : Forget(id)

Spec == Init /\ [][Next]_vars
=============================================================================
