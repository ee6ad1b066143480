--------------------------- MODULE MCAdminMutations ---------------------------
(* AdminMutations on a small instance. Of its backups one numbered its only    *)
(* target otherwise, one has the numbers swapped and both in one place, one    *)
(* holds twins and a row without an id, and one names an id twice.             *)
EXTENDS AdminMutations, TLC

CONSTANTS a, b, none, r1, r2, c1, c2

Backup(rows, stored, cards) == [rows |-> rows, tokens |-> stored, recommendations |-> cards]
Row(n, name, order) == [id |-> n, name |-> name, order |-> order]

MCSymmetry == Permutations({r1, r2}) \cup Permutations({c1, c2})

MCInstalled == {<<a, b>>}

MCFiles == {
    Backup(<<Row(1, b, none)>>, 1, 1),
    Backup(<<Row(1, b, 0), Row(2, a, 0)>>, 0, 0),
    Backup(<<Row(2, a, 1), Row(0, a, 0)>>, none, 2),
    Backup(<<Row(1, a, none), Row(1, b, none)>>, none, 0)}
=============================================================================
