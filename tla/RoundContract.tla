---------------------------- MODULE RoundContract -----------------------------
(***************************************************************************)
(* What a test round promises, whoever starts it and whatever happens to   *)
(* the database, the providers or the targets on the way: one at a time,   *)
(* a round that is given up before it opens leaves no trace, an opened one *)
(* records each member at most once, and hands its verdict over to be sent *)
(* - or none, when it could not be read - in the step that releases the    *)
(* latch. When the messages arrive, and in what order, is not promised:    *)
(* nothing waits for them.                                                 *)
(***************************************************************************)
CONSTANT Members

VARIABLES
    phase,     \* "free", "reserved" by a call, or "opened"
    recorded,  \* the members the opened round has written a row of
    report,    \* what was last handed over to be sent; "unanswered" when a verdict was lost
    preview    \* whether the instance is a demo, whose rounds nobody hears of

vars == <<phase, recorded, report, preview>>

Init == phase = "free" /\ recorded = {} /\ report = "none" /\ preview \in BOOLEAN

Reserve ==
    /\ phase = "free" /\ phase' = "reserved"
    /\ UNCHANGED <<recorded, report, preview>>

GiveUp ==
    /\ phase = "reserved" /\ phase' = "free"
    /\ UNCHANGED <<recorded, report, preview>>

Open ==
    /\ phase = "reserved" /\ phase' = "opened"
    /\ report' = IF preview THEN report ELSE "running"
    /\ UNCHANGED <<recorded, preview>>

Record(m) ==
    /\ phase = "opened" /\ m \notin recorded
    /\ recorded' = recorded \cup {m}
    /\ UNCHANGED <<phase, report, preview>>

Close ==
    /\ phase = "opened" /\ phase' = "free"
    /\ recorded' = {}
    /\ UNCHANGED preview
    /\ IF preview THEN UNCHANGED report
                  ELSE report = "running" /\ report' \in {"clean", "failed", "unanswered"}

Next == Reserve \/ GiveUp \/ Open \/ (\E m \in Members : Record(m)) \/ Close

Spec == Init /\ [][Next]_vars
=============================================================================
