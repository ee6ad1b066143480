---------------------------- MODULE MCOutageAlerts ----------------------------
(* Recipients do not act on each other and every property is about one of  *)
(* them, so one recipient is enough to see them fail; its number ranges    *)
(* over those below the retention of four tests, the others being excused *)
(* from the start.  The view forgets what can no longer matter: what a     *)
(* message said that is of a past episode or to somebody excused from this *)
(* one, and how long an episode is of which nobody is told.                *)
EXTENDS OutageAlerts

CONSTANT r1

Deaf == told[r1].excused

MCView ==
  <<rows, step, retried, IF Deaf THEN ended > 0 ELSE ended, watched, settings, told, tampered,
    IF Deaf THEN [episode EXCEPT !.failures = 0] ELSE episode,
    [i \in DOMAIN fanOuts |-> IF Deaf \/ fanOuts[i].past THEN [past |-> fanOuts[i].past] ELSE fanOuts[i]]>>
=============================================================================
