------------------------------ MODULE MCShutdown ------------------------------
(* Shutdown with the code's own durations, in units of 500 ms.                *)
EXTENDS Shutdown

GRACE == 10
KILL == 2
RUN_KILL == 10
EXIT_WAIT == 4
ROUND_WAIT == 3
=============================================================================
