-------------------------- MODULE MCAttemptThrottle ---------------------------
(* AttemptThrottle on a small instance: three requests of one address and one  *)
(* of another, a table that holds one client of the two.                       *)
EXTENDS AttemptThrottle, TLC

CONSTANTS r1, r2, r3, r4, here, there

MCClientOf == (r1 :> here) @@ (r2 :> here) @@ (r3 :> here) @@ (r4 :> there)
MCSymmetry == Permutations({r1, r2, r3})
=============================================================================
