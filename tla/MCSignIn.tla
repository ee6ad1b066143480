------------------------------- MODULE MCSignIn ------------------------------
(* SignIn on a small instance: two requests of one address, two passwords.     *)
EXTENDS SignIn, TLC

CONSTANTS r1, r2, remote, A, B

MCClientOf == (r1 :> remote) @@ (r2 :> remote)
MCSymmetry == Permutations({r1, r2}) \cup Permutations({A, B})
=============================================================================
