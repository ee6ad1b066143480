-------------------------- MODULE MCSpeedtestRound ----------------------------
(* SpeedtestRound on small instances: two targets of one provider, so that a  *)
(* refusal during the round reaches the next member, and the demo instance.   *)
EXTENDS SpeedtestRound, TLC

CONSTANTS c1, c2, ookla

MCCallers == {c1, c2}
MCTargets == {1, 2}
MCProviderOf == [t \in MCTargets \cup {Demo} |-> ookla]
MCSymmetry == Permutations(MCCallers)
=============================================================================
