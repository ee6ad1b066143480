--------------------------- MODULE MCScheduleTimer ----------------------------
(* ScheduleTimer on small instances: the default schedule, another one, one    *)
(* node-schedule can make no job of, and one isValidCron refuses.              *)
EXTENDS ScheduleTimer, TLC

CONSTANTS r1, r2, p1, p2, hourly, nightly, april31, garbled

MCSettings == {hourly, nightly, april31, garbled}
MCSymmetry == Permutations({r1, r2}) \cup Permutations({p1, p2})
=============================================================================
