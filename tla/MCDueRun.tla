-------------------------------- MODULE MCDueRun --------------------------------
(* Three instances; an hour is one unit of time, a day four hours.            *)
EXTENDS DueRun, TLC

EarlyAndLate == {0, 3}
OnlyEarly == {0}
Symmetry == Permutations(Inst)
=============================================================================
