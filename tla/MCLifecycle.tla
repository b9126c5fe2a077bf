----------------------------- MODULE MCLifecycle -----------------------------
(* Two names, two ports, two versions of PostgreSQL. Names and processes are *)
(* interchangeable.                                                          *)
EXTENDS Lifecycle, TLC

TwoPorts == {1, 2}
WithBackup == {TRUE}
Either == {TRUE, FALSE}
Symmetry == Permutations(Name) \cup Permutations(Proc)
=============================================================================
