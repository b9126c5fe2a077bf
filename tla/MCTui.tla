------------------------------- MODULE MCTui -------------------------------
(***************************************************************************)
(* Small instances of Tui: names are numbers, which are also their order.  *)
(* Tasks are interchangeable.                                              *)
(***************************************************************************)
EXTENDS Tui, TLC

TwoNames == 1..2
OneName == 1..1
TaskSymmetry == Permutations(Task)
=============================================================================
