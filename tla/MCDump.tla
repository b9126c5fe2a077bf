------------------------------- MODULE MCDump -------------------------------
(* Two names, one of which may begin with the other and a dash. Process ids  *)
(* are interchangeable.                                                      *)
EXTENDS Dump, TLC

NoShadow == {}
Longer == {<<"a", "a-b">>}
OneName == {"a"}
TwoNames == {"a", "a-b"}
PidSymmetry == Permutations(Pid)
=============================================================================
