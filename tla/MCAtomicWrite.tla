---------------------------- MODULE MCAtomicWrite ----------------------------
(* Three writers, as three processes or with two of them tasks of one TUI.   *)
EXTENDS AtomicWrite

Writers == {"w1", "w2", "w3"}
Processes == [w \in Writers |-> w]
TwoTasks == [w \in Writers |-> IF w = "w3" THEN "w3" ELSE "w1"]
=============================================================================
