---------------------------- MODULE MCStateStore ----------------------------
(***************************************************************************)
(* Small instances of StateStore. The fields are ones that concurrent      *)
(* writers really race on: snapshot_hour (cron, TUI) and last_snapshot_at  *)
(* (snapshot), which is 0 for None and otherwise the number of a label.    *)
(***************************************************************************)
EXTENDS StateStore

Inst1 == {"a"}
Label1 == {1}
Label2 == {1, 2}
Hours == {"hour"}
HoursAndLast == {"hour", "last"}
Value1 == {0, 1}
Value2 == {0, 1, 2}

Job4(o, e, l) == [op |-> o, inst |-> "a", edit |-> e, label |-> l]

\* One field: everything that can happen to an instance, destroy included.
EveryJob ==
    {Job4("update", [hour |-> 1], 1), Job4("save", [hour |-> 0], 1),
     Job4("snapshot", [hour |-> 1], 1), Job4("destroy", [hour |-> 0], 1)}

\* Two fields, edited by different jobs.
EditJobs ==
    {Job4("update", [hour |-> 1], 1), Job4("save", [hour |-> 0, last |-> 0], 1),
     Job4("snapshot", [last |-> 1], 1), Job4("snapshot", [last |-> 2], 2)}
=============================================================================
