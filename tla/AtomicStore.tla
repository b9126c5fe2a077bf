---------------------------- MODULE AtomicStore ----------------------------
(***************************************************************************)
(* What pgforge's state store promises its callers, with no lock, no       *)
(* temporary file and no fsync in sight: every instance has a state.toml   *)
(* and a snapshots.toml, each operation on them is one atomic step on the  *)
(* current content. A power loss leaves one of the views in durable: each  *)
(* of the two files as one of the contents it was given, the two chosen    *)
(* independently, never a mixture of bytes and never anything else.        *)
(***************************************************************************)
EXTENDS Naturals

CONSTANTS
    Inst,       \* instance names
    Field,      \* fields of state.toml
    Value,      \* their values
    Label,      \* labels of snapshot records
    Jobs,       \* the operations callers may start: records [op, inst, edit, label]
    NoFile      \* the file does not exist

VARIABLES
    store,      \* store[i]: the view of instance i's two files
    durable     \* durable[i]: the views a power loss may leave

vars == <<store, durable>>

Content == [Field -> Value]

\* A whole view: both files are absent or complete.
WholeView == [state: {NoFile} \cup Content, snaps: {NoFile} \cup SUBSET Label]

Labels(v) == IF v.snaps = NoFile THEN {} ELSE v.snaps

\* state.toml after the fields of e have been set and the others kept.
Apply(e, c) == [f \in Field |-> IF f \in DOMAIN e THEN e[f] ELSE c[f]]

Init ==
    /\ store \in [Inst -> WholeView]
    /\ durable \in [Inst -> SUBSET WholeView]
    /\ \A i \in Inst : store[i] \in durable[i]

\* File f of i becomes b at once. Nothing that could survive a power loss is
\* forgotten by that, and nothing can survive that could not before but the new
\* content, beside what the other file may come back as.
Commit(i, f, b) ==
    /\ store' = [store EXCEPT ![i][f] = b]
    /\ durable' \in [Inst -> SUBSET WholeView]
    /\ durable[i] \cup {store'[i]} \subseteq durable'[i]
    /\ durable'[i] \subseteq durable[i] \cup {[v EXCEPT ![f] = b] : v \in durable[i]}
    /\ \A j \in Inst \ {i} : durable'[j] = durable[j]

\* update_under: the fields of the edit change and every other keeps its
\* current value; an instance that does not exist is not brought to life.
Update(j) ==
    /\ j.op = "update"
    /\ store[j.inst].state # NoFile
    /\ Commit(j.inst, "state", Apply(j.edit, store[j.inst].state))

Put(j) ==
    /\ j.op = "save"
    /\ Commit(j.inst, "state", j.edit)

\* A snapshot is recorded only for an instance that exists, ...
Record(j) ==
    /\ j.op = "snapshot"
    /\ store[j.inst].state # NoFile
    /\ Commit(j.inst, "snaps", Labels(store[j.inst]) \cup {j.label})

\* ... and its instance's state says so only once it is recorded.
Stamp(j) ==
    /\ j.op = "snapshot"
    /\ store[j.inst].state # NoFile
    /\ j.label \in Labels(store[j.inst])
    /\ Commit(j.inst, "state", Apply(j.edit, store[j.inst].state))

Remove(j) ==
    /\ j.op = "destroy"
    /\ \E f \in {"state", "snaps"} : Commit(j.inst, f, NoFile)

\* The set of views a power loss may leave shrinks towards the current one.
Harden(i) ==
    /\ durable' \in [Inst -> SUBSET WholeView]
    /\ durable'[i] \subseteq durable[i]
    /\ store[i] \in durable'[i]
    /\ \A j \in Inst \ {i} : durable'[j] = durable[j]
    /\ UNCHANGED store

\* Every instance comes back as a view it could, and no other remains possible.
PowerLoss ==
    /\ store' \in [Inst -> WholeView]
    /\ durable' \in [Inst -> SUBSET WholeView]
    /\ \A i \in Inst : store'[i] \in durable'[i] /\ durable'[i] \subseteq durable[i]

Next ==
    \/ \E j \in Jobs : Update(j) \/ Put(j) \/ Record(j) \/ Stamp(j) \/ Remove(j)
    \/ \E i \in Inst : Harden(i)
    \/ PowerLoss

Spec == Init /\ [][Next]_vars
=============================================================================
