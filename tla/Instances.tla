------------------------------- MODULE Instances -------------------------------
(***************************************************************************)
(* What pgforge's commands promise about instances, with no containers,    *)
(* volumes or files in sight, and no failures: what `pgforge ls` shows   *)
(* of each, and whose data a client finds in it. A command that fails or   *)
(* dies half-way has done one of these steps or none.                      *)
(***************************************************************************)
CONSTANTS
    Name,       \* the names of instances
    Port,
    Preset,
    Lineage,    \* origins of data: an initdb, a clone or a restore
    None

VARIABLES
    inst,       \* inst[n]: version, port, backups and preset, or None
    data        \* data[n]: what n's data goes back to, or None

vars == <<inst, data>>

Instance == [ver: {1, 2}, port: Port, backup: BOOLEAN, preset: Preset]

Init ==
    /\ inst = [n \in Name |-> None]
    /\ data = [n \in Name |-> None]

\* create, clone, restore: an instance appears once it has its data.
Appear(n) ==
    /\ inst[n] = None
    /\ \E i \in Instance : inst' = [inst EXCEPT ![n] = i]
    /\ \E d \in Lineage : data' = [data EXCEPT ![n] = d]

\* resize, and its way back.
Resize(n) ==
    /\ inst[n] # None
    /\ \E m \in Preset : inst' = [inst EXCEPT ![n].preset = m]
    /\ UNCHANGED data

\* upgrade: another version of the same data.
Upgrade(n) ==
    /\ inst[n] # None /\ inst[n].ver = 1 /\ data[n] # None
    /\ inst' = [inst EXCEPT ![n].ver = 2]
    /\ UNCHANGED data

\* destroy: the data first, ...
Erase(n) ==
    /\ data[n] # None
    /\ data' = [data EXCEPT ![n] = None]
    /\ UNCHANGED inst

\* ... and what is known of the instance when it is gone.
Vanish(n) ==
    /\ inst[n] # None /\ data[n] = None
    /\ inst' = [inst EXCEPT ![n] = None]
    /\ UNCHANGED data

\* rotate, on what a destroy has left half-way: it begins again with nothing.
Refill(n) ==
    /\ inst[n] # None /\ data[n] = None
    /\ \E d \in Lineage : data' = [data EXCEPT ![n] = d]
    /\ UNCHANGED inst

Next ==
    \E n \in Name :
        Appear(n) \/ Resize(n) \/ Upgrade(n) \/ Erase(n) \/ Vanish(n) \/ Refill(n)

Spec == Init /\ [][Next]_vars
===============================================================================
