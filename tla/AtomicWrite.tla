----------------------------- MODULE AtomicWrite -----------------------------
(***************************************************************************)
(* util/fs.rs atomic_write where no lock protects it: pgbackrest.conf and  *)
(* init_sql are written by create, clone, restore and rotate without the   *)
(* state-root lock, by processes and by tasks of one TUI process. The      *)
(* temporary file is named after the process id, so what matters here is   *)
(* which name leads to which inode. StateStore models what atomic_write    *)
(* does under the lock and what a power loss leaves of it.                 *)
(***************************************************************************)
EXTENDS Naturals

CONSTANTS
    Writer,     \* threads of control that call atomic_write on one path
    Pid,        \* process ids
    PidOf,      \* PidOf[w]: the process writer w belongs to
    Data,       \* complete contents
    Torn,       \* truncated, empty or mixed bytes
    Inode,
    None        \* no inode

ASSUME WritersAssumption ==
    /\ PidOf \in [Writer -> Pid]
    /\ Data # {} /\ \A d \in Data : d # Torn
    /\ None # Torn
    /\ \A i \in Inode : i # None

VARIABLES
    dest,   \* the inode the destination name leads to
    tmp,    \* tmp[q]: the inode path.<q>.tmp leads to
    bytes,  \* what each inode holds
    pc,
    val,    \* val[w]: the content w is writing
    fd      \* fd[w]: the inode w has open

vars == <<dest, tmp, bytes, pc, val, fd>>

NoVal == CHOOSE d \in Data : TRUE

TypeOK ==
    /\ dest \in Inode \cup {None}
    /\ tmp \in [Pid -> Inode \cup {None}]
    /\ bytes \in [Inode -> Data \cup {Torn}]
    /\ pc \in [Writer -> {"idle", "create", "write", "rename", "ok", "err"}]
    /\ val \in [Writer -> Data]
    /\ fd \in [Writer -> Inode \cup {None}]
    /\ \A w \in Writer : fd[w] # None <=> pc[w] = "write"

Init ==
    /\ dest = None
    /\ tmp = [q \in Pid |-> None]
    /\ bytes = [i \in Inode |-> Torn]
    /\ pc = [w \in Writer |-> "idle"]
    /\ val = [w \in Writer |-> NoVal]
    /\ fd = [w \in Writer |-> None]

\* Mutant: one temporary name for everybody, path.tmp.
TmpShared(w) == CHOOSE q \in Pid : TRUE

\* path.with_extension("<pid>.tmp")
TmpOf(w) == PidOf[w]

\* No name and no open file leads to i.
Unused(i) ==
    /\ i # dest
    /\ \A q \in Pid : tmp[q] # i
    /\ \A w \in Writer : fd[w] # i

Begin(w) ==
    /\ pc[w] = "idle"
    /\ \E d \in Data : val' = [val EXCEPT ![w] = d]
    /\ pc' = [pc EXCEPT ![w] = "create"]
    /\ UNCHANGED <<dest, tmp, bytes, fd>>

\* Mutant: open without O_TRUNC.
CreateKeepsBytes(w) ==
    /\ pc[w] = "create"
    /\ \E i \in Inode :
        /\ IF tmp[TmpOf(w)] = None THEN Unused(i) ELSE i = tmp[TmpOf(w)]
        /\ tmp' = [tmp EXCEPT ![TmpOf(w)] = i]
        /\ bytes' = IF tmp[TmpOf(w)] = None THEN [bytes EXCEPT ![i] = Torn] ELSE bytes
        /\ fd' = [fd EXCEPT ![w] = i]
    /\ pc' = [pc EXCEPT ![w] = "write"]
    /\ UNCHANGED <<dest, val>>

\* File::create: a new inode, or the one that already has the name, truncated.
Create(w) ==
    /\ pc[w] = "create"
    /\ \E i \in Inode :
        /\ IF tmp[TmpOf(w)] = None THEN Unused(i) ELSE i = tmp[TmpOf(w)]
        /\ tmp' = [tmp EXCEPT ![TmpOf(w)] = i]
        /\ bytes' = [bytes EXCEPT ![i] = Torn]
        /\ fd' = [fd EXCEPT ![w] = i]
    /\ pc' = [pc EXCEPT ![w] = "write"]
    /\ UNCHANGED <<dest, val>>

\* write_all from offset 0, sync_all, close: over bytes that are already there
\* the tail of a longer content may remain.
WriteAll(w) ==
    /\ pc[w] = "write"
    /\ \E b \in {val[w]} \cup (IF bytes[fd[w]] = Torn THEN {} ELSE {Torn}) :
        bytes' = [bytes EXCEPT ![fd[w]] = b]
    /\ fd' = [fd EXCEPT ![w] = None]
    /\ pc' = [pc EXCEPT ![w] = "rename"]
    /\ UNCHANGED <<dest, tmp, val>>

\* rename(2) looks the temporary name up again: ENOENT if it is gone.
Rename(w) ==
    /\ pc[w] = "rename"
    /\ IF tmp[TmpOf(w)] = None
         THEN pc' = [pc EXCEPT ![w] = "err"] /\ UNCHANGED <<dest, tmp>>
         ELSE /\ dest' = tmp[TmpOf(w)]
              /\ tmp' = [tmp EXCEPT ![TmpOf(w)] = None]
              /\ pc' = [pc EXCEPT ![w] = "ok"]
    /\ UNCHANGED <<bytes, val, fd>>

\* The directory is fsynced, the mode set, and the call returns.
Return(w) ==
    /\ pc[w] \in {"ok", "err"}
    /\ pc' = [pc EXCEPT ![w] = "idle"]
    /\ val' = [val EXCEPT ![w] = NoVal]
    /\ UNCHANGED <<dest, tmp, bytes, fd>>

\* A process dies, or a write fails: the temporary file stays behind, and a
\* later process may get the same pid.
Die(q) ==
    /\ \E w \in Writer : PidOf[w] = q /\ pc[w] # "idle"
    /\ pc' = [w \in Writer |-> IF PidOf[w] = q THEN "idle" ELSE pc[w]]
    /\ val' = [w \in Writer |-> IF PidOf[w] = q THEN NoVal ELSE val[w]]
    /\ fd' = [w \in Writer |-> IF PidOf[w] = q THEN None ELSE fd[w]]
    /\ UNCHANGED <<dest, tmp, bytes>>

Next ==
    \/ \E w \in Writer : Begin(w) \/ Create(w) \/ WriteAll(w) \/ Rename(w) \/ Return(w)
    \/ \E q \in Pid : Die(q)

Spec == Init /\ [][Next]_vars

-----------------------------------------------------------------------------
(* Properties                                                              *)

\* What a reader of the destination gets.
Content == IF dest = None THEN None ELSE bytes[dest]

\* util/fs.rs lines 6-8: "readers either see the previous content or the new
\* content, never a truncated mix".
NeverTruncated == Content # Torn

\* The destination changes only when a call renames its own content over it,
\* whole: no call publishes, or damages, another one's bytes.
PublishedWhole ==
    [][Content' # Content =>
        \E w \in Writer : pc[w] = "rename" /\ pc'[w] = "ok" /\ Content' = val[w]]_vars

\* Concurrent calls do not make one another fail.
NobodyFails == \A w \in Writer : pc[w] # "err"
=============================================================================
