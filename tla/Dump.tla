-------------------------------- MODULE Dump --------------------------------
(***************************************************************************)
(* pgforge dump: pg_dump streams into NAME-STAMP.PID.partial, which is     *)
(* renamed to NAME-STAMP.dump once it is known to be a dump, and --keep    *)
(* then removes older ones. Any number of dumps, of one instance or of     *)
(* several, run at once in one directory and without a lock.               *)
(* Sources: commands/dump.rs, docker/bollard_engine.rs exec_to_file.       *)
(*                                                                         *)
(* The unit of time is the second in the file name. The directory is the   *)
(* default one; a path given with --out is the file Out in it, whose name  *)
(* no instance's prefix matches. Left out: pg_dump itself, the free space  *)
(* check (a refusal like the others), the totals that are printed.         *)
(***************************************************************************)
EXTENDS Naturals, FiniteSets

CONSTANTS
    Inst,       \* instances
    Pid,        \* process ids
    Keep,       \* values of --keep; 0 also stands for no --keep
    Shadow,     \* pairs <<n, m>>: the name of m begins with n and a dash; one for each n
    None, Out,
    MaxTime,    \* bound: the clock
    MaxRuns,    \* bound: dumps that are begun
    MaxFaults   \* bound: deaths and power losses

Time == 0 .. MaxTime
File == [inst : Inst, stamp : Time] \cup {Out}

\* What a file holds: all of a dump, a dump's header and not all that belongs to
\* it, or bytes without the header.
Data == {"all", "cut", "junk"}

\* sent: what pg_dump delivered. data: what is left of it.
Dumps == [sent : Data, data : Data]

ASSUME NamesAssumption ==
    /\ Out \notin [inst : Inst, stamp : Time] /\ None \notin Dumps
    /\ Shadow \subseteq Inst \X Inst /\ \A n \in Inst : <<n, n>> \notin Shadow
    /\ \A n \in Inst : Cardinality({m \in Inst : <<n, m>> \in Shadow}) <= 1
ASSUME BoundsAssumption == Keep \subseteq Nat /\ {MaxTime, MaxRuns, MaxFaults} \subseteq Nat

VARIABLES
    now,
    disk,       \* what each finished name leads to: None or a dump
    pend,       \* what it may lead to after a power loss
    partial,    \* the partial files, as <<file, pid>>
    stale,      \* those with no write for a day
    gone,       \* those that a power loss may bring back: removed or renamed
                \* since the directory was last flushed
    pc, job,    \* job[p]: the command p runs, and what it has of it
    runs, faults,
    pruned,     \* files that retention has removed
    killed      \* process ids that were killed in the middle of a dump

dirVars == <<disk, pend, partial, stale, gone>>
vars == <<now, dirVars, pc, job, runs, faults, pruned, killed>>

Job == [inst : Inst, file : File, force : BOOLEAN, keep : Keep,
        data : Data \cup {"none"}, synced : BOOLEAN, todo : SUBSET File]

NoDump == [p \in Pid |-> None]
Goto(p, l) == pc' = [pc EXCEPT ![p] = l]
At(p, l) == pc[p] = l
Exit(p) == Goto(p, "idle") /\ job' = [job EXCEPT ![p] = None]
J(p) == job[p]
Mine(p) == <<J(p).file, p>>

-----------------------------------------------------------------------------
(* One dump                                                                *)

\* The file's name takes the time of the start. It must not exist, without --force.
Begin(p) ==
    /\ At(p, "idle") /\ runs < MaxRuns /\ runs' = runs + 1
    /\ \E n \in Inst, f \in BOOLEAN, k \in Keep :
       \E file \in {[inst |-> n, stamp |-> now], Out} :
        /\ disk[file] = None \/ f
        /\ job' = [job EXCEPT ![p] =
                    [inst |-> n, file |-> file, force |-> f, keep |-> k,
                     data |-> "none", synced |-> FALSE, todo |-> {}]]
    /\ Goto(p, "open")
    /\ UNCHANGED <<now, dirVars, faults, pruned, killed>>

\* The stale partial files are removed, then its own is created, which must not
\* exist: if a killed process with this pid left it there, the guard removes it.
Open(p) ==
    /\ At(p, "open") /\ stale' = {}
    /\ LET kept == partial \ stale IN
       IF Mine(p) \in kept
         THEN partial' = kept \ {Mine(p)} /\ Exit(p)
         ELSE partial' = kept \cup {Mine(p)} /\ Goto(p, "stream") /\ UNCHANGED job
    /\ gone' = gone \cup (partial \ partial')
    /\ UNCHANGED <<now, disk, pend, runs, faults, pruned, killed>>

\* exec_to_file calls sync_all before it returns Ok.
Synced == TRUE

\* pg_dump's output ends: exit code 0, with all of it or cut off anywhere.
Streamed(p) ==
    /\ At(p, "stream") /\ Goto(p, "verify")
    /\ \E d \in Data :
        job' = [job EXCEPT ![p].data = d, ![p].synced = Synced]
    /\ UNCHANGED <<now, dirVars, runs, faults, pruned, killed>>

\* Mutant of Verified: the header is not looked at.
VerifiedNot(p) == TRUE

\* is_valid_custom_dump of the first five bytes: what follows is not looked at.
Verified(p) == J(p).data # "junk"

\* What a power loss may make of d: bytes that were not flushed may be missing.
Remains(d, synced) ==
    IF synced THEN {d} ELSE {d} \cup {[d EXCEPT !.data = b] : b \in {"cut", "junk"}}

\* The rename.
Commit(p) ==
    /\ At(p, "verify") /\ Verified(p) /\ Goto(p, "fsync")
    /\ LET d == [sent |-> J(p).data, data |-> J(p).data] IN
        /\ disk' = [disk EXCEPT ![J(p).file] = d]
        /\ pend' = [pend EXCEPT ![J(p).file] = @ \cup Remains(d, J(p).synced)]
    /\ partial' = partial \ {Mine(p)} /\ gone' = gone \cup (partial \ partial')
    /\ UNCHANGED <<now, stale, job, runs, faults, pruned, killed>>

\* Mutant of Fails: no guard.
FailsLeaving(p) ==
    /\ pc[p] \in {"stream", "verify"} /\ Exit(p)
    /\ UNCHANGED <<now, dirVars, runs, faults, pruned, killed>>

\* The time limit, a broken stream, an exit code, a bad header, a failing rename:
\* PartialGuard removes the partial file.
Fails(p) ==
    /\ pc[p] \in {"stream", "verify"} /\ Exit(p)
    /\ partial' = partial \ {Mine(p)} /\ gone' = gone \cup (partial \ partial')
    /\ UNCHANGED <<now, disk, pend, stale, runs, faults, pruned, killed>>

\* Mutant: the directory is not flushed.
FsyncDirSkipped(p) ==
    /\ At(p, "fsync") /\ Goto(p, "list") /\ UNCHANGED job
    /\ UNCHANGED <<now, dirVars, runs, faults, pruned, killed>>

\* fsync flushes every entry of the directory. It may fail: the dump is there, the
\* command returns Err.
FsyncDir(p) ==
    /\ At(p, "fsync")
    /\ \/ pend' = [f \in File |-> {disk[f]}] /\ gone' = {} /\ Goto(p, "list") /\ UNCHANGED job
       \/ UNCHANGED <<pend, gone>> /\ Exit(p)
    /\ UNCHANGED <<now, disk, partial, stale, runs, faults, pruned, killed>>

-----------------------------------------------------------------------------
(* Retention                                                               *)

\* The name of f begins with n and a dash.
Prefixed(n, f) == f # Out /\ (f.inst = n \/ <<n, f.inst>> \in Shadow)

\* f sorts before g: a digit sorts before a letter, so that what follows the
\* prefix puts n's own dumps before those of longer names.
Sorts(n, f, g) ==
    \/ f.inst = n /\ g.inst # n
    \/ f.inst = g.inst /\ f.stamp < g.stamp

\* Mutant: the oldest are kept.
DumpsToPruneNewest(n, files, k) ==
    IF k = 0 THEN {} ELSE {f \in files : Cardinality({g \in files : Sorts(n, g, f)}) >= k}

\* All but the last k in the order of names.
DumpsToPrune(n, files, k) ==
    IF k = 0 THEN {} ELSE {f \in files : Cardinality({g \in files : Sorts(n, f, g)}) >= k}

\* read_dir, filter, sort.
List(p) ==
    /\ At(p, "list") /\ Goto(p, "prune")
    /\ LET listed == {f \in File : disk[f] # None /\ Prefixed(J(p).inst, f)} IN
        job' = [job EXCEPT ![p].todo = DumpsToPrune(J(p).inst, listed, J(p).keep)]
    /\ UNCHANGED <<now, dirVars, runs, faults, pruned, killed>>

\* One name after the other, whatever it leads to by now. A failure is a warning.
Prune(p) ==
    /\ At(p, "prune")
    /\ \E f \in J(p).todo :
        /\ \A g \in J(p).todo \ {f} : Sorts(J(p).inst, f, g)
        /\ job' = [job EXCEPT ![p].todo = @ \ {f}]
        /\ \/ /\ disk' = [disk EXCEPT ![f] = None]
              /\ pend' = [pend EXCEPT ![f] = @ \cup {None}]
              /\ pruned' = pruned \cup {f}
           \/ UNCHANGED <<disk, pend, pruned>>
    /\ UNCHANGED <<now, partial, stale, gone, pc, runs, faults, killed>>

\* Ok: the path goes to stdout.
Return(p) ==
    /\ At(p, "prune") /\ J(p).todo = {} /\ Exit(p)
    /\ UNCHANGED <<now, dirVars, runs, faults, pruned, killed>>

-----------------------------------------------------------------------------
(* The world                                                               *)

Fault == faults < MaxFaults /\ faults' = faults + 1

Kill(p) ==
    /\ Fault /\ ~At(p, "idle") /\ Exit(p)
    /\ killed' = killed \cup {p}
    /\ UNCHANGED <<now, dirVars, runs, pruned>>

\* Every entry leads to something it led to since the last flush.
PowerLoss ==
    /\ Fault
    /\ disk' \in {d \in [File -> UNION {pend[f] : f \in File}] : \A f \in File : d[f] \in pend[f]}
    /\ pend' = [f \in File |-> {disk'[f]}]
    /\ partial' \in SUBSET (partial \cup gone) /\ gone' = {}
    /\ stale' = stale \cap partial'
    /\ pc' = [p \in Pid |-> "idle"] /\ job' = NoDump
    /\ killed' = Pid /\ pruned' = {}
    /\ UNCHANGED <<now, runs>>

Written == {Mine(p) : p \in {q \in Pid : pc[q] \in {"stream", "verify"}}}

\* A partial file that nobody writes ages; the time limit of half an hour keeps a
\* live one young.
GrowStale ==
    /\ \E o \in partial \ (stale \cup Written) : stale' = stale \cup {o}
    /\ UNCHANGED <<now, disk, pend, partial, gone, pc, job, runs, faults, pruned, killed>>

Advance ==
    /\ now < MaxTime /\ now' = now + 1
    /\ UNCHANGED <<dirVars, pc, job, runs, faults, pruned, killed>>

Init ==
    /\ now = 0
    /\ disk = [f \in File |-> None] /\ pend = [f \in File |-> {None}]
    /\ partial = {} /\ stale = {} /\ gone = {}
    /\ pc = [p \in Pid |-> "idle"] /\ job = NoDump
    /\ runs = 0 /\ faults = 0 /\ pruned = {} /\ killed = {}

Step(p) ==
    \/ Begin(p) \/ Open(p) \/ Streamed(p) \/ Commit(p) \/ Fails(p) \/ FsyncDir(p)
    \/ List(p) \/ Prune(p) \/ Return(p) \/ Kill(p)

Next == (\E p \in Pid : Step(p)) \/ PowerLoss \/ GrowStale \/ Advance

Spec == Init /\ [][Next]_vars

-----------------------------------------------------------------------------
(* Properties                                                              *)

\* The directory and the commands have the types of the code.
TypeOK ==
    /\ now \in Time
    /\ \A f \in File : disk[f] \in pend[f] /\ pend[f] \subseteq {None} \cup Dumps
    /\ stale \subseteq partial /\ partial \cup gone \subseteq File \X Pid
    /\ pc \in [Pid -> {"idle", "open", "stream", "verify", "fsync", "list", "prune"}]
    /\ \A p \in Pid :
        IF At(p, "idle") THEN J(p) = None
        ELSE /\ J(p) \in Job
             /\ J(p).synced <=> pc[p] \notin {"open", "stream"}
             /\ J(p).data = "none" <=> pc[p] \in {"open", "stream"}
             /\ J(p).todo # {} => At(p, "prune")
    /\ runs \in 0 .. MaxRuns /\ faults \in 0 .. MaxFaults
    /\ pruned \subseteq File /\ killed \subseteq Pid

\* dump.rs lines 1-2, "crash-safe": a name that ends in .dump leads to the bytes
\* that pg_dump delivered with exit code 0, none of them missing, and they begin as
\* a dump does, at any moment and after any power loss. That they are all of the
\* dump is not promised: output that ends after the header passes (lines 264-278).
AsDelivered == \A f \in File : \A d \in pend[f] \ {None} : d.data = d.sent /\ d.sent # "junk"

\* A dump that was flushed is there after a power loss, or a later one in its
\* place, unless a retention removed it.
FlushedSurvives ==
    \A p \in Pid : pc[p] \in {"list", "prune"} /\ J(p).file \notin pruned =>
        None \notin pend[J(p).file]

\* dump.rs PartialGuard: whatever fails and however dumps overlap, a partial file is
\* being written or its process id is that of a process that was killed.
PartialsExplained ==
    \A o \in partial : o \in Written \/ o[2] \in killed

\* dumps_to_prune with stale listings: whatever numbers are kept by however many
\* dumps at once, none removes an instance's newest dump: for one that is removed
\* there is a later one of the same instance.
NewestIsKept ==
    \A f \in pruned : disk[f] = None => \E g \in File \ {Out} :
        disk[g] # None /\ g.inst = f.inst /\ f.stamp < g.stamp

\* README line 147: "--keep N prunes older dumps for that instance": a dump that
\* is removed is of the instance, and older than the one just made.
PrunesOwnOlder ==
    [][\A p \in Pid, f \in File :
        At(p, "prune") /\ pc'[p] = "prune" /\ f \in J(p).todo \ J(p)'.todo /\ disk'[f] # disk[f]
        => f.inst = J(p).inst /\ (J(p).file # Out => f.stamp < J(p).file.stamp)]_vars

\* The error of an existing file, "pass --force to overwrite": without it no dump
\* is replaced.
NoSilentOverwrite ==
    [][\A p \in Pid : At(p, "verify") /\ pc'[p] = "fsync" =>
            disk[J(p).file] = None \/ J(p).force]_vars

\* cli.rs: stdout is the path of the dump, for scp.
PrintedPathExists ==
    \A p \in Pid : At(p, "prune") /\ J(p).todo = {} => disk[J(p).file] # None
=============================================================================
