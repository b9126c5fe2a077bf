----------------------------- MODULE StateStore -----------------------------
(***************************************************************************)
(* The state store of pgforge: instances/NAME/{state,snapshots}.toml,      *)
(* changed by concurrent processes and TUI tasks under one advisory lock,  *)
(* each write a temporary file, an fsync, a rename and a directory fsync.  *)
(* Sources: state/instance.rs, state/snapshots.rs, util/fs.rs and the      *)
(* locked sections of commands/{snapshot,destroy}.rs.                      *)
(***************************************************************************)
EXTENDS Naturals

CONSTANTS
    Proc,       \* processes (CLI, scheduler tick) and TUI tasks
    Inst,       \* instance names
    Field,      \* fields of state.toml
    Value,      \* their values
    Label,      \* labels of snapshot records
    Jobs,       \* the jobs processes may start, a subset of Job
    Last,       \* the field last_snapshot_at
    NoSnapshot, \* ... while it is None
    NoProc,     \* nobody holds the lock
    NoFile,     \* the file does not exist
    Torn        \* a file with truncated or partial bytes

Content == [Field -> Value]

\* What a closure passed to update_under assigns: some of the fields.
Edit == UNION {[D -> Value] : D \in SUBSET Field}

\* The other fields keep what was loaded.
Apply(e, c) == [f \in Field |-> IF f \in DOMAIN e THEN e[f] ELSE c[f]]

\* update: update_under, and the failed-attempt record of run_due.
\* save: save_under_locked of a freshly built instance (edit is its content).
\* snapshot: the locked tail of snapshot::run_with_engine.
\* destroy: the locked tail of destroy::run_with_engine.
Job == [op: {"update", "save", "snapshot", "destroy"},
        inst: Inst, edit: Edit, label: Label]

ASSUME JobsAssumption ==
    /\ Jobs \subseteq Job
    /\ Jobs # {}
    /\ \A j \in Jobs : j.op = "save" => j.edit \in Content

\* snapshot.rs lines 218-225 set last_snapshot_at, to what their record says;
\* create, clone and restore save None, and no update touches it.
ASSUME LastAssumption ==
    Last \in Field =>
        \A j \in Jobs :
            /\ j.op = "save" => j.edit[Last] = NoSnapshot
            /\ j.op = "update" => Last \notin DOMAIN j.edit
            /\ j.op = "snapshot" => Last \in DOMAIN j.edit /\ j.edit[Last] = j.label

ASSUME ModelValuesAssumption ==
    /\ NoProc \notin Proc
    /\ NoFile # Torn
    /\ \A c \in Content : c # NoFile /\ c # Torn
    /\ \A s \in SUBSET Label : s # NoFile /\ s # Torn

VARIABLES
    lock,   \* holder of the flock on .pgforge.lock
    pc,     \* where each process is in its job
    job,    \* the job of each process
    target, \* the file its current atomic_write replaces
    buf,    \* the bytes it is about to write
    tmp,    \* its temporary file: bytes, and whether they are fsynced
    disk,   \* disk[i]: the two files of instance i as every process sees them
    pend,   \* pend[i]: contents each directory entry may have after power loss
    old     \* old[i]: views that may come back while the entry of directory i
            \*         in instances/ is itself not flushed; {} once it is

procVars == <<lock, pc, job, target, buf, tmp>>
diskVars == <<disk, pend, old>>
vars == <<lock, pc, job, target, buf, tmp, disk, pend, old>>

Files == {"state", "snaps"}

\* What a file holds: nothing, broken bytes, or a complete serialisation.
Bytes(f) ==
    {NoFile, Torn} \cup (IF f = "state" THEN Content ELSE SUBSET Label)

View == [state: Bytes("state"), snaps: Bytes("snaps")]
Entries == [state: SUBSET Bytes("state"), snaps: SUBSET Bytes("snaps")]
Gone == [state |-> NoFile, snaps |-> NoFile]
Only(v) == [state |-> {v.state}, snaps |-> {v.snaps}]

\* The views of instance i that a power loss at this moment may leave.
Survivors(i) == old[i] \cup [state: pend[i].state, snaps: pend[i].snaps]

\* SnapshotsFile::load_for: a missing file is an empty list.
LabelsOf(v) == IF v.snaps = NoFile THEN {} ELSE v.snaps

Writing == {"create_tmp", "write_tmp", "sync_tmp", "rename"}
Critical == Writing \cup {"begin", "fsync_dir", "reload", "remove", "removing", "done"}

TypeOK ==
    /\ lock \in Proc \cup {NoProc}
    /\ pc \in [Proc -> {"idle", "acquire"} \cup Critical]
    /\ job \in [Proc -> Jobs]
    /\ target \in [Proc -> Files]
    /\ buf = [p \in Proc |-> buf[p]] /\ \A p \in Proc : buf[p] \in Bytes(target[p])
    /\ tmp = [p \in Proc |-> tmp[p]]
    /\ \A p \in Proc : tmp[p] \in [data: Bytes(target[p]), synced: BOOLEAN]
    /\ disk \in [Inst -> View]
    /\ pend \in [Inst -> Entries]
    /\ old \in [Inst -> SUBSET View]

\* A process between two jobs.
NoTmp == [data |-> NoFile, synced |-> FALSE]
NoJob == CHOOSE j \in Jobs : TRUE

\* An empty state root.
Init ==
    /\ lock = NoProc
    /\ pc = [p \in Proc |-> "idle"]
    /\ job = [p \in Proc |-> NoJob]
    /\ target = [p \in Proc |-> "state"]
    /\ buf = [p \in Proc |-> NoFile]
    /\ tmp = [p \in Proc |-> NoTmp]
    /\ disk = [i \in Inst |-> Gone]
    /\ pend = [i \in Inst |-> Only(Gone)]
    /\ old = [i \in Inst |-> {Gone}]

-----------------------------------------------------------------------------
(* LockedStateRoot                                                         *)

\* A command reaches its locked section. destroy got there by loading
\* state.toml; it does so without the lock.
Start(p) ==
    /\ pc[p] = "idle"
    /\ \E j \in Jobs :
        /\ j.op = "destroy" => disk[j.inst].state # NoFile
        /\ job' = [job EXCEPT ![p] = j]
    /\ pc' = [pc EXCEPT ![p] = "acquire"]
    /\ UNCHANGED <<lock, target, buf, tmp, diskVars>>

\* Mutant: open without lock_exclusive.
AcquireUnlocked(p) ==
    /\ pc[p] = "acquire"
    /\ lock' = p
    /\ pc' = [pc EXCEPT ![p] = "begin"]
    /\ UNCHANGED <<job, target, buf, tmp, diskVars>>

\* acquire: open .pgforge.lock and block in lock_exclusive.
Acquire(p) ==
    /\ pc[p] = "acquire"
    /\ lock = NoProc
    /\ lock' = p
    /\ pc' = [pc EXCEPT ![p] = "begin"]
    /\ UNCHANGED <<job, target, buf, tmp, diskVars>>

\* The guard goes out of scope, on every return path.
Release(p) ==
    /\ lock' = IF lock = p THEN NoProc ELSE lock
    /\ pc' = [pc EXCEPT ![p] = "idle"]
    /\ job' = [job EXCEPT ![p] = NoJob]
    /\ target' = [target EXCEPT ![p] = "state"]
    /\ buf' = [buf EXCEPT ![p] = NoFile]
    /\ tmp' = [tmp EXCEPT ![p] = NoTmp]

\* The job returns Ok.
Finish(p) ==
    /\ pc[p] = "done"
    /\ Release(p)
    /\ UNCHANGED diskVars

\* Mutant: an error path forgets the guard (mem::forget, a leaked descriptor).
AbortKeepsLock(p) ==
    /\ pc[p] # "idle"
    /\ pc' = [pc EXCEPT ![p] = "idle"]
    /\ UNCHANGED <<lock, job, target, buf, tmp, diskVars>>

\* A system call fails and the error is propagated, or the process is killed.
Abort(p) ==
    /\ pc[p] # "idle"
    /\ Release(p)
    /\ UNCHANGED diskVars

-----------------------------------------------------------------------------
(* update_under, save_under_locked, the snapshot record                    *)

\* Start an atomic_write of bytes b over file f of the job's instance.
Write(p, f, b) ==
    /\ target' = [target EXCEPT ![p] = f]
    /\ buf' = [buf EXCEPT ![p] = b]
    /\ tmp' = [tmp EXCEPT ![p] = NoTmp]
    /\ pc' = [pc EXCEPT ![p] = "create_tmp"]
    /\ UNCHANGED <<lock, job, diskVars>>

\* load_under, then the closure, on the content read under the lock. A
\* missing or unparseable file is an error (Abort).
LoadAndEdit(p) ==
    LET c == disk[job[p].inst].state IN
    /\ c \notin {NoFile, Torn}
    /\ Write(p, "state", Apply(job[p].edit, c))

BeginUpdate(p) ==
    /\ pc[p] = "begin" /\ job[p].op = "update"
    /\ LoadAndEdit(p)

\* save_under: no load, the content was built by the command.
BeginSave(p) ==
    /\ pc[p] = "begin" /\ job[p].op = "save"
    /\ Write(p, "state", job[p].edit)

\* Mutant: save_for without its state.toml check.
BeginSnapshotUnchecked(p) ==
    LET v == disk[job[p].inst] IN
    /\ pc[p] = "begin" /\ job[p].op = "snapshot"
    /\ v.snaps # Torn
    /\ Write(p, "snaps", LabelsOf(v) \cup {job[p].label})

\* SnapshotsFile::load_for (a missing file is empty), push, and save_for,
\* which refuses an instance without state.toml.
BeginSnapshot(p) ==
    LET v == disk[job[p].inst] IN
    /\ pc[p] = "begin" /\ job[p].op = "snapshot"
    /\ v.state # NoFile
    /\ v.snaps # Torn
    /\ Write(p, "snaps", LabelsOf(v) \cup {job[p].label})

\* ... then state.toml is loaded again and last_snapshot_at is set.
Reload(p) ==
    /\ pc[p] = "reload"
    /\ LoadAndEdit(p)

-----------------------------------------------------------------------------
(* atomic_write                                                            *)

CreateTmp(p) ==
    /\ pc[p] = "create_tmp"
    /\ tmp' = [tmp EXCEPT ![p] = [data |-> Torn, synced |-> FALSE]]
    /\ pc' = [pc EXCEPT ![p] = "write_tmp"]
    /\ UNCHANGED <<lock, job, target, buf, diskVars>>

WriteTmp(p) ==
    /\ pc[p] = "write_tmp"
    /\ tmp' = [tmp EXCEPT ![p].data = buf[p]]
    /\ pc' = [pc EXCEPT ![p] = "sync_tmp"]
    /\ UNCHANGED <<lock, job, target, buf, diskVars>>

\* Mutant: no sync_all before the rename.
SyncTmpSkipped(p) ==
    /\ pc[p] = "sync_tmp"
    /\ pc' = [pc EXCEPT ![p] = "rename"]
    /\ UNCHANGED <<lock, job, target, buf, tmp, diskVars>>

SyncTmp(p) ==
    /\ pc[p] = "sync_tmp"
    /\ tmp' = [tmp EXCEPT ![p].synced = TRUE]
    /\ pc' = [pc EXCEPT ![p] = "rename"]
    /\ UNCHANGED <<lock, job, target, buf, diskVars>>

\* Readers see the new bytes from here on; the directory entry is only in the
\* page cache, and bytes that were not fsynced may be broken after power loss.
Rename(p) ==
    LET i == job[p].inst
        f == target[p]
        b == tmp[p].data
    IN
    /\ pc[p] = "rename"
    /\ disk' = [disk EXCEPT ![i][f] = b]
    /\ pend' = [pend EXCEPT ![i][f] =
                    @ \cup {b} \cup (IF tmp[p].synced THEN {} ELSE {Torn})]
    /\ pc' = [pc EXCEPT ![p] = "fsync_dir"]
    /\ UNCHANGED <<lock, job, target, buf, tmp, old>>

\* Mutant: no fsync of the parent directory after the rename.
FsyncDirSkipped(p) ==
    /\ pc[p] = "fsync_dir"
    /\ pc' = [pc EXCEPT ![p] = IF target[p] = "snaps" THEN "reload" ELSE "done"]
    /\ UNCHANGED <<lock, job, target, buf, tmp, diskVars>>

\* Both entries of instances/NAME become durable; the entry of NAME in
\* instances/ is not fsynced by anybody.
FsyncDir(p) ==
    LET i == job[p].inst IN
    /\ pc[p] = "fsync_dir"
    /\ pend' = [pend EXCEPT ![i] = Only(disk[i])]
    /\ pc' = [pc EXCEPT ![p] = IF target[p] = "snaps" THEN "reload" ELSE "done"]
    /\ UNCHANGED <<lock, job, target, buf, tmp, disk, old>>

-----------------------------------------------------------------------------
(* destroy: remove_dir_all(instances/NAME), entry by entry in any order    *)

BeginDestroy(p) ==
    /\ pc[p] = "begin" /\ job[p].op = "destroy"
    /\ pc' = [pc EXCEPT ![p] = "remove"]
    /\ UNCHANGED <<lock, job, target, buf, tmp, diskVars>>

\* An entry that is neither file goes first: conf/ and what is in it.
RemoveConf(p) ==
    /\ pc[p] = "remove"
    /\ pc' = [pc EXCEPT ![p] = "removing"]
    /\ UNCHANGED <<lock, job, target, buf, tmp, diskVars>>

RemoveFile(p) ==
    LET i == job[p].inst IN
    /\ pc[p] \in {"remove", "removing"}
    /\ \E f \in Files :
        /\ disk[i][f] # NoFile
        /\ disk' = [disk EXCEPT ![i][f] = NoFile]
        /\ pend' = [pend EXCEPT ![i][f] = @ \cup {NoFile}]
    /\ pc' = [pc EXCEPT ![p] = "removing"]
    /\ UNCHANGED <<lock, job, target, buf, tmp, old>>

\* rmdir: until instances/ is flushed, whatever the directory could hold after
\* a power loss can come back.
RemoveDir(p) ==
    LET i == job[p].inst IN
    /\ pc[p] \in {"remove", "removing"}
    /\ disk[i] = Gone
    /\ old' = [old EXCEPT ![i] = Survivors(i) \cup {Gone}]
    /\ pend' = [pend EXCEPT ![i] = Only(Gone)]
    /\ pc' = [pc EXCEPT ![p] = "done"]
    /\ UNCHANGED <<lock, job, target, buf, tmp, disk>>

-----------------------------------------------------------------------------
(* The operating system                                                    *)

\* The kernel flushes everything it holds for instance i.
Writeback(i) ==
    /\ pend' = [pend EXCEPT ![i] = Only(disk[i])]
    /\ old' = [old EXCEPT ![i] = IF disk[i] = Gone THEN {Gone} ELSE {}]
    /\ UNCHANGED <<procVars, disk>>

\* Every process dies and each instance comes back as one of its survivors.
PowerLoss ==
    /\ lock' = NoProc
    /\ pc' = [p \in Proc |-> "idle"]
    /\ job' = [p \in Proc |-> NoJob]
    /\ target' = [p \in Proc |-> "state"]
    /\ buf' = [p \in Proc |-> NoFile]
    /\ tmp' = [p \in Proc |-> NoTmp]
    /\ disk' \in [Inst -> UNION {Survivors(i) : i \in Inst}]
    /\ \A i \in Inst : disk'[i] \in Survivors(i)
    /\ pend' = [i \in Inst |-> Only(disk'[i])]
    /\ old' = [i \in Inst |-> IF disk'[i] = Gone THEN {Gone} ELSE {}]

-----------------------------------------------------------------------------

\* One step of p's job once it has the lock.
Work(p) ==
    \/ BeginUpdate(p) \/ BeginSave(p) \/ BeginSnapshot(p) \/ Reload(p)
    \/ CreateTmp(p) \/ WriteTmp(p) \/ SyncTmp(p) \/ Rename(p) \/ FsyncDir(p)
    \/ BeginDestroy(p) \/ RemoveConf(p) \/ RemoveFile(p) \/ RemoveDir(p)
    \/ Finish(p)

Next ==
    \/ \E p \in Proc : Start(p) \/ Acquire(p) \/ Work(p) \/ Abort(p)
    \/ \E i \in Inst : Writeback(i)
    \/ PowerLoss

Spec == Init /\ [][Next]_vars

\* A process that holds the lock keeps running (to its end or to its failure),
\* and the kernel does not starve a waiter of flock.
Fairness == \A p \in Proc : WF_vars(Work(p) \/ (pc[p] \in Critical /\ Abort(p)))
                           /\ SF_vars(Acquire(p))

FairSpec == Spec /\ Fairness

-----------------------------------------------------------------------------
(* The inductive invariant behind the properties                           *)

\* Whoever is between acquire and drop holds the lock.
HoldsLock == \A p \in Proc : pc[p] \in Critical => lock = p

\* No broken bytes can be seen now or after a power loss, and the current view
\* is among those a power loss may leave.
FilesWhole ==
    \A i \in Inst :
        /\ \A v \in old[i] : v.state # Torn /\ v.snaps # Torn
        /\ Torn \notin pend[i].state /\ Torn \notin pend[i].snaps
        /\ disk[i].state \in pend[i].state /\ disk[i].snaps \in pend[i].snaps

\* View v shows what job j asked for.
Shows(v, j) ==
    /\ v.state \notin {NoFile, Torn}
    /\ \A f \in DOMAIN j.edit : v.state[f] = j.edit[f]
    /\ j.op = "snapshot" => v.snaps \notin {NoFile, Torn} /\ j.label \in v.snaps

\* The bytes p is about to publish are still the job's edit of the current
\* content.
Current(p) ==
    LET v == disk[job[p].inst] IN
    IF target[p] = "snaps"
      THEN /\ job[p].op = "snapshot"
           /\ v.state # NoFile
           /\ buf[p] = LabelsOf(v) \cup {job[p].label}
      ELSE \/ job[p].op = "save" /\ buf[p] = job[p].edit
           \/ /\ job[p].op \in {"update", "snapshot"}
              /\ v.state # NoFile
              /\ buf[p] = Apply(job[p].edit, v.state)
              /\ job[p].op = "snapshot" => v.snaps # NoFile /\ job[p].label \in v.snaps

\* The stages of an atomic_write, and what is on disk after it.
StageOf(p) ==
    LET v == disk[job[p].inst] IN
    /\ pc[p] \in Writing => Current(p)
    /\ pc[p] \in {"sync_tmp", "rename"} => tmp[p].data = buf[p]
    /\ pc[p] = "rename" => tmp[p].synced
    /\ pc[p] = "fsync_dir" /\ target[p] = "state" => Shows(v, job[p])
    /\ (pc[p] = "fsync_dir" /\ target[p] = "snaps") \/ pc[p] = "reload" =>
          /\ job[p].op = "snapshot"
          /\ v.snaps # NoFile /\ job[p].label \in v.snaps
    /\ pc[p] = "done" /\ job[p].op # "destroy" =>
          Shows(v, job[p]) /\ pend[job[p].inst] = Only(v)
    /\ pc[p] \in {"remove", "removing"} => job[p].op = "destroy"

Stages == \A p \in Proc : StageOf(p)

IInv == TypeOK /\ HoldsLock /\ FilesWhole /\ Stages

-----------------------------------------------------------------------------
(* Properties                                                              *)

\* util/fs.rs atomic_write: no process reads, and no power loss leaves, a
\* state.toml or snapshots.toml with truncated or partial bytes.
NeverTorn ==
    \A i \in Inst : \A v \in {disk[i]} \cup Survivors(i) :
        v.state # Torn /\ v.snaps # Torn

Acked(p) == pc[p] = "done" /\ job[p].op # "destroy"

\* util/fs.rs fsync_dir: when a write has returned Ok, and the directory of
\* its instance was flushed before, the update survives a power loss.
AckedIsDurable ==
    \A p \in Proc :
        Acked(p) /\ old[job[p].inst] = {} =>
            \A v \in Survivors(job[p].inst) : Shows(v, job[p])

\* util/fs.rs lines 5-9 without that proviso: "the rename itself is durable
\* across power loss". create_dir_all made instances/NAME, whose own entry
\* nobody fsyncs.
AckedAlwaysDurable ==
    \A p \in Proc :
        Acked(p) => \A v \in Survivors(job[p].inst) : Shows(v, job[p])

\* commands/destroy.rs lines 118-120: a tick "can't load a half-deleted
\* instance mid-removal". load_under takes no lock, so whatever disk shows can
\* be loaded.
HalfDeletedNotLoadable ==
    \A p \in Proc : pc[p] = "removing" => disk[job[p].inst].state = NoFile

\* state.toml says when the last snapshot was taken; its record is there.
Claims(v) ==
    Last \in Field /\ v.state \notin {NoFile, Torn} /\ v.state[Last] # NoSnapshot
Recorded(v) == Claims(v) => v.snaps # NoFile /\ v.state[Last] \in v.snaps

\* commands/snapshot.rs lines 207-225: snapshots.toml is saved before
\* last_snapshot_at. Whatever process dies and whatever a power loss undoes, a
\* state.toml that claims a snapshot has its record in snapshots.toml, as long
\* as nobody destroys the instance.
ClaimedSnapshotIsRecorded ==
    \A i \in Inst : (\A j \in Jobs : j.inst = i => j.op # "destroy") =>
        \A v \in {disk[i]} \cup Survivors(i) : Recorded(v)

\* The lock serialises whole load-modify-save sections: the visible files
\* change exactly as if each operation were one atomic step on their current
\* content, so no update is lost and none is applied to a destroyed instance.
\* A power loss brings back each of the two files as one of the contents an
\* operation gave it, the two independently.
Atomic == INSTANCE AtomicStore WITH store <- disk, durable <- [i \in Inst |-> Survivors(i)]
Linearizable == Atomic!Spec

\* Nobody waits for the lock for ever: every holder releases it on every path,
\* its failure and its death included.
LockIsGranted == \A p \in Proc : pc[p] = "acquire" ~> pc[p] \in Critical \cup {"idle"}
=============================================================================
