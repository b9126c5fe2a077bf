# pgforge: models and proofs

TLA+ models of `pgforge`, a command line program and dashboard that provisions
PostgreSQL instances on one host: a Docker container, a volume, a directory of
configuration files and a pgbackrest repository in S3 for each instance. The
models are checked by TLC on small instances; theorems are proved by TLAPS.

All paths below are paths of the repository (`src/state/instance.rs` is the
crate's file of that name).

- [1 The system](#1-the-system)
- [2 Modules](#2-modules)
- [3 From code to model](#3-from-code-to-model)
- [4 What the runs show](#4-what-the-runs-show)
- [5 Fairness](#5-fairness)
- [6 What is proved](#6-what-is-proved)
- [7 Disagreements](#7-disagreements)
- [8 What is not modelled](#8-what-is-not-modelled)
- [9 Plan](#9-plan)

## 1 The system

pgforge has no daemon. Everything that happens is a process or a task of a
process:

- a **command** in a terminal (`create`, `clone`, `restore`, `rotate`, `resize`,
  `upgrade`, `destroy`, `snapshot`, `cron`, `dump`, ...);
- a **tick**: a systemd user timer runs the oneshot service
  `pgforge snapshot --due` every five minutes (`commands/schedule.rs`), so that at
  most one tick runs at a time;
- the **dashboard** (`tui/`): one event loop, five pollers, one key reader, and
  one task per operation that the user starts.

They share files, Docker and S3, and one advisory lock, and they do not know of
one another.

| component | state | operations | shared with |
|---|---|---|---|
| state store (`state/`, `util/fs.rs`) | `instances/NAME/state.toml`, `snapshots.toml`, `.pgforge.lock` | `update_under`, `save_under_locked`, the snapshot record, destroy's `remove_dir_all`; each write is tmp, fsync, rename, fsync of the directory | every command, tick and dashboard task |
| unlocked `atomic_write` | `pgbackrest.conf`, `init_sql` of an instance | create, clone, restore, rotate write them | commands, dashboard tasks |
| backup scheduler (`commands/snapshot.rs`, `schedule.rs`) | `snapshot_hour`, `last_snapshot_at`, `last_snapshot_attempt_at`, the records of `snapshots.toml` | tick: decide what is due, back up, record; manual snapshot; `cron` edits the hour | state store, the container's pgbackrest and its stanza lock |
| lifecycle commands (`commands/{create,clone,restore,rotate,resize,upgrade,destroy}.rs`, `docker/`, `ports.rs`) | `state.toml`, the conf directory, container, volumes, stanza | sequences of ten to twenty calls, with a cleanup on failure in the creating ones and a roll-back in resize | Docker, S3, one another |
| dashboard (`tui/`) | `AppState`: rows, selection, modal, operations in progress, readings | keys, events of pollers and of operations | a channel; the store; every command |
| dumps (`commands/dump.rs`) | files in a dump directory | dump to a partial file, check, rename, flush, prune | other dumps, of any instance |
| SMART disk health (`smart/`, `commands/smart.rs`) | a sudoers fragment, `smart-installed.json`, a user timer, the cache `disk-smart.json` | install, uninstall; a daily check and the user's own probe the drives through sudo and write the cache; the dashboard and the banner of every command read it | the dashboard |
| disk capacity (`disk/`) | none | `statvfs` and a verdict | the dashboard |
| reads (`commands/{status,ls,snapshots}.rs`) | none | verdicts and listings | everything above |
| text (`pgbackrest/`, `postgres/`, `config/`, `domain/preset.rs`, `tui/ui/`) | none | generation and parsing | |

Which behaviours are hard, and what has to be right:

- **State store**: two writers load, edit and save the same file; a process dies or
  the host loses power between any two system calls; `destroy` removes the
  directory while a writer waits for the lock. Right means: nobody sees a torn
  file, an acknowledged write survives, no edit is lost, a destroyed instance does
  not come back, every waiter gets the lock.
- **Backups**: the clock moves while a backup runs, the tick and a user back up the
  same stanza, a record is two files, a dead pgforge leaves pgbackrest running.
  Right means: one scheduled backup a day, a back-off that really backs off,
  stamps that agree with each other and with the records, a full backup before any
  differential one, and an instance that is covered again once nothing is wrong.
- **One tick, many instances**: the names are listed once and taken one after
  another, each backup awaited, while others are created, destroyed and edited.
  Right means: a failing or slow instance delays the others by a bounded time and
  starves none.
- **Lifecycle**: any call fails, the process dies between two, containers stop and
  start, and another command works beside it. Right means: `state.toml` always
  names a volume that can be started; the container is the one that is described;
  nothing is left behind unless a failure explains it; postgres is never tuned for
  another memory limit than its container's; WAL of one instance never goes into
  another one's repository.
- **Dashboard**: listings and readings are old when they arrive, operations finish
  in any order, Docker stops answering, and instances come and go in another
  terminal. Right means: a key does what the screen says, what the screen says comes
  to an end, and once nothing changes it says what is the case.
- **Dumps**: several at once in one directory, each renamed, flushed and pruned with
  no lock; a kill or a power loss at any point. Right means: what is named `.dump` is
  all that `pg_dump` delivered, a dump that was promised is there, and pruning never removes the
  newest.

- **SMART**: drives fail, fall silent and are replaced; two checks overlap and end in
  either order; the host sleeps; install and uninstall stop half-way. Right means:
  no alarm and no all-clear that is older than two days, a timer that has what it
  needs, and a failing drive that is reported and stays reported.

The hazards, each at its line, and the properties that answer for them are listed
in `PROJECT.json`.

## 2 Modules

| module | what it is |
|---|---|
| `AtomicStore` | abstract specification of the store: every locked section is one atomic step |
| `StateStore` | the store with its lock, its system calls, deaths and power loss; implements `AtomicStore` |
| `AtomicWrite` | `atomic_write` without the lock: names, inodes, descriptors |
| `BackupSchedule` | one instance: ticks, manual snapshots, cron edits, the stanza, the clock |
| `DueRun` | one tick over all instances: what they do to each other |
| `DockerHost` | external: Docker, PostgreSQL, pgbackrest and S3 as the commands use them |
| `Instances` | abstract specification of the commands: what `pgforge ls` shows, and whose data it is |
| `Lifecycle` | the seven commands over `DockerHost`; implements `Instances` |
| `Smart` | install, uninstall, the timer's and the user's checks, the cache and its readers |
| `Tui` | the event loop, modals, operations and the list poller of the dashboard |
| `TuiStatus` | the list and status pollers, the refresh after an operation, and what the dashboard shows of their readings |
| `Dump` | the dump command, with its retention |
| `StateStoreProofs`, `AtomicWriteProofs`, `BackupScheduleProofs`, `DueRunProofs`, `LifecycleProofs`, `SmartProofs`, `TuiProofs`, `DumpProofs` | theorems about the module they are named after |
| `MC...` | small instances: constants for TLC |

Composition: `StateStore` is checked against `AtomicStore` (an `INSTANCE` under a
refinement mapping), and this is why `BackupSchedule`, `DueRun` and `Lifecycle` may
take an `update_under` as a single step. `DueRun` is the loop around what
`BackupSchedule` does to one instance: it keeps the two stamps, the hour and the due
decision of each, and abstracts the two files, the stanza and the kinds of backup to
"begins", "succeeds" and "fails". `Lifecycle` extends `DockerHost`. `Tui` takes from
`Lifecycle` only that a command adds or removes a `state.toml`, or fails. `TuiStatus`
and `Tui` are two views of the same event loop: they share the listing, and no
handler of the one reads what only the other writes. `Dump` and `Smart` stand alone:
they share no file with the rest. `BackupSchedule`,
`Smart` and `TuiStatus` need no operators in their configurations, and so are run
without an MC module. `Lifecycle` is checked against `Instances` the way `StateStore`
is against `AtomicStore`.

Definitions named in comments as *mutants* are plausible mistakes in the definition
that follows them. Each property is violated under at least one of them
(`PROJECT.json`, `mutants`), so that none of them holds of just any program.

## 3 From code to model

`PROJECT.json` maps every definition to its lines. The main ideas:

**StateStore.** A process takes a job, waits in `Acquire` for `flock`
(`util/fs.rs`), loads, and runs the locked section of its job. Each file write is
the five steps of `atomic_write`: create tmp, write, `sync_all`, rename, fsync of
the directory. `disk[i]` is what processes see of instance `i`; `pend[i]` are the
contents its directory entries may have after a power loss, and `old[i]` the
views that may return because the entry of a fresh directory in `instances/` is
not flushed itself. `PowerLoss` picks any survivor. A death drops the lock and
leaves the temporary file. The serialised file is a function from fields to
values: `toml` is only ever complete, absent or torn. Reads of the file that hold
no lock are not actions: that they are whole is what `NeverTorn` says. A process may stop
with an error at any of the five steps (`Abort`), after the rename too: the caller is then
told of a failure that took effect. `AtomicStore` keeps, beside the two files that are
seen (`store`), the views that a power loss may leave (`durable`). A commit adds the
new content to these and nothing else, on its own or beside what the other file may
come back as; a flush takes some away; a power loss picks one.

**AtomicWrite.** The temporary name contains the process id only, so what matters
is which name leads to which inode and who still has it open. `PidOf` says which
writers share a process.

**BackupSchedule.** Time is discrete; an hour is `HourLen` units and a day `DayLen` hours
of model time. A tick is `Fire` (once a unit at most), `Check` (`is_snapshot_due`, which
reads `state.toml` without the lock), `Choose` (full or differential), `Exec`,
`BackupEnds`, `SaveRecord`, `SaveStamp`, with failures everywhere; a manual snapshot is
the same without the check. pgbackrest's own lock on the stanza is `stanza`; a death or a
broken Docker connection turns its holder into an `Orphan` that ends later. A save that
fails has written nothing (`SaveFails`), or took effect before the flush of the directory
failed (`RecordUnsynced`, `StampUnsynced`). `run_due` records its failed attempt if the
lock, the load and the save succeed (`Fail`); if not, nothing is known of the attempt and
every tick tries again (`FailLost`). `tried`, `cut` and `calm` are history variables: when
the last attempt of each process ended that was reported, the days on which only one of a
record's two files was written, and the last disturbance. A process that is slow anywhere
but in pgbackrest, or a timer that misses a unit of time, is a disturbance too
(`Settled`).

**DueRun.** The timer lists the instances (`List`); then, in any order, which is what
the order of a directory is, each is skipped, fails at once, or begins a backup
that takes up to `Long` units and succeeds or fails. Time passes only in backups and
between ticks. Meanwhile instances are created, destroyed, edited, backed up by hand,
and go down and come up; the tick may be killed. An instance *waits* while it is due
and fit for a backup that has not begun. `over[n][m]` counts the attempts at `m` and
`wait[n]` the time while `n` waits; both are history variables. A kill starts the count anew: a
timer that is killed for ever promises nothing.

**Lifecycle.** One process runs one command: `pc` names the call it is about to make,
`job` holds the command line and the `Instance` it loaded at the start (it really keeps
it, which is what goes stale). Every call may fail without effect (`CallFails`), then the
creating commands clean up after themselves and the others return. The writes of
`state.toml` may also fail *with* effect, when the rename is done and the flush of the
directory is not (`SaveUnsynced`): a resize then returns with its preset saved and sets
nothing back. The two removals after a one-shot upgrade are best-effort: whatever becomes
of them, the upgrade goes on, or returns the error of `pg_upgrade` (`OneshotExits`). `Die`
may follow any step. A wait that times out (`NotReady`) is possible whenever the container
is not up, however long it would have taken. The PostgreSQL side of `DockerHost` (`Boot`,
`ArchivePush`, `RunUpgrade`) runs between the commands' steps: a boot initialises an empty
volume, or runs the clone or restore entrypoint, or starts what is there, depending on the
volume and its marker file. A cluster is a system identifier, a history, a version, a
marker, and the origin of its data (`data`: the initdb, the clone or the restore it goes
back to, which a pg_upgrade keeps although it makes a new cluster); a stanza remembers the
cluster it was created for, and archives only what matches it. `resize` sets the new
preset in `state.toml`, does what `rotate` does, and sets the old one back on any failure;
the preset is both the container's memory limit (`mem`) and the size of postgres' buffers,
which the running postgres has from the file it started with (`tuned`). Five history
variables say what has gone wrong with a name: `orphaned` (a save or a cleanup failed, or
a process died), `unsaved` (a container runs whose save failed), `dropped` (destroy has
removed the volume), `late` (a resize died, failed when its container was made, could not
be rolled back, or failed in the flush of its own save), `raced` (its port was allocated
while another one was under way).

**Instances.** Its variables are functions of `Lifecycle`'s: `inst` is `Listing`, what
`ls.rs` prints of each `state.toml`, and `data` is `Holds`, the origin of the data on
the volume that `state.toml` names. A creation is one step, `Appear`, when the save is
renamed; so is an upgrade when `update_under` is; a destroy is `Erase` (the volume) and
`Vanish` (the directory), because a process may die between; everything else
that commands, failures and deaths do is a stutter.

**Smart.** A drive is fine, worn, failing, silent or gone, which stands for all the
attributes that the parsers look at. `install` is `FindDrives`, `Grant` (sudoers),
`WriteRecord`, `EnableTimer` and a first check; `uninstall` the reverse. A check
discovers the drives, probes one after another, keeps the worst verdict, and writes
it with the time at which it began. Ages are counted in days and stop at two, when
the cache is stale. `Day` comes when the timer has fired and no check runs; `Sleep`
is two days at any moment. `told[d]` counts the days for which any check would
have found `d` failing, `calm` those since any drive was failing, `broken` says that
a step of install or uninstall failed.

**Tui.** The rows are sorted by name, so they are a set of numbers and the
selection an index. An event is handled when the loop takes it from the channel; a
key is handled when it is pressed, because its handler looks at nothing older than
the state it finds. Operations are tasks that send `OpStarted`, do their work,
and send `OpFinished`; a listing is read at one moment and arrives at another.

**TuiStatus.** A reading is an inspection, then `docker stats`, then commands in the
container, and then an event: four steps, between which the container and Docker
may change. Docker answers (`ok`), fails every call (`refused`), or lets calls wait
(`hung`). The poller gives up a name that takes five seconds, except in
`docker stats`, which is a blocking call inside an asynchronous function and so
cannot be given up. The task after an operation has no time limit and reports no
error. `shown` and `stale` are the statuses and stale marks of `AppState`; a listing
overwrites `rows` and leaves both alone.

**Dump.** The file's stamp is the second in which the command started; the check that
no such file exists is made then, the rename when the stream has ended. `disk` is
what a name leads to, `pend` what it may lead to after a power loss: `sync_all`
decides whether the bytes are among the survivors, `fsync_dir` whether the entry is.
A partial file that was removed or renamed since the last flush may come back
(`gone`). What `pg_dump` delivers with exit code 0 is all of a dump, one that is cut off
after its header, or junk without one; the check of the first five bytes tells only the
last from the others. A dump is what was delivered (`sent`) and what is left of it (`data`).
The order of names is what retention sorts by: by stamp within an instance, and, as
digits sort before letters, before the dumps of instances whose longer name begins
with this one's and a dash.

## 4 What the runs show

All run with `tlc -workers 2`; the largest takes about two minutes. A type invariant
that is a theorem (section 6) is not always checked again by a run.

| run | checks | instance |
|---|---|---|
| `StateStore_all` | `NeverTorn`, `AckedIsDurable`, `Linearizable` (implements `AtomicStore`), `LockIsGranted` | two processes, one instance, one field, all four kinds of job; 110,686 states |
| `StateStore_edits` | `ClaimedSnapshotIsRecorded`, `Linearizable` | two processes, two fields, two labels: lost updates are possible only when two jobs edit different fields; 84,810 states |
| `AtomicWrite_processes` | `NeverTruncated`, `NobodyFails`, `PublishedWhole` | writers in processes of their own, two contents, four inodes: one for the destination and each temporary name, and one spare; 779,731 states |
| `BackupSchedule_all` | `OneScheduledPerDay`, `StampsAgree`, `DiffHasFull`, `CoveredAfterBackoff`, `BacksOff`, `StampsGrow` | one tick, one user, two-unit hours, three-hour days, nine time points, two events: a full day, a midnight and an hour after it; 1.6 million states |
| `DueRun_all` | `NoOvertaking`, `WaitIsBounded` (two backups of every other instance, or one unit of time if there is no other) | three instances (symmetric), one-unit hours, four-hour days, six time points, backups of up to one unit, one event, and any of the instances without backups from the start |
| `Lifecycle_all` | `AgreesWithState`, `FitsMemory`, `Rotatable`, `NoOrphan`, `PortsUnique`, `ConfsKept`, `WalStaysHome`, `StanzaFits`, `InstancesKept` (implements `Instances`) | two processes, three commands, at once or one after another but never two on one name (`ApartSpec`), two faults, two names, two ports; names and processes symmetric; 1,059,020 states |
| `Smart_all` | `RedIsRecent`, `OkIsRecent`, `TimerHasGrant`, `FailureIsReported` | two drives, two changes of their condition, two commands, one fault; 570 thousand states |
| `Tui_all` | `TypeOK`, `KeysMeanWhatIsShown`, `SpinnerHasOp` | two names, two operations at once, one change from outside, two events in the channel, tasks symmetric; 3.1 million states |
| `TuiStatus_all` | `TypeOK`, `Converges`, `AlarmSounds` | one instance, three changes of its container or of Docker, one refresh after an operation; 254,640 states |
| `Dump_all` | `AsDelivered`, `FlushedSurvives`, `PartialsExplained`, `NewestIsKept` | one instance, two processes, three dumps in three seconds, `--keep` of 1 or 2, one fault, processes symmetric; 4.0 million states |
| `Lifecycle_stanza`, `Dump_prefix` | `CanBackUp`, `PrunesOwnOlder` | violated, see section 7 |

Why the bounds are enough to be interesting. Races on a file need two writers, and a lost
update two fields; a power loss is possible in every state, so the number of them does not
matter. `OneScheduledPerDay` needs a second chance on the same day and a backup that ends
on the next: both happen within nine time points. In `DueRun` three instances are one that
waits and two that may overtake it, and two ticks fit into the clock. `Lifecycle`'s cases
need two names (a source and a copy, or an owner and an intruder), two ports (so that a
clash is possible and avoidable), a history of create - change - destroy, two mishaps in
it, and two commands at once. In `Smart` two drives are one that fails and one that hides
it; two commands are an install and an uninstall or a check beside the timer's. In `Tui`,
two names are a selection that can move, and two operations can share a name. Instances do
not influence each other in `TuiStatus`, whose tasks take them one by one; three changes
let Docker hang and recover around a change of the container. In `Dump` two dumps overlap
and a third finds what they left. The theorems of section 6 hold for every value of these
bounds; for what is only model-checked, the bounds are all there is. Counters (`MaxCmds`,
`MaxRuns`, `MaxChanges`, `MaxFaults`, `MaxCluster`, `MaxEvents`, `MaxTime`, `MaxOps`,
`MaxQueue`) bound the length of a history and appear in guards only.

`Lifecycle`, `Dump` and `DueRun` stop when their commands or their time are used up, and
`BackupSchedule` ends at `MaxTime` only where nothing else is enabled; `CHECK_DEADLOCK
FALSE` stands in the configurations of the first three only. Symmetry is used only
where no property is a liveness property.

A limit of what `Lifecycle_all` says: no two commands work on one name at once. Nothing
in the code prevents it, and then the conf files of two commands mix: section 7,
`Lifecycle_copies`, is what comes of it.

## 5 Fairness

- `StateStore!FairSpec`: every process goes on with the job it has begun (weak
  fairness: no call it makes under the lock waits for another process), and `flock`
  serves each waiter eventually (strong fairness of `Acquire`: Linux queues
  blocked lockers). Nothing is assumed about failures, deaths and power loss.
  `LockIsGranted` then says that no path of a locked section keeps the lock.
- `BackupSchedule` and `DueRun` are checked without fairness. `CoveredAfterBackoff` and
  `WaitIsBounded`, which say that something happens in time, are invariants over the
  clock: a state in which it is too late is never reached. What they assume of speed
  is in the model: `CoveredAfterBackoff` counts a process that is slow as a
  disturbance, and in `DueRun` only backups take time, at most `Long`, and the timer
  misses no unit while its service is idle. The timer's five minutes and the
  duration of pgforge's own steps are small against the back-off hour.
- `Smart!Spec`: the timer fires, a check that has begun goes on (each probe has a time
  limit of five seconds), the dashboard reads every minute, and days pass (weak
  fairness of each). Nothing is assumed of the user, of install and uninstall, or of the
  drives.
- `TuiStatus!Spec`: the loop, both pollers and every refresh go on whenever they can
  (weak fairness): they are tasks of a runtime with several worker threads, of
  which the blocking call takes one. A poller's next round begins only when the loop
  has taken what the last one sent: a period is seconds, the handlers are
  assignments. Nothing is assumed of containers, Docker, the user or operations.
- `Tui!FairSpec`: the runtime runs the loop on the events it has, and the tasks. It
  promises no key: in the counterexample of `Tui_quit` the loop has been left and
  only a key helps.

## 6 What is proved

Every theorem is about the specification that the run of the same module checks, with
its constants left open: any number of processes, names, drives, tasks or dumps, any
clock, and any bounds. Assumptions about constants are named in the modules
(`ClockAssumption`, `HostAssumption`, ...); they say that numbers are numbers and
that markers such as `None` are not among the values they mark the absence of. What
is assumed beyond that is stated in the theorem, and named below.

`StateStoreProofs`

| theorem | statement |
|---|---|
| `TypeCorrect` | `Spec => []TypeOK` |
| `Invariance` | `Spec => []IInv` |
| `Untorn` | `Spec => []NeverTorn` |
| `Durability` | `Spec => []AckedIsDurable` |
| `Refinement` | `Spec => Linearizable`: `StateStore` implements `AtomicStore` |
| `ClaimsHold` | `Spec => []ClaimedSnapshotIsRecorded` |

The inductive invariant `IInv` is `TypeOK` with what is true at each stage of a
write: only the holder of the lock is past `Acquire`; a temporary file that is
about to be renamed is whole, fsynced, and holds the bytes its owner meant; the
entries that a power loss may bring back are whole; the entries of a file that was
acknowledged are flushed. `NeverTorn` alone is not inductive: it says nothing of
the temporary file that the next rename will publish. The refinement maps a
`StateStore` step to an `AtomicStore` step at the rename (or the removal of
the directory, or the failed lookup), to a flush (`Harden`), to a power loss, or to a
stutter; mutual exclusion makes the content a job loaded the content it replaces. What a power loss may
leave is bounded from both sides: that nothing comes back which was never committed rests
on what `pend` and `old` hold after each rename, and a flush that fails (`Abort` after the
rename) leaves them as they are.

`ClaimsHold` says of what is visible that a `last_snapshot_at` has its record. It is
proved of everything that a power loss may leave instead (`AllRecorded`), and there it
depends on an order: when `state.toml` is renamed with the new stamp, the record must
already be in *every* surviving `snapshots.toml`, which it is because the save before it
flushed the directory. Labels are only ever added, so the later saves of either file
keep it.

`AtomicWriteProofs`, from `OwnProcess`: every writer is a process of its own.

| theorem | statement |
|---|---|
| `Untruncated` | `Spec => []NeverTruncated` |
| `EverySucceeds` | `Spec => []NobodyFails` |
| `Publication` | `Spec => PublishedWhole` |

Here the invariant says that a temporary name leads to an inode that neither the
destination nor another temporary name leads to, that a writer's open file is the
one its name leads to, and that what it is about to rename is its own content.
Without `OwnProcess` this is false, and `AtomicWrite_tasks` (section 7) shows how:
tasks of one dashboard share the process id and so the temporary name.

`BackupScheduleProofs`

| theorem | statement |
|---|---|
| `TypeCorrect` | `Spec => []TypeOK` |
| `StampsAreConsistent` | `Spec => []StampsAgree` |
| `StampsOnlyGrow` | `Spec => StampsGrow` |
| `RetriesAreApart` | `Spec => BacksOff` |
| `ChainsBeginFull` | `Spec => []DiffHasFull` |
| `ScheduledOnce` | `OneTick` implies `Spec => []OneScheduledPerDay` |
| `CoveredInTheEnd` | `OneTick` implies `Spec => []CoveredAfterBackoff` |

`OneTick` says that the timer has one process, which is what a oneshot service gives.
`RetriesAreApart` is about the attempts that `run_due` could record: the code drops the
record silently when the lock, the load or the save fails (`snapshot.rs:54-57`), and after
that no hour is kept. `ScheduledOnce` rests on two facts: `last_snapshot_at` covers every
scheduled record whose second file was written, or is about to; and from its check until
it has recorded, the timer is the first of its day, even when midnight falls into the
backup. `CoveredInTheEnd` is the contrapositive of a search for excuses: a failed attempt
has a reason that lasts (S3 or the container down, a foreign holder of the stanza) or was
a disturbance; so an attempt that is older than an hour of calm and did not succeed cannot
be, and a timer that has fired and is done has found the instance covered, backing off, or
closed.

`DueRunProofs`

| theorem | statement |
|---|---|
| `TypeCorrect` | `Spec => []TypeOK` |
| `NobodyOvertakes` | `Spec => []NoOvertaking` |
| `WaitsEnd` | `Spec => []WaitIsBounded` |
| `DayIsMade` | `CalmSpec(S)` and `Fits(n)` for all `n \in S`: no day ends without a backup of an enabled instance of `S` |
| `NoDayIsMissed` | `CalmSpec(Inst)` and `Fits(n)` for all `n`: `NoDayMissed` |

An attempt at `m` takes `m` off the tick's list. So `over[n][m]` is bounded by a
credit: one if `n` is still on the list (an attempt at `m` may be from the tick
before) and one if `m` no longer is.

`WaitsEnd` needs no sum over the instances, only a count. While a tick runs, `n` has
waited at most for one whole round if it is still to come (what is left of the tick
before, which had begun when `n` was passed), for the instances that this tick is done
with, and for what the backup under way has taken (`Bound`). Each backup that ends
moves at most `Long` from the last term to the second; the end of the tick leaves one
round to those who were passed. The bound of an instance that is alone is one unit:
the time to the next tick.

`DayIsMade` says when the README's "every instance is then backed up daily" does hold.
`CalmSpec(S)` is `Spec` without `Kill`, and nothing happens to the instances of `S`: they
are edited and backed up by nobody, stay reachable, and their backups succeed; they may be
created and destroyed, and everything may happen to the others. `Fits(n)` says that the
longest wait of `WaitsEnd` and one more backup fit between any hour that can be set and
midnight; without it the statement is false, which is `DueRun_missed`. The invariant is
`Punctual`: as long as `n` has no backup today, its window has not opened, or `n` has waited
ever since it did, or its backup began after at most that wait. An
attempt just before midnight keeps the instance backing off for an hour less one unit of
the new day; only a window that opens at midnight opens before that is over (`Opens`).

`LifecycleProofs`, of `ApartSpec`

| theorem | statement |
|---|---|
| `TypeCorrect` | `ApartSpec => []TypeOK` |
| `ContainerAgrees` | `ApartSpec => []AgreesWithState` |
| `MemoryFits` | `ApartSpec => []FitsMemory` |
| `AlwaysRotatable` | `ApartSpec => []Rotatable` |
| `OrphansExplained` | `ApartSpec => []NoOrphan` |
| `FilesStay` | `ApartSpec => []ConfsKept` |
| `WalStays` | `ApartSpec => []WalStaysHome` |
| `StanzasFit` | `ApartSpec => []StanzaFits` |
| `PortsSharedByRace` | `ApartSpec => []PortsUnique` |
| `ImplementsInstances` | `ApartSpec => InstancesKept`: `Lifecycle` implements `Instances` |

The properties speak of the time between commands, so none of them is inductive: what
makes them true is what a command relies on at each of its calls. `IInv` is `Held(n)`,
which is always true of an instance (its container's files fit it, a saved instance has a
cluster of its version, the one-shot upgrade that succeeded has left one); `Rest(n)`,
which is true of it between commands; and `Task(p)`, which is what the command of `p`
relies on: which calls may be next, that the creating commands have no `state.toml`
yet, that the others work on the state that is saved and have removed the container
before they build, what limit the container has when a resize stops half-way, and that
the files are those the container is made from. As any call may fail and any process
may die, every step must establish `Rest` as well. A step touches one instance and
one process, and by `Apart` no other command is at work there: the lemmas `Whole` and
`WholeHost` reduce a step to that instance, and each action is proved for it alone.
`PortsUnique` has an invariant of its own, about the ports that creating commands
hold and have not saved.

For `ImplementsInstances`, `IInv` says too little of what is *on* the volumes: an
upgrade may be shown only when the new volume holds the old data, a creation
only when there is data, and nothing may refill a volume that has a listed instance's.
`KInv` adds that. Of an instance (`Keeps`): the container of one that is listed or up
finds a volume that its entrypoint leaves alone; a one-shot upgrade belongs to a
`state.toml` of version 1, unless it ended well and was left behind, and one that ended
well has copied the data. Of a command
(`Sure`): before it saves a new instance, its volume is filled; before it changes the
version, the data is copied and the upgrade container done; before it removes the
directory, the volume is. Then every step either leaves `Listing` and `Holds` alone
(`CalmStep`, `CalmHost`, `StillStep`) or is, for the one name it touches (`SeenBy`), the
step of `Instances` that it should be (`StepShows`). TLC checked `KInv` on the instance of
`Lifecycle_all` before it was proved.

`StanzasFit` says where `CanBackUp` (violated, section 7) can fail: an instance with
backups that was never upgraded, and whose volume no destroy has removed, has a stanza for
its own cluster or none at all, whoever had the name before it and however the commands on
it ended. Together with `ContainerAgrees` this leaves as causes an upgrade, a destroy that
removed the volume and failed later, and a stanza that is missing, as after a `destroy
--delete-backups` that wiped it and then failed. The invariant is `SInv`. Stanzas change
in two places only, `Ready` (`stanza-create`, which refuses the stanza of another cluster)
and `DeleteStanza`; but `state.toml` is written a step later than `Ready`, so of a
creating command `Archives` says that its container archives into the instance's
repository, and that when it is about to save, the stanza is for what is on its volume.
That nothing puts another cluster on the volume of an instance is `KInv`.

Five promises of the documents that section 7 shows broken do hold of an `ApartSpec` that
leaves out what breaks them, and nothing else: failed calls, deaths, and other commands on
other names at the same time remain, in all of them.

| theorem | of | left out | statement |
|---|---|---|---|
| `PortsApart` | `OneMakerSpec` | two creating commands at a time | `PortsNeverShared` |
| `OldVolumeFree` | `PatientSpec` | an upgrade that gives up, or dies, while pg_upgrade runs | `OldVolumeUnused` |
| `CreateFindsNothing` | `PlainSpec` | upgrades | a create finds a cluster in its volume only if an earlier creation of the name failed to clean up, or died (`EmptyUnlessOrphaned`) |
| `BackupsTaken` | `KeepSpec` | upgrades and `--delete-backups` | an instance with backups that is up has a stanza that takes them, until a destroy has removed its data (`TakesBackups`) |
| `HistoriesApart` | `FreshSpec` | a creation of a name of which a container or a stanza is left | `OneHistory` |

For `PortsApart`, no port is then ever raced for. In the next three one more invariant is
enough: while an upgrade container runs, a process
waits for it (`Awaited`); a volume without a `state.toml` is a failed creation's or has a command
at work on it (`LeftBehind`); an instance with backups has its stanza (`Stanzaed`).
`HistoriesApart` needs the most, because the archiving of WAL is a step of the host
between any two of the commands'. That a stanza has taken anything (`Fed`) must mean that it
has taken exactly one history, that it belongs to a cluster of this history wherever one
that it matches is in the instance's volumes, and that no entrypoint will fill the
container's volume again. For this to survive a
boot, a system identifier that is yet to come must be in no stanza (`Young`); to survive an
upgrade, what pg_upgrade makes must not match the stanza until `state.toml` is changed
(`Moved`); to survive the other
commands, a container must archive into no repository but its own (`Home`), and of a
creating command's name there must be no container until the command makes it, and no stanza
until the one it creates (`Tidy`). On the instance of `Lifecycle_all`, `FreshSpec` has
969,284 states: what it leaves out is little.

`SmartProofs`

| theorem | statement |
|---|---|
| `TypeCorrect` | `Spec => []TypeOK` |
| `AlarmsAreRecent` | `Spec => []RedIsRecent` |
| `AllClearsAreRecent` | `Spec => []OkIsRecent` |
| `TimerIsGranted` | `Spec => []TimerHasGrant` |
| `CleanWhenFinished` | `FinishSpec => UninstallIsClean` |

A check that has found a drive failing is not older than that failing; one that has not
is at least as old as the telling of every drive it has behind it; and what the cache
holds is what a check wrote, aged as it was. `TimerIsGranted` needs which steps of
install and uninstall are behind a command. `CleanWhenFinished` names what
`Smart_uninstalled` (section 7) needs: `FinishSpec` is `Spec` with one thing left out (and
without its fairness), that the timer is disabled while its service runs a check. Then no
failure of install or uninstall, and no death, makes a cache appear on a host from which
SMART was uninstalled.

`TuiProofs`

| theorem | statement |
|---|---|
| `TypeCorrect` | `Spec => []TypeOK` |
| `Meaning` | `Spec => []KeysMeanWhatIsShown` |
| `SpinnersEnd` | `Spec => []SpinnerHasOp` |

`SpinnersEnd` needs that in the channel no task's `OpFinished` is before its `OpStarted`,
for any number of tasks under one name.

`DumpProofs`

| theorem | statement |
|---|---|
| `TypeCorrect` | `Spec => []TypeOK` |
| `Delivered` | `Spec => []AsDelivered` |
| `Flushed` | `Spec => []FlushedSurvives` |
| `PartialsAreExplained` | `Spec => []PartialsExplained` |
| `NewestStays` | `Shadow = {}` implies `Spec => []NewestIsKept` |
| `PrunesAsDocumented` | `Shadow = {}` implies `AloneSpec => PrunesOwnOlder` |
| `ReplacesWhenTold` | `AloneSpec => NoSilentOverwrite` |
| `PrintsWhatIsThere` | `Shadow = {}` implies `AloneSpec => []PrintedPathExists` |

`Delivered` is as much as the code's check gives: no byte is lost that was delivered, and
the header was there. That a dump is complete rests on the exit code of `pg_dump`.
`Shadow = {}` says that no instance's name is another one's with a dash and more; without
it the statement is false (`Dump_prefix`). `NewestStays` rests on this: whatever a
retention is still to remove, or has removed, has a later dump of its instance, and
removing a dump that has a later one takes no other's away.

`PrunesAsDocumented` says how far the README's "prunes older dumps for that instance"
does hold: without such names, and of dumps that do not overlap (`AloneSpec`: no state has
two commands at work). A fresh dump is then the last of its instance by the clock (`Past`:
nothing in the directory is from the future; `Latest`: nothing of the instance
is younger than the dump that its command made), so that whatever `PruneHasLater` finds a
later one for is older than it (`TodoOlder`). Both hypotheses are needed. Without the
first it is false with one process (`Dump_prefix`). Without the second, a dump that took
its time from the clock before another one, and is slower, ends by removing itself or a
younger one. `ReplacesWhenTold` and `PrintsWhatIsThere` do the same for `Dump_overwrite` and
`Dump_printed`: of dumps one at a time, the check for an existing file still holds when
the stream ends (`Told`), and the path that is printed leads to the dump (`There`, which
needs `TodoOlder`: a retention never removes what its own command made). The first
needs nothing of the names.

Only model-checked: `TuiStatus` (its type invariant, and two properties that are
liveness) and the other liveness properties (`LockIsGranted`, `FailureIsReported`).
Every other property of a passing run is a theorem. Liveness, `ENABLED`, facts by
induction over data, and anything that would need a `RECURSIVE` operator are beyond the
prover; no module here uses such an operator.

## 7 Disagreements

Where the code does something else than a comment, a document or a message says; and,
where it could be proved, when what they say does hold.
The first two are checked runs and `PROJECT.json` has them as findings. The
others have a configuration beside the modules, to be run by hand
(`tlc -config X.cfg MCModule.tla`, with `Smart.tla` and `TuiStatus.tla` for theirs); TLC
then prints the counterexample.

| configuration | property | what happens |
|---|---|---|
| `Lifecycle_stanza` | `CanBackUp` | `upgrade` gives the instance a new cluster and never runs `stanza-upgrade`: its backups and WAL archiving fail from then on. README: every instance is backed up daily. An instance that was not upgraded keeps its stanza (`StanzasFit`), and always has one where nobody deletes backups (`BackupsTaken`). |
| `Dump_prefix` | `PrunesOwnOlder` | retention counts every file whose name begins with the instance's name and a dash (`dump.rs:352`), also those of another instance: with `a-b` beside it, `dump --name a --keep 1` removes its own new dump. README:147. Without such names, and of dumps one at a time, it holds (`PrunesAsDocumented`). |
| `Dump_overwrite` | `NoSilentOverwrite` | a second dump to the same path replaces the first without `--force`: the check is made before the stream, the rename after it (`dump.rs:183`, `281`). Dumps one at a time do not (`ReplacesWhenTold`). |
| `Dump_printed` | `PrintedPathExists` | a dump that another one's `--keep` removes is still printed as the result (`cli.rs:414-430`). Not so of dumps one at a time (`PrintsWhatIsThere`). |
| `TuiStatus_hung` | `HungIsMarked` | Docker hangs in `docker stats`, a blocking call (`status.rs:175`): the time limit around it never fires, no instance is marked stale, and the dashboard shows the last readings for as long as it hangs. `refresh.rs:90`: "docker call timed out after 5s for {n}; marking stale". |
| `Lifecycle_rollback` | `RollbackBoots` | `restore` after an `upgrade` builds the container of the new version over a backup of the old one, which does not boot. README "Upgrade": roll back with `pgforge restore`. |
| `Lifecycle_leftover` | `CreateStartsEmpty` | `destroy` of an upgraded instance removes the volume that `state.toml` names and leaves `pgforge_data_NAME`; a later `create` of that name starts on the old data, with the old roles. Without upgrades only what a failed creation left is found (`CreateFindsNothing`). |
| `Tui_quit` | `QuitExits` | After `q` the process hangs until another key is pressed: the runtime's shutdown waits for the blocking key reader. README:189. |
| `StateStore_fresh` | `AckedAlwaysDurable`: an acknowledged save always survives a power loss | the entry of the new directory in `instances/` is never fsynced (`util/fs.rs:13`). `AckedIsDurable` is therefore about flushed directories. |
| `StateStore_halfdeleted` | `HalfDeletedNotLoadable` | `destroy` removes the directory file by file (`destroy.rs:118-122`); a reader without the lock sees half of it. |
| `BackupSchedule_window` | `DueAsDocumented` | `is_snapshot_due` compares dates (`snapshot.rs:87`); its comment (line 68) says "older than today's window-open time". A manual snapshot in the early morning counts for the day. |
| `BackupSchedule_attempt` | `AttemptIsRecorded` | a manual snapshot that fails does not write `last_snapshot_attempt_at`; `domain/instance.rs:51-53` says it is set "regardless of outcome". Nor does one of the timer's when the save of its failure fails (`snapshot.rs:54-57`); then every tick retries. |
| `AtomicWrite_tasks` | `NeverTruncated` | two tasks of one dashboard share a temporary name and publish a truncated file (`util/fs.rs:18`; lines 6-8 exclude it). |
| `Lifecycle_copies` | `WalStaysHome` | a `restore` and a `clone` of one new name at once mix their conf files: WAL goes into the source's repository (README 342-344). |
| `Lifecycle_ports` | `PortsNeverShared` | two creates at once save the same port (`create.rs:118-124`). One at a time they do not (`PortsApart`). |
| `Lifecycle_history` | `OneHistory` | clone, destroy with backups retained, clone again: one stanza gets the WAL of two histories (`clone.rs:284-287`). Where each name is clean when it is taken, this does not happen (`HistoriesApart`). |
| `Lifecycle_rerun` | `RerunWorks` | after a failed save the message says to rerun; the rerun is refused because the container exists (`create.rs:112`, `266-267`). |
| `Lifecycle_timeout` | `OldVolumeUnused` | the wait for `pg_upgrade` gives up after an hour and its container works on, while a rotate starts the old cluster on the same volume (`upgrade_entrypoint.rs:29-30`). As long as upgrade waits, nothing does (`OldVolumeFree`). |
| `Lifecycle_resize` | `ResizeAgrees` | a resize that fails after the new container is made sets the old preset back: `state.toml` then names a preset that the container does not have, which is what `resize.rs:59-60` means to prevent. So does one whose own save fails after its rename (`resize.rs:47-50`), the other way round. |
| `Smart_rerun` | `RerunIsFine` | an install over an existing one is refused without `--force`: the fragment holds the time at which it was rendered and so is never equal. `install.rs:92-93`: "Idempotent re-runs without --force are fine". |
| `Smart_uninstalled` | `UninstallIsClean` | a check that runs while `smart uninstall` does writes the cache after it was removed (`commands/smart.rs:27`). Nothing else does (`CleanWhenFinished`). |
| `DueRun_missed` | `NoDayMissed` | backups of the instances before it push a late one past midnight: that day has none, although nothing failed (README:158). Where the wait fits into the day, no day is missed (`NoDayIsMissed`). |

Seen while modelling, without a configuration.

Dumps: `dump.rs:37-43` says that "a clean pg_dump exit with a 0-byte or truncated file is
still a failed dump"; five bytes are looked at (`dump.rs:264-278`), so that a truncated
file passes if its header is there.

Commands: `clone` and `restore` write their files over those of a container that a
failed creation of that name left, before they find that it is there; restarted, that
container archives into the source's repository or has buffers of another preset
(this is what `Astray` excepts). `refresh.rs:136-139` puts a time limit of two seconds
around `statvfs`, a blocking call that it cannot end. `self update`, run twice at once,
shares `<exe>.new`, and does not flush it. A comment says that two activations of the
timer can overlap (`commands/schedule.rs:58`); those of a oneshot service do not.

SMART: the fragment is installed readable for root only, so that for an ordinary user the
check that it exists never finds it; a failing drive that stops answering is hidden
behind another one's "ok"; the cache is renamed but not flushed.

Dashboard: `in_progress` keeps
only a second snapshot from starting, though the design document calls it a
per-instance lock; the modal with a new instance's connection string may be closed
by a listing older than the instance (`tui/app.rs:117-139`); `clipboard.rs:23-24`
says that the connection string is never on the screen, and there is a modal
that shows it; the confirmation says `(y/N)` and Enter means yes; the list poller's
message says "marking stale" and marks nothing (`refresh.rs:50`); while Docker
refuses calls the list shows every instance as stopped (`ls.rs:56`); an "up" that
arrives late, after a "down", makes one going down raise two alarms.

## 8 What is not modelled

- **reconfigure, file modes**, and presets beyond two: `reconfigure` rewrites
  `pg_hba.conf` from constants and reloads; `create`'s four presets differ in numbers.
- **A call to Docker that is an error although it took effect** (a time limit, a broken
  connection), except a wait that gives up, and the backup of `BackupSchedule`.
- **Commands on one name at once**, as far as the theorems and `Lifecycle_all` go.
- **Snapshot, disk and SMART pollers of the dashboard** other than what `Smart` has of
  the last: each overwrites one value that nothing else reads. The flash line, and what
  is typed into a wizard beyond the name that results.
- **`wait_ready`'s polling** (abstracted to ready or not), the exec stream of the Docker
  adapter, `dump`'s check of free space.
- **Versions**: `create` makes version 1 and `upgrade` leads to 2; a second upgrade
  is not modelled.
- **Text**: generation and parsing of configuration files, pgbackrest output,
  systemd units, `smartctl` output; layout and rendering.
- **Disk capacity, images, self update, random passwords**: see the notes in
  `PROJECT.json`.

## 9 Plan

Order of the modules, the most important behaviour first: the store (everything
relies on it), backups (what the program is for), the lifecycle commands (the
longest sequences and the most failures), the dashboard (the most interleavings), the
dumps, the tick over all instances, SMART. Those are there, each with its proofs except
`TuiStatus`; the store and the lifecycle also with what they promise (`AtomicStore`,
`Instances`). What is left, in order:

1. `Lifecycle` with two commands on one name: which parts of `Instances` then still hold.
2. The exec stream and the waits of the Docker adapter as a module of their own.
3. Pure algorithms (`allocate_port`, `dumps_to_prune`, the point-in-time window,
   `bump_snapshot_hour`) as operators against reference definitions.
