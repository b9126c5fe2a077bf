--------------------------- MODULE BackupSchedule ---------------------------
(***************************************************************************)
(* The daily backup of one instance: the 5-minute timer that runs          *)
(* `pgforge snapshot --due`, manual snapshots beside it, the pgbackrest    *)
(* stanza they share, and the three things they write: snapshots.toml,     *)
(* last_snapshot_at and last_snapshot_attempt_at.                          *)
(* Sources: commands/snapshot.rs, commands/schedule.rs, domain/instance.rs *)
(* and the cron edit of cli.rs and tui/app.rs. Every write of state.toml   *)
(* is one step here: StateStore shows that it acts like one.               *)
(***************************************************************************)
EXTENDS Integers, Sequences, FiniteSets

CONSTANTS
    Tick,       \* processes of the timer (systemd runs at most one at a time)
    Manual,     \* processes and TUI tasks that snapshot on demand
    HourLen,    \* the units of time in an hour
    DayLen,     \* ... and in a day
    Week,       \* days in a week
    FullDay,    \* full_backup_day
    Hours,      \* hours of the day that cron sets
    Off,        \* snapshot_hour = None
    Never,      \* no time stamp yet
    Free,       \* nobody holds the stanza
    Orphan,     \* a pgbackrest whose pgforge died holds it
    MaxTime,    \* bound: the clock
    MaxEvents   \* bound: manual snapshots, outages, deaths, failing saves, cron edits

Proc == Tick \cup Manual
Time == 0 .. MaxTime

ASSUME ClockAssumption ==
    /\ HourLen \in Nat \ {0} /\ DayLen \in Nat \ {0} /\ Week \in Nat \ {0}
    /\ FullDay \in 0 .. Week - 1
    /\ MaxTime \in Nat /\ MaxEvents \in Nat

ASSUME ProcAssumption ==
    /\ Tick \cap Manual = {}
    /\ \A p \in Proc : p # Free /\ p # Orphan
    /\ Free # Orphan
    /\ \A t \in Time : t # Never
    /\ Hours \subseteq 0 .. DayLen - 1
    /\ \A h \in Hours : h # Off

VARIABLES
    now,        \* the clock
    hour,       \* snapshot_hour
    lastOk,     \* last_snapshot_at
    lastTry,    \* last_snapshot_attempt_at
    snaps,      \* snapshots.toml: records [at, full, auto]
    pc,         \* where each process is
    full,       \* full[p]: p has chosen --type=full
    at,         \* at[p]: taken_at of the record p is writing
    stanza,     \* holder of pgbackrest's lock on the stanza
    healthy,    \* the container runs and S3 answers
    fired,      \* the timer has fired in this unit of time
    events,     \* how many events beside the timer there have been
    calm,       \* when the last of them happened
    tried,      \* tried[p]: when the last attempt that p reported ended (the
                \*           timer reports by a save, which may fail)
    cut         \* days on which only the first of the two files was written

stateFile == <<lastOk, lastTry>>
ghosts == <<events, calm, tried, cut>>
vars == <<now, hour, lastOk, lastTry, snaps, pc, full, at, stanza, healthy,
          fired, events, calm, tried, cut>>

Stamp == Time \cup {Never}
Record == [at: Time, full: BOOLEAN, auto: BOOLEAN]

Date(t) == t \div DayLen
Weekday(t) == Date(t) % Week

TypeOK ==
    /\ now \in Time
    /\ hour \in Hours \cup {Off}
    /\ lastOk \in Stamp /\ lastTry \in Stamp
    /\ snaps \in Seq(Record)
    /\ pc \in [Proc -> {"idle", "check", "load", "exec", "backup", "record", "stamp", "failed"}]
    /\ full \in [Proc -> BOOLEAN]
    /\ at \in [Proc -> Stamp]
    /\ stanza \in Proc \cup {Free, Orphan}
    /\ healthy \in BOOLEAN /\ fired \in BOOLEAN
    /\ events \in 0 .. MaxEvents
    /\ calm \in Time /\ tried \in [Proc -> Stamp]
    /\ cut \subseteq {Date(t) : t \in Time}

Init ==
    /\ now = 0
    /\ hour \in Hours \cup {Off}
    /\ lastOk = Never /\ lastTry = Never
    /\ snaps = <<>>
    /\ pc = [p \in Proc |-> "idle"]
    /\ full = [p \in Proc |-> FALSE]
    /\ at = [p \in Proc |-> Never]
    /\ stanza = Free
    /\ healthy = TRUE /\ fired = FALSE
    /\ events = 0 /\ calm = 0 /\ tried = [p \in Proc |-> Never] /\ cut = {}

-----------------------------------------------------------------------------
(* The scheduler tick: run_due                                             *)

\* is_snapshot_due, at the current time.
WindowOpen(h) == now % DayLen >= h * HourLen
\* Mutant: covered means backed up since today's window opened.
CoveredSinceWindow(ok) ==
    ok # Never /\ hour # Off /\ ok >= Date(now) * DayLen + hour * HourLen

CoveredToday(ok) == ok # Never /\ Date(ok) = Date(now)
\* Mutant: the hour's end is still within the back-off.
BackingOffClosed(try) == try # Never /\ now - try <= HourLen

BackingOff(try) == try # Never /\ now - try < HourLen
IsSnapshotDue(h, ok, try) == WindowOpen(h) /\ ~CoveredToday(ok) /\ ~BackingOff(try)

\* OnUnitActiveSec=5min.
Fire(t) ==
    /\ pc[t] = "idle"
    /\ pc' = [pc EXCEPT ![t] = "check"]
    /\ fired' = TRUE
    /\ UNCHANGED <<now, hour, stateFile, snaps, full, at, stanza, healthy, ghosts>>

Check(t) ==
    /\ pc[t] = "check"
    /\ pc' = [pc EXCEPT ![t] =
                IF hour # Off /\ IsSnapshotDue(hour, lastOk, lastTry) THEN "load" ELSE "idle"]
    /\ UNCHANGED <<now, hour, stateFile, snaps, full, at, stanza, healthy, fired, ghosts>>

-----------------------------------------------------------------------------
(* run_with_engine                                                         *)

\* Something beside the timer and the clock happens.
Disturb == events < MaxEvents /\ events' = events + 1 /\ calm' = now

\* `pgforge snapshot`, or [s] in the TUI: no due check.
Request(m) ==
    /\ pc[m] = "idle"
    /\ pc' = [pc EXCEPT ![m] = "load"]
    /\ Disturb
    /\ UNCHANGED <<now, hour, stateFile, snaps, full, at, stanza, healthy, fired, tried, cut>>

\* Mutant: the kind follows from the weekday alone.
ChooseByWeekday(p) ==
    /\ pc[p] = "load"
    /\ IF healthy
         THEN /\ full' = [full EXCEPT ![p] = Weekday(now) = FullDay]
              /\ pc' = [pc EXCEPT ![p] = "exec"]
         ELSE /\ pc' = [pc EXCEPT ![p] = "failed"]
              /\ UNCHANGED full
    /\ UNCHANGED <<now, hour, stateFile, snaps, at, stanza, healthy, fired, ghosts>>

\* The container must run; the kind is chosen from the records and the weekday.
Choose(p) ==
    /\ pc[p] = "load"
    /\ IF healthy
         THEN /\ full' = [full EXCEPT ![p] =
                    (\A i \in DOMAIN snaps : ~snaps[i].full) \/ Weekday(now) = FullDay]
              /\ pc' = [pc EXCEPT ![p] = "exec"]
         ELSE /\ pc' = [pc EXCEPT ![p] = "failed"]
              /\ UNCHANGED full
    /\ UNCHANGED <<now, hour, stateFile, snaps, at, stanza, healthy, fired, ghosts>>

\* `pgbackrest backup` in the container: it fails at once when another one
\* holds the stanza.
Exec(p) ==
    /\ pc[p] = "exec"
    /\ IF stanza = Free
         THEN stanza' = p /\ pc' = [pc EXCEPT ![p] = "backup"]
         ELSE pc' = [pc EXCEPT ![p] = "failed"] /\ UNCHANGED stanza
    /\ UNCHANGED <<now, hour, stateFile, snaps, full, at, healthy, fired, ghosts>>

\* It ends, some time later. It succeeds when S3 and the container are there.
BackupEnds(p) ==
    /\ pc[p] = "backup"
    /\ pc' = [pc EXCEPT ![p] = IF healthy THEN "record" ELSE "failed"]
    /\ stanza' = Free
    /\ calm' = IF p \in Manual THEN now ELSE calm
    /\ UNCHANGED <<now, hour, stateFile, snaps, full, at, healthy, fired, events, tried, cut>>

\* Mutant: no lock around the two files.
NoLock == TRUE

\* The state-root lock is free: nobody is between its two files.
Unlocked == \A q \in Proc : pc[q] # "stamp"

\* Under the lock: push to snapshots.toml, ...
Push(p) ==
    /\ pc[p] = "record" /\ Unlocked
    /\ snaps' = Append(snaps, [at |-> now, full |-> full[p], auto |-> p \in Tick])

SaveRecord(p) ==
    /\ Push(p)
    /\ at' = [at EXCEPT ![p] = now]
    /\ pc' = [pc EXCEPT ![p] = "stamp"]
    /\ UNCHANGED <<now, hour, stateFile, full, stanza, healthy, fired, ghosts>>

\* A process returns.
Return(p) ==
    /\ pc' = [pc EXCEPT ![p] = "idle"]
    /\ full' = [full EXCEPT ![p] = FALSE]
    /\ at' = [at EXCEPT ![p] = Never]

\* Mutant: a success does not count as an attempt.
SaveStampOkOnly(p) ==
    /\ pc[p] = "stamp"
    /\ lastOk' = at[p]
    /\ tried' = [tried EXCEPT ![p] = at[p]]
    /\ Return(p)
    /\ UNCHANGED <<now, hour, lastTry, snaps, stanza, healthy, fired, events, calm, cut>>

\* ... then both time stamps of state.toml.
SaveStamp(p) ==
    /\ pc[p] = "stamp"
    /\ lastOk' = at[p] /\ lastTry' = at[p]
    /\ tried' = [tried EXCEPT ![p] = at[p]]
    /\ Return(p)
    /\ UNCHANGED <<now, hour, snaps, stanza, healthy, fired, events, calm, cut>>

\* Mutant: a failure is only logged.
FailUnrecorded(p) ==
    /\ pc[p] = "failed" /\ Unlocked
    /\ tried' = [tried EXCEPT ![p] = now]
    /\ Return(p)
    /\ UNCHANGED <<now, hour, stateFile, snaps, stanza, healthy, fired, events, calm, cut>>

\* run_due records the failure of its own attempts, if it can; run does not.
Fail(p) ==
    /\ pc[p] = "failed" /\ Unlocked
    /\ lastTry' = IF p \in Tick THEN now ELSE lastTry
    /\ tried' = [tried EXCEPT ![p] = now]
    /\ Return(p)
    /\ UNCHANGED <<now, hour, lastOk, snaps, stanza, healthy, fired, events, calm, cut>>

\* ... "if let Ok" and "let _": when the lock, the load or the save fails, the
\* attempt leaves no trace and the next tick tries again.
FailLost(t) ==
    /\ pc[t] = "failed"
    /\ Return(t)
    /\ Disturb
    /\ UNCHANGED <<now, hour, stateFile, snaps, stanza, healthy, fired, tried, cut>>

\* One of the two files cannot be written; a day on which the second one is
\* missing is cut.
SaveFails(p) ==
    /\ pc[p] \in {"record", "stamp"}
    /\ pc' = [pc EXCEPT ![p] = "failed"]
    /\ cut' = IF pc[p] = "stamp" THEN cut \cup {Date(at[p])} ELSE cut
    /\ Disturb
    /\ UNCHANGED <<now, hour, stateFile, snaps, full, at, stanza, healthy, fired, tried>>

\* util/fs.rs lines 36-40: a save is an error although its rename took effect,
\* the directory could not be flushed. A record that is there and is not stamped
\* ...
RecordUnsynced(p) ==
    /\ Push(p)
    /\ pc' = [pc EXCEPT ![p] = "failed"]
    /\ cut' = cut \cup {Date(now)}
    /\ Disturb
    /\ UNCHANGED <<now, hour, stateFile, full, at, stanza, healthy, fired, tried>>

\* ... and stamps that are there while the command returns its error.
StampUnsynced(p) ==
    /\ pc[p] = "stamp"
    /\ lastOk' = at[p] /\ lastTry' = at[p]
    /\ pc' = [pc EXCEPT ![p] = "failed"]
    /\ Disturb
    /\ UNCHANGED <<now, hour, snaps, full, at, stanza, healthy, fired, tried, cut>>

-----------------------------------------------------------------------------
(* Everything else                                                         *)

\* `pgforge cron`, or [t] in the TUI.
Cron ==
    /\ hour' \in (Hours \cup {Off}) \ {hour}
    /\ Disturb
    /\ UNCHANGED <<now, stateFile, snaps, pc, full, at, stanza, healthy, fired, tried, cut>>

\* S3 or the container goes away or comes back.
Outage ==
    /\ healthy' = ~healthy
    /\ Disturb
    /\ UNCHANGED <<now, hour, stateFile, snaps, pc, full, at, stanza, fired, tried, cut>>

\* pgforge is killed. The pgbackrest it started goes on in the container.
Kill(p) ==
    /\ pc[p] # "idle"
    /\ stanza' = IF stanza = p THEN Orphan ELSE stanza
    /\ cut' = IF pc[p] = "stamp" THEN cut \cup {Date(at[p])} ELSE cut
    /\ Return(p)
    /\ Disturb
    /\ UNCHANGED <<now, hour, stateFile, snaps, healthy, fired, tried>>

\* The connection to the Docker daemon breaks: pgforge sees a failure, and
\* pgbackrest goes on.
ConnectionLost(p) ==
    /\ pc[p] = "backup"
    /\ pc' = [pc EXCEPT ![p] = "failed"]
    /\ stanza' = Orphan
    /\ Disturb
    /\ UNCHANGED <<now, hour, stateFile, snaps, full, at, healthy, fired, tried, cut>>

OrphanEnds ==
    /\ stanza = Orphan
    /\ stanza' = Free
    /\ calm' = now
    /\ UNCHANGED <<now, hour, stateFile, snaps, pc, full, at, healthy, fired, events, tried, cut>>

\* Every process has come to rest or waits for pgbackrest, and the timer has
\* not missed this unit of time.
Settled ==
    /\ \A p \in Proc : pc[p] \in {"idle", "backup"}
    /\ fired \/ \E t \in Tick : pc[t] = "backup"

\* A process that is slow elsewhere than in pgbackrest counts as a disturbance.
Advance ==
    /\ now < MaxTime
    /\ now' = now + 1
    /\ fired' = FALSE
    /\ calm' = IF Settled THEN calm ELSE now + 1
    /\ UNCHANGED <<hour, stateFile, snaps, pc, full, at, stanza, healthy, events, tried, cut>>

Happen ==
    \/ \E t \in Tick : Fire(t) \/ Check(t) \/ FailLost(t)
    \/ \E m \in Manual : Request(m)
    \/ \E p \in Proc : Choose(p) \/ Exec(p) \/ BackupEnds(p) \/ SaveRecord(p)
                       \/ SaveStamp(p) \/ SaveFails(p) \/ RecordUnsynced(p) \/ StampUnsynced(p)
                       \/ Fail(p) \/ Kill(p) \/ ConnectionLost(p)
    \/ Cron \/ Outage \/ OrphanEnds

Next == Happen \/ Advance

Spec == Init /\ [][Next]_vars

-----------------------------------------------------------------------------
(* Properties                                                              *)

\* snapshot.rs is_snapshot_due: with one timer process, two scheduled records
\* carry the same date only if on that day snapshots.toml was written and
\* state.toml was not; retries, cron edits, slow backups that end after
\* midnight and manual snapshots never make it two.
OneScheduledPerDay ==
    \A i, j \in DOMAIN snaps :
        /\ i < j /\ snaps[i].auto /\ snaps[j].auto
        /\ Date(snaps[i].at) = Date(snaps[j].at)
        => Date(snaps[i].at) \in cut

\* snapshot.rs lines 51-60 and 96-104: whatever manual snapshots and cron edits
\* write to state.toml in between, a scheduled attempt starts at least an hour
\* after the end of the last one that run_due could record. One whose record
\* was lost (lock, load or save failed) holds nothing back.
BacksOff ==
    [][\A t \in Tick : pc[t] = "check" /\ pc'[t] = "load" /\ tried[t] # Never
                            => now >= tried[t] + HourLen]_vars

\* domain/instance.rs backup_failing compares the two stamps: neither ever goes
\* back, a success is never newer than an attempt, and a success is a recorded
\* snapshot.
StampsAgree ==
    /\ lastOk # Never =>
          /\ lastTry # Never /\ lastOk <= lastTry /\ lastTry <= now
          /\ \E i \in DOMAIN snaps : snaps[i].at = lastOk
    /\ \A i, j \in DOMAIN snaps : i < j => snaps[i].at <= snaps[j].at

StampsGrow ==
    [][/\ lastOk # Never => lastOk' # Never /\ lastOk' >= lastOk
       /\ lastTry # Never => lastTry' # Never /\ lastTry' >= lastTry]_vars

\* domain/instance.rs lines 57-60: pgbackrest needs a full backup to start the
\* chain: every differential record has a full one before it.
DiffHasFull ==
    \A i \in DOMAIN snaps : ~snaps[i].full =>
        \E j \in DOMAIN snaps : j < i /\ snaps[j].full

\* README, `snapshot --due`: once S3, the container and the configuration have
\* been undisturbed for the length of the back-off, an instance whose window
\* has opened is covered today, or was backed up within the last hour.
CoveredAfterBackoff ==
    /\ Settled /\ healthy /\ stanza = Free
    /\ hour # Off /\ WindowOpen(hour)
    /\ now - calm >= HourLen
    => CoveredToday(lastOk) \/ (lastOk # Never /\ now - lastOk < HourLen)

\* snapshot.rs lines 66-69: due iff the window has opened, last_snapshot_at is
\* "None OR it's older than today's window-open time", and the back-off is over.
DueAsDocumented ==
    hour # Off =>
        LET opened == Date(now) * DayLen + hour * HourLen IN
        IsSnapshotDue(hour, lastOk, lastTry) <=>
            /\ now >= opened
            /\ lastOk = Never \/ lastOk < opened
            /\ ~BackingOff(lastTry)

\* domain/instance.rs lines 51-53: last_snapshot_attempt_at is the "most recent
\* time we *tried* a snapshot, regardless of outcome. Set even on failure."
AttemptIsRecorded ==
    \A p \in Proc : tried[p] # Never => lastTry # Never /\ lastTry >= tried[p]
=============================================================================
