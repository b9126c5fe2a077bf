--------------------------------- MODULE DueRun ---------------------------------
(***************************************************************************)
(* One tick of `pgforge snapshot --due` over all instances: it lists them  *)
(* once, takes them one after another in the order of the directory, and   *)
(* awaits each backup, while users create, destroy and edit instances and  *)
(* take snapshots by hand. What happens to one instance and its two files  *)
(* is in BackupSchedule; here is what the instances do to each other.      *)
(* Sources: commands/snapshot.rs (run_due, is_snapshot_due, run),          *)
(* state/instance.rs (list_under), commands/schedule.rs.                   *)
(***************************************************************************)
EXTENDS Integers, FiniteSets

CONSTANTS
    Inst,       \* the names of instances
    HourLen,    \* the units of time in an hour
    DayLen,     \* ... and in a day
    Hours,      \* hours of the day that cron sets
    Off,        \* snapshot_hour = None, or no backups at all
    Never,      \* no time stamp yet
    None,
    Long,       \* the longest that a backup takes
    MaxTime,    \* bound: the clock
    MaxEvents   \* bound: what users and the host do beside the timer

ASSUME DueRunAssumption ==
    /\ IsFiniteSet(Inst)
    /\ HourLen \in Nat \ {0} /\ DayLen \in Nat \ {0} /\ Long \in Nat \ {0}
    /\ MaxTime \in Nat /\ MaxEvents \in Nat /\ Hours \subseteq Nat
    /\ Off \notin Nat /\ Never \notin Nat /\ None \notin Inst

VARIABLES
    now,        \* the clock
    here,       \* the instances that have a state.toml
    hour,       \* hour[n]: snapshot_hour
    lastOk,     \* lastOk[n]: last_snapshot_at
    lastTry,    \* lastTry[n]: last_snapshot_attempt_at
    up,         \* up[n]: container and state.toml are fit for a backup to begin
    manual,     \* the instances with a snapshot by hand underway
    on,         \* the tick is running
    todo,       \* the names it has listed and not yet reached
    cur,        \* the instance whose backup it awaits
    since,      \* when that backup began
    fired,      \* the timer has fired in this unit of time
    events,
    over,       \* over[n][m]: attempts at m while n waited for its own
    wait        \* wait[n]: how long n has waited

files == <<here, hour, lastOk, lastTry>>
tick == <<on, todo, cur, since>>
vars == <<now, files, up, manual, tick, fired, events, over, wait>>

Stamp == Nat \cup {Never}

TypeOK ==
    /\ now \in Nat
    /\ here \subseteq Inst /\ manual \subseteq Inst /\ todo \subseteq Inst
    /\ hour \in [Inst -> Hours \cup {Off}]
    /\ lastOk \in [Inst -> Stamp] /\ lastTry \in [Inst -> Stamp]
    /\ up \in [Inst -> BOOLEAN]
    /\ on \in BOOLEAN /\ fired \in BOOLEAN
    /\ cur \in Inst \cup {None} /\ since \in Nat
    /\ events \in Nat
    /\ over \in [Inst -> [Inst -> Nat]] /\ wait \in [Inst -> Nat]

Init ==
    /\ now = 0
    /\ here \in SUBSET Inst
    /\ hour \in {h \in [Inst -> Hours \cup {Off}] : \A n \in Inst \ here : h[n] = Off}
    /\ lastOk = [n \in Inst |-> Never] /\ lastTry = [n \in Inst |-> Never]
    /\ up = [n \in Inst |-> n \in here]
    /\ manual = {}
    /\ on = FALSE /\ todo = {} /\ cur = None /\ since = 0
    /\ fired = FALSE /\ events = 0
    /\ over = [n \in Inst |-> [m \in Inst |-> 0]] /\ wait = [n \in Inst |-> 0]

Date(t) == t \div DayLen

\* is_snapshot_due, after the guards of run_due.
IsDue(n) ==
    /\ hour[n] # Off
    /\ now % DayLen >= hour[n] * HourLen
    /\ ~(lastOk[n] # Never /\ Date(lastOk[n]) = Date(now))
    /\ ~(lastTry[n] # Never /\ now - lastTry[n] < HourLen)

\* n could be backed up, should be, and is not being.
Waiting(n) == n \in here /\ up[n] /\ n \notin manual /\ cur # n /\ IsDue(n)

\* What those who wait see of a step: attempts at S begin, and d units pass.
Seen(S, d) ==
    LET still(n) == Waiting(n) /\ Waiting(n)' /\ n \notin S IN
    /\ over' = [n \in Inst |-> [m \in Inst |->
                  IF still(n) THEN over[n][m] + (IF m \in S THEN 1 ELSE 0) ELSE 0]]
    /\ wait' = [n \in Inst |-> IF still(n) THEN wait[n] + d ELSE 0]

-----------------------------------------------------------------------------
(* run_due                                                                 *)

\* The timer starts the service unless it is still running; list_under.
List ==
    /\ ~on
    /\ on' = TRUE /\ todo' = here /\ fired' = TRUE
    /\ UNCHANGED <<now, files, up, manual, cur, since, events>>
    /\ Seen({}, 0)

\* No state.toml, no hour, or not due: on to the next.
Skip(n) ==
    /\ n \in todo /\ cur = None
    /\ n \notin here \/ ~up[n] \/ ~IsDue(n)
    /\ todo' = todo \ {n}
    /\ UNCHANGED <<now, files, up, manual, on, cur, since, fired, events>>
    /\ Seen({}, 0)

\* The container runs and nobody holds the stanza: pgbackrest begins.
Begin(n) ==
    /\ n \in todo /\ cur = None
    /\ n \in here /\ IsDue(n) /\ up[n] /\ n \notin manual
    /\ todo' = todo \ {n}
    /\ cur' = n /\ since' = now
    /\ UNCHANGED <<now, files, up, manual, on, fired, events>>
    /\ Seen({n}, 0)

\* The failed attempt is recorded, unless the instance is gone or the save fails.
Recorded(n) ==
    \/ n \in here /\ lastTry' = [lastTry EXCEPT ![n] = now]
    \/ (n \notin here \/ ~up[n]) /\ UNCHANGED lastTry

\* Mutant: the first failure ends the tick.
FailsAtOnceEnding(n) ==
    /\ n \in todo /\ cur = None
    /\ n \in here /\ IsDue(n) /\ (~up[n] \/ n \in manual)
    /\ todo' = {} /\ on' = FALSE
    /\ UNCHANGED <<now, here, hour, lastOk, lastTry, up, manual, cur, since, fired, events>>
    /\ Seen({n}, 0)

\* It does not get that far.
FailsAtOnce(n) ==
    /\ n \in todo /\ cur = None
    /\ n \in here /\ IsDue(n) /\ (~up[n] \/ n \in manual)
    /\ todo' = todo \ {n}
    /\ Recorded(n)
    /\ UNCHANGED <<now, here, hour, lastOk, up, manual, on, cur, since, fired, events>>
    /\ Seen({n}, 0)

\* Mutant: one backup for each tick.
SucceedsAndReturns ==
    /\ cur # None /\ cur \in here /\ up[cur]
    /\ lastOk' = [lastOk EXCEPT ![cur] = now] /\ lastTry' = [lastTry EXCEPT ![cur] = now]
    /\ cur' = None /\ todo' = {} /\ on' = FALSE
    /\ UNCHANGED <<now, here, hour, up, manual, since, fired, events>>
    /\ Seen({}, 0)

\* The backup ends, and its record is saved.
Succeeds ==
    /\ cur # None /\ cur \in here /\ up[cur]
    /\ lastOk' = [lastOk EXCEPT ![cur] = now] /\ lastTry' = [lastTry EXCEPT ![cur] = now]
    /\ cur' = None
    /\ UNCHANGED <<now, here, hour, up, manual, on, todo, since, fired, events>>
    /\ Seen({}, 0)

\* The backup or the save fails, sooner or later; the loop continues.
Fails ==
    /\ cur # None
    /\ Recorded(cur)
    /\ cur' = None
    /\ UNCHANGED <<now, here, hour, lastOk, up, manual, on, todo, since, fired, events>>
    /\ Seen({}, 0)

Return ==
    /\ on /\ todo = {} /\ cur = None
    /\ on' = FALSE
    /\ UNCHANGED <<now, files, up, manual, todo, cur, since, fired, events>>
    /\ Seen({}, 0)

-----------------------------------------------------------------------------
(* Everything else                                                         *)

Event == events < MaxEvents /\ events' = events + 1

\* The tick's process dies, and whoever waited has to begin again.
Kill ==
    /\ on /\ Event
    /\ on' = FALSE /\ todo' = {} /\ cur' = None
    /\ over' = [n \in Inst |-> [m \in Inst |-> 0]] /\ wait' = [n \in Inst |-> 0]
    /\ UNCHANGED <<now, files, up, manual, since, fired>>

\* `pgforge create` and its like: no stamps, and an hour of its own.
Create(n) ==
    /\ n \notin here /\ Event
    /\ here' = here \cup {n}
    /\ \E h \in Hours \cup {Off} : hour' = [hour EXCEPT ![n] = h]
    /\ lastOk' = [lastOk EXCEPT ![n] = Never] /\ lastTry' = [lastTry EXCEPT ![n] = Never]
    /\ up' = [up EXCEPT ![n] = TRUE]
    /\ UNCHANGED <<now, manual, tick, fired>>
    /\ Seen({}, 0)

Destroy(n) ==
    /\ n \in here /\ Event
    /\ here' = here \ {n}
    /\ up' = [up EXCEPT ![n] = FALSE] /\ hour' = [hour EXCEPT ![n] = Off]
    /\ UNCHANGED <<now, lastOk, lastTry, manual, tick, fired>>
    /\ Seen({}, 0)

Cron(n, h) ==
    /\ n \in here /\ h # hour[n] /\ Event
    /\ hour' = [hour EXCEPT ![n] = h]
    /\ UNCHANGED <<now, here, lastOk, lastTry, up, manual, tick, fired>>
    /\ Seen({}, 0)

\* A container stops or starts, S3 goes away or comes back.
Outage(n) ==
    /\ n \in here /\ Event
    /\ up' = [up EXCEPT ![n] = ~@]
    /\ UNCHANGED <<now, files, manual, tick, fired>>
    /\ Seen({}, 0)

\* `pgforge snapshot --name n`, which ends well or badly.
Request(n) ==
    /\ n \in here /\ up[n] /\ n \notin manual /\ cur # n /\ Event
    /\ manual' = manual \cup {n}
    /\ UNCHANGED <<now, files, up, tick, fired>>
    /\ Seen({}, 0)

ManualEnds(n) ==
    /\ n \in manual
    /\ manual' = manual \ {n}
    /\ IF n \in here /\ up[n]
         THEN lastOk' = [lastOk EXCEPT ![n] = now] /\ lastTry' = [lastTry EXCEPT ![n] = now]
         ELSE UNCHANGED <<lastOk, lastTry>>
    /\ UNCHANGED <<now, here, hour, up, tick, fired, events>>
    /\ Seen({}, 0)

\* Only backups take time, the tick's at most Long, and the timer fires in
\* every unit in which the service is not running.
Advance ==
    /\ now < MaxTime
    /\ IF on THEN cur # None /\ now - since < Long ELSE fired
    /\ now' = now + 1
    /\ fired' = FALSE
    /\ UNCHANGED <<files, up, manual, tick, events>>
    /\ Seen({}, 1)

Next ==
    \/ List \/ Succeeds \/ Fails \/ Return \/ Kill \/ Advance
    \/ \E n \in Inst :
        \/ Skip(n) \/ Begin(n) \/ FailsAtOnce(n)
        \/ Create(n) \/ Destroy(n) \/ Outage(n) \/ Request(n) \/ ManualEnds(n)
        \/ \E h \in Hours \cup {Off} : Cron(n, h)

Spec == Init /\ [][Next]_vars

-----------------------------------------------------------------------------
(* Properties                                                              *)

\* snapshot.rs lines 25-62: whatever the order of the directory, and whichever
\* backups fail, no other instance is attempted more than twice while one waits:
\* once in the rest of this tick and once in the next.
NoOvertaking == \A n, m \in Inst : over[n][m] <= 2

LongestWait(n) == IF Inst = {n} THEN 1 ELSE 2 * (Cardinality(Inst) - 1) * Long

\* README, `snapshot --due`: an instance that is due and could be backed up
\* waits for two backups of every other instance at most; one that is alone
\* waits for the timer's next tick.
WaitIsBounded == \A n \in Inst : wait[n] <= LongestWait(n)

\* README, "Backups": "every instance is then backed up daily at its configured
\* hour": a day does not end without it.
NoDayMissed ==
    [][Date(now') # Date(now) =>
         \A n \in here : hour[n] # Off => lastOk[n] # Never /\ Date(lastOk[n]) = Date(now)]_vars
=============================================================================
