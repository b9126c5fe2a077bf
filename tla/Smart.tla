--------------------------------- MODULE Smart ---------------------------------
(***************************************************************************)
(* SMART disk health: a daily timer and the user's commands probe the      *)
(* drives one after another through sudo and leave the worst verdict in a  *)
(* cache file, which the dashboard and every command read without a lock;  *)
(* install and uninstall set up, step by step, what the timer needs.       *)
(* Drives fail, fall silent and are replaced; the host sleeps.             *)
(* Sources: smart/check.rs, types.rs, cache.rs, installed.rs, install.rs,  *)
(* commands/smart.rs, tui/refresh.rs (spawn_smart_reader), cli.rs.         *)
(***************************************************************************)
EXTENDS Naturals

CONSTANTS
    Drive,      \* physical disks, numbered in the order of lsblk
    CanRead,    \* whether the user can read /etc/sudoers.d/pgforge-smart
    None,
    MaxCmds,    \* bound: smart install, uninstall, check --write-cache
    MaxChanges, \* bound: changes of a drive's condition
    MaxFaults   \* bound: failing calls, deaths, sleeps of the host

ASSUME SmartAssumption ==
    /\ Drive \subseteq Nat /\ CanRead \in BOOLEAN /\ \A S \in SUBSET Drive : S # None
    /\ MaxCmds \in Nat /\ MaxChanges \in Nat /\ MaxFaults \in Nat

VARIABLES
    drive,      \* drive[d]: its condition; "gone": not in lsblk's list
    sudoers,    \* the drives the sudoers fragment grants; None: no fragment
    record,     \* smart-installed.json is there
    timer,      \* pgforge-smart.timer is enabled
    fired,      \* the timer has fired today
    cache,      \* disk-smart.json: a status and its age in days
    run,        \* run[p]: what p is doing
    shown,      \* what the footer of the dashboard says
    read,       \* the dashboard has read the cache since it or the day changed
    cmds, changes, faults,
    told,       \* told[d]: days for which any check would have found d failing
    calm,       \* days since a drive was failing
    broken      \* a step of install or uninstall failed, or they died

setup == <<sudoers, record, timer>>
ghosts == <<told, calm, broken>>
vars == <<drive, setup, fired, cache, run, shown, read, cmds, changes, faults, ghosts>>

\* mute: it does not answer within five seconds, or not with SMART data.
Condition == {"ok", "worn", "failing", "mute", "gone"}
Status == {"unknown", "ok", "warn", "critical"}

\* STALE_AFTER_HOURS = 48. Ages are counted in days and stop here.
Stale == 2
Age == 0 .. Stale
Older(a) == IF a < Stale THEN a + 1 ELSE Stale

\* The timer's service, and the terminal in which the user runs commands.
Runner == {"timer", "user"}
Checking == {"discover", "probe", "write"}
Installing == {"find", "grant", "record", "enable"}
Uninstalling == {"disable", "revoke", "forget", "clear"}

\* rec: installed.json as loaded. best: the worst verdict so far.
Run == [pc: {"idle"} \cup Checking \cup Installing \cup Uninstalling,
        rec: BOOLEAN, todo: SUBSET Drive, best: Status, age: Age]
Idle == [pc |-> "idle", rec |-> FALSE, todo |-> {}, best |-> "unknown", age |-> 0]

TypeOK ==
    /\ drive \in [Drive -> Condition]
    /\ sudoers = None \/ sudoers \subseteq Drive
    /\ record \in BOOLEAN /\ timer \in BOOLEAN /\ fired \in BOOLEAN
    /\ cache = None \/ cache \in [status: Status, age: Age]
    /\ run \in [Runner -> Run]
    /\ shown \in Status /\ read \in BOOLEAN
    /\ cmds \in 0 .. MaxCmds /\ changes \in 0 .. MaxChanges /\ faults \in 0 .. MaxFaults
    /\ told \in [Drive -> Age] /\ calm \in Age /\ broken \in BOOLEAN

Init ==
    /\ drive = [d \in Drive |-> "ok"]
    /\ sudoers = None /\ record = FALSE /\ timer = FALSE /\ fired = FALSE
    /\ cache = None
    /\ run = [p \in Runner |-> Idle]
    /\ shown = "unknown" /\ read = TRUE
    /\ cmds = 0 /\ changes = 0 /\ faults = 0
    /\ told = [d \in Drive |-> 0] /\ calm = Stale /\ broken = FALSE

At(p, l) == run[p].pc = l
Goto(p, l) == run' = [run EXCEPT ![p].pc = l]
Quit(p) == run' = [run EXCEPT ![p] = Idle]
Present == {d \in Drive : drive[d] # "gone"}

-----------------------------------------------------------------------------
(* Verdicts                                                                *)

\* SmartStatus::rank
Rank(s) == CASE s = "unknown" -> 0 [] s = "ok" -> 1 [] s = "warn" -> 2 [] s = "critical" -> 3

\* Mutant: not knowing outranks a measurement.
WorseUnknown(s, t) == IF "unknown" \in {s, t} THEN "unknown" ELSE IF Rank(s) > Rank(t) THEN s ELSE t

\* SmartHealth::aggregate, drive by drive: a measurement wins over unknown,
\* and of two measurements the worse.
Worse(s, t) == IF Rank(s) > Rank(t) THEN s ELSE t

\* run_smartctl with sudo -n, parse_smartctl_json: what one drive comes to. A SATA
\* drive whose answer has neither smart_status nor attributes is one of condition "ok".
Verdict(d) ==
    IF sudoers = None \/ d \notin sudoers THEN "unknown"
    ELSE CASE drive[d] \in {"gone", "mute"} -> "unknown"
           [] drive[d] = "ok"      -> "ok"
           [] drive[d] = "worn"    -> "warn"
           [] drive[d] = "failing" -> "critical"

\* Mutant: read_cache takes any age.
ReadCacheAnyAge == IF cache = None THEN "unknown" ELSE cache.status

\* read_cache: no file, or one that is stale, is unknown.
ReadCache == IF cache = None THEN "unknown"
             ELSE IF cache.age >= Stale THEN "unknown" ELSE cache.status

-----------------------------------------------------------------------------
(* check_all, and what becomes of its result                               *)

\* Mutant: installed.json is looked for where install does not write it.
CheckFromElsewhere(p) ==
    run' = [run EXCEPT ![p] = [Idle EXCEPT !.pc = "discover"]]

\* Begin a check: installed.json is read, then the clock.
CheckFrom(p) ==
    run' = [run EXCEPT ![p] = [Idle EXCEPT !.pc = "discover", !.rec = record]]

TimerFires ==
    /\ timer /\ ~fired /\ At("timer", "idle")
    /\ CheckFrom("timer")
    /\ fired' = TRUE
    /\ UNCHANGED <<drive, setup, cache, shown, read, cmds, changes, faults, broken>>

\* discover_disks. With none found, or never installed, all is unknown.
Discover(p) ==
    /\ At(p, "discover")
    /\ run' = [run EXCEPT ![p].todo = IF run[p].rec THEN Present ELSE {},
                          ![p].pc = IF run[p].rec /\ Present # {} THEN "probe" ELSE "write"]
    /\ UNCHANGED <<drive, setup, fired, cache, shown, read, cmds, changes, faults, broken>>

\* One drive, whatever came of the ones before it.
Probe(p) ==
    /\ At(p, "probe")
    /\ LET d == CHOOSE d \in run[p].todo : \A e \in run[p].todo : d <= e
           left == run[p].todo \ {d}
       IN  run' = [run EXCEPT ![p].best = Worse(@, Verdict(d)), ![p].todo = left,
                              ![p].pc = IF left = {} THEN "write" ELSE "probe"]
    /\ UNCHANGED <<drive, setup, fired, cache, shown, read, cmds, changes, faults, broken>>

\* Mutant: the time of the check is taken when it ends.
WriteCacheNow(p) ==
    /\ At(p, "write")
    /\ cache' = [status |-> run[p].best, age |-> 0]
    /\ read' = FALSE
    /\ Quit(p)
    /\ UNCHANGED <<drive, setup, fired, shown, cmds, changes, faults, broken>>

\* write_cache: a temporary file renamed over whatever is there.
WriteCache(p) ==
    /\ At(p, "write")
    /\ cache' = [status |-> run[p].best, age |-> run[p].age]
    /\ read' = FALSE
    /\ Quit(p)
    /\ UNCHANGED <<drive, setup, fired, shown, cmds, changes, faults, broken>>

\* The poller of the dashboard and the loop that takes its event.
ReaderTick ==
    /\ ~read
    /\ shown' = ReadCache
    /\ read' = TRUE
    /\ UNCHANGED <<drive, setup, fired, cache, run, cmds, changes, faults, broken>>

\* The line that commands print before they start.
Banner == ReadCache = "critical"

-----------------------------------------------------------------------------
(* smart install, smart uninstall, smart check --write-cache               *)

Command(l) ==
    /\ At("user", "idle") /\ cmds < MaxCmds
    /\ cmds' = cmds + 1
    /\ IF l = "discover" THEN CheckFrom("user") ELSE Goto("user", l)
    /\ UNCHANGED <<drive, setup, fired, cache, shown, read, changes, faults, broken>>

\* which smartctl, discover_disks, visudo -c on the fragment, and a look at
\* the one that is there: it carries the time it was rendered, so a fragment
\* that can be read is never the same, and without --force install gives up.
FindDrives(p) ==
    /\ At(p, "find")
    /\ \E force \in BOOLEAN :
        IF Present = {} \/ (CanRead /\ sudoers # None /\ ~force) THEN Quit(p)
        ELSE run' = [run EXCEPT ![p].pc = "grant", ![p].todo = Present]
    /\ UNCHANGED <<drive, setup, fired, cache, shown, read, cmds, changes, faults, broken>>

\* Mutant: the timer is enabled before there is anything for it to use.
GrantAndEnable(p) ==
    /\ At(p, "grant")
    /\ sudoers' = run[p].todo
    /\ timer' = TRUE
    /\ Goto(p, "record")
    /\ UNCHANGED <<drive, record, fired, cache, shown, read, cmds, changes, faults, broken>>

\* sudo install
Grant(p) ==
    /\ At(p, "grant")
    /\ sudoers' = run[p].todo
    /\ Goto(p, "record")
    /\ UNCHANGED <<drive, record, timer, fired, cache, shown, read, cmds, changes, faults, broken>>

WriteRecord(p) ==
    /\ At(p, "record")
    /\ record' = TRUE
    /\ Goto(p, "enable")
    /\ UNCHANGED <<drive, sudoers, timer, fired, cache, shown, read, cmds, changes, faults, broken>>

\* The units, daemon-reload, enable --now, and on to the first check.
EnableTimer(p) ==
    /\ At(p, "enable")
    /\ timer' = TRUE
    /\ CheckFrom(p)
    /\ broken' = FALSE
    /\ UNCHANGED <<drive, sudoers, record, fired, cache, shown, read, cmds, changes, faults>>

\* disable --now stops the timer and no service that is running.
DisableTimer(p) ==
    /\ At(p, "disable")
    /\ timer' = FALSE
    /\ Goto(p, "revoke")
    /\ UNCHANGED <<drive, sudoers, record, fired, cache, shown, read, cmds, changes, faults, broken>>

Revoke(p) ==
    /\ At(p, "revoke")
    /\ sudoers' = None
    /\ Goto(p, "forget")
    /\ UNCHANGED <<drive, record, timer, fired, cache, shown, read, cmds, changes, faults, broken>>

RemoveRecord(p) ==
    /\ At(p, "forget")
    /\ record' = FALSE
    /\ Goto(p, "clear")
    /\ UNCHANGED <<drive, sudoers, timer, fired, cache, shown, read, cmds, changes, faults, broken>>

RemoveCache(p) ==
    /\ At(p, "clear")
    /\ cache' = None
    /\ read' = FALSE
    /\ Quit(p)
    /\ UNCHANGED <<drive, setup, fired, shown, cmds, changes, faults, broken>>

-----------------------------------------------------------------------------
(* What goes wrong, and the passing of time                                *)

Fault == faults < MaxFaults /\ faults' = faults + 1

\* The call that is next fails: lsblk finds nothing, the cache is not written;
\* install gives up, uninstall goes on. A probe fails by a drive being mute.
CallFails(p) ==
    /\ Fault
    /\ \/ At(p, "discover") /\ Goto(p, "write")
       \/ run[p].pc \in {"write", "clear"} \cup Installing /\ Quit(p)
       \/ At(p, "disable") /\ Goto(p, "revoke")
       \/ At(p, "revoke") /\ Goto(p, "forget")
       \/ At(p, "forget") /\ Goto(p, "clear")
    /\ broken' = (broken \/ run[p].pc \in Installing \cup Uninstalling)
    /\ UNCHANGED <<drive, setup, fired, cache, shown, read, cmds, changes>>

Die(p) ==
    /\ Fault
    /\ ~At(p, "idle")
    /\ Quit(p)
    /\ broken' = (broken \/ run[p].pc \in Installing \cup Uninstalling)
    /\ UNCHANGED <<drive, setup, fired, cache, shown, read, cmds, changes>>

\* A drive wears, fails, falls silent, is pulled out or replaced.
Change(d) ==
    /\ changes < MaxChanges
    /\ changes' = changes + 1
    /\ \E c \in Condition \ {drive[d]} : drive' = [drive EXCEPT ![d] = c]
    /\ UNCHANGED <<setup, fired, cache, run, shown, read, cmds, faults, broken>>

\* Any check that has this condition throughout finds d failing.
Telling(d) == drive[d] = "failing" /\ record /\ sudoers # None /\ d \in sudoers
Failing == \E d \in Drive : drive[d] = "failing"

\* Everything grows older by f.
Age1(f(_)) ==
    /\ cache' = IF cache = None THEN None ELSE [cache EXCEPT !.age = f(@)]
    /\ run' = [p \in Runner |-> IF run[p].pc \in Checking
                                  THEN [run[p] EXCEPT !.age = f(@)] ELSE run[p]]
    /\ told' = [d \in Drive |-> IF Telling(d) THEN f(told[d]) ELSE 0]
    /\ calm' = IF Failing THEN 0 ELSE f(calm)
    /\ fired' = FALSE
    /\ read' = FALSE
    /\ UNCHANGED <<drive, setup, shown, cmds, changes, broken>>

\* A day passes: the timer has fired, its check, which takes seconds, is over,
\* and the dashboard, which reads every minute, has read.
Day ==
    /\ read /\ (timer => fired)
    /\ \A p \in Runner : run[p].pc \notin Checking
    /\ Age1(Older)
    /\ UNCHANGED faults

\* The host sleeps for two days, whatever is going on.
LongAgo(a) == Stale
Sleep == Fault /\ Age1(LongAgo)

-----------------------------------------------------------------------------

Checks(p) == Discover(p) \/ Probe(p) \/ WriteCache(p)
Sets(p) ==
    \/ FindDrives(p) \/ Grant(p) \/ WriteRecord(p) \/ EnableTimer(p)
    \/ DisableTimer(p) \/ Revoke(p) \/ RemoveRecord(p) \/ RemoveCache(p)

\* What happens within a day.
Act ==
    \/ TimerFires \/ ReaderTick
    \/ \E p \in Runner : Checks(p) \/ Sets(p) \/ CallFails(p) \/ Die(p)
    \/ \E l \in {"find", "disable", "discover"} : Command(l)
    \/ \E d \in Drive : Change(d)

Keep ==
    /\ told' = [d \in Drive |-> IF Telling(d)' THEN told[d] ELSE 0]
    /\ calm' = IF Failing \/ Failing' THEN 0 ELSE calm

Next == (Act /\ Keep) \/ Day \/ Sleep

\* Checks, the timer and the dashboard go on, and days pass. Nothing is
\* promised of the user, of install and uninstall, or of the drives.
Fairness ==
    /\ WF_vars(TimerFires /\ Keep) /\ WF_vars(ReaderTick /\ Keep) /\ WF_vars(Day)
    /\ \A p \in Runner : WF_vars(Checks(p) /\ Keep)

Spec == Init /\ [][Next]_vars /\ Fairness

-----------------------------------------------------------------------------
(* Properties                                                              *)

\* types.rs is_stale, check.rs lines 430-431: while the dashboard says that a
\* drive is failing, one was less than 48 hours ago.
RedIsRecent == read /\ shown = "critical" => calm < Stale

\* A drive that has been failing for 48 hours, and that checks could see, is
\* not hidden behind a better verdict, whatever the other drives and the other
\* checks do.
OkIsRecent == read /\ shown \in {"ok", "warn"} => \A d \in Drive : told[d] < Stale

\* install.rs lines 134-182, 191-203: unless one of their steps failed, the
\* timer is enabled only while there is a grant and a record for it to use.
TimerHasGrant == timer /\ ~broken => sudoers # None /\ record

\* README "SMART hardware monitoring": with the timer set up, a drive that
\* fails and keeps answering ends in a red footer and a banner, and they stay.
FailureIsReported ==
    \A d \in Drive : <>[](timer /\ Telling(d)) => <>[](shown = "critical" /\ Banner)

\* install.rs lines 92-93: "Idempotent re-runs without --force are fine".
RerunIsFine ==
    [][\A p \in Runner : At(p, "find") /\ At(p, "idle")' /\ Present # {} => broken']_vars

\* commands/smart.rs line 27: "Removed sudoers fragment, systemd-user
\* timer/service, and cache": with nothing installed and no command at work no
\* cache appears.
UninstallIsClean ==
    [][~timer /\ ~record /\ At("user", "idle") /\ cache = None => cache' = None]_vars
=============================================================================
