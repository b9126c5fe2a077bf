------------------------------ MODULE Lifecycle ------------------------------
(***************************************************************************)
(* The commands that make, rebuild and remove instances: create, clone,    *)
(* restore, rotate, resize, upgrade and destroy, each a sequence of calls  *)
(* to Docker and the file system with nothing locked in between, any of    *)
(* which may fail, and in the middle of which the process may die.         *)
(* state.toml is read and written in single steps: StateStore shows that   *)
(* it can be.                                                              *)
(* Sources: commands/create.rs, clone.rs, restore.rs, rotate.rs, resize.rs *)
(* upgrade.rs, destroy.rs, docker/cleanup.rs, docker/wait.rs, ports.rs.    *)
(***************************************************************************)
EXTENDS DockerHost

CONSTANTS
    Backups,    \* what --no-backup may be: a subset of BOOLEAN
    Presets,    \* what --preset may be: a subset of Preset
    MaxCmds,    \* bound: commands
    MaxFaults   \* bound: failing calls, deaths, stops and starts of containers

ASSUME BoundsAssumption ==
    /\ Backups \subseteq BOOLEAN /\ Presets \subseteq Preset
    /\ MaxCmds \in Nat /\ MaxFaults \in Nat

VARIABLES
    state,      \* state[n]: what state.toml says
    pc,
    job,        \* job[p]: the command p runs and what it has loaded
    cmds, faults,
    orphaned,   \* names for which a save or a cleanup call failed, or a process died
    unsaved,    \* names whose container runs although the save failed
    dropped,    \* names of which destroy has begun to remove the data
    raced,      \* names whose port was allocated while another one was underway
    late        \* names whose resize died, or failed with its container made or
                \* with only its state.toml written

local == <<pc, job>>
ghosts == <<orphaned, unsaved, dropped, raced, late>>
vars == <<hostVars, state, local, cmds, faults, ghosts>>

\* The fields of state.toml that the commands act on.
Instance == [vol: Volume, ver: Ver, port: Port \cup {None}, backup: BOOLEAN, preset: Preset]

ASSUME StateAssumption == None \notin Instance

Creating == {"create", "clone", "restore"}
Command == Creating \cup {"rotate", "resize", "upgrade", "destroy"}
Job == [cmd: Command, name: Name, src: Name, inst: Instance]
Cleanup == {"cleanContainer", "cleanVolume", "cleanConf"}

TypeOK ==
    /\ HostTypeOK
    /\ \A n \in Name : state[n] # None => state[n] \in Instance /\ state[n].port # None
    /\ pc \in [Proc -> {"idle", "check", "refused", "allocate", "conf", "repo", "create", "start",
                        "ready", "save", "presnap", "wipe", "stop", "remove", "oneshot",
                        "launch", "wait", "update", "rmVolume", "rmDir",
                        "preset", "rollback"} \cup Cleanup]
    /\ \A p \in Proc : IF pc[p] = "idle" THEN job[p] = None ELSE job[p] \in Job
    /\ cmds \in 0 .. MaxCmds /\ faults \in 0 .. MaxFaults
    /\ orphaned \subseteq Name /\ unsaved \subseteq Name /\ dropped \subseteq Name
    /\ raced \subseteq Name /\ late \subseteq Name

Init ==
    /\ HostInit
    /\ state = [n \in Name |-> None]
    /\ pc = [p \in Proc |-> "idle"]
    /\ job = [p \in Proc |-> None]
    /\ cmds = 0 /\ faults = 0
    /\ orphaned = {} /\ unsaved = {} /\ dropped = {} /\ raced = {} /\ late = {}

N(p) == job[p].name
I(p) == job[p].inst
At(p, l) == pc[p] = l
Goto(p, l) == pc' = [pc EXCEPT ![p] = l] /\ UNCHANGED job
Quit(p) == pc' = [pc EXCEPT ![p] = "idle"] /\ job' = [job EXCEPT ![p] = None]

Fault == faults < MaxFaults /\ faults' = faults + 1

\* Mutant: nothing is cleaned up.
ErrNoCleanup(p) == Quit(p)

\* Mutant: every command cleans up, rotate and upgrade too.
ErrCleansAll(p) ==
    IF pc[p] \in {"start", "ready"} THEN Goto(p, "cleanContainer") ELSE Quit(p)

\* A call returns Err: after create_container the creating commands clean up,
\* and resize sets the preset back.
Err(p) ==
    IF pc[p] \in {"start", "ready"} /\ job[p].cmd \in Creating THEN Goto(p, "cleanContainer")
    ELSE IF job[p].cmd = "resize" /\ pc[p] \notin {"preset", "rollback"} THEN Goto(p, "rollback")
    ELSE Quit(p)

-----------------------------------------------------------------------------
(* The commands begin                                                      *)

Begin(p, c, n, s, i, l) ==
    /\ pc[p] = "idle" /\ cmds < MaxCmds
    /\ cmds' = cmds + 1
    /\ pc' = [pc EXCEPT ![p] = l]
    /\ job' = [job EXCEPT ![p] = [cmd |-> c, name |-> n, src |-> s, inst |-> i]]
    /\ UNCHANGED <<hostVars, state, faults, ghosts>>

BeginCreate(p, n, b, t) ==
    /\ state[n] = None
    /\ Begin(p, "create", n, n,
             [vol |-> DataVolume(n), ver |-> 1, port |-> None, backup |-> b,
              preset |-> t], "check")

\* The new instance takes the source's version and preset, as loaded here.
BeginCopy(p, c, n, s) ==
    /\ c \in {"clone", "restore"}
    /\ state[s] # None /\ state[s].backup /\ state[n] = None
    /\ Begin(p, c, n, s, [vol |-> DataVolume(n), ver |-> state[s].ver, port |-> None,
                          backup |-> c = "clone", preset |-> state[s].preset], "check")

BeginRotate(p, n) ==
    state[n] # None /\ Begin(p, "rotate", n, n, state[n], "stop")

BeginResize(p, n) ==
    state[n] # None /\ Begin(p, "resize", n, n, state[n], "preset")

BeginUpgrade(p, n) ==
    /\ state[n] # None /\ state[n].ver = 1
    /\ Begin(p, "upgrade", n, n, state[n], IF state[n].backup THEN "presnap" ELSE "stop")

BeginDestroy(p, n, deleteBackups) ==
    /\ state[n] # None
    /\ Begin(p, "destroy", n, n, state[n],
             IF deleteBackups /\ state[n].backup THEN "wipe" ELSE "stop")

-----------------------------------------------------------------------------
(* create, clone, restore                                                  *)

\* create wants no container of that name, clone a running source; restore
\* looks at neither.
Check(p) ==
    /\ At(p, "check")
    /\ CASE job[p].cmd = "create" /\ Exists(N(p)) -> Goto(p, "refused")
         [] job[p].cmd = "clone" /\ ~Running(job[p].src) -> Quit(p)
         [] OTHER -> Goto(p, "allocate")
    /\ UNCHANGED <<hostVars, state, cmds, faults, ghosts>>

\* Err(InstanceExists)
Refused(p) ==
    /\ At(p, "refused")
    /\ Quit(p)
    /\ UNCHANGED <<hostVars, state, cmds, faults, ghosts>>

\* Mutant: the probe alone decides.
TakenNone == {}

\* The ports of other instances' state.toml.
Taken == {state[n].port : n \in {m \in Name : state[m] # None}}
Free == {q \in Port : q \notin Taken /\ ~Bound(q)}

\* Names for which another process has a port that no state.toml shows yet.
Allocating(p) ==
    {N(q) : q \in {r \in Proc \ {p} : pc[r] # "idle" /\ job[r].cmd \in Creating
                                    /\ I(r).port # None}}

AllocatePort(p) ==
    /\ At(p, "allocate")
    /\ IF Free = {} THEN Quit(p)
       ELSE \E q \in Free :
            /\ \A r \in Free : q <= r
            /\ pc' = [pc EXCEPT ![p] = "conf"]
            /\ job' = [job EXCEPT ![p].inst.port = q]
    /\ raced' = IF Allocating(p) = {} THEN raced \ {N(p)}
                ELSE raced \cup {N(p)} \cup Allocating(p)
    /\ UNCHANGED <<hostVars, state, cmds, faults, orphaned, unsaved, dropped, late>>

-----------------------------------------------------------------------------
(* Shared by all that make a container                                     *)

\* Mutant: files that are there are kept.
WriteConfOnce(p) ==
    /\ At(p, "conf")
    /\ conf' = IF conf[N(p)].preset # None THEN conf
               ELSE [conf EXCEPT ![N(p)].archive = I(p).backup, ![N(p)].preset = I(p).preset]
    /\ Goto(p, "repo")
    /\ UNCHANGED <<ctr, oneshot, vol, stanza, fed, born, state, cmds, faults, ghosts>>

\* postgresql.conf (and pg_hba.conf), overwritten in place.
WriteConf(p) ==
    /\ At(p, "conf")
    /\ conf' = [conf EXCEPT ![N(p)].archive = I(p).backup, ![N(p)].preset = I(p).preset]
    /\ Goto(p, "repo")
    /\ UNCHANGED <<ctr, oneshot, vol, stanza, fed, born, state, cmds, faults, ghosts>>

\* Mutant: every copy uses its source's repository.
WriteRepoOfSource(p) ==
    /\ At(p, "repo")
    /\ conf' = IF I(p).backup \/ job[p].cmd = "restore"
                 THEN [conf EXCEPT ![N(p)].repo = job[p].src] ELSE conf
    /\ Goto(p, "create")
    /\ UNCHANGED <<ctr, oneshot, vol, stanza, fed, born, state, cmds, faults, ghosts>>

\* pgbackrest.conf: a restore reads the source's repository, everything else
\* has its own. rotate and upgrade write none for a restored instance. The file that
\* create also writes for --no-backup where S3 is set up is left out: no container
\* of such an instance mounts it.
WriteRepo(p) ==
    /\ At(p, "repo")
    /\ conf' = IF I(p).backup \/ job[p].cmd = "restore"
                 THEN [conf EXCEPT ![N(p)].repo =
                         IF job[p].cmd = "restore" THEN job[p].src ELSE N(p)]
                 ELSE conf
    /\ Goto(p, "create")
    /\ UNCHANGED <<ctr, oneshot, vol, stanza, fed, born, state, cmds, faults, ghosts>>

\* build_image, ensure_network, create_container. Err if the name is in use.
CreateContainer(p) ==
    /\ At(p, "create")
    /\ IF Exists(N(p)) THEN Err(p) /\ UNCHANGED <<ctr, vol>>
       ELSE /\ ctr' = [ctr EXCEPT ![N(p)] =
                 [by |-> p, src |-> job[p].src, vol |-> I(p).vol, ver |-> I(p).ver,
                  kind |-> IF job[p].cmd \in {"clone", "restore"} THEN job[p].cmd ELSE "regular",
                  port |-> I(p).port, st |-> "created", mem |-> I(p).preset,
                  archive |-> FALSE, repo |-> None, tuned |-> None,
                  mounts |-> I(p).backup \/ job[p].cmd = "restore"]]
            /\ vol' = WithVolumes({I(p).vol})
            /\ Goto(p, "start")
    /\ UNCHANGED <<conf, oneshot, stanza, fed, born, state, cmds, faults, ghosts>>

\* Calls by id: the container p created is still there.
Mine(p) == Exists(N(p)) /\ ctr[N(p)].by = p

Start(p) ==
    /\ At(p, "start")
    /\ IF Mine(p) /\ Startable(N(p)) THEN StartContainer(N(p)) /\ Goto(p, "ready")
                                     ELSE Err(p) /\ UNCHANGED ctr
    /\ UNCHANGED <<conf, oneshot, vol, stanza, fed, born, state, cmds, faults, ghosts>>

\* Mutant: the exit code of stanza-create is not looked at.
ReadyAnyStanza(p) ==
    /\ At(p, "ready") /\ Mine(p) /\ Up(N(p))
    /\ LET c == vol[ctr[N(p)].vol]
           r == ctr[N(p)].repo
       IN  CASE job[p].cmd \notin Creating -> Quit(p) /\ UNCHANGED stanza
             [] job[p].cmd \in Creating /\ ~I(p).backup -> Goto(p, "save") /\ UNCHANGED stanza
             [] OTHER ->
                  /\ IF r # None /\ stanza[r] = None
                     THEN stanza' = [stanza EXCEPT ![r] = [sys |-> c.sys, ver |-> c.ver]]
                     ELSE UNCHANGED stanza
                  /\ Goto(p, "save")
    /\ UNCHANGED <<conf, ctr, oneshot, vol, fed, born, state, cmds, faults, ghosts>>

\* wait_for_pg_ready, wait_for_recovery_end, and for create and clone
\* `pgbackrest stanza-create`, which accepts a stanza of the same cluster.
Ready(p) ==
    /\ At(p, "ready") /\ Mine(p) /\ Up(N(p))
    /\ LET c == vol[ctr[N(p)].vol]
           r == ctr[N(p)].repo
       IN  CASE job[p].cmd \notin Creating -> Quit(p) /\ UNCHANGED stanza
             [] job[p].cmd \in Creating /\ ~I(p).backup -> Goto(p, "save") /\ UNCHANGED stanza
             [] OTHER ->
                  IF r # None /\ (stanza[r] = None \/ Matches(r, c))
                  THEN /\ stanza' = [stanza EXCEPT ![r] = [sys |-> c.sys, ver |-> c.ver]]
                       /\ Goto(p, "save")
                  ELSE Err(p) /\ UNCHANGED stanza
    /\ UNCHANGED <<conf, ctr, oneshot, vol, fed, born, state, cmds, faults, ghosts>>

\* A deadline passes, or the container is gone.
NotReady(p) ==
    /\ At(p, "ready") /\ ~(Mine(p) /\ Up(N(p)))
    /\ Err(p)
    /\ UNCHANGED <<hostVars, state, cmds, faults, ghosts>>

\* save_under_locked: whatever state.toml was there is replaced.
Save(p) ==
    /\ At(p, "save")
    /\ state' = [state EXCEPT ![N(p)] = I(p)]
    /\ dropped' = dropped \ {N(p)}
    /\ Quit(p)
    /\ UNCHANGED <<hostVars, cmds, faults, orphaned, unsaved, raced, late>>

-----------------------------------------------------------------------------
(* cleanup_partial: three independent calls, by name                       *)

CleanContainer(p) ==
    /\ At(p, "cleanContainer")
    /\ ctr' = [ctr EXCEPT ![N(p)] = None]
    /\ Goto(p, "cleanVolume")
    /\ UNCHANGED <<conf, oneshot, vol, stanza, fed, born, state, cmds, faults, ghosts>>

CleanVolume(p) ==
    /\ At(p, "cleanVolume")
    /\ vol' = IF InUse(I(p).vol) THEN vol ELSE [vol EXCEPT ![I(p).vol] = None]
    /\ Goto(p, "cleanConf")
    /\ UNCHANGED <<conf, ctr, oneshot, stanza, fed, born, state, cmds, faults, ghosts>>

CleanConf(p) ==
    /\ At(p, "cleanConf")
    /\ conf' = [conf EXCEPT ![N(p)] = NoConf]
    /\ Quit(p)
    /\ UNCHANGED <<ctr, oneshot, vol, stanza, fed, born, state, cmds, faults, ghosts>>

-----------------------------------------------------------------------------
(* rotate, upgrade, destroy                                                *)

Stop(p) ==
    /\ At(p, "stop")
    /\ IF Running(N(p)) THEN StopContainer(N(p)) ELSE UNCHANGED ctr
    /\ Goto(p, "remove")
    /\ UNCHANGED <<conf, oneshot, vol, stanza, fed, born, state, cmds, faults, ghosts>>

\* The container goes; the volume stays.
Remove(p) ==
    /\ At(p, "remove")
    /\ ctr' = [ctr EXCEPT ![N(p)] = None]
    /\ late' = late \ {N(p)}
    /\ Goto(p, CASE job[p].cmd \in {"rotate", "resize"} -> "conf"
                 [] job[p].cmd = "upgrade" -> "oneshot"
                 [] job[p].cmd = "destroy" -> "rmVolume")
    /\ UNCHANGED <<conf, oneshot, vol, stanza, fed, born, state, cmds, faults,
                   orphaned, unsaved, dropped, raced>>

\* The snapshot before an upgrade needs a running container and a stanza of
\* its cluster.
PreSnapshot(p) ==
    /\ At(p, "presnap")
    /\ IF /\ Up(N(p)) /\ ctr[N(p)].repo # None
          /\ Matches(ctr[N(p)].repo, vol[ctr[N(p)].vol])
         THEN Goto(p, "stop") ELSE Quit(p)
    /\ UNCHANGED <<hostVars, state, cmds, faults, ghosts>>

\* The upgrade container, with both volumes.
CreateOneshot(p) ==
    /\ At(p, "oneshot")
    /\ IF oneshot[N(p)] # None THEN Quit(p) /\ UNCHANGED <<oneshot, vol>>
       ELSE /\ oneshot' = [oneshot EXCEPT ![N(p)] = "created"]
            /\ vol' = WithVolumes({I(p).vol, NewVolume(N(p))})
            /\ Goto(p, "launch")
    /\ UNCHANGED <<conf, ctr, stanza, fed, born, state, cmds, faults, ghosts>>

LaunchOneshot(p) ==
    /\ At(p, "launch")
    /\ oneshot' = [oneshot EXCEPT ![N(p)] = "running"]
    /\ Goto(p, "wait")
    /\ UNCHANGED <<conf, ctr, vol, stanza, fed, born, state, cmds, faults, ghosts>>

\* Mutant: the exit code is not looked at.
OneshotExitsAny(p) ==
    /\ At(p, "wait") /\ oneshot[N(p)] \in {"ok", "failed"}
    /\ oneshot' = [oneshot EXCEPT ![N(p)] = None]
    /\ Goto(p, "update")
    /\ UNCHANGED <<conf, ctr, vol, stanza, fed, born, state, cmds, faults, ghosts>>

\* It exits, and is removed; with a failure the new volume goes too. The errors of
\* these calls are dropped, and a volume that a container mounts stays.
OneshotExits(p) ==
    LET removed == [oneshot EXCEPT ![N(p)] = None]
        ok == oneshot[N(p)] = "ok"
    IN  /\ At(p, "wait") /\ oneshot[N(p)] \in {"ok", "failed"}
        /\ \/ /\ oneshot' = removed /\ UNCHANGED faults
              /\ vol' = IF ok THEN vol ELSE [vol EXCEPT ![NewVolume(N(p))] = None]
           \/ Fault /\ oneshot' \in {oneshot, removed} /\ UNCHANGED vol
        /\ IF ok THEN Goto(p, "update") ELSE Quit(p)
        /\ UNCHANGED <<conf, ctr, stanza, fed, born, state, cmds, ghosts>>

\* Mutant: the container is recreated from the state loaded at the start.
UpdateStateStale(p) ==
    /\ At(p, "update")
    /\ IF state[N(p)] = None THEN Quit(p) /\ UNCHANGED state
       ELSE /\ state' = [state EXCEPT ![N(p)].ver = 2, ![N(p)].vol = NewVolume(N(p))]
            /\ Goto(p, "conf")
    /\ UNCHANGED <<hostVars, cmds, faults, ghosts>>

\* update_under: the new version and the new volume, on the state as it is now.
UpdateState(p) ==
    /\ At(p, "update")
    /\ IF state[N(p)] = None THEN Quit(p) /\ UNCHANGED state
       ELSE LET i == [state[N(p)] EXCEPT !.ver = 2, !.vol = NewVolume(N(p))] IN
            /\ state' = [state EXCEPT ![N(p)] = i]
            /\ pc' = [pc EXCEPT ![p] = "conf"]
            /\ job' = [job EXCEPT ![p].inst = i]
    /\ UNCHANGED <<hostVars, cmds, faults, ghosts>>

\* `pgbackrest stop && pgbackrest stanza-delete --force` in the container.
DeleteStanza(p) ==
    /\ At(p, "wipe")
    /\ IF Up(N(p)) /\ ctr[N(p)].repo # None
         THEN /\ stanza' = [stanza EXCEPT ![ctr[N(p)].repo] = None]
              /\ fed' = [fed EXCEPT ![ctr[N(p)].repo] = {}]
              /\ Goto(p, "stop")
         ELSE Quit(p) /\ UNCHANGED <<stanza, fed>>
    /\ UNCHANGED <<conf, ctr, oneshot, vol, born, state, cmds, faults, ghosts>>

\* The one volume that state.toml named.
RemoveVolume(p) ==
    /\ At(p, "rmVolume")
    /\ IF InUse(I(p).vol) THEN Quit(p) /\ UNCHANGED <<vol, dropped>>
       ELSE /\ vol' = [vol EXCEPT ![I(p).vol] = None]
            /\ dropped' = dropped \cup {N(p)}
            /\ Goto(p, "rmDir")
    /\ UNCHANGED <<conf, ctr, oneshot, stanza, fed, born, state, cmds, faults,
                   orphaned, unsaved, raced, late>>

RemoveDir(p) ==
    /\ At(p, "rmDir")
    /\ state' = [state EXCEPT ![N(p)] = None]
    /\ conf' = [conf EXCEPT ![N(p)] = NoConf]
    /\ Quit(p)
    /\ UNCHANGED <<ctr, oneshot, vol, stanza, fed, born, cmds, faults, ghosts>>

-----------------------------------------------------------------------------
(* resize: the new preset, rotate, and on its failure the old preset        *)

Other(m) == CHOOSE o \in Preset : o # m

\* update_under, and then rotate loads what it has written.
SetPreset(p) ==
    /\ At(p, "preset")
    /\ IF state[N(p)] = None THEN Quit(p) /\ UNCHANGED state
       ELSE LET i == [state[N(p)] EXCEPT !.preset = Other(I(p).preset)] IN
            /\ state' = [state EXCEPT ![N(p)] = i]
            /\ pc' = [pc EXCEPT ![p] = "stop"]
            /\ job' = [job EXCEPT ![p].inst = i]
    /\ UNCHANGED <<hostVars, cmds, faults, ghosts>>

\* Mutant: the new preset stays.
RollBackNothing(p) ==
    /\ At(p, "rollback")
    /\ Quit(p)
    /\ late' = IF Mine(p) THEN late \cup {N(p)} ELSE late
    /\ UNCHANGED <<hostVars, state, cmds, faults, orphaned, unsaved, dropped, raced>>

\* Whatever rotate had done by then.
RollBack(p) ==
    /\ At(p, "rollback")
    /\ state' = IF state[N(p)] = None THEN state
                ELSE [state EXCEPT ![N(p)].preset = Other(I(p).preset)]
    /\ Quit(p)
    /\ late' = IF Mine(p) THEN late \cup {N(p)} ELSE late
    /\ UNCHANGED <<hostVars, cmds, faults, orphaned, unsaved, dropped, raced>>

-----------------------------------------------------------------------------
(* Failures                                                                *)

\* The call that is next returns Err and has done nothing; the calls of a cleanup
\* are independent.
CallFails(p) ==
    /\ pc[p] \notin {"idle", "refused"}
    /\ Fault
    /\ CASE pc[p] = "cleanContainer" -> Goto(p, "cleanVolume")
         [] pc[p] = "cleanVolume"    -> Goto(p, "cleanConf")
         [] OTHER                    -> Err(p)
    /\ orphaned' = IF pc[p] \in Cleanup \cup {"save"} THEN orphaned \cup {N(p)} ELSE orphaned
    /\ unsaved' = IF pc[p] = "save" THEN unsaved \cup {N(p)} ELSE unsaved
    /\ late' = IF pc[p] = "rollback" THEN late \cup {N(p)} ELSE late
    /\ UNCHANGED <<hostVars, state, cmds, dropped, raced>>

\* Of save_under_locked and update_under the flush of the directory fails, after the
\* rename: Err, with the new state.toml in place. resize sets nothing back then.
SaveUnsynced(p) ==
    /\ pc[p] \in {"save", "update", "preset"} /\ Fault /\ Quit(p)
    /\ pc[p] # "save" => state[N(p)] # None
    /\ state' = [state EXCEPT ![N(p)] =
                    CASE pc[p] = "save"   -> I(p)
                      [] pc[p] = "update" -> [@ EXCEPT !.ver = 2, !.vol = NewVolume(N(p))]
                      [] pc[p] = "preset" -> [@ EXCEPT !.preset = Other(I(p).preset)]]
    /\ dropped' = IF pc[p] = "save" THEN dropped \ {N(p)} ELSE dropped
    /\ late' = IF pc[p] = "preset" THEN late \cup {N(p)} ELSE late
    /\ UNCHANGED <<hostVars, cmds, orphaned, unsaved, raced>>

Die(p) ==
    /\ pc[p] # "idle"
    /\ Fault
    /\ Quit(p)
    /\ orphaned' = orphaned \cup {N(p)}
    /\ late' = IF job[p].cmd = "resize" THEN late \cup {N(p)} ELSE late
    /\ UNCHANGED <<hostVars, state, cmds, unsaved, dropped, raced>>

Disturb(n) ==
    /\ Fault
    /\ GoDown(n) \/ ComeBack(n)
    /\ UNCHANGED <<state, local, cmds, ghosts>>

Host(n) ==
    /\ Boot(n) \/ ArchivePush(n) \/ RunUpgrade(n)
    /\ UNCHANGED <<state, local, cmds, faults, ghosts>>

Step(p) ==
    \/ Check(p) \/ Refused(p) \/ AllocatePort(p) \/ WriteConf(p) \/ WriteRepo(p)
    \/ CreateContainer(p) \/ Start(p) \/ Ready(p) \/ NotReady(p) \/ Save(p)
    \/ CleanContainer(p) \/ CleanVolume(p) \/ CleanConf(p)
    \/ Stop(p) \/ Remove(p) \/ PreSnapshot(p)
    \/ CreateOneshot(p) \/ LaunchOneshot(p) \/ OneshotExits(p) \/ UpdateState(p)
    \/ DeleteStanza(p) \/ RemoveVolume(p) \/ RemoveDir(p)
    \/ SetPreset(p) \/ RollBack(p)
    \/ CallFails(p) \/ SaveUnsynced(p) \/ Die(p)

Invoke(p) ==
    \E n \in Name :
        \/ \E b \in Backups, t \in Presets : BeginCreate(p, n, b, t)
        \/ \E s \in Name, c \in {"clone", "restore"} : BeginCopy(p, c, n, s)
        \/ BeginRotate(p, n) \/ BeginResize(p, n) \/ BeginUpgrade(p, n)
        \/ \E w \in BOOLEAN : BeginDestroy(p, n, w)

Next ==
    \/ \E p \in Proc : Invoke(p) \/ Step(p)
    \/ \E n \in Name : Host(n) \/ Disturb(n)

Spec == Init /\ [][Next]_vars

\* No two commands at work on one name.
Apart == \A p, q \in Proc : p # q /\ pc[p] # "idle" /\ pc[q] # "idle" => N(p) # N(q)
ApartSpec == Init /\ [][Next /\ Apart']_vars

-----------------------------------------------------------------------------
(* Properties                                                              *)

Busy(n) == \E p \in Proc : pc[p] # "idle" /\ N(p) = n

\* rotate.rs, upgrade.rs, resize.rs: between commands the container of a saved
\* instance is the one its state.toml describes: volume, version, port and
\* preset; the preset unless a resize died, failed after it had made the container
\* anew, or failed in the flush of its own save (resize.rs lines 47-50).
AgreesWithState ==
    \A n \in Name : state[n] # None /\ Exists(n) /\ ~Busy(n) =>
        /\ ctr[n].vol = state[n].vol /\ ctr[n].ver = state[n].ver
        /\ ctr[n].port = state[n].port
        /\ n \in late \/ ctr[n].mem = state[n].preset

\* What a failed or killed creation left of n; clone and restore write their
\* files over the ones it mounts before they find that it is there.
Astray(n) == state[n] = None /\ n \in orphaned

\* domain/preset.rs: postgres is never started with buffers that are sized for
\* another memory limit than its container's.
FitsMemory == \A n \in Name : Running(n) => ctr[n].tuned = ctr[n].mem \/ Astray(n)

\* What `pgforge ls` and a client see of each instance, whatever the commands
\* are in the middle of.
Summary(i) == [ver |-> i.ver, port |-> i.port, backup |-> i.backup, preset |-> i.preset]
Listing == [n \in Name |-> IF state[n] = None THEN None ELSE Summary(state[n])]
Holds ==
    [n \in Name |-> IF state[n] # None /\ HasCluster(state[n].vol) THEN vol[state[n].vol].data
                    ELSE None]
Abstract == INSTANCE Instances WITH inst <- Listing, data <- Holds

ASSUME SummaryAssumption == None \notin Abstract!Instance

\* Whatever fails and wherever a process dies, an instance keeps its data, its
\* port and its backups until destroy erases them: upgrade.rs and rotate.rs
\* touch no row, and restore_entrypoint.rs and clone_entrypoint.rs fill a volume
\* once.
InstancesKept == Abstract!Spec

\* resize.rs lines 59-60: "so state.toml doesn't claim a preset the container
\* never actually applied".
ResizeAgrees ==
    \A n \in Name : state[n] # None /\ Exists(n) /\ ~Busy(n) => ctr[n].mem = state[n].preset

\* upgrade.rs lines 186-201, rotate.rs: whatever fails and wherever a process
\* dies, the volume that state.toml names holds a cluster of the version it
\* names, so that a rotate brings the instance back; only destroy ends that.
Rotatable ==
    \A n \in Name : state[n] # None /\ n \notin dropped =>
        HasCluster(state[n].vol) /\ vol[state[n].vol].ver = state[n].ver

\* docker/cleanup.rs: a container without a state.toml is one whose save or
\* cleanup failed, or whose command died.
NoOrphan ==
    \A n \in Name : state[n] = None /\ Exists(n) /\ ~Busy(n) => n \in orphaned

\* ports.rs: two saved instances have the same port only if both allocated it
\* at once.
PortsUnique ==
    \A n, m \in Name : n # m /\ state[n] # None /\ state[m] # None =>
        state[n].port # state[m].port \/ {n, m} \subseteq raced

\* ports.rs lines 1-8: no two saved instances have the same port.
PortsNeverShared ==
    \A n, m \in Name : n # m /\ state[n] # None /\ state[m] # None =>
        state[n].port # state[m].port

\* The files that a saved instance's container mounts are there.
ConfsKept ==
    \A n \in Name : state[n] # None /\ Exists(n) /\ ~Busy(n) =>
        conf[n].archive # None /\ (ctr[n].mounts => conf[n].repo # None)

\* restore.rs lines 98-101: WAL goes into an instance's own repository only.
WalStaysHome ==
    \A n \in Name : Up(n) /\ ctr[n].archive /\ ctr[n].repo # None =>
        ctr[n].repo = n \/ Astray(n)

\* create.rs lines 308-346, clone.rs lines 287-301: whichever instances had that
\* name before, whatever was wiped and whatever failed, the stanza of an instance
\* takes the backups of its cluster, until an upgrade moves it to a new one.
StanzaFits ==
    \A n \in Name :
        /\ state[n] # None /\ state[n].backup /\ state[n].vol = DataVolume(n)
        /\ n \notin dropped /\ stanza[n] # None
        => Matches(n, vol[DataVolume(n)])

\* clone.rs lines 283-286: a stanza never holds the WAL of two histories.
OneHistory == \A n \in Name : Cardinality(fed[n]) <= 1

\* create.rs lines 260-268, after a failed save: "rerun once the filesystem is
\* healthy".
RerunWorks == \A p \in Proc : At(p, "refused") => N(p) \notin unsaved

\* README "Upgrade": "so you can roll back with `pgforge restore`".
RollbackBoots ==
    \A n \in Name : Running(n) /\ ctr[n].kind = "restore" /\ ctr[n].repo # None
                    /\ stanza[ctr[n].repo] # None
        => stanza[ctr[n].repo].ver = ctr[n].ver

\* upgrade_entrypoint.rs lines 29-30: "Old PGDATA must NOT be in-use".
OldVolumeUnused ==
    \A n \in Name : oneshot[n] = "running" =>
        \A m \in Name : Running(m) => ctr[m].vol # DataVolume(n)

\* README: "pgforge creates the postgres roles with whatever you supply": the
\* cluster a create starts on is one it makes.
CreateStartsEmpty ==
    \A p \in Proc : At(p, "create") /\ job[p].cmd = "create" => ~HasCluster(I(p).vol)

\* README: "every instance is then backed up daily at its configured hour": a
\* backup-enabled instance at rest has a stanza that takes its backups.
CanBackUp ==
    \A n \in Name : state[n] # None /\ state[n].backup /\ Up(n) /\ ~Busy(n) =>
        Matches(n, vol[ctr[n].vol])
=============================================================================
