---------------------------- MODULE LifecycleProofs ----------------------------
(***************************************************************************)
(* Proofs about Lifecycle, for any names, ports, processes, commands and   *)
(* faults, as long as no two commands work on one name (ApartSpec).        *)
(* Held(n) is what is always true of an instance, Rest(n) what is true of  *)
(* it between commands, and Task(p) what the command of p relies on. What  *)
(* the documents promise and Lifecycle breaks is proved where it does      *)
(* hold, of specifications that leave out what breaks it: OneMakerSpec,    *)
(* PatientSpec, PlainSpec, KeepSpec and FreshSpec.                         *)
(***************************************************************************)
EXTENDS Lifecycle, FiniteSetTheorems, TLAPS

-----------------------------------------------------------------------------
(* The invariant                                                           *)

IsCluster(v, k) == vol[v] \in Cluster /\ vol[v].ver = k

HostTypes(n) ==
    /\ conf[n] \in [archive: {None} \cup BOOLEAN, preset: {None} \cup Preset,
                    repo: {None} \cup Name]
    /\ ctr[n] # None => ctr[n] \in Container
    /\ oneshot[n] \in {None, "created", "running", "ok", "failed"}
    /\ vol[DataVolume(n)] \in Cluster \cup {None, Empty, Junk}
    /\ vol[NewVolume(n)] \in Cluster \cup {None, Empty, Junk}

\* state.toml: a port, and the volume that goes with the version.
Saved(n) ==
    state[n] # None =>
        /\ state[n] \in Instance /\ state[n].port # None
        /\ state[n].vol \in {DataVolume(n), NewVolume(n)}
        /\ state[n].ver = 1 => state[n].vol = DataVolume(n)
        /\ n \notin dropped => IsCluster(state[n].vol, state[n].ver)

\* The container: its volume, and its agreement with state.toml.
Made(n) ==
    Exists(n) =>
        /\ ctr[n].vol \in {DataVolume(n), NewVolume(n)}
        /\ ctr[n].vol = NewVolume(n) => ctr[n].ver = 2
        /\ Up(n) => IsCluster(ctr[n].vol, ctr[n].ver)
        /\ state[n] # None =>
             ctr[n].vol = state[n].vol /\ ctr[n].ver = state[n].ver /\ ctr[n].port = state[n].port

\* The container's files, unless it is a stray one's.
Fits(n) ==
    /\ conf[n].preset \in {None, ctr[n].mem}
    /\ Running(n) => ctr[n].tuned = ctr[n].mem
    /\ conf[n].archive = TRUE /\ ctr[n].mounts => conf[n].repo \in {None, n}
    /\ ctr[n].archive = TRUE => ctr[n].repo \in {None, n}
Filed(n) == conf[n].archive # None /\ (ctr[n].mounts => conf[n].repo # None)
Files(n) ==
    /\ conf[n].archive = None <=> conf[n].preset = None
    /\ Exists(n) => Astray(n) \/ Fits(n)
    /\ Exists(n) /\ state[n] # None => Filed(n)

Upgraded(n) == oneshot[n] = "ok" => IsCluster(NewVolume(n), 2)

Held(n) == HostTypes(n) /\ Saved(n) /\ Made(n) /\ Files(n) /\ Upgraded(n)

Rest(n) ==
    Exists(n) => IF state[n] = None THEN n \in orphaned
                 ELSE n \in late \/ ctr[n].mem = state[n].preset

\* Which call may be next in which command.
Building == {"conf", "repo", "create", "start", "ready"}
Control(p) ==
    \/ job[p].cmd \in Creating
       /\ pc[p] \in {"check", "refused", "allocate", "save"} \cup Building \cup Cleanup
    \/ job[p].cmd = "rotate" /\ pc[p] \in {"stop", "remove"} \cup Building
    \/ job[p].cmd = "resize"
       /\ pc[p] \in {"preset", "stop", "remove", "rollback"} \cup Building
    \/ job[p].cmd = "upgrade"
       /\ pc[p] \in {"presnap", "stop", "remove", "oneshot", "launch", "wait", "update"}
                    \cup Building
    \/ job[p].cmd = "destroy" /\ pc[p] \in {"wipe", "stop", "remove", "rmVolume", "rmDir"}

\* A creating command has no state.toml yet; a container it did not make is a
\* stray one.
Creates(p) ==
    job[p].cmd \in Creating =>
        /\ state[N(p)] = None /\ I(p).vol = DataVolume(N(p))
        /\ job[p].cmd = "restore" => ~I(p).backup
        /\ pc[p] \notin {"check", "refused", "allocate"} => I(p).port # None
        /\ pc[p] \notin {"start", "ready", "save", "cleanContainer"} /\ Exists(N(p)) =>
             N(p) \in orphaned

\* The others work on the state that is saved, and remove the container first.
Changes(p) ==
    job[p].cmd \notin Creating =>
        /\ state[N(p)] # None /\ state[N(p)] = I(p)
        /\ pc[p] \in {"conf", "repo", "create", "oneshot", "launch", "wait", "update",
                      "rmVolume", "rmDir"} => ~Exists(N(p))
        /\ job[p].cmd = "upgrade" /\ pc[p] \notin Building => I(p).ver = 1
        /\ pc[p] = "update" => IsCluster(NewVolume(N(p)), 2)

\* What the container's memory limit is when a command stops half-way.
Sizes(p) ==
    job[p].cmd \notin Creating /\ Exists(N(p)) =>
        \/ N(p) \in late
        \/ pc[p] = "rollback" /\ ctr[N(p)].by = p
        \/ ctr[N(p)].mem = IF job[p].cmd = "resize" /\ pc[p] \in {"stop", "remove", "rollback"}
                             THEN Other(I(p).preset) ELSE I(p).preset

\* The files are written before the container is made from them.
Builds(p) ==
    /\ pc[p] \in {"repo", "create", "start", "ready", "save"} =>
         conf[N(p)].archive = I(p).backup /\ conf[N(p)].preset = I(p).preset
    /\ pc[p] \in {"create", "start", "ready", "save"} /\ (I(p).backup \/ job[p].cmd = "restore") =>
         conf[N(p)].repo # None /\ (I(p).backup => conf[N(p)].repo = N(p))
    /\ pc[p] \in {"start", "ready", "save"} =>
         /\ Mine(p) /\ Fits(N(p)) /\ Filed(N(p))
         /\ ctr[N(p)].vol = I(p).vol /\ ctr[N(p)].ver = I(p).ver
         /\ ctr[N(p)].port = I(p).port /\ ctr[N(p)].mem = I(p).preset
    /\ pc[p] = "save" => IsCluster(I(p).vol, I(p).ver)

Task(p) ==
    /\ job[p] \in Job
    /\ Control(p) /\ Creates(p) /\ Changes(p) /\ Sizes(p) /\ Builds(p)

\* What is a function of what, and the rest of TypeOK.
Shape ==
    /\ DOMAIN state = Name /\ DOMAIN conf = Name /\ DOMAIN ctr = Name /\ DOMAIN oneshot = Name
    /\ DOMAIN vol = Volume /\ DOMAIN stanza = Name
    /\ DOMAIN pc = Proc /\ DOMAIN job = Proc
    /\ \A p \in Proc : pc[p] = "idle" => job[p] = None

Counts ==
    /\ \A n \in Name : stanza[n] = None \/ stanza[n] \in [sys: 1 .. MaxCluster, ver: Ver]
    /\ fed \in [Name -> SUBSET (1 .. MaxCluster)]
    /\ born \in 0 .. MaxCluster /\ cmds \in 0 .. MaxCmds /\ faults \in 0 .. MaxFaults
    /\ orphaned \subseteq Name /\ unsaved \subseteq Name /\ dropped \subseteq Name
    /\ raced \subseteq Name /\ late \subseteq Name

IInv ==
    /\ Shape /\ Counts /\ Apart
    /\ \A n \in Name : Held(n)
    /\ \A n \in Name : ~Busy(n) => Rest(n)
    /\ \A p \in Proc : pc[p] # "idle" => Task(p)

-----------------------------------------------------------------------------
(* A step touches one instance                                             *)

LEMMA Volumes ==
    ASSUME NEW n \in Name
    PROVE  /\ DataVolume(n) \in Volume /\ NewVolume(n) \in Volume
           /\ DataVolume(n) # NewVolume(n)
           /\ \A m : m # n => {DataVolume(m), NewVolume(m)} \cap {DataVolume(n), NewVolume(n)} = {}
BY DEF Volume, DataVolume, NewVolume

LEMMA Others ==
    ASSUME NEW t \in Preset
    PROVE  Other(t) \in Preset /\ Other(t) # t /\ Other(Other(t)) = t
<1>1. \E o \in Preset : o # t
  BY DEF Preset
<1>2. \A u \in Preset : (\E o \in Preset : o # u) => Other(u) \in Preset /\ Other(u) # u
  BY DEF Other
<1>3. Other(t) \in Preset /\ Other(t) # t
  BY <1>1, <1>2
<1> QED
  BY <1>2, <1>3 DEF Preset

\* What is not n's stays as it is.
Only(n) ==
    \A m \in Name : m # n =>
        /\ state'[m] = state[m] /\ conf'[m] = conf[m] /\ ctr'[m] = ctr[m]
        /\ oneshot'[m] = oneshot[m]
        /\ vol'[DataVolume(m)] = vol[DataVolume(m)]
        /\ vol'[NewVolume(m)] = vol[NewVolume(m)]
        /\ m \in orphaned' <=> m \in orphaned
        /\ m \in dropped' <=> m \in dropped
        /\ m \in late' <=> m \in late

LEMMA FrameHeld ==
    ASSUME NEW n, Only(n), NEW m \in Name, m # n, Held(m)
    PROVE  Held(m)' /\ (Rest(m) => Rest(m)')
<1>1. /\ state'[m] = state[m] /\ conf'[m] = conf[m] /\ ctr'[m] = ctr[m]
      /\ oneshot'[m] = oneshot[m]
      /\ vol'[DataVolume(m)] = vol[DataVolume(m)]
      /\ vol'[NewVolume(m)] = vol[NewVolume(m)]
      /\ m \in orphaned' <=> m \in orphaned
      /\ m \in dropped' <=> m \in dropped
      /\ m \in late' <=> m \in late
  BY DEF Only
<1>2. HostTypes(m)'
  BY <1>1 DEF Held, HostTypes
<1>3. Saved(m)'
  BY <1>1 DEF Held, Saved, IsCluster
<1>4. Made(m)'
  BY <1>1 DEF Held, Made, IsCluster, Exists, Up
<1>5. Files(m)'
  BY <1>1 DEF Held, Files, Exists, Astray, Fits, Filed, Running
<1>6. Upgraded(m)'
  BY <1>1 DEF Held, Upgraded, IsCluster
<1>7. Rest(m) => Rest(m)'
  BY <1>1 DEF Rest, Exists
<1> QED
  BY <1>2, <1>3, <1>4, <1>5, <1>6, <1>7 DEF Held

LEMMA FrameTask ==
    ASSUME NEW n, Only(n), NEW p \in Proc, N(p) # n, Task(p), Held(N(p)),
           pc'[p] = pc[p], job'[p] = job[p]
    PROVE  Task(p)'
<1> DEFINE m == N(p)
<1>1. m \in Name /\ N(p)' = m /\ I(p)' = I(p)
  BY DEF Task, Job, N, I
<1>2. /\ state'[m] = state[m] /\ conf'[m] = conf[m] /\ ctr'[m] = ctr[m]
      /\ vol'[DataVolume(m)] = vol[DataVolume(m)]
      /\ vol'[NewVolume(m)] = vol[NewVolume(m)]
      /\ m \in orphaned' <=> m \in orphaned
      /\ m \in late' <=> m \in late
  BY <1>1 DEF Only
<1> HIDE DEF m
<1>3. Control(p)' /\ job'[p] \in Job
  BY DEF Task, Control
<1>4. Creates(p)'
  BY <1>1, <1>2 DEF Task, Creates, Exists, m
<1>5. Changes(p)'
  BY <1>1, <1>2 DEF Task, Changes, Exists, IsCluster, m
<1>6. Sizes(p)'
  BY <1>1, <1>2 DEF Task, Sizes, Exists, m
<1>7. I(p).vol \in {DataVolume(m), NewVolume(m)}
  BY DEF Held, Saved, Task, Creates, Changes, m
<1>8. Builds(p)'
  BY <1>1, <1>2, <1>7 DEF Task, Builds, Mine, Fits, Filed, Exists, Running, IsCluster, m
<1> QED
  BY <1>3, <1>4, <1>5, <1>6, <1>8 DEF Task

LEMMA Whole ==
    ASSUME IInv, Shape', Counts', Apart', NEW n \in Name, NEW p \in Proc, Only(n),
           \A q \in Proc : q # p => pc'[q] = pc[q] /\ job'[q] = job[q],
           pc[p] # "idle" => N(p) = n,
           pc'[p] # "idle" => N(p)' = n /\ Task(p)',
           pc'[p] = "idle" => Rest(n)',
           pc[p] # "idle" \/ pc'[p] # "idle",
           Held(n)'
    PROVE  IInv'
<1>1. \A q \in Proc : q # p /\ pc[q] # "idle" => N(q) # n
  BY DEF IInv, Apart, N
<1>2. \A m \in Name : Held(m)'
  BY FrameHeld DEF IInv
<1>3. ASSUME NEW m \in Name, ~Busy(m)' PROVE Rest(m)'
  <2>1. CASE m = n
    BY <1>3, <2>1 DEF Busy
  <2>2. CASE m # n
    <3>1. ~Busy(m)
      BY <1>3, <2>2 DEF Busy, N
    <3> QED
      BY <2>2, <3>1, FrameHeld DEF IInv
  <2> QED
    BY <2>1, <2>2
<1>4. ASSUME NEW q \in Proc, pc'[q] # "idle" PROVE Task(q)'
  <2>1. CASE q # p
    <3>1. Task(q) /\ N(q) \in Name /\ N(q) # n
      BY <1>1, <1>4, <2>1 DEF IInv, Task, Job, N
    <3> QED
      BY <2>1, <3>1, FrameTask DEF IInv
  <2> QED
    BY <1>4, <2>1
<1> QED
  BY <1>2, <1>3, <1>4 DEF IInv

LEMMA WholeHost ==
    ASSUME IInv, Shape', Counts', NEW n \in Name, Only(n), UNCHANGED <<pc, job>>,
           Held(n)', Rest(n) => Rest(n)',
           \A p \in Proc : pc[p] # "idle" /\ N(p) = n => Task(p)'
    PROVE  IInv'
<1>1. Apart' /\ \A m \in Name : Busy(m)' <=> Busy(m)
  BY DEF IInv, Apart, N, Busy
<1>2. \A m \in Name : Held(m)'
  BY FrameHeld DEF IInv
<1>3. ASSUME NEW m \in Name, ~Busy(m)' PROVE Rest(m)'
  BY <1>1, <1>3, FrameHeld DEF IInv
<1>4. ASSUME NEW q \in Proc, pc'[q] # "idle" PROVE Task(q)'
  <2>1. CASE N(q) # n
    <3>1. Task(q) /\ N(q) \in Name
      BY <1>4 DEF IInv, Task, Job, N
    <3> QED
      BY <2>1, <3>1, FrameTask DEF IInv
  <2> QED
    BY <1>4, <2>1
<1> QED
  BY <1>1, <1>2, <1>3, <1>4 DEF IInv

\* What a command knows when it goes on.
LEMMA Local ==
    ASSUME IInv, NEW p \in Proc, pc[p] # "idle"
    PROVE  /\ N(p) \in Name /\ I(p) \in Instance /\ job[p] \in Job /\ Task(p) /\ Held(N(p))
           /\ I(p).vol \in {DataVolume(N(p)), NewVolume(N(p))}
           /\ I(p).ver \in Ver /\ I(p).preset \in Preset /\ I(p).backup \in BOOLEAN
           /\ I(p).port \in Port \cup {None}
           /\ I(p).vol = NewVolume(N(p)) => I(p).ver = 2
<1>1. Task(p) /\ job[p] \in Job /\ N(p) \in Name /\ I(p) \in Instance /\ Held(N(p))
  BY DEF IInv, Task, Job, N, I
<1>2. /\ I(p).vol \in Volume /\ I(p).ver \in Ver /\ I(p).preset \in Preset
      /\ I(p).backup \in BOOLEAN /\ I(p).port \in Port \cup {None}
  BY <1>1 DEF Instance
<1>3. /\ I(p).vol \in {DataVolume(N(p)), NewVolume(N(p))}
      /\ I(p).ver = 1 => I(p).vol = DataVolume(N(p))
  BY <1>1 DEF Task, Creates, Changes, Held, Saved
<1> QED
  BY <1>1, <1>2, <1>3, Volumes DEF Ver

\* The two ways to go on without another job.
LEMMA Moves ==
    ASSUME IInv, NEW p \in Proc, NEW l, Goto(p, l) \/ Quit(p)
    PROVE  /\ \A q \in Proc : q # p => pc'[q] = pc[q] /\ job'[q] = job[q]
           /\ DOMAIN pc' = Proc /\ DOMAIN job' = Proc
           /\ Goto(p, l) => pc'[p] = l /\ job'[p] = job[p] /\ N(p)' = N(p) /\ I(p)' = I(p)
           /\ Quit(p) => pc'[p] = "idle" /\ job'[p] = None
BY DEF IInv, Shape, Goto, Quit, N, I

\* A step that leaves the host and state.toml alone.
LEMMA Quiet ==
    ASSUME IInv, NEW n \in Name, Held(n), UNCHANGED <<hostVars, state, dropped>>,
           n \in orphaned => n \in orphaned'
    PROVE  Held(n)'
<1>1. HostTypes(n)'
  BY DEF Held, HostTypes, hostVars
<1>2. Saved(n)'
  BY DEF Held, Saved, IsCluster, hostVars
<1>3. Made(n)'
  BY DEF Held, Made, IsCluster, Exists, Up, hostVars
<1>4. Files(n)'
  BY DEF Held, Files, Exists, Astray, Fits, Filed, Running, hostVars
<1>5. Upgraded(n)'
  BY DEF Held, Upgraded, IsCluster, hostVars
<1> QED
  BY <1>1, <1>2, <1>3, <1>4, <1>5 DEF Held

LEMMA QuietShape ==
    ASSUME IInv, UNCHANGED <<hostVars, state, cmds, faults, ghosts>>
    PROVE  /\ Counts'
           /\ DOMAIN state' = Name /\ DOMAIN conf' = Name /\ DOMAIN ctr' = Name
           /\ DOMAIN oneshot' = Name /\ DOMAIN vol' = Volume /\ DOMAIN stanza' = Name
           /\ \A n : Only(n)
BY DEF IInv, Shape, Counts, hostVars, ghosts, Only

-----------------------------------------------------------------------------
(* How commands end                                                        *)

\* A creating command may stop wherever its container is a stray one's.
LEMMA CreationStops ==
    ASSUME IInv, NEW p \in Proc, pc[p] # "idle", job[p].cmd \in Creating,
           pc[p] \notin {"start", "ready", "save", "cleanContainer"}
    PROVE  Rest(N(p))
BY Local DEF Task, Creates, Rest

\* The others, where the memory limit is the saved preset's.
LEMMA ChangeStops ==
    ASSUME IInv, NEW p \in Proc, pc[p] # "idle", job[p].cmd \notin Creating,
           job[p].cmd # "resize" \/ pc[p] = "preset" \/ ~Exists(N(p))
    PROVE  Rest(N(p))
<1>1. state[N(p)] # None /\ state[N(p)] = I(p)
  BY Local DEF Task, Changes
<1>2. CASE Exists(N(p))
  BY <1>1, <1>2, Local DEF Task, Sizes, Rest, Control, Building
<1>3. CASE ~Exists(N(p))
  BY <1>3 DEF Rest
<1> QED
  BY <1>2, <1>3

LEMMA InitStep == Init => IInv
<1> SUFFICES ASSUME Init PROVE IInv
  OBVIOUS
<1>1. Shape /\ Counts
  BY BoundsAssumption, HostAssumption
     DEF Init, HostInit, Shape, Counts, BoundsAssumption, HostAssumption
<1>2. Apart
  BY DEF Init, Apart
<1>3. ASSUME NEW n \in Name PROVE Held(n) /\ Rest(n)
  <2>1. vol[DataVolume(n)] = None /\ vol[NewVolume(n)] = None
    BY Volumes DEF Init, HostInit
  <2>2. conf[n] = NoConf /\ ctr[n] = None /\ oneshot[n] = None /\ state[n] = None
    BY DEF Init, HostInit
  <2>3. NoConf \in [archive: {None} \cup BOOLEAN, preset: {None} \cup Preset,
                    repo: {None} \cup Name]
    BY DEF NoConf
  <2>4. NoConf.archive = None /\ NoConf.preset = None
    BY DEF NoConf
  <2>5. oneshot[n] # "ok"
    BY <2>2, HostAssumption DEF HostAssumption
  <2> QED
    BY <2>1, <2>2, <2>3, <2>4, <2>5 DEF Held, HostTypes, Saved, Made, Files, Upgraded, Rest, Exists
<1> QED
  BY <1>1, <1>2, <1>3 DEF IInv, Init

\* A step that only moves p: what it relies on next, or that it may rest.
LEMMA QuietGoes ==
    ASSUME IInv, Counts', Apart', NEW p \in Proc, pc[p] # "idle", NEW n, n = N(p),
           NEW l, l # "idle", Goto(p, l), UNCHANGED <<hostVars, state, dropped>>,
           Only(n), n \in orphaned => n \in orphaned',
           Control(p)', Creates(p)', Changes(p)', Sizes(p)', Builds(p)'
    PROVE  IInv'
<1>1. Held(n)'
  BY Local, Quiet
<1>2. Shape'
  BY Moves DEF IInv, Shape, hostVars, Goto
<1>3. Task(p)'
  BY Local, Moves DEF Task
<1> QED
  BY <1>1, <1>2, <1>3, Local, Moves, Whole

LEMMA QuietQuits ==
    ASSUME IInv, Counts', Apart', NEW p \in Proc, pc[p] # "idle", NEW n, n = N(p),
           Quit(p), UNCHANGED <<hostVars, state, dropped>>,
           Only(n), n \in orphaned => n \in orphaned', Rest(n)'
    PROVE  IInv'
<1>1. Held(n)'
  BY Local, Quiet
<1>2. Shape'
  BY Moves DEF IInv, Shape, hostVars, Quit
<1>3. \A q \in Proc : q # p => pc'[q] = pc[q] /\ job'[q] = job[q]
  BY DEF IInv, Shape, Quit
<1>4. pc'[p] = "idle" /\ n \in Name
  BY Local DEF IInv, Shape, Quit
<1> QED
  BY <1>1, <1>2, <1>3, <1>4, Whole

\* A call has failed with nothing done: on to the cleanup or the old preset, or
\* back to the shell.
LEMMA Errs ==
    ASSUME IInv, Counts', Apart', NEW p \in Proc, NEW n, n = N(p),
           pc[p] \notin {"idle", "save", "rollback"},
           pc[p] # "cleanContainer", Err(p), UNCHANGED <<hostVars, state, dropped, orphaned, late>>
    PROVE  IInv'
<1>1. Only(n) /\ pc[p] # "idle" /\ n \in Name
  BY Local DEF Only, hostVars
<1>2. CASE pc[p] \in {"start", "ready"} /\ job[p].cmd \in Creating
  <2>1. Goto(p, "cleanContainer")
    BY <1>2 DEF Err, Creating
  <2>2. pc'[p] = "cleanContainer" /\ job'[p] = job[p] /\ N(p)' = N(p) /\ I(p)' = I(p)
    BY <2>1, Moves
  <2>3. Control(p)' /\ Sizes(p)' /\ Builds(p)' /\ Changes(p)'
    BY <1>2, <2>2 DEF Control, Sizes, Builds, Changes, Cleanup
  <2>4. Creates(p)'
    BY <1>1, <1>2, <2>2, Local DEF Task, Creates, hostVars
  <2> QED
    BY <1>1, <2>1, <2>3, <2>4, QuietGoes
<1>3. CASE job[p].cmd = "resize" /\ pc[p] # "preset"
  <2>1. Goto(p, "rollback")
    BY <1>3 DEF Err, Creating
  <2>2. pc'[p] = "rollback" /\ job'[p] = job[p] /\ N(p)' = N(p) /\ I(p)' = I(p)
    BY <2>1, Moves
  <2>3. Control(p)' /\ Builds(p)' /\ Creates(p)' /\ Changes(p)'
    BY <1>1, <1>3, <2>2, Local
       DEF Task, Control, Builds, Changes, Creates, Creating, Building, hostVars
  <2>4. ASSUME pc[p] \in {"start", "ready"} PROVE Sizes(p)'
    BY <1>1, <2>2, <2>4, Local DEF Task, Builds, Mine, Sizes, hostVars
  <2>5. ASSUME pc[p] \in {"stop", "remove"} PROVE Sizes(p)'
    BY <1>1, <1>3, <2>2, <2>5, Local DEF Task, Sizes, Exists, hostVars
  <2>6. ASSUME pc[p] \in {"conf", "repo", "create"} PROVE Sizes(p)'
    BY <1>1, <1>3, <2>2, <2>6, Local DEF Task, Changes, Sizes, Exists, hostVars, Creating
  <2>7. Sizes(p)'
    BY <1>1, <1>3, <2>4, <2>5, <2>6, Local DEF Task, Control, Building, Creating
  <2> QED
    BY <1>1, <2>1, <2>3, <2>7, QuietGoes
<1>4. CASE /\ ~(pc[p] \in {"start", "ready"} /\ job[p].cmd \in Creating)
           /\ job[p].cmd # "resize" \/ pc[p] = "preset"
  <2>1. Quit(p)
    BY <1>4 DEF Err
  <2>2. Rest(n)
    <3>1. CASE job[p].cmd \in Creating
      BY <1>1, <1>4, <3>1, CreationStops
    <3>2. CASE job[p].cmd \notin Creating
      BY <1>1, <1>4, <3>2, ChangeStops
    <3> QED
      BY <3>1, <3>2
  <2>3. Rest(n)'
    BY <2>2 DEF Rest, Exists, hostVars
  <2> QED
    BY <1>1, <2>1, <2>3, QuietQuits
<1> QED
  BY <1>2, <1>3, <1>4

-----------------------------------------------------------------------------
(* Steps that change neither the host nor state.toml                       *)

LEMMA BeginStep ==
    ASSUME IInv, Apart', NEW p \in Proc, NEW n \in Name, NEW s \in Name, NEW i \in Instance,
           NEW c \in Command, NEW l, l # "idle", Begin(p, c, n, s, i, l),
           \/ /\ c \in Creating /\ l = "check" /\ state[n] = None
              /\ i.vol = DataVolume(n) /\ (c = "restore" => ~i.backup)
           \/ /\ c \notin Creating /\ state[n] # None /\ i = state[n]
              /\ c = "upgrade" => i.ver = 1
              /\ \/ c = "rotate" /\ l = "stop"
                 \/ c = "resize" /\ l = "preset"
                 \/ c = "upgrade" /\ l \in {"presnap", "stop"}
                 \/ c = "destroy" /\ l \in {"wipe", "stop"}
    PROVE  IInv'
<1>1. /\ pc[p] = "idle" /\ pc'[p] = l
      /\ job'[p] = [cmd |-> c, name |-> n, src |-> s, inst |-> i]
      /\ \A q \in Proc : q # p => pc'[q] = pc[q] /\ job'[q] = job[q]
      /\ UNCHANGED <<hostVars, state, faults, ghosts>>
      /\ cmds \in 0 .. MaxCmds /\ cmds < MaxCmds /\ cmds' = cmds + 1
      /\ DOMAIN pc' = Proc /\ DOMAIN job' = Proc
  BY DEF IInv, Shape, Counts, Begin
<1>2. N(p)' = n /\ I(p)' = i /\ job'[p] \in Job /\ job'[p].cmd = c
  BY <1>1 DEF N, I, Job
<1>3. cmds' \in 0 .. MaxCmds
  BY <1>1, BoundsAssumption DEF BoundsAssumption
<1>4. Counts' /\ Shape' /\ Only(n)
  BY <1>1, <1>3 DEF IInv, Counts, Shape, Only, hostVars, ghosts
<1>5. ~Busy(n)
  BY <1>1, <1>2 DEF Apart, Busy, N
<1>6. Held(n) /\ Rest(n) /\ Held(n)'
  BY <1>1, <1>5, Quiet DEF IInv, ghosts
<1>7. Control(p)' /\ Builds(p)'
  BY <1>1, <1>2 DEF Control, Builds, Creating
<1>8. Creates(p)'
  BY <1>1, <1>2, <1>6 DEF Creates, Rest, Exists, hostVars, ghosts
<1>9. Changes(p)' /\ Sizes(p)'
  BY <1>1, <1>2, <1>6 DEF Changes, Sizes, Rest, Exists, hostVars, ghosts, Creating
<1> QED
  BY <1>1, <1>2, <1>4, <1>6, <1>7, <1>8, <1>9, Whole DEF Task

LEMMA InvokeStep ==
    ASSUME IInv, Apart', NEW p \in Proc, Invoke(p)
    PROVE  IInv'
<1> USE DEF Command, Creating
<1> PICK n \in Name :
        \/ \E b \in Backups, t \in Presets : BeginCreate(p, n, b, t)
        \/ \E s \in Name, c \in {"clone", "restore"} : BeginCopy(p, c, n, s)
        \/ BeginRotate(p, n) \/ BeginResize(p, n) \/ BeginUpgrade(p, n)
        \/ \E w \in BOOLEAN : BeginDestroy(p, n, w)
  BY DEF Invoke
<1>1. \A m \in Name : state[m] # None => state[m] \in Instance
  BY DEF IInv, Held, Saved
<1>2. CASE \E b \in Backups, t \in Presets : BeginCreate(p, n, b, t)
  <2> PICK b \in Backups, t \in Presets : BeginCreate(p, n, b, t)
    BY <1>2
  <2> DEFINE i == [vol |-> DataVolume(n), ver |-> 1, port |-> None, backup |-> b, preset |-> t]
  <2>1. i \in Instance /\ i.vol = DataVolume(n)
    BY Volumes, BoundsAssumption DEF BoundsAssumption, Instance, Ver
  <2>2. state[n] = None /\ Begin(p, "create", n, n, i, "check")
    BY DEF BeginCreate
  <2> HIDE DEF i
  <2> QED
    BY <2>1, <2>2, BeginStep
<1>3. CASE \E s \in Name, c \in {"clone", "restore"} : BeginCopy(p, c, n, s)
  <2> PICK s \in Name, c \in {"clone", "restore"} : BeginCopy(p, c, n, s)
    BY <1>3
  <2> DEFINE i == [vol |-> DataVolume(n), ver |-> state[s].ver, port |-> None,
                   backup |-> c = "clone", preset |-> state[s].preset]
  <2>1. state[n] = None /\ Begin(p, c, n, s, i, "check") /\ state[s] \in Instance
    BY <1>1 DEF BeginCopy
  <2>2. state[s].ver \in Ver /\ state[s].preset \in Preset
    BY <2>1 DEF Instance
  <2>3. i.vol = DataVolume(n) /\ i.backup = (c = "clone")
    OBVIOUS
  <2>4. i \in Instance
    BY <2>2, Volumes DEF Instance
  <2> HIDE DEF i
  <2>5. c = "restore" => ~i.backup
    BY <2>3
  <2> QED
    BY <2>1, <2>3, <2>4, <2>5, BeginStep
<1>4. CASE BeginRotate(p, n)
  BY <1>1, <1>4, BeginStep DEF BeginRotate
<1>5. CASE BeginResize(p, n)
  BY <1>1, <1>5, BeginStep DEF BeginResize
<1>6. CASE BeginUpgrade(p, n)
  <2>1. PICK l \in {"presnap", "stop"} : Begin(p, "upgrade", n, n, state[n], l)
    BY <1>6 DEF BeginUpgrade
  <2> QED
    BY <1>1, <1>6, <2>1, BeginStep DEF BeginUpgrade
<1>7. CASE \E w \in BOOLEAN : BeginDestroy(p, n, w)
  <2>1. PICK l \in {"wipe", "stop"} : state[n] # None /\ Begin(p, "destroy", n, n, state[n], l)
    BY <1>7 DEF BeginDestroy
  <2> QED
    BY <1>1, <2>1, BeginStep
<1> QED
  BY <1>2, <1>3, <1>4, <1>5, <1>6, <1>7

\* The step before the one that a creating command goes on from.
LEMMA CheckStep ==
    ASSUME IInv, Apart', NEW p \in Proc, Check(p) \/ Refused(p)
    PROVE  IInv'
<1> DEFINE n == N(p)
<1>1. /\ pc[p] \in {"check", "refused"} /\ pc[p] # "idle"
      /\ UNCHANGED <<hostVars, state, cmds, faults, ghosts>>
      /\ Goto(p, "refused") \/ Goto(p, "allocate") \/ Quit(p)
  BY DEF Check, Refused, At
<1>2. Counts' /\ Only(n) /\ UNCHANGED <<dropped, orphaned, late>>
  BY <1>1, QuietShape DEF ghosts
<1>3. Task(p) /\ job[p].cmd \in Creating /\ n \in Name
  BY <1>1, Local DEF Task, Control, Building
<1>4. ASSUME NEW l \in {"refused", "allocate"}, Goto(p, l) PROVE IInv'
  <2>1. pc'[p] = l /\ job'[p] = job[p] /\ N(p)' = N(p) /\ I(p)' = I(p)
    BY <1>4, Moves
  <2>2. Control(p)' /\ Changes(p)' /\ Sizes(p)' /\ Builds(p)'
    BY <1>3, <2>1 DEF Control, Changes, Sizes, Builds
  <2>3. Creates(p)'
    BY <1>1, <1>2, <1>3, <2>1 DEF Task, Creates, Exists, hostVars
  <2> QED
    BY <1>1, <1>2, <1>4, <2>2, <2>3, QuietGoes
<1>5. ASSUME Quit(p), NEW m, m = N(p) PROVE IInv'
  <2>1. Rest(m)
    BY <1>1, <1>3, <1>5, CreationStops
  <2>2. Rest(m)'
    BY <1>1, <2>1 DEF Rest, Exists, hostVars, ghosts
  <2> QED
    BY <1>1, <1>2, <1>5, <2>2, QuietQuits
<1> QED
  BY <1>1, <1>4, <1>5

LEMMA AllocateStep ==
    ASSUME IInv, Apart', NEW p \in Proc, NEW n, n = N(p), AllocatePort(p)
    PROVE  IInv'
<1>1. pc[p] = "allocate" /\ pc[p] # "idle" /\ UNCHANGED <<hostVars, state, cmds, faults>>
      /\ UNCHANGED <<orphaned, unsaved, dropped, late>>
  BY DEF AllocatePort, At
<1>2. Task(p) /\ job[p].cmd \in Creating /\ n \in Name /\ job[p] \in Job /\ I(p) \in Instance
  BY <1>1, Local DEF Task, Control, Building
<1>3. Allocating(p) \subseteq Name
  <2>1. ASSUME NEW q \in Proc, pc[q] # "idle" PROVE N(q) \in Name
    BY <2>1, Local
  <2> QED
    BY <2>1 DEF Allocating
<1>4. raced' \subseteq Name
  BY <1>2, <1>3 DEF IInv, Counts, AllocatePort
<1>5. Counts' /\ Only(n)
  BY <1>1, <1>4 DEF IInv, Counts, hostVars, Only
<1>6. CASE Free = {}
  <2>1. Quit(p)
    BY <1>6 DEF AllocatePort
  <2>2. Rest(n)
    BY <1>1, <1>2, CreationStops
  <2>3. Rest(n)'
    BY <1>1, <2>2 DEF Rest, Exists, hostVars
  <2> QED
    BY <1>1, <1>5, <2>1, <2>3, QuietQuits
<1>7. CASE Free # {}
  <2>1. PICK q \in Free : /\ pc' = [pc EXCEPT ![p] = "conf"]
                          /\ job' = [job EXCEPT ![p].inst.port = q]
    BY <1>7 DEF AllocatePort
  <2> DEFINE i == [I(p) EXCEPT !.port = q]
  <2>2. q \in Port /\ q # None
    BY HostAssumption DEF Free, HostAssumption
  <2>3. /\ i \in Instance /\ i.vol = I(p).vol /\ i.backup = I(p).backup /\ i.port = q
    BY <1>2, <2>2 DEF Instance
  <2>4. job'[p] = [job[p] EXCEPT !.inst = i]
    BY <1>2, <2>1 DEF IInv, Shape, I, Job
  <2> HIDE DEF i
  <2>5. /\ job'[p] \in Job /\ job'[p].cmd = job[p].cmd /\ N(p)' = n /\ I(p)' = i
    BY <1>2, <2>3, <2>4 DEF Job, N, I
  <2>6. /\ pc'[p] = "conf" /\ DOMAIN pc' = Proc /\ DOMAIN job' = Proc
        /\ \A r \in Proc : r # p => pc'[r] = pc[r] /\ job'[r] = job[r]
    BY <2>1 DEF IInv, Shape
  <2>7. Control(p)' /\ Changes(p)' /\ Sizes(p)' /\ Builds(p)'
    BY <1>2, <2>5, <2>6 DEF Control, Changes, Sizes, Builds, Building
  <2>8. Creates(p)'
    BY <1>1, <1>2, <2>2, <2>3, <2>5, <2>6 DEF Task, Creates, Exists, hostVars
  <2>9. Shape'
    BY <1>1, <2>6 DEF IInv, Shape, hostVars
  <2>10. Held(n)'
    BY <1>1, <1>2, Local, Quiet
  <2> QED
    BY <1>1, <1>2, <1>5, <2>5, <2>6, <2>7, <2>8, <2>9, <2>10, Whole DEF Task
<1> QED
  BY <1>6, <1>7

LEMMA NotReadyStep ==
    ASSUME IInv, Apart', NEW p \in Proc, NotReady(p)
    PROVE  IInv'
BY QuietShape, Errs DEF NotReady, At, ghosts

LEMMA PreSnapshotStep ==
    ASSUME IInv, Apart', NEW p \in Proc, PreSnapshot(p)
    PROVE  IInv'
<1> DEFINE n == N(p)
<1>1. /\ pc[p] = "presnap" /\ pc[p] # "idle" /\ UNCHANGED <<hostVars, state, cmds, faults, ghosts>>
      /\ Goto(p, "stop") \/ Quit(p)
  BY DEF PreSnapshot, At
<1>2. Counts' /\ Only(n) /\ UNCHANGED <<dropped, orphaned, late>>
  BY <1>1, QuietShape DEF ghosts
<1>3. Task(p) /\ job[p].cmd = "upgrade" /\ n \in Name
  BY <1>1, Local DEF Task, Control, Building, Cleanup
<1>4. ASSUME Goto(p, "stop") PROVE IInv'
  <2>1. pc'[p] = "stop" /\ job'[p] = job[p] /\ N(p)' = N(p) /\ I(p)' = I(p)
    BY <1>4, Moves
  <2>2. Control(p)' /\ Builds(p)' /\ Creates(p)'
    BY <1>3, <2>1 DEF Control, Builds, Creates, Creating
  <2>3. Changes(p)' /\ Sizes(p)'
    BY <1>1, <1>2, <1>3, <2>1 DEF Task, Changes, Sizes, Exists, hostVars, Creating, Building
  <2> QED
    BY <1>1, <1>2, <1>4, <2>2, <2>3, QuietGoes
<1>5. ASSUME Quit(p), NEW m, m = N(p) PROVE IInv'
  <2>1. Rest(m)
    BY <1>1, <1>3, <1>5, ChangeStops DEF Creating
  <2>2. Rest(m)'
    BY <1>1, <2>1 DEF Rest, Exists, hostVars, ghosts
  <2> QED
    BY <1>1, <1>2, <1>5, <2>2, QuietQuits
<1> QED
  BY <1>1, <1>4, <1>5

LEMMA DieStep ==
    ASSUME IInv, Apart', NEW p \in Proc, NEW n, n = N(p), Die(p)
    PROVE  IInv'
<1>1. /\ pc[p] # "idle" /\ Quit(p) /\ UNCHANGED <<hostVars, state, cmds, unsaved, dropped, raced>>
      /\ orphaned' = orphaned \cup {n}
      /\ late' = IF job[p].cmd = "resize" THEN late \cup {n} ELSE late
      /\ faults < MaxFaults /\ faults' = faults + 1
  BY DEF Die, Fault
<1>2. Task(p) /\ n \in Name
  BY <1>1, Local
<1>3. Counts' /\ Only(n)
  BY <1>1, <1>2, BoundsAssumption DEF IInv, Counts, BoundsAssumption, Only, hostVars
<1>4. Rest(n)'
  <2>1. CASE job[p].cmd = "resize" \/ state[n] = None
    BY <1>1, <2>1 DEF Rest, Exists, hostVars
  <2>2. CASE job[p].cmd # "resize" /\ state[n] # None
    <3>1. job[p].cmd \notin Creating /\ state[n] = I(p)
      BY <1>2, <2>2 DEF Task, Creates, Changes
    <3>2. Rest(n)
      BY <1>1, <2>2, <3>1, ChangeStops
    <3> QED
      BY <1>1, <3>2 DEF Rest, Exists, hostVars
  <2> QED
    BY <2>1, <2>2
<1> QED
  BY <1>1, <1>3, <1>4, QuietQuits

LEMMA CallFailsStep ==
    ASSUME IInv, Apart', NEW p \in Proc, NEW n, n = N(p), CallFails(p)
    PROVE  IInv'
<1>1. /\ pc[p] \notin {"idle", "refused"} /\ pc[p] # "idle"
      /\ UNCHANGED <<hostVars, state, cmds, dropped, raced>>
      /\ orphaned' = IF pc[p] \in Cleanup \cup {"save"} THEN orphaned \cup {n} ELSE orphaned
      /\ unsaved' = IF pc[p] = "save" THEN unsaved \cup {n} ELSE unsaved
      /\ late' = IF pc[p] = "rollback" THEN late \cup {n} ELSE late
      /\ faults < MaxFaults /\ faults' = faults + 1
  BY DEF CallFails, Fault
<1>2. Task(p) /\ n \in Name
  BY <1>1, Local
<1>3. orphaned' \subseteq Name /\ unsaved' \subseteq Name /\ late' \subseteq Name
  BY <1>1, <1>2 DEF IInv, Counts
<1>4. faults' \in 0 .. MaxFaults
  BY <1>1, BoundsAssumption DEF IInv, Counts, BoundsAssumption
<1>5. Counts' /\ Only(n)
  BY <1>1, <1>3, <1>4 DEF IInv, Counts, Only, hostVars
<1>6. ASSUME pc[p] \in Cleanup PROVE job[p].cmd \in Creating
  BY <1>2, <1>6 DEF Task, Control, Cleanup, Building
<1>7. CASE pc[p] \in {"cleanContainer", "cleanVolume"}
  <2>1. PICK l \in {"cleanVolume", "cleanConf"} : Goto(p, l)
    BY <1>7 DEF CallFails
  <2>2. pc'[p] = l /\ job'[p] = job[p] /\ N(p)' = n /\ I(p)' = I(p)
    BY <1>1, <2>1, Moves
  <2>3. job[p].cmd \in Creating /\ n \in orphaned'
    BY <1>1, <1>6, <1>7 DEF Cleanup
  <2>4. Control(p)' /\ Changes(p)' /\ Sizes(p)' /\ Builds(p)'
    BY <2>2, <2>3 DEF Control, Changes, Sizes, Builds, Cleanup
  <2>5. Creates(p)'
    BY <1>1, <1>2, <1>7, <2>2, <2>3 DEF Task, Creates, Exists, hostVars
  <2> QED
    BY <1>1, <1>5, <2>1, <2>3, <2>4, <2>5, QuietGoes
<1>8. CASE pc[p] \in {"cleanConf", "save", "rollback"}
  <2>1. Quit(p)
    BY <1>2, <1>6, <1>8 DEF Task, Control, Building, CallFails, Err, Cleanup, Creating
  <2>2. CASE pc[p] = "rollback"
    <3>1. state[n] # None
      BY <1>2, <2>2 DEF Task, Control, Changes, Creating, Building, Cleanup
    <3>2. Rest(n)'
      BY <1>1, <2>2, <3>1 DEF Rest, Exists, hostVars
    <3> QED
      BY <1>1, <1>5, <2>1, <2>2, <3>2, QuietQuits DEF Cleanup
  <2>3. CASE pc[p] # "rollback"
    <3>1. state[n] = None /\ n \in orphaned'
      BY <1>1, <1>2, <1>8, <2>3 DEF Task, Control, Creates, Building, Cleanup
    <3>2. Rest(n)'
      BY <1>1, <3>1 DEF Rest, hostVars
    <3> QED
      BY <1>1, <1>5, <2>1, <3>1, <3>2, QuietQuits
  <2> QED
    BY <2>2, <2>3
<1>9. CASE pc[p] \notin {"cleanContainer", "cleanVolume", "cleanConf", "save", "rollback"}
  <2>1. Err(p) /\ UNCHANGED <<orphaned, late>>
    BY <1>1, <1>9 DEF CallFails, Cleanup
  <2> QED
    BY <1>1, <1>5, <1>9, <2>1, Errs
<1> QED
  BY <1>7, <1>8, <1>9

-----------------------------------------------------------------------------
(* Files                                                                   *)

LEMMA WriteConfStep ==
    ASSUME IInv, Apart', NEW p \in Proc, NEW n, n = N(p), WriteConf(p)
    PROVE  IInv'
<1>1. /\ pc[p] = "conf" /\ pc[p] # "idle" /\ Goto(p, "repo")
      /\ UNCHANGED <<ctr, oneshot, vol, stanza, fed, born, state, cmds, faults, ghosts>>
  BY DEF WriteConf, At
<1>2. /\ Task(p) /\ Held(n) /\ n \in Name
      /\ I(p).backup \in BOOLEAN /\ I(p).preset \in Preset
  BY <1>1, Local
<1>3. /\ conf'[n] = [conf[n] EXCEPT !.archive = I(p).backup, !.preset = I(p).preset]
      /\ \A m \in Name : m # n => conf'[m] = conf[m]
      /\ DOMAIN conf' = Name
  BY <1>2 DEF IInv, Shape, WriteConf
<1>4. /\ conf'[n].archive = I(p).backup /\ conf'[n].preset = I(p).preset
      /\ conf'[n].repo = conf[n].repo
      /\ conf'[n] \in [archive: {None} \cup BOOLEAN, preset: {None} \cup Preset,
                       repo: {None} \cup Name]
  BY <1>2, <1>3 DEF Held, HostTypes
<1>5. pc'[p] = "repo" /\ job'[p] = job[p] /\ N(p)' = n /\ I(p)' = I(p)
  BY <1>1, Moves
<1>6. Counts' /\ Only(n) /\ Shape'
  BY <1>1, <1>3, <1>5, Moves DEF IInv, Counts, Only, Shape, ghosts
<1>7. Exists(n) => Astray(n)
  BY <1>1, <1>2 DEF Task, Creates, Changes, Astray
<1>8. Held(n)'
  <2>1. HostTypes(n)' /\ Saved(n)' /\ Made(n)' /\ Upgraded(n)'
    BY <1>1, <1>2, <1>4 DEF Held, HostTypes, Saved, Made, Upgraded, IsCluster, Exists, Up, ghosts
  <2>2. conf'[n].archive # None /\ conf'[n].preset # None
    BY <1>2, <1>4, HostAssumption DEF HostAssumption
  <2>3. Files(n)'
    BY <1>1, <1>7, <2>2 DEF Files, Exists, Astray, ghosts
  <2> QED
    BY <2>1, <2>3 DEF Held
<1>9. Control(p)' /\ Creates(p)' /\ Changes(p)' /\ Sizes(p)'
  BY <1>1, <1>2, <1>5 DEF Task, Control, Creates, Changes, Sizes, Exists, ghosts, Building
<1>10. Builds(p)'
  BY <1>4, <1>5 DEF Builds
<1> QED
  BY <1>1, <1>2, <1>5, <1>6, <1>8, <1>9, <1>10, Moves, Whole DEF Task

LEMMA WriteRepoStep ==
    ASSUME IInv, Apart', NEW p \in Proc, NEW n, n = N(p), WriteRepo(p)
    PROVE  IInv'
<1>1. /\ pc[p] = "repo" /\ pc[p] # "idle" /\ Goto(p, "create")
      /\ UNCHANGED <<ctr, oneshot, vol, stanza, fed, born, state, cmds, faults, ghosts>>
  BY DEF WriteRepo, At
<1>2. /\ Task(p) /\ Held(n) /\ n \in Name /\ job[p].src \in Name
      /\ I(p).backup \in BOOLEAN /\ I(p).preset \in Preset
  BY <1>1, Local DEF Job
<1> DEFINE r == IF job[p].cmd = "restore" THEN job[p].src ELSE n
<1>3. conf'[n] = IF I(p).backup \/ job[p].cmd = "restore"
                   THEN [conf[n] EXCEPT !.repo = r] ELSE conf[n]
  BY <1>2 DEF IInv, Shape, WriteRepo
<1>4. (\A m \in Name : m # n => conf'[m] = conf[m]) /\ DOMAIN conf' = Name
  BY <1>2 DEF IInv, Shape, WriteRepo
<1>5. /\ conf'[n].archive = conf[n].archive /\ conf'[n].preset = conf[n].preset
      /\ I(p).backup \/ job[p].cmd = "restore" => conf'[n].repo = r
      /\ conf'[n] \in [archive: {None} \cup BOOLEAN, preset: {None} \cup Preset,
                       repo: {None} \cup Name]
  <2>1. conf[n] \in [archive: {None} \cup BOOLEAN, preset: {None} \cup Preset,
                     repo: {None} \cup Name]
    BY <1>2 DEF Held, HostTypes
  <2>2. r \in Name
    BY <1>2
  <2> HIDE DEF r
  <2> QED
    BY <1>3, <2>1, <2>2
<1>6. pc'[p] = "create" /\ job'[p] = job[p] /\ N(p)' = n /\ I(p)' = I(p)
  BY <1>1, Moves
<1>7. Counts' /\ Only(n) /\ Shape'
  BY <1>1, <1>4, <1>6, Moves DEF IInv, Counts, Only, Shape, ghosts
<1>8. Exists(n) => Astray(n)
  BY <1>1, <1>2 DEF Task, Creates, Changes, Astray
<1>9. Held(n)'
  <2>1. HostTypes(n)' /\ Saved(n)' /\ Made(n)' /\ Upgraded(n)'
    BY <1>1, <1>2, <1>5 DEF Held, HostTypes, Saved, Made, Upgraded, IsCluster, Exists, Up, ghosts
  <2>2. Files(n)'
    BY <1>1, <1>2, <1>5, <1>8 DEF Held, Files, Exists, Astray, ghosts
  <2> QED
    BY <2>1, <2>2 DEF Held
<1>10. Control(p)' /\ Creates(p)' /\ Changes(p)' /\ Sizes(p)'
  BY <1>1, <1>2, <1>6 DEF Task, Control, Creates, Changes, Sizes, Exists, ghosts, Building
<1>11. Builds(p)'
  <2>1. conf'[n].archive = I(p).backup /\ conf'[n].preset = I(p).preset
    BY <1>1, <1>2, <1>5 DEF Task, Builds
  <2>2. /\ I(p).backup => job[p].cmd # "restore"
        /\ r # None /\ (I(p).backup => r = n)
    BY <1>2, HostAssumption DEF Task, Creates, Creating, HostAssumption
  <2> HIDE DEF r
  <2> QED
    BY <1>2, <1>5, <1>6, <2>1, <2>2 DEF Builds
<1> QED
  BY <1>1, <1>2, <1>6, <1>7, <1>9, <1>10, <1>11, Moves, Whole DEF Task

\* conf is removed with the directory, and then nothing is in it.
LEMMA CleanConfStep ==
    ASSUME IInv, Apart', NEW p \in Proc, NEW n, n = N(p), CleanConf(p)
    PROVE  IInv'
<1>1. /\ pc[p] = "cleanConf" /\ pc[p] # "idle" /\ Quit(p)
      /\ UNCHANGED <<ctr, oneshot, vol, stanza, fed, born, state, cmds, faults, ghosts>>
  BY DEF CleanConf, At
<1>2. Task(p) /\ Held(n) /\ n \in Name /\ job[p].cmd \in Creating
  BY <1>1, Local DEF Task, Control, Building
<1>3. /\ conf'[n] = NoConf /\ DOMAIN conf' = Name
      /\ \A m \in Name : m # n => conf'[m] = conf[m]
  BY <1>2 DEF IInv, Shape, CleanConf
<1>4. NoConf.archive = None /\ NoConf.preset = None
      /\ NoConf \in [archive: {None} \cup BOOLEAN, preset: {None} \cup Preset,
                     repo: {None} \cup Name]
  BY DEF NoConf
<1>5. /\ pc'[p] = "idle" /\ DOMAIN pc' = Proc /\ DOMAIN job' = Proc /\ job'[p] = None
      /\ \A q \in Proc : q # p => pc'[q] = pc[q] /\ job'[q] = job[q]
  BY <1>1 DEF IInv, Shape, Quit
<1>6. Counts' /\ Only(n) /\ Shape'
  BY <1>1, <1>3, <1>5 DEF IInv, Counts, Only, Shape, ghosts
<1>7. state[n] = None /\ (Exists(n) => Astray(n)) /\ Rest(n)
  BY <1>1, <1>2, CreationStops DEF Task, Creates, Astray
<1>8. Held(n)' /\ Rest(n)'
  <2>1. HostTypes(n)' /\ Saved(n)' /\ Made(n)' /\ Upgraded(n)'
    BY <1>1, <1>2, <1>3, <1>4
       DEF Held, HostTypes, Saved, Made, Upgraded, IsCluster, Exists, Up, ghosts
  <2>2. Files(n)' /\ Rest(n)'
    BY <1>1, <1>3, <1>4, <1>7 DEF Files, Exists, Astray, ghosts, Rest
  <2> QED
    BY <2>1, <2>2 DEF Held
<1> QED
  BY <1>1, <1>2, <1>5, <1>6, <1>8, Whole

-----------------------------------------------------------------------------
(* Containers                                                              *)

\* Volumes that come into being leave clusters alone.
LEMMA Mounting ==
    ASSUME IInv, NEW n \in Name, NEW vs \in SUBSET {DataVolume(n), NewVolume(n)},
           vol' = WithVolumes(vs)
    PROVE  /\ DOMAIN vol' = Volume
           /\ \A v \in Volume \ {DataVolume(n), NewVolume(n)} : vol'[v] = vol[v]
           /\ \A v \in Volume : vol[v] \in Cluster => vol'[v] = vol[v]
           /\ \A v \in Volume : vol[v] \in Cluster \cup {None, Empty, Junk} =>
                vol'[v] \in Cluster \cup {None, Empty, Junk}
BY HostAssumption DEF IInv, Shape, WithVolumes, HostAssumption

LEMMA CreateStep ==
    ASSUME IInv, Apart', NEW p \in Proc, NEW n, n = N(p), CreateContainer(p)
    PROVE  IInv'
<1>1. /\ pc[p] = "create" /\ pc[p] # "idle"
      /\ UNCHANGED <<conf, oneshot, stanza, fed, born, state, cmds, faults, ghosts>>
  BY DEF CreateContainer, At
<1>2. /\ Task(p) /\ Held(n) /\ n \in Name /\ job[p] \in Job /\ I(p) \in Instance
      /\ I(p).vol \in {DataVolume(n), NewVolume(n)} /\ I(p).vol \in Volume
      /\ I(p).backup \in BOOLEAN /\ I(p).preset \in Preset /\ I(p).ver \in Ver
      /\ I(p).vol = NewVolume(n) => I(p).ver = 2
  BY <1>1, Local, Volumes
<1>3. CASE Exists(n)
  <2>1. Err(p) /\ UNCHANGED <<hostVars, state, dropped, orphaned, late>>
    BY <1>1, <1>3 DEF CreateContainer, hostVars, ghosts
  <2>2. Counts'
    BY <1>1, <2>1 DEF IInv, Counts, ghosts, hostVars
  <2> QED
    BY <1>1, <2>1, <2>2, Errs
<1>4. CASE ~Exists(n)
  <2> DEFINE c == [by |-> p, src |-> job[p].src, vol |-> I(p).vol, ver |-> I(p).ver,
                   kind |-> IF job[p].cmd \in {"clone", "restore"} THEN job[p].cmd ELSE "regular",
                   port |-> I(p).port, st |-> "created", mem |-> I(p).preset,
                   archive |-> FALSE, repo |-> None, tuned |-> None,
                   mounts |-> I(p).backup \/ job[p].cmd = "restore"]
  <2>1. /\ ctr' = [ctr EXCEPT ![n] = c] /\ vol' = WithVolumes({I(p).vol}) /\ Goto(p, "start")
    BY <1>4 DEF CreateContainer
  <2>2. I(p).port \in Port
    BY <1>1, <1>2 DEF Task, Creates, Changes, Held, Saved, Instance
  <2>3. c \in Container
    BY <1>2, <2>2 DEF Container, Kind, Job
  <2>4. /\ c.by = p /\ c.vol = I(p).vol /\ c.ver = I(p).ver /\ c.port = I(p).port
        /\ c.st = "created" /\ c.mem = I(p).preset /\ c.archive = FALSE
        /\ c.mounts => I(p).backup \/ job[p].cmd = "restore"
    OBVIOUS
  <2> HIDE DEF c
  <2>5. /\ ctr'[n] = c /\ DOMAIN ctr' = Name /\ \A m \in Name : m # n => ctr'[m] = ctr[m]
    BY <1>2, <2>1 DEF IInv, Shape
  <2>6. /\ DOMAIN vol' = Volume
        /\ \A v \in Volume \ {DataVolume(n), NewVolume(n)} : vol'[v] = vol[v]
        /\ \A v \in Volume : vol[v] \in Cluster => vol'[v] = vol[v]
        /\ \A v \in Volume : vol[v] \in Cluster \cup {None, Empty, Junk} =>
                vol'[v] \in Cluster \cup {None, Empty, Junk}
    BY <1>2, <2>1, Mounting
  <2>7. \A m \in Name : m # n => /\ vol'[DataVolume(m)] = vol[DataVolume(m)]
                                 /\ vol'[NewVolume(m)] = vol[NewVolume(m)]
    BY <1>2, <2>6, Volumes
  <2>8. pc'[p] = "start" /\ job'[p] = job[p] /\ N(p)' = n /\ I(p)' = I(p)
    BY <2>1, Moves
  <2>9. Counts' /\ Only(n) /\ Shape'
    <3>1. \A q \in Proc : q # p => pc'[q] = pc[q] /\ job'[q] = job[q]
      BY <2>1, Moves
    <3>2. DOMAIN pc' = Proc /\ DOMAIN job' = Proc
      BY <2>1, Moves
    <3>3. Shape'
      BY <1>1, <2>5, <2>6, <2>8, <3>1, <3>2 DEF IInv, Shape
    <3> QED
      BY <1>1, <2>5, <2>7, <3>3 DEF IInv, Counts, Only, ghosts
  <2>10. ~(ctr'[n].st \in {"running", "up"}) /\ ctr'[n].st # "up"
    BY <2>4, <2>5
  <2>11. Fits(n)' /\ Filed(n)'
    <3>1. /\ conf[n].archive = I(p).backup /\ conf[n].preset = I(p).preset
          /\ I(p).backup \/ job[p].cmd = "restore" =>
               conf[n].repo # None /\ (I(p).backup => conf[n].repo = n)
      BY <1>1, <1>2 DEF Task, Builds
    <3>2. conf[n].archive # None
      BY <1>2, <3>1, HostAssumption DEF HostAssumption
    <3> QED
      BY <1>1, <2>4, <2>5, <2>10, <3>1, <3>2 DEF Fits, Filed, Running
  <2>12. Held(n)'
    <3>1. HostTypes(n)'
      BY <1>1, <1>2, <2>3, <2>5, <2>6, Volumes DEF Held, HostTypes
    <3>2. Saved(n)' /\ Upgraded(n)'
      BY <1>1, <1>2, <2>6, Volumes DEF Held, Saved, Upgraded, IsCluster, ghosts
    <3>3. state[n] # None => state[n] = I(p)
      BY <1>2 DEF Task, Creates, Changes
    <3>4. Made(n)'
      BY <1>1, <1>2, <2>4, <2>5, <2>10, <3>3 DEF Made, Up
    <3>5. Files(n)'
      BY <1>1, <1>2, <2>11 DEF Held, Files, Astray
    <3> QED
      BY <3>1, <3>2, <3>4, <3>5 DEF Held
  <2>13. Control(p)' /\ Creates(p)' /\ Changes(p)'
    BY <1>1, <1>2, <2>8 DEF Task, Control, Creates, Changes, ghosts, Building, Creating
  <2>14. Sizes(p)' 
    BY <2>4, <2>5, <2>8 DEF Sizes
  <2>15. ctr'[n] # None
    BY <2>3, <2>5, HostAssumption DEF HostAssumption
  <2>16. Builds(p)'
    BY <1>1, <1>2, <2>4, <2>5, <2>8, <2>11, <2>15 DEF Task, Builds, Mine, Exists
  <2> QED
    BY <1>1, <1>2, <2>1, <2>8, <2>9, <2>12, <2>13, <2>14, <2>16, Moves, Whole DEF Task
<1> QED
  BY <1>3, <1>4

\* What a start, a stop and a boot leave alone, and what they see to.
Same(n) ==
    /\ Exists(n) /\ Exists(n)' /\ ctr'[n] \in Container /\ DOMAIN ctr' = Name
    /\ \A m \in Name : m # n => ctr'[m] = ctr[m]
    /\ ctr'[n].by = ctr[n].by /\ ctr'[n].vol = ctr[n].vol /\ ctr'[n].ver = ctr[n].ver
    /\ ctr'[n].port = ctr[n].port /\ ctr'[n].mem = ctr[n].mem /\ ctr'[n].mounts = ctr[n].mounts
    /\ DOMAIN vol' = Volume
    /\ \A v \in Volume : v # ctr[n].vol => vol'[v] = vol[v]
    /\ \/ vol'[ctr[n].vol] = vol[ctr[n].vol]
       \/ vol'[ctr[n].vol] \in Cluster /\ vol'[ctr[n].vol].ver = ctr[n].ver
    /\ ctr'[n].st = "up" => vol'[ctr[n].vol] \in Cluster /\ vol'[ctr[n].vol].ver = ctr[n].ver
    /\ ctr'[n].st \in {"running", "up"} /\ Fits(n) => ctr'[n].tuned = ctr[n].mem
    /\ Fits(n) /\ ctr'[n].archive = TRUE => ctr'[n].repo \in {None, n}

LEMMA Restated ==
    ASSUME IInv, NEW n \in Name, Same(n),
           UNCHANGED <<conf, oneshot, state, orphaned, dropped, late>>
    PROVE  /\ Held(n)' /\ (Rest(n) => Rest(n)')
           /\ Fits(n) => Fits(n)'
           /\ Filed(n) => Filed(n)'
           /\ \A m \in Name : m # n => /\ vol'[DataVolume(m)] = vol[DataVolume(m)]
                                       /\ vol'[NewVolume(m)] = vol[NewVolume(m)]
<1>1. Held(n) /\ ctr[n].vol \in {DataVolume(n), NewVolume(n)}
  BY DEF IInv, Held, Made, Same
<1>2. \A m \in Name : m # n => /\ vol'[DataVolume(m)] = vol[DataVolume(m)]
                               /\ vol'[NewVolume(m)] = vol[NewVolume(m)]
  BY <1>1, Volumes DEF Same
<1>3. Fits(n) => Fits(n)'
  BY DEF Same, Fits, Running, Exists
<1>4. Filed(n) => Filed(n)'
  BY DEF Same, Filed
<1>5. HostTypes(n)'
  <2>1. \A v \in {DataVolume(n), NewVolume(n)} : vol'[v] \in Cluster \cup {None, Empty, Junk}
    BY <1>1, Volumes DEF Held, HostTypes, Same
  <2> QED
    BY <1>1, <2>1 DEF Held, HostTypes, Same
<1>6. Saved(n)'
  BY <1>1, Volumes DEF Held, Saved, Made, IsCluster, Same
<1>7. Made(n)'
  BY <1>1 DEF Held, Made, IsCluster, Same, Exists, Up
<1>8. Files(n)'
  BY <1>1, <1>3, <1>4 DEF Held, Files, Same, Astray, Exists
<1>9. Upgraded(n)'
  BY <1>1, Volumes DEF Held, Made, Upgraded, IsCluster, Same
<1>10. Rest(n) => Rest(n)'
  BY DEF Rest, Same, Exists
<1> QED
  BY <1>2, <1>3, <1>4, <1>5, <1>6, <1>7, <1>8, <1>9, <1>10 DEF Held

LEMMA RestatedTask ==
    ASSUME IInv, NEW p \in Proc, NEW n, n = N(p), pc[p] # "idle", Same(n),
           UNCHANGED <<conf, oneshot, state, orphaned, dropped, late>>,
           job'[p] = job[p], Control(p)',
           pc'[p] = pc[p] \/ (pc[p] = "start" /\ pc'[p] = "ready")
                          \/ (pc[p] = "stop" /\ pc'[p] = "remove")
    PROVE  Task(p)'
<1>1. /\ Task(p) /\ n \in Name /\ job[p] \in Job /\ Held(n)
      /\ N(p)' = n /\ I(p)' = I(p)
  BY Local DEF N, I
<1>2. ~(pc[p] = "update")
  BY <1>1 DEF Task, Changes, Same, Control, Building, Creating, Cleanup
<1>3. Creates(p)'
  BY <1>1 DEF Task, Creates, Same
<1>4. Changes(p)'
  BY <1>1, <1>2 DEF Task, Changes, Same, Exists, Building
<1>5. Sizes(p)'
  BY <1>1 DEF Task, Sizes, Same
<1>6. Builds(p)'
  <2>1. pc'[p] = "save" => /\ ctr[n].vol = I(p).vol /\ ctr[n].ver = I(p).ver
                           /\ IsCluster(I(p).vol, I(p).ver)
    BY <1>1 DEF Task, Builds
  <2>2. pc'[p] = "save" => vol'[I(p).vol] \in Cluster /\ vol'[I(p).vol].ver = I(p).ver
    BY <2>1 DEF IsCluster, Same
  <2>3. (Fits(n) => Fits(n)') /\ (Filed(n) => Filed(n)')
    BY <1>1, Restated
  <2> QED
    BY <1>1, <2>2, <2>3 DEF Task, Builds, Same, Mine, IsCluster
<1> QED
  BY <1>1, <1>3, <1>4, <1>5, <1>6 DEF Task

LEMMA Started ==
    ASSUME IInv, NEW n \in Name, StartContainer(n), UNCHANGED <<conf, vol>>
    PROVE  Same(n)
<1>1. /\ Startable(n) /\ Exists(n) /\ ctr[n] \in Container /\ conf[n].archive # None /\ Held(n)
  BY DEF IInv, StartContainer, Startable, Held, HostTypes, Exists
<1> DEFINE c == [ctr[n] EXCEPT !.st = "running", !.archive = conf[n].archive,
                               !.tuned = conf[n].preset,
                               !.repo = IF ctr[n].mounts THEN conf[n].repo ELSE None]
<1>2. conf[n].archive \in BOOLEAN /\ conf[n].preset \in Preset /\ conf[n].repo \in {None} \cup Name
  BY <1>1 DEF Held, HostTypes, Files
<1>3. /\ ctr'[n] = c /\ DOMAIN ctr' = Name /\ \A m \in Name : m # n => ctr'[m] = ctr[m]
  BY <1>1 DEF IInv, Shape, StartContainer
<1>4. /\ c.by = ctr[n].by /\ c.vol = ctr[n].vol /\ c.ver = ctr[n].ver /\ c.port = ctr[n].port
      /\ c.mem = ctr[n].mem /\ c.mounts = ctr[n].mounts /\ c.st = "running"
      /\ c.tuned = conf[n].preset /\ c.archive = conf[n].archive
      /\ c.repo = IF ctr[n].mounts THEN conf[n].repo ELSE None
  BY <1>1 DEF Container
<1>5. c \in Container
  BY <1>1, <1>2 DEF Container
<1> HIDE DEF c
<1>6. c # None
  BY <1>5, HostAssumption DEF HostAssumption
<1>7. Fits(n) => c.tuned = ctr[n].mem
  BY <1>2, <1>4, HostAssumption DEF Fits, HostAssumption
<1>8. Fits(n) /\ c.archive = TRUE => c.repo \in {None, n}
  BY <1>4 DEF Fits
<1> QED
  BY <1>1, <1>3, <1>4, <1>5, <1>6, <1>7, <1>8 DEF Same, Exists, IInv, Shape

LEMMA Stopped ==
    ASSUME IInv, NEW n \in Name, Exists(n), StopContainer(n), UNCHANGED <<conf, vol>>
    PROVE  Same(n)
<1>1. ctr[n] \in Container
  BY DEF IInv, Held, HostTypes, Exists
<1> DEFINE c == [ctr[n] EXCEPT !.st = "stopped"]
<1>2. ctr'[n] = c /\ DOMAIN ctr' = Name /\ \A m \in Name : m # n => ctr'[m] = ctr[m]
  BY <1>1 DEF IInv, Shape, StopContainer
<1>3. /\ c.by = ctr[n].by /\ c.vol = ctr[n].vol /\ c.ver = ctr[n].ver /\ c.port = ctr[n].port
      /\ c.mem = ctr[n].mem /\ c.mounts = ctr[n].mounts /\ c.st = "stopped"
      /\ c.archive = ctr[n].archive /\ c.repo = ctr[n].repo /\ c \in Container
  BY <1>1 DEF Container
<1> HIDE DEF c
<1>4. c # None
  BY <1>3, HostAssumption DEF HostAssumption
<1> QED
  BY <1>2, <1>3, <1>4 DEF Same, Exists, IInv, Shape, Fits

LEMMA StartStep ==
    ASSUME IInv, Apart', NEW p \in Proc, NEW n, n = N(p), Start(p)
    PROVE  IInv'
<1>1. /\ pc[p] = "start" /\ pc[p] # "idle"
      /\ UNCHANGED <<conf, oneshot, vol, stanza, fed, born, state, cmds, faults, ghosts>>
  BY DEF Start, At
<1>2. Task(p) /\ n \in Name
  BY <1>1, Local
<1>3. Counts'
  BY <1>1 DEF IInv, Counts, ghosts
<1>4. CASE Err(p) /\ UNCHANGED ctr
  BY <1>1, <1>3, <1>4, Errs DEF hostVars, ghosts
<1>5. CASE StartContainer(n) /\ Goto(p, "ready")
  <2>1. Same(n)
    BY <1>1, <1>2, <1>5, Started
  <2>2. pc'[p] = "ready" /\ job'[p] = job[p] /\ N(p)' = n
    BY <1>5, Moves
  <2>3. Held(n)' /\ Only(n)
    BY <1>1, <1>2, <2>1, Restated DEF Same, Only, ghosts
  <2>4. Control(p)'
    BY <1>1, <1>2, <2>2 DEF Task, Control, Building
  <2>5. Task(p)'
    BY <1>1, <2>1, <2>2, <2>4, RestatedTask DEF ghosts
  <2>6. \A q \in Proc : q # p => pc'[q] = pc[q] /\ job'[q] = job[q]
    BY <1>5, Moves
  <2>7. Shape'
    BY <1>1, <1>5, <2>1, <2>2, <2>6, Moves DEF IInv, Shape, Same
  <2> QED
    BY <1>1, <1>2, <1>3, <2>2, <2>3, <2>5, <2>6, <2>7, Whole
<1> QED
  BY <1>4, <1>5 DEF Start

LEMMA StopStep ==
    ASSUME IInv, Apart', NEW p \in Proc, NEW n, n = N(p), Stop(p)
    PROVE  IInv'
<1>1. /\ pc[p] = "stop" /\ pc[p] # "idle" /\ Goto(p, "remove")
      /\ UNCHANGED <<conf, oneshot, vol, stanza, fed, born, state, cmds, faults, ghosts>>
  BY DEF Stop, At
<1>2. Task(p) /\ n \in Name /\ Held(n)
  BY <1>1, Local
<1>3. Counts'
  BY <1>1 DEF IInv, Counts, ghosts
<1>4. pc'[p] = "remove" /\ job'[p] = job[p] /\ N(p)' = n /\ I(p)' = I(p)
  BY <1>1, Moves
<1>5. Control(p)'
  BY <1>1, <1>2, <1>4 DEF Task, Control, Building, Cleanup
<1>6. CASE Running(n) /\ StopContainer(n)
  <2>1. Same(n)
    BY <1>1, <1>2, <1>6, Stopped DEF Running
  <2>2. Held(n)' /\ Only(n)
    BY <1>1, <1>2, <2>1, Restated DEF Same, Only, ghosts
  <2>3. Task(p)'
    BY <1>1, <1>4, <1>5, <2>1, RestatedTask DEF ghosts
  <2>4. \A q \in Proc : q # p => pc'[q] = pc[q] /\ job'[q] = job[q]
    BY <1>1, Moves
  <2>5. Shape'
    BY <1>1, <1>4, <2>1, <2>4, Moves DEF IInv, Shape, Same
  <2> QED
    BY <1>1, <1>2, <1>3, <1>4, <2>2, <2>3, <2>4, <2>5, Whole
<1>7. CASE UNCHANGED ctr
  <2>1. UNCHANGED <<hostVars, state, dropped>> /\ Only(n)
    BY <1>1, <1>7 DEF hostVars, ghosts, Only
  <2>2. Creates(p)' /\ Builds(p)'
    BY <1>1, <1>2, <1>4 DEF Task, Control, Creates, Builds, Building, Cleanup, Creating
  <2>3. Changes(p)' /\ Sizes(p)'
    BY <1>1, <1>2, <1>4, <1>7 DEF Task, Changes, Sizes, ghosts, Exists, Building
  <2> QED
    BY <1>1, <1>3, <1>5, <2>1, <2>2, <2>3, QuietGoes DEF ghosts
<1> QED
  BY <1>6, <1>7 DEF Stop

\* What removes the container of n, stray or not.
LEMMA Gone ==
    ASSUME IInv, NEW n \in Name, ctr' = [ctr EXCEPT ![n] = None],
           UNCHANGED <<conf, oneshot, vol, state, orphaned, dropped>>
    PROVE  /\ Held(n)' /\ Rest(n)' /\ ~Exists(n)' /\ DOMAIN ctr' = Name
           /\ \A m \in Name : m # n => ctr'[m] = ctr[m]
<1>1. ctr'[n] = None /\ DOMAIN ctr' = Name /\ \A m \in Name : m # n => ctr'[m] = ctr[m]
  BY DEF IInv, Shape
<1>2. Held(n) /\ ~Exists(n)' /\ Rest(n)'
  BY <1>1 DEF IInv, Exists, Rest
<1>3. HostTypes(n)' /\ Saved(n)' /\ Made(n)' /\ Files(n)' /\ Upgraded(n)'
  BY <1>1, <1>2 DEF Held, HostTypes, Saved, Made, Files, Upgraded, IsCluster
<1> QED
  BY <1>1, <1>2, <1>3 DEF Held

LEMMA CleanContainerStep ==
    ASSUME IInv, Apart', NEW p \in Proc, NEW n, n = N(p), CleanContainer(p)
    PROVE  IInv'
<1>1. /\ pc[p] = "cleanContainer" /\ pc[p] # "idle" /\ Goto(p, "cleanVolume")
      /\ ctr' = [ctr EXCEPT ![n] = None]
      /\ UNCHANGED <<conf, oneshot, vol, stanza, fed, born, state, cmds, faults, ghosts>>
  BY DEF CleanContainer, At
<1>2. Task(p) /\ n \in Name /\ job[p].cmd \in Creating
  BY <1>1, Local DEF Task, Control, Building
<1>3. pc'[p] = "cleanVolume" /\ job'[p] = job[p] /\ N(p)' = n /\ I(p)' = I(p)
  BY <1>1, Moves
<1>4. /\ Held(n)' /\ ~Exists(n)' /\ DOMAIN ctr' = Name
      /\ \A m \in Name : m # n => ctr'[m] = ctr[m]
  BY <1>1, <1>2, Gone DEF ghosts
<1>5. Only(n) /\ Counts'
  BY <1>1, <1>4 DEF IInv, Counts, Only, ghosts
<1>6. \A q \in Proc : q # p => pc'[q] = pc[q] /\ job'[q] = job[q]
  BY <1>1, Moves
<1>7. Shape'
  BY <1>1, <1>3, <1>4, <1>6, Moves DEF IInv, Shape
<1>8. Control(p)' /\ Changes(p)' /\ Sizes(p)' /\ Builds(p)'
  BY <1>2, <1>3 DEF Control, Changes, Sizes, Builds, Cleanup
<1>9. Creates(p)'
  BY <1>1, <1>2, <1>3, <1>4 DEF Task, Creates, ghosts
<1> QED
  BY <1>1, <1>2, <1>3, <1>4, <1>5, <1>6, <1>7, <1>8, <1>9, Whole DEF Task

LEMMA RemoveStep ==
    ASSUME IInv, Apart', NEW p \in Proc, NEW n, n = N(p), Remove(p)
    PROVE  IInv'
<1>1. /\ pc[p] = "remove" /\ pc[p] # "idle"
      /\ ctr' = [ctr EXCEPT ![n] = None] /\ late' = late \ {n}
      /\ UNCHANGED <<conf, oneshot, vol, stanza, fed, born, state, cmds, faults,
                     orphaned, unsaved, dropped, raced>>
  BY DEF Remove, At
<1>2. Task(p) /\ n \in Name /\ job[p].cmd \in {"rotate", "resize", "upgrade", "destroy"}
  BY <1>1, Local DEF Task, Control, Building, Cleanup
<1> DEFINE l == CASE job[p].cmd \in {"rotate", "resize"} -> "conf"
                  [] job[p].cmd = "upgrade" -> "oneshot"
                  [] job[p].cmd = "destroy" -> "rmVolume"
<1>3. Goto(p, l)
  BY <1>1 DEF Remove
<1>4. /\ job[p].cmd \in {"rotate", "resize"} => l = "conf"
      /\ job[p].cmd = "upgrade" => l = "oneshot"
      /\ job[p].cmd = "destroy" => l = "rmVolume"
  OBVIOUS
<1> HIDE DEF l
<1>5. pc'[p] = l /\ job'[p] = job[p] /\ N(p)' = n /\ I(p)' = I(p)
  BY <1>3, Moves
<1>6. /\ Held(n)' /\ ~Exists(n)' /\ DOMAIN ctr' = Name
      /\ \A m \in Name : m # n => ctr'[m] = ctr[m]
  BY <1>1, <1>2, Gone
<1>7. Only(n) /\ Counts'
  BY <1>1, <1>6 DEF IInv, Counts, Only
<1>8. \A q \in Proc : q # p => pc'[q] = pc[q] /\ job'[q] = job[q]
  BY <1>3, Moves
<1>9. l # "idle"
  BY <1>2, <1>4
<1>10. Shape'
  BY <1>1, <1>3, <1>5, <1>6, <1>8, <1>9, Moves DEF IInv, Shape
<1>11. Control(p)' /\ Creates(p)' /\ Builds(p)'
  BY <1>2, <1>4, <1>5 DEF Control, Creates, Builds, Building, Creating
<1>12. Changes(p)' /\ Sizes(p)'
  BY <1>1, <1>2, <1>4, <1>5, <1>6 DEF Task, Changes, Sizes, Building, Creating
<1> QED
  BY <1>1, <1>2, <1>5, <1>6, <1>7, <1>8, <1>9, <1>10, <1>11, <1>12, Whole DEF Task

-----------------------------------------------------------------------------
(* Stanzas and state.toml                                                  *)

\* Held is not about stanzas, and commands may stop beside their change.
LEMMA HeldStays ==
    ASSUME NEW n \in Name, Held(n), UNCHANGED <<conf, ctr, oneshot, vol, state, dropped, orphaned>>
    PROVE  Held(n)'
<1>1. HostTypes(n)' /\ Saved(n)' /\ Made(n)' /\ Upgraded(n)'
  BY DEF Held, HostTypes, Saved, Made, Upgraded, IsCluster, Exists, Up
<1>2. Files(n)'
  BY DEF Held, Files, Exists, Astray, Fits, Filed, Running
<1> QED
  BY <1>1, <1>2 DEF Held

LEMMA ReadyStep ==
    ASSUME IInv, Apart', NEW p \in Proc, NEW n, n = N(p), Ready(p)
    PROVE  IInv'
<1>1. /\ pc[p] = "ready" /\ pc[p] # "idle" /\ Up(n)
      /\ UNCHANGED <<conf, ctr, oneshot, vol, fed, born, state, cmds, faults, ghosts>>
  BY DEF Ready, At
<1>2. /\ Task(p) /\ n \in Name /\ Held(n) /\ job[p] \in Job
      /\ ctr[n].vol = I(p).vol /\ ctr[n].ver = I(p).ver /\ ctr[n].mem = I(p).preset
  BY <1>1, Local DEF Task, Builds
<1>3. IsCluster(I(p).vol, I(p).ver)
  BY <1>1, <1>2 DEF Held, Made, Up
<1> DEFINE c == vol[ctr[n].vol]
           r == ctr[n].repo
<1>4. \/ Quit(p) /\ UNCHANGED stanza /\ job[p].cmd \notin Creating
      \/ Goto(p, "save") /\ UNCHANGED stanza /\ job[p].cmd \in Creating
      \/ /\ Goto(p, "save") /\ job[p].cmd \in Creating
         /\ stanza' = [stanza EXCEPT ![r] = [sys |-> c.sys, ver |-> c.ver]]
      \/ Err(p) /\ UNCHANGED stanza
  BY <1>2 DEF Ready, Job, Command
<1>5. CASE Quit(p) /\ UNCHANGED stanza /\ job[p].cmd \notin Creating
  <2>1. UNCHANGED hostVars /\ Only(n) /\ Counts'
    BY <1>1, <1>5 DEF IInv, Counts, Only, hostVars, ghosts
  <2>2. Rest(n)
    BY <1>2, <1>5 DEF Task, Changes, Rest
  <2>3. Rest(n)'
    BY <1>1, <2>2 DEF Rest, Exists, ghosts
  <2> QED
    BY <1>1, <1>5, <2>1, <2>3, QuietQuits DEF ghosts
<1>6. CASE Err(p) /\ UNCHANGED stanza
  <2>1. UNCHANGED hostVars /\ Counts'
    BY <1>1, <1>6 DEF IInv, Counts, hostVars, ghosts
  <2> QED
    BY <1>1, <1>6, <2>1, Errs DEF ghosts
<1>7. CASE /\ Goto(p, "save") /\ job[p].cmd \in Creating
           /\ \/ UNCHANGED stanza
              \/ stanza' = [stanza EXCEPT ![r] = [sys |-> c.sys, ver |-> c.ver]]
  <2>1. c \in Cluster
    BY <1>2, <1>3 DEF IsCluster
  <2>2. [sys |-> c.sys, ver |-> c.ver] \in [sys: 1 .. MaxCluster, ver: Ver]
    BY <2>1 DEF Cluster, Lineage
  <2> HIDE DEF c, r
  <2>3. /\ DOMAIN stanza' = Name
        /\ \A m \in Name : stanza'[m] = None \/ stanza'[m] \in [sys: 1 .. MaxCluster, ver: Ver]
    BY <1>7, <2>2 DEF IInv, Shape, Counts
  <2>4. pc'[p] = "save" /\ job'[p] = job[p] /\ N(p)' = n /\ I(p)' = I(p)
    BY <1>7, Moves
  <2>5. \A q \in Proc : q # p => pc'[q] = pc[q] /\ job'[q] = job[q]
    BY <1>7, Moves
  <2>6. Shape'
    BY <1>1, <1>7, <2>3, <2>4, <2>5, Moves DEF IInv, Shape
  <2>7. Counts' /\ Only(n) /\ Held(n)'
    BY <1>1, <1>2, <2>3, HeldStays DEF IInv, Counts, Only, ghosts
  <2>8. Control(p)' /\ Changes(p)' /\ Sizes(p)'
    BY <1>7, <2>4 DEF Control, Changes, Sizes
  <2>9. Creates(p)'
    BY <1>1, <1>2, <2>4 DEF Task, Creates, ghosts
  <2>10. Builds(p)'
    BY <1>1, <1>2, <1>3, <2>4 DEF Task, Builds, Mine, Fits, Filed, Exists, Running, IsCluster
  <2> QED
    BY <1>1, <1>2, <2>4, <2>5, <2>6, <2>7, <2>8, <2>9, <2>10, Whole DEF Task
<1> QED
  BY <1>4, <1>5, <1>6, <1>7

LEMMA DeleteStanzaStep ==
    ASSUME IInv, Apart', NEW p \in Proc, NEW n, n = N(p), DeleteStanza(p)
    PROVE  IInv'
<1>1. /\ pc[p] = "wipe" /\ pc[p] # "idle"
      /\ UNCHANGED <<conf, ctr, oneshot, vol, born, state, cmds, faults, ghosts>>
  BY DEF DeleteStanza, At
<1>2. Task(p) /\ n \in Name /\ Held(n) /\ job[p].cmd = "destroy"
  BY <1>1, Local DEF Task, Control, Building, Cleanup
<1>3. CASE Quit(p) /\ UNCHANGED <<stanza, fed>>
  <2>1. UNCHANGED hostVars /\ Only(n) /\ Counts'
    BY <1>1, <1>3 DEF IInv, Counts, Only, hostVars, ghosts
  <2>2. Rest(n)
    BY <1>1, <1>2, ChangeStops DEF Creating
  <2>3. Rest(n)'
    BY <1>1, <2>2 DEF Rest, Exists, ghosts
  <2> QED
    BY <1>1, <1>3, <2>1, <2>3, QuietQuits DEF ghosts
<1>4. CASE /\ stanza' = [stanza EXCEPT ![ctr[n].repo] = None]
           /\ fed' = [fed EXCEPT ![ctr[n].repo] = {}]
           /\ Goto(p, "stop")
  <2>1. /\ DOMAIN stanza' = Name /\ fed' \in [Name -> SUBSET (1 .. MaxCluster)]
        /\ \A m \in Name : stanza'[m] = None \/ stanza'[m] \in [sys: 1 .. MaxCluster, ver: Ver]
    BY <1>4 DEF IInv, Shape, Counts
  <2>2. pc'[p] = "stop" /\ job'[p] = job[p] /\ N(p)' = n /\ I(p)' = I(p)
    BY <1>4, Moves
  <2>3. \A q \in Proc : q # p => pc'[q] = pc[q] /\ job'[q] = job[q]
    BY <1>4, Moves
  <2>4. Shape'
    BY <1>1, <1>4, <2>1, <2>2, <2>3, Moves DEF IInv, Shape
  <2>5. Counts' /\ Only(n) /\ Held(n)'
    BY <1>1, <1>2, <2>1, HeldStays DEF IInv, Counts, Only, ghosts
  <2>6. Control(p)' /\ Creates(p)' /\ Builds(p)'
    BY <1>2, <2>2 DEF Control, Creates, Builds, Creating
  <2>7. Changes(p)' /\ Sizes(p)'
    BY <1>1, <1>2, <2>2 DEF Task, Changes, Sizes, ghosts, Exists, Building, Creating
  <2> QED
    BY <1>1, <1>2, <2>2, <2>3, <2>4, <2>5, <2>6, <2>7, Whole DEF Task
<1> QED
  BY <1>3, <1>4 DEF DeleteStanza

\* What a fault adds to the counts.
LEMMA Faulty == IInv /\ Fault => faults' \in 0 .. MaxFaults
BY BoundsAssumption DEF IInv, Counts, Fault, BoundsAssumption

\* save_under_locked has put the file in place, and returns Ok or Err.
LEMMA Registered ==
    ASSUME IInv, Apart', NEW p \in Proc, NEW n, n = N(p), pc[p] = "save", Quit(p),
           state' = [state EXCEPT ![n] = I(p)], dropped' = dropped \ {n},
           UNCHANGED <<hostVars, cmds, orphaned, unsaved, raced, late>>,
           faults' \in 0 .. MaxFaults
    PROVE  IInv'
<1>1. /\ pc[p] = "save" /\ pc[p] # "idle" /\ Quit(p) /\ dropped' = dropped \ {n}
      /\ state' = [state EXCEPT ![n] = I(p)]
      /\ UNCHANGED <<hostVars, cmds, orphaned, unsaved, raced, late>>
  OBVIOUS
<1>2. /\ Task(p) /\ n \in Name /\ Held(n) /\ job[p].cmd \in Creating
      /\ I(p) \in Instance /\ I(p).vol \in {DataVolume(n), NewVolume(n)}
  BY <1>1, Local DEF Task, Control, Building
<1>3. /\ state'[n] = I(p) /\ DOMAIN state' = Name
      /\ \A m \in Name : m # n => state'[m] = state[m]
  BY <1>1, <1>2 DEF IInv, Shape
<1>4. /\ pc'[p] = "idle" /\ job'[p] = None /\ DOMAIN pc' = Proc /\ DOMAIN job' = Proc
      /\ \A q \in Proc : q # p => pc'[q] = pc[q] /\ job'[q] = job[q]
  BY <1>1 DEF IInv, Shape, Quit
<1>5. Shape' /\ Counts' /\ Only(n)
  BY <1>1, <1>3, <1>4 DEF IInv, Shape, Counts, Only, hostVars
<1>6. /\ I(p).vol = DataVolume(n) /\ I(p).port # None
      /\ Mine(p) /\ Fits(n) /\ Filed(n) /\ IsCluster(I(p).vol, I(p).ver)
      /\ ctr[n].vol = I(p).vol /\ ctr[n].ver = I(p).ver
      /\ ctr[n].port = I(p).port /\ ctr[n].mem = I(p).preset
  BY <1>1, <1>2 DEF Task, Creates, Builds
<1>7. HostTypes(n)' /\ Upgraded(n)' /\ Saved(n)'
  BY <1>1, <1>2, <1>3, <1>6 DEF Held, HostTypes, Upgraded, Saved, IsCluster, hostVars
<1>8. Made(n)' /\ Rest(n)'
  BY <1>1, <1>2, <1>3, <1>6, StateAssumption
     DEF Held, Made, IsCluster, hostVars, Exists, Up, Rest
<1>9. Files(n)'
  BY <1>1, <1>2, <1>6 DEF Held, Files, Exists, Fits, Filed, Running, hostVars
<1> QED
  BY <1>1, <1>2, <1>4, <1>5, <1>7, <1>8, <1>9, Whole DEF Held

LEMMA SaveStep ==
    ASSUME IInv, Apart', NEW p \in Proc, NEW n, n = N(p), Save(p)
    PROVE  IInv'
<1>1. faults' \in 0 .. MaxFaults
  BY DEF Save, IInv, Counts
<1> QED
  BY <1>1, Registered DEF Save, At

LEMMA UpdateStep ==
    ASSUME IInv, Apart', NEW p \in Proc, NEW n, n = N(p), UpdateState(p)
    PROVE  IInv'
<1>1. /\ pc[p] = "update" /\ pc[p] # "idle"
      /\ UNCHANGED <<hostVars, cmds, faults, ghosts>>
  BY DEF UpdateState, At
<1>2. Task(p) /\ n \in Name /\ Held(n) /\ job[p].cmd = "upgrade" /\ job[p] \in Job
  BY <1>1, Local DEF Task, Control, Building, Cleanup
<1>3. /\ state[n] # None /\ state[n] = I(p) /\ state[n] \in Instance /\ ~Exists(n)
      /\ IsCluster(NewVolume(n), 2) /\ state[n].port # None
  BY <1>1, <1>2 DEF Task, Changes, Creating, Held, Saved
<1> DEFINE i == [state[n] EXCEPT !.ver = 2, !.vol = NewVolume(n)]
<1>4. /\ state' = [state EXCEPT ![n] = i] /\ pc' = [pc EXCEPT ![p] = "conf"]
      /\ job' = [job EXCEPT ![p].inst = i]
  BY <1>3 DEF UpdateState
<1>5. i \in Instance /\ i.ver = 2 /\ i.vol = NewVolume(n) /\ i.port # None
  BY <1>2, <1>3, Volumes DEF Instance, Ver
<1>6. i # None
  BY <1>5, StateAssumption
<1> HIDE DEF i
<1>7. /\ state'[n] = i /\ DOMAIN state' = Name
      /\ \A m \in Name : m # n => state'[m] = state[m]
  BY <1>2, <1>4 DEF IInv, Shape
<1>8. /\ pc'[p] = "conf" /\ job'[p] = [job[p] EXCEPT !.inst = i]
      /\ DOMAIN pc' = Proc /\ DOMAIN job' = Proc
      /\ \A q \in Proc : q # p => pc'[q] = pc[q] /\ job'[q] = job[q]
  BY <1>4 DEF IInv, Shape
<1>9. job'[p] \in Job /\ job'[p].cmd = "upgrade" /\ N(p)' = n /\ I(p)' = i
  BY <1>2, <1>5, <1>8 DEF Job, N, I
<1>10. Shape' /\ Counts' /\ Only(n)
  BY <1>1, <1>7, <1>8 DEF IInv, Shape, Counts, Only, hostVars, ghosts
<1>11. Held(n)'
  <2>1. HostTypes(n)' /\ Upgraded(n)' /\ Saved(n)'
    BY <1>1, <1>2, <1>3, <1>5, <1>7
       DEF Held, HostTypes, Upgraded, Saved, IsCluster, hostVars, ghosts
  <2>2. Made(n)' /\ Files(n)'
    BY <1>1, <1>2, <1>3 DEF Held, Made, Files, Exists, hostVars
  <2> QED
    BY <2>1, <2>2 DEF Held
<1>12. Task(p)'
  BY <1>1, <1>3, <1>6, <1>7, <1>8, <1>9
     DEF Task, Control, Creates, Changes, Sizes, Builds, Building, Creating, Exists, hostVars
<1> QED
  BY <1>1, <1>2, <1>8, <1>9, <1>10, <1>11, <1>12, Whole

\* update_under with nothing changed but the preset.
LEMMA Resized ==
    ASSUME IInv, NEW n \in Name, state[n] # None, NEW t \in Preset,
           state' = [state EXCEPT ![n] = [state[n] EXCEPT !.preset = t]],
           UNCHANGED <<hostVars, orphaned, dropped>>
    PROVE  /\ Held(n)' /\ DOMAIN state' = Name
           /\ state'[n] \in Instance /\ state'[n] # None /\ state'[n].preset = t
           /\ \A m \in Name : m # n => state'[m] = state[m]
<1> DEFINE i == [state[n] EXCEPT !.preset = t]
<1>1. Held(n) /\ state[n] \in Instance /\ state[n].port # None
  BY DEF IInv, Held, Saved
<1>2. /\ i \in Instance /\ i.vol = state[n].vol /\ i.ver = state[n].ver
      /\ i.port = state[n].port /\ i.preset = t
  BY <1>1 DEF Instance
<1>3. i # None
  BY <1>2, StateAssumption
<1>4. /\ state'[n] = i /\ DOMAIN state' = Name
      /\ \A m \in Name : m # n => state'[m] = state[m]
  BY DEF IInv, Shape
<1> HIDE DEF i
<1>5. HostTypes(n)' /\ Saved(n)' /\ Upgraded(n)'
  BY <1>1, <1>2, <1>4 DEF Held, HostTypes, Saved, Upgraded, IsCluster, hostVars
<1>6. Made(n)'
  BY <1>1, <1>2, <1>4 DEF Held, Made, IsCluster, Exists, Up, hostVars
<1>7. Files(n)'
  BY <1>1, <1>3, <1>4 DEF Held, Files, Exists, Astray, Fits, Filed, Running, hostVars
<1> QED
  BY <1>2, <1>3, <1>4, <1>5, <1>6, <1>7 DEF Held

LEMMA SetPresetStep ==
    ASSUME IInv, Apart', NEW p \in Proc, NEW n, n = N(p), SetPreset(p)
    PROVE  IInv'
<1>1. /\ pc[p] = "preset" /\ pc[p] # "idle"
      /\ UNCHANGED <<hostVars, cmds, faults, ghosts>>
  BY DEF SetPreset, At
<1>2. Task(p) /\ n \in Name /\ Held(n) /\ job[p].cmd = "resize" /\ job[p] \in Job
  BY <1>1, Local DEF Task, Control, Building, Cleanup
<1>3. state[n] # None /\ state[n] = I(p) /\ state[n] \in Instance
  BY <1>1, <1>2 DEF Task, Changes, Creating, Held, Saved
<1> DEFINE t == Other(I(p).preset)
           i == [state[n] EXCEPT !.preset = t]
<1>4. t \in Preset /\ Other(t) = I(p).preset
  BY <1>3, Others DEF Instance
<1>5. /\ state' = [state EXCEPT ![n] = i] /\ pc' = [pc EXCEPT ![p] = "stop"]
      /\ job' = [job EXCEPT ![p].inst = i]
  BY <1>3 DEF SetPreset
<1> HIDE DEF t
<1>6. UNCHANGED <<hostVars, orphaned, dropped>>
  BY <1>1 DEF ghosts
<1>7. state' = [state EXCEPT ![n] = [state[n] EXCEPT !.preset = t]]
  BY <1>5
<1>8. /\ Held(n)' /\ DOMAIN state' = Name
      /\ state'[n] \in Instance /\ state'[n] # None /\ state'[n].preset = t
      /\ \A m \in Name : m # n => state'[m] = state[m]
  BY <1>2, <1>3, <1>4, <1>6, <1>7, Resized
<1>9. state'[n] = i
  BY <1>2, <1>5 DEF IInv, Shape
<1> HIDE DEF i
<1>10. /\ pc'[p] = "stop" /\ job'[p] = [job[p] EXCEPT !.inst = i]
      /\ DOMAIN pc' = Proc /\ DOMAIN job' = Proc
      /\ \A q \in Proc : q # p => pc'[q] = pc[q] /\ job'[q] = job[q]
  BY <1>5 DEF IInv, Shape
<1>11. job'[p] \in Job /\ job'[p].cmd = "resize" /\ N(p)' = n /\ I(p)' = i
  BY <1>2, <1>8, <1>9, <1>10 DEF Job, N, I
<1>12. Shape' /\ Counts' /\ Only(n)
  BY <1>1, <1>8, <1>10 DEF IInv, Shape, Counts, Only, hostVars, ghosts
<1>13. Control(p)' /\ Creates(p)' /\ Builds(p)'
  BY <1>10, <1>11 DEF Control, Creates, Builds, Creating
<1>14. Changes(p)'
  BY <1>8, <1>9, <1>10, <1>11 DEF Changes, Building
<1>15. Sizes(p)'
  BY <1>1, <1>2, <1>4, <1>8, <1>9, <1>10, <1>11 DEF Task, Sizes, Exists, hostVars, ghosts, Creating
<1> QED
  BY <1>1, <1>2, <1>8, <1>10, <1>11, <1>12, <1>13, <1>14, <1>15, Whole DEF Task

LEMMA RollBackStep ==
    ASSUME IInv, Apart', NEW p \in Proc, NEW n, n = N(p), RollBack(p)
    PROVE  IInv'
<1>1. /\ pc[p] = "rollback" /\ pc[p] # "idle" /\ Quit(p)
      /\ late' = IF Mine(p) THEN late \cup {n} ELSE late
      /\ UNCHANGED <<hostVars, cmds, faults, orphaned, unsaved, dropped, raced>>
  BY DEF RollBack, At
<1>2. Task(p) /\ n \in Name /\ Held(n) /\ job[p].cmd = "resize"
  BY <1>1, Local DEF Task, Control, Building, Cleanup
<1>3. state[n] # None /\ state[n] = I(p) /\ state[n] \in Instance
  BY <1>1, <1>2 DEF Task, Changes, Creating, Held, Saved
<1> DEFINE t == Other(I(p).preset)
<1>4. t \in Preset
  BY <1>3, Others DEF Instance
<1>5. state' = [state EXCEPT ![n] = [state[n] EXCEPT !.preset = t]]
  BY <1>2, <1>3 DEF RollBack, IInv, Shape
<1> HIDE DEF t
<1>6. /\ Held(n)' /\ DOMAIN state' = Name
      /\ state'[n] # None /\ state'[n].preset = t
      /\ \A m \in Name : m # n => state'[m] = state[m]
  BY <1>1, <1>2, <1>3, <1>4, <1>5, Resized
<1>7. /\ pc'[p] = "idle" /\ job'[p] = None /\ DOMAIN pc' = Proc /\ DOMAIN job' = Proc
      /\ \A q \in Proc : q # p => pc'[q] = pc[q] /\ job'[q] = job[q]
  BY <1>1 DEF IInv, Shape, Quit
<1>8. Shape' /\ Counts' /\ Only(n)
  BY <1>1, <1>2, <1>6, <1>7 DEF IInv, Shape, Counts, Only, hostVars
<1>9. Rest(n)'
  BY <1>1, <1>2, <1>6 DEF Task, Sizes, Rest, Exists, Mine, hostVars, Creating, t
<1> QED
  BY <1>1, <1>2, <1>6, <1>7, <1>8, <1>9, Whole

\* update_under and save_under_locked put the file in place and return Err.
LEMMA UpdateUnsynced ==
    ASSUME IInv, Apart', NEW p \in Proc, NEW n, n = N(p), SaveUnsynced(p), pc[p] = "update"
    PROVE  IInv'
<1>1. /\ Quit(p) /\ state[n] # None /\ UNCHANGED <<hostVars, cmds, ghosts>>
      /\ state' = [state EXCEPT ![n] = [state[n] EXCEPT !.ver = 2, !.vol = NewVolume(n)]]
      /\ faults' \in 0 .. MaxFaults
  BY Faulty DEF SaveUnsynced, ghosts
<1>2. Task(p) /\ n \in Name /\ Held(n) /\ job[p].cmd = "upgrade"
  BY Local DEF Task, Control, Building, Cleanup
<1>3. /\ state[n] \in Instance /\ ~Exists(n)
      /\ IsCluster(NewVolume(n), 2) /\ state[n].port # None
  BY <1>1, <1>2 DEF Task, Changes, Creating, Held, Saved
<1> DEFINE i == [state[n] EXCEPT !.ver = 2, !.vol = NewVolume(n)]
<1>4. i \in Instance /\ i.ver = 2 /\ i.vol = NewVolume(n) /\ i.port # None
  BY <1>2, <1>3, Volumes DEF Instance, Ver
<1>5. state' = [state EXCEPT ![n] = i]
  BY <1>1
<1> HIDE DEF i
<1>6. /\ state'[n] = i /\ DOMAIN state' = Name
      /\ \A m \in Name : m # n => state'[m] = state[m]
  BY <1>2, <1>5 DEF IInv, Shape
<1>7. /\ pc'[p] = "idle" /\ job'[p] = None /\ DOMAIN pc' = Proc /\ DOMAIN job' = Proc
      /\ \A q \in Proc : q # p => pc'[q] = pc[q] /\ job'[q] = job[q]
  BY <1>1 DEF IInv, Shape, Quit
<1>8. Shape' /\ Counts' /\ Only(n)
  BY <1>1, <1>6, <1>7 DEF IInv, Shape, Counts, Only, hostVars, ghosts
<1>9. HostTypes(n)' /\ Upgraded(n)' /\ Saved(n)'
  BY <1>1, <1>2, <1>3, <1>4, <1>6
     DEF Held, HostTypes, Upgraded, Saved, IsCluster, hostVars, ghosts
<1>10. Made(n)' /\ Files(n)' /\ Rest(n)'
  BY <1>1, <1>2, <1>3 DEF Held, Made, Files, Rest, Exists, hostVars
<1> QED
  BY <1>2, <1>7, <1>8, <1>9, <1>10, Whole DEF Held

LEMMA PresetUnsynced ==
    ASSUME IInv, Apart', NEW p \in Proc, NEW n, n = N(p), SaveUnsynced(p), pc[p] = "preset"
    PROVE  IInv'
<1> DEFINE t == Other(I(p).preset)
<1>1. /\ Quit(p) /\ state[n] # None /\ UNCHANGED <<hostVars, cmds, orphaned, unsaved, dropped, raced>>
      /\ state' = [state EXCEPT ![n] = [state[n] EXCEPT !.preset = t]]
      /\ faults' \in 0 .. MaxFaults /\ late' = late \cup {n}
  BY Faulty DEF SaveUnsynced
<1>2. n \in Name /\ t \in Preset
  BY Local, Others
<1> HIDE DEF t
<1>3. /\ Held(n)' /\ DOMAIN state' = Name /\ state'[n] # None
      /\ \A m \in Name : m # n => state'[m] = state[m]
  BY <1>1, <1>2, Resized
<1>4. /\ pc'[p] = "idle" /\ job'[p] = None /\ DOMAIN pc' = Proc /\ DOMAIN job' = Proc
      /\ \A q \in Proc : q # p => pc'[q] = pc[q] /\ job'[q] = job[q]
  BY <1>1 DEF IInv, Shape, Quit
<1>5. Shape' /\ Counts' /\ Only(n)
  BY <1>1, <1>2, <1>3, <1>4 DEF IInv, Shape, Counts, Only, hostVars
<1>6. Rest(n)'
  BY <1>1, <1>3 DEF Rest
<1> QED
  BY <1>2, <1>3, <1>4, <1>5, <1>6, Whole

LEMMA SaveUnsyncedStep ==
    ASSUME IInv, Apart', NEW p \in Proc, NEW n, n = N(p), SaveUnsynced(p)
    PROVE  IInv'
<1>1. CASE pc[p] = "save"
  <2>1. faults' \in 0 .. MaxFaults
    BY Faulty DEF SaveUnsynced
  <2> QED
    BY <1>1, <2>1, Registered DEF SaveUnsynced
<1>2. CASE pc[p] \in {"update", "preset"}
  BY <1>2, UpdateUnsynced, PresetUnsynced
<1> QED
  BY <1>1, <1>2 DEF SaveUnsynced

-----------------------------------------------------------------------------
(* Volumes and upgrade containers                                          *)

\* A volume that no container is on goes.
LEMMA Emptied ==
    ASSUME IInv, NEW n \in Name, NEW v \in {DataVolume(n), NewVolume(n)}, ~InUse(v),
           vol' = [vol EXCEPT ![v] = None], state[n] = None \/ n \in dropped',
           UNCHANGED <<conf, ctr, oneshot, state, orphaned>>
    PROVE  /\ Held(n)' /\ DOMAIN vol' = Volume
           /\ \A m \in Name : m # n => /\ vol'[DataVolume(m)] = vol[DataVolume(m)]
                                       /\ vol'[NewVolume(m)] = vol[NewVolume(m)]
<1>1. /\ DOMAIN vol' = Volume /\ vol'[v] = None
      /\ \A w \in Volume : w # v => vol'[w] = vol[w]
  BY Volumes DEF IInv, Shape
<1>2. Held(n) /\ (Exists(n) => ctr[n].vol # v) /\ oneshot[n] = None
  BY DEF IInv, InUse
<1>3. \A m \in Name : m # n => /\ vol'[DataVolume(m)] = vol[DataVolume(m)]
                               /\ vol'[NewVolume(m)] = vol[NewVolume(m)]
  BY <1>1, Volumes
<1>4. HostTypes(n)'
  BY <1>1, <1>2, Volumes DEF Held, HostTypes
<1>5. Saved(n)' 
  BY <1>2 DEF Held, Saved
<1>6. Upgraded(n)'
  BY <1>2, HostAssumption DEF Upgraded, HostAssumption
<1>7. Made(n)'
  BY <1>1, <1>2, Volumes DEF Held, Made, IsCluster, Exists, Up
<1>8. Files(n)'
  BY <1>2 DEF Held, Files, Exists, Astray, Fits, Filed, Running
<1> QED
  BY <1>1, <1>3, <1>4, <1>5, <1>6, <1>7, <1>8 DEF Held

LEMMA CleanVolumeStep ==
    ASSUME IInv, Apart', NEW p \in Proc, NEW n, n = N(p), CleanVolume(p)
    PROVE  IInv'
<1>1. /\ pc[p] = "cleanVolume" /\ pc[p] # "idle" /\ Goto(p, "cleanConf")
      /\ UNCHANGED <<conf, ctr, oneshot, stanza, fed, born, state, cmds, faults, ghosts>>
  BY DEF CleanVolume, At
<1>2. /\ Task(p) /\ n \in Name /\ job[p].cmd \in Creating /\ Held(n)
      /\ I(p).vol \in {DataVolume(n), NewVolume(n)}
  BY <1>1, Local DEF Task, Control, Building
<1>3. pc'[p] = "cleanConf" /\ job'[p] = job[p] /\ N(p)' = n /\ I(p)' = I(p)
  BY <1>1, Moves
<1>4. state[n] = None
  BY <1>2 DEF Task, Creates
<1>5. Control(p)' /\ Changes(p)' /\ Sizes(p)' /\ Builds(p)'
  BY <1>2, <1>3 DEF Control, Changes, Sizes, Builds, Cleanup
<1>6. Creates(p)'
  BY <1>1, <1>2, <1>3 DEF Task, Creates, ghosts, Exists
<1>7. Counts'
  BY <1>1 DEF IInv, Counts, ghosts
<1>8. CASE vol' = vol
  <2>1. UNCHANGED <<hostVars, state, dropped>> /\ Only(n)
    BY <1>1, <1>8 DEF hostVars, ghosts, Only
  <2> QED
    BY <1>1, <1>5, <1>6, <1>7, <2>1, QuietGoes DEF ghosts
<1>9. CASE ~InUse(I(p).vol) /\ vol' = [vol EXCEPT ![I(p).vol] = None]
  <2>1. /\ Held(n)' /\ DOMAIN vol' = Volume
        /\ \A m \in Name : m # n => /\ vol'[DataVolume(m)] = vol[DataVolume(m)]
                                    /\ vol'[NewVolume(m)] = vol[NewVolume(m)]
    BY <1>1, <1>2, <1>4, <1>9, Emptied DEF ghosts
  <2>2. \A q \in Proc : q # p => pc'[q] = pc[q] /\ job'[q] = job[q]
    BY <1>1, Moves
  <2>3. Shape'
    BY <1>1, <1>3, <2>1, <2>2, Moves DEF IInv, Shape
  <2>4. Only(n)
    BY <1>1, <2>1 DEF Only, ghosts
  <2> QED
    BY <1>1, <1>2, <1>3, <1>5, <1>6, <1>7, <2>1, <2>2, <2>3, <2>4, Whole DEF Task
<1> QED
  BY <1>8, <1>9 DEF CleanVolume

LEMMA RemoveVolumeStep ==
    ASSUME IInv, Apart', NEW p \in Proc, NEW n, n = N(p), RemoveVolume(p)
    PROVE  IInv'
<1>1. /\ pc[p] = "rmVolume" /\ pc[p] # "idle"
      /\ UNCHANGED <<conf, ctr, oneshot, stanza, fed, born, state, cmds, faults,
                     orphaned, unsaved, raced, late>>
  BY DEF RemoveVolume, At
<1>2. /\ Task(p) /\ n \in Name /\ job[p].cmd = "destroy" /\ Held(n)
      /\ I(p).vol \in {DataVolume(n), NewVolume(n)}
  BY <1>1, Local DEF Task, Control, Building, Cleanup
<1>3. ~Exists(n)
  BY <1>1, <1>2 DEF Task, Changes, Creating
<1>4. CASE Quit(p) /\ UNCHANGED <<vol, dropped>>
  <2>1. UNCHANGED hostVars /\ Only(n) /\ Counts' /\ Rest(n)'
    BY <1>1, <1>3, <1>4 DEF IInv, Counts, Only, hostVars, Rest, Exists
  <2> QED
    BY <1>1, <1>4, <2>1, QuietQuits
<1>5. CASE /\ ~InUse(I(p).vol) /\ vol' = [vol EXCEPT ![I(p).vol] = None]
           /\ dropped' = dropped \cup {n} /\ Goto(p, "rmDir")
  <2>1. /\ Held(n)' /\ DOMAIN vol' = Volume
        /\ \A m \in Name : m # n => /\ vol'[DataVolume(m)] = vol[DataVolume(m)]
                                    /\ vol'[NewVolume(m)] = vol[NewVolume(m)]
    BY <1>1, <1>2, <1>5, Emptied
  <2>2. \A q \in Proc : q # p => pc'[q] = pc[q] /\ job'[q] = job[q]
    BY <1>5, Moves
  <2>3. pc'[p] = "rmDir" /\ job'[p] = job[p] /\ N(p)' = n /\ I(p)' = I(p)
    BY <1>5, Moves
  <2>4. Shape'
    BY <1>1, <1>5, <2>1, <2>2, <2>3, Moves DEF IInv, Shape
  <2>5. Only(n) /\ Counts'
    BY <1>1, <1>2, <1>5, <2>1 DEF Only, IInv, Counts
  <2>6. Control(p)' /\ Creates(p)' /\ Builds(p)' /\ Sizes(p)'
    BY <1>1, <1>2, <1>3, <2>3 DEF Control, Creates, Builds, Sizes, Creating, Exists
  <2>7. Changes(p)'
    BY <1>1, <1>2, <1>3, <2>3 DEF Task, Changes, Creating, Exists
  <2> QED
    BY <1>1, <1>2, <2>1, <2>2, <2>3, <2>4, <2>5, <2>6, <2>7, Whole DEF Task
<1> QED
  BY <1>4, <1>5 DEF RemoveVolume

LEMMA RemoveDirStep ==
    ASSUME IInv, Apart', NEW p \in Proc, NEW n, n = N(p), RemoveDir(p)
    PROVE  IInv'
<1>1. /\ pc[p] = "rmDir" /\ pc[p] # "idle" /\ Quit(p)
      /\ state' = [state EXCEPT ![n] = None] /\ conf' = [conf EXCEPT ![n] = NoConf]
      /\ UNCHANGED <<ctr, oneshot, vol, stanza, fed, born, cmds, faults, ghosts>>
  BY DEF RemoveDir, At
<1>2. Task(p) /\ n \in Name /\ job[p].cmd = "destroy" /\ Held(n)
  BY <1>1, Local DEF Task, Control, Building, Cleanup
<1>3. ~Exists(n)
  BY <1>1, <1>2 DEF Task, Changes, Creating
<1>4. /\ state'[n] = None /\ conf'[n] = NoConf /\ DOMAIN state' = Name /\ DOMAIN conf' = Name
      /\ \A m \in Name : m # n => state'[m] = state[m] /\ conf'[m] = conf[m]
  BY <1>1, <1>2 DEF IInv, Shape
<1>5. NoConf.archive = None /\ NoConf.preset = None
      /\ NoConf \in [archive: {None} \cup BOOLEAN, preset: {None} \cup Preset,
                     repo: {None} \cup Name]
  BY DEF NoConf
<1>6. /\ pc'[p] = "idle" /\ job'[p] = None /\ DOMAIN pc' = Proc /\ DOMAIN job' = Proc
      /\ \A q \in Proc : q # p => pc'[q] = pc[q] /\ job'[q] = job[q]
  BY <1>1 DEF IInv, Shape, Quit
<1>7. Shape' /\ Counts' /\ Only(n)
  BY <1>1, <1>4, <1>6 DEF IInv, Shape, Counts, Only, ghosts
<1>8. HostTypes(n)' /\ Upgraded(n)'
  BY <1>1, <1>2, <1>4, <1>5 DEF Held, HostTypes, Upgraded, IsCluster
<1>9. Saved(n)' /\ Made(n)' /\ Files(n)' /\ Rest(n)'
  BY <1>1, <1>3, <1>4, <1>5 DEF Saved, Made, Files, Rest, Exists
<1> QED
  BY <1>1, <1>2, <1>6, <1>7, <1>8, <1>9, Whole DEF Held

LEMMA CreateOneshotStep ==
    ASSUME IInv, Apart', NEW p \in Proc, NEW n, n = N(p), CreateOneshot(p)
    PROVE  IInv'
<1>1. /\ pc[p] = "oneshot" /\ pc[p] # "idle"
      /\ UNCHANGED <<conf, ctr, stanza, fed, born, state, cmds, faults, ghosts>>
  BY DEF CreateOneshot, At
<1>2. /\ Task(p) /\ n \in Name /\ job[p].cmd = "upgrade" /\ Held(n)
      /\ I(p).vol \in {DataVolume(n), NewVolume(n)}
  BY <1>1, Local DEF Task, Control, Building, Cleanup
<1>3. ~Exists(n) /\ state[n] # None /\ state[n] = I(p) /\ I(p).ver = 1
  BY <1>1, <1>2 DEF Task, Changes, Creating, Building
<1>4. CASE Quit(p) /\ UNCHANGED <<oneshot, vol>>
  <2>1. UNCHANGED hostVars /\ Only(n) /\ Counts' /\ Rest(n)'
    BY <1>1, <1>3, <1>4 DEF IInv, Counts, Only, hostVars, ghosts, Rest, Exists
  <2> QED
    BY <1>1, <1>4, <2>1, QuietQuits DEF ghosts
<1>5. CASE /\ oneshot' = [oneshot EXCEPT ![n] = "created"]
           /\ vol' = WithVolumes({I(p).vol, NewVolume(n)}) /\ Goto(p, "launch")
  <2>1. /\ oneshot'[n] = "created" /\ DOMAIN oneshot' = Name
        /\ \A m \in Name : m # n => oneshot'[m] = oneshot[m]
    BY <1>2, <1>5 DEF IInv, Shape
  <2>2. /\ DOMAIN vol' = Volume
        /\ \A v \in Volume \ {DataVolume(n), NewVolume(n)} : vol'[v] = vol[v]
        /\ \A v \in Volume : vol[v] \in Cluster => vol'[v] = vol[v]
        /\ \A v \in Volume : vol[v] \in Cluster \cup {None, Empty, Junk} =>
                vol'[v] \in Cluster \cup {None, Empty, Junk}
    BY <1>2, <1>5, Mounting
  <2>3. \A m \in Name : m # n => /\ vol'[DataVolume(m)] = vol[DataVolume(m)]
                                 /\ vol'[NewVolume(m)] = vol[NewVolume(m)]
    BY <1>2, <2>2, Volumes
  <2>4. pc'[p] = "launch" /\ job'[p] = job[p] /\ N(p)' = n /\ I(p)' = I(p)
    BY <1>5, Moves
  <2>5. \A q \in Proc : q # p => pc'[q] = pc[q] /\ job'[q] = job[q]
    BY <1>5, Moves
  <2>6. Shape'
    BY <1>1, <1>5, <2>1, <2>2, <2>4, <2>5, Moves DEF IInv, Shape
  <2>7. Only(n) /\ Counts'
    BY <1>1, <2>1, <2>3 DEF Only, IInv, Counts, ghosts
  <2>8. HostTypes(n)' /\ Upgraded(n)'
    BY <1>1, <1>2, <2>1, <2>2, Volumes DEF Held, HostTypes, Upgraded
  <2>9. Saved(n)'
    BY <1>1, <1>2, <2>2, Volumes DEF Held, Saved, IsCluster, ghosts
  <2>10. Made(n)' /\ Files(n)'
    BY <1>1, <1>2, <1>3 DEF Held, Made, Files, Exists
  <2>11. Control(p)' /\ Creates(p)' /\ Builds(p)' /\ Sizes(p)'
    BY <1>1, <1>2, <1>3, <2>4 DEF Control, Creates, Builds, Sizes, Creating, Exists
  <2>12. Changes(p)'
    BY <1>1, <1>2, <1>3, <2>4 DEF Changes, Creating, Exists
  <2> QED
    BY <1>1, <1>2, <2>4, <2>5, <2>6, <2>7, <2>8, <2>9, <2>10, <2>11, <2>12, Whole DEF Task, Held
<1> QED
  BY <1>4, <1>5 DEF CreateOneshot

LEMMA LaunchOneshotStep ==
    ASSUME IInv, Apart', NEW p \in Proc, NEW n, n = N(p), LaunchOneshot(p)
    PROVE  IInv'
<1>1. /\ pc[p] = "launch" /\ pc[p] # "idle" /\ Goto(p, "wait")
      /\ oneshot' = [oneshot EXCEPT ![n] = "running"]
      /\ UNCHANGED <<conf, ctr, vol, stanza, fed, born, state, cmds, faults, ghosts>>
  BY DEF LaunchOneshot, At
<1>2. /\ Task(p) /\ n \in Name /\ job[p].cmd = "upgrade" /\ Held(n)
  BY <1>1, Local DEF Task, Control, Building, Cleanup
<1>3. ~Exists(n) /\ state[n] # None /\ state[n] = I(p) /\ I(p).ver = 1
  BY <1>1, <1>2 DEF Task, Changes, Creating, Building
<1>4. /\ oneshot'[n] = "running" /\ DOMAIN oneshot' = Name
      /\ \A m \in Name : m # n => oneshot'[m] = oneshot[m]
  BY <1>1, <1>2 DEF IInv, Shape
<1>5. pc'[p] = "wait" /\ job'[p] = job[p] /\ N(p)' = n /\ I(p)' = I(p)
  BY <1>1, Moves
<1>6. \A q \in Proc : q # p => pc'[q] = pc[q] /\ job'[q] = job[q]
  BY <1>1, Moves
<1>7. Shape'
  BY <1>1, <1>4, <1>5, <1>6, Moves DEF IInv, Shape
<1>8. Only(n) /\ Counts'
  BY <1>1, <1>4 DEF Only, IInv, Counts, ghosts
<1>9. HostTypes(n)' /\ Upgraded(n)' /\ Saved(n)' /\ Made(n)' /\ Files(n)'
  BY <1>1, <1>2, <1>3, <1>4
     DEF Held, HostTypes, Upgraded, Saved, IsCluster, Made, Files, Exists, ghosts
<1>10. Control(p)' /\ Creates(p)' /\ Builds(p)' /\ Sizes(p)'
  BY <1>1, <1>2, <1>3, <1>5 DEF Control, Creates, Builds, Sizes, Creating, Exists
<1>11. Changes(p)'
  BY <1>1, <1>2, <1>3, <1>5 DEF Changes, Creating, Exists
<1> QED
  BY <1>1, <1>2, <1>5, <1>6, <1>7, <1>8, <1>9, <1>10, <1>11, Whole DEF Task, Held

LEMMA OneshotExitsStep ==
    ASSUME IInv, Apart', NEW p \in Proc, NEW n, n = N(p), OneshotExits(p)
    PROVE  IInv'
<1>1. /\ pc[p] = "wait" /\ pc[p] # "idle"
      /\ UNCHANGED <<conf, ctr, stanza, fed, born, state, cmds, ghosts>>
      /\ \/ oneshot[n] = "ok" /\ Goto(p, "update") /\ UNCHANGED vol
            /\ oneshot' \in {oneshot, [oneshot EXCEPT ![n] = None]}
         \/ oneshot[n] = "failed" /\ Quit(p)
            /\ oneshot' \in {oneshot, [oneshot EXCEPT ![n] = None]}
            /\ vol' \in {vol, [vol EXCEPT ![NewVolume(n)] = None]}
      /\ Fault \/ UNCHANGED faults
  BY DEF OneshotExits, At
<1>2. /\ Task(p) /\ n \in Name /\ job[p].cmd = "upgrade" /\ Held(n)
      /\ I(p).vol \in {DataVolume(n), NewVolume(n)}
  BY <1>1, Local DEF Task, Control, Building, Cleanup
<1>3. ~Exists(n) /\ state[n] # None /\ state[n] = I(p) /\ I(p).ver = 1
  BY <1>1, <1>2 DEF Task, Changes, Creating, Building
<1>4. /\ oneshot'[n] \in {None, oneshot[n]} /\ DOMAIN oneshot' = Name
      /\ \A m \in Name : m # n => oneshot'[m] = oneshot[m]
  BY <1>1, <1>2 DEF IInv, Shape
<1>5. None # "ok" /\ None \in {None, "created", "running", "ok", "failed"}
  BY HostAssumption DEF HostAssumption
<1>6. Made(n)' /\ Files(n)'
  BY <1>1, <1>2, <1>3 DEF Held, Made, Files, Exists
<1>9. Counts'
  <2>1. faults' \in 0 .. MaxFaults
    BY <1>1, Faulty DEF IInv, Counts
  <2> QED
    BY <1>1, <2>1 DEF IInv, Counts, ghosts
<1>7. CASE oneshot[n] = "ok" /\ Goto(p, "update") /\ UNCHANGED vol
  <2>1. pc'[p] = "update" /\ job'[p] = job[p] /\ N(p)' = n /\ I(p)' = I(p)
    BY <1>7, Moves
  <2>2. \A q \in Proc : q # p => pc'[q] = pc[q] /\ job'[q] = job[q]
    BY <1>7, Moves
  <2>3. Shape'
    BY <1>1, <1>4, <1>7, <2>1, <2>2, Moves DEF IInv, Shape
  <2>4. Only(n)
    BY <1>1, <1>4, <1>7 DEF Only, ghosts
  <2>5. HostTypes(n)' /\ Saved(n)' /\ Upgraded(n)'
    BY <1>1, <1>2, <1>4, <1>5, <1>7 DEF Held, HostTypes, Saved, Upgraded, IsCluster, ghosts
  <2>6. Control(p)' /\ Creates(p)' /\ Builds(p)' /\ Sizes(p)'
    BY <1>1, <1>2, <1>3, <2>1 DEF Control, Creates, Builds, Sizes, Creating, Exists
  <2>7. Changes(p)'
    BY <1>1, <1>2, <1>3, <1>7, <2>1 DEF Held, Upgraded, IsCluster, Changes, Creating, Exists
  <2> QED
    BY <1>1, <1>2, <1>6, <1>9, <2>1, <2>2, <2>3, <2>4, <2>5, <2>6, <2>7, Whole DEF Task, Held
<1>8. CASE oneshot[n] = "failed" /\ Quit(p) /\ vol' \in {vol, [vol EXCEPT ![NewVolume(n)] = None]}
  <2>1. /\ pc'[p] = "idle" /\ job'[p] = None /\ DOMAIN pc' = Proc /\ DOMAIN job' = Proc
        /\ \A q \in Proc : q # p => pc'[q] = pc[q] /\ job'[q] = job[q]
    BY <1>8 DEF IInv, Shape, Quit
  <2>2. /\ DOMAIN vol' = Volume /\ vol'[NewVolume(n)] \in {None, vol[NewVolume(n)]}
        /\ \A w \in Volume : w # NewVolume(n) => vol'[w] = vol[w]
    BY <1>2, <1>8, Volumes DEF IInv, Shape
  <2>3. \A m \in Name : m # n => /\ vol'[DataVolume(m)] = vol[DataVolume(m)]
                                 /\ vol'[NewVolume(m)] = vol[NewVolume(m)]
    BY <1>2, <2>2, Volumes
  <2>4. Shape' /\ Only(n)
    BY <1>1, <1>4, <2>1, <2>2, <2>3 DEF IInv, Shape, Only, ghosts
  <2>5. HostTypes(n)' /\ Upgraded(n)'
    BY <1>1, <1>2, <1>4, <1>5, <1>8, <2>2, Volumes DEF Held, HostTypes, Upgraded
  <2>6. Saved(n)'
    BY <1>1, <1>2, <1>3, <2>2, Volumes DEF Held, Saved, IsCluster, ghosts
  <2>7. Rest(n)'
    BY <1>1, <1>3 DEF Rest, Exists
  <2> QED
    BY <1>1, <1>2, <1>6, <1>9, <2>1, <2>4, <2>5, <2>6, <2>7, Whole DEF Held
<1> QED
  BY <1>1, <1>7, <1>8

-----------------------------------------------------------------------------
(* Docker, PostgreSQL and pgbackrest at work                               *)

\* A step that restates the container of n.
LEMMA RestatedWhole ==
    ASSUME IInv, NEW n \in Name, Same(n), Counts', DOMAIN stanza' = Name,
           UNCHANGED <<conf, oneshot, state, pc, job, orphaned, dropped, late>>
    PROVE  IInv'
<1>1. Held(n)' /\ (Rest(n) => Rest(n)') /\ Only(n)
  BY Restated DEF Same, Only
<1>2. Shape'
  BY DEF IInv, Shape, Same
<1>3. ASSUME NEW p \in Proc, pc[p] # "idle", N(p) = n PROVE Task(p)'
  <2>1. Control(p)'
    BY <1>3, Local DEF Task, Control
  <2> QED
    BY <1>3, <2>1, RestatedTask
<1> QED
  BY <1>1, <1>2, <1>3, WholeHost

LEMMA DisturbStep ==
    ASSUME IInv, NEW n \in Name, Disturb(n)
    PROVE  IInv'
<1>1. /\ faults < MaxFaults /\ faults' = faults + 1
      /\ UNCHANGED <<conf, oneshot, vol, stanza, fed, born, state, pc, job, cmds, ghosts>>
  BY DEF Disturb, Fault, GoDown, ComeBack, local
<1>2. Counts'
  BY <1>1, BoundsAssumption DEF IInv, Counts, BoundsAssumption, ghosts
<1>3. Same(n)
  BY <1>1, Started, Stopped DEF Disturb, GoDown, ComeBack, Running
<1> QED
  BY <1>1, <1>2, <1>3, RestatedWhole DEF IInv, Shape, ghosts

\* A step beside all that IInv looks at.
LEMMA Beside ==
    ASSUME IInv, Counts', DOMAIN stanza' = Name,
           UNCHANGED <<conf, ctr, oneshot, vol, state, pc, job, orphaned, dropped, late>>
    PROVE  IInv'
<1>1. Shape' /\ Apart'
  BY DEF IInv, Shape, Apart, N
<1>2. ASSUME NEW n \in Name PROVE Held(n)'
  BY <1>2, HeldStays DEF IInv
<1>3. ASSUME NEW n \in Name, ~Busy(n)' PROVE Rest(n)'
  BY <1>3 DEF IInv, Busy, N, Rest, Exists
<1>4. ASSUME NEW p \in Proc, pc'[p] # "idle" PROVE Task(p)'
  <2>1. Task(p)
    BY <1>4, Local
  <2>2. Control(p)' /\ Creates(p)' /\ Changes(p)' /\ Sizes(p)'
    BY <2>1 DEF Task, Control, Creates, Changes, Sizes, N, I, Exists, IsCluster
  <2>3. Builds(p)'
    BY <2>1 DEF Task, Builds, N, I, Mine, Fits, Filed, Exists, Running, IsCluster
  <2> QED
    BY <2>1, <2>2, <2>3 DEF Task
<1> QED
  BY <1>1, <1>2, <1>3, <1>4 DEF IInv

LEMMA ArchiveStep ==
    ASSUME IInv, NEW n \in Name, ArchivePush(n),
           UNCHANGED <<state, local, cmds, faults, ghosts>>
    PROVE  IInv'
<1>1. UNCHANGED <<conf, ctr, oneshot, vol, stanza, born, state, pc, job, cmds, faults, ghosts>>
  BY DEF ArchivePush, local
<1>2. Up(n) /\ vol[ctr[n].vol] \in Cluster
  BY DEF IInv, ArchivePush, Held, Made, IsCluster, Up
<1> DEFINE h == vol[ctr[n].vol].hist
           r == ctr[n].repo
<1>3. h \in 1 .. MaxCluster
  BY <1>2 DEF Cluster, Lineage
<1>4. fed' = [fed EXCEPT ![r] = @ \cup {h}]
  BY DEF ArchivePush
<1> HIDE DEF h, r
<1>5. fed' \in [Name -> SUBSET (1 .. MaxCluster)]
  BY <1>3, <1>4 DEF IInv, Counts
<1>6. Counts' /\ DOMAIN stanza' = Name
  BY <1>1, <1>5 DEF IInv, Counts, Shape, ghosts
<1> QED
  BY <1>1, <1>6, Beside DEF ghosts

\* The entrypoint leaves a cluster of the container's version.
LEMMA Populated ==
    ASSUME IInv, NEW n \in Name, Exists(n), Populate(n)
    PROVE  /\ born' \in 0 .. MaxCluster /\ DOMAIN vol' = Volume
           /\ \A v \in Volume : v # ctr[n].vol => vol'[v] = vol[v]
           /\ vol'[ctr[n].vol] \in Cluster /\ vol'[ctr[n].vol].ver = ctr[n].ver
<1>1. /\ ctr[n] \in Container /\ ctr[n].vol \in Volume /\ DOMAIN vol = Volume
      /\ vol[ctr[n].vol] \in Cluster \cup {None, Empty, Junk}
      /\ born \in 0 .. MaxCluster /\ MaxCluster \in Nat
      /\ ctr[n].src \in Name /\ ctr[n].repo \in Name \cup {None} /\ ctr[n].ver \in Ver
  BY Volumes, HostAssumption
     DEF IInv, Shape, Counts, Held, HostTypes, Made, Exists, Container, HostAssumption
<1>2. CASE /\ HasCluster(ctr[n].vol) /\ vol[ctr[n].vol].ver = ctr[n].ver
           /\ UNCHANGED <<vol, born>>
  BY <1>1, <1>2 DEF HasCluster
<1>3. ASSUME NEW x \in Cluster, x.ver = ctr[n].ver, vol' = [vol EXCEPT ![ctr[n].vol] = x],
             born < MaxCluster, born' = born + 1
      PROVE  /\ born' \in 0 .. MaxCluster /\ DOMAIN vol' = Volume
             /\ \A v \in Volume : v # ctr[n].vol => vol'[v] = vol[v]
             /\ vol'[ctr[n].vol] \in Cluster /\ vol'[ctr[n].vol].ver = ctr[n].ver
  BY <1>1, <1>3
<1>4. CASE born < MaxCluster /\ born' = born + 1
  <2>1. born + 1 \in 1 .. MaxCluster
    BY <1>1, <1>4
  <2>2. CASE vol' = [vol EXCEPT ![ctr[n].vol] =
               [sys |-> born + 1, hist |-> born + 1, data |-> born + 1, ver |-> ctr[n].ver,
                mark |-> "regular"]]
    BY <1>1, <1>3, <1>4, <2>1, <2>2 DEF Cluster, Lineage, Kind
  <2>3. ASSUME NEW s, s = vol[ctr[ctr[n].src].vol], Up(ctr[n].src), s.ver = ctr[n].ver,
               vol' = [vol EXCEPT ![ctr[n].vol] = [Fresh(s) EXCEPT !.mark = "clone"]]
        PROVE  /\ born' \in 0 .. MaxCluster /\ DOMAIN vol' = Volume
               /\ \A v \in Volume : v # ctr[n].vol => vol'[v] = vol[v]
               /\ vol'[ctr[n].vol] \in Cluster /\ vol'[ctr[n].vol].ver = ctr[n].ver
    <3>1. s \in Cluster
      BY <1>1, <2>3 DEF IInv, Held, Made, IsCluster, Up
    <3> DEFINE x == [Fresh(s) EXCEPT !.mark = "clone"]
    <3>2. x \in Cluster /\ x.ver = ctr[n].ver
      BY <2>1, <2>3, <3>1 DEF Cluster, Lineage, Kind, Fresh
    <3> HIDE DEF x
    <3>3. vol' = [vol EXCEPT ![ctr[n].vol] = x]
      BY <2>3 DEF x
    <3> QED
      BY <1>3, <1>4, <3>2, <3>3
  <2>4. ASSUME NEW r, r = ctr[n].repo, r # None, stanza[r] # None,
               vol' = [vol EXCEPT ![ctr[n].vol] =
                 [sys |-> stanza[r].sys, hist |-> born + 1, data |-> born + 1, ver |-> ctr[n].ver,
                  mark |-> "restore"]]
        PROVE  /\ born' \in 0 .. MaxCluster /\ DOMAIN vol' = Volume
               /\ \A v \in Volume : v # ctr[n].vol => vol'[v] = vol[v]
               /\ vol'[ctr[n].vol] \in Cluster /\ vol'[ctr[n].vol].ver = ctr[n].ver
    <3>1. stanza[r].sys \in 1 .. MaxCluster
      BY <1>1, <2>4 DEF IInv, Counts
    <3>2. [sys |-> stanza[r].sys, hist |-> born + 1, data |-> born + 1, ver |-> ctr[n].ver,
           mark |-> "restore"] \in Cluster
      BY <1>1, <2>1, <3>1 DEF Cluster, Lineage, Kind
    <3> QED
      BY <1>3, <1>4, <2>4, <3>2
  <2>5. CASE vol' = [vol EXCEPT ![ctr[n].vol] = [Fresh(vol[ctr[ctr[n].src].vol])
                                                   EXCEPT !.mark = "clone"]]
             /\ Up(ctr[n].src) /\ vol[ctr[ctr[n].src].vol].ver = ctr[n].ver
    BY <2>3, <2>5
  <2>6. CASE /\ ctr[n].repo # None /\ stanza[ctr[n].repo] # None
             /\ vol' = [vol EXCEPT ![ctr[n].vol] =
                  [sys |-> stanza[ctr[n].repo].sys, hist |-> born + 1, data |-> born + 1,
                   ver |-> ctr[n].ver, mark |-> "restore"]]
    BY <2>4, <2>6
  <2>7. ASSUME ~(/\ HasCluster(ctr[n].vol) /\ vol[ctr[n].vol].ver = ctr[n].ver
                 /\ UNCHANGED <<vol, born>>)
        PROVE  \/ vol' = [vol EXCEPT ![ctr[n].vol] =
                    [sys |-> born + 1, hist |-> born + 1, data |-> born + 1, ver |-> ctr[n].ver,
                mark |-> "regular"]]
               \/ /\ vol' = [vol EXCEPT ![ctr[n].vol] = [Fresh(vol[ctr[ctr[n].src].vol])
                                                   EXCEPT !.mark = "clone"]]
                  /\ Up(ctr[n].src) /\ vol[ctr[ctr[n].src].vol].ver = ctr[n].ver
               \/ /\ ctr[n].repo # None /\ stanza[ctr[n].repo] # None
                  /\ vol' = [vol EXCEPT ![ctr[n].vol] =
                       [sys |-> stanza[ctr[n].repo].sys, hist |-> born + 1, data |-> born + 1,
                        ver |-> ctr[n].ver, mark |-> "restore"]]
    BY <2>7, Zenon DEF Populate
  <2> QED
    BY <1>2, <2>2, <2>5, <2>6, <2>7
<1> QED
  BY <1>2, <1>4, Zenon DEF Populate

LEMMA BootStep ==
    ASSUME IInv, NEW n \in Name, Boot(n), UNCHANGED <<state, local, cmds, faults, ghosts>>
    PROVE  IInv'
<1>1. /\ Exists(n) /\ ctr[n].st = "running" /\ Populate(n)
      /\ UNCHANGED <<conf, oneshot, stanza, fed, state, pc, job, cmds, faults, ghosts>>
  BY DEF Boot, local
<1>2. ctr[n] \in Container
  BY <1>1 DEF IInv, Held, HostTypes, Exists
<1> DEFINE c == [ctr[n] EXCEPT !.st = "up"]
<1>3. ctr'[n] = c /\ DOMAIN ctr' = Name /\ \A m \in Name : m # n => ctr'[m] = ctr[m]
  BY DEF Boot, IInv, Shape
<1>4. /\ c \in Container /\ c.by = ctr[n].by /\ c.vol = ctr[n].vol /\ c.ver = ctr[n].ver
      /\ c.port = ctr[n].port /\ c.mem = ctr[n].mem /\ c.mounts = ctr[n].mounts
      /\ c.tuned = ctr[n].tuned /\ c.archive = ctr[n].archive /\ c.repo = ctr[n].repo
  BY <1>2 DEF Container
<1> HIDE DEF c
<1>5. c # None
  BY <1>4, HostAssumption DEF HostAssumption
<1>6. /\ born' \in 0 .. MaxCluster /\ DOMAIN vol' = Volume
      /\ \A v \in Volume : v # ctr[n].vol => vol'[v] = vol[v]
      /\ vol'[ctr[n].vol] \in Cluster /\ vol'[ctr[n].vol].ver = ctr[n].ver
  BY <1>1, Populated
<1>7. Fits(n) => ctr[n].tuned = ctr[n].mem /\ (ctr[n].archive = TRUE => ctr[n].repo \in {None, n})
  BY <1>1 DEF Fits, Running
<1>8. Same(n)
  BY <1>1, <1>3, <1>4, <1>5, <1>6, <1>7 DEF Same, Exists
<1>9. Counts' /\ DOMAIN stanza' = Name
  BY <1>1, <1>6 DEF IInv, Counts, Shape, ghosts
<1> QED
  BY <1>1, <1>8, <1>9, RestatedWhole DEF ghosts

LEMMA UpgradeStep ==
    ASSUME IInv, NEW n \in Name, RunUpgrade(n), UNCHANGED <<state, local, cmds, faults, ghosts>>
    PROVE  IInv'
<1>1. /\ oneshot[n] = "running"
      /\ UNCHANGED <<conf, ctr, stanza, fed, state, pc, job, cmds, faults, ghosts>>
  BY DEF RunUpgrade, local
<1>2. Held(n) /\ MaxCluster \in Nat /\ born \in 0 .. MaxCluster
      /\ NewVolume(n) \in Volume /\ DataVolume(n) \in Volume /\ DataVolume(n) # NewVolume(n)
  BY Volumes, HostAssumption DEF IInv, Counts, HostAssumption
<1> DEFINE x == vol'[NewVolume(n)]
           d == vol[DataVolume(n)].data
<1>3. /\ DOMAIN oneshot' = Name /\ DOMAIN vol' = Volume
      /\ \A m \in Name : m # n => oneshot'[m] = oneshot[m]
      /\ \A v \in Volume : v # NewVolume(n) => vol'[v] = vol[v]
      /\ oneshot'[n] \in {"ok", "failed"}
  BY <1>2 DEF RunUpgrade, IInv, Shape
<1>4. /\ born' \in 0 .. MaxCluster
      /\ x \in Cluster \cup {None, Empty, Junk}
      /\ oneshot'[n] = "ok" => x \in Cluster /\ x.ver = 2
      /\ vol[NewVolume(n)] # Empty => x = vol[NewVolume(n)]
  <2>1. CASE /\ HasCluster(DataVolume(n)) /\ vol[NewVolume(n)] = Empty
             /\ born < MaxCluster /\ born' = born + 1
             /\ vol' = [vol EXCEPT ![NewVolume(n)] =
                  [sys |-> born + 1, hist |-> born + 1, data |-> d, ver |-> 2, mark |-> "regular"]]
    <3>1. x = [sys |-> born + 1, hist |-> born + 1, data |-> d, ver |-> 2, mark |-> "regular"]
      BY <1>2, <2>1 DEF IInv, Shape
    <3>2. born + 1 \in 1 .. MaxCluster
      BY <1>2, <2>1
    <3>3. x \in Cluster /\ x.ver = 2
      BY <1>2, <2>1, <3>1, <3>2 DEF Cluster, Lineage, Kind, Ver, Held, HostTypes, HasCluster
    <3> QED
      BY <1>2, <2>1, <3>2, <3>3
  <2>2. CASE /\ vol' = [vol EXCEPT ![NewVolume(n)] = IF vol[NewVolume(n)] = Empty THEN Junk
                                                     ELSE vol[NewVolume(n)]]
             /\ oneshot' = [oneshot EXCEPT ![n] = "failed"] /\ UNCHANGED born
    <3>1. x = IF vol[NewVolume(n)] = Empty THEN Junk ELSE vol[NewVolume(n)]
      BY <1>2, <2>2 DEF IInv, Shape
    <3>2. oneshot'[n] = "failed"
      BY <2>2 DEF IInv, Shape
    <3> QED
      BY <1>2, <2>2, <3>1, <3>2 DEF Held, HostTypes
  <2> QED
    BY <2>1, <2>2 DEF RunUpgrade
<1> HIDE DEF x
<1>5. \A v \in Volume : vol[v] \in Cluster => vol'[v] = vol[v]
  BY <1>3, <1>4, HostAssumption DEF HostAssumption, x
<1>6. \A v \in Volume : \A k : IsCluster(v, k) => IsCluster(v, k)'
  BY <1>5 DEF IsCluster
<1>7. Shape' /\ Counts'
  BY <1>1, <1>3, <1>4 DEF IInv, Shape, Counts, ghosts
<1>8. \A m \in Name : m # n => /\ vol'[DataVolume(m)] = vol[DataVolume(m)]
                               /\ vol'[NewVolume(m)] = vol[NewVolume(m)]
  BY <1>3, Volumes
<1>9. Only(n)
  BY <1>1, <1>3, <1>8 DEF Only, ghosts
<1>10. HostTypes(n)' /\ Upgraded(n)'
  BY <1>1, <1>2, <1>3, <1>4 DEF Held, HostTypes, Upgraded, IsCluster, x
<1>11. Saved(n)'
  BY <1>1, <1>2, <1>6 DEF Held, Saved, ghosts
<1>12. Made(n)'
  BY <1>1, <1>2, <1>6 DEF Held, Made, Exists, Up
<1>13. Files(n)' /\ (Rest(n) => Rest(n)')
  BY <1>1, <1>2 DEF Held, Files, Exists, Astray, Fits, Filed, Running, Rest, ghosts
<1>14. ASSUME NEW p \in Proc, pc[p] # "idle", N(p) = n PROVE Task(p)'
  <2>1. Task(p) /\ N(p)' = N(p) /\ I(p)' = I(p) /\ I(p).vol \in {DataVolume(n), NewVolume(n)}
    BY <1>1, <1>14, Local DEF N, I
  <2>2. Control(p)' /\ Creates(p)' /\ Changes(p)' /\ Sizes(p)'
    BY <1>1, <1>2, <1>6, <1>14, <2>1 DEF Task, Control, Creates, Changes, Sizes, Exists, ghosts
  <2>3. Builds(p)'
    BY <1>1, <1>2, <1>6, <1>14, <2>1 DEF Task, Builds, Mine, Fits, Filed, Exists, Running
  <2> QED
    BY <1>1, <2>1, <2>2, <2>3 DEF Task
<1> QED
  BY <1>1, <1>7, <1>9, <1>10, <1>11, <1>12, <1>13, <1>14, WholeHost DEF Held

-----------------------------------------------------------------------------
(* The theorems                                                            *)

LEMMA NextStep == IInv /\ Next /\ Apart' => IInv'
<1> SUFFICES ASSUME IInv, Next, Apart' PROVE IInv'
  OBVIOUS
<1>1. ASSUME NEW p \in Proc, Invoke(p) PROVE IInv'
  BY <1>1, InvokeStep
<1>2. ASSUME NEW p \in Proc, Step(p) PROVE IInv'
  <2>1. CASE Check(p) \/ Refused(p) \/ AllocatePort(p) \/ NotReady(p) \/ PreSnapshot(p)
    BY <2>1, CheckStep, AllocateStep, NotReadyStep, PreSnapshotStep
  <2>2. CASE WriteConf(p) \/ WriteRepo(p) \/ CleanConf(p)
    BY <2>2, WriteConfStep, WriteRepoStep, CleanConfStep
  <2>3. CASE CreateContainer(p) \/ Start(p) \/ Stop(p) \/ CleanContainer(p) \/ Remove(p)
    BY <2>3, CreateStep, StartStep, StopStep, CleanContainerStep, RemoveStep
  <2>4. CASE Ready(p) \/ DeleteStanza(p) \/ Save(p) \/ UpdateState(p)
    BY <2>4, ReadyStep, DeleteStanzaStep, SaveStep, UpdateStep
  <2>5. CASE SetPreset(p) \/ RollBack(p) \/ RemoveDir(p)
    BY <2>5, SetPresetStep, RollBackStep, RemoveDirStep
  <2>6. CASE CleanVolume(p) \/ RemoveVolume(p)
    BY <2>6, CleanVolumeStep, RemoveVolumeStep
  <2>7. CASE CreateOneshot(p) \/ LaunchOneshot(p) \/ OneshotExits(p)
    BY <2>7, CreateOneshotStep, LaunchOneshotStep, OneshotExitsStep
  <2>8. CASE CallFails(p) \/ SaveUnsynced(p) \/ Die(p)
    BY <2>8, CallFailsStep, SaveUnsyncedStep, DieStep
  <2> QED
    BY <1>2, <2>1, <2>2, <2>3, <2>4, <2>5, <2>6, <2>7, <2>8 DEF Step
<1>3. ASSUME NEW n \in Name, Host(n) PROVE IInv'
  BY <1>3, BootStep, ArchiveStep, UpgradeStep DEF Host
<1>4. ASSUME NEW n \in Name, Disturb(n) PROVE IInv'
  BY <1>4, DisturbStep
<1> QED
  BY <1>1, <1>2, <1>3, <1>4 DEF Next

LEMMA Stutter == IInv /\ UNCHANGED vars => IInv'
<1> SUFFICES ASSUME IInv, UNCHANGED vars PROVE IInv'
  OBVIOUS
<1>1. /\ UNCHANGED <<conf, ctr, oneshot, vol, stanza, fed, born, state, pc, job, cmds, faults>>
      /\ UNCHANGED <<orphaned, unsaved, dropped, raced, late>>
  BY DEF vars, hostVars, local, ghosts
<1>2. Counts' /\ DOMAIN stanza' = Name
  BY <1>1 DEF IInv, Counts, Shape
<1> QED
  BY <1>1, <1>2, Beside

LEMMA Always == ApartSpec => []IInv
<1>1. IInv /\ [Next /\ Apart']_vars => IInv'
  BY NextStep, Stutter
<1> QED
  BY <1>1, InitStep, PTL DEF ApartSpec

\* conf, oneshot and pc are functions, and not only defined where TypeOK says.
Functions ==
    /\ conf = [n \in Name |-> conf[n]] /\ oneshot = [n \in Name |-> oneshot[n]]
    /\ pc = [p \in Proc |-> pc[p]]

LEMMA ConfStays == Functions /\ [Next]_vars => conf' = [n \in Name |-> conf'[n]]
<1> SUFFICES ASSUME Functions, [Next]_vars PROVE conf' = [n \in Name |-> conf'[n]]
  OBVIOUS
<1>1. CASE UNCHANGED conf
  BY <1>1 DEF Functions
<1>2. ASSUME NEW p \in Proc, WriteConf(p) \/ WriteRepo(p) \/ CleanConf(p) \/ RemoveDir(p)
      PROVE  conf' = [n \in Name |-> conf'[n]]
  BY <1>2 DEF Functions, WriteConf, WriteRepo, CleanConf, RemoveDir
<1>3. ASSUME NEW p \in Proc, Step(p) PROVE conf' = [n \in Name |-> conf'[n]]
  BY <1>1, <1>2, <1>3
     DEF Step, Check, Refused, AllocatePort, CreateContainer, Start, Ready, NotReady, Save,
         CleanContainer, CleanVolume, Stop, Remove, PreSnapshot, CreateOneshot, LaunchOneshot,
         OneshotExits, UpdateState, DeleteStanza, RemoveVolume, SetPreset, RollBack, CallFails,
         SaveUnsynced, Die, hostVars
<1>4. ASSUME NEW p \in Proc, Invoke(p) PROVE UNCHANGED conf
  BY <1>4 DEF Invoke, BeginCreate, BeginCopy, BeginRotate, BeginResize, BeginUpgrade,
              BeginDestroy, Begin, hostVars
<1>5. ASSUME NEW n \in Name, Host(n) \/ Disturb(n) PROVE UNCHANGED conf
  BY <1>5 DEF Host, Disturb, Boot, ArchivePush, RunUpgrade, GoDown, ComeBack
<1> QED
  BY <1>1, <1>3, <1>4, <1>5 DEF Next, vars, hostVars

LEMMA OneshotStays == Functions /\ [Next]_vars => oneshot' = [n \in Name |-> oneshot'[n]]
<1> SUFFICES ASSUME Functions, [Next]_vars PROVE oneshot' = [n \in Name |-> oneshot'[n]]
  OBVIOUS
<1>1. CASE UNCHANGED oneshot
  BY <1>1 DEF Functions
<1>2. ASSUME NEW p \in Proc, CreateOneshot(p) \/ LaunchOneshot(p) \/ OneshotExits(p)
      PROVE  oneshot' = [n \in Name |-> oneshot'[n]]
  BY <1>2 DEF Functions, CreateOneshot, LaunchOneshot, OneshotExits
<1>3. ASSUME NEW p \in Proc, Step(p) PROVE oneshot' = [n \in Name |-> oneshot'[n]]
  BY <1>1, <1>2, <1>3
     DEF Step, Check, Refused, AllocatePort, WriteConf, WriteRepo, CreateContainer, Start, Ready,
         NotReady, Save, CleanContainer, CleanVolume, CleanConf, Stop, Remove, PreSnapshot,
         UpdateState, DeleteStanza, RemoveVolume, RemoveDir, SetPreset, RollBack, CallFails,
         SaveUnsynced, Die, hostVars
<1>4. ASSUME NEW p \in Proc, Invoke(p) PROVE UNCHANGED oneshot
  BY <1>4 DEF Invoke, BeginCreate, BeginCopy, BeginRotate, BeginResize, BeginUpgrade,
              BeginDestroy, Begin, hostVars
<1>5. ASSUME NEW n \in Name, Host(n) \/ Disturb(n) PROVE oneshot' = [m \in Name |-> oneshot'[m]]
  BY <1>1, <1>5
     DEF Host, Disturb, Boot, ArchivePush, RunUpgrade, GoDown, ComeBack, Functions
<1> QED
  BY <1>1, <1>3, <1>4, <1>5 DEF Next, vars, hostVars

LEMMA PcStays == Functions /\ [Next]_vars => pc' = [p \in Proc |-> pc'[p]]
<1> SUFFICES ASSUME Functions, [Next]_vars PROVE pc' = [p \in Proc |-> pc'[p]]
  OBVIOUS
<1>1. CASE UNCHANGED pc
  BY <1>1 DEF Functions
<1>2. ASSUME NEW p \in Proc, NEW l, pc' = [pc EXCEPT ![p] = l]
      PROVE  pc' = [q \in Proc |-> pc'[q]]
  BY <1>2 DEF Functions
<1>3. ASSUME NEW p \in Proc, Step(p) PROVE \E l : pc' = [pc EXCEPT ![p] = l]
  <2>1. ASSUME NEW l, Goto(p, l) \/ Quit(p) PROVE \E k : pc' = [pc EXCEPT ![p] = k]
    BY <2>1 DEF Goto, Quit
  <2>2. ASSUME Err(p) PROVE \E k : pc' = [pc EXCEPT ![p] = k]
    BY <2>1, <2>2 DEF Err
  <2> QED
    BY <1>3, <2>1, <2>2
       DEF Step, Check, Refused, AllocatePort, WriteConf, WriteRepo, CreateContainer, Start,
           Ready, NotReady, Save, CleanContainer, CleanVolume, CleanConf, Stop, Remove,
           PreSnapshot, CreateOneshot, LaunchOneshot, OneshotExits, UpdateState, DeleteStanza,
           RemoveVolume, RemoveDir, SetPreset, RollBack, CallFails, SaveUnsynced, Die
<1>4. ASSUME NEW p \in Proc, Invoke(p) PROVE \E l : pc' = [pc EXCEPT ![p] = l]
  BY <1>4 DEF Invoke, BeginCreate, BeginCopy, BeginRotate, BeginResize, BeginUpgrade,
              BeginDestroy, Begin
<1>5. ASSUME NEW n \in Name, Host(n) \/ Disturb(n) PROVE UNCHANGED pc
  BY <1>5 DEF Host, Disturb, local
<1> QED
  BY <1>1, <1>2, <1>3, <1>4, <1>5 DEF Next, vars, local

LEMMA AlwaysFunctions == ApartSpec => []Functions
<1>1. Init => Functions
  BY DEF Init, HostInit, Functions
<1>2. Functions /\ [Next]_vars => Functions'
  BY ConfStays, OneshotStays, PcStays DEF Functions
<1> QED
  BY <1>1, <1>2, PTL DEF ApartSpec

\* Every variable keeps the type that TypeOK gives it.
THEOREM TypeCorrect == ApartSpec => []TypeOK
<1>1. IInv /\ Functions => TypeOK
  <2> SUFFICES ASSUME IInv, Functions PROVE TypeOK
    OBVIOUS
  <2>1. ASSUME NEW v \in Volume PROVE vol[v] \in {None, Empty, Junk} \/ vol[v] \in Cluster
    <3>1. PICK n \in Name, k \in {"data", "v2"} : v = <<n, k>>
      BY DEF Volume
    <3>2. v = DataVolume(n) \/ v = NewVolume(n)
      BY <3>1 DEF DataVolume, NewVolume
    <3>3. HostTypes(n)
      BY DEF IInv, Held
    <3> QED
      BY <3>2, <3>3 DEF HostTypes
  <2>2. conf \in [Name -> [archive: {None} \cup BOOLEAN, preset: {None} \cup Preset,
                           repo: {None} \cup Name]]
    BY DEF IInv, Functions, Held, HostTypes
  <2>3. oneshot \in [Name -> {None, "created", "running", "ok", "failed"}]
    BY DEF IInv, Functions, Held, HostTypes
  <2>4. \A n \in Name : ctr[n] = None \/ ctr[n] \in Container
    BY DEF IInv, Held, HostTypes
  <2>5. HostTypeOK
    BY <2>1, <2>2, <2>3, <2>4 DEF HostTypeOK, IInv, Counts
  <2>6. ASSUME NEW p \in Proc
        PROVE  /\ pc[p] \in {"idle", "check", "refused", "allocate", "conf", "repo", "create", "start",
                             "ready", "save", "presnap", "wipe", "stop", "remove", "oneshot",
                             "launch", "wait", "update", "rmVolume", "rmDir",
                             "preset", "rollback"} \cup Cleanup
               /\ IF pc[p] = "idle" THEN job[p] = None ELSE job[p] \in Job
    <3>1. CASE pc[p] = "idle"
      BY <3>1 DEF IInv, Shape
    <3>2. CASE pc[p] # "idle"
      BY <3>2 DEF IInv, Task, Control, Building
    <3> QED
      BY <3>1, <3>2
  <2>7. \A n \in Name : state[n] # None => state[n] \in Instance /\ state[n].port # None
    BY DEF IInv, Held, Saved
  <2>8. pc = [p \in Proc |-> pc[p]]
    BY DEF Functions
  <2> QED
    BY <2>5, <2>6, <2>7, <2>8 DEF TypeOK, IInv, Counts
<1> QED
  BY <1>1, Always, AlwaysFunctions, PTL

\* rotate.rs, upgrade.rs, resize.rs: a container between commands is the one
\* that its state.toml describes.
THEOREM ContainerAgrees == ApartSpec => []AgreesWithState
<1>1. IInv => AgreesWithState
  BY DEF IInv, Held, Made, Rest, AgreesWithState
<1> QED
  BY <1>1, Always, PTL

\* domain/preset.rs: postgres never runs with the buffers of another memory
\* limit than its container's.
THEOREM MemoryFits == ApartSpec => []FitsMemory
<1>1. IInv => FitsMemory
  BY DEF IInv, Held, Files, Fits, Running, FitsMemory
<1> QED
  BY <1>1, Always, PTL

\* upgrade.rs, rotate.rs: wherever a command fails or dies, the volume of
\* state.toml holds a cluster of the version of state.toml.
THEOREM AlwaysRotatable == ApartSpec => []Rotatable
<1>1. IInv => Rotatable
  BY HostAssumption DEF HostAssumption, IInv, Held, Saved, IsCluster, HasCluster, Rotatable
<1> QED
  BY <1>1, Always, PTL

\* docker/cleanup.rs: a container without a state.toml is explained by a failed
\* save, a failed cleanup or a death.
THEOREM OrphansExplained == ApartSpec => []NoOrphan
<1>1. IInv => NoOrphan
  BY DEF IInv, Rest, NoOrphan
<1> QED
  BY <1>1, Always, PTL

\* The files that the container of a saved instance mounts are there.
THEOREM FilesStay == ApartSpec => []ConfsKept
<1>1. IInv => ConfsKept
  BY DEF IInv, Held, Files, Filed, ConfsKept
<1> QED
  BY <1>1, Always, PTL

\* restore.rs: a running instance archives into its own repository or none.
THEOREM WalStays == ApartSpec => []WalStaysHome
<1>1. IInv => WalStaysHome
  <2> SUFFICES ASSUME IInv, NEW n \in Name, Up(n), ctr[n].archive, ctr[n].repo # None,
                      ~Astray(n)
               PROVE  ctr[n].repo = n
    BY DEF WalStaysHome
  <2>1. Fits(n) /\ ctr[n] \in Container
    BY DEF IInv, Held, HostTypes, Files, Up, Exists
  <2>2. ctr[n].archive \in BOOLEAN
    BY <2>1 DEF Container
  <2>3. ctr[n].archive = TRUE
    BY <2>2
  <2> QED
    BY <2>1, <2>3 DEF Fits
<1> QED
  BY <1>1, Always, PTL

-----------------------------------------------------------------------------
(* Ports                                                                   *)

\* save_under_locked and update_under have put the new state.toml in place,
\* and return Ok or Err.
Saves(p) == Save(p) \/ (SaveUnsynced(p) /\ pc[p] = "save")
Updates(p) == UpdateState(p) \/ (SaveUnsynced(p) /\ pc[p] = "update")
Resizes(p) == SetPreset(p) \/ (SaveUnsynced(p) /\ pc[p] = "preset")

LEMMA Writes ==
    ASSUME NEW p \in Proc, SaveUnsynced(p) PROVE Saves(p) \/ Updates(p) \/ Resizes(p)
BY DEF SaveUnsynced, Saves, Updates, Resizes

\* A command that has a port which no state.toml shows yet.
Holding(p) == pc[p] # "idle" /\ job[p].cmd \in Creating /\ I(p).port # None

\* Who has a port, saved or not, shares it only with those it raced with.
Ports ==
    /\ PortsUnique
    /\ \A p \in Proc, m \in Name : Holding(p) /\ state[m] # None =>
         I(p).port # state[m].port \/ {N(p), m} \subseteq raced
    /\ \A p, q \in Proc : p # q /\ Holding(p) /\ Holding(q) =>
         I(p).port # I(q).port \/ {N(p), N(q)} \subseteq raced

\* No one has a port that it did not have before.
LEMMA NoNewPort ==
    ASSUME Ports, UNCHANGED raced,
           \A p \in Proc : Holding(p)' => Holding(p) /\ N(p)' = N(p) /\ I(p)'.port = I(p).port,
           \A n \in Name : state'[n] # None => state[n] # None /\ state'[n].port = state[n].port
    PROVE  Ports'
BY DEF Ports, PortsUnique

LEMMA PortOfStep ==
    ASSUME IInv, Ports, NEW p \in Proc, pc[p] # "idle", UNCHANGED raced,
           Quit(p) \/ \E l : Goto(p, l),
           \A n \in Name : state'[n] # None => state[n] # None /\ state'[n].port = state[n].port
    PROVE  Ports'
<1>1. \A q \in Proc : q # p => pc'[q] = pc[q] /\ job'[q] = job[q]
  BY DEF IInv, Shape, Goto, Quit
<1>2. pc'[p] = "idle" \/ job'[p] = job[p]
  BY DEF IInv, Shape, Goto, Quit
<1>3. \A q \in Proc : Holding(q)' => Holding(q) /\ N(q)' = N(q) /\ I(q)'.port = I(q).port
  BY <1>1, <1>2 DEF Holding, N, I
<1> QED
  BY <1>3, NoNewPort

LEMMA ChangedState ==
    ASSUME IInv, Ports, NEW p \in Proc, UNCHANGED raced, Updates(p) \/ Resizes(p)
    PROVE  Ports'
<1> DEFINE n == N(p)
<1>1. /\ pc[p] \in {"update", "preset"} /\ pc[p] # "idle"
  BY DEF Updates, Resizes, UpdateState, SetPreset, At
<1>2. Task(p) /\ n \in Name /\ job[p] \in Job /\ job[p].cmd \notin Creating
  BY <1>1, Local DEF Task, Control, Building, Cleanup, Creating
<1>3. state[n] # None /\ state[n] \in Instance
  BY <1>1, <1>2 DEF Task, Changes, IInv, Held, Saved
<1>4. PICK i : /\ i.port = state[n].port /\ state' = [state EXCEPT ![n] = i]
               /\ job' = [job EXCEPT ![p].inst = i] \/ Quit(p)
               /\ \A q \in Proc : q # p => pc'[q] = pc[q]
  <2>1. CASE Updates(p)
    <3> DEFINE i == [state[n] EXCEPT !.ver = 2, !.vol = NewVolume(n)]
    <3>1. i.port = state[n].port
      BY <1>3 DEF Instance
    <3>2. /\ state' = [state EXCEPT ![n] = i]
          /\ job' = [job EXCEPT ![p].inst = i] \/ Quit(p)
          /\ \A q \in Proc : q # p => pc'[q] = pc[q]
      BY <1>3, <2>1 DEF Updates, UpdateState, SaveUnsynced, Quit, IInv, Shape
    <3> HIDE DEF i
    <3> QED
      BY <3>1, <3>2
  <2>2. CASE Resizes(p)
    <3> DEFINE i == [state[n] EXCEPT !.preset = Other(I(p).preset)]
    <3>1. i.port = state[n].port
      BY <1>3 DEF Instance
    <3>2. /\ state' = [state EXCEPT ![n] = i]
          /\ job' = [job EXCEPT ![p].inst = i] \/ Quit(p)
          /\ \A q \in Proc : q # p => pc'[q] = pc[q]
      BY <1>3, <2>2 DEF Resizes, SetPreset, SaveUnsynced, Quit, IInv, Shape
    <3> HIDE DEF i
    <3> QED
      BY <3>1, <3>2
  <2> QED
    BY <2>1, <2>2
<1>5. \A m \in Name : state'[m] # None => state[m] # None /\ state'[m].port = state[m].port
  BY <1>2, <1>3, <1>4 DEF IInv, Shape
<1>6. /\ pc'[p] = "idle" \/ job'[p].cmd = job[p].cmd
      /\ \A q \in Proc : q # p => job'[q] = job[q]
  BY <1>2, <1>4 DEF Quit, IInv, Shape, Job
<1>7. \A q \in Proc : Holding(q)' => Holding(q) /\ N(q)' = N(q) /\ I(q)'.port = I(q).port
  BY <1>2, <1>4, <1>6 DEF Holding, N, I
<1> QED
  BY <1>5, <1>7, NoNewPort

LEMMA SavedPort ==
    ASSUME IInv, Ports, NEW p \in Proc, Saves(p)
    PROVE  Ports'
<1> DEFINE n == N(p)
<1>1. /\ pc[p] = "save" /\ pc[p] # "idle" /\ UNCHANGED raced
      /\ state' = [state EXCEPT ![n] = I(p)] /\ Quit(p)
  BY DEF Saves, Save, SaveUnsynced, At
<1>2. Task(p) /\ n \in Name /\ job[p].cmd \in Creating
  BY <1>1, Local DEF Task, Control, Building
<1>3. Holding(p) /\ state[n] = None
  BY <1>1, <1>2 DEF Task, Creates, Holding
<1>4. /\ state'[n] = I(p)
      /\ \A m \in Name : m # n => state'[m] = state[m]
  BY <1>1, <1>2 DEF IInv, Shape
<1>5. \A q \in Proc : Holding(q)' => q # p /\ Holding(q) /\ N(q)' = N(q) /\ I(q)' = I(q)
  BY <1>1 DEF IInv, Shape, Quit, Holding, N, I
<1> HIDE DEF n
<1>6. \A m \in Name : m # n /\ state[m] # None =>
          I(p).port # state[m].port \/ {n, m} \subseteq raced
  BY <1>3 DEF Ports, n
<1>7. \A q \in Proc : q # p /\ Holding(q) => I(p).port # I(q).port \/ {n, N(q)} \subseteq raced
  BY <1>3 DEF Ports, n
<1>8. PortsUnique'
  BY <1>1, <1>4, <1>6 DEF Ports, PortsUnique
<1>9. ASSUME NEW q \in Proc, NEW m \in Name, Holding(q)', state'[m] # None
      PROVE  I(q)'.port # state'[m].port \/ {N(q)', m} \subseteq raced'
  BY <1>1, <1>4, <1>5, <1>7, <1>9 DEF Ports
<1>10. ASSUME NEW q \in Proc, NEW r \in Proc, q # r, Holding(q)', Holding(r)'
       PROVE  I(q)'.port # I(r)'.port \/ {N(q)', N(r)'} \subseteq raced'
  BY <1>1, <1>5, <1>10 DEF Ports
<1> QED
  BY <1>8, <1>9, <1>10 DEF Ports

LEMMA AllocatedPort ==
    ASSUME IInv, Ports, NEW p \in Proc, AllocatePort(p)
    PROVE  Ports'
<1> DEFINE n == N(p)
<1>1. /\ pc[p] = "allocate" /\ pc[p] # "idle" /\ UNCHANGED state
      /\ raced' = IF Allocating(p) = {} THEN raced \ {n} ELSE raced \cup {n} \cup Allocating(p)
  BY DEF AllocatePort, At
<1>2. Task(p) /\ n \in Name /\ job[p].cmd \in Creating /\ job[p] \in Job /\ I(p) \in Instance
  BY <1>1, Local DEF Task, Control, Building
<1>3. state[n] = None
  BY <1>2 DEF Task, Creates
<1>4. \A q \in Proc : q # p /\ pc[q] # "idle" => N(q) # n
  BY <1>1 DEF IInv, Apart
<1>5. \A q \in Proc : q # p /\ Holding(q) => N(q) \in Allocating(p)
  BY DEF Holding, Allocating
<1>6. \A q \in Proc : q # p => pc'[q] = pc[q] /\ job'[q] = job[q]
  BY DEF AllocatePort, Quit, IInv, Shape
<1>7. \A q \in Proc : q # p /\ Holding(q)' => Holding(q) /\ N(q)' = N(q) /\ I(q)' = I(q)
  BY <1>6 DEF Holding, N, I
<1>8. Holding(p)' => /\ N(p)' = n
                     /\ \A m \in Name : state[m] # None => I(p)'.port # state[m].port
  <2>1. CASE Quit(p)
    BY <2>1 DEF Quit, Holding, IInv, Shape
  <2>2. ASSUME NEW q \in Free, job' = [job EXCEPT ![p].inst.port = q]
        PROVE  /\ N(p)' = n
               /\ \A m \in Name : state[m] # None => I(p)'.port # state[m].port
    <3>1. job'[p] = [job[p] EXCEPT !.inst = [I(p) EXCEPT !.port = q]]
      BY <1>2, <2>2 DEF IInv, Shape, I, Job
    <3>2. N(p)' = n /\ I(p)'.port = q
      BY <1>2, <3>1 DEF N, I, Job, Instance
    <3>3. q \notin Taken
      BY DEF Free
    <3> QED
      BY <3>2, <3>3 DEF Taken
  <2> QED
    BY <2>1, <2>2 DEF AllocatePort
<1> HIDE DEF n
<1>9. \A m \in Name \ {n} : m \in raced => m \in raced'
  BY <1>1
<1>10. PortsUnique'
  <2>1. ASSUME NEW a \in Name, NEW b \in Name, a # b, state[a] # None, state[b] # None
        PROVE  state[a].port # state[b].port \/ {a, b} \subseteq raced'
    BY <1>3, <1>9, <2>1 DEF Ports, PortsUnique
  <2> QED
    BY <1>1, <2>1 DEF PortsUnique
<1>11. ASSUME NEW q \in Proc, NEW m \in Name, Holding(q)', state'[m] # None
       PROVE  I(q)'.port # state'[m].port \/ {N(q)', m} \subseteq raced'
  <2>1. CASE q = p
    BY <1>1, <1>8, <1>11, <2>1
  <2>2. CASE q # p
    <3>1. Holding(q) /\ N(q)' = N(q) /\ I(q)' = I(q) /\ N(q) # n /\ m # n /\ N(q) \in Name
      BY <1>1, <1>3, <1>4, <1>7, <1>11, <2>2, Local DEF Holding
    <3> QED
      BY <1>1, <1>9, <1>11, <3>1 DEF Ports
  <2> QED
    BY <2>1, <2>2
<1>12. ASSUME NEW q \in Proc, q # p, Holding(q)', Holding(p)'
       PROVE  {N(q)', N(p)'} \subseteq raced'
  BY <1>1, <1>5, <1>7, <1>8, <1>12
<1>13. ASSUME NEW q \in Proc, NEW r \in Proc, q # r, q # p, r # p, Holding(q)', Holding(r)'
       PROVE  I(q)'.port # I(r)'.port \/ {N(q)', N(r)'} \subseteq raced'
  <2>1. /\ Holding(q) /\ N(q)' = N(q) /\ I(q)' = I(q) /\ N(q) # n /\ N(q) \in Name
        /\ Holding(r) /\ N(r)' = N(r) /\ I(r)' = I(r) /\ N(r) # n /\ N(r) \in Name
    BY <1>4, <1>7, <1>13, Local DEF Holding
  <2> QED
    BY <1>9, <1>13, <2>1 DEF Ports
<1> QED
  BY <1>10, <1>11, <1>12, <1>13 DEF Ports

LEMMA PortsStep == IInv /\ Ports /\ Next => Ports'
<1> SUFFICES ASSUME IInv, Ports, Next PROVE Ports'
  OBVIOUS
<1>1. ASSUME NEW p \in Proc, Step(p) PROVE Ports'
  <2>1. CASE AllocatePort(p) \/ Saves(p)
    BY <2>1, AllocatedPort, SavedPort
  <2>2. CASE Updates(p) \/ Resizes(p)
    BY <2>2, ChangedState DEF Updates, Resizes, UpdateState, SetPreset, SaveUnsynced, ghosts
  <2>3. CASE RemoveDir(p) \/ RollBack(p)
    <3>1. pc[p] \in {"rmDir", "rollback"} /\ pc[p] # "idle" /\ Quit(p) /\ UNCHANGED raced
      BY <2>3 DEF RemoveDir, RollBack, At, ghosts
    <3>2. N(p) \in Name /\ (state[N(p)] # None => state[N(p)] \in Instance)
      BY <3>1, Local DEF Held, Saved
    <3>3. CASE RemoveDir(p)
      BY <3>1, <3>2, <3>3, PortOfStep DEF RemoveDir, IInv, Shape
    <3>4. CASE RollBack(p)
      <4>1. CASE UNCHANGED state
        BY <3>1, <4>1, PortOfStep
      <4>2. CASE state[N(p)] # None
                 /\ state' = [state EXCEPT ![N(p)].preset = Other(I(p).preset)]
        <5>1. state'[N(p)] = [state[N(p)] EXCEPT !.preset = Other(I(p).preset)]
          BY <3>2, <4>2 DEF IInv, Shape
        <5>2. state'[N(p)].port = state[N(p)].port
          BY <3>2, <4>2, <5>1 DEF Instance
        <5>3. \A m \in Name : m # N(p) => state'[m] = state[m]
          BY <3>2, <4>2 DEF IInv, Shape
        <5> QED
          BY <3>1, <3>2, <4>2, <5>2, <5>3, PortOfStep
      <4> QED
        BY <3>4, <4>1, <4>2 DEF RollBack
    <3> QED
      BY <2>3, <3>3, <3>4
  <2>4. ASSUME ~(AllocatePort(p) \/ Saves(p) \/ Updates(p) \/ Resizes(p)
                 \/ RemoveDir(p) \/ RollBack(p))
        PROVE  /\ pc[p] # "idle" /\ UNCHANGED <<raced, state>>
               /\ Quit(p) \/ \E l : Goto(p, l)
    <3>1. Err(p) => Quit(p) \/ \E l : Goto(p, l)
      BY DEF Err
    <3>2. CASE Check(p) \/ Refused(p) \/ WriteConf(p) \/ WriteRepo(p) \/ CreateContainer(p)
               \/ Start(p) \/ Ready(p) \/ NotReady(p)
      BY <3>1, <3>2 DEF At, ghosts, Check, Refused, WriteConf, WriteRepo, CreateContainer, Start,
                        Ready, NotReady
    <3>3. CASE CleanContainer(p) \/ CleanVolume(p) \/ CleanConf(p) \/ Stop(p) \/ Remove(p)
               \/ PreSnapshot(p)
      BY <3>3 DEF At, ghosts, CleanContainer, CleanVolume, CleanConf, Stop, Remove, PreSnapshot
    <3>4. CASE CreateOneshot(p) \/ LaunchOneshot(p) \/ OneshotExits(p) \/ DeleteStanza(p)
               \/ RemoveVolume(p)
      BY <3>4 DEF At, ghosts, CreateOneshot, LaunchOneshot, OneshotExits, DeleteStanza,
                  RemoveVolume
    <3>5. CASE CallFails(p) \/ Die(p)
      BY <3>1, <3>5 DEF CallFails, Die
    <3> QED
      BY <1>1, <2>4, <3>2, <3>3, <3>4, <3>5, Writes DEF Step, Saves, Updates, Resizes
  <2> QED
    BY <2>1, <2>2, <2>3, <2>4, PortOfStep
<1>2. ASSUME NEW p \in Proc, Invoke(p) PROVE Ports'
  <2>1. PICK c, n, s, i, l : Begin(p, c, n, s, i, l) /\ (c \in Creating => i.port = None)
    <3>1. CASE \E n \in Name, b \in Backups, t \in Presets : BeginCreate(p, n, b, t)
      BY <3>1 DEF BeginCreate
    <3>2. CASE \E n, s \in Name, c \in {"clone", "restore"} : BeginCopy(p, c, n, s)
      BY <3>2 DEF BeginCopy
    <3>3. ASSUME NEW n \in Name, BeginRotate(p, n) \/ BeginResize(p, n) \/ BeginUpgrade(p, n)
                                 \/ \E w \in BOOLEAN : BeginDestroy(p, n, w)
          PROVE  \E c, s, i, l : Begin(p, c, n, s, i, l) /\ c \notin Creating
      BY <3>3 DEF BeginRotate, BeginResize, BeginUpgrade, BeginDestroy, Creating
    <3> QED
      BY <1>2, <3>1, <3>2, <3>3 DEF Invoke
  <2>2. /\ UNCHANGED <<state, raced>>
        /\ job'[p] = [cmd |-> c, name |-> n, src |-> s, inst |-> i]
        /\ \A q \in Proc : q # p => pc'[q] = pc[q] /\ job'[q] = job[q]
    BY <2>1 DEF Begin, ghosts, IInv, Shape
  <2>3. \A q \in Proc : Holding(q)' => Holding(q) /\ N(q)' = N(q) /\ I(q)'.port = I(q).port
    BY <2>1, <2>2 DEF Holding, N, I
  <2> QED
    BY <2>2, <2>3, NoNewPort
<1>3. ASSUME NEW n \in Name, Host(n) \/ Disturb(n) PROVE Ports'
  <2>1. UNCHANGED <<state, pc, job, raced>>
    BY <1>3 DEF Host, Disturb, local, ghosts
  <2> QED
    BY <2>1, NoNewPort DEF Holding, N, I
<1> QED
  BY <1>1, <1>2, <1>3 DEF Next

\* ports.rs: two saved instances share a port only if both allocated it at once.
THEOREM PortsSharedByRace == ApartSpec => []PortsUnique
<1>1. Init => Ports
  BY DEF Init, Ports, PortsUnique, Holding
<1>2. IInv /\ Ports /\ [Next /\ Apart']_vars => Ports'
  <2>1. IInv /\ Ports /\ UNCHANGED vars => Ports'
    BY NoNewPort DEF vars, local, ghosts, Holding, N, I
  <2> QED
    BY <2>1, PortsStep
<1>3. Ports => PortsUnique
  BY DEF Ports
<1> QED
  BY <1>1, <1>2, <1>3, Always, PTL DEF ApartSpec

-----------------------------------------------------------------------------
(* What a client sees: Lifecycle implements Instances                      *)

\* What the entrypoint leaves alone when the container starts again.
Filled(n) ==
    ctr[n].kind = "regular" \/ (vol[ctr[n].vol] \in Cluster /\ vol[ctr[n].vol].mark = ctr[n].kind)

\* pg_upgrade is through with it.
Copied(n) ==
    /\ IsCluster(DataVolume(n), 1) /\ vol[NewVolume(n)] \in Cluster
    /\ vol[NewVolume(n)].data = vol[DataVolume(n)].data

\* While there is an upgrade container, its volumes are left alone.
Keeps(n) ==
    /\ Exists(n) /\ (state[n] # None \/ Up(n)) => Filled(n)
    /\ oneshot[n] # None => state[n] # None /\ (state[n].ver = 1 \/ oneshot[n] = "ok")
    /\ oneshot[n] = "ok" => Copied(n)

\* What a command has made sure of before it changes state.toml.
Sure(p) ==
    /\ pc[p] = "save" => Filled(N(p))
    /\ pc[p] = "update" => Copied(N(p)) /\ oneshot[N(p)] \in {None, "ok"}
    /\ pc[p] = "rmDir" => oneshot[N(p)] = None /\ vol[I(p).vol] = None

KInv == (\A n \in Name : Keeps(n)) /\ \A p \in Proc : pc[p] # "idle" => Sure(p)

\* Only(n), of what is shown alone.
OnlySeen(n) ==
    \A m \in Name : m # n =>
        /\ state'[m] = state[m] /\ ctr'[m] = ctr[m] /\ oneshot'[m] = oneshot[m]
        /\ vol'[DataVolume(m)] = vol[DataVolume(m)]
        /\ vol'[NewVolume(m)] = vol[NewVolume(m)]

LEMMA FrameKeeps ==
    ASSUME NEW n, OnlySeen(n), NEW m \in Name, m # n, Held(m), Keeps(m)
    PROVE  Keeps(m)'
<1>1. /\ state'[m] = state[m] /\ ctr'[m] = ctr[m] /\ oneshot'[m] = oneshot[m]
      /\ vol'[DataVolume(m)] = vol[DataVolume(m)] /\ vol'[NewVolume(m)] = vol[NewVolume(m)]
  BY DEF OnlySeen
<1>2. Exists(m) => ctr[m].vol \in {DataVolume(m), NewVolume(m)}
  BY DEF Held, Made
<1> QED
  BY <1>1, <1>2 DEF Keeps, Filled, Copied, IsCluster, Exists, Up

LEMMA FrameSure ==
    ASSUME IInv, NEW n, OnlySeen(n), NEW q \in Proc, pc[q] # "idle", N(q) # n, Sure(q),
           pc'[q] = pc[q], job'[q] = job[q]
    PROVE  Sure(q)'
<1> DEFINE m == N(q)
<1>1. /\ m \in Name /\ Task(q) /\ Held(m) /\ I(q).vol \in {DataVolume(m), NewVolume(m)}
  BY Local
<1>2. N(q)' = m /\ I(q)' = I(q)
  BY DEF N, I
<1>3. /\ state'[m] = state[m] /\ ctr'[m] = ctr[m] /\ oneshot'[m] = oneshot[m]
      /\ vol'[DataVolume(m)] = vol[DataVolume(m)] /\ vol'[NewVolume(m)] = vol[NewVolume(m)]
  BY <1>1 DEF OnlySeen
<1>4. pc[q] = "save" => ctr[m].vol = I(q).vol
  BY <1>1 DEF Task, Builds
<1> HIDE DEF m
<1> QED
  BY <1>1, <1>2, <1>3, <1>4 DEF Sure, Filled, Copied, IsCluster, m

\* The step of one command, on one name.
LEMMA KeptBy ==
    ASSUME IInv, KInv, NEW p \in Proc, pc[p] # "idle", NEW n, n = N(p), OnlySeen(n),
           \A q \in Proc : q # p => pc'[q] = pc[q] /\ job'[q] = job[q],
           Keeps(n)', pc'[p] # "idle" => Sure(p)'
    PROVE  KInv'
<1>1. \A q \in Proc : q # p /\ pc[q] # "idle" => N(q) # n
  BY DEF IInv, Apart, N
<1>2. \A m \in Name : Keeps(m)'
  BY FrameKeeps DEF IInv, KInv
<1>3. ASSUME NEW q \in Proc, pc'[q] # "idle" PROVE Sure(q)'
  BY <1>1, <1>3, FrameSure DEF KInv
<1> QED
  BY <1>2, <1>3 DEF KInv

\* A step of the host, on one name.
LEMMA KeptByHost ==
    ASSUME IInv, KInv, NEW n \in Name, OnlySeen(n), UNCHANGED <<pc, job>>,
           Keeps(n)', \A p \in Proc : pc[p] # "idle" /\ N(p) = n => Sure(p)'
    PROVE  KInv'
<1>1. \A m \in Name : Keeps(m)'
  BY FrameKeeps DEF IInv, KInv
<1>2. ASSUME NEW q \in Proc, pc'[q] # "idle" PROVE Sure(q)'
  BY <1>2, FrameSure DEF KInv
<1> QED
  BY <1>1, <1>2 DEF KInv

\* What is shown of a name changes with what is n's only.
LEMMA SeenBy ==
    ASSUME IInv, NEW n \in Name, OnlySeen(n)
    PROVE  /\ Listing' = [Listing EXCEPT ![n] = Listing'[n]]
           /\ Holds' = [Holds EXCEPT ![n] = Holds'[n]]
<1>1. ASSUME NEW m \in Name, m # n
      PROVE  Listing'[m] = Listing[m] /\ Holds'[m] = Holds[m]
  <2>1. /\ state'[m] = state[m]
        /\ vol'[DataVolume(m)] = vol[DataVolume(m)] /\ vol'[NewVolume(m)] = vol[NewVolume(m)]
    BY <1>1 DEF OnlySeen
  <2>2. state[m] # None => state[m].vol \in {DataVolume(m), NewVolume(m)}
    BY <1>1 DEF IInv, Held, Saved
  <2> QED
    BY <1>1, <2>1, <2>2 DEF Listing, Holds, HasCluster
<1>2. Listing = [m \in Name |-> Listing[m]] /\ Listing' = [m \in Name |-> Listing'[m]]
  BY DEF Listing
<1>3. Holds = [m \in Name |-> Holds[m]] /\ Holds' = [m \in Name |-> Holds'[m]]
  BY DEF Holds
<1> QED
  BY <1>1, <1>2, <1>3

LEMMA Unseen ==
    ASSUME IInv, NEW n \in Name, OnlySeen(n), Listing'[n] = Listing[n], Holds'[n] = Holds[n]
    PROVE  UNCHANGED Abstract!vars
<1>1. Listing = [m \in Name |-> Listing[m]] /\ Holds = [m \in Name |-> Holds[m]]
  BY DEF Listing, Holds
<1> QED
  BY <1>1, SeenBy DEF Abstract!vars

LEMMA StillUnseen == UNCHANGED <<state, vol>> => UNCHANGED Abstract!vars
BY DEF Abstract!vars, Listing, Holds, HasCluster

\* The clusters that are there stay, and no state.toml changes.
LEMMA ClustersUnseen ==
    ASSUME IInv, UNCHANGED state, NEW n \in Name, OnlySeen(n),
           state[n] # None => IF vol[state[n].vol] \in Cluster
                              THEN vol'[state[n].vol] = vol[state[n].vol]
                              ELSE vol'[state[n].vol] \in {None, Empty, Junk}
    PROVE  UNCHANGED Abstract!vars
<1>1. state[n] # None => vol[state[n].vol] \in Cluster \cup {None, Empty, Junk}
  BY DEF IInv, Held, Saved, HostTypes
<1>2. \A x \in {None, Empty, Junk} : x \notin Cluster
  BY HostAssumption DEF HostAssumption
<1>3. Listing'[n] = Listing[n] /\ Holds'[n] = Holds[n]
  BY <1>1, <1>2 DEF Listing, Holds, HasCluster
<1> QED
  BY <1>3, Unseen

\* Neither volumes nor state.toml change, and no container becomes ready.
Calm(n) ==
    /\ OnlySeen(n) /\ UNCHANGED <<state, oneshot, vol>>
    /\ ctr'[n] # None =>
         /\ ctr[n] # None /\ ctr'[n].vol = ctr[n].vol /\ ctr'[n].kind = ctr[n].kind
         /\ ctr'[n].st = "up" => ctr[n].st = "up"

LEMMA CalmKeeps ==
    ASSUME NEW n, Calm(n), Keeps(n)
    PROVE  Keeps(n)'
BY DEF Calm, Keeps, Filled, Copied, IsCluster, Exists, Up

LEMMA CalmStep ==
    ASSUME IInv, KInv, NEW p \in Proc, pc[p] # "idle", NEW n, n = N(p), Calm(n),
           (\E l : l \notin {"save", "update", "rmDir"} /\ Goto(p, l)) \/ Quit(p)
    PROVE  KInv' /\ UNCHANGED Abstract!vars
<1>1. /\ \A q \in Proc : q # p => pc'[q] = pc[q] /\ job'[q] = job[q]
      /\ pc'[p] \notin {"save", "update", "rmDir"}
  BY Moves DEF IInv, Shape, Quit
<1>2. Keeps(n)' /\ (pc'[p] # "idle" => Sure(p)')
  BY <1>1, Local, CalmKeeps DEF KInv, Sure
<1> QED
  BY <1>1, <1>2, KeptBy, StillUnseen DEF Calm

LEMMA CalmHost ==
    ASSUME IInv, KInv, NEW n \in Name, Calm(n), UNCHANGED <<pc, job>>,
           Exists(n) => ctr'[n] # None
    PROVE  KInv' /\ UNCHANGED Abstract!vars
<1>1. Keeps(n)'
  BY CalmKeeps DEF KInv
<1>2. ASSUME NEW q \in Proc, pc[q] # "idle", N(q) = n PROVE Sure(q)'
  <2>1. Sure(q) /\ N(q)' = n /\ I(q)' = I(q) /\ Task(q)
    BY <1>2, Local DEF KInv, N, I
  <2>2. pc[q] = "save" => ctr[n] # None
    BY <1>2, <2>1 DEF Task, Builds, Mine, Exists
  <2> QED
    BY <1>2, <2>1, <2>2 DEF Calm, Sure, Filled, Copied, IsCluster, Exists
<1> QED
  BY <1>1, <1>2, KeptByHost, StillUnseen DEF Calm

\* A step that touches no container either.
LEMMA SameIsCalm == \A n : UNCHANGED <<state, oneshot, vol, ctr>> => Calm(n)
BY DEF Calm, OnlySeen

LEMMA StillStep ==
    ASSUME IInv, KInv, NEW p \in Proc,
           \/ Check(p) \/ Refused(p) \/ AllocatePort(p) \/ WriteConf(p) \/ WriteRepo(p)
           \/ NotReady(p) \/ CleanConf(p) \/ PreSnapshot(p) \/ DeleteStanza(p)
           \/ CallFails(p) \/ Die(p)
    PROVE  KInv' /\ UNCHANGED Abstract!vars
<1>1. pc[p] # "idle" /\ UNCHANGED <<state, oneshot, vol, ctr>>
  BY DEF At, Check, Refused, AllocatePort, WriteConf, WriteRepo, NotReady, CleanConf,
         PreSnapshot, DeleteStanza, CallFails, Die, hostVars
<1>2. Err(p) => (\E l : l \notin {"save", "update", "rmDir"} /\ Goto(p, l)) \/ Quit(p)
  BY DEF Err
<1>3. CASE AllocatePort(p)
  <2>1. /\ \A q \in Proc : q # p => pc'[q] = pc[q] /\ job'[q] = job[q]
        /\ pc'[p] \notin {"save", "update", "rmDir"}
    BY <1>3 DEF AllocatePort, Quit, IInv, Shape
  <2>2. PICK n \in Name : n = N(p)
    BY <1>1, Local
  <2>3. Keeps(n)' /\ (pc'[p] # "idle" => Sure(p)')
    BY <1>1, <2>1, SameIsCalm, CalmKeeps DEF KInv, Sure
  <2> QED
    BY <1>1, <2>1, <2>2, <2>3, SameIsCalm, KeptBy, StillUnseen DEF Calm
<1>4. CASE ~AllocatePort(p)
  <2>1. (\E l : l \notin {"save", "update", "rmDir"} /\ Goto(p, l)) \/ Quit(p)
    BY <1>2, <1>4 DEF Check, Refused, WriteConf, WriteRepo, NotReady, CleanConf, PreSnapshot,
                      DeleteStanza, CallFails, Die
  <2> QED
    BY <1>1, <2>1, SameIsCalm, CalmStep
<1> QED
  BY <1>3, <1>4

LEMMA BeginStill ==
    ASSUME IInv, KInv, NEW p \in Proc, Invoke(p)
    PROVE  KInv' /\ UNCHANGED Abstract!vars
<1>1. PICK c, n, s, i, l : Begin(p, c, n, s, i, l) /\ l \notin {"save", "update", "rmDir"}
  <2>1. ASSUME NEW n \in Name,
               \/ \E b \in Backups, t \in Presets : BeginCreate(p, n, b, t)
               \/ \E s \in Name, c \in {"clone", "restore"} : BeginCopy(p, c, n, s)
        PROVE  \E c, s, i : Begin(p, c, n, s, i, "check")
    BY <2>1 DEF BeginCreate, BeginCopy
  <2>2. ASSUME NEW n \in Name,
               BeginRotate(p, n) \/ BeginResize(p, n) \/ BeginUpgrade(p, n)
               \/ \E w \in BOOLEAN : BeginDestroy(p, n, w)
        PROVE  \E c, i, l : Begin(p, c, n, n, i, l) /\ l \notin {"save", "update", "rmDir"}
    BY <2>2 DEF BeginRotate, BeginResize, BeginUpgrade, BeginDestroy
  <2> QED
    BY <2>1, <2>2 DEF Invoke
<1>2. UNCHANGED <<state, oneshot, vol, ctr>>
  BY <1>1 DEF Begin, hostVars
<1>3. ASSUME NEW m \in Name PROVE Keeps(m)'
  BY <1>2, SameIsCalm, CalmKeeps DEF KInv
<1>4. ASSUME NEW q \in Proc, pc'[q] # "idle" PROVE Sure(q)'
  <2>1. CASE q = p
    BY <1>1, <2>1 DEF Begin, IInv, Shape, Sure
  <2>2. CASE q # p
    <3>1. pc'[q] = pc[q] /\ N(q)' = N(q) /\ I(q)' = I(q) /\ Sure(q)
      BY <1>1, <1>4, <2>2 DEF Begin, IInv, Shape, N, I, KInv
    <3> QED
      BY <1>2, <3>1 DEF Sure, Filled, Copied, IsCluster
  <2> QED
    BY <2>1, <2>2
<1> QED
  BY <1>2, <1>3, <1>4, StillUnseen DEF KInv

LEMMA CalmContainer ==
    ASSUME IInv, NEW n \in Name, Exists(n), StartContainer(n) \/ StopContainer(n),
           UNCHANGED <<conf, state, oneshot, vol>>
    PROVE  Calm(n) /\ ctr'[n] # None
<1>1. ctr[n] \in Container
  BY DEF IInv, Held, HostTypes, Exists
<1>2. Same(n)
  BY Started, Stopped
<1>3. ctr'[n].kind = ctr[n].kind /\ ctr'[n].st # "up"
  BY <1>1 DEF StartContainer, StopContainer, IInv, Shape, Container
<1> QED
  BY <1>1, <1>2, <1>3 DEF Same, Calm, OnlySeen, Exists

LEMMA StoppingStep ==
    ASSUME IInv, KInv, NEW p \in Proc,
           Start(p) \/ Stop(p) \/ Remove(p) \/ CleanContainer(p)
    PROVE  KInv' /\ UNCHANGED Abstract!vars
<1> DEFINE n == N(p)
<1>1. pc[p] # "idle" /\ UNCHANGED <<state, oneshot, vol>>
  BY DEF At, Start, Stop, Remove, CleanContainer
<1>2. n \in Name /\ Held(n) /\ (ctr[n] # None => ctr[n] \in Container)
  BY <1>1, Local DEF Held, HostTypes
<1>3. (\E l : l \notin {"save", "update", "rmDir"} /\ Goto(p, l)) \/ Quit(p)
  <2>1. Err(p) => (\E l : l \notin {"save", "update", "rmDir"} /\ Goto(p, l)) \/ Quit(p)
    BY DEF Err
  <2>2. job[p].cmd \in {"rotate", "resize", "upgrade", "destroy"} /\ Remove(p) =>
            \E l : l \notin {"save", "update", "rmDir"} /\ Goto(p, l)
    BY DEF Remove
  <2>3. Remove(p) => job[p].cmd \in {"rotate", "resize", "upgrade", "destroy"}
    BY Local DEF Remove, At, Task, Control, Building, Cleanup, Creating
  <2> QED
    BY <2>1, <2>2, <2>3 DEF Start, Stop, CleanContainer
<1>4. Calm(n)
  <2>1. CASE UNCHANGED ctr
    BY <1>1, <2>1, SameIsCalm
  <2>2. CASE ctr' = [ctr EXCEPT ![n] = None]
    BY <1>1, <1>2, <2>2 DEF Calm, OnlySeen, IInv, Shape
  <2>3. CASE UNCHANGED conf /\ (StartContainer(n) \/ (Running(n) /\ StopContainer(n)))
    BY <1>1, <1>2, <2>3, CalmContainer DEF StartContainer, Startable, Running
  <2> QED
    BY <2>1, <2>2, <2>3 DEF Start, Stop, Remove, CleanContainer
<1> QED
  BY <1>1, <1>3, <1>4, CalmStep

LEMMA DisturbStill ==
    ASSUME IInv, KInv, NEW n \in Name, Disturb(n) \/ (Host(n) /\ ArchivePush(n))
    PROVE  KInv' /\ UNCHANGED Abstract!vars
<1>1. UNCHANGED <<conf, state, oneshot, vol, pc, job>>
  BY DEF Disturb, Host, GoDown, ComeBack, ArchivePush, local
<1>2. Calm(n) /\ (Exists(n) => ctr'[n] # None)
  <2>1. CASE UNCHANGED ctr
    BY <1>1, <2>1, SameIsCalm DEF Exists
  <2>2. CASE Exists(n) /\ (StartContainer(n) \/ StopContainer(n))
    BY <1>1, <2>2, CalmContainer
  <2> QED
    BY <2>1, <2>2
       DEF Disturb, GoDown, ComeBack, ArchivePush, StartContainer, Startable, Running
<1> QED
  BY <1>1, <1>2, CalmHost

-----------------------------------------------------------------------------
(* Steps that a client may see                                             *)

\* Its cluster is ready, and what its entrypoint would leave alone is there.
LEMMA ReadyKeeps ==
    ASSUME IInv, KInv, NEW p \in Proc, NEW n, n = N(p), Ready(p)
    PROVE  KInv' /\ UNCHANGED Abstract!vars
<1>1. /\ pc[p] # "idle" /\ UNCHANGED <<state, oneshot, vol, ctr>> /\ Up(n)
      /\ Quit(p) \/ Goto(p, "save") \/ Err(p)
  BY DEF Ready, At
<1>2. n \in Name
  BY <1>1, Local
<1>3. CASE Goto(p, "save")
  <2>1. /\ pc'[p] = "save" /\ N(p)' = n
        /\ \A q \in Proc : q # p => pc'[q] = pc[q] /\ job'[q] = job[q]
    BY <1>3, Moves
  <2>2. Keeps(n) /\ Filled(n)
    BY <1>1, <1>2 DEF KInv, Keeps, Up
  <2>3. Keeps(n)' /\ Sure(p)'
    BY <1>1, <2>1, <2>2, SameIsCalm, CalmKeeps DEF Sure, Filled
  <2> QED
    BY <1>1, <2>1, <2>3, SameIsCalm, KeptBy, StillUnseen DEF Calm
<1>4. CASE Quit(p) \/ Err(p)
  <2>1. (\E l : l \notin {"save", "update", "rmDir"} /\ Goto(p, l)) \/ Quit(p)
    BY <1>4 DEF Err
  <2> QED
    BY <1>1, <2>1, SameIsCalm, CalmStep
<1> QED
  BY <1>1, <1>3, <1>4

LEMMA LaunchKeeps ==
    ASSUME IInv, KInv, NEW p \in Proc, NEW n, n = N(p), LaunchOneshot(p)
    PROVE  KInv' /\ UNCHANGED Abstract!vars
<1>1. /\ pc[p] = "launch" /\ pc[p] # "idle" /\ UNCHANGED <<state, vol, ctr>>
      /\ oneshot' = [oneshot EXCEPT ![n] = "running"] /\ Goto(p, "wait")
  BY DEF LaunchOneshot, At
<1>2. /\ n \in Name /\ Task(p) /\ job[p].cmd = "upgrade"
  BY <1>1, Local DEF Task, Control, Building, Cleanup
<1>3. state[n] # None /\ state[n].ver = 1
  BY <1>1, <1>2 DEF Task, Changes, Creating, Building
<1>4. oneshot'[n] = "running" /\ \A m \in Name : m # n => oneshot'[m] = oneshot[m]
  BY <1>1, <1>2 DEF IInv, Shape
<1>5. /\ pc'[p] = "wait"
      /\ \A q \in Proc : q # p => pc'[q] = pc[q] /\ job'[q] = job[q]
  BY <1>1, Moves
<1>6. OnlySeen(n)
  BY <1>1, <1>4 DEF OnlySeen
<1>7. Keeps(n)' /\ Sure(p)'
  BY <1>1, <1>2, <1>3, <1>4, <1>5 DEF KInv, Keeps, Sure, Exists, Up, Filled
<1> QED
  BY <1>1, <1>5, <1>6, <1>7, KeptBy, StillUnseen

LEMMA CreateOneshotKeeps ==
    ASSUME IInv, KInv, NEW p \in Proc, NEW n, n = N(p), CreateOneshot(p)
    PROVE  KInv' /\ UNCHANGED Abstract!vars
<1>1. /\ pc[p] = "oneshot" /\ pc[p] # "idle" /\ UNCHANGED <<state, ctr>>
  BY DEF CreateOneshot, At
<1>2. /\ n \in Name /\ Task(p) /\ job[p].cmd = "upgrade"
      /\ I(p).vol \in {DataVolume(n), NewVolume(n)}
  BY <1>1, Local DEF Task, Control, Building, Cleanup
<1>3. state[n] # None /\ state[n].ver = 1 /\ ~Exists(n)
  BY <1>1, <1>2 DEF Task, Changes, Creating, Building
<1>4. CASE UNCHANGED <<oneshot, vol>> /\ Quit(p)
  BY <1>1, <1>4, SameIsCalm, CalmStep
<1>5. CASE /\ oneshot' = [oneshot EXCEPT ![n] = "created"]
           /\ vol' = WithVolumes({I(p).vol, NewVolume(n)}) /\ Goto(p, "launch")
  <2>1. oneshot'[n] = "created" /\ \A m \in Name : m # n => oneshot'[m] = oneshot[m]
    BY <1>2, <1>5 DEF IInv, Shape
  <2>2. /\ pc'[p] = "launch"
        /\ \A q \in Proc : q # p => pc'[q] = pc[q] /\ job'[q] = job[q]
    BY <1>5, Moves
  <2>3. /\ \A v \in Volume \ {DataVolume(n), NewVolume(n)} : vol'[v] = vol[v]
        /\ \A v \in Volume : vol[v] \in Cluster => vol'[v] = vol[v]
        /\ \A v \in Volume : vol[v] \notin Cluster => vol'[v] \in {vol[v], Empty}
    BY <1>2, <1>5, Mounting DEF WithVolumes
  <2>4. OnlySeen(n)
    BY <1>1, <2>1, <2>3, Volumes DEF OnlySeen
  <2>5. Keeps(n)' /\ Sure(p)'
    BY <1>1, <1>3, <2>1, <2>2 DEF Keeps, Sure, Exists
  <2>6. UNCHANGED Abstract!vars
    <3>1. Saved(n) /\ state[n].vol \in Volume /\ HostTypes(n)
      BY <1>2, <1>3, Volumes DEF IInv, Held, Saved
    <3> QED
      BY <1>1, <1>2, <1>3, <2>3, <2>4, <3>1, ClustersUnseen DEF HostTypes, Saved
  <2> QED
    BY <1>1, <2>2, <2>4, <2>5, <2>6, KeptBy
<1> QED
  BY <1>4, <1>5 DEF CreateOneshot

LEMMA CreateKeeps ==
    ASSUME IInv, KInv, NEW p \in Proc, NEW n, n = N(p), CreateContainer(p)
    PROVE  KInv' /\ UNCHANGED Abstract!vars
<1>1. /\ pc[p] = "create" /\ pc[p] # "idle" /\ UNCHANGED <<state, oneshot>>
  BY DEF CreateContainer, At
<1>2. /\ n \in Name /\ Task(p) /\ I(p).vol \in {DataVolume(n), NewVolume(n)}
  BY <1>1, Local
<1>3. CASE Exists(n)
  <2>1. UNCHANGED <<ctr, vol>> /\ Err(p)
    BY <1>3 DEF CreateContainer
  <2>2. (\E l : l \notin {"save", "update", "rmDir"} /\ Goto(p, l)) \/ Quit(p)
    BY <2>1 DEF Err
  <2> QED
    BY <1>1, <2>1, <2>2, SameIsCalm, CalmStep
<1>4. CASE ~Exists(n)
  <2> DEFINE k == IF job[p].cmd \in {"clone", "restore"} THEN job[p].cmd ELSE "regular"
  <2>1. /\ ctr'[n].kind = k /\ ctr'[n].st = "created"
        /\ \A m \in Name : m # n => ctr'[m] = ctr[m]
        /\ vol' = WithVolumes({I(p).vol}) /\ Goto(p, "start")
    BY <1>2, <1>4 DEF CreateContainer, IInv, Shape
  <2>2. /\ pc'[p] = "start"
        /\ \A q \in Proc : q # p => pc'[q] = pc[q] /\ job'[q] = job[q]
    BY <2>1, Moves
  <2>3. /\ \A v \in Volume \ {DataVolume(n), NewVolume(n)} : vol'[v] = vol[v]
        /\ \A v \in Volume : vol[v] \in Cluster => vol'[v] = vol[v]
        /\ \A v \in Volume : vol[v] \notin Cluster => vol'[v] \in {vol[v], Empty}
    BY <1>2, <2>1, Mounting DEF WithVolumes
  <2>4. OnlySeen(n)
    BY <1>1, <2>1, <2>3, Volumes DEF OnlySeen
  <2>5. state[n] # None => k = "regular"
    BY <1>2 DEF Task, Creates, Creating
  <2> HIDE DEF k
  <2>6. Keeps(n)'
    <3>1. Exists(n)' /\ (state'[n] # None \/ Up(n)') => Filled(n)'
      BY <1>1, <2>1, <2>5 DEF Filled, Up
    <3>2. oneshot'[n] # None =>
            state'[n] # None /\ (state'[n].ver = 1 \/ oneshot'[n] = "ok")
      BY <1>1, <1>2 DEF KInv, Keeps
    <3>3. oneshot'[n] = "ok" => Copied(n)'
      BY <1>1, <1>2, <2>3, Volumes DEF KInv, Keeps, Copied, IsCluster
    <3> QED
      BY <3>1, <3>2, <3>3 DEF Keeps
  <2>7. UNCHANGED Abstract!vars
    <3>1. Saved(n) /\ (state[n] # None => state[n].vol \in Volume) /\ HostTypes(n)
      BY <1>2, Volumes DEF IInv, Held, Saved
    <3> QED
      BY <1>1, <1>2, <2>3, <2>4, <3>1, ClustersUnseen DEF HostTypes, Saved
  <2>8. Sure(p)'
    BY <2>2 DEF Sure
  <2> QED
    BY <1>1, <2>2, <2>4, <2>6, <2>7, <2>8, KeptBy
<1> QED
  BY <1>3, <1>4

\* A volume that nothing uses goes: n's container is on another one, and it is
\* not being upgraded.
LEMMA GoneKeeps ==
    ASSUME IInv, NEW n \in Name, NEW v \in {DataVolume(n), NewVolume(n)}, ~InUse(v),
           vol' = [vol EXCEPT ![v] = None], UNCHANGED <<state, ctr, oneshot>>, Keeps(n)
    PROVE  /\ Keeps(n)' /\ OnlySeen(n) /\ oneshot[n] = None
           /\ vol'[v] = None /\ \A w \in Volume : w # v => vol'[w] = vol[w]
<1>1. vol'[v] = None /\ \A w \in Volume : w # v => vol'[w] = vol[w]
  BY Volumes DEF IInv, Shape
<1>2. (Exists(n) => ctr[n].vol # v) /\ oneshot[n] = None
  BY DEF InUse
<1>3. Exists(n) => ctr[n].vol \in Volume
  BY Volumes DEF IInv, Held, Made
<1>4. Keeps(n)'
  BY <1>1, <1>2, <1>3, HostAssumption DEF Keeps, Filled, Exists, Up, HostAssumption
<1> QED
  BY <1>1, <1>2, <1>4, Volumes DEF OnlySeen

LEMMA CleanVolumeKeeps ==
    ASSUME IInv, KInv, NEW p \in Proc, NEW n, n = N(p), CleanVolume(p)
    PROVE  KInv' /\ UNCHANGED Abstract!vars
<1>1. /\ pc[p] = "cleanVolume" /\ pc[p] # "idle" /\ Goto(p, "cleanConf")
      /\ UNCHANGED <<state, ctr, oneshot>>
  BY DEF CleanVolume, At
<1>2. /\ n \in Name /\ Task(p) /\ I(p).vol \in {DataVolume(n), NewVolume(n)}
      /\ job[p].cmd \in Creating
  BY <1>1, Local DEF Task, Control, Building
<1>3. state[n] = None
  BY <1>2 DEF Task, Creates
<1>4. CASE UNCHANGED vol
  BY <1>1, <1>4, SameIsCalm, CalmStep
<1>5. CASE ~InUse(I(p).vol) /\ vol' = [vol EXCEPT ![I(p).vol] = None]
  <2>1. Keeps(n)' /\ OnlySeen(n)
    BY <1>1, <1>2, <1>5, GoneKeeps DEF KInv
  <2>2. /\ pc'[p] = "cleanConf"
        /\ \A q \in Proc : q # p => pc'[q] = pc[q] /\ job'[q] = job[q]
    BY <1>1, Moves
  <2>3. UNCHANGED Abstract!vars
    BY <1>1, <1>2, <1>3, <2>1, ClustersUnseen
  <2> QED
    BY <1>1, <2>1, <2>2, <2>3, KeptBy DEF Sure
<1> QED
  BY <1>4, <1>5 DEF CleanVolume

\* destroy erases what is still there.
LEMMA RemoveVolumeKeeps ==
    ASSUME IInv, KInv, NEW p \in Proc, NEW n, n = N(p), RemoveVolume(p)
    PROVE  KInv' /\ [Abstract!Next]_(Abstract!vars)
<1>1. /\ pc[p] = "rmVolume" /\ pc[p] # "idle" /\ UNCHANGED <<state, ctr, oneshot>>
  BY DEF RemoveVolume, At
<1>2. /\ n \in Name /\ Task(p) /\ I(p).vol \in {DataVolume(n), NewVolume(n)}
      /\ job[p].cmd = "destroy"
  BY <1>1, Local DEF Task, Control, Building, Cleanup
<1>3. state[n] # None /\ state[n] = I(p)
  BY <1>2 DEF Task, Changes, Creating
<1>4. CASE UNCHANGED vol /\ Quit(p)
  BY <1>1, <1>4, SameIsCalm, CalmStep
<1>5. CASE /\ ~InUse(I(p).vol) /\ vol' = [vol EXCEPT ![I(p).vol] = None]
           /\ Goto(p, "rmDir")
  <2>1. Keeps(n)' /\ OnlySeen(n) /\ oneshot[n] = None /\ vol'[I(p).vol] = None
    BY <1>1, <1>2, <1>5, GoneKeeps DEF KInv
  <2>2. /\ pc'[p] = "rmDir" /\ N(p)' = n /\ I(p)' = I(p)
        /\ \A q \in Proc : q # p => pc'[q] = pc[q] /\ job'[q] = job[q]
    BY <1>5, Moves
  <2>3. Listing' = Listing
    BY <1>1 DEF Listing
  <2>4. Holds'[n] = None
    BY <1>1, <1>2, <1>3, <2>1 DEF Holds, HasCluster
  <2>5. Holds[n] = None => UNCHANGED Abstract!vars
    BY <1>2, <2>1, <2>3, <2>4, Unseen
  <2>6. Holds[n] # None => Abstract!Erase(n)
    BY <1>2, <2>1, <2>3, <2>4, SeenBy DEF Abstract!Erase
  <2>7. [Abstract!Next]_(Abstract!vars)
    BY <1>2, <2>5, <2>6 DEF Abstract!Next
  <2>8. Sure(p)'
    BY <1>1, <2>1, <2>2 DEF Sure
  <2> QED
    BY <1>1, <2>1, <2>2, <2>7, <2>8, KeptBy
<1> QED
  BY <1>4, <1>5 DEF RemoveVolume

\* The upgrade container has copied everything, or its new volume is not used.
LEMMA OneshotExitsKeeps ==
    ASSUME IInv, KInv, NEW p \in Proc, NEW n, n = N(p), OneshotExits(p)
    PROVE  KInv' /\ UNCHANGED Abstract!vars
<1>1. /\ pc[p] = "wait" /\ pc[p] # "idle" /\ UNCHANGED <<state, ctr>>
      /\ oneshot' \in {oneshot, [oneshot EXCEPT ![n] = None]}
      /\ \/ oneshot[n] = "ok" /\ Goto(p, "update") /\ UNCHANGED vol
         \/ oneshot[n] = "failed" /\ Quit(p)
            /\ vol' \in {vol, [vol EXCEPT ![NewVolume(n)] = None]}
  BY DEF OneshotExits, At
<1>2. /\ n \in Name /\ Task(p) /\ job[p].cmd = "upgrade" /\ Held(n) /\ Keeps(n)
  BY <1>1, Local DEF Task, Control, Building, Cleanup, KInv
<1>3. ~Exists(n) /\ state[n] # None /\ state[n].ver = 1
  BY <1>1, <1>2 DEF Task, Changes, Creating, Building
<1>4. oneshot'[n] \in {None, oneshot[n]} /\ \A m \in Name : m # n => oneshot'[m] = oneshot[m]
  BY <1>1, <1>2 DEF IInv, Shape
<1>5. Keeps(n)'
  BY <1>1, <1>2, <1>3, <1>4, HostAssumption
     DEF Keeps, Copied, IsCluster, Exists, HostAssumption
<1>6. CASE oneshot[n] = "ok" /\ Goto(p, "update") /\ UNCHANGED vol
  <2>1. /\ pc'[p] = "update" /\ N(p)' = n
        /\ \A q \in Proc : q # p => pc'[q] = pc[q] /\ job'[q] = job[q]
    BY <1>6, Moves
  <2>2. Sure(p)'
    BY <1>2, <1>4, <1>6, <2>1 DEF Sure, Keeps, Copied, IsCluster
  <2>3. OnlySeen(n)
    BY <1>1, <1>4, <1>6 DEF OnlySeen
  <2> QED
    BY <1>1, <1>5, <1>6, <2>1, <2>2, <2>3, KeptBy, StillUnseen
<1>7. CASE Quit(p) /\ vol' \in {vol, [vol EXCEPT ![NewVolume(n)] = None]}
  <2>1. \A w \in Volume : w # NewVolume(n) => vol'[w] = vol[w]
    BY <1>7 DEF IInv, Shape
  <2>2. OnlySeen(n)
    BY <1>1, <1>2, <1>4, <2>1, Volumes DEF OnlySeen
  <2>3. state[n].vol = DataVolume(n) /\ vol'[DataVolume(n)] = vol[DataVolume(n)]
    BY <1>2, <1>3, <2>1, Volumes DEF Held, Saved
  <2>4. UNCHANGED Abstract!vars
    BY <1>1, <1>2, <2>2, <2>3, ClustersUnseen DEF Held, HostTypes
  <2>5. /\ pc'[p] = "idle"
        /\ \A q \in Proc : q # p => pc'[q] = pc[q] /\ job'[q] = job[q]
    BY <1>7, Moves
  <2> QED
    BY <1>1, <1>5, <2>2, <2>4, <2>5, KeptBy
<1> QED
  BY <1>1, <1>6, <1>7

LEMMA Summaries ==
    ASSUME NEW i \in Instance
    PROVE  /\ i.port # None => Summary(i) \in Abstract!Instance /\ Summary(i) # None
           /\ \A m \in Preset : Summary([i EXCEPT !.preset = m]) = [Summary(i) EXCEPT !.preset = m]
           /\ \A v : Summary([i EXCEPT !.ver = 2, !.vol = v]) = [Summary(i) EXCEPT !.ver = 2]
<1>1. /\ i.ver \in {1, 2} /\ i.port \in Port \cup {None} /\ i.backup \in BOOLEAN
      /\ i.preset \in Preset
  BY DEF Instance, Ver
<1>2. i.port # None => Summary(i) \in Abstract!Instance
  BY <1>1 DEF Summary, Abstract!Instance
<1>3. \A m \in Preset : Summary([i EXCEPT !.preset = m]) = [Summary(i) EXCEPT !.preset = m]
  BY DEF Summary, Instance
<1>4. \A v : Summary([i EXCEPT !.ver = 2, !.vol = v]) = [Summary(i) EXCEPT !.ver = 2]
  BY DEF Summary, Instance
<1> QED
  BY <1>2, <1>3, <1>4, SummaryAssumption DEF SummaryAssumption

\* What a saved instance shows.
LEMMA SavedShows ==
    ASSUME IInv, NEW n \in Name, state[n] # None
    PROVE  /\ state[n] \in Instance /\ Listing[n] = Summary(state[n]) /\ Listing[n] # None
           /\ Listing[n].ver = state[n].ver
           /\ state[n].vol \in {DataVolume(n), NewVolume(n)} /\ state[n].vol \in Volume
           /\ vol[state[n].vol] \in Cluster \cup {None, Empty, Junk}
<1>1. /\ state[n] \in Instance /\ state[n].port # None /\ HostTypes(n)
      /\ state[n].vol \in {DataVolume(n), NewVolume(n)}
  BY DEF IInv, Held, Saved
<1>2. Listing[n] = Summary(state[n])
  BY DEF Listing
<1>3. Listing[n].ver = state[n].ver
  BY <1>2 DEF Summary
<1>4. Listing[n] # None
  BY <1>1, <1>2, Summaries
<1>5. /\ state[n].vol \in Volume
      /\ vol[state[n].vol] \in Cluster \cup {None, Empty, Junk}
  BY <1>1, Volumes DEF HostTypes
<1> QED
  BY <1>1, <1>2, <1>3, <1>4, <1>5

LEMMA HoldsData ==
    ASSUME IInv, NEW n \in Name, state[n] # None
    PROVE  /\ vol[state[n].vol] \in Cluster =>
                Holds[n] = vol[state[n].vol].data /\ Holds[n] \in Lineage /\ Holds[n] # None
           /\ vol[state[n].vol] \notin Cluster => Holds[n] = None
<1>1. vol[state[n].vol] \in Cluster \cup {None, Empty, Junk}
  BY SavedShows
<1>2. vol[state[n].vol] \in Cluster => vol[state[n].vol].data \in Lineage
  BY DEF Cluster
<1>3. None \notin Lineage
  BY HostAssumption DEF HostAssumption, Lineage
<1> QED
  BY <1>1, <1>2, <1>3, HostAssumption DEF Holds, HasCluster, HostAssumption

\* A new preset, or the old one back.
LEMMA PresetShown ==
    ASSUME IInv, NEW n \in Name, state[n] # None, NEW m \in Preset,
           state' = [state EXCEPT ![n] = [state[n] EXCEPT !.preset = m]],
           UNCHANGED <<ctr, oneshot, vol>>, Keeps(n)
    PROVE  Keeps(n)' /\ OnlySeen(n) /\ [Abstract!Next]_(Abstract!vars)
<1>1. state[n] \in Instance /\ Listing[n] = Summary(state[n]) /\ Listing[n] # None
  BY SavedShows
<1>2. state'[n] = [state[n] EXCEPT !.preset = m]
  BY DEF IInv, Shape
<1>3. state'[n] \in Instance /\ state'[n].vol = state[n].vol /\ state'[n].ver = state[n].ver
  BY <1>1, <1>2 DEF Instance
<1>4. state'[n] # None
  BY <1>3, StateAssumption DEF StateAssumption
<1>5. OnlySeen(n)
  BY DEF OnlySeen, IInv, Shape
<1>6. Keeps(n)'
  BY <1>3, <1>4 DEF Keeps, Filled, Copied, IsCluster, Exists, Up
<1>7. Listing'[n] = [Listing[n] EXCEPT !.preset = m]
  BY <1>1, <1>2, <1>4, Summaries DEF Listing
<1>8. Holds'[n] = Holds[n]
  BY <1>3, <1>4 DEF Holds, HasCluster
<1>9. Listing' = [Listing EXCEPT ![n].preset = m] /\ Holds' = Holds
  <2>1. Holds = [k \in Name |-> Holds[k]]
    BY DEF Holds
  <2> QED
    BY <1>5, <1>7, <1>8, <2>1, SeenBy
<1>10. Abstract!Resize(n)
  BY <1>1, <1>9 DEF Abstract!Resize
<1> QED
  BY <1>5, <1>6, <1>10 DEF Abstract!Next

LEMMA PresetKeeps ==
    ASSUME IInv, KInv, NEW p \in Proc, NEW n, n = N(p), Resizes(p) \/ RollBack(p)
    PROVE  KInv' /\ [Abstract!Next]_(Abstract!vars)
<1>1. pc[p] # "idle" /\ UNCHANGED <<ctr, oneshot, vol>>
  BY DEF Resizes, SetPreset, SaveUnsynced, RollBack, At, hostVars
<1>2. n \in Name /\ Other(I(p).preset) \in Preset /\ Keeps(n)
  BY <1>1, Local, Others DEF KInv
<1>3. CASE UNCHANGED state
  <2>1. Quit(p) \/ state[n] # None
    BY <1>3 DEF Resizes, SetPreset, SaveUnsynced, RollBack
  <2>2. CASE Quit(p)
    BY <1>1, <1>3, <2>2, SameIsCalm, CalmStep
  <2>3. CASE SetPreset(p) /\ state[n] # None
    <3>1. /\ pc'[p] = "stop"
          /\ \A q \in Proc : q # p => pc'[q] = pc[q] /\ job'[q] = job[q]
      BY <2>3 DEF SetPreset, IInv, Shape
    <3>2. Keeps(n)' /\ Sure(p)'
      BY <1>1, <1>2, <1>3, <3>1, SameIsCalm, CalmKeeps DEF Sure
    <3> QED
      BY <1>1, <1>3, <3>1, <3>2, SameIsCalm, KeptBy, StillUnseen DEF Calm
  <2> QED
    BY <1>3, <2>1, <2>2, <2>3 DEF Resizes, SaveUnsynced, RollBack
<1>4. CASE state[n] # None
  <2> DEFINE m == Other(I(p).preset)
  <2>1. /\ state' = [state EXCEPT ![n] = [state[n] EXCEPT !.preset = m]]
        /\ pc'[p] \in {"stop", "idle"}
        /\ \A q \in Proc : q # p => pc'[q] = pc[q] /\ job'[q] = job[q]
    BY <1>4 DEF Resizes, SetPreset, SaveUnsynced, RollBack, Quit, IInv, Shape
  <2> HIDE DEF m
  <2>2. Keeps(n)' /\ OnlySeen(n) /\ [Abstract!Next]_(Abstract!vars)
    BY <1>1, <1>2, <1>4, <2>1, PresetShown DEF m
  <2>3. Sure(p)'
    BY <2>1 DEF Sure
  <2> QED
    BY <1>1, <2>1, <2>2, <2>3, KeptBy
<1>5. state[n] = None => UNCHANGED state
  BY DEF Resizes, SetPreset, SaveUnsynced, RollBack
<1> QED
  BY <1>3, <1>4, <1>5

\* An instance appears when its command has populated the volume.
LEMMA SaveKeeps ==
    ASSUME IInv, KInv, NEW p \in Proc, NEW n, n = N(p), Saves(p)
    PROVE  KInv' /\ [Abstract!Next]_(Abstract!vars)
<1>1. /\ pc[p] = "save" /\ pc[p] # "idle" /\ Quit(p) /\ UNCHANGED <<ctr, oneshot, vol>>
      /\ state' = [state EXCEPT ![n] = I(p)]
  BY DEF Saves, Save, SaveUnsynced, At, hostVars
<1>2. /\ n \in Name /\ Task(p) /\ job[p].cmd \in Creating /\ I(p) \in Instance
      /\ Keeps(n) /\ Filled(n)
  BY <1>1, Local DEF Task, Control, Building, KInv, Sure
<1>3. state[n] = None /\ I(p).port # None /\ IsCluster(I(p).vol, I(p).ver)
  BY <1>1, <1>2 DEF Task, Creates, Builds
<1>4. state'[n] = I(p) /\ \A m \in Name : m # n => state'[m] = state[m]
  BY <1>1, <1>2 DEF IInv, Shape
<1>5. OnlySeen(n)
  BY <1>1, <1>4 DEF OnlySeen
<1>6. oneshot[n] = None
  BY <1>2, <1>3 DEF Keeps
<1>7. Keeps(n)'
  BY <1>1, <1>2, <1>6, HostAssumption DEF Keeps, Filled, HostAssumption
<1>8. KInv'
  <2>1. pc'[p] = "idle" /\ \A q \in Proc : q # p => pc'[q] = pc[q] /\ job'[q] = job[q]
    BY <1>1, Moves
  <2> QED
    BY <1>1, <1>5, <1>7, <2>1, KeptBy
<1>9. Listing[n] = None /\ Holds[n] = None
  BY <1>2, <1>3 DEF Listing, Holds
<1>10. state'[n] # None
  BY <1>2, <1>4, StateAssumption DEF StateAssumption
<1>11. Listing'[n] \in Abstract!Instance
  <2>1. Listing'[n] = Summary(I(p))
    BY <1>2, <1>4, <1>10 DEF Listing
  <2> QED
    BY <1>2, <1>3, <2>1, Summaries
<1>12. Holds'[n] \in Lineage
  <2>1. vol[I(p).vol] \in Cluster
    BY <1>3 DEF IsCluster
  <2>2. Holds'[n] = vol[I(p).vol].data
    BY <1>1, <1>2, <1>4, <1>10, <2>1, HostAssumption DEF Holds, HasCluster, HostAssumption
  <2> QED
    BY <2>1, <2>2 DEF Cluster
<1>13. Abstract!Appear(n)
  BY <1>2, <1>5, <1>9, <1>11, <1>12, SeenBy DEF Abstract!Appear
<1> QED
  BY <1>2, <1>8, <1>13 DEF Abstract!Next

\* The new version appears when pg_upgrade has copied everything.
LEMMA UpdateKeeps ==
    ASSUME IInv, KInv, NEW p \in Proc, NEW n, n = N(p), Updates(p)
    PROVE  KInv' /\ [Abstract!Next]_(Abstract!vars)
<1>1. pc[p] = "update" /\ pc[p] # "idle" /\ UNCHANGED <<ctr, oneshot, vol>>
  BY DEF Updates, UpdateState, SaveUnsynced, At, hostVars
<1>2. /\ n \in Name /\ Task(p) /\ job[p].cmd = "upgrade" /\ Held(n) /\ Keeps(n)
      /\ Copied(n) /\ oneshot[n] \in {None, "ok"}
  BY <1>1, Local DEF Task, Control, Building, Cleanup, KInv, Sure
<1>3. ~Exists(n) /\ state[n] # None /\ state[n].ver = 1
  BY <1>1, <1>2 DEF Task, Changes, Creating, Building
<1>4. state[n] \in Instance /\ state[n].vol = DataVolume(n)
  BY <1>2, <1>3 DEF Held, Saved
<1> DEFINE i == [state[n] EXCEPT !.ver = 2, !.vol = NewVolume(n)]
<1>5. /\ state'[n] = i /\ \A m \in Name : m # n => state'[m] = state[m]
      /\ pc'[p] \in {"conf", "idle"} /\ \A q \in Proc : q # p => pc'[q] = pc[q] /\ job'[q] = job[q]
  BY <1>2, <1>3 DEF Updates, UpdateState, SaveUnsynced, Quit, IInv, Shape
<1>6. i.vol = NewVolume(n) /\ i \in Instance /\ Summary(i) = [Summary(state[n]) EXCEPT !.ver = 2]
  BY <1>2, <1>4, Summaries, Volumes DEF Instance, Ver
<1>7. i # None
  BY <1>6, StateAssumption DEF StateAssumption
<1> HIDE DEF i
<1>8. OnlySeen(n)
  BY <1>1, <1>5 DEF OnlySeen
<1>9. Keeps(n)' /\ Sure(p)'
  BY <1>1, <1>2, <1>3, <1>5, <1>7 DEF Keeps, Sure, Copied, IsCluster, Exists
<1>10. KInv'
  BY <1>1, <1>5, <1>8, <1>9, KeptBy
<1>11. Listing[n] = Summary(state[n]) /\ Listing[n] # None /\ Listing[n].ver = 1
  BY <1>2, <1>3, SavedShows
<1>12. Holds[n] = vol[DataVolume(n)].data /\ Holds[n] # None
  BY <1>2, <1>3, <1>4, HoldsData DEF Copied, IsCluster
<1>13. Listing'[n] = [Listing[n] EXCEPT !.ver = 2]
  BY <1>2, <1>5, <1>6, <1>7, <1>11 DEF Listing
<1>14. Holds'[n] = Holds[n]
  BY <1>1, <1>2, <1>5, <1>6, <1>7, <1>12, HostAssumption
     DEF Holds, HasCluster, Copied, HostAssumption
<1>15. Listing' = [Listing EXCEPT ![n].ver = 2] /\ Holds' = Holds
  <2>1. Holds = [k \in Name |-> Holds[k]]
    BY DEF Holds
  <2> QED
    BY <1>2, <1>8, <1>13, <1>14, <2>1, SeenBy
<1>16. Abstract!Upgrade(n)
  BY <1>11, <1>12, <1>15 DEF Abstract!Upgrade
<1> QED
  BY <1>2, <1>10, <1>16 DEF Abstract!Next

LEMMA RemoveDirKeeps ==
    ASSUME IInv, KInv, NEW p \in Proc, NEW n, n = N(p), RemoveDir(p)
    PROVE  KInv' /\ [Abstract!Next]_(Abstract!vars)
<1>1. /\ pc[p] = "rmDir" /\ pc[p] # "idle" /\ Quit(p) /\ UNCHANGED <<ctr, oneshot, vol>>
      /\ state' = [state EXCEPT ![n] = None]
  BY DEF RemoveDir, At
<1>2. /\ n \in Name /\ Task(p) /\ job[p].cmd = "destroy" /\ Keeps(n)
      /\ oneshot[n] = None /\ vol[I(p).vol] = None
  BY <1>1, Local DEF Task, Control, Building, Cleanup, KInv, Sure
<1>3. ~Exists(n) /\ state[n] # None /\ state[n] = I(p)
  BY <1>1, <1>2 DEF Task, Changes, Creating
<1>4. state'[n] = None /\ \A m \in Name : m # n => state'[m] = state[m]
  BY <1>1, <1>2 DEF IInv, Shape
<1>5. OnlySeen(n)
  BY <1>1, <1>4 DEF OnlySeen
<1>6. Keeps(n)'
  BY <1>1, <1>2, <1>3, HostAssumption DEF Keeps, Exists, HostAssumption
<1>7. pc'[p] = "idle" /\ \A q \in Proc : q # p => pc'[q] = pc[q] /\ job'[q] = job[q]
  BY <1>1, Moves
<1>8. Listing[n] # None /\ Holds[n] = None /\ Listing'[n] = None /\ Holds'[n] = None
  BY <1>2, <1>3, <1>4, SavedShows DEF Listing, Holds, HasCluster
<1>9. Listing' = [Listing EXCEPT ![n] = None] /\ Holds' = Holds
  <2>1. Holds = [k \in Name |-> Holds[k]]
    BY DEF Holds
  <2> QED
    BY <1>2, <1>5, <1>8, <2>1, SeenBy
<1>10. Abstract!Vanish(n)
  BY <1>8, <1>9 DEF Abstract!Vanish
<1>11. KInv'
  BY <1>1, <1>5, <1>6, <1>7, KeptBy
<1> QED
  BY <1>2, <1>10, <1>11 DEF Abstract!Next

\* An entrypoint leaves alone what it, or a command before it, has filled.
LEMMA PopulatedOnce ==
    ASSUME IInv, NEW n \in Name, Exists(n), Populate(n)
    PROVE  /\ vol[ctr[n].vol] \in Cluster /\ Filled(n) => UNCHANGED vol
           /\ ctr[n].kind = "regular" \/ vol'[ctr[n].vol].mark = ctr[n].kind
<1> DEFINE v == ctr[n].vol
<1>1. /\ v \in Volume /\ DOMAIN vol = Volume
  BY Volumes DEF IInv, Shape, Held, Made
<1>2. vol[v] \in Cluster => HasCluster(v)
  BY HostAssumption DEF HasCluster, HostAssumption
<1>3. vol[v] \in Cluster /\ Filled(n) => UNCHANGED vol
  BY <1>2 DEF Populate, Filled
<1>4. ASSUME ctr[n].kind # "regular" PROVE vol'[v].mark = ctr[n].kind
  <2>1. CASE vol[v].mark = ctr[n].kind /\ UNCHANGED vol
    BY <2>1
  <2>2. ASSUME ctr[n].kind = "clone", Up(ctr[n].src), NEW c, c = vol[ctr[ctr[n].src].vol],
               vol' = [vol EXCEPT ![v] = [Fresh(c) EXCEPT !.mark = "clone"]]
        PROVE  vol'[v].mark = ctr[n].kind
    <3>1. ctr[n] \in Container
      BY DEF IInv, Held, HostTypes, Exists
    <3>2. ctr[n].src \in Name
      BY <3>1 DEF Container
    <3>3. c \in Cluster
      BY <2>2, <3>2 DEF IInv, Held, Made, IsCluster, Up
    <3>4. [Fresh(c) EXCEPT !.mark = "clone"].mark = "clone"
      BY <3>3 DEF Cluster, Fresh
    <3> QED
      BY <1>1, <2>2, <3>4
  <2>3. ASSUME ctr[n].kind = "restore", NEW c, c.mark = "restore", vol' = [vol EXCEPT ![v] = c]
        PROVE  vol'[v].mark = ctr[n].kind
    BY <1>1, <2>3
  <2>4. CASE ctr[n].kind = "clone"
    BY <2>1, <2>2, <2>4, Zenon DEF Populate
  <2>5. CASE ctr[n].kind # "clone"
    BY <1>4, <2>1, <2>3, <2>5, SMT DEF Populate
  <2> QED
    BY <2>4, <2>5
<1> QED
  BY <1>3, <1>4

LEMMA BootKeeps ==
    ASSUME IInv, KInv, NEW n \in Name, Boot(n), UNCHANGED <<state, pc, job>>
    PROVE  KInv' /\ [Abstract!Next]_(Abstract!vars)
<1>1. Exists(n) /\ Populate(n) /\ UNCHANGED <<oneshot, state, pc, job>>
  BY DEF Boot
<1>2. /\ ctr[n] \in Container /\ ctr[n].vol \in {DataVolume(n), NewVolume(n)}
      /\ ctr[n].vol \in Volume /\ Keeps(n) /\ Held(n)
      /\ state[n] # None => ctr[n].vol = state[n].vol
  BY <1>1, Volumes DEF IInv, Held, HostTypes, Made, Exists, KInv
<1>3. /\ ctr'[n] = [ctr[n] EXCEPT !.st = "up"] /\ \A m \in Name : m # n => ctr'[m] = ctr[m]
      /\ ctr'[n].vol = ctr[n].vol /\ ctr'[n].kind = ctr[n].kind
  BY <1>2 DEF Boot, IInv, Shape, Container
<1>4. /\ \A v \in Volume : v # ctr[n].vol => vol'[v] = vol[v]
      /\ vol'[ctr[n].vol] \in Cluster
  BY <1>1, Populated
<1>5. /\ vol[ctr[n].vol] \in Cluster /\ Filled(n) => UNCHANGED vol
      /\ ctr[n].kind = "regular" \/ vol'[ctr[n].vol].mark = ctr[n].kind
  BY <1>1, PopulatedOnce
<1>6. OnlySeen(n)
  BY <1>1, <1>2, <1>3, <1>4, Volumes DEF OnlySeen
<1>7. Filled(n)'
  BY <1>3, <1>4, <1>5 DEF Filled
<1>8. state[n] # None => Filled(n)
  BY <1>1, <1>2 DEF Keeps
<1>9. Keeps(n)'
  <2>1. ASSUME oneshot[n] = "ok" PROVE Copied(n)'
    <3>1. Copied(n) /\ state[n] # None /\ state[n].vol \in {DataVolume(n), NewVolume(n)}
      BY <1>2, <2>1, HostAssumption DEF Keeps, Held, Saved, HostAssumption
    <3>2. UNCHANGED vol
      BY <1>2, <1>5, <1>8, <3>1 DEF Copied, IsCluster
    <3> QED
      BY <3>1, <3>2 DEF Copied, IsCluster
  <2> QED
    BY <1>1, <1>2, <1>7, <2>1 DEF Keeps
<1>10. ASSUME NEW p \in Proc, pc[p] # "idle", N(p) = n PROVE Sure(p)'
  <2>1. Task(p) /\ N(p)' = n /\ pc'[p] = pc[p]
    BY <1>1, <1>10, Local DEF N
  <2>2. pc[p] \notin {"update", "rmDir"}
    BY <1>1, <1>10, <2>1 DEF Task, Changes, Control, Creating, Building, Cleanup
  <2> QED
    BY <1>7, <1>10, <2>1, <2>2 DEF Sure, Filled
<1>11. KInv'
  BY <1>1, <1>6, <1>9, <1>10, KeptByHost
<1>12. CASE state[n] = None
  BY <1>1, <1>6, <1>11, <1>12, ClustersUnseen
<1>13. CASE state[n] # None /\ vol[state[n].vol] \in Cluster
  BY <1>1, <1>2, <1>5, <1>8, <1>11, <1>13, StillUnseen
<1>14. CASE state[n] # None /\ vol[state[n].vol] \notin Cluster
  <2>1. Listing[n] # None /\ Holds[n] = None
    BY <1>14, SavedShows, HoldsData
  <2>2. Holds'[n] \in Lineage
    <3>1. Holds'[n] = vol'[state[n].vol].data
      BY <1>1, <1>2, <1>4, <1>14, HostAssumption DEF Holds, HasCluster, HostAssumption
    <3> QED
      BY <1>2, <1>4, <1>14, <3>1 DEF Cluster
  <2>3. Listing' = Listing
    BY <1>1 DEF Listing
  <2>4. Abstract!Refill(n)
    BY <1>6, <2>1, <2>2, <2>3, SeenBy DEF Abstract!Refill
  <2> QED
    BY <1>11, <2>4 DEF Abstract!Next
<1> QED
  BY <1>12, <1>13, <1>14

LEMMA RunUpgradeKeeps ==
    ASSUME IInv, KInv, NEW n \in Name, RunUpgrade(n), UNCHANGED <<state, pc, job>>
    PROVE  KInv' /\ UNCHANGED Abstract!vars
<1>1. oneshot[n] = "running" /\ UNCHANGED <<ctr, state, pc, job>>
  BY DEF RunUpgrade
<1>2. /\ Held(n) /\ Keeps(n) /\ oneshot[n] # None
      /\ NewVolume(n) \in Volume /\ DataVolume(n) \in Volume /\ DataVolume(n) # NewVolume(n)
  BY <1>1, Volumes, HostAssumption DEF IInv, KInv, HostAssumption
<1>3. state[n] # None /\ state[n].ver = 1 /\ state[n].vol = DataVolume(n)
  BY <1>1, <1>2 DEF Keeps, Held, Saved
<1>4. /\ \A m \in Name : m # n => oneshot'[m] = oneshot[m]
      /\ \A v \in Volume : v # NewVolume(n) => vol'[v] = vol[v]
      /\ vol[NewVolume(n)] \in Cluster => vol'[NewVolume(n)] = vol[NewVolume(n)]
  BY <1>2, HostAssumption DEF RunUpgrade, IInv, Shape, HostAssumption
<1>5. oneshot'[n] = "ok" => Copied(n)'
  <2>1. CASE /\ HasCluster(DataVolume(n)) /\ vol[DataVolume(n)].ver = 1
             /\ born < MaxCluster
             /\ vol' = [vol EXCEPT ![NewVolume(n)] =
                  [sys |-> born + 1, hist |-> born + 1, data |-> vol[DataVolume(n)].data,
                   ver |-> 2, mark |-> "regular"]]
    <3>1. vol[DataVolume(n)] \in Cluster
      BY <1>2, <2>1 DEF Held, HostTypes, HasCluster
    <3>2. vol'[NewVolume(n)] = [sys |-> born + 1, hist |-> born + 1,
                                data |-> vol[DataVolume(n)].data, ver |-> 2, mark |-> "regular"]
      BY <1>2, <2>1 DEF IInv, Shape
    <3>3. born + 1 \in Lineage
      BY <2>1, HostAssumption DEF IInv, Counts, Lineage, HostAssumption
    <3>4. vol'[NewVolume(n)] \in Cluster
      BY <3>1, <3>2, <3>3 DEF Cluster, Kind, Ver
    <3> QED
      BY <1>2, <1>4, <2>1, <3>1, <3>2, <3>4 DEF Copied, IsCluster
  <2>2. CASE oneshot' = [oneshot EXCEPT ![n] = "failed"]
    BY <2>2 DEF IInv, Shape
  <2> QED
    BY <2>1, <2>2 DEF RunUpgrade
<1>6. OnlySeen(n)
  BY <1>1, <1>2, <1>4, Volumes DEF OnlySeen
<1>7. Keeps(n)'
  <2>1. Exists(n) => ctr[n].vol \in Volume
    BY Volumes DEF IInv, Held, Made
  <2>2. Exists(n) => Filled(n)'
    BY <1>1, <1>2, <1>3, <1>4, <2>1 DEF Keeps, Filled
  <2> QED
    BY <1>1, <1>3, <1>5, <2>2 DEF Keeps, Exists
<1>8. ASSUME NEW p \in Proc, pc[p] # "idle", N(p) = n PROVE Sure(p)'
  <2>1. Task(p) /\ pc'[p] = pc[p] /\ Sure(p)
    BY <1>1, <1>8, Local DEF KInv
  <2>2. pc[p] \notin {"update", "rmDir"}
    BY <1>1, <1>2, <1>8, <2>1 DEF Sure
  <2>3. pc[p] # "save"
    BY <1>3, <1>8, <2>1 DEF Task, Control, Creates, Building
  <2> QED
    BY <2>1, <2>2, <2>3 DEF Sure
<1>9. UNCHANGED Abstract!vars
  <2>1. vol'[state[n].vol] = vol[state[n].vol]
    BY <1>2, <1>3, <1>4
  <2> QED
    BY <1>1, <1>2, <1>3, <1>6, <2>1, ClustersUnseen DEF Held, HostTypes
<1> QED
  BY <1>1, <1>6, <1>7, <1>8, <1>9, KeptByHost

LEMMA StepShows ==
    ASSUME IInv, KInv, Next
    PROVE  KInv' /\ [Abstract!Next]_(Abstract!vars)
<1>1. ASSUME NEW p \in Proc, Invoke(p) PROVE KInv' /\ [Abstract!Next]_(Abstract!vars)
  BY <1>1, BeginStill
<1>2. ASSUME NEW p \in Proc, Step(p) PROVE KInv' /\ [Abstract!Next]_(Abstract!vars)
  <2>1. CASE \/ Check(p) \/ Refused(p) \/ AllocatePort(p) \/ WriteConf(p) \/ WriteRepo(p)
             \/ NotReady(p) \/ CleanConf(p) \/ PreSnapshot(p) \/ DeleteStanza(p)
             \/ CallFails(p) \/ Die(p)
    BY <2>1, StillStep
  <2>2. CASE Start(p) \/ Stop(p) \/ Remove(p) \/ CleanContainer(p)
    BY <2>2, StoppingStep
  <2>3. CASE Ready(p) \/ CreateContainer(p) \/ CreateOneshot(p) \/ LaunchOneshot(p)
             \/ OneshotExits(p) \/ CleanVolume(p)
    BY <2>3, ReadyKeeps, CreateKeeps, CreateOneshotKeeps, LaunchKeeps, OneshotExitsKeeps,
       CleanVolumeKeeps
  <2>4. CASE Saves(p) \/ Updates(p) \/ Resizes(p) \/ RollBack(p) \/ RemoveVolume(p)
             \/ RemoveDir(p)
    BY <2>4, SaveKeeps, UpdateKeeps, PresetKeeps, RemoveVolumeKeeps, RemoveDirKeeps
  <2> QED
    BY <1>2, <2>1, <2>2, <2>3, <2>4, Writes DEF Step, Saves, Updates, Resizes
<1>3. ASSUME NEW n \in Name, Host(n) PROVE KInv' /\ [Abstract!Next]_(Abstract!vars)
  <2>1. UNCHANGED <<state, pc, job>>
    BY <1>3 DEF Host, local
  <2> QED
    BY <1>3, <2>1, BootKeeps, DisturbStill, RunUpgradeKeeps DEF Host
<1>4. ASSUME NEW n \in Name, Disturb(n) PROVE KInv' /\ [Abstract!Next]_(Abstract!vars)
  BY <1>4, DisturbStill
<1> QED
  BY <1>1, <1>2, <1>3, <1>4 DEF Next

LEMMA StutterShows ==
    ASSUME KInv, UNCHANGED vars
    PROVE  KInv' /\ UNCHANGED Abstract!vars
<1>1. UNCHANGED <<state, vol, ctr, oneshot, pc, job>>
  BY DEF vars, hostVars, local
<1>2. KInv'
  BY <1>1 DEF KInv, Keeps, Sure, Filled, Copied, IsCluster, Exists, Up, N, I
<1> QED
  BY <1>1, <1>2, StillUnseen

LEMMA InitShows == Init => KInv /\ Abstract!Init
<1> SUFFICES ASSUME Init PROVE KInv /\ Abstract!Init
  OBVIOUS
<1>1. KInv
  BY HostAssumption DEF Init, HostInit, KInv, Keeps, Exists, HostAssumption
<1>2. Abstract!Init
  BY DEF Init, Listing, Holds, Abstract!Init
<1> QED
  BY <1>1, <1>2

\* What a client sees of the instances is what Instances promises, whatever
\* fails and wherever a process dies, while one command works on a name.
THEOREM ImplementsInstances == ApartSpec => InstancesKept
<1>1. IInv /\ KInv /\ [Next /\ Apart']_vars => KInv' /\ [Abstract!Next]_(Abstract!vars)
  BY StepShows, StutterShows
<1> QED
  BY <1>1, InitShows, Always, PTL DEF ApartSpec, InstancesKept, Abstract!Spec
-----------------------------------------------------------------------------
(* The stanza of an instance                                               *)

\* The instances that StanzaFits is about, and what it says of each.
Backed(n) ==
    state[n] # None /\ state[n].backup /\ state[n].vol = DataVolume(n) /\ n \notin dropped
Own(n) == Backed(n) /\ stanza[n] # None => Matches(n, vol[DataVolume(n)])

\* The container that a command makes archives into the instance's repository,
\* and nothing is saved whose stanza is for another cluster.
Archives(p) ==
    /\ pc[p] \in {"start", "ready", "save"} /\ I(p).backup =>
         /\ ctr[N(p)].mounts
         /\ Running(N(p)) => ctr[N(p)].repo = N(p)
    /\ pc[p] = "save" /\ I(p).backup /\ stanza[N(p)] # None => Matches(N(p), vol[I(p).vol])

SInv == (\A n \in Name : Own(n)) /\ \A p \in Proc : pc[p] # "idle" => Archives(p)

\* A command's step leaves the other commands and instances alone.
LEMMA StepTouches ==
    ASSUME IInv, NEW p \in Proc, Step(p), NEW n, n = N(p)
    PROVE  /\ pc[p] # "idle" /\ n \in Name
           /\ \A q \in Proc : q # p => pc'[q] = pc[q] /\ job'[q] = job[q]
           /\ \A m \in Name : m # n => state'[m] = state[m] /\ ctr'[m] = ctr[m]
           /\ \A v \in Volume \ {DataVolume(n), NewVolume(n)} : vol'[v] = vol[v]
<1>1. pc[p] # "idle"
  BY DEF Step, At, Check, Refused, AllocatePort, WriteConf, WriteRepo, CreateContainer, Start,
         Ready, NotReady, Save, CleanContainer, CleanVolume, CleanConf, Stop, Remove,
         PreSnapshot, CreateOneshot, LaunchOneshot, OneshotExits, UpdateState, DeleteStanza,
         RemoveVolume, RemoveDir, SetPreset, RollBack, CallFails, SaveUnsynced, Die
<1>2. /\ n \in Name /\ I(p).vol \in {DataVolume(n), NewVolume(n)}
      /\ {I(p).vol, NewVolume(n)} \subseteq {DataVolume(n), NewVolume(n)}
  BY <1>1, Local
<1>3. \A q \in Proc : q # p => pc'[q] = pc[q] /\ job'[q] = job[q]
  BY DEF IInv, Shape, Goto, Quit, Err, Step, Check, Refused, AllocatePort, WriteConf, WriteRepo,
         CreateContainer, Start, Ready, NotReady, Save, CleanContainer, CleanVolume, CleanConf,
         Stop, Remove, PreSnapshot, CreateOneshot, LaunchOneshot, OneshotExits, UpdateState,
         DeleteStanza, RemoveVolume, RemoveDir, SetPreset, RollBack, CallFails, SaveUnsynced, Die
<1>4. \A m \in Name : m # n => state'[m] = state[m]
  BY <1>2 DEF IInv, Shape, hostVars, Step, Check, Refused, AllocatePort, WriteConf, WriteRepo,
         CreateContainer, Start, Ready, NotReady, Save, CleanContainer, CleanVolume, CleanConf,
         Stop, Remove, PreSnapshot, CreateOneshot, LaunchOneshot, OneshotExits, UpdateState,
         DeleteStanza, RemoveVolume, RemoveDir, SetPreset, RollBack, CallFails, SaveUnsynced, Die
<1>5. \A m \in Name : m # n => ctr'[m] = ctr[m]
  BY <1>2 DEF IInv, Shape, hostVars, StartContainer, StopContainer, Step, Check, Refused,
         AllocatePort, WriteConf, WriteRepo, CreateContainer, Start, Ready, NotReady, Save,
         CleanContainer, CleanVolume, CleanConf, Stop, Remove, PreSnapshot, CreateOneshot,
         LaunchOneshot, OneshotExits, UpdateState, DeleteStanza, RemoveVolume, RemoveDir,
         SetPreset, RollBack, CallFails, SaveUnsynced, Die
<1>6. \/ UNCHANGED vol
      \/ \E v \in {DataVolume(n), NewVolume(n)} : vol' = [vol EXCEPT ![v] = None]
      \/ \E vs \in SUBSET {DataVolume(n), NewVolume(n)} : vol' = WithVolumes(vs)
  BY <1>2 DEF hostVars, Step, Check, Refused, AllocatePort, WriteConf, WriteRepo,
         CreateContainer, Start, Ready, NotReady, Save, CleanContainer, CleanVolume, CleanConf,
         Stop, Remove, PreSnapshot, CreateOneshot, LaunchOneshot, OneshotExits, UpdateState,
         DeleteStanza, RemoveVolume, RemoveDir, SetPreset, RollBack, CallFails, SaveUnsynced, Die
<1>7. \A v \in Volume \ {DataVolume(n), NewVolume(n)} : vol'[v] = vol[v]
  BY <1>2, <1>6, Mounting DEF IInv, Shape
<1> QED
  BY <1>1, <1>2, <1>3, <1>4, <1>5, <1>7

\* A stanza is made for the instance that a command is making, or goes.
LEMMA StanzaChanges ==
    ASSUME IInv, SInv, NEW p \in Proc, Step(p), NEW n \in Name
    PROVE  \/ stanza'[n] \in {None, stanza[n]}
           \/ /\ Ready(p) /\ n = N(p) /\ state[n] = None /\ I(p).vol = DataVolume(n)
              /\ Matches(n, vol[DataVolume(n)])'
<1>1. CASE UNCHANGED stanza
  BY <1>1
<1>2. CASE DeleteStanza(p)
  BY <1>2 DEF DeleteStanza, IInv, Shape
<1>3. CASE Ready(p) /\ ~UNCHANGED stanza
  <2>1. PICK k \in Name : k = N(p)
    BY <1>3, Local DEF Ready, At
  <2> DEFINE c == vol[ctr[k].vol]
             r == ctr[k].repo
  <2>2. /\ pc[p] = "ready" /\ pc[p] # "idle" /\ Up(k) /\ UNCHANGED vol
        /\ job[p].cmd \in Creating /\ I(p).backup
        /\ stanza' = [stanza EXCEPT ![r] = [sys |-> c.sys, ver |-> c.ver]]
    BY <1>3, <2>1 DEF Ready, At
  <2>3. Task(p) /\ Archives(p)
    BY <2>2, Local DEF SInv
  <2>4. r = k /\ state[k] = None /\ I(p).vol = DataVolume(k) /\ ctr[k].vol = I(p).vol
    BY <2>1, <2>2, <2>3 DEF Task, Creates, Builds, Archives, Running, Up
  <2>5. /\ \A m \in Name : m # k => stanza'[m] = stanza[m]
        /\ stanza'[k] = [sys |-> c.sys, ver |-> c.ver]
    BY <2>2, <2>4 DEF IInv, Shape
  <2>6. stanza'[k] # None => Matches(k, vol[DataVolume(k)])'
    BY <2>2, <2>4, <2>5 DEF Matches
  <2> HIDE DEF c, r
  <2>7. CASE n = k /\ stanza'[k] # None
    BY <1>3, <2>1, <2>4, <2>6, <2>7
  <2> QED
    BY <2>5, <2>7
<1> QED
  BY <1>1, <1>2, <1>3
     DEF hostVars, Step, Check, Refused, AllocatePort, WriteConf, WriteRepo,
         CreateContainer, Start, NotReady, Save, CleanContainer, CleanVolume, CleanConf,
         Stop, Remove, PreSnapshot, CreateOneshot, LaunchOneshot, OneshotExits, UpdateState,
         RemoveVolume, RemoveDir, SetPreset, RollBack, CallFails, SaveUnsynced, Die

\* An instance with a state.toml keeps its stanza and its data.
LEMMA StanzaStays ==
    ASSUME IInv, SInv, NEW p \in Proc, Step(p), NEW n \in Name, state[n] # None
    PROVE  stanza'[n] \in {None, stanza[n]}
BY StanzaChanges

LEMMA DataStays ==
    ASSUME IInv, NEW p \in Proc, Step(p), NEW n \in Name, Backed(n), Backed(n)'
    PROVE  vol'[DataVolume(n)] = vol[DataVolume(n)]
<1>1. /\ vol[DataVolume(n)] \in Cluster /\ DataVolume(n) \in Volume
      /\ DataVolume(n) # NewVolume(n) /\ state[n] # None
  BY Volumes DEF Backed, IInv, Held, Saved, IsCluster
<1>2. /\ pc[p] # "idle"
      /\ n # N(p) => vol'[DataVolume(n)] = vol[DataVolume(n)]
  <2>1. PICK m \in Name : m = N(p)
    BY StepTouches
  <2>2. n # m => DataVolume(n) \in Volume \ {DataVolume(m), NewVolume(m)}
    BY <1>1, Volumes
  <2> QED
    BY <2>1, <2>2, StepTouches
<1>3. CASE n = N(p)
  <2>1. Task(p) /\ {I(p).vol, NewVolume(n)} \subseteq {DataVolume(n), NewVolume(n)}
    BY <1>2, <1>3, Local
  <2>2. CASE CreateContainer(p) \/ CreateOneshot(p)
    <3>1. UNCHANGED vol \/ \E vs \in SUBSET {DataVolume(n), NewVolume(n)} : vol' = WithVolumes(vs)
      BY <1>3, <2>1, <2>2 DEF CreateContainer, CreateOneshot
    <3> QED
      BY <1>1, <3>1, Mounting
  <2>3. CASE CleanVolume(p)
    BY <1>1, <1>2, <1>3, <2>1, <2>3 DEF CleanVolume, At, Task, Control, Creates, Building, Cleanup
  <2>4. CASE OneshotExits(p)
    BY <1>1, <1>3, <2>4 DEF OneshotExits, IInv, Shape
  <2>5. CASE RemoveVolume(p)
    BY <1>3, <2>5 DEF RemoveVolume, Backed
  <2> QED
    BY <2>2, <2>3, <2>4, <2>5
       DEF hostVars, Step, Check, Refused, AllocatePort, WriteConf, WriteRepo, Start, Ready,
           NotReady, Save, CleanContainer, CleanConf, Stop, Remove, PreSnapshot, LaunchOneshot,
           UpdateState, DeleteStanza, RemoveDir, SetPreset, RollBack, CallFails, SaveUnsynced, Die
<1> QED
  BY <1>2, <1>3

\* Only a save makes an instance that is backed up.
LEMMA BackedBefore ==
    ASSUME IInv, NEW p \in Proc, Step(p), NEW n \in Name, Backed(n)'
    PROVE  Backed(n) \/ (Saves(p) /\ n = N(p))
<1>1. pc[p] # "idle" /\ (n # N(p) => state'[n] = state[n])
  BY StepTouches
<1>2. CASE ~Saves(p)
  <2>1. n \notin dropped
    BY <1>2
       DEF Saves, Backed, ghosts, Step, Check, Refused, AllocatePort, WriteConf, WriteRepo,
           CreateContainer, Start, Ready, NotReady, CleanContainer, CleanVolume, CleanConf, Stop,
           Remove, PreSnapshot, CreateOneshot, LaunchOneshot, OneshotExits, UpdateState,
           DeleteStanza, RemoveVolume, RemoveDir, SetPreset, RollBack, CallFails, SaveUnsynced, Die
  <2>2. CASE state'[n] = state[n]
    BY <2>1, <2>2 DEF Backed
  <2>3. CASE n = N(p) /\ (Resizes(p) \/ RollBack(p)) /\ state[n] # None
    <3>1. state[n] \in Instance /\ DOMAIN state = Name
      BY <2>3 DEF IInv, Shape, Held, Saved
    <3>2. state'[n] = state[n] \/ \E m : state'[n] = [state[n] EXCEPT !.preset = m]
      BY <2>3, <3>1 DEF Resizes, SetPreset, SaveUnsynced, RollBack
    <3>3. state'[n].vol = state[n].vol /\ state'[n].backup = state[n].backup
      BY <3>1, <3>2 DEF Instance
    <3> QED
      BY <2>1, <2>3, <3>3 DEF Backed
  <2>4. CASE n = N(p) /\ Updates(p) /\ state[n] # None
    <3>1. state[n] \in Instance /\ DOMAIN state = Name /\ DataVolume(n) # NewVolume(n)
      BY <2>4, Volumes DEF IInv, Shape, Held, Saved
    <3>2. state'[n] = [state[n] EXCEPT !.ver = 2, !.vol = NewVolume(n)]
      BY <2>4, <3>1 DEF Updates, UpdateState, SaveUnsynced
    <3>3. state'[n].vol = NewVolume(n)
      BY <3>1, <3>2 DEF Instance
    <3> QED
      BY <3>1, <3>3 DEF Backed
  <2>5. CASE n = N(p) /\ RemoveDir(p)
    BY <2>5 DEF RemoveDir, Backed, IInv, Shape
  <2> QED
    BY <1>1, <1>2, <2>2, <2>3, <2>4, <2>5
       DEF Saves, Updates, Resizes, hostVars, Step, Check, Refused, AllocatePort, WriteConf, WriteRepo,
           CreateContainer, Start, Ready, NotReady, CleanContainer, CleanVolume, CleanConf, Stop,
           Remove, PreSnapshot, CreateOneshot, LaunchOneshot, OneshotExits, UpdateState,
           DeleteStanza, RemoveVolume, SetPreset, RollBack, CallFails, SaveUnsynced, Die
<1>3. CASE Saves(p)
  <2>1. n # N(p) => (n \in dropped' <=> n \in dropped)
    BY <1>3 DEF Saves, Save, SaveUnsynced
  <2> QED
    BY <1>1, <1>3, <2>1 DEF Backed
<1> QED
  BY <1>2, <1>3

LEMMA OwnStep ==
    ASSUME IInv, SInv, NEW p \in Proc, Step(p), NEW n \in Name
    PROVE  Own(n)'
<1> SUFFICES ASSUME Backed(n)', stanza'[n] # None
             PROVE  Matches(n, vol[DataVolume(n)])'
  BY DEF Own
<1>1. CASE Backed(n)
  <2>1. stanza'[n] = stanza[n] /\ vol'[DataVolume(n)] = vol[DataVolume(n)]
    BY <1>1, StanzaStays, DataStays DEF Backed
  <2> QED
    BY <1>1, <2>1 DEF SInv, Own, Matches
<1>2. CASE Saves(p) /\ n = N(p)
  <2>1. /\ pc[p] = "save" /\ pc[p] # "idle" /\ UNCHANGED <<vol, stanza>>
        /\ state' = [state EXCEPT ![n] = I(p)]
    BY <1>2 DEF Saves, Save, SaveUnsynced, At, hostVars
  <2>2. Task(p) /\ Archives(p)
    BY <2>1, Local DEF SInv
  <2>3. state'[n] = I(p) /\ I(p).vol = DataVolume(n)
    BY <1>2, <2>1, <2>2 DEF IInv, Shape, Task, Control, Creates, Building
  <2> QED
    BY <1>2, <2>1, <2>2, <2>3 DEF Archives, Backed, Matches
<1> QED
  BY <1>1, <1>2, BackedBefore

LEMMA ArchivesStep ==
    ASSUME IInv, KInv, SInv, NEW p \in Proc, Step(p), NEW q \in Proc, pc'[q] # "idle"
    PROVE  Archives(q)'
<1>1. PICK n \in Name : n = N(p) /\ pc[p] # "idle"
  BY StepTouches
<1>2. CASE q # p
  <2>1. pc'[q] = pc[q] /\ job'[q] = job[q] /\ N(q)' = N(q) /\ I(q)' = I(q)
    BY <1>2, StepTouches DEF N, I
  <2>2. PICK m \in Name : m = N(q) /\ m # n
    BY <1>1, <1>2, <2>1, Local DEF IInv, Apart, N
  <2>3. I(q).vol \in {DataVolume(m), NewVolume(m)} /\ Archives(q)
    BY <2>1, <2>2, Local DEF SInv
  <2>4. I(q).vol \in Volume \ {DataVolume(n), NewVolume(n)}
    BY <2>2, <2>3, Volumes
  <2>5. ctr'[m] = ctr[m] /\ vol'[I(q).vol] = vol[I(q).vol]
    BY <1>1, <2>2, <2>4, StepTouches
  <2>6. stanza'[m] \in {None, stanza[m]}
    BY <1>1, <2>2, StanzaChanges
  <2> QED
    BY <2>1, <2>2, <2>3, <2>5, <2>6 DEF Archives, Matches, Running, Exists
<1>3. CASE q = p /\ CreateContainer(p)
  <2>1. CASE ~Exists(n)
    <3>1. /\ pc'[p] = "start" /\ N(p)' = n /\ I(p)' = I(p)
      BY <1>1, <1>3, <2>1, Moves DEF CreateContainer
    <3>2. /\ ctr'[n].mounts = (I(p).backup \/ job[p].cmd = "restore")
          /\ ctr'[n].st = "created"
      BY <1>1, <1>3, <2>1 DEF CreateContainer, IInv, Shape
    <3> QED
      BY <1>3, <3>1, <3>2 DEF Archives, Running
  <2>2. CASE Exists(n)
    <3>1. Err(p) /\ pc[p] = "create"
      BY <1>1, <1>3, <2>2 DEF CreateContainer, At
    <3>2. pc'[p] \notin {"start", "ready", "save"}
      BY <3>1, Moves DEF Err
    <3> QED
      BY <1>3, <3>2 DEF Archives
  <2> QED
    BY <2>1, <2>2
<1>4. CASE q = p /\ Start(p)
  <2>1. CASE Mine(p) /\ Startable(n)
    <3>1. pc[p] = "start" /\ pc'[p] = "ready" /\ N(p)' = n /\ I(p)' = I(p) /\ StartContainer(n)
      BY <1>1, <1>4, <2>1, Moves DEF Start, At
    <3>2. Task(p) /\ Archives(p) /\ ctr[n] \in Container
      BY <1>1, <2>1, Local DEF SInv, Held, HostTypes, Mine, Exists
    <3>3. /\ ctr'[n].mounts = ctr[n].mounts
          /\ ctr'[n].repo = IF ctr[n].mounts THEN conf[n].repo ELSE None
      BY <3>1, <3>2 DEF StartContainer, IInv, Shape, Container
    <3>4. I(p).backup => conf[n].repo = n
      BY <1>1, <3>1, <3>2 DEF Task, Builds
    <3> QED
      BY <1>1, <1>4, <3>1, <3>2, <3>3, <3>4 DEF Archives
  <2>2. CASE ~(Mine(p) /\ Startable(n))
    <3>1. Err(p)
      BY <1>1, <1>4, <2>2 DEF Start
    <3>2. pc'[p] \notin {"start", "ready", "save"}
      BY <3>1, Moves DEF Err
    <3> QED
      BY <1>4, <3>2 DEF Archives
  <2> QED
    BY <2>1, <2>2
<1>5. CASE q = p /\ Ready(p)
  <2>1. CASE pc'[p] # "save"
    <3>1. pc'[p] \notin {"start", "ready", "save"}
      BY <1>5, <2>1, Moves DEF Ready, Err
    <3> QED
      BY <1>5, <3>1 DEF Archives
  <2>2. CASE pc'[p] = "save" /\ I(p).backup
    <3>1. /\ pc[p] = "ready" /\ Goto(p, "save") /\ Up(n) /\ UNCHANGED <<ctr, vol>>
          /\ job[p].cmd \in Creating
      BY <1>1, <1>5, <2>2, Moves DEF Ready, At, Err
    <3>2. N(p)' = n /\ I(p)' = I(p) /\ Task(p) /\ Archives(p)
      BY <1>1, <3>1, Moves, Local DEF SInv
    <3>3. ctr'[n].mounts /\ ctr'[n].repo = n
      BY <1>1, <2>2, <3>1, <3>2 DEF Archives, Running, Up
    <3>4. /\ ctr[n].vol = I(p).vol
          /\ stanza' = [stanza EXCEPT ![n] = [sys |-> vol[ctr[n].vol].sys,
                                              ver |-> vol[ctr[n].vol].ver]]
      BY <1>1, <1>5, <2>2, <3>1, <3>2, <3>3, Moves DEF Ready, Task, Builds, Err
    <3>5. stanza'[n] # None => Matches(n, vol[I(p).vol])'
      <4>1. /\ stanza'[n].sys = vol[I(p).vol].sys /\ stanza'[n].ver = vol[I(p).vol].ver
        BY <3>4 DEF IInv, Shape
      <4> QED
        BY <3>1, <3>2, <4>1 DEF Matches
    <3> QED
      BY <1>5, <3>2, <3>3, <3>5 DEF Archives
  <2>3. CASE pc'[p] = "save" /\ ~I(p).backup
    <3>1. I(p)' = I(p)
      BY <1>5, <2>3, Moves DEF Ready, Err
    <3> QED
      BY <1>5, <2>3, <3>1 DEF Archives
  <2> QED
    BY <2>1, <2>2, <2>3
<1>6. CASE q = p /\ ~(CreateContainer(p) \/ Start(p) \/ Ready(p))
  <2>1. Err(p) => (\E l : l \notin {"start", "ready", "save"} /\ Goto(p, l)) \/ Quit(p)
    BY DEF Err
  <2>2. ASSUME AllocatePort(p) \/ UpdateState(p) \/ SetPreset(p)
        PROVE  pc'[p] \notin {"start", "ready", "save"}
    BY <2>2 DEF Quit, AllocatePort, UpdateState, SetPreset, IInv, Shape
  <2>3. ASSUME Remove(p) PROVE pc'[p] \notin {"start", "ready", "save"}
    BY <1>1, <2>3, Local DEF Remove, At, Task, Control, Building, Cleanup, Creating, Goto, IInv,
       Shape
  <2>4. ASSUME ~(AllocatePort(p) \/ UpdateState(p) \/ SetPreset(p) \/ Remove(p))
        PROVE  pc'[p] \notin {"start", "ready", "save"}
    <3>1. (\E l : l \notin {"start", "ready", "save"} /\ Goto(p, l)) \/ Quit(p)
      BY <1>6, <2>1, <2>4
         DEF Step, Check, Refused, WriteConf, WriteRepo, NotReady, Save, CleanContainer,
             CleanVolume, CleanConf, Stop, PreSnapshot, CreateOneshot, LaunchOneshot,
             OneshotExits, DeleteStanza, RemoveVolume, RemoveDir, RollBack, CallFails,
             SaveUnsynced, Die
    <3> QED
      BY <3>1, Moves
  <2>5. pc'[p] \notin {"start", "ready", "save"}
    BY <2>2, <2>3, <2>4
  <2> QED
    BY <1>6, <2>5 DEF Archives
<1> QED
  BY <1>2, <1>3, <1>4, <1>5, <1>6

LEMMA HostBeside ==
    ASSUME IInv, KInv, NEW m \in Name, Host(m) \/ Disturb(m), NEW n \in Name
    PROVE  /\ UNCHANGED <<state, pc, job, dropped, stanza>>
           /\ vol[DataVolume(n)] \in Cluster /\ (Exists(n) => Filled(n)) =>
                vol'[DataVolume(n)] = vol[DataVolume(n)]
           /\ Exists(n) =>
                /\ ctr'[n].mounts = ctr[n].mounts
                /\ Running(n)' =>
                     \/ Running(n) /\ ctr'[n].repo = ctr[n].repo
                     \/ ctr'[n].repo = IF ctr[n].mounts THEN conf[n].repo ELSE None
<1>1. UNCHANGED <<state, pc, job, dropped, stanza>>
  BY DEF Host, Disturb, Boot, ArchivePush, RunUpgrade, GoDown, ComeBack, local, ghosts
<1>2. ASSUME vol[DataVolume(n)] \in Cluster, Exists(n) => Filled(n)
      PROVE  vol'[DataVolume(n)] = vol[DataVolume(n)]
  <2>1. DataVolume(n) \in Volume /\ \A k \in Name : DataVolume(n) # NewVolume(k)
    BY DEF Volume, DataVolume, NewVolume
  <2>2. CASE Boot(m)
    <3>1. Exists(m) /\ Populate(m) /\ ctr[m].vol \in {DataVolume(m), NewVolume(m)}
      BY <2>2 DEF Boot, IInv, Held, Made
    <3>2. ctr[m].vol = DataVolume(n) => m = n
      BY <3>1, Volumes
    <3> QED
      BY <1>2, <2>1, <3>1, <3>2, Populated, PopulatedOnce
  <2>3. CASE RunUpgrade(m)
    BY <2>1, <2>3 DEF RunUpgrade, IInv, Shape
  <2> QED
    BY <2>2, <2>3 DEF Host, Disturb, ArchivePush, GoDown, ComeBack
<1>3. ASSUME Exists(n)
      PROVE  /\ ctr'[n].mounts = ctr[n].mounts
             /\ Running(n)' =>
                  \/ Running(n) /\ ctr'[n].repo = ctr[n].repo
                  \/ ctr'[n].repo = IF ctr[n].mounts THEN conf[n].repo ELSE None
  <2>1. ctr[n] \in Container /\ DOMAIN ctr = Name
    BY <1>3 DEF IInv, Shape, Held, HostTypes, Exists
  <2>2. CASE ctr'[n] = ctr[n]
    BY <2>2 DEF Running, Exists
  <2>3. CASE m = n /\ Boot(n)
    <3>1. ctr'[n] = [ctr[n] EXCEPT !.st = "up"] /\ Running(n)
      BY <2>1, <2>3 DEF Boot, Running
    <3> QED
      BY <2>1, <3>1 DEF Container
  <2>4. CASE m = n /\ StartContainer(n)
    BY <2>1, <2>4 DEF StartContainer, Container
  <2>5. CASE m = n /\ StopContainer(n)
    <3>1. ctr'[n] = [ctr[n] EXCEPT !.st = "stopped"]
      BY <2>1, <2>5 DEF StopContainer
    <3> QED
      BY <2>1, <3>1 DEF Container, Running
  <2>6. ctr'[n] = ctr[n] \/ m = n
    BY <2>1 DEF Host, Disturb, Boot, ArchivePush, RunUpgrade, GoDown, ComeBack, StartContainer,
                StopContainer
  <2> QED
    BY <2>2, <2>3, <2>4, <2>5, <2>6 DEF Host, Disturb, ArchivePush, RunUpgrade, GoDown, ComeBack
<1> QED
  BY <1>1, <1>2, <1>3

LEMMA StanzaHost ==
    ASSUME IInv, KInv, SInv, NEW m \in Name, Host(m) \/ Disturb(m)
    PROVE  SInv'
<1>1. UNCHANGED <<state, pc, job, dropped, stanza>>
  BY HostBeside
<1>2. ASSUME NEW n \in Name PROVE Own(n)'
  <2>1. CASE Backed(n)
    <3>1. vol[DataVolume(n)] \in Cluster /\ (Exists(n) => Filled(n))
      BY <2>1 DEF Backed, IInv, KInv, Held, Saved, IsCluster, Keeps
    <3> QED
      BY <1>1, <3>1, HostBeside DEF SInv, Own, Backed, Matches
  <2> QED
    BY <1>1, <2>1 DEF Own, Backed
<1>3. ASSUME NEW p \in Proc, pc'[p] # "idle" PROVE Archives(p)'
  <2>1. PICK n \in Name : n = N(p)
    BY <1>1, <1>3, Local
  <2>2. N(p)' = n /\ I(p)' = I(p) /\ pc'[p] = pc[p] /\ Task(p) /\ Archives(p) /\ Sure(p)
    BY <1>1, <1>3, <2>1, Local DEF SInv, KInv, N, I
  <2>3. CASE pc[p] \in {"start", "ready", "save"} /\ I(p).backup
    <3>1. Exists(n) /\ conf[n].repo = n /\ ctr[n].mounts /\ (Running(n) => ctr[n].repo = n)
      BY <2>1, <2>2, <2>3 DEF Task, Builds, Mine, Archives
    <3>2. ctr'[n].mounts /\ (Running(n)' => ctr'[n].repo = n)
      BY <3>1, HostBeside
    <3>3. CASE pc[p] = "save"
      <4>1. /\ I(p).vol = DataVolume(n) /\ vol[DataVolume(n)] \in Cluster /\ Filled(n)
        BY <2>1, <2>2, <3>3
           DEF Task, Control, Creates, Builds, Building, Creating, IsCluster, Sure
      <4>2. vol'[DataVolume(n)] = vol[DataVolume(n)]
        BY <4>1, HostBeside
      <4> QED
        BY <1>1, <2>1, <2>2, <3>2, <4>1, <4>2 DEF Archives, Matches
    <3> QED
      BY <2>2, <3>2, <3>3 DEF Archives
  <2> QED
    BY <2>2, <2>3 DEF Archives
<1> QED
  BY <1>2, <1>3 DEF SInv

LEMMA StanzaInvoke ==
    ASSUME IInv, SInv, NEW p \in Proc, Invoke(p)
    PROVE  SInv'
<1>1. PICK c, n, s, i, l : Begin(p, c, n, s, i, l) /\ l \notin {"start", "ready", "save"}
  <2>1. ASSUME NEW n \in Name,
               \/ \E b \in Backups, t \in Presets : BeginCreate(p, n, b, t)
               \/ \E s \in Name, c \in {"clone", "restore"} : BeginCopy(p, c, n, s)
        PROVE  \E c, s, i : Begin(p, c, n, s, i, "check")
    BY <2>1 DEF BeginCreate, BeginCopy
  <2>2. ASSUME NEW n \in Name,
               BeginRotate(p, n) \/ BeginResize(p, n) \/ BeginUpgrade(p, n)
               \/ \E w \in BOOLEAN : BeginDestroy(p, n, w)
        PROVE  \E c, i, l : Begin(p, c, n, n, i, l) /\ l \notin {"start", "ready", "save"}
    BY <2>2 DEF BeginRotate, BeginResize, BeginUpgrade, BeginDestroy
  <2> QED
    BY <2>1, <2>2 DEF Invoke
<1>2. UNCHANGED <<hostVars, state, ghosts>>
  BY <1>1 DEF Begin
<1>3. ASSUME NEW m \in Name PROVE Own(m)'
  BY <1>2 DEF SInv, Own, Backed, Matches, hostVars, ghosts
<1>4. ASSUME NEW q \in Proc, pc'[q] # "idle" PROVE Archives(q)'
  <2>1. CASE q = p
    BY <1>1, <2>1 DEF Begin, IInv, Shape, Archives
  <2>2. CASE q # p
    <3>1. pc'[q] = pc[q] /\ N(q)' = N(q) /\ I(q)' = I(q) /\ Archives(q)
      BY <1>1, <1>4, <2>2 DEF Begin, IInv, Shape, N, I, SInv
    <3> QED
      BY <1>2, <3>1 DEF Archives, Matches, Running, Exists, hostVars
  <2> QED
    BY <2>1, <2>2
<1> QED
  BY <1>3, <1>4 DEF SInv

LEMMA NextStanza == IInv /\ KInv /\ SInv /\ [Next]_vars => SInv'
<1> SUFFICES ASSUME IInv, KInv, SInv, [Next]_vars PROVE SInv'
  OBVIOUS
<1>1. ASSUME NEW p \in Proc, Step(p) PROVE SInv'
  BY <1>1, OwnStep, ArchivesStep DEF SInv
<1>2. CASE UNCHANGED vars
  <2>1. UNCHANGED <<state, vol, ctr, stanza, dropped, pc, job>>
    BY <1>2 DEF vars, hostVars, local, ghosts
  <2> QED
    BY <2>1 DEF SInv, Own, Backed, Matches, Archives, Running, Exists, N, I
<1> QED
  BY <1>1, <1>2, StanzaInvoke, StanzaHost DEF Next

\* create.rs lines 308-346, clone.rs lines 287-301: whoever had the name before,
\* whatever was wiped, fails or dies, the stanza of an instance is for its own
\* cluster until an upgrade gives it another one.
THEOREM StanzasFit == ApartSpec => []StanzaFits
<1>1. Init => SInv
  BY DEF Init, SInv, Own, Backed
<1>2. SInv => StanzaFits
  BY DEF SInv, Own, Backed, StanzaFits
<1>3. IInv /\ KInv /\ [Next /\ Apart']_vars => KInv'
  BY StepShows, StutterShows
<1>4. IInv /\ KInv /\ SInv /\ [Next /\ Apart']_vars => SInv'
  BY NextStanza
<1> QED
  BY <1>1, <1>2, <1>3, <1>4, InitShows, Always, PTL DEF ApartSpec
-----------------------------------------------------------------------------
(* When what the documents promise does hold                               *)

\* One creating command at a time.
OneMaker ==
    \A p, q \in Proc : pc[p] # "idle" /\ pc[q] # "idle" /\ {job[p].cmd, job[q].cmd} \subseteq Creating
                         => p = q

OneMakerSpec == Init /\ [][Next /\ Apart' /\ OneMaker']_vars

LEMMA NobodyRaces ==
    ASSUME IInv, OneMaker, raced = {}, [Next]_vars
    PROVE  raced' = {}
<1>1. ASSUME NEW p \in Proc, AllocatePort(p) PROVE raced' = {}
  <2>1. pc[p] # "idle" /\ job[p].cmd \in Creating
    BY <1>1, Local DEF AllocatePort, At, Task, Control, Building
  <2>2. Allocating(p) = {}
    BY <2>1 DEF Allocating, OneMaker
  <2> QED
    BY <1>1, <2>2 DEF AllocatePort
<1>2. ASSUME NEW p \in Proc, Invoke(p) \/ (Step(p) /\ ~AllocatePort(p)) PROVE UNCHANGED raced
  BY <1>2
     DEF ghosts, Invoke, BeginCreate, BeginCopy, BeginRotate, BeginResize, BeginUpgrade,
         BeginDestroy, Begin, Step, Check, Refused, WriteConf, WriteRepo,
         CreateContainer, Start, Ready, NotReady, Save, CleanContainer, CleanVolume, CleanConf,
         Stop, Remove, PreSnapshot, CreateOneshot, LaunchOneshot, OneshotExits, UpdateState,
         DeleteStanza, RemoveVolume, RemoveDir, SetPreset, RollBack, CallFails, SaveUnsynced, Die
<1>3. ASSUME NEW n \in Name, Host(n) \/ Disturb(n) PROVE UNCHANGED raced
  BY <1>3 DEF Host, Disturb, ghosts
<1>4. CASE UNCHANGED vars
  BY <1>4 DEF vars, ghosts
<1> QED
  BY <1>1, <1>2, <1>3, <1>4 DEF Next

\* ports.rs lines 1-8: while instances are made one at a time, no two saved ones
\* ever have the same port, whatever fails and wherever a process dies.
THEOREM PortsApart == OneMakerSpec => []PortsNeverShared
<1>1. Init => Ports /\ OneMaker /\ raced = {}
  BY DEF Init, Ports, PortsUnique, Holding, OneMaker
<1>2. IInv /\ [Next /\ Apart' /\ OneMaker']_vars => IInv'
  BY NextStep, Stutter
<1>3. OneMaker /\ UNCHANGED vars => OneMaker'
  BY DEF OneMaker, vars, local
<1>4. IInv /\ OneMaker /\ raced = {} /\ [Next /\ Apart' /\ OneMaker']_vars
        => OneMaker' /\ (raced = {})'
  BY <1>3, NobodyRaces
<1>5. IInv /\ Ports /\ [Next /\ Apart' /\ OneMaker']_vars => Ports'
  <2>1. IInv /\ Ports /\ UNCHANGED vars => Ports'
    BY NoNewPort DEF vars, local, ghosts, Holding, N, I
  <2> QED
    BY <2>1, PortsStep
<1>6. Ports /\ raced = {} => PortsNeverShared
  BY DEF Ports, PortsUnique, PortsNeverShared
<1> QED
  BY <1>1, <1>2, <1>4, <1>5, <1>6, InitStep, PTL DEF OneMakerSpec

\* upgrade neither gives up nor dies while pg_upgrade is at work.
Patient ==
    \A p \in Proc : At(p, "wait") /\ pc'[p] = "idle" => oneshot[N(p)] \in {"ok", "failed"}

PatientSpec == Init /\ [][Next /\ Apart' /\ Patient]_vars

Awaited == \A n \in Name : oneshot[n] = "running" => \E p \in Proc : At(p, "wait") /\ N(p) = n

LEMMA OneshotRuns ==
    ASSUME IInv, Next, NEW n \in Name, oneshot'[n] = "running"
    PROVE  oneshot[n] = "running" \/ \E p \in Proc : LaunchOneshot(p) /\ N(p) = n
<1>1. ASSUME NEW p \in Proc, CreateOneshot(p) \/ OneshotExits(p) \/ LaunchOneshot(p)
      PROVE  oneshot[n] = "running" \/ (LaunchOneshot(p) /\ N(p) = n)
  <2>1. pc[p] # "idle" /\ N(p) \in Name
    BY <1>1, Local DEF CreateOneshot, OneshotExits, LaunchOneshot, At
  <2> QED
    BY <1>1, <2>1, HostAssumption
       DEF CreateOneshot, OneshotExits, LaunchOneshot, HostAssumption, IInv, Shape
<1>2. ASSUME NEW p \in Proc, Invoke(p) \/ Step(p),
             ~(CreateOneshot(p) \/ OneshotExits(p) \/ LaunchOneshot(p))
      PROVE  UNCHANGED oneshot
  BY <1>2
     DEF hostVars, Invoke, BeginCreate, BeginCopy, BeginRotate, BeginResize, BeginUpgrade,
         BeginDestroy, Begin, Step, Check, Refused, AllocatePort, WriteConf, WriteRepo,
         CreateContainer, Start, Ready, NotReady, Save, CleanContainer, CleanVolume, CleanConf,
         Stop, Remove, PreSnapshot, UpdateState, DeleteStanza, RemoveVolume, RemoveDir, SetPreset,
         RollBack, CallFails, SaveUnsynced, Die
<1>3. ASSUME NEW m \in Name, Host(m) \/ Disturb(m) PROVE oneshot[n] = "running"
  BY <1>3 DEF Host, Disturb, Boot, ArchivePush, RunUpgrade, GoDown, ComeBack, IInv, Shape
<1> QED
  BY <1>1, <1>2, <1>3 DEF Next

LEMMA StillAwaited ==
    ASSUME IInv, Awaited, Next, Patient
    PROVE  Awaited'
<1> SUFFICES ASSUME NEW n \in Name, oneshot'[n] = "running"
             PROVE  \E p \in Proc : At(p, "wait")' /\ N(p)' = n
  BY DEF Awaited
<1>1. ASSUME NEW p \in Proc, LaunchOneshot(p), N(p) = n
      PROVE  \E q \in Proc : At(q, "wait")' /\ N(q)' = n
  BY <1>1, Moves DEF LaunchOneshot, At
<1>2. ASSUME oneshot[n] = "running"
      PROVE  \E p \in Proc : At(p, "wait")' /\ N(p)' = n
  <2>1. PICK q \in Proc : At(q, "wait") /\ N(q) = n
    BY <1>2 DEF Awaited
  <2>2. job[q].cmd = "upgrade"
    BY <2>1, Local DEF At, Task, Control, Building, Cleanup
  <2>3. ASSUME NEW p \in Proc, Step(p), p # q PROVE pc'[q] = pc[q] /\ job'[q] = job[q]
    BY <2>3, StepTouches
  <2>4. ~Step(q)
    <3>1. CASE OneshotExits(q)
      BY <2>1, <3>1, HostAssumption DEF OneshotExits, HostAssumption, IInv, Shape
    <3>2. CASE CallFails(q) \/ Die(q)
      <4>1. pc'[q] = "idle"
        BY <2>1, <2>2, <3>2, Moves DEF CallFails, Die, Err, At, Creating
      <4> QED
        BY <1>2, <2>1, <4>1 DEF Patient
    <3> QED
      BY <2>1, <3>1, <3>2
         DEF At, Step, Check, Refused, AllocatePort, WriteConf, WriteRepo,
             CreateContainer, Start, Ready, NotReady, Save, CleanContainer, CleanVolume,
             CleanConf, Stop, Remove, PreSnapshot, CreateOneshot, LaunchOneshot, UpdateState,
             DeleteStanza, RemoveVolume, RemoveDir, SetPreset, RollBack, SaveUnsynced
  <2>5. ASSUME NEW p \in Proc, Invoke(p) PROVE pc'[q] = pc[q] /\ job'[q] = job[q]
    BY <2>1, <2>5
       DEF At, Invoke, BeginCreate, BeginCopy, BeginRotate, BeginResize, BeginUpgrade,
           BeginDestroy, Begin, IInv, Shape
  <2>6. ASSUME NEW m \in Name, Host(m) \/ Disturb(m) PROVE pc'[q] = pc[q] /\ job'[q] = job[q]
    BY <2>6 DEF Host, Disturb, local
  <2> QED
    BY <2>1, <2>3, <2>4, <2>5, <2>6 DEF Next, At, N
<1> QED
  BY <1>1, <1>2, OneshotRuns

\* upgrade_entrypoint.rs lines 29-30: "Old PGDATA must NOT be in-use". It is not,
\* unless upgrade stops waiting before pg_upgrade has ended.
THEOREM OldVolumeFree == PatientSpec => []OldVolumeUnused
<1>1. Init => Awaited
  BY HostAssumption DEF Init, HostInit, Awaited, HostAssumption
<1>2. IInv /\ [Next /\ Apart' /\ Patient]_vars => IInv'
  BY NextStep, Stutter
<1>3. IInv /\ Awaited /\ [Next /\ Apart' /\ Patient]_vars => Awaited'
  <2>1. Awaited /\ UNCHANGED vars => Awaited'
    BY DEF Awaited, vars, hostVars, local, At, N
  <2> QED
    BY <2>1, StillAwaited
<1>4. IInv /\ Awaited => OldVolumeUnused
  <2> SUFFICES ASSUME IInv, Awaited, NEW n \in Name, oneshot[n] = "running",
                      NEW m \in Name, Running(m)
               PROVE  ctr[m].vol # DataVolume(n)
    BY DEF OldVolumeUnused
  <2>1. PICK p \in Proc : At(p, "wait") /\ N(p) = n
    BY DEF Awaited
  <2>2. ~Exists(n)
    BY <2>1, Local DEF At, Task, Control, Changes, Creating, Building, Cleanup
  <2>3. m # n /\ ctr[m].vol \in {DataVolume(m), NewVolume(m)}
    BY <2>2 DEF Running, IInv, Held, Made
  <2> QED
    BY <2>3, Volumes
<1> QED
  BY <1>1, <1>2, <1>3, <1>4, InitStep, PTL DEF PatientSpec

\* Nobody upgrades, so that the data stay in the volume they were made in.
NoUpgrade == \A p \in Proc : pc[p] = "idle" /\ pc'[p] # "idle" => job'[p].cmd # "upgrade"

PlainSpec == Init /\ [][Next /\ Apart' /\ NoUpgrade]_vars

Plain ==
    /\ \A p \in Proc : pc[p] # "idle" => job[p].cmd # "upgrade"
    /\ \A n \in Name : state[n] # None => state[n].vol = DataVolume(n)

\* Where a state.toml comes from.
LEMMA StateOf ==
    ASSUME IInv, NEW p \in Proc, Step(p), NEW n \in Name, state'[n] # None
    PROVE  \/ /\ state[n] # None
              /\ state'[n].vol = state[n].vol /\ state'[n].backup = state[n].backup
              /\ state'[n].ver = state[n].ver
           \/ Saves(p) /\ n = N(p) /\ state'[n] = I(p)
           \/ Updates(p) /\ n = N(p)
<1>1. pc[p] # "idle" /\ (n # N(p) => state'[n] = state[n]) /\ DOMAIN state = Name
  BY StepTouches DEF IInv, Shape
<1>2. CASE n = N(p) /\ (Resizes(p) \/ RollBack(p)) /\ state[n] # None
  <2>1. state[n] \in Instance
    BY <1>2 DEF IInv, Held, Saved
  <2>2. state'[n] = state[n] \/ \E t : state'[n] = [state[n] EXCEPT !.preset = t]
    BY <1>1, <1>2, <2>1 DEF Resizes, SetPreset, SaveUnsynced, RollBack
  <2> QED
    BY <1>2, <2>1, <2>2 DEF Instance
<1>3. CASE n = N(p) /\ (Resizes(p) \/ RollBack(p)) /\ state[n] = None
  BY <1>3 DEF Resizes, SetPreset, SaveUnsynced, RollBack
<1>4. CASE n = N(p) /\ (Saves(p) \/ RemoveDir(p))
  BY <1>1, <1>4 DEF Saves, Save, SaveUnsynced, RemoveDir
<1> QED
  BY <1>1, <1>2, <1>3, <1>4, Writes
     DEF Saves, Updates, Resizes, hostVars, Step, Check, Refused, AllocatePort, WriteConf, WriteRepo,
         CreateContainer, Start, Ready, NotReady, CleanContainer, CleanVolume, CleanConf, Stop,
         Remove, PreSnapshot, CreateOneshot, LaunchOneshot, OneshotExits, DeleteStanza,
         RemoveVolume, CallFails, Die

\* A command stays the command it is.
LEMMA SameCommand ==
    ASSUME IInv, NEW p \in Proc, Step(p), pc'[p] # "idle"
    PROVE  job'[p].cmd = job[p].cmd /\ N(p)' = N(p)
<1>1. pc[p] # "idle" /\ job[p] \in Job /\ DOMAIN job = Proc /\ DOMAIN pc = Proc
  BY StepTouches, Local DEF IInv, Shape
<1>2. CASE AllocatePort(p) \/ UpdateState(p) \/ SetPreset(p)
  BY <1>1, <1>2 DEF AllocatePort, UpdateState, SetPreset, Quit, Job, N
<1>3. CASE ~(AllocatePort(p) \/ UpdateState(p) \/ SetPreset(p))
  <2>1. Quit(p) \/ UNCHANGED job
    BY <1>3
       DEF Goto, Err, Step, Check, Refused, WriteConf, WriteRepo,
           CreateContainer, Start, Ready, NotReady, Save, CleanContainer, CleanVolume, CleanConf,
           Stop, Remove, PreSnapshot, CreateOneshot, LaunchOneshot, OneshotExits,
           DeleteStanza, RemoveVolume, RemoveDir, RollBack, CallFails, SaveUnsynced, Die
  <2> QED
    BY <1>1, <2>1 DEF Quit, N
<1> QED
  BY <1>2, <1>3

\* What an invocation leaves alone, which is all but its process.
LEMMA Invoked ==
    ASSUME IInv, NEW p \in Proc, Invoke(p)
    PROVE  /\ UNCHANGED <<hostVars, state, ghosts>> /\ pc[p] = "idle"
           /\ pc'[p] \in {"check", "stop", "preset", "presnap", "wipe"}
           /\ \A q \in Proc : q # p => pc'[q] = pc[q] /\ job'[q] = job[q]
<1>1. \E c, n, s, i, l : Begin(p, c, n, s, i, l) /\ l \in {"check", "stop", "preset", "presnap", "wipe"}
  BY DEF Invoke, BeginCreate, BeginCopy, BeginRotate, BeginResize, BeginUpgrade, BeginDestroy
<1> QED
  BY <1>1 DEF Begin, IInv, Shape

LEMMA HostTouches ==
    ASSUME NEW m \in Name, Host(m) \/ Disturb(m)
    PROVE  UNCHANGED <<state, pc, job, orphaned, dropped, stanza>>
BY DEF Host, Disturb, Boot, ArchivePush, RunUpgrade, GoDown, ComeBack, local, ghosts

LEMMA StaysPlain ==
    ASSUME IInv, Plain, [Next /\ NoUpgrade]_vars
    PROVE  Plain'
<1>1. ASSUME NEW p \in Proc, Step(p) PROVE Plain'
  <2>1. ASSUME NEW q \in Proc, pc'[q] # "idle" PROVE job'[q].cmd # "upgrade"
    BY <1>1, <2>1, StepTouches, SameCommand DEF Plain
  <2>2. ASSUME NEW n \in Name, state'[n] # None PROVE state'[n].vol = DataVolume(n)
    <3>1. pc[p] # "idle" /\ Task(p) /\ job[p].cmd # "upgrade"
      BY <1>1, StepTouches, Local DEF Plain
    <3>2. ~Updates(p)
      BY <3>1 DEF Updates, UpdateState, At, Task, Control, Building, Cleanup
    <3>3. ASSUME Saves(p), n = N(p), state'[n] = I(p) PROVE state'[n].vol = DataVolume(n)
      BY <3>1, <3>3 DEF Saves, Save, At, Task, Control, Creates, Building
    <3> QED
      BY <1>1, <2>2, <3>2, <3>3, StateOf DEF Plain
  <2> QED
    BY <2>1, <2>2 DEF Plain
<1>2. ASSUME NEW p \in Proc, Invoke(p), NoUpgrade PROVE Plain'
  BY <1>2, Invoked DEF Plain, NoUpgrade
<1>3. ASSUME NEW n \in Name, Host(n) \/ Disturb(n) PROVE Plain'
  BY <1>3, HostTouches DEF Plain
<1>4. CASE UNCHANGED vars
  BY <1>4 DEF Plain, vars, local
<1> QED
  BY <1>1, <1>2, <1>3, <1>4 DEF Next

\* A command that makes n has made its volume and has not given up on it.
Underway(n) ==
    \E p \in Proc : /\ pc[p] \in {"start", "ready", "save", "cleanContainer", "cleanVolume"}
                    /\ job[p].cmd \in Creating /\ N(p) = n

\* Whose volume is there without a state.toml.
LeftBehind(n) ==
    state[n] = None /\ vol[DataVolume(n)] # None => n \in orphaned \/ Underway(n)

\* While its container is there, this is part of the invariant.
LEMMA LeftWithContainer ==
    ASSUME IInv', NEW n \in Name, Exists(n)'
    PROVE  LeftBehind(n)'
<1> SUFFICES ASSUME state'[n] = None, n \notin orphaned' PROVE Underway(n)'
  BY DEF LeftBehind
<1>1. PICK p \in Proc : pc'[p] # "idle" /\ N(p)' = n
  BY DEF IInv, Rest, Busy
<1>2. Task(p)'
  BY <1>1 DEF IInv
<1>3. job'[p].cmd \in Creating
  BY <1>1, <1>2 DEF Task, Changes
<1>4. pc'[p] \in {"start", "ready", "save", "cleanContainer"}
  BY <1>1, <1>2, <1>3 DEF Task, Creates
<1> QED
  BY <1>1, <1>3, <1>4 DEF Underway

\* Only destroy removes a state.toml.
LEMMA StateGoes ==
    ASSUME IInv, NEW p \in Proc, Step(p), NEW n \in Name, state[n] # None, state'[n] = None
    PROVE  RemoveDir(p) /\ n = N(p)
<1>1. /\ pc[p] # "idle" /\ Task(p) /\ DOMAIN state = Name /\ state[n] \in Instance
      /\ I(p) \in Instance /\ NewVolume(n) \in Volume /\ n = N(p)
  BY StepTouches, Local, Volumes DEF IInv, Shape, Held, Saved
<1>2. ~Saves(p)
  BY <1>1, StateAssumption DEF Saves, Save, SaveUnsynced
<1>3. CASE Updates(p)
  <2>1. state'[n] = [state[n] EXCEPT !.ver = 2, !.vol = NewVolume(n)]
    BY <1>1, <1>3 DEF Updates, UpdateState, SaveUnsynced
  <2>2. state'[n] \in Instance
    BY <1>1, <2>1 DEF Instance, Ver
  <2> QED
    BY <2>2, StateAssumption
<1>4. CASE Resizes(p) \/ RollBack(p)
  <2>1. Other(I(p).preset) \in Preset
    BY <1>1, Others DEF Instance
  <2>2. state'[n] = [state[n] EXCEPT !.preset = Other(I(p).preset)]
    BY <1>1, <1>4 DEF Resizes, SetPreset, SaveUnsynced, RollBack
  <2>3. state'[n] \in Instance
    BY <1>1, <2>1, <2>2 DEF Instance
  <2> QED
    BY <2>3, StateAssumption
<1> QED
  BY <1>1, <1>2, <1>3, <1>4, Writes
     DEF Saves, Updates, Resizes, hostVars, Step, Check, Refused, AllocatePort, WriteConf, WriteRepo,
         CreateContainer, Start, Ready, NotReady, CleanContainer, CleanVolume, CleanConf,
         Stop, Remove, PreSnapshot, CreateOneshot, LaunchOneshot, OneshotExits, DeleteStanza,
         RemoveVolume, CallFails, Die

LEMMA OwnLeftBehind ==
    ASSUME IInv, IInv', KInv, Plain, NEW p \in Proc, Step(p), NEW n \in Name, n = N(p),
           LeftBehind(n), ~Exists(n)'
    PROVE  LeftBehind(n)'
<1> SUFFICES ASSUME state'[n] = None, vol'[DataVolume(n)] # None, n \notin orphaned'
             PROVE  Underway(n)'
  BY DEF LeftBehind
<1>1. /\ pc[p] # "idle" /\ Task(p) /\ Sure(p) /\ job[p].cmd # "upgrade"
      /\ DOMAIN vol = Volume /\ DataVolume(n) \in Volume
  BY StepTouches, Local, Volumes DEF KInv, Plain, IInv, Shape
<1>2. CASE state[n] # None
  <2>1. pc[p] = "rmDir" /\ UNCHANGED vol
    BY <1>2, StateGoes DEF RemoveDir, At
  <2>2. I(p).vol = DataVolume(n)
    BY <1>1, <1>2, <2>1 DEF Task, Control, Changes, Creating, Building, Cleanup, Plain
  <2> QED
    BY <1>1, <2>1, <2>2 DEF Sure
<1>3. CASE state[n] = None
  <2>1. job[p].cmd \in Creating /\ I(p).vol = DataVolume(n) /\ oneshot[n] = None
    BY <1>1, <1>3 DEF Task, Changes, Creates, KInv, Keeps
  <2>2. n \notin orphaned
    BY DEF ghosts, Step, Check, Refused, AllocatePort, WriteConf, WriteRepo,
           CreateContainer, Start, Ready, NotReady, Save, CleanContainer, CleanVolume, CleanConf,
           Stop, Remove, PreSnapshot, CreateOneshot, LaunchOneshot, OneshotExits, UpdateState,
           DeleteStanza, RemoveVolume, RemoveDir, SetPreset, RollBack, CallFails, SaveUnsynced, Die
  <2>3. vol[DataVolume(n)] # None =>
          pc[p] \in {"start", "ready", "save", "cleanContainer", "cleanVolume"}
    BY <1>1, <1>3, <2>2 DEF LeftBehind, Underway, IInv, Apart
  <2>4. CASE pc[p] = "create"
    <3>1. vol[DataVolume(n)] = None
      BY <2>3, <2>4
    <3>2. ~UNCHANGED vol
      BY <3>1
    <3>3. CreateContainer(p) /\ pc'[p] = "start" /\ N(p)' = n
      BY <2>4, <3>2, Moves
         DEF hostVars, At, Step, Check, Refused, AllocatePort, WriteConf, WriteRepo,
             CreateContainer, Start, Ready, NotReady, Save, CleanContainer, CleanVolume,
             CleanConf, Stop, Remove, PreSnapshot, CreateOneshot, LaunchOneshot, OneshotExits,
             UpdateState, DeleteStanza, RemoveVolume, RemoveDir, SetPreset, RollBack, CallFails,
             SaveUnsynced, Die
    <3>4. Task(p)'
      BY <3>3 DEF IInv
    <3> QED
      BY <3>3, <3>4 DEF Task, Builds, Mine
  <2>5. CASE pc[p] = "cleanVolume"
    <3>1. CASE CleanVolume(p)
      <4>1. InUse(DataVolume(n)) /\ UNCHANGED ctr
        BY <1>1, <2>1, <3>1 DEF CleanVolume
      <4>2. \A m \in Name : Exists(m) /\ ctr[m].vol = DataVolume(n) => m = n
        BY Volumes DEF IInv, Held, Made
      <4>3. \A m \in Name : DataVolume(n) \in {DataVolume(m), NewVolume(m)} => m = n
        BY Volumes
      <4> QED
        BY <2>1, <4>1, <4>2, <4>3 DEF InUse, Exists
    <3>2. CASE CallFails(p) \/ Die(p)
      BY <2>5, <3>2 DEF CallFails, Die, Cleanup
    <3> QED
      BY <2>5, <3>1, <3>2
         DEF At, Step, Check, Refused, AllocatePort, WriteConf, WriteRepo,
             CreateContainer, Start, Ready, NotReady, Save, CleanContainer,
             CleanConf, Stop, Remove, PreSnapshot, CreateOneshot, LaunchOneshot, OneshotExits,
             UpdateState, DeleteStanza, RemoveVolume, RemoveDir, SetPreset, RollBack,
             SaveUnsynced
  <2>6. CASE pc[p] \notin {"create", "cleanVolume"}
    <3>1. UNCHANGED vol
      <4>1. pc[p] \notin {"create", "cleanVolume", "oneshot", "wait", "rmVolume"}
        BY <1>1, <2>1, <2>6 DEF Task, Control, Creating, Building, Cleanup
      <4> QED
        BY <4>1
           DEF hostVars, At, Step, Check, Refused, AllocatePort, WriteConf,
               WriteRepo, CreateContainer, Start, Ready, NotReady, Save, CleanContainer,
               CleanVolume, CleanConf, Stop, Remove, PreSnapshot, CreateOneshot, LaunchOneshot,
               OneshotExits, UpdateState, DeleteStanza, RemoveVolume, RemoveDir, SetPreset,
               RollBack, CallFails, SaveUnsynced, Die
    <3>2. pc[p] \in {"start", "ready", "save", "cleanContainer"}
      BY <2>3, <2>6, <3>1
    <3>3. ~Save(p) /\ ~SaveUnsynced(p)
      BY <1>1, <3>2, StateAssumption, Local DEF Save, SaveUnsynced, IInv, Shape
    <3>4. ~Die(p) /\ (CallFails(p) => pc[p] \in {"start", "ready"})
      BY <3>2 DEF Die, CallFails, Cleanup
    <3>5. pc'[p] \in {"start", "ready", "save", "cleanContainer", "cleanVolume"}
      BY <1>1, <2>1, <3>2, <3>3, <3>4, Moves
         DEF At, Err, Step, Check, Refused, AllocatePort, WriteConf, WriteRepo,
             CreateContainer, Start, Ready, NotReady, CleanContainer, CleanVolume,
             CleanConf, Stop, Remove, PreSnapshot, CreateOneshot, LaunchOneshot, OneshotExits,
             UpdateState, DeleteStanza, RemoveVolume, RemoveDir, SetPreset, RollBack, CallFails
    <3> QED
      BY <2>1, <3>5, SameCommand DEF Underway
  <2> QED
    BY <2>4, <2>5, <2>6
<1> QED
  BY <1>2, <1>3

LEMMA NextLeftBehind ==
    ASSUME IInv, IInv', KInv, Plain, [Next]_vars, NEW n \in Name, LeftBehind(n)
    PROVE  LeftBehind(n)'
<1> SUFFICES ASSUME ~Exists(n)' PROVE LeftBehind(n)'
  BY LeftWithContainer
<1>1. ASSUME NEW p \in Proc, Step(p), N(p) # n PROVE LeftBehind(n)'
  <2>1. /\ state'[n] = state[n] /\ vol'[DataVolume(n)] = vol[DataVolume(n)]
    <3>1. PICK m \in Name : m = N(p) /\ m # n
      BY <1>1, StepTouches
    <3>2. DataVolume(n) \in Volume \ {DataVolume(m), NewVolume(m)}
      BY <3>1, Volumes
    <3> QED
      BY <1>1, <3>1, <3>2, StepTouches
  <2>2. n \in orphaned => n \in orphaned'
    BY <1>1
       DEF ghosts, Step, Check, Refused, AllocatePort, WriteConf, WriteRepo,
           CreateContainer, Start, Ready, NotReady, Save, CleanContainer, CleanVolume, CleanConf,
           Stop, Remove, PreSnapshot, CreateOneshot, LaunchOneshot, OneshotExits, UpdateState,
           DeleteStanza, RemoveVolume, RemoveDir, SetPreset, RollBack, CallFails, SaveUnsynced, Die
  <2>3. Underway(n) => Underway(n)'
    BY <1>1, StepTouches DEF Underway, N
  <2> QED
    BY <2>1, <2>2, <2>3 DEF LeftBehind
<1>2. ASSUME NEW p \in Proc, Invoke(p) PROVE LeftBehind(n)'
  <2>1. Underway(n) => Underway(n)'
    BY <1>2, Invoked DEF Underway, N
  <2> QED
    BY <1>2, <2>1, Invoked DEF LeftBehind, hostVars, ghosts
<1>3. ASSUME NEW m \in Name, Host(m) \/ Disturb(m) PROVE LeftBehind(n)'
  <2>1. UNCHANGED <<state, pc, job, orphaned>>
    BY <1>3, HostTouches
  <2>2. Underway(n) => Underway(n)'
    BY <2>1 DEF Underway, N
  <2>3. vol'[DataVolume(n)] = vol[DataVolume(n)]
    <3>1. DataVolume(n) \in Volume /\ DataVolume(n) # NewVolume(m)
      BY DEF Volume, DataVolume, NewVolume
    <3>2. CASE Boot(m)
      <4>1. Exists(m) /\ ctr'[m] # None
        <5>1. Exists(m) /\ ctr[m] \in Container /\ ctr'[m] = [ctr[m] EXCEPT !.st = "up"]
          BY <3>2 DEF Boot, IInv, Shape, Held, HostTypes, Exists
        <5>2. ctr'[m] \in Container
          BY <5>1 DEF Container
        <5> QED
          BY <5>1, <5>2, HostAssumption DEF HostAssumption
      <4>2. m # n
        BY <4>1 DEF Exists
      <4>3. ctr[m].vol # DataVolume(n)
        BY <4>1, <4>2, Volumes DEF IInv, Held, Made
      <4> QED
        BY <3>1, <3>2, <4>3 DEF Boot, Populate, IInv, Shape
    <3>3. CASE RunUpgrade(m)
      BY <3>1, <3>3 DEF RunUpgrade, IInv, Shape
    <3> QED
      BY <1>3, <3>2, <3>3 DEF Host, Disturb, ArchivePush, GoDown, ComeBack
  <2> QED
    BY <2>1, <2>2, <2>3 DEF LeftBehind
<1>4. CASE UNCHANGED vars
  BY <1>4 DEF vars, hostVars, local, ghosts, LeftBehind, Underway, N
<1> QED
  BY <1>1, <1>2, <1>3, <1>4, OwnLeftBehind DEF Next

\* README: "pgforge creates the postgres roles with whatever you supply". Where
\* nobody upgrades, a create finds a cluster in its volume only if a creation of
\* that name failed to clean up, or died.
EmptyUnlessOrphaned ==
    \A p \in Proc : At(p, "create") /\ job[p].cmd = "create" /\ HasCluster(I(p).vol)
                      => N(p) \in orphaned

THEOREM CreateFindsNothing == PlainSpec => []EmptyUnlessOrphaned
<1>1. Init => Plain /\ \A n \in Name : LeftBehind(n)
  BY Volumes DEF Init, HostInit, Plain, LeftBehind
<1>2. IInv /\ [Next /\ Apart' /\ NoUpgrade]_vars => IInv'
  BY NextStep, Stutter
<1>3. IInv /\ KInv /\ [Next /\ Apart' /\ NoUpgrade]_vars => KInv'
  BY StepShows, StutterShows
<1>4. IInv /\ Plain /\ [Next /\ Apart' /\ NoUpgrade]_vars => Plain'
  BY StaysPlain
<1>5. IInv /\ IInv' /\ KInv /\ Plain /\ (\A n \in Name : LeftBehind(n))
        /\ [Next /\ Apart' /\ NoUpgrade]_vars => (\A n \in Name : LeftBehind(n))'
  BY NextLeftBehind
<1>6. IInv /\ (\A n \in Name : LeftBehind(n)) => EmptyUnlessOrphaned
  <2> SUFFICES ASSUME IInv, \A n \in Name : LeftBehind(n), NEW p \in Proc, At(p, "create"),
                      job[p].cmd = "create", HasCluster(I(p).vol)
               PROVE  N(p) \in orphaned
    BY DEF EmptyUnlessOrphaned
  <2>1. /\ N(p) \in Name /\ state[N(p)] = None /\ I(p).vol = DataVolume(N(p))
        /\ pc[p] # "idle"
    BY Local DEF At, Task, Creates, Creating
  <2>2. ~Underway(N(p))
    BY <2>1 DEF Underway, IInv, Apart, At
  <2> QED
    BY <2>1, <2>2 DEF LeftBehind, HasCluster
<1> QED
  BY <1>1, <1>2, <1>3, <1>4, <1>5, <1>6, InitStep, InitShows, PTL DEF PlainSpec

\* Nobody upgrades and nobody has backups deleted.
KeepsBackups == NoUpgrade /\ \A p \in Proc : pc[p] = "idle" => pc'[p] # "wipe"

KeepSpec == Init /\ [][Next /\ Apart' /\ KeepsBackups]_vars

\* The stanza is there, and for this cluster: Own.
Stanzaed ==
    /\ \A n \in Name : Backed(n) => stanza[n] # None
    /\ \A p \in Proc : /\ pc[p] # "wipe"
                       /\ pc[p] = "save" /\ I(p).backup => stanza[N(p)] # None

\* What stanza-create leaves in the repository.
StanzaOf(p) == [sys |-> vol[ctr[N(p)].vol].sys, ver |-> vol[ctr[N(p)].vol].ver]

LEMMA StanzaMade ==
    ASSUME IInv, NEW p \in Proc, Ready(p)
    PROVE  /\ StanzaOf(p) # None
           /\ UNCHANGED stanza \/ stanza' = [stanza EXCEPT ![ctr[N(p)].repo] = StanzaOf(p)]
           /\ job[p].cmd \in Creating /\ I(p).backup /\ Goto(p, "save") =>
                stanza' = [stanza EXCEPT ![ctr[N(p)].repo] = StanzaOf(p)]
<1>1. /\ pc[p] = "ready" /\ pc[p] # "idle" /\ Up(N(p)) /\ N(p) \in Name /\ Held(N(p))
      /\ DOMAIN pc = Proc
  BY Local DEF Ready, At, IInv, Shape
<1>2. vol[ctr[N(p)].vol] \in Cluster
  BY <1>1 DEF Held, Made, IsCluster, Up
<1>3. StanzaOf(p) \in [sys: Lineage, ver: Ver]
  BY <1>2 DEF Cluster, StanzaOf
<1>4. StanzaOf(p) # None
  BY <1>3, HostAssumption DEF HostAssumption
<1>5. Err(p) => pc'[p] # "save"
  BY <1>1 DEF Err, Goto, Quit
<1>6. Goto(p, "save") => pc'[p] = "save"
  BY <1>1 DEF Goto
<1> QED
  BY <1>4, <1>5, <1>6 DEF Ready, StanzaOf

LEMMA StanzaIsKept ==
    ASSUME IInv, Stanzaed, NEW p \in Proc, Step(p), NEW n \in Name, stanza[n] # None
    PROVE  stanza'[n] # None
<1>1. ~DeleteStanza(p)
  BY DEF DeleteStanza, At, Stanzaed
<1>2. CASE Ready(p)
  BY <1>2, StanzaMade DEF IInv, Shape
<1> QED
  BY <1>1, <1>2
     DEF hostVars, Step, Check, Refused, AllocatePort, WriteConf, WriteRepo,
         CreateContainer, Start, NotReady, Save, CleanContainer, CleanVolume, CleanConf,
         Stop, Remove, PreSnapshot, CreateOneshot, LaunchOneshot, OneshotExits, UpdateState,
         RemoveVolume, RemoveDir, SetPreset, RollBack, CallFails, SaveUnsynced, Die

\* Only a container that is ready has its instance saved.
LEMMA ToSave ==
    ASSUME IInv, NEW p \in Proc, Step(p)
    PROVE  pc'[p] # "wipe" /\ (pc'[p] = "save" => Ready(p) /\ Goto(p, "save"))
<1>1. pc[p] # "idle" /\ Task(p) /\ DOMAIN pc = Proc
  BY StepTouches, Local DEF IInv, Shape
<1>2. CASE Remove(p)
  BY <1>1, <1>2 DEF Remove, At, Task, Control, Building, Cleanup, Creating, Goto
<1>3. CASE Ready(p)
  BY <1>1, <1>3, Moves DEF Ready, Err, At, Creating
<1>4. CASE ~Ready(p) /\ ~Remove(p)
  BY <1>1, <1>4
     DEF Goto, Quit, Err, Step, Check, Refused, AllocatePort, WriteConf, WriteRepo,
         CreateContainer, Start, NotReady, Save, CleanContainer, CleanVolume, CleanConf,
         Stop, PreSnapshot, CreateOneshot, LaunchOneshot, OneshotExits, UpdateState,
         DeleteStanza, RemoveVolume, RemoveDir, SetPreset, RollBack, CallFails, SaveUnsynced, Die
<1> QED
  BY <1>2, <1>3, <1>4

LEMMA StaysStanzaed ==
    ASSUME IInv, KInv, SInv, Stanzaed, [Next /\ KeepsBackups]_vars
    PROVE  Stanzaed'
<1>1. ASSUME NEW p \in Proc, Step(p) PROVE Stanzaed'
  <2>1. PICK k \in Name : k = N(p) /\ pc[p] # "idle"
    BY <1>1, StepTouches
  <2>2. ASSUME NEW n \in Name, Backed(n)' PROVE stanza'[n] # None
    <3>1. CASE Backed(n)
      BY <1>1, <3>1, StanzaIsKept DEF Stanzaed
    <3>2. CASE Saves(p) /\ n = k
      <4>1. pc[p] = "save" /\ I(p).backup /\ UNCHANGED stanza
        BY <2>1, <2>2, <3>2 DEF Saves, Save, SaveUnsynced, At, Backed, IInv, Shape, hostVars
      <4> QED
        BY <2>1, <3>2, <4>1 DEF Stanzaed
    <3> QED
      BY <1>1, <2>1, <2>2, <3>1, <3>2, BackedBefore
  <2>3. ASSUME NEW q \in Proc, pc'[q] = "save", I(q)'.backup PROVE stanza'[N(q)'] # None
    <3>1. CASE q # p
      <4>1. pc[q] = "save" /\ N(q)' = N(q) /\ I(q)' = I(q)
        BY <1>1, <2>3, <3>1, StepTouches DEF N, I
      <4>2. N(q) \in Name
        BY <4>1, Local
      <4> QED
        BY <1>1, <2>3, <4>1, <4>2, StanzaIsKept DEF Stanzaed
    <3>2. CASE q = p
      <4>1. Ready(p) /\ Goto(p, "save") /\ pc[p] = "ready" /\ Mine(p) /\ Up(k)
        BY <1>1, <2>1, <2>3, <3>2, ToSave DEF Ready, At
      <4>2. N(p)' = k /\ I(p)' = I(p) /\ pc'[p] = "save"
        BY <2>1, <4>1, Moves
      <4>3. ctr[k].repo = k
        BY <2>1, <2>3, <3>2, <4>1, <4>2 DEF SInv, Archives, Running, Up
      <4>4. job[p].cmd \in Creating
        BY <4>1, <4>2, Moves DEF Ready, IInv, Shape, Quit
      <4>5. StanzaOf(p) # None /\ stanza' = [stanza EXCEPT ![k] = StanzaOf(p)]
        BY <2>1, <2>3, <3>2, <4>1, <4>2, <4>3, <4>4, StanzaMade
      <4> QED
        BY <2>1, <3>2, <4>2, <4>5 DEF IInv, Shape
    <3> QED
      BY <3>1, <3>2
  <2>4. ASSUME NEW q \in Proc PROVE pc'[q] # "wipe"
    BY <1>1, StepTouches, ToSave DEF Stanzaed
  <2> QED
    BY <2>2, <2>3, <2>4 DEF Stanzaed
<1>2. ASSUME NEW p \in Proc, Invoke(p), KeepsBackups PROVE Stanzaed'
  <2>1. UNCHANGED <<stanza, state, dropped>>
    BY <1>2, Invoked DEF hostVars, ghosts
  <2>2. ASSUME NEW q \in Proc
        PROVE  pc'[q] # "wipe" /\ (pc'[q] = "save" => pc[q] = "save" /\ N(q)' = N(q) /\ I(q)' = I(q))
    BY <1>2, Invoked DEF KeepsBackups, Stanzaed, N, I
  <2> QED
    BY <2>1, <2>2 DEF Stanzaed, Backed
<1>3. ASSUME NEW m \in Name, Host(m) \/ Disturb(m) PROVE Stanzaed'
  <2>1. UNCHANGED <<stanza, state, dropped, pc, job>>
    BY <1>3, HostTouches
  <2> QED
    BY <2>1 DEF Stanzaed, Backed, N, I
<1>4. CASE UNCHANGED vars
  BY <1>4 DEF Stanzaed, Backed, vars, hostVars, local, ghosts, N, I
<1> QED
  BY <1>1, <1>2, <1>3, <1>4 DEF Next

\* README: "every instance is then backed up daily at its configured hour". Where
\* nobody upgrades or deletes backups, every instance that is up and made with
\* backups has a stanza that takes them, until destroy has removed its data.
TakesBackups ==
    \A n \in Name : state[n] # None /\ state[n].backup /\ Up(n) /\ n \notin dropped =>
        Matches(n, vol[ctr[n].vol])

THEOREM BackupsTaken == KeepSpec => []TakesBackups
<1>1. Init => Plain /\ SInv /\ Stanzaed
  BY DEF Init, HostInit, Plain, SInv, Own, Stanzaed, Backed
<1>2. IInv /\ [Next /\ Apart' /\ KeepsBackups]_vars => IInv'
  BY NextStep, Stutter
<1>3. IInv /\ KInv /\ [Next /\ Apart' /\ KeepsBackups]_vars => KInv'
  BY StepShows, StutterShows
<1>4. IInv /\ Plain /\ [Next /\ Apart' /\ KeepsBackups]_vars => Plain'
  BY StaysPlain DEF KeepsBackups
<1>5. IInv /\ KInv /\ SInv /\ [Next /\ Apart' /\ KeepsBackups]_vars => SInv'
  BY NextStanza
<1>6. IInv /\ KInv /\ SInv /\ Stanzaed /\ [Next /\ Apart' /\ KeepsBackups]_vars => Stanzaed'
  BY StaysStanzaed
<1>7. IInv /\ Plain /\ SInv /\ Stanzaed => TakesBackups
  <2> SUFFICES ASSUME IInv, Plain, SInv, Stanzaed, NEW n \in Name, state[n] # None,
                      state[n].backup, Up(n), n \notin dropped
               PROVE  Matches(n, vol[ctr[n].vol])
    BY DEF TakesBackups
  <2>1. ctr[n].vol = DataVolume(n) /\ Backed(n)
    BY DEF Plain, Backed, IInv, Held, Made, Up
  <2> QED
    BY <2>1 DEF Stanzaed, SInv, Own
<1> QED
  BY <1>1, <1>2, <1>3, <1>4, <1>5, <1>6, <1>7, InitStep, InitShows, PTL DEF KeepSpec

-----------------------------------------------------------------------------
(* One history in a stanza, where a creation finds its name clean           *)

\* Neither a container nor a stanza is left of who had the name before.
FreshNames ==
    \A p \in Proc : pc[p] = "idle" /\ pc'[p] # "idle" /\ job'[p].cmd \in Creating =>
        stanza[job'[p].name] = None /\ ~Exists(job'[p].name)

FreshSpec == Init /\ [][Next /\ Apart' /\ FreshNames]_vars

\* It stays so until the command makes them.
Early == {"check", "refused", "allocate", "conf", "repo", "create"}
Tidy(p) ==
    pc[p] # "idle" /\ job[p].cmd \in Creating =>
        /\ pc[p] \in Early => ~Exists(N(p))
        /\ (pc[p] = "save" /\ I(p).backup) \/ stanza[N(p)] = None

LEMMA TidyGoesOn ==
    ASSUME IInv, SInv, NEW p \in Proc, Step(p), Tidy(p)
    PROVE  Tidy(p)'
<1> SUFFICES ASSUME pc'[p] # "idle", job'[p].cmd \in Creating
             PROVE  /\ pc'[p] \in Early => ~Exists(N(p))'
                    /\ (pc'[p] = "save" /\ I(p)'.backup) \/ stanza'[N(p)'] = None
  BY DEF Tidy
<1>1. PICK n \in Name : n = N(p) /\ N(p)' = n /\ pc[p] # "idle" /\ job[p].cmd \in Creating
  BY StepTouches, SameCommand
<1>2. Task(p) /\ ~UpdateState(p) /\ ~SetPreset(p) /\ ~Remove(p)
  BY <1>1, Local
     DEF UpdateState, SetPreset, Remove, At, Task, Control, Building, Cleanup, Creating
<1>3. I(p)'.backup = I(p).backup
  <2>1. CASE AllocatePort(p)
    BY <1>1, <2>1, Local DEF AllocatePort, Quit, I, IInv, Shape, Job, Instance
  <2>2. CASE ~AllocatePort(p)
    <3>1. Quit(p) \/ UNCHANGED job
      BY <1>2, <2>2
         DEF Goto, Err, Step, Check, Refused, WriteConf, WriteRepo, CreateContainer, Start,
             Ready, NotReady, Save, CleanContainer, CleanVolume, CleanConf, Stop, PreSnapshot,
             CreateOneshot, LaunchOneshot, OneshotExits, DeleteStanza, RemoveVolume, RemoveDir,
             RollBack, CallFails, SaveUnsynced, Die
    <3> QED
      BY <3>1 DEF Quit, I, IInv, Shape
  <2> QED
    BY <2>1, <2>2
<1>4. ASSUME pc'[p] \in Early PROVE ~Exists(n)'
  <2>1. pc[p] \in Early /\ UNCHANGED ctr
    BY <1>1, <1>2, <1>4
       DEF Early, IInv, Shape, Goto, Quit, Err, hostVars, At, Step, Check, Refused, AllocatePort,
           WriteConf, WriteRepo, CreateContainer, Start, Ready, NotReady, Save, CleanContainer,
           CleanVolume, CleanConf, Stop, PreSnapshot, CreateOneshot, LaunchOneshot, OneshotExits,
           DeleteStanza, RemoveVolume, RemoveDir, RollBack, CallFails, SaveUnsynced, Die
  <2> QED
    BY <1>1, <2>1 DEF Tidy, Exists
<1>5. ASSUME ~(pc'[p] = "save" /\ I(p).backup) PROVE stanza'[n] = None
  <2>1. pc[p] # "save"
    BY <1>1, <1>2
       DEF IInv, Shape, Goto, Quit, Err, At, Step, Check, Refused, AllocatePort,
           WriteConf, WriteRepo, CreateContainer, Start, Ready, NotReady, Save, CleanContainer,
           CleanVolume, CleanConf, Stop, PreSnapshot, CreateOneshot, LaunchOneshot, OneshotExits,
           DeleteStanza, RemoveVolume, RemoveDir, RollBack, CallFails, SaveUnsynced, Die, Creating
  <2>2. stanza[n] = None
    BY <1>1, <2>1 DEF Tidy
  <2>3. Ready(p) => UNCHANGED stanza
    BY <1>1, <1>5 DEF Ready, Goto, IInv, Shape
  <2> QED
    BY <2>2, <2>3, StanzaChanges
<1> QED
  BY <1>1, <1>3, <1>4, <1>5

LEMMA StaysTidy ==
    ASSUME IInv, SInv, \A p \in Proc : Tidy(p), [Next /\ FreshNames]_vars
    PROVE  \A p \in Proc : Tidy(p)'
<1>1. ASSUME NEW p \in Proc, Step(p), NEW q \in Proc PROVE Tidy(q)'
  <2>1. CASE q # p /\ pc[q] # "idle"
    <3>1. pc'[q] = pc[q] /\ job'[q] = job[q] /\ N(q)' = N(q) /\ I(q)' = I(q)
      BY <1>1, <2>1, StepTouches DEF N, I
    <3>2. PICK m \in Name : m = N(q) /\ m # N(p)
      BY <1>1, <2>1, Local, StepTouches DEF IInv, Apart
    <3>3. ctr'[m] = ctr[m] /\ stanza'[m] \in {None, stanza[m]}
      BY <1>1, <3>2, StepTouches, StanzaChanges
    <3> QED
      BY <2>1, <3>1, <3>2, <3>3 DEF Tidy, Exists
  <2>2. CASE q # p /\ pc[q] = "idle"
    BY <1>1, <2>2, StepTouches DEF Tidy
  <2> QED
    BY <1>1, <2>1, <2>2, TidyGoesOn
<1>2. ASSUME NEW p \in Proc, Invoke(p), FreshNames, NEW q \in Proc PROVE Tidy(q)'
  <2>1. UNCHANGED <<ctr, stanza>>
    BY <1>2, Invoked DEF hostVars
  <2>2. CASE q # p
    BY <1>2, <2>1, <2>2, Invoked DEF Tidy, N, I, Exists
  <2>3. CASE q = p
    BY <1>2, <2>1, <2>3, Invoked DEF FreshNames, Tidy, N, Exists
  <2> QED
    BY <2>2, <2>3
<1>3. ASSUME NEW m \in Name, Host(m) \/ Disturb(m), NEW q \in Proc PROVE Tidy(q)'
  <2>1. UNCHANGED <<pc, job, stanza>>
    BY <1>3, HostTouches
  <2>2. ASSUME ~Exists(N(q)), N(q) \in Name PROVE ~Exists(N(q))'
    BY <1>3, <2>1, <2>2
       DEF N, Exists, Host, Disturb, Boot, ArchivePush, RunUpgrade, GoDown, ComeBack, Running,
           StartContainer, Startable, StopContainer, IInv, Shape
  <2> QED
    BY <2>1, <2>2, Local DEF Tidy, N, I
<1>4. ASSUME UNCHANGED vars, NEW q \in Proc PROVE Tidy(q)'
  BY <1>4 DEF Tidy, N, I, Exists, vars, hostVars, local
<1> QED
  BY <1>1, <1>2, <1>3, <1>4 DEF Next

\* Whatever a container reads, it archives into the repository of its own name.
Home(n) ==
    Exists(n) =>
        /\ conf[n].archive = TRUE /\ ctr[n].mounts => conf[n].repo \in {None, n}
        /\ ctr[n].archive = TRUE => ctr[n].repo \in {None, n}

LEMMA HomeStep ==
    ASSUME IInv, IInv', NEW p \in Proc, Step(p), \A q \in Proc : Tidy(q),
           NEW n \in Name, Home(n)
    PROVE  Home(n)'
<1> SUFFICES ASSUME Exists(n)'
             PROVE  /\ conf'[n].archive = TRUE /\ ctr'[n].mounts => conf'[n].repo \in {None, n}
                    /\ ctr'[n].archive = TRUE => ctr'[n].repo \in {None, n}
  BY DEF Home
<1>1. pc[p] # "idle" /\ Task(p) /\ N(p) \in Name
  BY StepTouches, Local
<1>2. CASE n # N(p)
  <2>1. conf'[n] = conf[n]
    BY <1>2
       DEF hostVars, IInv, Shape, Step, Check, Refused, AllocatePort, WriteConf, WriteRepo,
           CreateContainer, Start, Ready, NotReady, Save, CleanContainer, CleanVolume, CleanConf,
           Stop, Remove, PreSnapshot, CreateOneshot, LaunchOneshot, OneshotExits, UpdateState,
           DeleteStanza, RemoveVolume, RemoveDir, SetPreset, RollBack, CallFails, SaveUnsynced, Die
  <2>2. ctr'[n] = ctr[n]
    BY <1>2, StepTouches
  <2> QED
    BY <2>1, <2>2 DEF Home, Exists
<1>3. CASE n = N(p) /\ (WriteConf(p) \/ WriteRepo(p))
  <2>1. ~Exists(n)
    BY <1>1, <1>3 DEF WriteConf, WriteRepo, At, Tidy, Early, Task, Changes
  <2> QED
    BY <1>3, <2>1 DEF WriteConf, WriteRepo, Exists
<1>4. CASE n = N(p) /\ CreateContainer(p)
  <2>1. ~Exists(n) /\ pc[p] = "create"
    BY <1>1, <1>4 DEF CreateContainer, At, Tidy, Early, Task, Changes
  <2>2. pc'[p] = "start" /\ N(p)' = n
    BY <1>4, <2>1, Moves DEF CreateContainer
  <2>3. Fits(n)'
    BY <2>2 DEF IInv, Task, Builds
  <2> QED
    BY <2>3 DEF Fits
<1>5. CASE n = N(p) /\ (Start(p) \/ Stop(p)) /\ ~UNCHANGED ctr
  <2>1. UNCHANGED <<conf, vol>> /\ Exists(n) /\ ctr[n] \in Container
    BY <1>1, <1>5 DEF Start, Stop, Mine, Running, IInv, Held, HostTypes, Exists
  <2>2. CASE Start(p)
    <3>1. /\ ctr'[n].mounts = ctr[n].mounts /\ ctr'[n].archive = conf[n].archive
          /\ ctr'[n].repo = IF ctr[n].mounts THEN conf[n].repo ELSE None
      BY <1>5, <2>1, <2>2 DEF Start, StartContainer, IInv, Shape, Container
    <3> QED
      BY <2>1, <3>1 DEF Home
  <2>3. CASE Stop(p)
    <3>1. ctr'[n].mounts = ctr[n].mounts /\ ctr'[n].archive = ctr[n].archive /\ ctr'[n].repo = ctr[n].repo
      BY <1>5, <2>1, <2>3 DEF Stop, StopContainer, IInv, Shape, Container
    <3> QED
      BY <2>1, <3>1 DEF Home
  <2> QED
    BY <1>5, <2>2, <2>3
<1>6. CASE n = N(p) /\ (CleanContainer(p) \/ Remove(p))
  BY <1>6 DEF CleanContainer, Remove, Exists, IInv, Shape
<1>7. CASE n = N(p) /\ (CleanConf(p) \/ RemoveDir(p))
  <2>1. conf'[n] = NoConf /\ ctr'[n] = ctr[n]
    BY <1>7 DEF CleanConf, RemoveDir, IInv, Shape
  <2>2. None # TRUE
    BY HostAssumption DEF HostAssumption
  <2> QED
    BY <2>1, <2>2 DEF Home, NoConf, Exists
<1>8. CASE UNCHANGED <<conf, ctr>>
  BY <1>8 DEF Home, Exists
<1> QED
  BY <1>2, <1>3, <1>4, <1>5, <1>6, <1>7, <1>8
     DEF hostVars, Step, Check, Refused, AllocatePort, Start, Ready, NotReady, Save, CleanVolume,
         Stop, PreSnapshot, CreateOneshot, LaunchOneshot, OneshotExits, UpdateState,
         DeleteStanza, RemoveVolume, SetPreset, RollBack, CallFails, SaveUnsynced, Die

\* What the host does to a container.
LEMMA HostContainer ==
    ASSUME IInv, NEW m \in Name, Host(m) \/ Disturb(m), NEW n \in Name
    PROVE  /\ UNCHANGED conf /\ (Exists(n)' <=> Exists(n))
           /\ Exists(n) =>
                /\ ctr'[n].mounts = ctr[n].mounts /\ ctr'[n].vol = ctr[n].vol
                /\ ctr'[n].kind = ctr[n].kind
                /\ \/ ctr'[n].archive = ctr[n].archive /\ ctr'[n].repo = ctr[n].repo
                   \/ /\ ctr'[n].archive = conf[n].archive
                      /\ ctr'[n].repo = IF ctr[n].mounts THEN conf[n].repo ELSE None
<1>1. UNCHANGED conf
  BY DEF Host, Disturb, Boot, ArchivePush, RunUpgrade, GoDown, ComeBack
<1>2. CASE ctr'[n] = ctr[n]
  BY <1>1, <1>2 DEF Exists
<1>3. CASE m = n /\ Exists(n) /\ ctr'[n] # ctr[n]
  <2>1. ctr[n] \in Container
    BY <1>3 DEF IInv, Held, HostTypes, Exists
  <2>2. \/ \E s \in {"up", "stopped"} : ctr'[n] = [ctr[n] EXCEPT !.st = s]
        \/ /\ StartContainer(n) /\ UNCHANGED vol
           /\ ctr'[n] = [ctr[n] EXCEPT !.st = "running", !.archive = conf[n].archive,
                                       !.tuned = conf[n].preset,
                                       !.repo = IF ctr[n].mounts THEN conf[n].repo ELSE None]
    BY <1>3
       DEF Host, Disturb, Boot, ArchivePush, RunUpgrade, GoDown, ComeBack, StartContainer,
           StopContainer, IInv, Shape
  <2>3. CASE \E s \in {"up", "stopped"} : ctr'[n] = [ctr[n] EXCEPT !.st = s]
    <3>1. ctr'[n] \in Container
      BY <2>1, <2>3 DEF Container
    <3>2. Exists(n)'
      BY <3>1, HostAssumption DEF HostAssumption, Exists
    <3> QED
      BY <1>1, <1>3, <2>1, <2>3, <3>2 DEF Container
  <2>4. CASE StartContainer(n) /\ UNCHANGED vol
    <3>1. Exists(n)'
      BY <1>1, <1>3, <2>4, Started DEF Same
    <3> QED
      BY <1>1, <1>3, <2>1, <2>2, <2>3, <3>1 DEF Container
  <2> QED
    BY <2>2, <2>3, <2>4
<1> QED
  BY <1>2, <1>3
     DEF Host, Disturb, Boot, ArchivePush, RunUpgrade, GoDown, ComeBack, StartContainer,
         StopContainer, Startable, Running, Exists, IInv, Shape

LEMMA StaysHome ==
    ASSUME IInv, IInv', [Next]_vars, \A p \in Proc : Tidy(p), NEW n \in Name, Home(n)
    PROVE  Home(n)'
<1>1. ASSUME NEW p \in Proc, Invoke(p) PROVE Home(n)'
  BY <1>1, Invoked DEF Home, Exists, hostVars
<1>2. ASSUME NEW m \in Name, Host(m) \/ Disturb(m) PROVE Home(n)'
  <2>1. /\ UNCHANGED conf /\ (Exists(n)' <=> Exists(n))
        /\ Exists(n) =>
                /\ ctr'[n].mounts = ctr[n].mounts
                /\ \/ ctr'[n].archive = ctr[n].archive /\ ctr'[n].repo = ctr[n].repo
                   \/ /\ ctr'[n].archive = conf[n].archive
                      /\ ctr'[n].repo = IF ctr[n].mounts THEN conf[n].repo ELSE None
    BY <1>2, HostContainer
  <2> QED
    BY <2>1 DEF Home
<1>3. CASE UNCHANGED vars
  BY <1>3 DEF Home, Exists, vars, hostVars
<1> QED
  BY <1>1, <1>2, <1>3, HomeStep DEF Next

\* A command makes no cluster: only containers do.
LEMMA NoClusterMade ==
    ASSUME IInv, NEW p \in Proc, Step(p), NEW v \in Volume, vol'[v] \in Cluster
    PROVE  vol'[v] = vol[v]
<1>1. PICK n \in Name : n = N(p) /\ {I(p).vol, NewVolume(n)} \subseteq {DataVolume(n), NewVolume(n)}
  BY StepTouches, Local
<1>2. \/ UNCHANGED vol
      \/ \E w \in {DataVolume(n), NewVolume(n)} : vol' = [vol EXCEPT ![w] = None]
      \/ \E vs \in SUBSET {DataVolume(n), NewVolume(n)} : vol' = WithVolumes(vs)
  BY <1>1 DEF hostVars, Step, Check, Refused, AllocatePort, WriteConf, WriteRepo, CreateContainer,
         Start, Ready, NotReady, Save, CleanContainer, CleanVolume, CleanConf, Stop, Remove,
         PreSnapshot, CreateOneshot, LaunchOneshot, OneshotExits, UpdateState, DeleteStanza,
         RemoveVolume, RemoveDir, SetPreset, RollBack, CallFails, SaveUnsynced, Die
<1> QED
  BY <1>2, HostAssumption DEF WithVolumes, HostAssumption, IInv, Shape

\* No system identifier is one that is yet to come.
Young ==
    /\ \A v \in Volume : vol[v] \in Cluster => vol[v].sys <= born
    /\ \A n \in Name : stanza[n] # None => stanza[n].sys <= born

\* A new cluster is a copy, or has an identifier that no stanza knows.
LEMMA PopulatedSys ==
    ASSUME IInv, Young, NEW n \in Name, Exists(n), Populate(n)
    PROVE  /\ born' >= born /\ vol'[ctr[n].vol].sys <= born'
           /\ ctr[n].kind = "regular" => UNCHANGED vol \/ vol'[ctr[n].vol].sys = born + 1
<1> DEFINE v == ctr[n].vol
<1>1. /\ v \in Volume /\ DOMAIN vol = Volume /\ born \in Nat
      /\ vol[v] \in Cluster \cup {None, Empty, Junk}
      /\ ctr[n].src \in Name /\ ctr[n].repo \in Name \cup {None} /\ ctr[n] \in Container
  BY Volumes, HostAssumption
     DEF IInv, Shape, Counts, Held, HostTypes, Made, Exists, Container, HostAssumption
<1>2. CASE UNCHANGED <<vol, born>> /\ HasCluster(v)
  BY <1>1, <1>2 DEF Young, HasCluster
<1>3. ASSUME born' = born + 1, NEW s, s <= born + 1, s \in Nat,
             vol'[v].sys = s, ctr[n].kind = "regular" => s = born + 1
      PROVE  /\ born' >= born /\ vol'[v].sys <= born'
             /\ ctr[n].kind = "regular" => UNCHANGED vol \/ vol'[v].sys = born + 1
  BY <1>1, <1>3
<1>4. CASE born' = born + 1 /\ ctr[n].kind = "regular"
           /\ vol' = [vol EXCEPT ![v] =
                [sys |-> born + 1, hist |-> born + 1, data |-> born + 1, ver |-> ctr[n].ver,
                 mark |-> "regular"]]
  <2>1. vol'[v].sys = born + 1
    BY <1>1, <1>4
  <2> QED
    BY <1>1, <1>4, <2>1
<1>5. ASSUME born' = born + 1, ctr[n].kind = "clone", Up(ctr[n].src),
             NEW s, s = vol[ctr[ctr[n].src].vol],
             vol' = [vol EXCEPT ![v] = [Fresh(s) EXCEPT !.mark = "clone"]]
      PROVE  born' >= born /\ vol'[v].sys <= born'
  <2>1. ctr[ctr[n].src].vol \in Volume /\ s \in Cluster
    BY <1>1, <1>5, Volumes DEF IInv, Held, Made, Up, IsCluster
  <2>2. s.sys <= born /\ s.sys \in Nat
    BY <1>5, <2>1, HostAssumption DEF Young, Cluster, Lineage, HostAssumption
  <2>3. vol'[v].sys = s.sys
    BY <1>1, <1>5, <2>1 DEF Fresh, Cluster
  <2> QED
    BY <1>1, <1>5, <2>2, <2>3
<1>6. CASE /\ born' = born + 1 /\ ctr[n].kind = "restore" /\ ctr[n].repo # None
           /\ stanza[ctr[n].repo] # None
           /\ vol' = [vol EXCEPT ![v] =
                [sys |-> stanza[ctr[n].repo].sys, hist |-> born + 1, data |-> born + 1,
                 ver |-> ctr[n].ver, mark |-> "restore"]]
  <2>1. ctr[n].repo \in Name /\ stanza[ctr[n].repo].sys \in Nat /\ stanza[ctr[n].repo].sys <= born
    BY <1>1, <1>6, HostAssumption DEF Young, IInv, Counts, Lineage, HostAssumption
  <2>2. vol'[v].sys = stanza[ctr[n].repo].sys
    BY <1>1, <1>6
  <2> QED
    BY <1>1, <1>6, <2>1, <2>2
<1> HIDE DEF v
<1> QED
  BY <1>1, <1>2, <1>4, <1>5, <1>6 DEF Populate, v

LEMMA StaysYoung ==
    ASSUME IInv, SInv, Young, [Next]_vars
    PROVE  Young'
<1>0. born \in Nat
  BY DEF IInv, Counts
<1>1. ASSUME NEW p \in Proc, Step(p) PROVE Young'
  <2>1. UNCHANGED born
    BY <1>1
       DEF hostVars, Step, Check, Refused, AllocatePort, WriteConf, WriteRepo, CreateContainer,
           Start, Ready, NotReady, Save, CleanContainer, CleanVolume, CleanConf, Stop, Remove,
           PreSnapshot, CreateOneshot, LaunchOneshot, OneshotExits, UpdateState, DeleteStanza,
           RemoveVolume, RemoveDir, SetPreset, RollBack, CallFails, SaveUnsynced, Die
  <2>2. ASSUME NEW v \in Volume, vol'[v] \in Cluster PROVE vol'[v].sys <= born
    BY <1>1, <2>2, NoClusterMade DEF Young
  <2>3. ASSUME NEW n \in Name, stanza'[n] # None PROVE stanza'[n].sys <= born
    <3>1. CASE stanza'[n] = stanza[n]
      BY <2>3, <3>1 DEF Young
    <3>2. CASE Ready(p) /\ n = N(p) /\ Matches(n, vol[DataVolume(n)])' /\ I(p).vol = DataVolume(n)
      <4>1. UNCHANGED vol /\ pc[p] # "idle" /\ pc[p] = "ready" /\ Up(n)
        BY <3>2 DEF Ready, At
      <4>2. I(p).vol = ctr[n].vol /\ Held(n)
        BY <3>2, <4>1, Local DEF Task, Builds
      <4>3. vol[DataVolume(n)] \in Cluster /\ DataVolume(n) \in Volume
        BY <3>2, <4>1, <4>2, Volumes DEF Held, Made, IsCluster, Up
      <4> QED
        BY <3>2, <4>1, <4>3 DEF Matches, Young
    <3> QED
      BY <1>1, <2>3, <3>1, <3>2, StanzaChanges
  <2> QED
    BY <2>1, <2>2, <2>3 DEF Young
<1>2. ASSUME NEW m \in Name, Host(m) \/ Disturb(m) PROVE Young'
  <2>1. UNCHANGED stanza
    BY <1>2, HostTouches
  <2>2. CASE Boot(m)
    <3>1. Exists(m) /\ Populate(m)
      BY <2>2 DEF Boot
    <3>2. /\ born' \in Nat /\ born' >= born /\ vol'[ctr[m].vol].sys <= born'
          /\ \A v \in Volume : v # ctr[m].vol => vol'[v] = vol[v]
      BY <3>1, PopulatedSys, Populated
    <3>3. \A v \in Volume : vol[v] \in Cluster => vol[v].sys \in Nat
      BY HostAssumption DEF Cluster, Lineage, HostAssumption
    <3>4. \A n \in Name : stanza[n] # None => stanza[n].sys \in Nat
      BY HostAssumption DEF IInv, Counts, Lineage, HostAssumption
    <3> QED
      BY <1>0, <2>1, <3>2, <3>3, <3>4 DEF Young
  <2>3. CASE RunUpgrade(m)
    <3>1. /\ NewVolume(m) \in Volume /\ DOMAIN vol = Volume
          /\ \A v \in Volume : v # NewVolume(m) => vol'[v] = vol[v]
      BY <2>3, Volumes DEF RunUpgrade, IInv, Shape
    <3>2. \A v \in Volume : vol[v] \in Cluster => vol[v].sys \in Nat
      BY HostAssumption DEF Cluster, Lineage, HostAssumption
    <3>3. \A n \in Name : stanza[n] # None => stanza[n].sys \in Nat
      BY HostAssumption DEF IInv, Counts, Lineage, HostAssumption
    <3>4. \/ born' = born + 1 /\ vol'[NewVolume(m)].sys = born + 1
          \/ born' = born /\ (vol'[NewVolume(m)] = Junk \/ vol'[NewVolume(m)] = vol[NewVolume(m)])
      BY <2>3, <3>1 DEF RunUpgrade
    <3> QED
      BY <1>0, <2>1, <3>1, <3>2, <3>3, <3>4, HostAssumption DEF Young, HostAssumption
  <2>4. CASE UNCHANGED <<vol, born>>
    BY <2>1, <2>4 DEF Young
  <2> QED
    BY <1>2, <2>2, <2>3, <2>4 DEF Host, Disturb, ArchivePush, GoDown, ComeBack
<1>3. ASSUME NEW p \in Proc, Invoke(p) PROVE Young'
  BY <1>3, Invoked DEF Young, hostVars
<1>4. CASE UNCHANGED vars
  BY <1>4 DEF Young, vars, hostVars
<1> QED
  BY <1>1, <1>2, <1>3, <1>4 DEF Next

\* pg_upgrade is through, and state.toml does not say so yet.
Pending(n) ==
    \/ oneshot[n] = "ok" /\ state[n] # None /\ state[n].ver = 1
    \/ \E p \in Proc : pc[p] = "update" /\ N(p) = n

\* The new volume then holds a cluster that the stanza is not for.
Another(n) == stanza[n] # None => stanza[n].sys # vol[NewVolume(n)].sys
Moved(n) == Pending(n) => Another(n)

\* No container is on the new volume yet.
LEMMA NewVolumeAlone ==
    ASSUME IInv, KInv, NEW n \in Name, Pending(n)
    PROVE  /\ state[n] # None /\ vol[NewVolume(n)] \in Cluster
           /\ \A m \in Name : Exists(m) => ctr[m].vol # NewVolume(n)
<1>1. state[n] # None /\ vol[NewVolume(n)] \in Cluster
  <2>1. CASE oneshot[n] = "ok"
    BY <2>1, HostAssumption DEF KInv, Keeps, Copied, HostAssumption
  <2>2. ASSUME NEW p \in Proc, pc[p] = "update", N(p) = n
        PROVE  state[n] # None /\ vol[NewVolume(n)] \in Cluster
    <3>1. Task(p) /\ Sure(p) /\ pc[p] # "idle"
      BY <2>2 DEF IInv, KInv
    <3> QED
      BY <2>2, <3>1 DEF Sure, Copied, Task, Control, Changes, Creating, Building, Cleanup
  <2> QED
    BY <2>1, <2>2 DEF Pending
<1>2. Exists(n) => ctr[n].vol # NewVolume(n)
  <2>1. CASE state[n].ver = 1
    BY <1>1, <2>1, Volumes DEF IInv, Held, Made, Saved
  <2>2. ASSUME NEW p \in Proc, pc[p] = "update", N(p) = n PROVE ~Exists(n)
    <3>1. Task(p) /\ pc[p] # "idle"
      BY <2>2 DEF IInv
    <3> QED
      BY <2>2, <3>1 DEF Task, Control, Changes, Creating, Building, Cleanup
  <2> QED
    BY <2>1, <2>2 DEF Pending
<1>3. \A m \in Name : m # n /\ Exists(m) => ctr[m].vol # NewVolume(n)
  BY Volumes DEF IInv, Held, Made
<1> QED
  BY <1>1, <1>2, <1>3

LEMMA MovedStep ==
    ASSUME IInv, KInv, SInv, NEW p \in Proc, Step(p), NEW n \in Name, Moved(n)
    PROVE  Moved(n)'
<1> SUFFICES ASSUME Pending(n)' PROVE Another(n)'
  BY DEF Moved
<1>1. N(p) \in Name /\ pc[p] # "idle" /\ Task(p) /\ NewVolume(n) \in Volume
      /\ "created" # "ok" /\ "running" # "ok" /\ None # "ok"
  BY StepTouches, Local, Volumes, HostAssumption DEF HostAssumption
<1>2. oneshot'[n] = "ok" => oneshot[n] = "ok"
  BY <1>1
     DEF hostVars, IInv, Shape, Step, Check, Refused, AllocatePort, WriteConf, WriteRepo,
         CreateContainer, Start, Ready, NotReady, Save, CleanContainer, CleanVolume, CleanConf,
         Stop, Remove, PreSnapshot, CreateOneshot, LaunchOneshot, OneshotExits, UpdateState,
         DeleteStanza, RemoveVolume, RemoveDir, SetPreset, RollBack, CallFails, SaveUnsynced, Die
<1>3. ASSUME NEW q \in Proc, pc'[q] = "update", N(q)' = n
      PROVE  \/ pc[q] = "update" /\ N(q) = n
             \/ q = p /\ OneshotExits(p) /\ N(p) = n /\ oneshot[n] = "ok"
  <2>1. CASE q # p
    BY <1>3, <2>1, StepTouches DEF N
  <2>2. CASE q = p
    <3>1. OneshotExits(p)
      BY <1>1, <1>3, <2>2
         DEF IInv, Shape, Goto, Quit, Err, At, Step, Check, Refused, AllocatePort, WriteConf,
             WriteRepo, CreateContainer, Start, Ready, NotReady, Save, CleanContainer,
             CleanVolume, CleanConf, Stop, Remove, PreSnapshot, CreateOneshot, LaunchOneshot,
             UpdateState, DeleteStanza, RemoveVolume, RemoveDir, SetPreset, RollBack,
             CallFails, SaveUnsynced, Die, Task, Control, Building, Cleanup, Creating
    <3>2. N(p) = n
      BY <1>3, <2>2, <3>1, SameCommand
    <3> QED
      BY <1>3, <2>2, <3>1, <3>2 DEF OneshotExits, Quit, IInv, Shape
  <2> QED
    BY <2>1, <2>2
<1>7. ASSUME oneshot'[n] = "ok", state'[n] # None, state'[n].ver = 1 PROVE Pending(n)
  <2>1. oneshot[n] = "ok" /\ state[n] # None
    BY <1>1, <1>2, <1>7 DEF KInv, Keeps
  <2>2. CASE Updates(p) /\ n = N(p)
    BY <2>2 DEF Updates, UpdateState, At, Pending
  <2>3. CASE state'[n].ver = state[n].ver
    BY <1>7, <2>1, <2>3 DEF Pending
  <2>4. ~(Saves(p) /\ n = N(p))
    BY <1>1, <2>1 DEF Saves, Save, At, Task, Control, Creates, Building
  <2> QED
    BY <1>7, <2>2, <2>3, <2>4, StateOf
<1>8. OneshotExits(p) => state[N(p)] # None /\ state[N(p)].ver = 1
  BY <1>1 DEF OneshotExits, At, Task, Control, Changes, Creating, Building, Cleanup
<1>4. Pending(n) /\ Another(n)
  BY <1>3, <1>7, <1>8 DEF Moved, Pending
<1>5. stanza'[n] \in {None, stanza[n]}
  BY <1>4, NewVolumeAlone, StanzaStays
<1>6. vol'[NewVolume(n)] = vol[NewVolume(n)]
  <2>1. vol[NewVolume(n)] \in Cluster /\ n \in Name
    BY <1>4, NewVolumeAlone
  <2>2. CASE n # N(p)
    <3>1. NewVolume(n) \in Volume \ {DataVolume(N(p)), NewVolume(N(p))}
      BY <1>1, <2>2, Volumes
    <3> QED
      BY <3>1, StepTouches
  <2>3. CASE n = N(p) /\ (CreateContainer(p) \/ CreateOneshot(p))
    <3>1. UNCHANGED vol \/ \E vs \in SUBSET {DataVolume(n), NewVolume(n)} : vol' = WithVolumes(vs)
      BY <1>1, <2>3, Local DEF CreateContainer, CreateOneshot
    <3> QED
      BY <1>1, <2>1, <3>1, Mounting
  <2>4. CASE n = N(p) /\ OneshotExits(p)
    <3>1. pc[p] = "wait" /\ oneshot[n] = "ok"
      BY <1>4, <2>4 DEF Pending, OneshotExits, At, IInv, Apart
    <3> QED
      BY <2>4, <3>1 DEF OneshotExits
  <2>5. CASE n = N(p) /\ (CleanVolume(p) \/ RemoveVolume(p))
    <3>1. pc[p] # "update"
      BY <2>5 DEF CleanVolume, RemoveVolume, At
    <3>2. oneshot[n] = "ok"
      BY <1>1, <1>4, <2>5, <3>1 DEF Pending, IInv, Apart
    <3>3. InUse(I(p).vol)
      BY <1>1, <2>5, <3>2, Local DEF InUse
    <3> QED
      BY <2>5, <3>3 DEF CleanVolume, RemoveVolume
  <2> QED
    BY <2>2, <2>3, <2>4, <2>5
       DEF hostVars, Step, Check, Refused, AllocatePort, WriteConf, WriteRepo, Start, Ready,
           NotReady, Save, CleanContainer, CleanConf, Stop, Remove, PreSnapshot, LaunchOneshot,
           UpdateState, DeleteStanza, RemoveDir, SetPreset, RollBack, CallFails, SaveUnsynced, Die
<1> QED
  BY <1>4, <1>5, <1>6 DEF Another

LEMMA StaysMoved ==
    ASSUME IInv, KInv, SInv, Young, [Next]_vars, NEW n \in Name, Moved(n)
    PROVE  Moved(n)'
<1>1. ASSUME NEW m \in Name, Host(m) \/ Disturb(m) PROVE Moved(n)'
  <2>1. UNCHANGED <<state, pc, job, stanza>> /\ NewVolume(n) \in Volume
    BY <1>1, HostTouches, Volumes
  <2>2. SUFFICES ASSUME Pending(n)' PROVE Another(n)'
    BY DEF Moved
  <2>3. CASE RunUpgrade(m) /\ m = n
    <3>1. oneshot[n] = "running"
      BY <2>3 DEF RunUpgrade
    <3>2. \A q \in Proc : ~(pc[q] = "update" /\ N(q) = n)
      <4>1. ASSUME NEW q \in Proc, pc[q] = "update", N(q) = n PROVE oneshot[n] \in {None, "ok"}
        BY <4>1 DEF KInv, Sure
      <4> QED
        BY <3>1, <4>1, HostAssumption DEF HostAssumption
    <3>3. oneshot'[n] = "ok"
      BY <2>1, <2>2, <3>2 DEF Pending, N
    <3>4. vol'[NewVolume(n)].sys = born + 1
      BY <2>1, <2>3, <3>3 DEF RunUpgrade, IInv, Shape
    <3>5. stanza[n] # None => stanza[n].sys <= born /\ stanza[n].sys \in Nat
      BY HostAssumption DEF Young, IInv, Counts, Lineage, HostAssumption
    <3>6. born \in Nat
      BY DEF IInv, Counts
    <3> QED
      BY <2>1, <3>4, <3>5, <3>6 DEF Another
  <2>4. CASE ~(RunUpgrade(m) /\ m = n)
    <3>1. oneshot'[n] = oneshot[n]
      BY <1>1, <2>4
         DEF Host, Disturb, Boot, ArchivePush, RunUpgrade, GoDown, ComeBack, IInv, Shape
    <3>2. Pending(n)
      BY <2>1, <2>2, <3>1 DEF Pending, N
    <3>3. vol'[NewVolume(n)] = vol[NewVolume(n)]
      <4>1. CASE Boot(m)
        <5>1. Exists(m) /\ Populate(m) /\ ctr[m].vol # NewVolume(n)
          BY <3>2, <4>1, NewVolumeAlone DEF Boot
        <5> QED
          BY <2>1, <5>1, Populated
      <4>2. CASE RunUpgrade(m) /\ m # n
        <5>1. NewVolume(m) # NewVolume(n)
          BY <4>2, Volumes
        <5> QED
          BY <2>1, <4>2, <5>1 DEF RunUpgrade, IInv, Shape
      <4> QED
        BY <1>1, <2>4, <4>1, <4>2 DEF Host, Disturb, ArchivePush, GoDown, ComeBack
    <3> QED
      BY <2>1, <3>2, <3>3 DEF Moved, Another
  <2> QED
    BY <2>3, <2>4
<1>2. ASSUME NEW p \in Proc, Invoke(p) PROVE Moved(n)'
  <2>1. UNCHANGED <<state, oneshot, stanza, vol>>
    BY <1>2, Invoked DEF hostVars
  <2>2. ASSUME NEW q \in Proc, pc'[q] = "update" PROVE pc[q] = "update" /\ N(q)' = N(q)
    BY <1>2, <2>2, Invoked DEF N
  <2> QED
    BY <2>1, <2>2 DEF Moved, Pending, Another
<1>3. CASE UNCHANGED vars
  BY <1>3 DEF Moved, Pending, Another, N, vars, hostVars, local
<1> QED
  BY <1>1, <1>2, <1>3, MovedStep DEF Next

\* What a stanza has taken is the one history of the instance's volume, and
\* nothing will populate that volume again.
Wrote(n, v, h) == vol[v] \in Cluster /\ Matches(n, vol[v]) => vol[v].hist = h
Fed(n) ==
    fed[n] # {} =>
        /\ stanza[n] # None
        /\ Exists(n) => Filled(n)
        /\ \E h \in Lineage :
              /\ fed[n] = {h}
              /\ Exists(n) => Wrote(n, ctr[n].vol, h)
              /\ state[n] # None => Wrote(n, state[n].vol, h)

\* The same of a volume after a step.
WroteThen(n, v, h) ==
    /\ vol'[v] \in Cluster
    /\ stanza'[n] # None /\ stanza'[n].sys = vol'[v].sys /\ stanza'[n].ver = vol'[v].ver
    => vol'[v].hist = h

LEMMA StillWrote ==
    ASSUME IInv, NEW p \in Proc, Step(p), NEW n \in Name, stanza'[n] = stanza[n],
           NEW v \in Volume, NEW h, Wrote(n, v, h)
    PROVE  WroteThen(n, v, h)
BY NoClusterMade DEF Wrote, WroteThen, Matches

\* What a command leaves of the repository.
LEMMA FedByHost ==
    ASSUME IInv, SInv, NEW p \in Proc, Step(p), Tidy(p), NEW n \in Name, stanza[n] # None,
           fed'[n] # {}
    PROVE  fed'[n] = fed[n] /\ stanza'[n] = stanza[n]
<1>1. CASE DeleteStanza(p)
  BY <1>1 DEF DeleteStanza, IInv, Shape, Counts
<1>2. CASE ~DeleteStanza(p)
  <2>1. UNCHANGED fed
    BY <1>2
       DEF hostVars, Step, Check, Refused, AllocatePort, WriteConf, WriteRepo, CreateContainer,
           Start, Ready, NotReady, Save, CleanContainer, CleanVolume, CleanConf, Stop, Remove,
           PreSnapshot, CreateOneshot, LaunchOneshot, OneshotExits, UpdateState,
           RemoveVolume, RemoveDir, SetPreset, RollBack, CallFails, SaveUnsynced, Die
  <2>2. CASE UNCHANGED stanza
    BY <2>1, <2>2
  <2>3. CASE Ready(p) /\ ~UNCHANGED stanza
    <3>1. /\ pc[p] = "ready" /\ pc[p] # "idle" /\ job[p].cmd \in Creating /\ N(p) \in Name
          /\ I(p).backup /\ Up(N(p))
      BY <2>3, Local DEF Ready, At
    <3>2. stanza[N(p)] = None
      BY <3>1 DEF Tidy
    <3>3. ctr[N(p)].repo = N(p)
      BY <3>1 DEF SInv, Archives, Running, Up
    <3>4. \A m \in Name : m # N(p) => stanza'[m] = stanza[m]
      BY <2>3, <3>3, StanzaMade DEF IInv, Shape
    <3> QED
      BY <2>1, <3>2, <3>4
  <2> QED
    BY <1>2, <2>2, <2>3
       DEF hostVars, Step, Check, Refused, AllocatePort, WriteConf, WriteRepo, CreateContainer,
           Start, NotReady, Save, CleanContainer, CleanVolume, CleanConf, Stop, Remove,
           PreSnapshot, CreateOneshot, LaunchOneshot, OneshotExits, UpdateState,
           RemoveVolume, RemoveDir, SetPreset, RollBack, CallFails, SaveUnsynced, Die
<1> QED
  BY <1>1, <1>2

\* Where a container comes from.
LEMMA ContainerOf ==
    ASSUME IInv, NEW p \in Proc, Step(p), NEW n \in Name, Exists(n)'
    PROVE  \/ Exists(n) /\ ctr'[n].vol = ctr[n].vol /\ ctr'[n].kind = ctr[n].kind
           \/ CreateContainer(p) /\ n = N(p) /\ ctr'[n].vol = I(p).vol
<1>1. DOMAIN ctr = Name /\ (n # N(p) => ctr'[n] = ctr[n])
  BY StepTouches DEF IInv, Shape
<1>2. CASE ctr'[n] = ctr[n]
  BY <1>2 DEF Exists
<1>3. CASE n = N(p) /\ (Start(p) \/ Stop(p)) /\ ctr'[n] # ctr[n]
  <2>1. Exists(n) /\ ctr[n] \in Container
    BY <1>3 DEF Start, Stop, Mine, Running, IInv, Held, HostTypes, Exists
  <2> QED
    BY <1>1, <1>3, <2>1 DEF Start, Stop, StartContainer, StopContainer, Container
<1>4. CASE n = N(p) /\ CreateContainer(p)
  BY <1>1, <1>4 DEF CreateContainer, Exists
<1>5. CASE n = N(p) /\ (Remove(p) \/ CleanContainer(p))
  BY <1>1, <1>5 DEF Remove, CleanContainer, Exists
<1> QED
  BY <1>1, <1>2, <1>3, <1>4, <1>5
     DEF hostVars, Step, Check, Refused, AllocatePort, WriteConf, WriteRepo,
         Start, Ready, NotReady, Save, CleanVolume, CleanConf, Stop,
         PreSnapshot, CreateOneshot, LaunchOneshot, OneshotExits, UpdateState, DeleteStanza,
         RemoveVolume, RemoveDir, SetPreset, RollBack, CallFails, SaveUnsynced, Die

\* The step of the command that works on n, which has had a stanza before.
LEMMA OwnFed ==
    ASSUME IInv, IInv', KInv, KInv', SInv, NEW p \in Proc, Step(p), Tidy(p),
           NEW n \in Name, n = N(p), Fed(n), Moved(n), fed[n] # {}, fed'[n] = fed[n],
           stanza'[n] = stanza[n]
    PROVE  Fed(n)'
<1>1. /\ pc[p] # "idle" /\ Task(p) /\ stanza[n] # None
      /\ DOMAIN state = Name /\ DOMAIN ctr = Name /\ DOMAIN pc = Proc
      /\ DataVolume(n) \in Volume /\ NewVolume(n) \in Volume
  BY StepTouches, Local, Volumes DEF Fed, IInv, Shape
<1>2. PICK h \in Lineage : /\ fed[n] = {h}
                           /\ Exists(n) => Wrote(n, ctr[n].vol, h)
                           /\ state[n] # None => Wrote(n, state[n].vol, h)
  BY DEF Fed
<1>3. Exists(n) => ctr[n].vol \in Volume
  BY <1>1 DEF IInv, Held, Made
<1>4. state[n] # None => state[n].vol \in Volume
  BY <1>1 DEF IInv, Held, Saved
<1>5. job[p].cmd \in Creating => pc[p] = "save"
  BY <1>1 DEF Tidy
<1>6. job[p].cmd \notin Creating => state[n] # None /\ state[n] = I(p)
  BY <1>1 DEF Task, Changes
<1>7. Exists(n)' => Filled(n)'
  <2>1. CASE state'[n] # None
    BY <2>1 DEF KInv, Keeps
  <2>2. CASE state'[n] = None /\ state[n] # None
    <3>1. pc[p] = "rmDir" /\ UNCHANGED ctr
      BY <2>2, StateGoes DEF RemoveDir, At
    <3>2. ~Exists(n)
      BY <1>1, <3>1 DEF Task, Control, Changes, Creating, Building, Cleanup
    <3> QED
      BY <3>1, <3>2 DEF Exists
  <2>3. CASE state'[n] = None /\ state[n] = None
    <3>1. pc[p] = "save" /\ ~Save(p)
      BY <1>1, <1>5, <1>6, <2>3, Local, StateAssumption DEF Save
    <3>2. UNCHANGED <<ctr, vol>>
      BY <3>1
         DEF hostVars, At, Step, Check, Refused, AllocatePort, WriteConf, WriteRepo,
             CreateContainer, Start, Ready, NotReady, CleanContainer, CleanVolume, CleanConf,
             Stop, Remove, PreSnapshot, CreateOneshot, LaunchOneshot, OneshotExits, UpdateState,
             DeleteStanza, RemoveVolume, RemoveDir, SetPreset, RollBack, CallFails,
             SaveUnsynced, Die
    <3> QED
      BY <3>2 DEF Fed, Filled, Exists
  <2> QED
    BY <2>1, <2>2, <2>3
<1>8. ASSUME Exists(n)' PROVE WroteThen(n, ctr'[n].vol, h)
  <2>1. CASE Exists(n) /\ ctr'[n].vol = ctr[n].vol
    <3>1. WroteThen(n, ctr[n].vol, h)
      BY <1>2, <1>3, <2>1, StillWrote
    <3> QED
      BY <2>1, <3>1 DEF WroteThen
  <2>2. CASE CreateContainer(p) /\ ctr'[n].vol = I(p).vol
    <3>1. state[n] # None /\ I(p).vol = state[n].vol
      BY <1>5, <1>6, <2>2 DEF CreateContainer, At
    <3>2. WroteThen(n, state[n].vol, h)
      BY <1>2, <1>4, <3>1, StillWrote
    <3> QED
      BY <2>2, <3>1, <3>2 DEF WroteThen
  <2> QED
    BY <1>8, <2>1, <2>2, ContainerOf
<1>9. ASSUME state'[n] # None PROVE WroteThen(n, state'[n].vol, h)
  <2>1. CASE state[n] # None /\ state'[n].vol = state[n].vol
    <3>1. WroteThen(n, state[n].vol, h)
      BY <1>2, <1>4, <2>1, StillWrote
    <3> QED
      BY <2>1, <3>1 DEF WroteThen
  <2>2. CASE Saves(p) /\ state'[n] = I(p)
    <3>1. Exists(n) /\ I(p).vol = ctr[n].vol
      BY <1>1, <2>2 DEF Saves, Save, At, Task, Builds, Mine
    <3>2. WroteThen(n, ctr[n].vol, h)
      BY <1>2, <1>3, <3>1, StillWrote
    <3> QED
      BY <2>2, <3>1, <3>2 DEF WroteThen
  <2>3. CASE Updates(p)
    <3>1. pc[p] = "update" /\ UNCHANGED vol /\ state[n] # None
      BY <1>1, <1>9, <2>3 DEF Updates, UpdateState, SaveUnsynced, At, hostVars
    <3>2. state[n] \in Instance
      BY <3>1 DEF IInv, Held, Saved
    <3>3. state'[n].vol = NewVolume(n)
      BY <1>1, <2>3, <3>1, <3>2 DEF Updates, UpdateState, SaveUnsynced, Instance
    <3>4. stanza[n].sys # vol[NewVolume(n)].sys
      BY <1>1, <3>1 DEF Moved, Pending, Another
    <3> QED
      BY <3>1, <3>3, <3>4 DEF WroteThen
  <2> QED
    BY <1>9, <2>1, <2>2, <2>3, StateOf
<1> QED
  BY <1>1, <1>2, <1>7, <1>8, <1>9 DEF Fed, Wrote, WroteThen, Matches

LEMMA FedStep ==
    ASSUME IInv, IInv', KInv, KInv', SInv, NEW p \in Proc, Step(p), Tidy(p),
           NEW n \in Name, Fed(n), Moved(n)
    PROVE  Fed(n)'
<1> SUFFICES ASSUME fed'[n] # {} PROVE Fed(n)'
  BY DEF Fed
<1>1. fed[n] # {}
  BY DEF hostVars, IInv, Shape, Counts, Step, Check, Refused, AllocatePort, WriteConf, WriteRepo,
         CreateContainer, Start, Ready, NotReady, Save, CleanContainer, CleanVolume, CleanConf,
         Stop, Remove, PreSnapshot, CreateOneshot, LaunchOneshot, OneshotExits, UpdateState,
         DeleteStanza, RemoveVolume, RemoveDir, SetPreset, RollBack, CallFails, SaveUnsynced, Die
<1>2. fed'[n] = fed[n] /\ stanza'[n] = stanza[n]
  BY <1>1, FedByHost DEF Fed
<1>3. CASE n # N(p)
  <2>1. PICK m \in Name : m = N(p) /\ m # n
    BY <1>3, StepTouches
  <2>2. \A v \in {DataVolume(n), NewVolume(n)} : v \in Volume \ {DataVolume(m), NewVolume(m)}
    BY <2>1, Volumes
  <2>3. /\ ctr'[n] = ctr[n] /\ state'[n] = state[n]
        /\ \A v \in {DataVolume(n), NewVolume(n)} : vol'[v] = vol[v]
    BY <2>1, <2>2, StepTouches
  <2>4. /\ Exists(n) => ctr[n].vol \in {DataVolume(n), NewVolume(n)}
        /\ state[n] # None => state[n].vol \in {DataVolume(n), NewVolume(n)}
    BY DEF IInv, Held, Made, Saved
  <2> QED
    BY <1>2, <2>3, <2>4 DEF Fed, Wrote, Matches, Filled, Exists
<1>4. CASE n = N(p)
  BY <1>1, <1>2, <1>4, OwnFed
<1> QED
  BY <1>3, <1>4

\* A host's step that takes WAL: the container's own, of the volume it is up on.
LEMMA FedByArchiving ==
    ASSUME IInv, KInv, NEW m \in Name, ArchivePush(m), UNCHANGED state, Home(m),
           NEW n \in Name, Fed(n)
    PROVE  Fed(n)'
<1> DEFINE h == vol[ctr[m].vol].hist
<1>1. /\ UNCHANGED <<state, ctr, vol, stanza>> /\ Exists(m) /\ Up(m)
      /\ ctr[m].archive /\ ctr[m].repo # None
      /\ fed' = [fed EXCEPT ![ctr[m].repo] = @ \cup {h}]
      /\ h \notin fed[ctr[m].repo] /\ Matches(ctr[m].repo, vol[ctr[m].vol])
  BY DEF ArchivePush, Up
<1>2. ctr[m].repo = m
  <2>1. ctr[m].archive = TRUE
    BY <1>1 DEF IInv, Held, HostTypes, Container, Exists
  <2> QED
    BY <1>1, <2>1 DEF Home
<1>3. CASE n # m
  <2>1. fed'[n] = fed[n]
    BY <1>1, <1>2, <1>3 DEF IInv, Counts
  <2> QED
    BY <1>1, <2>1 DEF Fed, Wrote, Matches, Filled, Exists
<1>4. CASE n = m
  <2>1. vol[ctr[n].vol] \in Cluster /\ h \in Lineage
    BY <1>1, <1>4 DEF IInv, Held, Made, IsCluster, Up, Cluster
  <2>2. fed[n] = {}
    <3>1. CASE fed[n] # {}
      <4>1. PICK g \in Lineage : fed[n] = {g} /\ Wrote(n, ctr[n].vol, g)
        BY <1>1, <1>4, <3>1 DEF Fed
      <4>2. h = g
        BY <1>1, <1>2, <1>4, <2>1, <4>1 DEF Wrote
      <4> QED
        BY <1>1, <1>2, <1>4, <4>1, <4>2
    <3> QED
      BY <3>1
  <2>3. fed'[n] = {h}
    BY <1>1, <1>2, <1>4, <2>2 DEF IInv, Counts
  <2>4. stanza[n] # None /\ Filled(n) /\ (state[n] # None => state[n].vol = ctr[n].vol)
    BY <1>1, <1>2, <1>4 DEF Matches, KInv, Keeps, IInv, Held, Made
  <2>5. Wrote(n, ctr[n].vol, h)
    BY <1>4 DEF Wrote
  <2> HIDE DEF h
  <2> QED
    BY <1>1, <2>1, <2>3, <2>4, <2>5 DEF Fed, Wrote, Matches, Filled, Exists
<1> QED
  BY <1>3, <1>4

\* Any other step: a cluster that the host makes meanwhile is not the stanza's.
LEMMA FedByOthers ==
    ASSUME IInv, KInv', KInv, Young, NEW m \in Name, Host(m) \/ Disturb(m), ~ArchivePush(m),
           NEW n \in Name, Fed(n)
    PROVE  Fed(n)'
<1> SUFFICES ASSUME fed'[n] # {} PROVE Fed(n)'
  BY DEF Fed
<1>1. /\ UNCHANGED <<state, stanza, fed>>
  BY HostTouches DEF Host, Disturb, Boot, RunUpgrade, GoDown, ComeBack
<1>2. /\ Exists(n)' <=> Exists(n)
      /\ Exists(n) => ctr'[n].vol = ctr[n].vol /\ ctr'[n].kind = ctr[n].kind
  BY HostContainer
<1>3. stanza[n] # None /\ stanza[n].sys # born + 1 /\ (Exists(n) => Filled(n))
  <2>1. stanza[n] # None /\ (Exists(n) => Filled(n))
    BY <1>1 DEF Fed
  <2>2. stanza[n].sys <= born /\ stanza[n].sys \in Nat /\ born \in Nat
    BY <2>1, HostAssumption DEF Young, IInv, Counts, Lineage, HostAssumption
  <2> QED
    BY <2>1, <2>2
\* On the volumes of n.
<1>4. ASSUME NEW v \in {DataVolume(n), NewVolume(n)}, vol'[v] \in Cluster
      PROVE  vol'[v] = vol[v] \/ vol'[v].sys = born + 1
  <2>1. CASE Boot(m)
    <3>1. Exists(m) /\ Populate(m) /\ ctr[m].vol \in {DataVolume(m), NewVolume(m)}
      BY <2>1 DEF Boot, IInv, Held, Made
    <3>2. CASE v # ctr[m].vol
      BY <3>1, <3>2, Populated, Volumes
    <3>3. CASE v = ctr[m].vol
      <4>1. m = n
        BY <3>1, <3>3, Volumes
      <4>2. CASE ctr[n].kind = "regular"
        BY <3>1, <3>3, <4>1, <4>2, PopulatedSys
      <4>3. CASE ctr[n].kind # "regular"
        <5>1. vol[v] \in Cluster /\ Filled(n)
          BY <1>3, <3>1, <3>3, <4>1, <4>3 DEF Filled
        <5> QED
          BY <3>1, <3>3, <4>1, <5>1, PopulatedOnce
      <4> QED
        BY <4>2, <4>3
    <3> QED
      BY <3>2, <3>3
  <2>2. CASE RunUpgrade(m)
    <3>1. CASE v = NewVolume(m)
      <4>1. v \in Volume /\ DOMAIN vol = Volume
        BY <3>1, Volumes DEF IInv, Shape
      <4> QED
        BY <1>4, <2>2, <3>1, <4>1, HostAssumption DEF RunUpgrade, HostAssumption
    <3>2. CASE v # NewVolume(m)
      BY <2>2, <3>2, Volumes DEF RunUpgrade, IInv, Shape
    <3> QED
      BY <3>1, <3>2
  <2>3. CASE UNCHANGED vol
    BY <2>3
  <2> QED
    BY <2>1, <2>2, <2>3 DEF Host, Disturb, ArchivePush, GoDown, ComeBack
<1>5. PICK h \in Lineage : /\ fed[n] = {h}
                           /\ Exists(n) => Wrote(n, ctr[n].vol, h)
                           /\ state[n] # None => Wrote(n, state[n].vol, h)
  BY <1>1 DEF Fed
<1>6. ASSUME NEW v \in {DataVolume(n), NewVolume(n)}, Wrote(n, v, h)
      PROVE  WroteThen(n, v, h)
  BY <1>1, <1>3, <1>4, <1>6 DEF Wrote, WroteThen, Matches
<1>7. Exists(n) => ctr[n].vol \in {DataVolume(n), NewVolume(n)} /\ WroteThen(n, ctr[n].vol, h)
  BY <1>5, <1>6 DEF IInv, Held, Made
<1>8. state[n] # None => WroteThen(n, state[n].vol, h)
  BY <1>5, <1>6 DEF IInv, Held, Saved
<1>9. Exists(n)' => Filled(n)'
  <2>1. CASE state[n] # None
    BY <1>1, <2>1 DEF KInv, Keeps
  <2>2. CASE state[n] = None /\ Exists(n) /\ ctr[n].kind # "regular"
    <3>1. vol[ctr[n].vol] \in Cluster
      BY <1>3, <2>2 DEF Filled
    <3>2. vol'[ctr[n].vol] = vol[ctr[n].vol]
      <4>1. CASE Boot(m)
        <5>1. Exists(m) /\ Populate(m) /\ ctr[m].vol \in {DataVolume(m), NewVolume(m)}
          BY <4>1 DEF Boot, IInv, Held, Made
        <5>2. ctr[m].vol = ctr[n].vol => m = n
          BY <1>7, <2>2, <5>1, Volumes
        <5> QED
          BY <1>3, <1>7, <2>2, <3>1, <5>1, <5>2, Populated, PopulatedOnce, Volumes
      <4>2. CASE RunUpgrade(m)
        <5>1. oneshot[m] # None
          BY <4>2, HostAssumption DEF RunUpgrade, HostAssumption
        <5>2. m # n
          BY <2>2, <5>1 DEF KInv, Keeps
        <5>3. ctr[n].vol \in Volume /\ ctr[n].vol # NewVolume(m)
          BY <1>7, <2>2, <5>2, Volumes
        <5> QED
          BY <4>2, <5>3 DEF RunUpgrade, IInv, Shape
      <4> QED
        BY <4>1, <4>2 DEF Host, Disturb, ArchivePush, GoDown, ComeBack
    <3> QED
      BY <1>2, <1>3, <2>2, <3>2 DEF Filled
  <2>3. CASE state[n] = None /\ Exists(n) /\ ctr[n].kind = "regular"
    BY <1>2, <2>3 DEF Filled
  <2> QED
    BY <1>2, <2>1, <2>2, <2>3
<1> QED
  BY <1>1, <1>2, <1>3, <1>5, <1>7, <1>8, <1>9 DEF Fed, Wrote, WroteThen, Matches

LEMMA StaysFed ==
    ASSUME IInv, IInv', KInv, KInv', SInv, Young, \A p \in Proc : Tidy(p), [Next]_vars,
           \A m \in Name : Home(m), NEW n \in Name, Moved(n), Fed(n)
    PROVE  Fed(n)'
<1>1. ASSUME NEW m \in Name, Host(m) \/ Disturb(m) PROVE Fed(n)'
  BY <1>1, HostTouches, FedByArchiving, FedByOthers
<1>2. ASSUME NEW p \in Proc, Invoke(p) PROVE Fed(n)'
  BY <1>2, Invoked DEF Fed, Wrote, Matches, Filled, Exists, hostVars
<1>3. CASE UNCHANGED vars
  BY <1>3 DEF Fed, Wrote, Matches, Filled, Exists, vars, hostVars
<1> QED
  BY <1>1, <1>2, <1>3, FedStep DEF Next

\* clone.rs lines 283-286. Where every creation finds that neither a container nor
\* a stanza is left of who had its name before, no stanza ever holds the WAL of
\* two histories, whatever fails, dies, is upgraded, cloned or restored.
THEOREM HistoriesApart == FreshSpec => []OneHistory
<1> DEFINE HInv == /\ Young /\ \A p \in Proc : Tidy(p)
                   /\ \A n \in Name : Home(n) /\ Moved(n) /\ Fed(n)
<1>1. Init => SInv /\ HInv
  <2> SUFFICES ASSUME Init PROVE SInv /\ HInv
    OBVIOUS
  <2>1. Young /\ (\A p \in Proc : Tidy(p)) /\ SInv
    BY HostAssumption
       DEF Init, HostInit, Young, Tidy, SInv, Own, Backed, HostAssumption
  <2>2. \A n \in Name : Home(n) /\ Moved(n) /\ Fed(n)
    BY HostAssumption DEF Init, HostInit, Home, Exists, Moved, Pending, Fed, HostAssumption
  <2> QED
    BY <2>1, <2>2
<1>2. IInv /\ [Next /\ Apart' /\ FreshNames]_vars => IInv'
  BY NextStep, Stutter
<1>3. IInv /\ KInv /\ [Next /\ Apart' /\ FreshNames]_vars => KInv'
  BY StepShows, StutterShows
<1>4. IInv /\ KInv /\ SInv /\ [Next /\ Apart' /\ FreshNames]_vars => SInv'
  BY NextStanza
<1>5. IInv /\ IInv' /\ KInv /\ KInv' /\ SInv /\ HInv /\ [Next /\ Apart' /\ FreshNames]_vars
        => HInv'
  <2> SUFFICES ASSUME IInv, IInv', KInv, KInv', SInv, HInv,
                      [Next /\ Apart' /\ FreshNames]_vars
               PROVE  HInv'
    OBVIOUS
  <2>1. [Next]_vars /\ [Next /\ FreshNames]_vars
    OBVIOUS
  <2>2. Young' /\ \A p \in Proc : Tidy(p)'
    BY <2>1, StaysYoung, StaysTidy
  <2>3. ASSUME NEW n \in Name PROVE Home(n)' /\ Moved(n)' /\ Fed(n)'
    BY <2>1, StaysHome, StaysMoved, StaysFed
  <2> QED
    BY <2>2, <2>3
<1>6. HInv => OneHistory
  <2> SUFFICES ASSUME HInv, NEW n \in Name PROVE Cardinality(fed[n]) <= 1
    BY DEF OneHistory
  <2>1. fed[n] = {} \/ \E h \in Lineage : fed[n] = {h}
    BY DEF Fed
  <2>2. Cardinality(fed[n]) \in {0, 1}
    BY <2>1, FS_EmptySet, FS_Singleton, Zenon
  <2>3. \A k \in {0, 1} : k <= 1
    OBVIOUS
  <2> QED
    BY <2>2, <2>3
<1> QED
  BY <1>1, <1>2, <1>3, <1>4, <1>5, <1>6, InitStep, InitShows, PTL DEF FreshSpec
=============================================================================
