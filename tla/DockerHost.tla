------------------------------ MODULE DockerHost ------------------------------
(***************************************************************************)
(* What pgforge's commands act on: the configuration files it bind-mounts, *)
(* the containers pgforge_NAME and pgforge_upgrade_NAME, the named volumes *)
(* and the clusters in them, and the pgbackrest stanzas in S3. The         *)
(* commands are in Lifecycle; here is what Docker, PostgreSQL, pgbackrest  *)
(* and the operator's own `docker start` and `docker stop` do meanwhile.   *)
(* Two PostgreSQL versions exist, 1 and 2.                                 *)
(***************************************************************************)
EXTENDS Naturals, FiniteSets

CONSTANTS
    Name,       \* instance names
    Port,       \* port_range_start .. port_range_end - 1
    Proc,       \* processes and tasks that run commands
    None,
    Empty,      \* a volume with nothing in it
    Junk,       \* a volume with a half-initialised cluster
    MaxCluster  \* bound: how many clusters come into being

Ver == {1, 2}
Preset == {"small", "large"}
Kind == {"regular", "clone", "restore"}

\* pgforge_data_NAME and pgforge_data_NAME_v2.
Volume == Name \X {"data", "v2"}
DataVolume(n) == <<n, "data">>
NewVolume(n) == <<n, "v2">>

Lineage == 1 .. MaxCluster

\* sys: the system identifier, which physical copies share. hist: one history
\* of writes. data: whose rows they are, which pg_upgrade copies. mark: the
\* marker file of clone and restore.
Cluster == [sys: Lineage, hist: Lineage, data: Lineage, ver: Ver, mark: Kind]

\* mem: the preset that the memory limit is from. archive, repo, tuned: what the
\* running postgres read when it started. src: the source named in the clone
\* entrypoint. mounts: pgbackrest.conf is mounted.
Container ==
    [by: Proc, kind: Kind, src: Name, vol: Volume, ver: Ver, port: Port,
     st: {"created", "running", "up", "stopped"}, mounts: BOOLEAN, mem: Preset,
     archive: BOOLEAN, repo: Name \cup {None}, tuned: Preset \cup {None}]

ASSUME HostAssumption ==
    /\ Port \subseteq Nat
    /\ None \notin Nat /\ None \notin Preset /\ None \notin Name
    /\ None \notin BOOLEAN /\ None \notin Container
    /\ None \notin {"created", "running", "ok", "failed"}
    /\ None \notin [sys: Lineage, ver: Ver]
    /\ MaxCluster \in Nat
    /\ \A x \in {None, Empty, Junk} : x \notin Cluster

VARIABLES
    conf,       \* conf[n]: archive and preset (postgresql.conf), repo (pgbackrest.conf)
    ctr,        \* ctr[n]: the container pgforge_n
    oneshot,    \* oneshot[n]: the container pgforge_upgrade_n_v2
    vol,        \* what is in each volume; None: no such volume
    stanza,     \* stanza[n]: the cluster the repository /pgforge/n is for
    fed,        \* fed[n]: the histories whose WAL is in that repository
    born        \* how many clusters there have been

hostVars == <<conf, ctr, oneshot, vol, stanza, fed, born>>

NoConf == [archive |-> None, preset |-> None, repo |-> None]

HostTypeOK ==
    /\ conf \in [Name -> [archive: {None} \cup BOOLEAN, preset: {None} \cup Preset,
                        repo: {None} \cup Name]]
    /\ \A n \in Name : ctr[n] = None \/ ctr[n] \in Container
    /\ oneshot \in [Name -> {None, "created", "running", "ok", "failed"}]
    /\ \A v \in Volume : vol[v] \in {None, Empty, Junk} \/ vol[v] \in Cluster
    /\ \A n \in Name : stanza[n] = None \/ stanza[n] \in [sys: 1 .. MaxCluster, ver: Ver]
    /\ fed \in [Name -> SUBSET (1 .. MaxCluster)]
    /\ born \in 0 .. MaxCluster

HostInit ==
    /\ conf = [n \in Name |-> NoConf]
    /\ ctr = [n \in Name |-> None]
    /\ oneshot = [n \in Name |-> None]
    /\ vol = [v \in Volume |-> None]
    /\ stanza = [n \in Name |-> None]
    /\ fed = [n \in Name |-> {}]
    /\ born = 0

-----------------------------------------------------------------------------
(* Questions to the host                                                   *)

Exists(n) == ctr[n] # None
Running(n) == Exists(n) /\ ctr[n].st \in {"running", "up"}
Up(n) == Exists(n) /\ ctr[n].st = "up"
HasCluster(v) == vol[v] \notin {None, Empty, Junk}
Bound(port) == \E n \in Name : Running(n) /\ ctr[n].port = port
InUse(v) ==
    \/ \E n \in Name : Exists(n) /\ ctr[n].vol = v
    \/ \E n \in Name : oneshot[n] # None /\ v \in {DataVolume(n), NewVolume(n)}

\* The stanza's archive.info and backup.info are for this cluster.
Matches(n, c) == stanza[n] # None /\ stanza[n].sys = c.sys /\ stanza[n].ver = c.ver

\* The port is free and every bind-mounted file is there.
Startable(n) ==
    /\ Exists(n) /\ ctr[n].st \in {"created", "stopped"}
    /\ ~Bound(ctr[n].port)
    /\ conf[n].archive # None
    /\ ctr[n].mounts => conf[n].repo # None

-----------------------------------------------------------------------------
(* Changes that a command or the operator makes                            *)

\* A volume comes into being with the first container that mounts it.
WithVolumes(vs) == [v \in Volume |-> IF v \in vs /\ vol[v] = None THEN Empty ELSE vol[v]]

StartContainer(n) ==
    /\ Startable(n)
    /\ ctr' = [ctr EXCEPT ![n].st = "running", ![n].archive = conf[n].archive,
                          ![n].tuned = conf[n].preset,
                          ![n].repo = IF ctr[n].mounts THEN conf[n].repo ELSE None]

StopContainer(n) == ctr' = [ctr EXCEPT ![n].st = "stopped"]

-----------------------------------------------------------------------------
(* Containers at work                                                      *)

Fresh(c) == [c EXCEPT !.hist = born + 1, !.data = born + 1]

\* Mutant: the entrypoints of clone and restore look at no marker.
PopulateAgain(n) ==
    LET c == ctr[n]
        d == vol[c.vol]
    IN  \/ c.kind = "regular" /\ HasCluster(c.vol) /\ d.ver = c.ver /\ UNCHANGED <<vol, born>>
        \/ /\ born < MaxCluster /\ born' = born + 1
           /\ \/ /\ c.kind = "regular" /\ d = Empty
                 /\ vol' = [vol EXCEPT ![c.vol] =
                      [sys |-> born + 1, hist |-> born + 1, data |-> born + 1, ver |-> c.ver,
                       mark |-> "regular"]]
              \/ /\ c.kind = "clone" /\ Up(c.src)
                 /\ vol' = [vol EXCEPT ![c.vol] =
                      [Fresh(vol[ctr[c.src].vol]) EXCEPT !.mark = "clone"]]
              \/ /\ c.kind = "restore" /\ c.repo # None
                 /\ stanza[c.repo] # None /\ stanza[c.repo].ver = c.ver
                 /\ vol' = [vol EXCEPT ![c.vol] =
                      [sys |-> stanza[c.repo].sys, hist |-> born + 1, data |-> born + 1,
                       ver |-> c.ver, mark |-> "restore"]]

\* What the entrypoint leaves in the data directory before postgres starts:
\* initdb on an empty one; pg_basebackup and pgbackrest restore clear it unless
\* their marker is there. born counts what it made.
Populate(n) ==
    LET c == ctr[n]
        d == vol[c.vol]
        keeps == IF c.kind = "regular" THEN HasCluster(c.vol)
                 ELSE HasCluster(c.vol) /\ d.mark = c.kind
    IN  \/ keeps /\ d.ver = c.ver /\ UNCHANGED <<vol, born>>
        \/ /\ ~keeps /\ born < MaxCluster /\ born' = born + 1
           /\ \/ /\ c.kind = "regular" /\ d = Empty
                 /\ vol' = [vol EXCEPT ![c.vol] =
                      [sys |-> born + 1, hist |-> born + 1, data |-> born + 1, ver |-> c.ver,
                       mark |-> "regular"]]
              \/ /\ c.kind = "clone" /\ Up(c.src)
                 /\ LET s == vol[ctr[c.src].vol] IN
                      /\ s.ver = c.ver
                      /\ vol' = [vol EXCEPT ![c.vol] = [Fresh(s) EXCEPT !.mark = "clone"]]
              \/ /\ c.kind = "restore" /\ c.repo # None
                 /\ stanza[c.repo] # None /\ stanza[c.repo].ver = c.ver
                 /\ vol' = [vol EXCEPT ![c.vol] =
                      [sys |-> stanza[c.repo].sys, hist |-> born + 1, data |-> born + 1,
                       ver |-> c.ver, mark |-> "restore"]]

\* A container becomes ready. One whose directory is of another version, or
\* that cannot be populated, never does.
Boot(n) ==
    /\ Exists(n) /\ ctr[n].st = "running"
    /\ Populate(n)
    /\ ctr' = [ctr EXCEPT ![n].st = "up"]
    /\ UNCHANGED <<conf, oneshot, stanza, fed>>

\* archive_command = pgbackrest archive-push, which refuses another cluster's WAL.
ArchivePush(n) ==
    /\ Up(n) /\ ctr[n].archive /\ ctr[n].repo # None
    /\ LET c == vol[ctr[n].vol] IN
        /\ Matches(ctr[n].repo, c)
        /\ c.hist \notin fed[ctr[n].repo]
        /\ fed' = [fed EXCEPT ![ctr[n].repo] = @ \cup {c.hist}]
    /\ UNCHANGED <<conf, ctr, oneshot, vol, stanza, born>>

\* pgforge-upgrade.sh: initdb refuses a directory that is not empty, and the
\* new cluster has its own system identifier.
RunUpgrade(n) ==
    LET old == vol[DataVolume(n)]
        new == vol[NewVolume(n)]
    IN  /\ oneshot[n] = "running"
        /\ \/ /\ HasCluster(DataVolume(n)) /\ old.ver = 1 /\ new = Empty
              /\ born < MaxCluster /\ born' = born + 1
              /\ vol' = [vol EXCEPT ![NewVolume(n)] =
                    [sys |-> born + 1, hist |-> born + 1, data |-> old.data, ver |-> 2,
                     mark |-> "regular"]]
              /\ oneshot' = [oneshot EXCEPT ![n] = "ok"]
           \/ /\ vol' = [vol EXCEPT ![NewVolume(n)] = IF new = Empty THEN Junk ELSE new]
              /\ oneshot' = [oneshot EXCEPT ![n] = "failed"]
              /\ UNCHANGED born
        /\ UNCHANGED <<conf, ctr, stanza, fed>>

\* docker stop, a crash, a reboot of the host.
GoDown(n) ==
    /\ Running(n)
    /\ StopContainer(n)
    /\ UNCHANGED <<conf, oneshot, vol, stanza, fed, born>>

\* docker start, or the restart policy.
ComeBack(n) ==
    /\ StartContainer(n)
    /\ ctr[n].st = "stopped"
    /\ UNCHANGED <<conf, oneshot, vol, stanza, fed, born>>
=============================================================================
