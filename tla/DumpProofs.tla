------------------------------- MODULE DumpProofs -------------------------------
(***************************************************************************)
(* Proofs about Dump, for any number of processes, dumps, seconds and      *)
(* faults: what a finished name leads to, now and after a power loss, which*)
(* partial files are left, that retention spares the newest, and what dumps*)
(* that do not overlap keep of what the documentation says.                *)
(***************************************************************************)
EXTENDS Dump, FiniteSetTheorems, TLAPS

Dir == [File -> {None} \cup Dumps]

\* The partial file of a dump that is being written is young.
Young == \A p \in Pid : pc[p] \in {"stream", "verify"} => Mine(p) \notin stale

\* TypeOK, that the functions of the model are functions, and why what is stale
\* is there: nothing is renamed away that is.
TInv ==
    /\ TypeOK /\ Young
    /\ disk \in Dir /\ pend \in [File -> SUBSET ({None} \cup Dumps)]
    /\ job \in [Pid -> {None} \cup Job]

Locations == {"idle", "open", "stream", "verify", "fsync", "list", "prune"}

\* What p's job is where p is.
JobAt(l, j) ==
    IF l = "idle" THEN j = None
    ELSE /\ j \in Job
         /\ j.synced <=> l \notin {"open", "stream"}
         /\ j.data = "none" <=> l \in {"open", "stream"}
         /\ j.todo # {} => l = "prune"

LEMMA TypeParts ==
    TypeOK <=>
        /\ now \in Time
        /\ \A f \in File : disk[f] \in pend[f] /\ pend[f] \subseteq {None} \cup Dumps
        /\ stale \subseteq partial /\ partial \cup gone \subseteq File \X Pid
        /\ pc \in [Pid -> Locations]
        /\ \A p \in Pid : JobAt(pc[p], job[p])
        /\ runs \in 0 .. MaxRuns /\ faults \in 0 .. MaxFaults
        /\ pruned \subseteq File /\ killed \subseteq Pid
BY DEF TypeOK, JobAt, Locations, At, J

LEMMA TypePrime ==
    TypeOK' <=>
        (/\ now \in Time
         /\ \A f \in File : disk[f] \in pend[f] /\ pend[f] \subseteq {None} \cup Dumps
         /\ stale \subseteq partial /\ partial \cup gone \subseteq File \X Pid
         /\ pc \in [Pid -> Locations]
         /\ \A p \in Pid : JobAt(pc[p], job[p])
         /\ runs \in 0 .. MaxRuns /\ faults \in 0 .. MaxFaults
         /\ pruned \subseteq File /\ killed \subseteq Pid)'
BY DEF TypeOK, JobAt, Locations, At, J

LEMMA InitTInv == Init => TInv
<1> SUFFICES ASSUME Init PROVE TInv
  OBVIOUS
<1>1. now \in Time /\ runs \in 0 .. MaxRuns /\ faults \in 0 .. MaxFaults
  BY BoundsAssumption DEF BoundsAssumption, Init, Time
<1>2. pc \in [Pid -> Locations] /\ \A p \in Pid : JobAt(pc[p], job[p])
  BY DEF Init, NoDump, JobAt, Locations
<1>3. job \in [Pid -> {None} \cup Job] /\ disk \in Dir
      /\ pend \in [File -> SUBSET ({None} \cup Dumps)]
  BY DEF Init, NoDump, Dir
<1>4. \A f \in File : disk[f] \in pend[f] /\ pend[f] \subseteq {None} \cup Dumps
  BY DEF Init
<1> QED
  BY <1>1, <1>2, <1>3, <1>4, TypeParts DEF Init, TInv, Young

\* p moves to l with the job j, and the others stay.
LEMMA Move ==
    ASSUME TInv, NEW p \in Pid, NEW l \in Locations, NEW j \in {None} \cup Job, JobAt(l, j),
           pc' = [pc EXCEPT ![p] = l], job' = [job EXCEPT ![p] = j]
    PROVE  /\ pc' \in [Pid -> Locations] /\ job' \in [Pid -> {None} \cup Job]
           /\ \A q \in Pid : JobAt(pc'[q], job'[q])
<1>1. pc \in [Pid -> Locations] /\ job \in [Pid -> {None} \cup Job]
      /\ \A q \in Pid : JobAt(pc[q], job[q])
  BY TypeParts DEF TInv
<1>2. ASSUME NEW q \in Pid PROVE JobAt(pc'[q], job'[q])
  <2>1. CASE q = p
    BY <1>1, <2>1
  <2>2. CASE q # p
    <3>1. pc'[q] = pc[q] /\ job'[q] = job[q]
      BY <1>1, <2>2
    <3> QED
      BY <1>1, <3>1
  <2> QED
    BY <2>1, <2>2
<1> QED
  BY <1>1, <1>2

LEMMA ExitType ==
    ASSUME TInv, NEW p \in Pid, Exit(p)
    PROVE  /\ pc' \in [Pid -> Locations] /\ job' \in [Pid -> {None} \cup Job]
           /\ \A q \in Pid : JobAt(pc'[q], job'[q])
<1>1. JobAt("idle", None)
  BY DEF JobAt
<1> QED
  BY <1>1, Move DEF Exit, Goto, Locations

LEMMA JobOf ==
    ASSUME TInv, NEW p \in Pid, pc[p] # "idle"
    PROVE  /\ job[p] \in Job /\ JobAt(pc[p], job[p]) /\ job[p].file \in File
           /\ Mine(p) \in File \X Pid /\ job[p].todo \in SUBSET File
           /\ job[p].inst \in Inst /\ job[p].keep \in Keep
BY TypeParts DEF TInv, JobAt, Job, Mine, J

-----------------------------------------------------------------------------
(* Types                                                                   *)

LEMMA BeginType ==
    ASSUME TInv, NEW p \in Pid, Begin(p)
    PROVE  TInv'
<1>0. PICK n \in Inst, f \in BOOLEAN, k \in Keep :
        \E g \in {[inst |-> n, stamp |-> now], Out} :
            /\ disk[g] = None \/ f
            /\ job' = [job EXCEPT ![p] =
                     [inst |-> n, file |-> g, force |-> f, keep |-> k,
                      data |-> "none", synced |-> FALSE, todo |-> {}]]
  BY DEF Begin
<1>1. PICK file \in {[inst |-> n, stamp |-> now], Out} :
        job' = [job EXCEPT ![p] =
                 [inst |-> n, file |-> file, force |-> f, keep |-> k,
                  data |-> "none", synced |-> FALSE, todo |-> {}]]
  BY <1>0
<1>2. runs' \in 0 .. MaxRuns
  BY BoundsAssumption DEF BoundsAssumption, TInv, TypeOK, Begin
<1>3. file \in File
  BY DEF TInv, TypeOK, File
<1> DEFINE j == [inst |-> n, file |-> file, force |-> f, keep |-> k,
                 data |-> "none", synced |-> FALSE, todo |-> {}]
<1>4. j \in Job /\ JobAt("open", j)
  BY <1>2, <1>3 DEF Job, JobAt
<1>5. /\ pc' \in [Pid -> Locations] /\ job' \in [Pid -> {None} \cup Job]
      /\ \A q \in Pid : JobAt(pc'[q], job'[q])
  <2>1. pc' = [pc EXCEPT ![p] = "open"] /\ job' = [job EXCEPT ![p] = j]
    BY <1>1 DEF Begin, Goto
  <2> HIDE DEF j
  <2> QED
    BY <1>4, <2>1, Move DEF Locations
<1> QED
  <2>1. Young'
    BY <1>1 DEF TInv, TypeOK, Young, Begin, Goto, dirVars, Mine, J
  <2> QED
    BY <1>2, <1>5, <2>1, TypeParts, TypePrime DEF TInv, Begin, dirVars

LEMMA OpenType ==
    ASSUME TInv, NEW p \in Pid, Open(p)
    PROVE  TInv'
<1>1. pc[p] = "open" /\ Mine(p) \in File \X Pid
  BY JobOf DEF Open, At
<1>2. /\ stale' = {} /\ partial' \cup gone' \subseteq File \X Pid
      /\ UNCHANGED <<now, disk, pend, runs, faults, pruned, killed>>
  BY <1>1 DEF TInv, TypeOK, Open
<1>3. /\ pc' \in [Pid -> Locations] /\ job' \in [Pid -> {None} \cup Job]
      /\ \A q \in Pid : JobAt(pc'[q], job'[q])
  <2>1. CASE Exit(p)
    BY <2>1, ExitType
  <2>2. CASE Goto(p, "stream") /\ UNCHANGED job
    <3>1. JobAt("stream", job[p]) /\ job[p] \in {None} \cup Job
      BY <1>1, JobOf DEF JobAt
    <3>2. job' = [job EXCEPT ![p] = job[p]]
      BY <2>2 DEF TInv
    <3> QED
      BY <2>2, <3>1, <3>2, Move DEF Goto, Locations
  <2> QED
    BY <2>1, <2>2 DEF Open
<1> QED
  BY <1>2, <1>3, TypeParts, TypePrime DEF TInv, Young

LEMMA StreamedType ==
    ASSUME TInv, NEW p \in Pid, Streamed(p)
    PROVE  TInv'
<1>1. PICK d \in Data :
        job' = [job EXCEPT ![p].data = d, ![p].synced = Synced]
  BY DEF Streamed
<1> DEFINE j == [job[p] EXCEPT !.data = d, !.synced = Synced]
<1>2. pc[p] = "stream" /\ job[p] \in Job /\ JobAt("stream", job[p])
  BY JobOf DEF Streamed, At
<1>3. j \in Job /\ JobAt("verify", j)
  BY <1>2 DEF Job, JobAt, Synced, Data
<1>4. job' = [job EXCEPT ![p] = j] /\ pc' = [pc EXCEPT ![p] = "verify"]
  BY <1>1 DEF TInv, Streamed, Goto
<1>5. /\ pc' \in [Pid -> Locations] /\ job' \in [Pid -> {None} \cup Job]
      /\ \A q \in Pid : JobAt(pc'[q], job'[q])
  <2> HIDE DEF j
  <2> QED
    BY <1>3, <1>4, Move DEF Locations
<1>6. Young'
  <2>1. \A q \in Pid : Mine(q)' = Mine(q)
    BY <1>2, <1>3, <1>4 DEF TInv, Mine, J, Job
  <2> QED
    BY <1>2, <1>4, <2>1 DEF TInv, TypeOK, Young, Streamed, dirVars
<1> QED
  BY <1>5, <1>6, TypeParts, TypePrime DEF TInv, Streamed, dirVars

LEMMA CommitType ==
    ASSUME TInv, NEW p \in Pid, Commit(p)
    PROVE  TInv'
<1> DEFINE d == [sent |-> J(p).data, data |-> J(p).data]
           g == job[p].file
<1>1. pc[p] = "verify" /\ job[p] \in Job /\ g \in File /\ JobAt("verify", job[p])
  BY JobOf DEF Commit, At
<1>2. d \in Dumps /\ Remains(d, J(p).synced) \subseteq Dumps
  BY <1>1 DEF JobAt, J, Job, Dumps, Data, Remains
<1>3. disk' = [disk EXCEPT ![g] = d] /\ disk' \in Dir
  BY <1>1, <1>2 DEF TInv, Commit, J, Dir
<1>4. pend' = [pend EXCEPT ![g] = @ \cup Remains(d, J(p).synced)] /\ d \in Remains(d, J(p).synced)
  BY DEF Commit, J, Remains
<1>5. pend' \in [File -> SUBSET ({None} \cup Dumps)]
  <2> HIDE DEF d, g
  <2> QED
    BY <1>1, <1>2, <1>4 DEF TInv
<1>6. \A f \in File : disk'[f] \in pend'[f]
  <2> HIDE DEF d, g
  <2> QED
    BY <1>1, <1>3, <1>4 DEF TInv, TypeOK, Dir
<1>7. /\ pc' \in [Pid -> Locations] /\ job' \in [Pid -> {None} \cup Job]
      /\ \A q \in Pid : JobAt(pc'[q], job'[q])
  <2>1. JobAt("fsync", job[p])
    BY <1>1 DEF JobAt
  <2>2. job' = [job EXCEPT ![p] = job[p]] /\ pc' = [pc EXCEPT ![p] = "fsync"]
    BY DEF TInv, Commit, Goto
  <2> QED
    BY <1>1, <2>1, <2>2, Move DEF Locations
<1>8. /\ stale' = stale /\ partial' = partial \ {Mine(p)} /\ gone' \subseteq gone \cup partial
      /\ UNCHANGED <<now, runs, faults, pruned, killed>>
  BY DEF Commit
<1>9. Young' /\ stale' \subseteq partial'
  BY <1>1, <1>8 DEF TInv, TypeOK, Young, Commit, Goto, Mine, J
<1> QED
  BY <1>9, <1>3, <1>5, <1>6, <1>7, <1>8, TypeParts, TypePrime DEF TInv

\* p is done, or killed, and may have removed its partial file.
LEMMA DoneType ==
    ASSUME TInv, NEW p \in Pid, Fails(p) \/ Return(p) \/ Kill(p)
    PROVE  TInv'
<1>1. /\ pc' \in [Pid -> Locations] /\ job' \in [Pid -> {None} \cup Job]
      /\ \A q \in Pid : JobAt(pc'[q], job'[q])
  BY ExitType DEF Fails, Return, Kill
<1>2. /\ pc' = [pc EXCEPT ![p] = "idle"]
      /\ \A q \in Pid : q # p => job'[q] = job[q] /\ pc'[q] = pc[q]
      /\ stale' = stale
  BY DEF TInv, TypeOK, Fails, Return, Kill, Exit, Goto, dirVars
<1>3. Young'
  BY <1>2 DEF TInv, TypeOK, Young, Mine, J
<1>4. UNCHANGED <<now, disk, pend, runs, pruned>> /\ partial' \subseteq partial
      /\ gone' \subseteq gone \cup partial
  BY DEF Fails, Return, Kill, dirVars
<1>5. faults' \in 0 .. MaxFaults /\ killed' \subseteq Pid
  BY BoundsAssumption DEF BoundsAssumption, TInv, TypeOK, Fails, Return, Kill, Fault, dirVars
<1>6. stale' \subseteq partial'
  <2>1. CASE Fails(p)
    BY <1>2, <2>1 DEF TInv, TypeOK, Young, Fails
  <2>2. CASE Return(p) \/ Kill(p)
    BY <1>2, <2>2 DEF TInv, TypeOK, Return, Kill, dirVars
  <2> QED
    BY <2>1, <2>2
<1> QED
  BY <1>1, <1>3, <1>4, <1>5, <1>6, TypeParts, TypePrime DEF TInv

LEMMA FsyncDirType ==
    ASSUME TInv, NEW p \in Pid, FsyncDir(p)
    PROVE  TInv'
<1>1. pc[p] = "fsync" /\ job[p] \in Job /\ JobAt("fsync", job[p])
  BY JobOf DEF FsyncDir, At
<1>2. /\ pc' \in [Pid -> Locations] /\ job' \in [Pid -> {None} \cup Job]
      /\ \A q \in Pid : JobAt(pc'[q], job'[q])
  <2>1. CASE Goto(p, "list") /\ UNCHANGED job
    <3>1. JobAt("list", job[p]) /\ job' = [job EXCEPT ![p] = job[p]]
      BY <1>1, <2>1 DEF JobAt, TInv
    <3> QED
      BY <1>1, <2>1, <3>1, Move DEF Goto, Locations
  <2>2. CASE Exit(p)
    BY <2>2, ExitType
  <2> QED
    BY <2>1, <2>2 DEF FsyncDir
<1>3. /\ \A q \in Pid : pc'[q] \in {"stream", "verify"} =>
            pc[q] \in {"stream", "verify"} /\ job'[q] = job[q]
      /\ UNCHANGED <<now, disk, partial, stale, runs, faults, pruned, killed>>
      /\ gone' \subseteq gone
  BY DEF TInv, TypeOK, FsyncDir, Exit, Goto
<1>4. Young'
  BY <1>3 DEF TInv, Young, Mine, J
<1>5. /\ pend' \in [File -> SUBSET ({None} \cup Dumps)]
      /\ \A f \in File : disk'[f] \in pend'[f]
  BY <1>3 DEF TInv, TypeOK, Dir, FsyncDir
<1> QED
  BY <1>2, <1>3, <1>4, <1>5, TypeParts, TypePrime DEF TInv

LEMMA ListType ==
    ASSUME TInv, NEW p \in Pid, List(p)
    PROVE  TInv'
<1> DEFINE listed == {f \in File : disk[f] # None /\ Prefixed(J(p).inst, f)}
           j == [job[p] EXCEPT !.todo = DumpsToPrune(J(p).inst, listed, J(p).keep)]
<1>1. pc[p] = "list" /\ job[p] \in Job /\ JobAt("list", job[p])
  BY JobOf DEF List, At
<1>2. DumpsToPrune(J(p).inst, listed, J(p).keep) \in SUBSET File
  BY DEF DumpsToPrune
<1>3. j \in Job /\ JobAt("prune", j) /\ j.file = job[p].file
  <2> HIDE DEF listed
  <2> QED
    BY <1>1, <1>2 DEF Job, JobAt
<1>4. job' = [job EXCEPT ![p] = j] /\ pc' = [pc EXCEPT ![p] = "prune"]
  <2>1. job' = [job EXCEPT ![p].todo = DumpsToPrune(J(p).inst, listed, J(p).keep)]
    BY DEF List
  <2> HIDE DEF listed
  <2> QED
    BY <2>1 DEF TInv, List, Goto
<1> HIDE DEF j, listed
<1>5. /\ pc' \in [Pid -> Locations] /\ job' \in [Pid -> {None} \cup Job]
      /\ \A q \in Pid : JobAt(pc'[q], job'[q])
  BY <1>3, <1>4, Move DEF Locations
<1>6. Young'
  BY <1>4 DEF TInv, TypeOK, Young, List, dirVars, Mine, J
<1> QED
  BY <1>5, <1>6, TypeParts, TypePrime DEF TInv, List, dirVars

LEMMA PruneType ==
    ASSUME TInv, NEW p \in Pid, Prune(p)
    PROVE  TInv'
<1>1. PICK f \in J(p).todo :
        /\ job' = [job EXCEPT ![p].todo = @ \ {f}]
        /\ \/ /\ disk' = [disk EXCEPT ![f] = None]
              /\ pend' = [pend EXCEPT ![f] = @ \cup {None}]
              /\ pruned' = pruned \cup {f}
           \/ UNCHANGED <<disk, pend, pruned>>
  BY DEF Prune
<1> DEFINE j == [job[p] EXCEPT !.todo = @ \ {f}]
<1>2. pc[p] = "prune" /\ job[p] \in Job /\ JobAt("prune", job[p]) /\ f \in File
  BY JobOf DEF Prune, At, J
<1>3. j \in Job /\ JobAt("prune", j)
  BY <1>2 DEF Job, JobAt
<1>4. job' = [job EXCEPT ![p] = j] /\ pc' = [pc EXCEPT ![p] = "prune"]
  BY <1>1, <1>2 DEF TInv, TypeOK, Prune
<1> HIDE DEF j
<1>5. /\ pc' \in [Pid -> Locations] /\ job' \in [Pid -> {None} \cup Job]
      /\ \A q \in Pid : JobAt(pc'[q], job'[q])
  BY <1>3, <1>4, Move DEF Locations
<1>6. UNCHANGED <<now, partial, stale, gone, pc, runs, faults, killed>>
  BY DEF Prune
<1>7. Young'
  BY <1>2, <1>4, <1>6 DEF TInv, TypeOK, Young, Mine, J
<1>8. /\ disk' \in Dir /\ pend' \in [File -> SUBSET ({None} \cup Dumps)]
      /\ \A g \in File : disk'[g] \in pend'[g]
      /\ pruned' \subseteq File
  BY <1>1, <1>2 DEF TInv, TypeOK, Dir
<1> QED
  BY <1>5, <1>6, <1>7, <1>8, TypeParts, TypePrime DEF TInv

LEMMA WorldType ==
    ASSUME TInv, PowerLoss \/ GrowStale \/ Advance
    PROVE  TInv'
<1>1. CASE PowerLoss
  <2>1. /\ disk' \in [File -> UNION {pend[f] : f \in File}]
        /\ \A f \in File : disk'[f] \in pend[f]
        /\ pend' = [f \in File |-> {disk'[f]}]
    BY <1>1 DEF PowerLoss
  <2>2. disk' \in Dir /\ pend' \in [File -> SUBSET ({None} \cup Dumps)]
        /\ \A f \in File : disk'[f] \in pend'[f]
    BY <2>1 DEF TInv, Dir
  <2>3. /\ pc' \in [Pid -> Locations] /\ job' \in [Pid -> {None} \cup Job]
        /\ \A q \in Pid : JobAt(pc'[q], job'[q])
        /\ Young'
    BY <1>1 DEF PowerLoss, NoDump, JobAt, Locations, Young
  <2>4. faults' \in 0 .. MaxFaults
    BY <1>1, BoundsAssumption DEF BoundsAssumption, TInv, TypeOK, PowerLoss, Fault
  <2>5. /\ partial' \cup gone' \subseteq partial \cup gone /\ stale' \subseteq partial'
        /\ killed' = Pid /\ pruned' = {} /\ UNCHANGED <<now, runs>>
    BY <1>1 DEF PowerLoss
  <2> QED
    BY <2>2, <2>3, <2>4, <2>5, TypeParts, TypePrime DEF TInv
<1>2. CASE GrowStale
  <2>1. PICK o \in partial \ (stale \cup Written) : stale' = stale \cup {o}
    BY <1>2 DEF GrowStale
  <2>2. UNCHANGED <<now, disk, pend, partial, gone, pc, job, runs, faults, pruned, killed>>
    BY <1>2 DEF GrowStale
  <2>3. Young'
    BY <2>1, <2>2 DEF TInv, Young, Written, Mine, J
  <2> QED
    BY <2>1, <2>2, <2>3, TypeParts, TypePrime DEF TInv
<1>3. CASE Advance
  <2>1. now' \in Time
    BY <1>3, BoundsAssumption DEF BoundsAssumption, TInv, TypeOK, Time, Advance
  <2>2. UNCHANGED <<disk, pend, partial, stale, gone, pc, job, runs, faults, pruned, killed>>
    BY <1>3 DEF Advance, dirVars
  <2> QED
    BY <2>1, <2>2, TypeParts, TypePrime DEF TInv, Young, Mine, J
<1> QED
  BY <1>1, <1>2, <1>3

LEMMA NextTInv == TInv /\ [Next]_vars => TInv'
<1> SUFFICES ASSUME TInv, [Next]_vars PROVE TInv'
  OBVIOUS
<1>1. CASE UNCHANGED vars
  BY <1>1, TypeParts, TypePrime DEF vars, dirVars, TInv, Young, Mine, J
<1>2. CASE Next
  BY <1>2, BeginType, OpenType, StreamedType, CommitType, DoneType, FsyncDirType, ListType,
     PruneType, WorldType DEF Next, Step
<1> QED
  BY <1>1, <1>2

\* The directory and the commands keep their types.
THEOREM TypeCorrect == Spec => []TypeOK
<1>1. TInv => TypeOK
  BY DEF TInv
<1> QED
  BY <1>1, InitTInv, NextTInv, PTL DEF Spec

-----------------------------------------------------------------------------
(* What a finished name leads to                                           *)

\* A dump between its rename and the flush is there, unless it was pruned since.
CommittedIsThere ==
    \A p \in Pid : pc[p] = "fsync" /\ job[p].file \notin pruned => disk[job[p].file] # None

WInv == AsDelivered /\ FlushedSurvives /\ CommittedIsThere

LEMMA InitWInv == Init => WInv
BY DEF Init, WInv, AsDelivered, FlushedSurvives, CommittedIsThere, File

\* A step that leaves the directory alone, and moves nobody past the rename.
LEMMA DirUntouched ==
    ASSUME TInv, WInv, UNCHANGED <<disk, pend, pruned>>,
           \A p \in Pid : pc'[p] \in {"fsync", "list", "prune"} =>
               /\ pc'[p] = pc[p] \/ (pc[p] = "list" /\ pc'[p] = "prune")
               /\ job'[p].file = job[p].file
    PROVE  WInv'
<1>1. AsDelivered'
  BY DEF WInv, AsDelivered
<1>2. FlushedSurvives' /\ CommittedIsThere'
  BY DEF WInv, FlushedSurvives, CommittedIsThere, J
<1> QED
  BY <1>1, <1>2 DEF WInv

LEMMA CommitWInv ==
    ASSUME TInv, WInv, NEW p \in Pid, Commit(p)
    PROVE  WInv'
<1> DEFINE d == [sent |-> J(p).data, data |-> J(p).data]
           g == job[p].file
<1>1. pc[p] = "verify" /\ job[p] \in Job /\ g \in File /\ job[p].synced
      /\ job[p].data # "none"
  BY JobOf DEF Commit, At, JobAt
<1>2. d \in Dumps /\ d.data = d.sent /\ d.sent # "junk" /\ d # None
  BY <1>1, NamesAssumption DEF NamesAssumption, Commit, Verified, J, Job, Dumps
<1>3. disk' = [disk EXCEPT ![g] = d] /\ pend' = [pend EXCEPT ![g] = @ \cup {d}]
  <2>1. /\ disk' = [disk EXCEPT ![g] = d]
        /\ pend' = [pend EXCEPT ![g] = @ \cup Remains(d, J(p).synced)]
    BY DEF Commit, J
  <2> HIDE DEF d
  <2> QED
    BY <1>1, <2>1 DEF J, Remains
<1>4. UNCHANGED <<job, pruned>> /\ pc' = [pc EXCEPT ![p] = "fsync"]
  BY DEF Commit, Goto
<1> HIDE DEF d, g
<1>5. AsDelivered'
  BY <1>1, <1>2, <1>3 DEF TInv, WInv, AsDelivered
<1>6. FlushedSurvives'
  <2> SUFFICES ASSUME NEW q \in Pid, pc'[q] \in {"list", "prune"}, job'[q].file \notin pruned'
               PROVE  None \notin pend'[job'[q].file]
    BY DEF FlushedSurvives, J
  <2>1. pc[q] = pc'[q] /\ job'[q] = job[q] /\ job[q].file \in File
    BY <1>4, JobOf DEF TInv, TypeOK
  <2>2. None \notin pend[job[q].file]
    BY <1>4, <2>1 DEF WInv, FlushedSurvives, J
  <2> QED
    BY <1>1, <1>2, <1>3, <2>1, <2>2 DEF TInv
<1>7. CommittedIsThere'
  <2> SUFFICES ASSUME NEW q \in Pid, pc'[q] = "fsync", job'[q].file \notin pruned'
               PROVE  disk'[job'[q].file] # None
    BY DEF CommittedIsThere
  <2>1. CASE q = p
    BY <1>1, <1>2, <1>3, <1>4, <2>1 DEF TInv, Dir, g
  <2>2. CASE q # p
    <3>1. pc[q] = "fsync" /\ job'[q] = job[q] /\ job[q].file \in File
      BY <1>4, <2>2, JobOf DEF TInv, TypeOK
    <3>2. disk[job[q].file] # None
      BY <1>4, <3>1 DEF WInv, CommittedIsThere
    <3> QED
      BY <1>1, <1>2, <1>3, <3>1, <3>2 DEF TInv, Dir
  <2> QED
    BY <2>1, <2>2
<1> QED
  BY <1>5, <1>6, <1>7 DEF WInv

LEMMA FsyncDirWInv ==
    ASSUME TInv, WInv, NEW p \in Pid, FsyncDir(p)
    PROVE  WInv'
<1>1. CASE pend' = [f \in File |-> {disk[f]}] /\ Goto(p, "list") /\ UNCHANGED job
  <2>1. UNCHANGED <<disk, pruned, job>> /\ pc' = [pc EXCEPT ![p] = "list"] /\ pc[p] = "fsync"
    BY <1>1 DEF FsyncDir, Goto, At
  <2>2. AsDelivered'
    BY <1>1 DEF TInv, TypeOK, WInv, AsDelivered
  <2>3. FlushedSurvives'
    <3> SUFFICES ASSUME NEW q \in Pid, pc'[q] \in {"list", "prune"}, job[q].file \notin pruned
                 PROVE  None \notin pend'[job[q].file]
      BY <2>1 DEF FlushedSurvives, J
    <3>1. pc[q] \in {"fsync", "list", "prune"} /\ job[q].file \in File
      BY <2>1, JobOf DEF TInv, TypeOK
    <3>2. disk[job[q].file] # None
      <4>1. CASE pc[q] = "fsync"
        BY <4>1 DEF WInv, CommittedIsThere
      <4>2. CASE pc[q] \in {"list", "prune"}
        BY <3>1, <4>2 DEF WInv, FlushedSurvives, J, TInv, TypeOK
      <4> QED
        BY <3>1, <4>1, <4>2
    <3> QED
      BY <1>1, <3>1, <3>2
  <2>4. CommittedIsThere'
    BY <2>1 DEF TInv, TypeOK, WInv, CommittedIsThere
  <2> QED
    BY <2>2, <2>3, <2>4 DEF WInv
<1>2. CASE pend' = pend /\ Exit(p)
  BY <1>2, DirUntouched DEF TInv, TypeOK, FsyncDir, Exit, Goto
<1> QED
  BY <1>1, <1>2 DEF FsyncDir

LEMMA PruneWInv ==
    ASSUME TInv, WInv, NEW p \in Pid, Prune(p)
    PROVE  WInv'
<1>1. PICK f \in J(p).todo :
        /\ job' = [job EXCEPT ![p].todo = @ \ {f}]
        /\ \/ /\ disk' = [disk EXCEPT ![f] = None]
              /\ pend' = [pend EXCEPT ![f] = @ \cup {None}]
              /\ pruned' = pruned \cup {f}
           \/ UNCHANGED <<disk, pend, pruned>>
  BY DEF Prune
<1>2. pc[p] = "prune" /\ job[p] \in Job /\ f \in File /\ UNCHANGED pc
  BY JobOf DEF Prune, At, J
<1>3. \A q \in Pid : job'[q].file = job[q].file
  BY <1>1, <1>2 DEF TInv, Job
<1>4. CASE UNCHANGED <<disk, pend, pruned>>
  BY <1>2, <1>3, <1>4, DirUntouched
<1>5. CASE /\ disk' = [disk EXCEPT ![f] = None]
           /\ pend' = [pend EXCEPT ![f] = @ \cup {None}]
           /\ pruned' = pruned \cup {f}
  <2>1. AsDelivered'
    BY <1>2, <1>5 DEF TInv, WInv, AsDelivered
  <2>2. FlushedSurvives'
    BY <1>2, <1>3, <1>5 DEF TInv, WInv, FlushedSurvives, J
  <2>3. CommittedIsThere'
    BY <1>2, <1>3, <1>5 DEF TInv, WInv, CommittedIsThere
  <2> QED
    BY <2>1, <2>2, <2>3 DEF WInv
<1> QED
  BY <1>1, <1>4, <1>5

LEMMA PowerLossWInv ==
    ASSUME TInv, WInv, PowerLoss
    PROVE  WInv'
<1>1. /\ \A f \in File : disk'[f] \in pend[f]
      /\ pend' = [f \in File |-> {disk'[f]}]
      /\ pc' = [p \in Pid |-> "idle"]
  BY DEF PowerLoss
<1>2. AsDelivered'
  BY <1>1 DEF WInv, AsDelivered
<1>3. FlushedSurvives' /\ CommittedIsThere'
  BY <1>1 DEF FlushedSurvives, CommittedIsThere
<1> QED
  BY <1>2, <1>3 DEF WInv

LEMMA NextWInv ==
    ASSUME TInv, WInv, [Next]_vars
    PROVE  WInv'
<1>0. pc \in [Pid -> Locations] /\ job \in [Pid -> {None} \cup Job]
  BY TypeParts DEF TInv
<1>1. CASE UNCHANGED vars \/ GrowStale \/ Advance
  <2>1. UNCHANGED <<disk, pend, pruned, pc, job>>
    BY <1>1 DEF vars, dirVars, GrowStale, Advance
  <2> QED
    BY <2>1, DirUntouched
<1>2. ASSUME NEW p \in Pid,
             \/ Begin(p) \/ Open(p) \/ Streamed(p) \/ Fails(p) \/ Return(p) \/ Kill(p)
      PROVE  WInv'
  <2>1. UNCHANGED <<disk, pend, pruned>>
    BY <1>2 DEF Begin, Open, Streamed, Fails, Return, Kill, dirVars
  <2>2. /\ pc'[p] \in {"open", "stream", "verify", "idle"}
        /\ \A q \in Pid \ {p} : pc'[q] = pc[q] /\ job'[q] = job[q]
    BY <1>0, <1>2 DEF Begin, Open, Streamed, Fails, Return, Kill, Goto, Exit
  <2> QED
    BY <2>1, <2>2, DirUntouched
<1>3. ASSUME NEW p \in Pid, List(p)
      PROVE  WInv'
  <2> DEFINE t == DumpsToPrune(J(p).inst, {f \in File : disk[f] # None /\ Prefixed(J(p).inst, f)},
                               J(p).keep)
  <2>1. /\ job' = [job EXCEPT ![p].todo = t] /\ pc' = [pc EXCEPT ![p] = "prune"]
        /\ pc[p] = "list" /\ UNCHANGED <<disk, pend, pruned>>
    BY <1>3 DEF List, Goto, At, dirVars
  <2> HIDE DEF t
  <2>2. job[p] \in Job
    BY <2>1, JobOf
  <2>3. \A q \in Pid : job'[q].file = job[q].file
    BY <1>0, <2>1, <2>2 DEF Job
  <2> QED
    BY <1>0, <2>1, <2>3, DirUntouched
<1> QED
  BY <1>1, <1>2, <1>3, CommitWInv, FsyncDirWInv, PruneWInv, PowerLossWInv DEF Next, Step

LEMMA AlwaysWInv == Spec => []WInv
<1> QED
  BY InitTInv, NextTInv, InitWInv, NextWInv, PTL DEF Spec

\* dump.rs lines 1-2, "crash-safe": whatever a finished name leads to, or may lead
\* to after a power loss, is all that pg_dump delivered, and begins as a dump does.
THEOREM Delivered == Spec => []AsDelivered
<1>1. WInv => AsDelivered
  BY DEF WInv
<1> QED
  BY <1>1, AlwaysWInv, PTL

\* A dump whose command went on to its retention survives a power loss.
THEOREM Flushed == Spec => []FlushedSurvives
<1>1. WInv => FlushedSurvives
  BY DEF WInv
<1> QED
  BY <1>1, AlwaysWInv, PTL

-----------------------------------------------------------------------------
(* Partial files                                                           *)

\* A process that writes no partial file of its own touches no other's.
LEMMA WrittenIs ==
    ASSUME NEW o
    PROVE  o \in Written <=> \E q \in Pid : pc[q] \in {"stream", "verify"} /\ o = <<job[q].file, q>>
BY DEF Written, Mine, J

LEMMA WrittenPrime ==
    ASSUME NEW o
    PROVE  o \in Written' <=>
             \E q \in Pid : pc'[q] \in {"stream", "verify"} /\ o = <<job'[q].file, q>>
BY DEF Written, Mine, J

LEMMA NextPartials ==
    ASSUME TInv, PartialsExplained, [Next]_vars
    PROVE  PartialsExplained'
<1>0. pc \in [Pid -> Locations] /\ job \in [Pid -> {None} \cup Job]
  BY TypeParts DEF TInv
<1>1. CASE UNCHANGED vars \/ GrowStale \/ Advance
  <2>1. UNCHANGED <<partial, pc, job, killed>>
    BY <1>1 DEF vars, dirVars, GrowStale, Advance
  <2> QED
    BY <2>1, WrittenIs, WrittenPrime DEF PartialsExplained
<1>2. CASE PowerLoss
  <2>1. killed' = Pid /\ partial' \subseteq File \X Pid
    BY <1>2 DEF PowerLoss, TInv, TypeOK
  <2> QED
    BY <2>1 DEF PartialsExplained
<1>3. ASSUME NEW p \in Pid, Step(p)
      PROVE  PartialsExplained'
  <2>1. /\ \A q \in Pid \ {p} : pc'[q] = pc[q] /\ job'[q] = job[q]
        /\ killed \subseteq killed'
    <3>1. CASE Begin(p)
      BY <1>0, <3>1 DEF Begin, Goto
    <3>2. CASE Open(p) \/ Streamed(p) \/ Commit(p) \/ Fails(p) \/ FsyncDir(p)
      BY <1>0, <3>2 DEF Open, Streamed, Commit, Fails, FsyncDir, Goto, Exit, dirVars
    <3>3. CASE List(p) \/ Prune(p) \/ Return(p) \/ Kill(p)
      BY <1>0, <3>3 DEF List, Prune, Return, Kill, Goto, Exit, dirVars
    <3> QED
      BY <1>3, <3>1, <3>2, <3>3 DEF Step
  <2>2. SUFFICES ASSUME NEW o \in partial', o[2] \notin killed'
                 PROVE  \E q \in Pid : pc'[q] \in {"stream", "verify"} /\ o = <<job'[q].file, q>>
    BY WrittenPrime DEF PartialsExplained
  <2>3. CASE o \notin partial
    <3>1. o = Mine(p) /\ Goto(p, "stream") /\ UNCHANGED job
      BY <1>3, <2>3 DEF Step, Begin, Open, Streamed, Commit, Fails, FsyncDir, List, Prune,
                        Return, Kill, dirVars
    <3> QED
      BY <1>0, <3>1 DEF Goto, Mine, J
  <2>4. CASE o \in partial
    <3>1. PICK q \in Pid : pc[q] \in {"stream", "verify"} /\ o = <<job[q].file, q>>
      BY <2>1, <2>2, <2>4, WrittenIs DEF PartialsExplained
    <3>2. CASE q # p
      BY <2>1, <3>1, <3>2
    <3>3. CASE q = p
      <4>1. Streamed(p)
        BY <1>3, <2>2, <3>1, <3>3 DEF Step, Begin, Open, Streamed, Commit, Fails, FsyncDir, List,
             Prune, Return, Kill, At, Mine, J, TInv, TypeOK, dirVars
      <4>2. PICK d \in Data :
              job' = [job EXCEPT ![p].data = d, ![p].synced = Synced]
        BY <4>1 DEF Streamed
      <4>3. job[p] \in Job
        BY <3>1, <3>3, JobOf
      <4>4. job'[p].file = job[p].file
        BY <1>0, <4>2, <4>3 DEF Job
      <4>5. pc'[p] = "verify"
        BY <1>0, <4>1 DEF Streamed, Goto
      <4> QED
        BY <3>1, <3>3, <4>4, <4>5
    <3> QED
      BY <3>2, <3>3
  <2> QED
    BY <2>3, <2>4
<1> QED
  BY <1>1, <1>2, <1>3 DEF Next

\* dump.rs PartialGuard: a partial file is being written, or its writer was killed.
THEOREM PartialsAreExplained == Spec => []PartialsExplained
<1>1. Init => PartialsExplained
  BY DEF Init, PartialsExplained
<1> QED
  BY <1>1, InitTInv, NextTInv, NextPartials, PTL DEF Spec

-----------------------------------------------------------------------------
(* Retention                                                               *)

\* A later dump of f's instance is there.
HasLater(f) ==
    /\ f \in File \ {Out}
    /\ \E g \in File \ {Out} : disk[g] # None /\ g.inst = f.inst /\ f.stamp < g.stamp

\* What is to be removed, or was, has a later one.
TodoHasLater == \A p \in Pid : pc[p] = "prune" => \A f \in job[p].todo : HasLater(f)
PrunedHasLater == \A f \in pruned : disk[f] = None => HasLater(f)

\* Names that begin with the same instance's are of that instance.
LEMMA OwnNames ==
    ASSUME Shadow = {}, NEW n, NEW f \in File, Prefixed(n, f)
    PROVE  f \in File \ {Out} /\ f.inst = n
BY DEF Prefixed

\* However many are kept, one that is not has a later one beside it.
LEMMA PruneHasLater ==
    ASSUME Shadow = {}, TInv, NEW n, NEW k \in Keep,
           NEW f \in DumpsToPrune(n, {g \in File : disk[g] # None /\ Prefixed(n, g)}, k)
    PROVE  HasLater(f)
<1> DEFINE files == {g \in File : disk[g] # None /\ Prefixed(n, g)}
           later == {g \in files : Sorts(n, f, g)}
<1>1. k \in Nat /\ k # 0 /\ f \in files /\ Cardinality(later) >= k
  BY BoundsAssumption DEF BoundsAssumption, DumpsToPrune
<1>2. later # {}
  <2> SUFFICES ASSUME later = {} PROVE FALSE
    OBVIOUS
  <2>1. Cardinality(later) = 0
    BY FS_EmptySet
  <2> QED
    BY <1>1, <2>1
<1>3. PICK g \in files : Sorts(n, f, g)
  BY <1>2
<1>4. f \in File \ {Out} /\ f.inst = n /\ g \in File \ {Out} /\ g.inst = n /\ disk[g] # None
  BY <1>1, <1>3, OwnNames
<1> QED
  BY <1>3, <1>4 DEF Sorts, HasLater

\* A dump that a step writes over or adds removes nothing's later one.
LEMMA LaterStays ==
    ASSUME NEW f, HasLater(f), \A g \in File : disk[g] # None => disk'[g] # None
    PROVE  HasLater(f)'
BY DEF HasLater

\* Removing a dump that has a later one leaves all others theirs.
LEMMA LaterOfLater ==
    ASSUME TInv, NEW f, HasLater(f), NEW g \in File, HasLater(g),
           disk' = [disk EXCEPT ![g] = None]
    PROVE  HasLater(f)'
<1>1. PICK h \in File \ {Out} : disk[h] # None /\ h.inst = f.inst /\ f.stamp < h.stamp
  BY DEF HasLater
<1>2. \A e \in File \ {Out} : e.inst \in Inst /\ e.stamp \in Nat
  BY BoundsAssumption DEF BoundsAssumption, File, Time
<1>3. CASE h # g
  BY <1>1, <1>3 DEF HasLater, TInv, Dir
<1>4. CASE h = g
  <2>1. PICK e \in File \ {Out} : disk[e] # None /\ e.inst = g.inst /\ g.stamp < e.stamp
    BY DEF HasLater
  <2>2. e # g /\ f.stamp < e.stamp /\ f \in File \ {Out}
    BY <1>1, <1>2, <1>4, <2>1 DEF HasLater
  <2> QED
    BY <1>1, <1>4, <2>1, <2>2 DEF HasLater, TInv, Dir
<1> QED
  BY <1>3, <1>4

RInv == TodoHasLater /\ PrunedHasLater

LEMMA QuietRetention ==
    ASSUME TInv, RInv, UNCHANGED pruned,
           \A g \in File : disk[g] # None => disk'[g] # None,
           \A p \in Pid : pc'[p] = "prune" => pc[p] = "prune" /\ job'[p].todo \subseteq job[p].todo
    PROVE  RInv'
<1>1. \A f : HasLater(f) => HasLater(f)'
  BY LaterStays
<1>2. TodoHasLater'
  BY <1>1 DEF RInv, TodoHasLater
<1>3. PrunedHasLater'
  BY <1>1 DEF RInv, PrunedHasLater, TInv, TypeOK
<1> QED
  BY <1>2, <1>3 DEF RInv

LEMMA NextRetention ==
    ASSUME Shadow = {}, TInv, RInv, [Next]_vars
    PROVE  RInv'
<1>0. pc \in [Pid -> Locations] /\ job \in [Pid -> {None} \cup Job]
  BY TypeParts DEF TInv
<1>1. CASE UNCHANGED vars \/ GrowStale \/ Advance
  <2>1. UNCHANGED <<disk, pruned, pc, job>>
    BY <1>1 DEF vars, dirVars, GrowStale, Advance
  <2> QED
    BY <2>1, QuietRetention
<1>2. CASE PowerLoss
  BY <1>2 DEF PowerLoss, RInv, TodoHasLater, PrunedHasLater
<1>3. ASSUME NEW p \in Pid,
             \/ Begin(p) \/ Open(p) \/ Streamed(p) \/ Fails(p) \/ FsyncDir(p)
             \/ Return(p) \/ Kill(p)
      PROVE  RInv'
  <2>1. UNCHANGED <<disk, pruned>>
    BY <1>3 DEF Begin, Open, Streamed, Fails, FsyncDir, Return, Kill, dirVars
  <2>2. /\ pc'[p] # "prune"
        /\ \A q \in Pid \ {p} : pc'[q] = pc[q] /\ job'[q] = job[q]
    BY <1>0, <1>3 DEF Begin, Open, Streamed, Fails, FsyncDir, Return, Kill, Goto, Exit
  <2> QED
    BY <2>1, <2>2, QuietRetention
<1>4. ASSUME NEW p \in Pid, Commit(p)
      PROVE  RInv'
  <2> DEFINE d == [sent |-> J(p).data, data |-> J(p).data]
  <2>1. job[p] \in Job /\ job[p].file \in File
    BY <1>4, JobOf DEF Commit, At
  <2>2. d # None
    BY <1>4, <2>1, JobOf, NamesAssumption DEF NamesAssumption, Commit, At, J, Job, JobAt, Dumps
  <2>3. disk' = [disk EXCEPT ![job[p].file] = d]
    BY <1>4 DEF Commit, J
  <2>4. UNCHANGED <<job, pruned>> /\ pc' = [pc EXCEPT ![p] = "fsync"]
    BY <1>4 DEF Commit, Goto
  <2> HIDE DEF d
  <2>5. \A g \in File : disk[g] # None => disk'[g] # None
    BY <2>1, <2>2, <2>3 DEF TInv, Dir
  <2>6. \A q \in Pid : pc'[q] = "prune" => pc[q] = "prune"
    BY <1>0, <2>4
  <2> QED
    BY <2>4, <2>5, <2>6, QuietRetention
<1>5. ASSUME NEW p \in Pid, List(p)
      PROVE  RInv'
  <2> DEFINE t == DumpsToPrune(J(p).inst, {f \in File : disk[f] # None /\ Prefixed(J(p).inst, f)},
                               J(p).keep)
  <2>1. /\ job' = [job EXCEPT ![p].todo = t] /\ pc' = [pc EXCEPT ![p] = "prune"]
        /\ pc[p] = "list" /\ UNCHANGED <<disk, pruned>>
    BY <1>5 DEF List, Goto, At, dirVars
  <2>2. job[p] \in Job /\ J(p).keep \in Keep
    BY <2>1, JobOf DEF J
  <2>3. \A f \in t : HasLater(f)
    BY <2>2, PruneHasLater
  <2> HIDE DEF t
  <2>4. job'[p].todo = t /\ \A q \in Pid \ {p} : job'[q] = job[q] /\ pc'[q] = pc[q]
    BY <1>0, <2>1, <2>2 DEF Job
  <2>5. \A f : HasLater(f)' <=> HasLater(f)
    BY <2>1 DEF HasLater
  <2> QED
    BY <2>1, <2>3, <2>4, <2>5 DEF RInv, TodoHasLater, PrunedHasLater
<1>6. ASSUME NEW p \in Pid, Prune(p)
      PROVE  RInv'
  <2>1. PICK f \in J(p).todo :
          /\ job' = [job EXCEPT ![p].todo = @ \ {f}]
          /\ \/ /\ disk' = [disk EXCEPT ![f] = None]
                /\ pruned' = pruned \cup {f}
             \/ UNCHANGED <<disk, pruned>>
    BY <1>6 DEF Prune
  <2>2. pc[p] = "prune" /\ job[p] \in Job /\ f \in File /\ UNCHANGED pc /\ HasLater(f)
    BY <1>6, JobOf DEF Prune, At, J, RInv, TodoHasLater
  <2>3. \A q \in Pid : pc'[q] = "prune" => pc[q] = "prune" /\ job'[q].todo \subseteq job[q].todo
    BY <1>0, <2>1, <2>2 DEF Job
  <2>4. CASE UNCHANGED <<disk, pruned>>
    BY <2>3, <2>4, QuietRetention
  <2>5. CASE disk' = [disk EXCEPT ![f] = None] /\ pruned' = pruned \cup {f}
    <3>1. \A g : HasLater(g) => HasLater(g)'
      BY <2>2, <2>5, LaterOfLater
    <3>2. TodoHasLater'
      BY <2>3, <3>1 DEF RInv, TodoHasLater
    <3>3. PrunedHasLater'
      BY <2>2, <2>5, <3>1 DEF RInv, PrunedHasLater, TInv, TypeOK, Dir
    <3> QED
      BY <3>2, <3>3 DEF RInv
  <2> QED
    BY <2>1, <2>4, <2>5
<1> QED
  BY <1>1, <1>2, <1>3, <1>4, <1>5, <1>6 DEF Next, Step

\* dumps_to_prune: as long as no instance's name begins with another one's and a
\* dash, no retention removes the newest dump of an instance, with however many
\* listings at once and however old they are.
THEOREM NewestStays ==
    ASSUME Shadow = {}
    PROVE  Spec => []NewestIsKept
<1>1. Init => RInv
  BY DEF Init, RInv, TodoHasLater, PrunedHasLater
<1>2. TInv /\ RInv => NewestIsKept
  BY DEF TInv, TypeOK, RInv, PrunedHasLater, HasLater, NewestIsKept
<1>3. TInv /\ RInv /\ [Next]_vars => RInv'
  BY NextRetention
<1> QED
  BY <1>1, <1>2, <1>3, InitTInv, NextTInv, PTL DEF Spec

-----------------------------------------------------------------------------
(* One dump at a time                                                      *)

\* No two dumps at once.
Alone == \A p, q \in Pid : pc[p] # "idle" /\ pc[q] # "idle" => p = q
AloneSpec == Init /\ [][Next /\ Alone']_vars

\* What may be in the directory was begun before now, and what is of the
\* instance that p dumps, not after p began.
Known(f) == f \in File \ {Out} /\ pend[f] # {None}
Past == \A f : Known(f) => f.stamp <= now
Latest(p) ==
    J(p).file # Out =>
        /\ J(p).file.inst = J(p).inst /\ J(p).file.stamp <= now
        /\ \A f : Known(f) /\ f.inst = J(p).inst => f.stamp <= J(p).file.stamp
TodoOlder(p) ==
    pc[p] = "prune" => \A f \in J(p).todo :
        f \in File \ {Out} /\ f.inst = J(p).inst /\ (J(p).file # Out => f.stamp < J(p).file.stamp)

OInv == Alone /\ Past /\ \A p \in Pid : pc[p] # "idle" => Latest(p) /\ TodoOlder(p)

LEMMA Times ==
    /\ now \in Nat => now + 1 \in Nat
    /\ \A f \in File \ {Out} : f.inst \in Inst /\ f.stamp \in Nat
BY BoundsAssumption DEF BoundsAssumption, File, Time

\* A step that adds nothing to the directory, and lets dumps go on or stop.
LEMMA QuietOlder ==
    ASSUME TInv, OInv, Alone', now' \in {now, now + 1},
           \A f : Known(f)' => Known(f),
           \A p \in Pid : pc'[p] # "idle" =>
             /\ pc[p] # "idle" /\ job'[p].file = job[p].file /\ job'[p].inst = job[p].inst
             /\ pc'[p] = "prune" => pc[p] = "prune" /\ job'[p].todo \subseteq job[p].todo
    PROVE  OInv'
<1>1. now \in Nat /\ \A f \in File \ {Out} : f.stamp \in Nat
  BY Times, BoundsAssumption DEF TInv, TypeOK, Time, BoundsAssumption
<1>2. Past'
  BY <1>1 DEF OInv, Past, Known
<1>3. ASSUME NEW p \in Pid, pc'[p] # "idle" PROVE Latest(p)' /\ TodoOlder(p)'
  <2>1. Latest(p) /\ TodoOlder(p) /\ J(p).file \in File
    BY <1>3, JobOf DEF OInv, J
  <2>2. Latest(p)'
    BY <1>1, <1>3, <2>1 DEF Latest, J
  <2>3. TodoOlder(p)'
    BY <1>3, <2>1 DEF TodoOlder, J
  <2> QED
    BY <2>2, <2>3
<1> QED
  BY <1>2, <1>3 DEF OInv

LEMMA BeginOlder ==
    ASSUME TInv, OInv, Alone', NEW p \in Pid, Begin(p)
    PROVE  OInv'
<1>1. PICK n, file, j :
        /\ file = [inst |-> n, stamp |-> now] \/ file = Out
        /\ j.inst = n /\ j.file = file /\ job' = [job EXCEPT ![p] = j]
        /\ pc' = [pc EXCEPT ![p] = "open"] /\ UNCHANGED <<now, pend>>
  BY DEF Begin, Goto, dirVars
<1>2. pc \in [Pid -> Locations] /\ job \in [Pid -> {None} \cup Job]
  BY TypeParts DEF TInv
<1>3. \A f : Known(f)' <=> Known(f)
  BY <1>1 DEF Known
<1>4. job'[p] = j /\ pc'[p] = "open" /\ \A q \in Pid : q # p => pc'[q] = "idle"
  BY <1>1, <1>2 DEF Alone
<1>5. now \in Nat
  BY BoundsAssumption DEF TInv, TypeOK, Time, BoundsAssumption
<1>6. Latest(p)'
  <2>1. Past' /\ now' = now
    BY <1>1, <1>3 DEF OInv, Past
  <2>2. file # Out => file.inst = n /\ file.stamp = now
    BY <1>1
  <2> QED
    BY <1>1, <1>4, <1>5, <2>1, <2>2 DEF Latest, Past, J
<1>7. TodoOlder(p)'
  BY <1>4 DEF TodoOlder
<1> QED
  BY <1>1, <1>3, <1>4, <1>6, <1>7 DEF OInv, Past

LEMMA CommitOlder ==
    ASSUME TInv, OInv, Alone', NEW p \in Pid, Commit(p)
    PROVE  OInv'
<1>1. /\ pc[p] = "verify" /\ pc' = [pc EXCEPT ![p] = "fsync"] /\ UNCHANGED <<now, job>>
      /\ \A f \in File : f # J(p).file => pend'[f] = pend[f]
  BY DEF Commit, Goto, At, TInv
<1>2. pc \in [Pid -> Locations] /\ Latest(p) /\ J(p).file \in File /\ now \in Nat
  BY <1>1, JobOf, TypeParts, BoundsAssumption DEF TInv, OInv, J, TypeOK, Time, BoundsAssumption
<1>3. \A f : Known(f)' => Known(f) \/ (f = J(p).file /\ f # Out)
  BY <1>1 DEF Known
<1>4. Past'
  BY <1>1, <1>2, <1>3 DEF OInv, Past, Latest
<1>5. Latest(p)'
  BY <1>1, <1>2, <1>3, Times DEF Latest, J
<1>6. \A q \in Pid : pc'[q] # "idle" => q = p
  BY <1>1, <1>2 DEF Alone
<1>7. pc'[p] = "fsync"
  BY <1>1, <1>2
<1> QED
  BY <1>4, <1>5, <1>6, <1>7 DEF OInv, TodoOlder

LEMMA ListOlder ==
    ASSUME Shadow = {}, TInv, OInv, Alone', NEW p \in Pid, List(p)
    PROVE  OInv'
<1> DEFINE listed == {f \in File : disk[f] # None /\ Prefixed(J(p).inst, f)}
           t == DumpsToPrune(J(p).inst, listed, J(p).keep)
<1>1. /\ job' = [job EXCEPT ![p].todo = t] /\ pc' = [pc EXCEPT ![p] = "prune"]
      /\ pc[p] = "list" /\ UNCHANGED <<now, pend>>
  BY DEF List, Goto, At, dirVars
<1>2. /\ pc \in [Pid -> Locations] /\ job \in [Pid -> {None} \cup Job]
      /\ job[p] \in Job /\ J(p).keep \in Keep /\ Latest(p) /\ J(p).file \in File
  BY <1>1, JobOf, TypeParts DEF TInv, OInv, J
<1>3. ASSUME NEW f \in t
      PROVE  /\ f \in File \ {Out} /\ f.inst = J(p).inst
             /\ J(p).file # Out => f.stamp < J(p).file.stamp
  <2>1. HasLater(f)
    BY <1>2, <1>3, PruneHasLater
  <2>2. f \in listed
    BY <1>3 DEF DumpsToPrune
  <2>3. f \in File \ {Out} /\ f.inst = J(p).inst
    BY <2>2, OwnNames
  <2>4. PICK g \in File \ {Out} : disk[g] # None /\ g.inst = f.inst /\ f.stamp < g.stamp
    BY <2>1 DEF HasLater
  <2>5. Known(g)
    BY <2>4 DEF Known, TInv, TypeOK
  <2>6. J(p).file # Out => g.stamp <= J(p).file.stamp
    BY <1>2, <2>3, <2>4, <2>5 DEF Latest
  <2> QED
    BY <1>2, <2>3, <2>4, <2>6, Times
<1> HIDE DEF t, listed
<1>4. /\ job'[p].todo = t /\ job'[p].file = job[p].file /\ job'[p].inst = job[p].inst
  BY <1>1, <1>2 DEF Job
<1>5. \A q \in Pid : pc'[q] # "idle" => q = p
  BY <1>1, <1>2 DEF Alone
<1>6. \A f : Known(f)' <=> Known(f)
  BY <1>1 DEF Known
<1>7. Latest(p)' /\ TodoOlder(p)'
  BY <1>1, <1>2, <1>3, <1>4, <1>6 DEF Latest, TodoOlder, J
<1> QED
  BY <1>1, <1>5, <1>6, <1>7 DEF OInv, Past

LEMMA NextOlder ==
    ASSUME Shadow = {}, TInv, OInv, [Next /\ Alone']_vars
    PROVE  OInv'
<1>0. /\ pc \in [Pid -> Locations] /\ job \in [Pid -> {None} \cup Job]
      /\ \A f \in File : disk[f] \in pend[f]
  BY TypeParts DEF TInv
<1>1. CASE UNCHANGED vars \/ GrowStale \/ Advance
  <2>1. UNCHANGED <<pend, pc, job>> /\ now' \in {now, now + 1} /\ Alone'
    BY <1>1 DEF vars, dirVars, GrowStale, Advance, Alone, OInv
  <2> QED
    BY <2>1, QuietOlder DEF Known
<1>2. CASE PowerLoss /\ Alone'
  <2>1. /\ \A p \in Pid : pc'[p] = "idle"
        /\ now' = now /\ \A f \in File : pend'[f] = {disk'[f]} /\ disk'[f] \in pend[f]
    BY <1>2 DEF PowerLoss
  <2> QED
    BY <1>2, <2>1, QuietOlder DEF Known
<1>3. ASSUME NEW p \in Pid, Alone',
             \/ Open(p) \/ Streamed(p) \/ Fails(p) \/ FsyncDir(p) \/ Prune(p)
             \/ Return(p) \/ Kill(p)
      PROVE  OInv'
  <2>1. now' = now
    BY <1>3 DEF Open, Streamed, Fails, FsyncDir, Prune, Return, Kill
  <2>2. pc[p] # "idle" /\ (pc'[p] = "prune" => pc[p] = "prune")
    BY <1>0, <1>3 DEF Open, Streamed, Fails, FsyncDir, Prune, Return, Kill, Goto, Exit, At
  <2>3. job[p] \in Job
    BY <2>2, JobOf
  <2>4. /\ \A q \in Pid \ {p} : pc'[q] = pc[q] /\ job'[q] = job[q]
        /\ pc'[p] # "idle" =>
             /\ job'[p].file = job[p].file /\ job'[p].inst = job[p].inst
             /\ job'[p].todo \subseteq job[p].todo
    BY <1>0, <1>3, <2>3
       DEF Open, Streamed, Fails, FsyncDir, Prune, Return, Kill, Goto, Exit, At, Job, Data
  <2>5. \A f \in File : pend'[f] # {None} => pend[f] # {None}
    BY <1>0, <1>3
       DEF Open, Streamed, Fails, FsyncDir, Prune, Return, Kill, dirVars, TInv
  <2> QED
    BY <1>3, <2>1, <2>2, <2>4, <2>5, QuietOlder DEF Known
<1> QED
  BY <1>1, <1>2, <1>3, BeginOlder, CommitOlder, ListOlder DEF Next, Step

\* What a dump that nobody disturbs finds at its path: nothing, or what it was told
\* to replace; then its own dump.
Told(p) == pc[p] \in {"open", "stream", "verify"} => disk[J(p).file] = None \/ J(p).force
There(p) == pc[p] \in {"fsync", "list", "prune"} => disk[J(p).file] # None

\* A step before the rename leaves what the command was told.
LEMMA StepTold ==
    ASSUME TInv, NEW p \in Pid, Told(p), Step(p)
    PROVE  Told(p)'
<1>0. pc \in [Pid -> Locations] /\ job \in [Pid -> {None} \cup Job]
  BY TypeParts DEF TInv
<1>1. CASE Begin(p)
  <2>1. PICK file, f, j :
          /\ disk[file] = None \/ f
          /\ j.file = file /\ j.force = f
          /\ job' = [job EXCEPT ![p] = j] /\ UNCHANGED disk
    BY <1>1 DEF Begin, dirVars
  <2> QED
    BY <1>0, <2>1 DEF Told, J
<1>2. CASE pc'[p] \notin {"open", "stream", "verify"}
  BY <1>2 DEF Told
<1>3. CASE pc'[p] \in {"open", "stream", "verify"} /\ ~Begin(p)
  <2>1. Open(p) \/ Streamed(p)
    BY <1>0, <1>3 DEF Step, Commit, Fails, FsyncDir, List, Prune, Return, Kill, Exit, Goto, At
  <2>2. job[p] \in Job /\ UNCHANGED disk /\ pc[p] \in {"open", "stream"}
    BY <2>1, JobOf DEF Open, Streamed, At, dirVars
  <2>3. job'[p].file = job[p].file /\ job'[p].force = job[p].force
    BY <1>0, <1>3, <2>1, <2>2 DEF Open, Streamed, Exit, Goto, Job, Data
  <2> QED
    BY <2>2, <2>3 DEF Told, J
<1> QED
  BY <1>1, <1>2, <1>3

\* A retention removes other dumps than the one its command made.
LEMMA StepThere ==
    ASSUME TInv, OInv, NEW p \in Pid, There(p), Step(p)
    PROVE  There(p)'
<1>0. pc \in [Pid -> Locations] /\ job \in [Pid -> {None} \cup Job] /\ disk \in Dir
  BY TypeParts DEF TInv
<1>1. CASE Commit(p)
  <2>1. job[p] \in Job /\ job[p].file \in File
    BY <1>1, JobOf DEF Commit, At
  <2>2. [sent |-> J(p).data, data |-> J(p).data] # None
    BY <1>1, <2>1, JobOf, NamesAssumption DEF NamesAssumption, Commit, At, J, Job, JobAt, Dumps
  <2>3. disk' = [disk EXCEPT ![J(p).file] = [sent |-> J(p).data, data |-> J(p).data]]
    BY <1>1 DEF Commit
  <2>4. UNCHANGED job
    BY <1>1 DEF Commit
  <2> QED
    BY <1>0, <2>1, <2>2, <2>3, <2>4 DEF There, J, Dir
<1>2. CASE pc'[p] \notin {"fsync", "list", "prune"}
  BY <1>2 DEF There
<1>3. CASE pc'[p] \in {"list", "prune"} /\ (FsyncDir(p) \/ List(p))
  <2>1. job[p] \in Job /\ UNCHANGED disk /\ pc[p] \in {"fsync", "list"}
    BY <1>3, JobOf DEF FsyncDir, List, At, dirVars
  <2>2. job'[p].file = job[p].file
    BY <1>0, <1>3, <2>1 DEF FsyncDir, List, Exit, Goto, Job
  <2> QED
    BY <2>1, <2>2 DEF There, J
<1>4. CASE Prune(p)
  <2>1. PICK f \in J(p).todo :
          /\ job' = [job EXCEPT ![p].todo = @ \ {f}]
          /\ disk' = [disk EXCEPT ![f] = None] \/ UNCHANGED disk
    BY <1>4 DEF Prune
  <2>2. pc[p] = "prune" /\ job[p] \in Job
    BY <1>4, JobOf DEF Prune, At
  <2>3. f # J(p).file /\ J(p).file \in File
    <3>1. TodoOlder(p) /\ J(p).file \in File
      BY <2>2, JobOf DEF OInv, J
    <3>2. J(p).file # Out => J(p).file.stamp \in Nat
      BY <3>1, Times
    <3> QED
      BY <2>1, <2>2, <3>1, <3>2 DEF TodoOlder
  <2>4. disk'[J(p).file] = disk[J(p).file] /\ job'[p].file = job[p].file
    BY <1>0, <2>1, <2>2, <2>3 DEF Dir, Job
  <2> QED
    BY <2>2, <2>4 DEF There, J
<1> QED
  BY <1>0, <1>1, <1>2, <1>3, <1>4
     DEF Step, Begin, Open, Streamed, Fails, FsyncDir, List, Return, Kill, Exit, Goto

\* What is true of the one dump that is at work is true of all.
LEMMA OnlyOne ==
    ASSUME TInv, Alone, Alone', NEW p \in Pid, Step(p)
    PROVE  \A q \in Pid \ {p} : pc'[q] = "idle"
<1>1. pc[p] # "idle" \/ pc'[p] # "idle"
  BY TypeParts DEF Step, Begin, Open, Streamed, Commit, Fails, FsyncDir, List, Prune, Return, Kill,
                   Goto, At, TInv
<1>2. \A q \in Pid \ {p} : pc'[q] = pc[q]
  BY TypeParts DEF Step, Begin, Open, Streamed, Commit, Fails, FsyncDir, List, Prune, Return, Kill,
                   Goto, Exit, TInv
<1> QED
  BY <1>1, <1>2 DEF Alone

AllTold == \A p \in Pid : Told(p)
AllThere == \A p \in Pid : There(p)

LEMMA QuietPaths ==
    ASSUME PowerLoss \/ GrowStale \/ Advance \/ UNCHANGED vars
    PROVE  (AllTold => AllTold') /\ (AllThere => AllThere')
<1>1. CASE PowerLoss
  BY <1>1 DEF PowerLoss, AllTold, Told, AllThere, There
<1>2. CASE GrowStale \/ Advance \/ UNCHANGED vars
  <2>1. UNCHANGED <<disk, pc, job>>
    BY <1>2 DEF vars, dirVars, GrowStale, Advance
  <2> QED
    BY <2>1 DEF AllTold, Told, AllThere, There, J
<1> QED
  BY <1>1, <1>2

LEMMA NextTold == TInv /\ Alone /\ AllTold /\ [Next /\ Alone']_vars => AllTold'
<1> SUFFICES ASSUME TInv, Alone, AllTold, NEW p \in Pid, Step(p), Alone' PROVE AllTold'
  BY QuietPaths DEF Next
<1> QED
  BY OnlyOne, StepTold DEF AllTold, Told

LEMMA NextThere == TInv /\ OInv /\ AllThere /\ [Next /\ Alone']_vars => AllThere'
<1> SUFFICES ASSUME TInv, OInv, AllThere, NEW p \in Pid, Step(p), Alone' PROVE AllThere'
  BY QuietPaths DEF Next
<1> QED
  BY OnlyOne, StepThere DEF AllThere, There, OInv

LEMMA AlwaysOlder ==
    ASSUME Shadow = {}
    PROVE  AloneSpec => [](TInv /\ OInv)
<1>1. Init => OInv
  BY DEF Init, OInv, Alone, Past, Known
<1>2. TInv /\ OInv /\ [Next /\ Alone']_vars => OInv'
  BY NextOlder
<1>3. TInv /\ [Next /\ Alone']_vars => TInv'
  BY NextTInv
<1> QED
  BY <1>1, <1>2, <1>3, InitTInv, PTL DEF AloneSpec

\* README line 147, "--keep N prunes older dumps for that instance", holds of dumps
\* that do not overlap, as long as no instance's name begins with another one's
\* and a dash: what is removed is of the instance and older than the new dump.
THEOREM PrunesAsDocumented ==
    ASSUME Shadow = {}
    PROVE  AloneSpec => PrunesOwnOlder
<1>1. OInv /\ [Next /\ Alone']_vars =>
        [\A p \in Pid, f \in File :
            At(p, "prune") /\ pc'[p] = "prune" /\ f \in J(p).todo \ J(p)'.todo
              /\ disk'[f] # disk[f]
            => f.inst = J(p).inst /\ (J(p).file # Out => f.stamp < J(p).file.stamp)]_vars
  BY DEF OInv, TodoOlder, At
<1> QED
  BY <1>1, AlwaysOlder, PTL DEF AloneSpec, PrunesOwnOlder

\* "pass --force to overwrite": of dumps that do not overlap, only one that was
\* given --force replaces another, whatever the names and through any faults.
THEOREM ReplacesWhenTold == AloneSpec => NoSilentOverwrite
<1>1. Init => AllTold /\ Alone
  BY DEF Init, AllTold, Told, Alone
<1>2. TInv /\ [Next /\ Alone']_vars => TInv'
  BY NextTInv
<1>3. Alone /\ [Next /\ Alone']_vars => Alone'
  BY DEF Alone, vars
<1>4. AllTold /\ [Next /\ Alone']_vars =>
        [\A p \in Pid : At(p, "verify") /\ pc'[p] = "fsync" =>
            disk[J(p).file] = None \/ J(p).force]_vars
  BY DEF AllTold, Told, At
<1> QED
  BY <1>1, <1>2, <1>3, <1>4, InitTInv, NextTold, PTL DEF AloneSpec, NoSilentOverwrite

\* cli.rs, the path on stdout: of dumps that do not overlap, and with such names,
\* what a command prints is there, whatever number is kept.
THEOREM PrintsWhatIsThere ==
    ASSUME Shadow = {}
    PROVE  AloneSpec => []PrintedPathExists
<1>1. Init => AllThere
  BY DEF Init, AllThere, There
<1>2. AllThere => PrintedPathExists
  BY DEF AllThere, There, PrintedPathExists, At
<1> QED
  BY <1>1, <1>2, AlwaysOlder, NextThere, PTL DEF AloneSpec
=============================================================================
