-------------------------- MODULE StateStoreProofs --------------------------
(***************************************************************************)
(* Proofs about StateStore, for any number of processes, instances, fields *)
(* and labels: type correctness, the inductive invariant IInv, the two     *)
(* crash properties that follow from it, the refinement of AtomicStore, and*)
(* that a claimed snapshot is a recorded one.                              *)
(***************************************************************************)
EXTENDS StateStore, TLAPS

-----------------------------------------------------------------------------
(* Operators                                                               *)

LEMMA ApplyType ==
    ASSUME NEW e \in Edit, NEW c \in Content
    PROVE  Apply(e, c) \in Content
<1>1. PICK D \in SUBSET Field : e \in [D -> Value]
  BY DEF Edit
<1>2. ASSUME NEW f \in Field
      PROVE  (IF f \in DOMAIN e THEN e[f] ELSE c[f]) \in Value
  BY <1>1 DEF Content
<1> QED
  BY <1>2 DEF Apply, Content

\* An edit shows in the content it was applied to.
LEMMA ApplyShows ==
    ASSUME NEW e \in Edit, NEW c
    PROVE  \A f \in DOMAIN e : Apply(e, c)[f] = e[f]
<1>1. PICK D \in SUBSET Field : e \in [D -> Value]
  BY DEF Edit
<1> QED
  BY <1>1 DEF Apply

LEMMA NoJobType == NoJob \in Jobs /\ NoJob \in Job
  BY JobsAssumption DEF NoJob

LEMMA JobType ==
    ASSUME TypeOK, NEW p \in Proc
    PROVE  /\ job[p] \in Job /\ job[p].inst \in Inst
           /\ job[p].edit \in Edit /\ job[p].label \in Label
           /\ job[p].op = "save" => job[p].edit \in Content
  BY JobsAssumption DEF TypeOK, Job

LEMMA BytesOf ==
    /\ Bytes("state") = {NoFile, Torn} \cup Content
    /\ Bytes("snaps") = {NoFile, Torn} \cup SUBSET Label
  BY DEF Bytes

LEMMA ViewExcept ==
    ASSUME NEW v \in View, NEW f \in Files, NEW b \in Bytes(f)
    PROVE  [v EXCEPT ![f] = b] \in View
<1>1. CASE f = "state"
  <2>1. b \in Bytes("state")
    BY <1>1
  <2>2. [v EXCEPT !["state"] = b] \in View
    BY <2>1 DEF View
  <2> QED
    BY <1>1, <2>2
<1>2. CASE f = "snaps"
  <2>1. b \in Bytes("snaps")
    BY <1>2
  <2>2. [v EXCEPT !["snaps"] = b] \in View
    BY <2>1 DEF View
  <2> QED
    BY <1>2, <2>2
<1> QED
  BY <1>1, <1>2 DEF Files

LEMMA EntriesExcept ==
    ASSUME NEW d \in Entries, NEW f \in Files, NEW B \in SUBSET Bytes(f)
    PROVE  [d EXCEPT ![f] = B] \in Entries /\ d[f] \in SUBSET Bytes(f)
<1>1. CASE f = "state"
  <2>1. B \in SUBSET Bytes("state")
    BY <1>1
  <2>2. [d EXCEPT !["state"] = B] \in Entries
    BY <2>1 DEF Entries
  <2> QED
    BY <1>1, <2>2 DEF Entries
<1>2. CASE f = "snaps"
  <2>1. B \in SUBSET Bytes("snaps")
    BY <1>2
  <2>2. [d EXCEPT !["snaps"] = B] \in Entries
    BY <2>1 DEF Entries
  <2> QED
    BY <1>2, <2>2 DEF Entries
<1> QED
  BY <1>1, <1>2 DEF Files

LEMMA GoneType == Gone \in View /\ Gone.state = NoFile /\ Gone.snaps = NoFile
  BY BytesOf DEF Gone, View

LEMMA SurvivorsType ==
    ASSUME TypeOK, NEW i \in Inst
    PROVE  Survivors(i) \subseteq View
<1>1. pend[i].state \subseteq Bytes("state") /\ pend[i].snaps \subseteq Bytes("snaps")
  BY DEF TypeOK, Entries
<1>2. old[i] \subseteq View
  BY DEF TypeOK
<1> QED
  BY <1>1, <1>2 DEF Survivors, View

-----------------------------------------------------------------------------
(* Type correctness                                                        *)

LEMMA ReleaseType ==
    ASSUME TypeOK, NEW p \in Proc, Release(p), UNCHANGED diskVars
    PROVE  TypeOK'
  BY NoJobType, BytesOf DEF TypeOK, Release, diskVars, NoTmp, Files

LEMMA WriteType ==
    ASSUME TypeOK, NEW p \in Proc, NEW f \in Files, NEW b \in Bytes(f), Write(p, f, b)
    PROVE  TypeOK'
  BY BytesOf DEF TypeOK, Write, diskVars, NoTmp, Files, Critical, Writing

LEMMA LoadAndEditType ==
    ASSUME TypeOK, NEW p \in Proc, LoadAndEdit(p)
    PROVE  TypeOK'
<1> DEFINE c == disk[job[p].inst].state
<1>1. job[p] \in Job /\ c \in Bytes("state") /\ c \notin {NoFile, Torn}
  BY JobType DEF TypeOK, View, LoadAndEdit
<1>2. Apply(job[p].edit, c) \in Bytes("state")
  BY <1>1, ApplyType, BytesOf DEF Job
<1>3. Write(p, "state", Apply(job[p].edit, c))
  BY DEF LoadAndEdit
<1> QED
  BY <1>2, <1>3, WriteType DEF Files

LEMMA TypeStep == TypeOK /\ [Next]_vars => TypeOK'
<1> SUFFICES ASSUME TypeOK, [Next]_vars PROVE TypeOK'
  OBVIOUS
<1>1. CASE UNCHANGED vars
  BY <1>1 DEF TypeOK, vars
<1>2. ASSUME NEW p \in Proc, Start(p) \/ Acquire(p) PROVE TypeOK'
  <2>1. CASE Start(p)
    BY <2>1, JobsAssumption DEF TypeOK, Start, diskVars
  <2>2. CASE Acquire(p)
    BY <2>2 DEF TypeOK, Acquire, diskVars, Critical
  <2> QED
    BY <1>2, <2>1, <2>2
<1>3. ASSUME NEW p \in Proc, Abort(p) \/ Finish(p) PROVE TypeOK'
  BY <1>3, ReleaseType DEF Abort, Finish
<1>4. ASSUME NEW p \in Proc, BeginUpdate(p) \/ Reload(p) PROVE TypeOK'
  BY <1>4, LoadAndEditType DEF BeginUpdate, Reload
<1>5. ASSUME NEW p \in Proc, BeginSave(p) PROVE TypeOK'
  <2>1. job[p].edit \in Content
    BY <1>5, JobType DEF BeginSave
  <2> QED
    BY <1>5, <2>1, WriteType, BytesOf DEF BeginSave, Files
<1>6. ASSUME NEW p \in Proc, BeginSnapshot(p) PROVE TypeOK'
  <2> DEFINE v == disk[job[p].inst]
  <2>1. job[p] \in Job /\ v \in View /\ v.snaps # Torn
    BY <1>6, JobType DEF TypeOK, BeginSnapshot
  <2>2. LabelsOf(v) \cup {job[p].label} \in Bytes("snaps")
    BY <2>1, BytesOf DEF LabelsOf, View, Job
  <2> QED
    BY <1>6, <2>2, WriteType DEF BeginSnapshot, Files
<1>7. ASSUME NEW p \in Proc, CreateTmp(p) \/ WriteTmp(p) \/ SyncTmp(p) PROVE TypeOK'
  <2>1. CASE CreateTmp(p)
    BY <2>1, BytesOf DEF TypeOK, CreateTmp, diskVars, Critical, Writing, Files
  <2>2. CASE WriteTmp(p)
    BY <2>2, BytesOf DEF TypeOK, WriteTmp, diskVars, Critical, Writing, Files
  <2>3. CASE SyncTmp(p)
    <3>1. tmp[p] \in [data: Bytes(target[p]), synced: BOOLEAN]
      BY DEF TypeOK
    <3>2. [tmp[p] EXCEPT !.synced = TRUE] \in [data: Bytes(target[p]), synced: BOOLEAN]
      BY <3>1
    <3>3. tmp' = [tmp EXCEPT ![p] = [tmp[p] EXCEPT !.synced = TRUE]]
      BY <2>3 DEF SyncTmp
    <3> HIDE <2>3
    <3>4. /\ tmp' = [q \in Proc |-> tmp'[q]]
          /\ \A q \in Proc : tmp'[q] \in [data: Bytes(target[q]), synced: BOOLEAN]
      BY <3>2, <3>3 DEF TypeOK
    <3> QED
      BY <2>3, <3>4 DEF TypeOK, SyncTmp, diskVars, Critical, Writing
  <2> QED
    BY <1>7, <2>1, <2>2, <2>3
<1>8. ASSUME NEW p \in Proc, Rename(p) PROVE TypeOK'
  <2>1. job[p].inst \in Inst /\ target[p] \in Files /\ tmp[p].data \in Bytes(target[p])
    BY JobType DEF TypeOK
  <2>2. disk' \in [Inst -> View]
    <3>1. disk' = [disk EXCEPT ![job[p].inst] =
                      [disk[job[p].inst] EXCEPT ![target[p]] = tmp[p].data]]
      BY <1>8, <2>1 DEF Rename
    <3>2. [disk[job[p].inst] EXCEPT ![target[p]] = tmp[p].data] \in View
      BY <2>1, ViewExcept DEF TypeOK
    <3> QED
      BY <2>1, <3>1, <3>2 DEF TypeOK
  <2>3. pend' \in [Inst -> Entries]
    <3> DEFINE d == pend[job[p].inst]
               B == d[target[p]] \cup {tmp[p].data}
                      \cup (IF tmp[p].synced THEN {} ELSE {Torn})
    <3>1. pend' = [pend EXCEPT ![job[p].inst] = [d EXCEPT ![target[p]] = B]]
      BY <1>8, <2>1 DEF Rename
    <3>2. d \in Entries
      BY <2>1 DEF TypeOK
    <3>3. d[target[p]] \in SUBSET Bytes(target[p])
      BY <2>1, <3>2, EntriesExcept
    <3>4. B \in SUBSET Bytes(target[p])
      BY <2>1, <3>3 DEF Bytes
    <3>5. [d EXCEPT ![target[p]] = B] \in Entries
      BY <2>1, <3>2, <3>4, EntriesExcept
    <3> QED
      BY <2>1, <3>1, <3>5 DEF TypeOK
  <2> QED
    BY <1>8, <2>2, <2>3 DEF TypeOK, Rename, Critical
<1>9. ASSUME NEW p \in Proc, FsyncDir(p) PROVE TypeOK'
  BY <1>9, JobType DEF TypeOK, FsyncDir, Critical, Only, View, Entries
<1>10. ASSUME NEW p \in Proc, BeginDestroy(p) \/ RemoveConf(p) PROVE TypeOK'
  BY <1>10 DEF TypeOK, BeginDestroy, RemoveConf, diskVars, Critical
<1>11. ASSUME NEW p \in Proc, RemoveFile(p) PROVE TypeOK'
  <2>1. PICK f \in Files :
          /\ disk' = [disk EXCEPT ![job[p].inst][f] = NoFile]
          /\ pend' = [pend EXCEPT ![job[p].inst][f] = @ \cup {NoFile}]
    BY <1>11 DEF RemoveFile
  <2>2. job[p].inst \in Inst
    BY JobType
  <2>3. NoFile \in Bytes("state") /\ NoFile \in Bytes("snaps")
    BY BytesOf
  <2>4. disk' \in [Inst -> View]
    <3>1. disk' = [disk EXCEPT ![job[p].inst] = [disk[job[p].inst] EXCEPT ![f] = NoFile]]
      BY <2>1, <2>2
    <3>2. [disk[job[p].inst] EXCEPT ![f] = NoFile] \in View
      BY <2>2, <2>3, ViewExcept DEF TypeOK, Files
    <3> QED
      BY <2>2, <3>1, <3>2 DEF TypeOK
  <2>5. pend' \in [Inst -> Entries]
    <3> DEFINE d == pend[job[p].inst]
               B == d[f] \cup {NoFile}
    <3>1. pend' = [pend EXCEPT ![job[p].inst] = [d EXCEPT ![f] = B]]
      BY <2>1, <2>2
    <3>2. d \in Entries
      BY <2>2 DEF TypeOK
    <3>3. B \in SUBSET Bytes(f)
      BY <2>3, <3>2, EntriesExcept DEF Files
    <3>4. [d EXCEPT ![f] = B] \in Entries
      BY <3>2, <3>3, EntriesExcept
    <3> QED
      BY <2>2, <3>1, <3>4 DEF TypeOK
  <2> QED
    BY <1>11, <2>4, <2>5 DEF TypeOK, RemoveFile, Critical
<1>12. ASSUME NEW p \in Proc, RemoveDir(p) PROVE TypeOK'
  <2>1. job[p].inst \in Inst
    BY JobType
  <2>2. Survivors(job[p].inst) \cup {Gone} \subseteq View
    BY <2>1, SurvivorsType, GoneType
  <2> QED
    BY <1>12, <2>1, <2>2, BytesOf DEF TypeOK, RemoveDir, Critical, Only, Gone, Entries
<1>13. ASSUME NEW i \in Inst, Writeback(i) PROVE TypeOK'
  BY <1>13, GoneType DEF TypeOK, Writeback, procVars, Only, View, Entries
<1>14. CASE PowerLoss
  <2>1. \A i \in Inst : disk'[i] \in View
    BY <1>14, SurvivorsType DEF PowerLoss
  <2>2. disk' \in [Inst -> View]
    BY <1>14, <2>1 DEF PowerLoss
  <2> QED
    BY <1>14, <2>2, GoneType, NoJobType, BytesOf
       DEF TypeOK, PowerLoss, Only, View, Entries, NoTmp, Files
<1> QED
  BY <1>1, <1>2, <1>3, <1>4, <1>5, <1>6, <1>7, <1>8, <1>9, <1>10, <1>11, <1>12,
     <1>13, <1>14 DEF Next, Work

-----------------------------------------------------------------------------
(* The lock                                                                *)

LEMMA LockStep == TypeOK /\ HoldsLock /\ [Next]_vars => HoldsLock'
<1> SUFFICES ASSUME TypeOK, HoldsLock, [Next]_vars PROVE HoldsLock'
  OBVIOUS
<1> USE DEF HoldsLock, TypeOK
<1>1. CASE UNCHANGED vars
  BY <1>1 DEF vars
<1>2. ASSUME NEW p \in Proc, Start(p) PROVE HoldsLock'
  BY <1>2 DEF Start, Critical, Writing
<1>3. ASSUME NEW p \in Proc, Acquire(p) PROVE HoldsLock'
  BY <1>3, ModelValuesAssumption DEF Acquire
<1>4. ASSUME NEW p \in Proc, Abort(p) \/ Finish(p) PROVE HoldsLock'
  BY <1>4 DEF Abort, Finish, Release, Critical, Writing
<1>5. ASSUME NEW p \in Proc, Work(p) PROVE HoldsLock'
  BY <1>4, <1>5 DEF Work, BeginUpdate, BeginSave, BeginSnapshot, Reload, LoadAndEdit,
     Write, CreateTmp, WriteTmp, SyncTmp, Rename, FsyncDir, BeginDestroy, RemoveConf,
     RemoveFile, RemoveDir, Critical, Writing
<1>6. CASE (\E i \in Inst : Writeback(i)) \/ PowerLoss
  BY <1>6 DEF Writeback, PowerLoss, procVars, Critical, Writing
<1> QED
  BY <1>1, <1>2, <1>3, <1>4, <1>5, <1>6 DEF Next

\* While p is in its critical section nobody else is.
LEMMA Alone ==
    ASSUME HoldsLock, NEW p \in Proc, NEW q \in Proc, p # q, pc[p] \in Critical
    PROVE  pc[q] \notin Critical
  BY DEF HoldsLock

LEMMA Vacuous ==
    ASSUME NEW p \in Proc, pc[p] \notin Critical
    PROVE  StageOf(p)
  BY DEF StageOf, Critical, Writing

LEMMA VacuousNext ==
    ASSUME NEW p \in Proc, pc'[p] \notin Critical
    PROVE  StageOf(p)'
  BY DEF StageOf, Critical, Writing

-----------------------------------------------------------------------------
(* The bytes a writer publishes                                            *)

LEMMA DiskWhole ==
    ASSUME TypeOK, FilesWhole, NEW i \in Inst
    PROVE  /\ disk[i].state \in {NoFile} \cup Content
           /\ disk[i].snaps \in {NoFile} \cup SUBSET Label
           /\ disk[i].state # Torn /\ disk[i].snaps # Torn
  BY BytesOf, ModelValuesAssumption DEF TypeOK, FilesWhole, View

LEMMA WriterWhole ==
    ASSUME TypeOK, FilesWhole, NEW p \in Proc, Current(p)
    PROVE  /\ target[p] = "state" => buf[p] \in Content
           /\ target[p] = "snaps" => buf[p] \in SUBSET Label
           /\ buf[p] # NoFile /\ buf[p] # Torn
<1> DEFINE v == disk[job[p].inst]
<1>1. v.state \in {NoFile} \cup Content /\ v.snaps \in {NoFile} \cup SUBSET Label
  BY JobType, DiskWhole
<1>2. CASE target[p] = "snaps"
  <2>1. buf[p] = LabelsOf(v) \cup {job[p].label}
    BY <1>2 DEF Current
  <2>2. LabelsOf(v) \in SUBSET Label
    BY <1>1 DEF LabelsOf
  <2> QED
    BY <1>2, <2>1, <2>2, JobType, ModelValuesAssumption
<1>3. CASE target[p] = "state"
  <2>1. CASE job[p].op = "save" /\ buf[p] = job[p].edit
    BY <1>3, <2>1, JobType, ModelValuesAssumption
  <2>2. CASE v.state # NoFile /\ buf[p] = Apply(job[p].edit, v.state)
    BY <1>1, <1>3, <2>2, JobType, ApplyType, ModelValuesAssumption
  <2> QED
    BY <1>3, <2>1, <2>2 DEF Current
<1> QED
  BY <1>2, <1>3 DEF TypeOK, Files

-----------------------------------------------------------------------------
(* FilesWhole is preserved                                                 *)

\* FilesWhole of one instance, and what it says of the survivors.
FilesWholeAt(i) ==
    /\ \A v \in old[i] : v.state # Torn /\ v.snaps # Torn
    /\ Torn \notin pend[i].state /\ Torn \notin pend[i].snaps
    /\ disk[i].state \in pend[i].state /\ disk[i].snaps \in pend[i].snaps

LEMMA FilesWholeSplit == FilesWhole <=> \A i \in Inst : FilesWholeAt(i)
  BY DEF FilesWhole, FilesWholeAt

LEMMA SurvivorsWhole ==
    ASSUME FilesWhole, NEW i \in Inst, NEW v \in Survivors(i)
    PROVE  v.state # Torn /\ v.snaps # Torn
  BY DEF FilesWhole, Survivors

LEMMA OnlyWhole ==
    ASSUME NEW v \in View, v.state # Torn, v.snaps # Torn
    PROVE  /\ Torn \notin Only(v).state /\ Torn \notin Only(v).snaps
           /\ v.state \in Only(v).state /\ v.snaps \in Only(v).snaps
  BY DEF Only

LEMMA GoneWhole == Gone.state # Torn /\ Gone.snaps # Torn
  BY ModelValuesAssumption DEF Gone

\* The entry f of instance i changes to b.
LEMMA EntryStep ==
    ASSUME TypeOK, FilesWhole, NEW i \in Inst, NEW f \in Files, NEW b \in Bytes(f), b # Torn,
           disk' = [disk EXCEPT ![i][f] = b],
           pend' = [pend EXCEPT ![i][f] = @ \cup {b}],
           UNCHANGED old
    PROVE  FilesWhole'
<1> SUFFICES ASSUME NEW j \in Inst PROVE FilesWholeAt(j)'
  BY DEF FilesWhole, FilesWholeAt
<1>1. CASE j # i
  BY <1>1 DEF FilesWhole, FilesWholeAt, TypeOK
<1>2. CASE j = i /\ f = "state"
  <2>1. disk'[i].state = b /\ disk'[i].snaps = disk[i].snaps
    BY <1>2 DEF TypeOK, View
  <2>2. pend'[i].state = pend[i].state \cup {b} /\ pend'[i].snaps = pend[i].snaps
    BY <1>2 DEF TypeOK, Entries
  <2> QED
    BY <1>2, <2>1, <2>2 DEF FilesWhole, FilesWholeAt
<1>3. CASE j = i /\ f = "snaps"
  <2>1. disk'[i].snaps = b /\ disk'[i].state = disk[i].state
    BY <1>3 DEF TypeOK, View
  <2>2. pend'[i].snaps = pend[i].snaps \cup {b} /\ pend'[i].state = pend[i].state
    BY <1>3 DEF TypeOK, Entries
  <2> QED
    BY <1>3, <2>1, <2>2 DEF FilesWhole, FilesWholeAt
<1> QED
  BY <1>1, <1>2, <1>3 DEF Files

LEMMA RenameEntry ==
    ASSUME TypeOK, FilesWhole, Stages, NEW p \in Proc, Rename(p)
    PROVE  /\ Current(p) /\ tmp[p].data = buf[p]
           /\ buf[p] \in Bytes(target[p]) /\ buf[p] # Torn /\ buf[p] # NoFile
           /\ disk' = [disk EXCEPT ![job[p].inst][target[p]] = buf[p]]
           /\ pend' = [pend EXCEPT ![job[p].inst][target[p]] = @ \cup {buf[p]}]
           /\ UNCHANGED old
<1>1. Current(p) /\ tmp[p].data = buf[p] /\ tmp[p].synced
  BY DEF Stages, StageOf, Rename, Writing
<1>2. buf[p] \in Bytes(target[p]) /\ buf[p] # Torn /\ buf[p] # NoFile
  BY <1>1, WriterWhole DEF TypeOK
<1>3. pend' = [pend EXCEPT ![job[p].inst][target[p]] = @ \cup {buf[p]} \cup {}]
  BY <1>1 DEF Rename
<1>4. pend' = [pend EXCEPT ![job[p].inst][target[p]] = @ \cup {buf[p]}]
  BY <1>3
<1> QED
  BY <1>1, <1>2, <1>4 DEF Rename

LEMMA FilesStep == TypeOK /\ FilesWhole /\ Stages /\ [Next]_vars => FilesWhole'
<1> SUFFICES ASSUME TypeOK, FilesWhole, Stages, [Next]_vars PROVE FilesWhole'
  OBVIOUS
<1>1. ASSUME UNCHANGED diskVars PROVE FilesWhole'
  BY <1>1 DEF FilesWhole, diskVars
<1>2. ASSUME NEW p \in Proc, Rename(p) PROVE FilesWhole'
  <2>1. job[p].inst \in Inst /\ target[p] \in Files
    BY JobType DEF TypeOK
  <2>2. /\ buf[p] \in Bytes(target[p]) /\ buf[p] # Torn
        /\ disk' = [disk EXCEPT ![job[p].inst][target[p]] = buf[p]]
        /\ pend' = [pend EXCEPT ![job[p].inst][target[p]] = @ \cup {buf[p]}]
        /\ UNCHANGED old
    BY <1>2, RenameEntry
  <2> QED
    BY <2>1, <2>2, EntryStep
<1>3. ASSUME NEW p \in Proc, RemoveFile(p) PROVE FilesWhole'
  <2>1. PICK f \in Files :
          /\ disk' = [disk EXCEPT ![job[p].inst][f] = NoFile]
          /\ pend' = [pend EXCEPT ![job[p].inst][f] = @ \cup {NoFile}]
    BY <1>3 DEF RemoveFile
  <2>2. NoFile \in Bytes(f) /\ NoFile # Torn
    BY ModelValuesAssumption DEF Bytes
  <2> QED
    BY <1>3, <2>1, <2>2, EntryStep, JobType DEF RemoveFile
<1>4. ASSUME NEW p \in Proc, FsyncDir(p) PROVE FilesWhole'
  <2> SUFFICES ASSUME NEW j \in Inst PROVE FilesWholeAt(j)'
    BY DEF FilesWhole, FilesWholeAt
  <2>1. pend' = [pend EXCEPT ![job[p].inst] = Only(disk[job[p].inst])] /\ UNCHANGED <<disk, old>>
    BY <1>4 DEF FsyncDir
  <2>2. disk[j] \in View /\ disk[j].state # Torn /\ disk[j].snaps # Torn
    BY DiskWhole DEF TypeOK
  <2> QED
    BY <2>1, <2>2, OnlyWhole DEF FilesWhole, FilesWholeAt, TypeOK
<1>5. ASSUME NEW p \in Proc, RemoveDir(p) PROVE FilesWhole'
  <2> SUFFICES ASSUME NEW j \in Inst PROVE FilesWholeAt(j)'
    BY DEF FilesWhole, FilesWholeAt
  <2>1. CASE j # job[p].inst
    BY <1>5, <2>1 DEF RemoveDir, FilesWhole, FilesWholeAt, TypeOK
  <2>2. CASE j = job[p].inst
    <3>1. old'[j] = Survivors(j) \cup {Gone} /\ pend'[j] = Only(Gone) /\ disk'[j] = Gone
      BY <1>5, <2>2 DEF RemoveDir, TypeOK
    <3> QED
      BY <3>1, SurvivorsWhole, GoneWhole, GoneType, OnlyWhole DEF FilesWholeAt
  <2> QED
    BY <2>1, <2>2
<1>6. ASSUME NEW i \in Inst, Writeback(i) PROVE FilesWhole'
  <2> SUFFICES ASSUME NEW j \in Inst PROVE FilesWholeAt(j)'
    BY DEF FilesWhole, FilesWholeAt
  <2>1. disk[j] \in View /\ disk[j].state # Torn /\ disk[j].snaps # Torn /\ disk' = disk
    BY <1>6, DiskWhole DEF TypeOK, Writeback
  <2>2. CASE j # i
    BY <1>6, <2>2 DEF Writeback, FilesWhole, FilesWholeAt, TypeOK
  <2>3. CASE j = i
    <3>1. pend'[j] = Only(disk[j]) /\ old'[j] \subseteq {Gone}
      BY <1>6, <2>3 DEF Writeback, TypeOK
    <3> QED
      BY <2>1, <3>1, GoneWhole, OnlyWhole DEF FilesWholeAt
  <2> QED
    BY <2>2, <2>3
<1>7. CASE PowerLoss
  <2> SUFFICES ASSUME NEW j \in Inst PROVE FilesWholeAt(j)'
    BY DEF FilesWhole, FilesWholeAt
  <2>1. disk'[j] \in Survivors(j)
    BY <1>7 DEF PowerLoss
  <2>2. disk'[j] \in View /\ disk'[j].state # Torn /\ disk'[j].snaps # Torn
    BY <2>1, SurvivorsType, SurvivorsWhole
  <2>3. pend'[j] = Only(disk'[j]) /\ old'[j] \subseteq {Gone}
    BY <1>7 DEF PowerLoss
  <2> QED
    BY <2>2, <2>3, GoneWhole, OnlyWhole DEF FilesWholeAt
<1>8. ASSUME NEW p \in Proc, Start(p) \/ Acquire(p) \/ Abort(p) PROVE FilesWhole'
  BY <1>1, <1>8 DEF Start, Acquire, Abort
<1>9. ASSUME NEW p \in Proc, Work(p) PROVE FilesWhole'
  <2>1. CASE BeginUpdate(p) \/ BeginSave(p) \/ BeginSnapshot(p) \/ Reload(p)
    BY <1>1, <2>1 DEF BeginUpdate, BeginSave, BeginSnapshot, Reload, LoadAndEdit, Write
  <2>2. CASE CreateTmp(p) \/ WriteTmp(p) \/ SyncTmp(p)
    BY <1>1, <2>2 DEF CreateTmp, WriteTmp, SyncTmp
  <2>3. CASE BeginDestroy(p) \/ RemoveConf(p) \/ Finish(p)
    BY <1>1, <2>3 DEF BeginDestroy, RemoveConf, Finish
  <2> QED
    BY <1>2, <1>3, <1>4, <1>5, <1>9, <2>1, <2>2, <2>3 DEF Work
<1>10. CASE UNCHANGED vars
  BY <1>1, <1>10 DEF vars, diskVars
<1> QED
  BY <1>6, <1>7, <1>8, <1>9, <1>10 DEF Next

-----------------------------------------------------------------------------
(* Stages is preserved                                                     *)

\* A step of p inside its critical section leaves the others' stages alone.
LEMMA OthersStage ==
    ASSUME TypeOK, HoldsLock, NEW p \in Proc, pc[p] \in Critical,
           \A q \in Proc \ {p} : pc'[q] = pc[q],
           StageOf(p)'
    PROVE  Stages'
<1> SUFFICES ASSUME NEW q \in Proc PROVE StageOf(q)'
  BY DEF Stages
<1>1. CASE q = p
  BY <1>1
<1>2. CASE q # p
  BY <1>2, Alone, VacuousNext
<1> QED
  BY <1>1, <1>2

LEMMA WriteStage ==
    ASSUME TypeOK, HoldsLock, NEW p \in Proc, pc[p] \in Critical,
           NEW f \in Files, NEW b, Write(p, f, b), Current(p)'
    PROVE  Stages'
<1>1. pc'[p] = "create_tmp" /\ \A q \in Proc \ {p} : pc'[q] = pc[q]
  BY DEF Write, TypeOK
<1>2. StageOf(p)'
  BY <1>1 DEF StageOf, Writing
<1> QED
  BY <1>1, <1>2, OthersStage

LEMMA LoadAndEditStage ==
    ASSUME TypeOK, HoldsLock, NEW p \in Proc, pc[p] \in Critical, LoadAndEdit(p),
           job[p].op \in {"update", "snapshot"},
           job[p].op = "snapshot" =>
               disk[job[p].inst].snaps # NoFile /\ job[p].label \in disk[job[p].inst].snaps
    PROVE  Stages'
<1> DEFINE c == disk[job[p].inst].state
<1>1. Write(p, "state", Apply(job[p].edit, c)) /\ c # NoFile
  BY DEF LoadAndEdit
<1>2. /\ target'[p] = "state" /\ buf'[p] = Apply(job[p].edit, c)
      /\ job' = job /\ disk' = disk
  BY <1>1 DEF Write, TypeOK, diskVars
<1>3. Current(p)'
  BY <1>1, <1>2 DEF Current
<1> QED
  BY <1>1, <1>3, WriteStage DEF Files

LEMMA StageStep == TypeOK /\ HoldsLock /\ FilesWhole /\ Stages /\ [Next]_vars => Stages'
<1> SUFFICES ASSUME TypeOK, HoldsLock, FilesWhole, Stages, [Next]_vars PROVE Stages'
  OBVIOUS
<1>1. CASE UNCHANGED vars
  BY <1>1 DEF vars, Stages, StageOf, Current
<1>2. ASSUME NEW p \in Proc, Start(p) PROVE Stages'
  <2> SUFFICES ASSUME NEW q \in Proc PROVE StageOf(q)'
    BY DEF Stages
  <2>1. CASE q = p
    BY <1>2, <2>1, VacuousNext DEF Start, TypeOK, Critical, Writing
  <2>2. CASE q # p
    <3>1. /\ pc'[q] = pc[q] /\ job'[q] = job[q] /\ target' = target /\ buf' = buf /\ tmp' = tmp
          /\ disk' = disk /\ pend' = pend
      BY <1>2, <2>2 DEF Start, TypeOK, diskVars
    <3> QED
      BY <3>1 DEF Stages, StageOf, Current
  <2> QED
    BY <2>1, <2>2
<1>3. ASSUME NEW p \in Proc, Acquire(p) PROVE Stages'
  <2> SUFFICES ASSUME NEW q \in Proc PROVE StageOf(q)'
    BY DEF Stages
  <2>1. CASE q = p
    <3>1. pc'[p] = "begin"
      BY <1>3 DEF Acquire, TypeOK
    <3> QED
      BY <2>1, <3>1 DEF StageOf, Writing
  <2>2. CASE q # p
    <3>1. pc[q] \notin Critical
      BY <1>3, ModelValuesAssumption DEF HoldsLock, Acquire
    <3>2. pc'[q] = pc[q]
      BY <1>3, <2>2 DEF Acquire, TypeOK
    <3> QED
      BY <3>1, <3>2, VacuousNext
  <2> QED
    BY <2>1, <2>2
<1>4. ASSUME NEW p \in Proc, Abort(p) \/ Finish(p) PROVE Stages'
  <2> SUFFICES ASSUME NEW q \in Proc PROVE StageOf(q)'
    BY DEF Stages
  <2>1. Release(p) /\ UNCHANGED diskVars
    BY <1>4 DEF Abort, Finish
  <2>2. CASE q = p
    BY <2>1, <2>2, VacuousNext DEF Release, TypeOK, Critical, Writing
  <2>3. CASE q # p
    <3>1. /\ pc'[q] = pc[q] /\ job'[q] = job[q] /\ target'[q] = target[q]
          /\ buf'[q] = buf[q] /\ tmp'[q] = tmp[q] /\ disk' = disk /\ pend' = pend
      BY <2>1, <2>3 DEF Release, TypeOK, diskVars
    <3> QED
      BY <3>1 DEF Stages, StageOf, Current
  <2> QED
    BY <2>2, <2>3
<1>5. ASSUME NEW p \in Proc, BeginUpdate(p) PROVE Stages'
  <2>1. pc[p] \in Critical /\ LoadAndEdit(p) /\ job[p].op = "update"
    BY <1>5 DEF BeginUpdate, Critical
  <2> QED
    BY <2>1, LoadAndEditStage
<1>6. ASSUME NEW p \in Proc, BeginSave(p) PROVE Stages'
  <2>1. pc[p] \in Critical /\ Write(p, "state", job[p].edit) /\ job[p].op = "save"
    BY <1>6 DEF BeginSave, Critical
  <2>2. target'[p] = "state" /\ buf'[p] = job[p].edit /\ job' = job
    BY <2>1 DEF Write, TypeOK
  <2>3. Current(p)'
    BY <2>1, <2>2 DEF Current
  <2> QED
    BY <2>1, <2>3, WriteStage DEF Files
<1>7. ASSUME NEW p \in Proc, BeginSnapshot(p) PROVE Stages'
  <2> DEFINE b == LabelsOf(disk[job[p].inst]) \cup {job[p].label}
  <2>1. /\ pc[p] \in Critical /\ Write(p, "snaps", b) /\ job[p].op = "snapshot"
        /\ disk[job[p].inst].state # NoFile
    BY <1>7 DEF BeginSnapshot, Critical
  <2>2. target'[p] = "snaps" /\ buf'[p] = b /\ job' = job /\ disk' = disk
    BY <2>1 DEF Write, TypeOK, diskVars
  <2>3. Current(p)'
    BY <2>1, <2>2 DEF Current
  <2> QED
    BY <2>1, <2>3, WriteStage DEF Files
<1>8. ASSUME NEW p \in Proc, Reload(p) PROVE Stages'
  <2>1. pc[p] = "reload" /\ pc[p] \in Critical /\ LoadAndEdit(p)
    BY <1>8 DEF Reload, Critical
  <2>2. job[p].op = "snapshot" /\ disk[job[p].inst].snaps # NoFile
          /\ job[p].label \in disk[job[p].inst].snaps
    BY <2>1 DEF Stages, StageOf
  <2> QED
    BY <2>1, <2>2, LoadAndEditStage
<1>9. ASSUME NEW p \in Proc, CreateTmp(p) \/ WriteTmp(p) \/ SyncTmp(p) PROVE Stages'
  <2>1. /\ pc[p] \in Writing /\ pc[p] \in Critical /\ \A q \in Proc \ {p} : pc'[q] = pc[q]
        /\ job' = job /\ target' = target /\ buf' = buf /\ disk' = disk
    BY <1>9 DEF CreateTmp, WriteTmp, SyncTmp, TypeOK, Writing, Critical, diskVars
  <2>2. Current(p)
    BY <2>1 DEF Stages, StageOf
  <2>3. Current(p)'
    BY <2>1, <2>2 DEF Current
  <2>4. StageOf(p)'
    <3>1. CASE CreateTmp(p)
      <4>1. pc'[p] = "write_tmp"
        BY <3>1 DEF CreateTmp, TypeOK
      <4> QED
        BY <2>3, <4>1 DEF StageOf, Writing
    <3>2. CASE WriteTmp(p)
      <4>1. pc'[p] = "sync_tmp" /\ tmp'[p].data = buf[p]
        BY <3>2 DEF WriteTmp, TypeOK
      <4> QED
        BY <2>1, <2>3, <4>1 DEF StageOf, Writing
    <3>3. CASE SyncTmp(p)
      <4>1. pc[p] = "sync_tmp" /\ pc'[p] = "rename"
        BY <3>3 DEF SyncTmp, TypeOK
      <4>2. tmp'[p].data = tmp[p].data /\ tmp'[p].synced
        BY <3>3 DEF SyncTmp, TypeOK
      <4>3. tmp[p].data = buf[p]
        BY <4>1 DEF Stages, StageOf
      <4> QED
        BY <2>1, <2>3, <4>1, <4>2, <4>3 DEF StageOf, Writing
    <3> QED
      BY <1>9, <3>1, <3>2, <3>3
  <2> QED
    BY <2>1, <2>4, OthersStage
<1>10. ASSUME NEW p \in Proc, Rename(p) PROVE Stages'
  <2> DEFINE i == job[p].inst
  <2>1. /\ pc'[p] = "fsync_dir" /\ pc[p] \in Critical /\ \A q \in Proc \ {p} : pc'[q] = pc[q]
        /\ job' = job /\ target' = target
    BY <1>10 DEF Rename, TypeOK, Critical, Writing
  <2>2. /\ Current(p) /\ buf[p] \in Bytes(target[p]) /\ buf[p] # Torn /\ buf[p] # NoFile
        /\ disk' = [disk EXCEPT ![i][target[p]] = buf[p]]
    BY <1>10, RenameEntry
  <2>3. i \in Inst /\ job[p].edit \in Edit
    BY JobType
  <2>4. CASE target[p] = "state"
    <3>1. disk'[i].state = buf[p] /\ disk'[i].snaps = disk[i].snaps
      BY <2>2, <2>3, <2>4 DEF TypeOK, View
    <3>2. \A f \in DOMAIN job[p].edit : buf[p][f] = job[p].edit[f]
      <4>1. CASE buf[p] = job[p].edit
        BY <4>1
      <4>2. CASE buf[p] = Apply(job[p].edit, disk[i].state)
        BY <2>3, <4>2, ApplyShows
      <4> QED
        BY <2>2, <2>4, <4>1, <4>2 DEF Current
    <3>3. job[p].op = "snapshot" =>
             disk[i].snaps \notin {NoFile, Torn} /\ job[p].label \in disk[i].snaps
      BY <2>2, <2>3, <2>4, DiskWhole DEF Current
    <3>4. Shows(disk[i], job[p])'
      BY <2>1, <2>2, <3>1, <3>2, <3>3 DEF Shows
    <3>5. StageOf(p)'
      BY <2>1, <2>4, <3>4 DEF StageOf, Writing
    <3> QED
      BY <2>1, <3>5, OthersStage
  <2>5. CASE target[p] = "snaps"
    <3>1. disk'[i].snaps = buf[p]
      BY <2>2, <2>3, <2>5 DEF TypeOK, View
    <3>2. job[p].op = "snapshot" /\ job[p].label \in buf[p]
      BY <2>2, <2>5 DEF Current
    <3>3. StageOf(p)'
      BY <2>1, <2>2, <2>5, <3>1, <3>2 DEF StageOf, Writing
    <3> QED
      BY <2>1, <3>3, OthersStage
  <2> QED
    BY <2>4, <2>5 DEF TypeOK, Files
<1>11. ASSUME NEW p \in Proc, FsyncDir(p) PROVE Stages'
  <2> DEFINE i == job[p].inst
  <2>1. /\ pc[p] = "fsync_dir" /\ pc[p] \in Critical /\ \A q \in Proc \ {p} : pc'[q] = pc[q]
        /\ job' = job /\ target' = target /\ disk' = disk /\ pend'[i] = Only(disk[i])
    BY <1>11, JobType DEF FsyncDir, TypeOK, Critical, Writing
  <2>2. CASE target[p] = "state"
    <3>1. pc'[p] = "done" /\ Shows(disk[i], job[p])
      BY <1>11, <2>1, <2>2 DEF FsyncDir, TypeOK, Stages, StageOf
    <3>2. StageOf(p)'
      BY <2>1, <3>1 DEF StageOf, Writing, Shows
    <3> QED
      BY <2>1, <3>2, OthersStage
  <2>3. CASE target[p] = "snaps"
    <3>1. pc'[p] = "reload" /\ job[p].op = "snapshot"
          /\ disk[i].snaps # NoFile /\ job[p].label \in disk[i].snaps
      BY <1>11, <2>1, <2>3 DEF FsyncDir, TypeOK, Stages, StageOf
    <3>2. StageOf(p)'
      BY <2>1, <3>1 DEF StageOf, Writing
    <3> QED
      BY <2>1, <3>2, OthersStage
  <2> QED
    BY <2>2, <2>3 DEF TypeOK, Files
<1>12. ASSUME NEW p \in Proc, BeginDestroy(p) \/ RemoveConf(p) \/ RemoveFile(p) \/ RemoveDir(p)
       PROVE  Stages'
  <2>1. /\ pc[p] \in Critical /\ \A q \in Proc \ {p} : pc'[q] = pc[q]
        /\ pc'[p] \in {"remove", "removing", "done"} /\ job' = job
    BY <1>12 DEF BeginDestroy, RemoveConf, RemoveFile, RemoveDir, TypeOK, Critical
  <2>2. job[p].op = "destroy"
    BY <1>12 DEF BeginDestroy, RemoveConf, RemoveFile, RemoveDir, Stages, StageOf
  <2>3. StageOf(p)'
    BY <2>1, <2>2 DEF StageOf, Writing
  <2> QED
    BY <2>1, <2>3, OthersStage
<1>13. ASSUME NEW i \in Inst, Writeback(i) PROVE Stages'
  <2> SUFFICES ASSUME NEW q \in Proc PROVE StageOf(q)'
    BY DEF Stages
  <2>1. UNCHANGED <<pc, job, target, buf, tmp, disk>>
    BY <1>13 DEF Writeback, procVars
  <2>2. pend[job[q].inst] = Only(disk[job[q].inst]) => pend'[job[q].inst] = Only(disk[job[q].inst])
    BY <1>13, JobType DEF Writeback, TypeOK
  <2> QED
    BY <2>1, <2>2 DEF Stages, StageOf, Current
<1>14. CASE PowerLoss
  BY <1>14, VacuousNext DEF PowerLoss, Stages, Critical, Writing
<1> QED
  BY <1>1, <1>2, <1>3, <1>4, <1>5, <1>6, <1>7, <1>8, <1>9, <1>10, <1>11, <1>12, <1>13, <1>14
     DEF Next, Work

-----------------------------------------------------------------------------
(* Theorems                                                                *)

LEMMA InitIInv == Init => IInv
<1> SUFFICES ASSUME Init PROVE IInv
  OBVIOUS
<1>1. TypeOK
  BY NoJobType, GoneType, BytesOf
     DEF Init, TypeOK, NoTmp, Files, Only, Entries, View, Critical
<1>2. HoldsLock /\ Stages
  BY Vacuous DEF Init, HoldsLock, Stages, Critical, Writing
<1>3. FilesWhole
  BY GoneWhole, GoneType, OnlyWhole DEF Init, FilesWhole
<1> QED
  BY <1>1, <1>2, <1>3 DEF IInv

\* The state space stays inside the declared types.
THEOREM TypeCorrect == Spec => []TypeOK
<1>1. Init => TypeOK
  BY InitIInv DEF IInv
<1> QED
  BY <1>1, TypeStep, PTL DEF Spec

\* The inductive invariant: the lock, the bytes on disk and every stage of
\* every atomic_write.
THEOREM Invariance == Spec => []IInv
<1>1. IInv /\ [Next]_vars => IInv'
  BY TypeStep, LockStep, FilesStep, StageStep DEF IInv
<1> QED
  BY <1>1, InitIInv, PTL DEF Spec

\* util/fs.rs lines 5-9: nobody reads, and no power loss leaves, broken bytes.
THEOREM Untorn == Spec => []NeverTorn
<1>1. IInv => NeverTorn
  BY DiskWhole, SurvivorsWhole DEF IInv, NeverTorn
<1> QED
  BY <1>1, Invariance, PTL

\* util/fs.rs lines 44-47: an acknowledged write in a flushed directory
\* survives a power loss.
THEOREM Durability == Spec => []AckedIsDurable
<1>1. ASSUME IInv, NEW p \in Proc, Acked(p), old[job[p].inst] = {},
             NEW v \in Survivors(job[p].inst)
      PROVE  Shows(v, job[p])
  <2> DEFINE i == job[p].inst
  <2>1. Shows(disk[i], job[p]) /\ pend[i] = Only(disk[i])
    BY <1>1 DEF IInv, Stages, StageOf, Acked
  <2>2. v \in [state: {disk[i].state}, snaps: {disk[i].snaps}]
    BY <1>1, <2>1 DEF Survivors, Only
  <2> QED
    BY <2>1, <2>2 DEF Shows
<1>2. IInv => AckedIsDurable
  BY <1>1 DEF AckedIsDurable
<1> QED
  BY <1>2, Invariance, PTL

-----------------------------------------------------------------------------
(* StateStore implements AtomicStore                                       *)

Durable == [i \in Inst |-> Survivors(i)]

WholeStore ==
    /\ disk \in [Inst -> Atomic!WholeView]
    /\ Durable \in [Inst -> SUBSET Atomic!WholeView]
    /\ \A i \in Inst : disk[i] \in Durable[i]

LEMMA WholeViews == TypeOK /\ FilesWhole => WholeStore
<1> SUFFICES ASSUME TypeOK, FilesWhole PROVE WholeStore
  OBVIOUS
<1>1. ASSUME NEW v \in View, v.state # Torn, v.snaps # Torn
      PROVE  v \in Atomic!WholeView
  BY <1>1, BytesOf DEF View, Atomic!WholeView, Atomic!Content, Content
<1>2. ASSUME NEW i \in Inst PROVE disk[i] \in Atomic!WholeView /\ disk[i] \in Survivors(i)
  <2>1. disk[i] \in View /\ disk[i].state # Torn /\ disk[i].snaps # Torn
    BY DiskWhole DEF TypeOK
  <2>2. disk[i] \in [state: pend[i].state, snaps: pend[i].snaps]
    BY <2>1 DEF FilesWhole, View
  <2> QED
    BY <1>1, <2>1, <2>2 DEF Survivors
<1>3. ASSUME NEW i \in Inst PROVE Survivors(i) \subseteq Atomic!WholeView
  BY <1>1, SurvivorsType, SurvivorsWhole
<1> QED
  BY <1>2, <1>3 DEF Durable, TypeOK, WholeStore

LEMMA WholeViewsNext == TypeOK' /\ FilesWhole' => WholeStore'
  BY WholeViews, PTL

\* Changing one entry of one directory commits the content it shows: what may
\* survive now is what could before, with or without that content.
LEMMA EntryCommit ==
    ASSUME TypeOK, FilesWhole, TypeOK', FilesWhole',
           NEW i \in Inst, NEW f \in Files, NEW b \in Bytes(f),
           disk' = [disk EXCEPT ![i][f] = b],
           pend' = [pend EXCEPT ![i][f] = @ \cup {b}],
           UNCHANGED old
    PROVE  Atomic!Commit(i, f, b)
<1>2. Durable' \in [Inst -> SUBSET Atomic!WholeView] /\ disk'[i] \in Durable'[i]
  BY WholeViewsNext DEF WholeStore
<1>3. pend[i] \in Entries /\ pend'[i] = [pend[i] EXCEPT ![f] = pend[i][f] \cup {b}]
  BY DEF TypeOK
<1>4. Durable[i] \subseteq Durable'[i]
  <2>1. pend[i].state \subseteq pend'[i].state /\ pend[i].snaps \subseteq pend'[i].snaps
    BY <1>3 DEF Entries, Files
  <2> QED
    BY <2>1 DEF Durable, Survivors
<1>5. \A j \in Inst \ {i} : Durable'[j] = Durable[j]
  BY DEF Durable, Survivors, TypeOK
<1>6. Durable'[i] \subseteq Durable[i] \cup {[v EXCEPT ![f] = b] : v \in Durable[i]}
  <2> SUFFICES ASSUME NEW w \in [state: pend'[i].state, snaps: pend'[i].snaps],
                      w \notin [state: pend[i].state, snaps: pend[i].snaps]
               PROVE  \E v \in Durable[i] : w = [v EXCEPT ![f] = b]
    BY DEF Durable, Survivors
  <2>1. CASE f = "state"
    <3> DEFINE v == [state |-> disk[i].state, snaps |-> w.snaps]
    <3>1. w.state = b /\ w.snaps \in pend[i].snaps
      BY <1>3, <2>1 DEF Entries
    <3>2. v \in Durable[i]
      BY <3>1 DEF FilesWhole, Durable, Survivors
    <3>3. w = [v EXCEPT !.state = b]
      BY <3>1
    <3> QED
      BY <2>1, <3>2, <3>3
  <2>2. CASE f = "snaps"
    <3> DEFINE v == [state |-> w.state, snaps |-> disk[i].snaps]
    <3>1. w.snaps = b /\ w.state \in pend[i].state
      BY <1>3, <2>2 DEF Entries
    <3>2. v \in Durable[i]
      BY <3>1 DEF FilesWhole, Durable, Survivors
    <3>3. w = [v EXCEPT !.snaps = b]
      BY <3>1
    <3> QED
      BY <2>2, <3>2, <3>3
  <2> QED
    BY <2>1, <2>2 DEF Files
<1> QED
  BY <1>2, <1>4, <1>5, <1>6 DEF Atomic!Commit, Durable

LEMMA InitRefines == Init => Atomic!Init
  BY InitIInv, WholeViews DEF IInv, Atomic!Init, Durable, WholeStore

LEMMA HardenRefines ==
    ASSUME TypeOK, FilesWhole, TypeOK', FilesWhole', NEW i \in Inst, UNCHANGED disk,
           \A j \in Inst \ {i} : pend'[j] = pend[j] /\ old'[j] = old[j],
           Survivors(i)' \subseteq Survivors(i)
    PROVE  Atomic!Harden(i)
<1>1. Durable' \in [Inst -> SUBSET Atomic!WholeView] /\ disk'[i] \in Durable'[i]
  BY WholeViewsNext DEF WholeStore
<1>2. Durable'[i] \subseteq Durable[i]
  BY DEF Durable
<1>3. \A j \in Inst \ {i} : Durable'[j] = Durable[j]
  BY DEF Durable, Survivors
<1> QED
  BY <1>1, <1>2, <1>3 DEF Atomic!Harden, Durable

LEMMA RenameRefines ==
    ASSUME IInv, IInv', NEW p \in Proc, Rename(p)
    PROVE  Atomic!Next
<1> DEFINE i == job[p].inst
           v == disk[i]
<1>1. /\ job[p] \in Jobs /\ i \in Inst /\ target[p] \in Files
      /\ job[p].edit \in Edit /\ job[p].label \in Label
  BY JobType DEF IInv, TypeOK
<1>2. /\ Current(p) /\ buf[p] \in Bytes(target[p])
      /\ disk' = [disk EXCEPT ![i][target[p]] = buf[p]]
      /\ pend' = [pend EXCEPT ![i][target[p]] = @ \cup {buf[p]}]
      /\ UNCHANGED old
  BY RenameEntry DEF IInv
<1>3. Atomic!Commit(i, target[p], buf[p])
  BY <1>1, <1>2, EntryCommit DEF IInv
<1>4. CASE target[p] = "snaps"
  <2>1. /\ job[p].op = "snapshot" /\ v.state # NoFile
        /\ buf[p] = Atomic!Labels(v) \cup {job[p].label}
    BY <1>2, <1>4 DEF Current, LabelsOf, Atomic!Labels
  <2>2. Atomic!Record(job[p])
    BY <1>3, <1>4, <2>1 DEF Atomic!Record
  <2> QED
    BY <1>1, <2>2 DEF Atomic!Next
<1>5. CASE target[p] = "state" /\ job[p].op = "save" /\ buf[p] = job[p].edit
  <2>1. Atomic!Put(job[p])
    BY <1>3, <1>5 DEF Atomic!Put
  <2> QED
    BY <1>1, <2>1 DEF Atomic!Next
<1>6. CASE /\ target[p] = "state" /\ job[p].op \in {"update", "snapshot"}
           /\ v.state # NoFile /\ buf[p] = Apply(job[p].edit, v.state)
           /\ job[p].op = "snapshot" => v.snaps # NoFile /\ job[p].label \in v.snaps
  <2>1. buf[p] = Atomic!Apply(job[p].edit, v.state)
    BY <1>1, <1>6 DEF Apply, Atomic!Apply
  <2>2. CASE job[p].op = "update"
    <3>1. Atomic!Update(job[p])
      BY <1>3, <1>6, <2>1, <2>2 DEF Atomic!Update
    <3> QED
      BY <1>1, <3>1 DEF Atomic!Next
  <2>3. CASE job[p].op = "snapshot"
    <3>1. job[p].label \in Atomic!Labels(v)
      BY <1>6, <2>3 DEF Atomic!Labels
    <3>2. Atomic!Stamp(job[p])
      BY <1>3, <1>6, <2>1, <2>3, <3>1 DEF Atomic!Stamp
    <3> QED
      BY <1>1, <3>2 DEF Atomic!Next
  <2> QED
    BY <1>6, <2>2, <2>3
<1> QED
  BY <1>1, <1>2, <1>4, <1>5, <1>6 DEF Current, Files

LEMMA StepRefines == IInv /\ IInv' /\ [Next]_vars => [Atomic!Next]_(Atomic!vars)
<1> SUFFICES ASSUME IInv, IInv', [Next]_vars PROVE [Atomic!Next]_(Atomic!vars)
  OBVIOUS
<1>1. ASSUME UNCHANGED diskVars PROVE UNCHANGED Atomic!vars
  BY <1>1 DEF diskVars, Atomic!vars, Survivors
<1>2. ASSUME NEW p \in Proc, RemoveFile(p) PROVE Atomic!Next
  <2> DEFINE i == job[p].inst
  <2>0. job[p] \in Jobs /\ job[p].op = "destroy"
    BY <1>2 DEF RemoveFile, IInv, TypeOK, Stages, StageOf
  <2>1. PICK f \in Files : /\ disk' = [disk EXCEPT ![i][f] = NoFile]
                           /\ pend' = [pend EXCEPT ![i][f] = @ \cup {NoFile}]
                           /\ UNCHANGED old
    BY <1>2 DEF RemoveFile
  <2>2. i \in Inst /\ NoFile \in Bytes(f)
    BY JobType DEF IInv, Bytes
  <2>3. Atomic!Commit(i, f, NoFile)
    BY <2>1, <2>2, EntryCommit DEF IInv
  <2>4. Atomic!Remove(job[p])
    BY <2>0, <2>3 DEF Atomic!Remove, Files
  <2> QED
    BY <2>0, <2>4 DEF Atomic!Next
<1>3. ASSUME NEW p \in Proc, FsyncDir(p) PROVE Atomic!Next
  <2>0. PICK i \in Inst : i = job[p].inst
    BY JobType DEF IInv
  <2>1. UNCHANGED <<disk, old>> /\ pend' = [pend EXCEPT ![i] = Only(disk[i])]
    BY <1>3, <2>0 DEF FsyncDir
  <2>2. Survivors(i)' \subseteq Survivors(i)
    BY <2>1 DEF IInv, FilesWhole, Survivors, Only, TypeOK
  <2>3. Atomic!Harden(i)
    BY <2>1, <2>2, HardenRefines DEF IInv, TypeOK
  <2> QED
    BY <2>1, <2>3 DEF Atomic!Next
<1>4. ASSUME NEW p \in Proc, RemoveDir(p) PROVE Atomic!Next
  <2>0. PICK i \in Inst : i = job[p].inst
    BY JobType DEF IInv
  <2>1. /\ UNCHANGED disk /\ disk[i] = Gone
        /\ pend' = [pend EXCEPT ![i] = Only(Gone)]
        /\ old' = [old EXCEPT ![i] = Survivors(i) \cup {Gone}]
    BY <1>4, <2>0 DEF RemoveDir
  <2>2. Gone \in Survivors(i)
    BY <2>1, WholeViews DEF IInv, WholeStore, Durable
  <2>3. Survivors(i)' = old'[i] \cup [state: {NoFile}, snaps: {NoFile}]
    BY <2>1, GoneType DEF Survivors, Only, IInv, TypeOK
  <2>4. Survivors(i)' \subseteq Survivors(i)
    BY <2>1, <2>2, <2>3 DEF IInv, TypeOK, Gone
  <2>5. Atomic!Harden(i)
    BY <2>1, <2>4, HardenRefines DEF IInv, TypeOK
  <2> QED
    BY <2>1, <2>5 DEF Atomic!Next
<1>5. ASSUME NEW i \in Inst, Writeback(i) PROVE Atomic!Next
  <2>1. /\ UNCHANGED disk /\ pend' = [pend EXCEPT ![i] = Only(disk[i])]
        /\ old' = [old EXCEPT ![i] = IF disk[i] = Gone THEN {Gone} ELSE {}]
    BY <1>5 DEF Writeback
  <2>2. disk[i] \in Survivors(i) /\ disk[i] \in View
    BY WholeViews DEF IInv, Durable, WholeStore, TypeOK
  <2>3. [state: {disk[i].state}, snaps: {disk[i].snaps}] = {disk[i]}
    <3>1. ASSUME NEW w \in [state: {disk[i].state}, snaps: {disk[i].snaps}] PROVE w = disk[i]
      BY <2>2, <3>1 DEF View
    <3>2. disk[i] \in [state: {disk[i].state}, snaps: {disk[i].snaps}]
      BY <2>2 DEF View
    <3> QED
      BY <3>1, <3>2
  <2>4. Survivors(i)' \subseteq Survivors(i)
    BY <2>1, <2>2, <2>3 DEF Survivors, Only, IInv, TypeOK
  <2>5. Atomic!Harden(i)
    BY <2>1, <2>4, HardenRefines DEF IInv, TypeOK
  <2> QED
    BY <2>5 DEF Atomic!Next
<1>6. CASE PowerLoss
  <2>1. /\ disk' \in [Inst -> Atomic!WholeView] /\ Durable' \in [Inst -> SUBSET Atomic!WholeView]
        /\ \A i \in Inst : disk'[i] \in Durable'[i]
    BY WholeViewsNext DEF IInv, WholeStore
  <2>2. \A i \in Inst : Durable'[i] \subseteq Durable[i]
    <3> SUFFICES ASSUME NEW i \in Inst, NEW v \in Survivors(i)' PROVE v \in Survivors(i)
      BY DEF Durable
    <3>1. /\ disk'[i] \in Survivors(i) /\ disk'[i] \in View
          /\ pend'[i] = Only(disk'[i]) /\ old'[i] \subseteq {disk'[i]}
      BY <1>6 DEF PowerLoss, IInv, TypeOK
    <3>2. v = disk'[i]
      BY <3>1 DEF Survivors, Only, View
    <3> QED
      BY <3>1, <3>2
  <2>3. Atomic!PowerLoss
    BY <2>1, <2>2 DEF Atomic!PowerLoss, Durable
  <2> QED
    BY <2>3 DEF Atomic!Next
<1>7. ASSUME NEW p \in Proc, Start(p) \/ Acquire(p) \/ Abort(p) PROVE UNCHANGED diskVars
  BY <1>7 DEF Start, Acquire, Abort
<1>8. ASSUME NEW p \in Proc, Work(p) PROVE Atomic!Next \/ UNCHANGED diskVars
  <2>1. CASE BeginUpdate(p) \/ BeginSave(p) \/ BeginSnapshot(p) \/ Reload(p)
    BY <2>1 DEF BeginUpdate, BeginSave, BeginSnapshot, Reload, LoadAndEdit, Write
  <2>2. CASE CreateTmp(p) \/ WriteTmp(p) \/ SyncTmp(p)
    BY <2>2 DEF CreateTmp, WriteTmp, SyncTmp
  <2>3. CASE BeginDestroy(p) \/ RemoveConf(p) \/ Finish(p)
    BY <2>3 DEF BeginDestroy, RemoveConf, Finish
  <2> QED
    BY <1>2, <1>3, <1>4, <1>8, <2>1, <2>2, <2>3, RenameRefines DEF Work
<1>9. CASE UNCHANGED vars
  BY <1>1, <1>9 DEF vars, diskVars
<1> QED
  BY <1>1, <1>5, <1>6, <1>7, <1>8, <1>9 DEF Next

\* Every behaviour of the store is one of AtomicStore: whole sections under the
\* lock act as single steps on the current content.
THEOREM Refinement == Spec => Linearizable
<1>1. [](IInv) /\ [][Next]_vars => [][Atomic!Next]_(Atomic!vars)
  BY StepRefines, PTL
<1> QED
  BY <1>1, InitRefines, Invariance, PTL DEF Spec, Linearizable, Atomic!Spec

-----------------------------------------------------------------------------
(* A claimed snapshot is recorded                                          *)

\* While a snapshot sets last_snapshot_at its record can no more be lost.
Kept(p) ==
    job[p].op = "snapshot" /\ (pc[p] = "reload" \/ (pc[p] \in Writing /\ target[p] = "state")) =>
        \A s \in pend[job[p].inst].snaps : s # NoFile /\ job[p].label \in s

AllKept == \A p \in Proc : Kept(p)

Undestroyed(i) == \A j \in Jobs : j.inst = i => j.op # "destroy"

\* Whatever a power loss may leave of an instance that nobody destroys.
AllRecorded == \A i \in Inst : Undestroyed(i) => \A v \in Survivors(i) : Recorded(v)

\* The view of i after a change of one file.
LEMMA EntryChange ==
    ASSUME TypeOK, NEW i \in Inst, NEW f \in Files, NEW b,
           pend' = [pend EXCEPT ![i][f] = @ \cup {b}], UNCHANGED old
    PROVE  /\ \A k \in Inst \ {i} : Survivors(k)' = Survivors(k)
           /\ f = "state" => /\ pend'[i].state = pend[i].state \cup {b}
                             /\ pend'[i].snaps = pend[i].snaps
           /\ f = "snaps" => /\ pend'[i].snaps = pend[i].snaps \cup {b}
                             /\ pend'[i].state = pend[i].state
<1>1. \A k \in Inst \ {i} : pend'[k] = pend[k]
  BY DEF TypeOK
<1>2. pend[i] \in Entries /\ pend'[i] = [pend[i] EXCEPT ![f] = pend[i][f] \cup {b}]
  BY DEF TypeOK
<1> QED
  BY <1>1, <1>2 DEF Survivors, Entries

LEMMA WritebackShrinks ==
    ASSUME TypeOK, FilesWhole, NEW i \in Inst,
           disk' = disk, pend' = [pend EXCEPT ![i] = Only(disk[i])],
           \/ old' = old
           \/ old' = [old EXCEPT ![i] = IF disk[i] = Gone THEN {Gone} ELSE {}]
    PROVE  \A k \in Inst : Survivors(k)' \subseteq Survivors(k)
<1>1. disk[i] \in Survivors(i) /\ disk[i] \in View
  BY WholeViews DEF Durable, WholeStore, TypeOK
<1>2. [state: {disk[i].state}, snaps: {disk[i].snaps}] = {disk[i]}
  <2>1. ASSUME NEW w \in [state: {disk[i].state}, snaps: {disk[i].snaps}] PROVE w = disk[i]
    BY <1>1, <2>1 DEF View
  <2>2. disk[i] \in [state: {disk[i].state}, snaps: {disk[i].snaps}]
    BY <1>1 DEF View
  <2> QED
    BY <2>1, <2>2
<1>3. Survivors(i)' \subseteq Survivors(i)
  <2>1. pend'[i] = Only(disk[i]) /\ (old'[i] = old[i] \/ old'[i] \subseteq {disk[i]})
    BY DEF TypeOK
  <2> QED
    BY <1>1, <1>2, <2>1 DEF Survivors, Only
<1>4. \A k \in Inst \ {i} : Survivors(k)' = Survivors(k)
  BY DEF Survivors, TypeOK
<1> QED
  BY <1>3, <1>4

LEMMA InitClaims == Init => AllKept /\ AllRecorded
<1> SUFFICES ASSUME Init PROVE AllKept /\ AllRecorded
  OBVIOUS
<1>1. AllKept
  BY DEF Init, AllKept, Kept, Writing
<1>2. ASSUME NEW i \in Inst, NEW v \in Survivors(i) PROVE v.state = NoFile
  BY <1>2, GoneType DEF Init, Survivors, Only
<1> QED
  BY <1>1, <1>2 DEF AllRecorded, Recorded, Claims

\* Nobody else can write while p holds the lock.
LEMMA KeptStep == IInv /\ IInv' /\ AllKept /\ [Next]_vars => AllKept'
<1> SUFFICES ASSUME IInv, IInv', AllKept, [Next]_vars, NEW q \in Proc PROVE Kept(q)'
  BY DEF AllKept
<1>0. TypeOK /\ HoldsLock /\ FilesWhole /\ Stages /\ job[q].inst \in Inst
  BY JobType DEF IInv
<1>1. ASSUME UNCHANGED pend, job'[q] = job[q], pc'[q] = pc[q], target'[q] = target[q]
      PROVE  Kept(q)'
  BY <1>1 DEF AllKept, Kept
<1>2. ASSUME pc'[q] \notin Critical PROVE Kept(q)'
  BY <1>2 DEF Kept, Critical, Writing
<1>3. CASE UNCHANGED vars
  BY <1>1, <1>3 DEF vars
<1>4. ASSUME NEW p \in Proc, Start(p) PROVE Kept(q)'
  <2>1. CASE p = q
    BY <1>0, <1>2, <1>4, <2>1 DEF Start, TypeOK, Critical, Writing
  <2>2. CASE p # q
    BY <1>0, <1>1, <1>4, <2>2 DEF Start, TypeOK, diskVars
  <2> QED
    BY <2>1, <2>2
<1>5. ASSUME NEW p \in Proc, Acquire(p) PROVE Kept(q)'
  <2>1. CASE p = q
    BY <1>0, <1>5, <2>1 DEF Acquire, TypeOK, Kept, Writing
  <2>2. CASE p # q
    BY <1>0, <1>1, <1>5, <2>2 DEF Acquire, TypeOK, diskVars
  <2> QED
    BY <2>1, <2>2
<1>6. ASSUME NEW p \in Proc, Abort(p) \/ Finish(p) PROVE Kept(q)'
  <2>1. Release(p) /\ UNCHANGED pend
    BY <1>6 DEF Abort, Finish, diskVars
  <2>2. CASE p = q
    BY <1>0, <1>2, <2>1, <2>2 DEF Release, TypeOK, Critical, Writing
  <2>3. CASE p # q
    BY <1>0, <1>1, <2>1, <2>3 DEF Release, TypeOK
  <2> QED
    BY <2>2, <2>3
<1>7. ASSUME NEW p \in Proc, BeginUpdate(p) \/ BeginSave(p) PROVE Kept(q)'
  <2>1. /\ job[p].op \in {"update", "save"} /\ UNCHANGED <<pend, job>>
        /\ \A r \in Proc \ {p} : pc'[r] = pc[r] /\ target'[r] = target[r]
    BY <1>0, <1>7 DEF BeginUpdate, BeginSave, LoadAndEdit, Write, TypeOK, diskVars
  <2>2. CASE p = q
    BY <2>1, <2>2 DEF Kept
  <2>3. CASE p # q
    BY <1>1, <2>1, <2>3
  <2> QED
    BY <2>2, <2>3
<1>8. ASSUME NEW p \in Proc, BeginSnapshot(p) PROVE Kept(q)'
  <2>1. /\ pc'[p] = "create_tmp" /\ target'[p] = "snaps" /\ UNCHANGED <<pend, job>>
        /\ \A r \in Proc \ {p} : pc'[r] = pc[r] /\ target'[r] = target[r]
    BY <1>0, <1>8 DEF BeginSnapshot, Write, TypeOK, diskVars
  <2>2. CASE p = q
    BY <2>1, <2>2 DEF Kept
  <2>3. CASE p # q
    BY <1>1, <2>1, <2>3
  <2> QED
    BY <2>2, <2>3
<1>9. ASSUME NEW p \in Proc, Reload(p) PROVE Kept(q)'
  <2>1. /\ pc[p] = "reload" /\ UNCHANGED <<pend, job>>
        /\ \A r \in Proc \ {p} : pc'[r] = pc[r] /\ target'[r] = target[r]
    BY <1>0, <1>9 DEF Reload, LoadAndEdit, Write, TypeOK, diskVars
  <2>2. CASE p = q
    BY <2>1, <2>2 DEF AllKept, Kept
  <2>3. CASE p # q
    BY <1>1, <2>1, <2>3
  <2> QED
    BY <2>2, <2>3
<1>10. ASSUME NEW p \in Proc, CreateTmp(p) \/ WriteTmp(p) \/ SyncTmp(p) PROVE Kept(q)'
  <2>1. /\ pc[p] \in Writing /\ pc'[p] \in Writing /\ UNCHANGED <<pend, job, target>>
        /\ \A r \in Proc \ {p} : pc'[r] = pc[r]
    BY <1>0, <1>10 DEF CreateTmp, WriteTmp, SyncTmp, TypeOK, diskVars, Writing
  <2>2. CASE p = q
    BY <2>1, <2>2 DEF AllKept, Kept, Writing
  <2>3. CASE p # q
    BY <1>1, <2>1, <2>3
  <2> QED
    BY <2>2, <2>3
<1>11. ASSUME NEW p \in Proc,
              Rename(p) \/ FsyncDir(p) \/ BeginDestroy(p) \/ RemoveConf(p)
                \/ RemoveFile(p) \/ RemoveDir(p)
       PROVE  Kept(q)'
  <2>1. pc[p] \in Critical /\ UNCHANGED <<job, target>> /\ \A r \in Proc \ {p} : pc'[r] = pc[r]
    BY <1>0, <1>11 DEF Rename, FsyncDir, BeginDestroy, RemoveConf, RemoveFile, RemoveDir,
       TypeOK, Critical, Writing
  <2>2. CASE p # q
    BY <1>0, <1>2, <2>1, <2>2, Alone
  <2>3. CASE p = q /\ FsyncDir(p)
    <3>1. /\ pend'[job[q].inst] = Only(disk[job[q].inst]) /\ UNCHANGED disk
          /\ pc'[q] = IF target[q] = "snaps" THEN "reload" ELSE "done"
      BY <1>0, <2>3 DEF FsyncDir, TypeOK
    <3>2. target[q] = "snaps" =>
            disk[job[q].inst].snaps # NoFile /\ job[q].label \in disk[job[q].inst].snaps
      BY <1>0, <2>3 DEF FsyncDir, Stages, StageOf
    <3> QED
      BY <2>1, <3>1, <3>2 DEF Kept, Only, Writing
  <2>4. CASE p = q /\ ~FsyncDir(p)
    <3>1. pc'[q] \in {"fsync_dir", "remove", "removing", "done"}
      BY <1>0, <1>11, <2>4 DEF Rename, BeginDestroy, RemoveConf, RemoveFile, RemoveDir, TypeOK
    <3> QED
      BY <3>1 DEF Kept, Writing
  <2> QED
    BY <2>2, <2>3, <2>4
<1>12. ASSUME NEW i \in Inst, Writeback(i) PROVE Kept(q)'
  <2>1. UNCHANGED <<pc, job, target>>
        /\ (pend'[job[q].inst] = pend[job[q].inst] \/ pend'[job[q].inst] = Only(disk[job[q].inst]))
    BY <1>0, <1>12 DEF Writeback, procVars, TypeOK
  <2>2. disk[job[q].inst].snaps \in pend[job[q].inst].snaps
    BY <1>0 DEF FilesWhole
  <2> QED
    BY <2>1, <2>2 DEF AllKept, Kept, Only
<1>13. CASE PowerLoss
  BY <1>2, <1>13 DEF PowerLoss, Critical, Writing
<1> QED
  BY <1>3, <1>4, <1>5, <1>6, <1>7, <1>8, <1>9, <1>10, <1>11, <1>12, <1>13 DEF Next, Work

\* A rename of snapshots.toml only adds to what is recorded.
LEMMA RecordStep ==
    ASSUME IInv, AllRecorded, NEW p \in Proc, Rename(p), target[p] = "snaps",
           NEW i \in Inst, job[p].inst = i, Undestroyed(i), NEW v \in Survivors(i)'
    PROVE  Recorded(v)
<1>1. i \in Inst /\ TypeOK /\ FilesWhole /\ Stages
  BY JobType DEF IInv
<1>2. /\ pend' = [pend EXCEPT ![i][target[p]] = @ \cup {buf[p]}] /\ UNCHANGED old
      /\ buf[p] = LabelsOf(disk[i]) \cup {job[p].label} /\ buf[p] # NoFile
  BY <1>1, RenameEntry DEF Current
<1>3. pend'[i].snaps = pend[i].snaps \cup {buf[p]} /\ pend'[i].state = pend[i].state
  BY <1>1, <1>2, EntryChange DEF Files
<1>4. v \in Survivors(i) \/ (v.state \in pend[i].state /\ v.snaps = buf[p])
  BY <1>2, <1>3 DEF Survivors
<1>5. ASSUME v.state \in pend[i].state, v.snaps = buf[p], Claims(v)
      PROVE  v.state[Last] \in v.snaps
  <2> DEFINE w == [state |-> v.state, snaps |-> disk[i].snaps]
  <2>1. w \in Survivors(i)
    BY <1>1, <1>5 DEF FilesWhole, Survivors
  <2>2. Claims(w)
    BY <1>5 DEF Claims
  <2>3. disk[i].snaps # NoFile /\ v.state[Last] \in disk[i].snaps
    BY <1>1, <2>1, <2>2 DEF AllRecorded, Recorded
  <2> QED
    BY <1>2, <1>5, <2>3 DEF LabelsOf
<1> QED
  BY <1>1, <1>2, <1>4, <1>5 DEF AllRecorded, Recorded

\* A rename of state.toml claims what was claimed, nothing, or what is kept.
LEMMA ClaimStep ==
    ASSUME IInv, AllKept, AllRecorded, NEW p \in Proc, Rename(p), target[p] = "state",
           NEW i \in Inst, job[p].inst = i, Undestroyed(i), NEW v \in Survivors(i)'
    PROVE  Recorded(v)
<1>1. /\ i \in Inst /\ job[p] \in Jobs /\ job[p].edit \in Edit
      /\ TypeOK /\ FilesWhole /\ Stages
  BY JobType DEF IInv, TypeOK
<1>2. /\ pend' = [pend EXCEPT ![i][target[p]] = @ \cup {buf[p]}] /\ UNCHANGED old
      /\ Current(p)
  BY <1>1, RenameEntry
<1>3. pend'[i].state = pend[i].state \cup {buf[p]} /\ pend'[i].snaps = pend[i].snaps
  BY <1>1, <1>2, EntryChange DEF Files
<1>4. v \in Survivors(i) \/ (v.state = buf[p] /\ v.snaps \in pend[i].snaps)
  BY <1>2, <1>3 DEF Survivors
<1>5. ASSUME v.state = buf[p], v.snaps \in pend[i].snaps, Claims(v)
      PROVE  v.snaps # NoFile /\ v.state[Last] \in v.snaps
  <2>0. Last \in Field /\ buf[p][Last] # NoSnapshot
    BY <1>5 DEF Claims
  <2>1. CASE job[p].op = "save" /\ buf[p] = job[p].edit
    BY <1>1, <2>0, <2>1, LastAssumption
  <2>2. CASE job[p].op = "update" /\ disk[i].state # NoFile
             /\ buf[p] = Apply(job[p].edit, disk[i].state)
    <3> DEFINE w == [state |-> disk[i].state, snaps |-> v.snaps]
    <3>1. buf[p][Last] = disk[i].state[Last]
      BY <1>1, <2>0, <2>2, LastAssumption DEF Apply
    <3>2. w \in Survivors(i)
      BY <1>1, <1>5 DEF FilesWhole, Survivors
    <3>3. disk[i].state # Torn
      BY <1>1, DiskWhole
    <3>4. Claims(w)
      BY <2>0, <2>2, <3>1, <3>3 DEF Claims
    <3> QED
      BY <1>1, <1>5, <3>1, <3>2, <3>4 DEF AllRecorded, Recorded
  <2>3. CASE job[p].op = "snapshot" /\ buf[p] = Apply(job[p].edit, disk[i].state)
    <3>1. buf[p][Last] = job[p].label
      BY <1>1, <2>0, <2>3, LastAssumption DEF Apply
    <3>2. v.snaps # NoFile /\ job[p].label \in v.snaps
      BY <1>5, <2>3 DEF AllKept, Kept, Rename, Writing
    <3> QED
      BY <1>5, <3>1, <3>2
  <2> QED
    BY <1>2, <2>1, <2>2, <2>3 DEF Current
<1> QED
  BY <1>1, <1>4, <1>5 DEF AllRecorded, Recorded

LEMMA RecordedStep == IInv /\ IInv' /\ AllKept /\ AllRecorded /\ [Next]_vars => AllRecorded'
<1> SUFFICES ASSUME IInv, IInv', AllKept, AllRecorded, [Next]_vars,
                    NEW k \in Inst, Undestroyed(k), NEW v \in Survivors(k)'
             PROVE  Recorded(v)
  BY DEF AllRecorded, Undestroyed, Recorded, Claims
<1>0. TypeOK /\ FilesWhole /\ Stages
  BY DEF IInv
<1>1. ASSUME Survivors(k)' \subseteq Survivors(k) PROVE Recorded(v)
  BY <1>1 DEF AllRecorded
<1>2. ASSUME UNCHANGED diskVars PROVE Recorded(v)
  BY <1>1, <1>2 DEF diskVars, Survivors
<1>3. ASSUME NEW p \in Proc, Rename(p) PROVE Recorded(v)
  <2>1. job[p].inst \in Inst /\ target[p] \in Files
    BY <1>0, JobType DEF TypeOK
  <2>2. CASE job[p].inst = k
    BY <1>3, <2>1, <2>2, RecordStep, ClaimStep DEF Files
  <2>3. CASE job[p].inst # k
    <3>1. /\ pend' = [pend EXCEPT ![job[p].inst][target[p]] = @ \cup {buf[p]}]
          /\ UNCHANGED old
      BY <1>0, <1>3, RenameEntry
    <3> QED
      BY <1>0, <1>1, <2>1, <2>3, <3>1, EntryChange
  <2> QED
    BY <2>2, <2>3
<1>4. ASSUME NEW p \in Proc, FsyncDir(p) PROVE Recorded(v)
  <2>1. job[p].inst \in Inst
    BY <1>0, JobType
  <2>2. /\ disk' = disk /\ old' = old
        /\ pend' = [pend EXCEPT ![job[p].inst] = Only(disk[job[p].inst])]
    BY <1>4 DEF FsyncDir
  <2> QED
    BY <1>0, <1>1, <2>1, <2>2, WritebackShrinks
<1>5. ASSUME NEW p \in Proc, RemoveFile(p) \/ RemoveDir(p) PROVE Recorded(v)
  <2>1. job[p].op = "destroy" /\ job[p] \in Jobs /\ job[p].inst \in Inst
    BY <1>0, <1>5, JobType DEF RemoveFile, RemoveDir, Stages, StageOf, TypeOK
  <2>2. job[p].inst # k
    BY <2>1 DEF Undestroyed
  <2>3. pend'[k] = pend[k] /\ old'[k] = old[k]
    BY <1>0, <1>5, <2>1, <2>2 DEF RemoveFile, RemoveDir, TypeOK
  <2> QED
    BY <1>1, <2>3 DEF Survivors
<1>6. ASSUME NEW i \in Inst, Writeback(i) PROVE Recorded(v)
  BY <1>0, <1>1, <1>6, WritebackShrinks DEF Writeback
<1>7. CASE PowerLoss
  <2>1. disk'[k] \in Survivors(k) /\ pend'[k] = Only(disk'[k]) /\ old'[k] \subseteq {disk'[k]}
    BY <1>7 DEF PowerLoss
  <2>2. v.state = disk'[k].state /\ v.snaps = disk'[k].snaps
    BY <2>1 DEF Survivors, Only
  <2>3. Recorded(disk'[k])
    BY <2>1 DEF AllRecorded
  <2> QED
    BY <2>2, <2>3 DEF Recorded, Claims
<1>8. ASSUME NEW p \in Proc, Start(p) \/ Acquire(p) \/ Abort(p) PROVE UNCHANGED diskVars
  BY <1>8 DEF Start, Acquire, Abort
<1>9. ASSUME NEW p \in Proc, Work(p) PROVE Recorded(v)
  <2>1. CASE BeginUpdate(p) \/ BeginSave(p) \/ BeginSnapshot(p) \/ Reload(p)
    BY <1>2, <2>1 DEF BeginUpdate, BeginSave, BeginSnapshot, Reload, LoadAndEdit, Write
  <2>2. CASE CreateTmp(p) \/ WriteTmp(p) \/ SyncTmp(p)
    BY <1>2, <2>2 DEF CreateTmp, WriteTmp, SyncTmp
  <2>3. CASE BeginDestroy(p) \/ RemoveConf(p) \/ Finish(p)
    BY <1>2, <2>3 DEF BeginDestroy, RemoveConf, Finish
  <2> QED
    BY <1>3, <1>4, <1>5, <1>9, <2>1, <2>2, <2>3 DEF Work
<1>10. CASE UNCHANGED vars
  BY <1>2, <1>10 DEF vars, diskVars
<1> QED
  BY <1>2, <1>6, <1>7, <1>8, <1>9, <1>10 DEF Next

\* commands/snapshot.rs lines 207-225: on an instance that nobody destroys, a
\* snapshot that state.toml claims is recorded in snapshots.toml, whichever
\* process dies and whatever a power loss undoes.
THEOREM ClaimsHold == Spec => []ClaimedSnapshotIsRecorded
<1>1. IInv /\ AllRecorded => ClaimedSnapshotIsRecorded
  <2> SUFFICES ASSUME IInv, AllRecorded, NEW i \in Inst, Undestroyed(i),
                      NEW v \in {disk[i]} \cup Survivors(i)
               PROVE  Recorded(v)
    BY DEF ClaimedSnapshotIsRecorded, Undestroyed
  <2>1. disk[i] \in Survivors(i)
    BY WholeViews DEF IInv, WholeStore, Durable
  <2> QED
    BY <2>1 DEF AllRecorded
<1>2. Spec => [](AllKept /\ AllRecorded)
  <2>1. IInv /\ IInv' /\ AllKept /\ AllRecorded /\ [Next]_vars => (AllKept /\ AllRecorded)'
    BY KeptStep, RecordedStep
  <2> QED
    BY <2>1, InitClaims, Invariance, PTL DEF Spec
<1> QED
  BY <1>1, <1>2, Invariance, PTL
=============================================================================
