-------------------------- MODULE AtomicWriteProofs --------------------------
(***************************************************************************)
(* Theorems about AtomicWrite: for any number of writers, as long as each  *)
(* is a process of its own, atomic_write needs no lock to be atomic. The   *)
(* assumption is what the dashboard breaks: its tasks share a process id,  *)
(* and so a temporary name.                                                *)
(***************************************************************************)
EXTENDS AtomicWrite, TLAPS

\* The process id in the temporary name tells all writers apart.
OwnProcess == \A v, w \in Writer : PidOf[v] = PidOf[w] => v = w

\* The names lead to different inodes: a temporary file is neither published
\* nor another process's.
NamesApart ==
    /\ \A q \in Pid : tmp[q] # None => tmp[q] # dest
    /\ \A q, r \in Pid : tmp[q] # None /\ tmp[q] = tmp[r] => q = r

\* A writer with an open file has its own temporary file open, still empty.
OpensItsOwn ==
    \A w \in Writer : pc[w] = "write" => fd[w] = tmp[PidOf[w]] /\ bytes[fd[w]] = Torn

\* What a writer is about to rename is there, and is its own content.
RenamesItsOwn ==
    \A w \in Writer : pc[w] = "rename" =>
        tmp[PidOf[w]] # None /\ bytes[tmp[PidOf[w]]] = val[w]

\* What is published is whole.
DestWhole == dest # None => bytes[dest] \in Data

\* The inductive invariant. That what is published is whole rests on what is
\* about to be renamed, and this on nobody else writing to that inode.
IInv == TypeOK /\ NamesApart /\ OpensItsOwn /\ RenamesItsOwn /\ DestWhole /\ NobodyFails

LEMMA NoValType == NoVal \in Data
BY WritersAssumption DEF NoVal, WritersAssumption

LEMMA InitIInv == Init => IInv
<1> SUFFICES ASSUME Init PROVE IInv
  OBVIOUS
<1>1. TypeOK
  BY NoValType DEF Init, TypeOK
<1>2. NamesApart /\ OpensItsOwn /\ RenamesItsOwn /\ DestWhole /\ NobodyFails
  BY DEF Init, NamesApart, OpensItsOwn, RenamesItsOwn, DestWhole, NobodyFails
<1> QED
  BY <1>1, <1>2 DEF IInv

LEMMA BeginStep ==
    ASSUME IInv, NEW w \in Writer, Begin(w)
    PROVE  IInv'
<1> USE DEF IInv, Begin
<1>1. TypeOK'
  BY DEF TypeOK
<1>2. NamesApart' /\ DestWhole'
  BY DEF NamesApart, DestWhole
<1>3. OpensItsOwn' /\ RenamesItsOwn' /\ NobodyFails'
  BY DEF TypeOK, OpensItsOwn, RenamesItsOwn, NobodyFails
<1> QED
  BY <1>1, <1>2, <1>3

LEMMA CreateStep ==
    ASSUME OwnProcess, IInv, NEW w \in Writer, Create(w)
    PROVE  IInv'
<1> DEFINE q == PidOf[w]
<1>0. q \in Pid
  BY WritersAssumption DEF WritersAssumption
<1>1. PICK i \in Inode :
        /\ pc[w] = "create"
        /\ IF tmp[q] = None THEN Unused(i) ELSE i = tmp[q]
        /\ tmp' = [tmp EXCEPT ![q] = i]
        /\ bytes' = [bytes EXCEPT ![i] = Torn]
        /\ fd' = [fd EXCEPT ![w] = i]
        /\ pc' = [pc EXCEPT ![w] = "write"]
        /\ UNCHANGED <<dest, val>>
  BY DEF Create, TmpOf
<1>2. i # None /\ i # dest /\ \A r \in Pid : r # q => tmp[r] # i
  BY <1>0, <1>1, WritersAssumption DEF WritersAssumption, IInv, NamesApart, Unused
<1>3. \A v \in Writer : v # w => PidOf[v] \in Pid /\ PidOf[v] # q
  BY WritersAssumption DEF OwnProcess, WritersAssumption
<1>4. TypeOK'
  BY <1>0, <1>1, <1>2 DEF IInv, TypeOK
<1>5. NamesApart'
  BY <1>0, <1>1, <1>2 DEF IInv, TypeOK, NamesApart
<1>6. OpensItsOwn'
  <2> SUFFICES ASSUME NEW v \in Writer, pc'[v] = "write"
               PROVE  fd'[v] = tmp'[PidOf[v]] /\ bytes'[fd'[v]] = Torn
    BY DEF OpensItsOwn
  <2>1. CASE v = w
    BY <2>1, <1>0, <1>1 DEF IInv, TypeOK
  <2>2. CASE v # w
    BY <2>2, <1>0, <1>1, <1>2, <1>3 DEF IInv, TypeOK, OpensItsOwn
  <2> QED
    BY <2>1, <2>2
<1>7. RenamesItsOwn'
  <2> SUFFICES ASSUME NEW v \in Writer, pc'[v] = "rename"
               PROVE  tmp'[PidOf[v]] # None /\ bytes'[tmp'[PidOf[v]]] = val'[v]
    BY DEF RenamesItsOwn
  <2>1. v # w /\ pc[v] = "rename"
    BY <1>1 DEF IInv, TypeOK
  <2> QED
    BY <2>1, <1>0, <1>1, <1>2, <1>3 DEF IInv, TypeOK, RenamesItsOwn
<1>8. DestWhole'
  BY <1>1, <1>2 DEF IInv, TypeOK, DestWhole
<1>9. NobodyFails'
  BY <1>1 DEF IInv, TypeOK, NobodyFails
<1> QED
  BY <1>4, <1>5, <1>6, <1>7, <1>8, <1>9 DEF IInv

LEMMA WriteAllStep ==
    ASSUME OwnProcess, IInv, NEW w \in Writer, WriteAll(w)
    PROVE  IInv'
<1> DEFINE i == fd[w]
<1>0. /\ PidOf[w] \in Pid
      /\ \A v \in Writer : PidOf[v] \in Pid /\ (v # w => PidOf[v] # PidOf[w])
  BY WritersAssumption DEF OwnProcess, WritersAssumption
<1>1. /\ pc[w] = "write" /\ i \in Inode /\ i # None
      /\ i = tmp[PidOf[w]] /\ bytes[i] = Torn
  BY DEF WriteAll, IInv, TypeOK, OpensItsOwn
<1>2. /\ bytes' = [bytes EXCEPT ![i] = val[w]]
      /\ fd' = [fd EXCEPT ![w] = None]
      /\ pc' = [pc EXCEPT ![w] = "rename"]
      /\ UNCHANGED <<dest, tmp, val>>
  BY <1>1 DEF WriteAll
<1>3. i # dest /\ \A r \in Pid : r # PidOf[w] => tmp[r] # i
  BY <1>0, <1>1 DEF IInv, NamesApart
<1>4. TypeOK'
  BY <1>1, <1>2 DEF IInv, TypeOK
<1>5. NamesApart' /\ DestWhole'
  BY <1>1, <1>2, <1>3 DEF IInv, TypeOK, NamesApart, DestWhole
<1>6. OpensItsOwn'
  <2> SUFFICES ASSUME NEW v \in Writer, pc'[v] = "write"
               PROVE  fd'[v] = tmp'[PidOf[v]] /\ bytes'[fd'[v]] = Torn
    BY DEF OpensItsOwn
  <2>1. v # w /\ pc[v] = "write" /\ fd[v] # i
    BY <1>0, <1>1, <1>2, <1>3 DEF IInv, TypeOK, OpensItsOwn
  <2> QED
    BY <2>1, <1>2 DEF IInv, TypeOK, OpensItsOwn
<1>7. RenamesItsOwn'
  <2> SUFFICES ASSUME NEW v \in Writer, pc'[v] = "rename"
               PROVE  tmp'[PidOf[v]] # None /\ bytes'[tmp'[PidOf[v]]] = val'[v]
    BY DEF RenamesItsOwn
  <2>1. CASE v = w
    BY <2>1, <1>1, <1>2 DEF IInv, TypeOK
  <2>2. CASE v # w
    <3>1. pc[v] = "rename" /\ tmp[PidOf[v]] # i
      BY <2>2, <1>0, <1>2, <1>3 DEF IInv, TypeOK
    <3> QED
      BY <3>1, <1>0, <1>2 DEF IInv, TypeOK, RenamesItsOwn
  <2> QED
    BY <2>1, <2>2
<1>8. NobodyFails'
  BY <1>2 DEF IInv, TypeOK, NobodyFails
<1> QED
  BY <1>4, <1>5, <1>6, <1>7, <1>8 DEF IInv

\* What a rename does when the invariant holds: it finds its temporary file.
LEMMA RenameEffect ==
    ASSUME IInv, NEW w \in Writer, Rename(w)
    PROVE  /\ pc[w] = "rename" /\ tmp[PidOf[w]] # None
           /\ bytes[tmp[PidOf[w]]] = val[w]
           /\ dest' = tmp[PidOf[w]]
           /\ tmp' = [tmp EXCEPT ![PidOf[w]] = None]
           /\ pc' = [pc EXCEPT ![w] = "ok"]
           /\ UNCHANGED <<bytes, val, fd>>
BY DEF IInv, RenamesItsOwn, Rename, TmpOf

LEMMA RenameStep ==
    ASSUME OwnProcess, IInv, NEW w \in Writer, Rename(w)
    PROVE  IInv'
<1>0. /\ PidOf[w] \in Pid
      /\ \A v \in Writer : PidOf[v] \in Pid /\ (v # w => PidOf[v] # PidOf[w])
  BY WritersAssumption DEF OwnProcess, WritersAssumption
<1>1. TypeOK'
  BY <1>0, RenameEffect DEF IInv, TypeOK
<1>2. NamesApart'
  BY <1>0, RenameEffect DEF IInv, TypeOK, NamesApart
<1>3. OpensItsOwn'
  BY <1>0, RenameEffect DEF IInv, TypeOK, OpensItsOwn
<1>4. RenamesItsOwn'
  BY <1>0, RenameEffect DEF IInv, TypeOK, RenamesItsOwn
<1>5. DestWhole'
  BY RenameEffect DEF IInv, TypeOK, DestWhole
<1>6. NobodyFails'
  BY RenameEffect DEF IInv, TypeOK, NobodyFails
<1> QED
  BY <1>1, <1>2, <1>3, <1>4, <1>5, <1>6 DEF IInv

LEMMA ReturnStep ==
    ASSUME IInv, NEW w \in Writer, Return(w)
    PROVE  IInv'
<1> USE DEF IInv, Return
<1>1. TypeOK'
  BY NoValType DEF TypeOK
<1>2. NamesApart' /\ DestWhole'
  BY DEF NamesApart, DestWhole
<1>3. OpensItsOwn' /\ RenamesItsOwn' /\ NobodyFails'
  BY DEF TypeOK, OpensItsOwn, RenamesItsOwn, NobodyFails
<1> QED
  BY <1>1, <1>2, <1>3

LEMMA DieStep ==
    ASSUME IInv, NEW q \in Pid, Die(q)
    PROVE  IInv'
<1> USE DEF IInv, Die
<1>1. TypeOK'
  BY NoValType DEF TypeOK
<1>2. NamesApart' /\ DestWhole'
  BY DEF NamesApart, DestWhole
<1>3. OpensItsOwn' /\ RenamesItsOwn' /\ NobodyFails'
  BY DEF TypeOK, OpensItsOwn, RenamesItsOwn, NobodyFails
<1> QED
  BY <1>1, <1>2, <1>3

LEMMA NextStep == ASSUME OwnProcess, IInv, [Next]_vars PROVE IInv'
<1>1. ASSUME NEW w \in Writer, Begin(w) \/ Create(w) \/ WriteAll(w) \/ Rename(w) \/ Return(w)
      PROVE  IInv'
  BY <1>1, BeginStep, CreateStep, WriteAllStep, RenameStep, ReturnStep
<1>2. ASSUME NEW q \in Pid, Die(q) PROVE IInv'
  BY <1>2, DieStep
<1>3. CASE UNCHANGED vars
  BY <1>3 DEF vars, IInv, TypeOK, NamesApart, OpensItsOwn, RenamesItsOwn, DestWhole, NobodyFails
<1> QED
  BY <1>1, <1>2, <1>3 DEF Next

\* The inductive invariant holds for any writers that are processes of their
\* own.
THEOREM Invariance == ASSUME OwnProcess PROVE Spec => []IInv
<1>1. Init => IInv
  BY InitIInv
<1>2. IInv /\ [Next]_vars => IInv'
  BY OwnProcess, NextStep
<1> QED
  BY <1>1, <1>2, PTL DEF Spec

\* util/fs.rs lines 6-8: a reader of pgbackrest.conf or init_sql never gets
\* truncated or mixed bytes, whatever processes write it, fail or die.
THEOREM Untruncated == ASSUME OwnProcess PROVE Spec => []NeverTruncated
<1>1. IInv => NeverTruncated
  BY WritersAssumption DEF WritersAssumption, IInv, DestWhole, NeverTruncated, Content
<1> QED
  BY <1>1, Invariance, PTL

\* No process makes another one's rename fail.
THEOREM EverySucceeds == ASSUME OwnProcess PROVE Spec => []NobodyFails
<1>1. IInv => NobodyFails
  BY DEF IInv
<1> QED
  BY <1>1, Invariance, PTL

\* The destination changes only when a rename publishes its own writer's
\* content, whole.
THEOREM Publication == ASSUME OwnProcess PROVE Spec => PublishedWhole
<1> DEFINE Whole == Content' # Content =>
        \E w \in Writer : pc[w] = "rename" /\ pc'[w] = "ok" /\ Content' = val[w]
<1>1. ASSUME IInv, [Next]_vars PROVE [Whole]_vars
  <2>1. ASSUME NEW w \in Writer, Begin(w) \/ Return(w) PROVE Whole
    BY <2>1 DEF Begin, Return, Content
  <2>2. ASSUME NEW w \in Writer, Create(w) PROVE Content' = Content
    BY <1>1, <2>2, WritersAssumption
    DEF WritersAssumption, Create, TmpOf, Unused, IInv, TypeOK, NamesApart, Content
  <2>3. ASSUME NEW w \in Writer, WriteAll(w) PROVE Content' = Content
    <3>1. fd[w] = tmp[PidOf[w]] /\ fd[w] # None /\ PidOf[w] \in Pid
      BY <1>1, <2>3, WritersAssumption
      DEF WritersAssumption, WriteAll, IInv, TypeOK, OpensItsOwn
    <3>2. fd[w] # dest
      BY <1>1, <3>1 DEF IInv, NamesApart
    <3> QED
      BY <1>1, <2>3, <3>2 DEF WriteAll, IInv, TypeOK, Content
  <2>4. ASSUME NEW w \in Writer, Rename(w) PROVE Whole
    <3>1. pc[w] = "rename" /\ pc'[w] = "ok" /\ Content' = val[w]
      BY <1>1, <2>4, RenameEffect DEF IInv, TypeOK, Content
    <3> QED
      BY <3>1
  <2>5. ASSUME NEW q \in Pid, Die(q) PROVE Content' = Content
    BY <2>5 DEF Die, Content
  <2> QED
    BY <1>1, <2>1, <2>2, <2>3, <2>4, <2>5 DEF Next
<1>2. Spec => [][Whole]_vars
  BY <1>1, Invariance, PTL DEF Spec
<1> QED
  BY <1>2 DEF PublishedWhole
=============================================================================
