------------------------------ MODULE TuiProofs ------------------------------
(***************************************************************************)
(* Proofs about Tui, for any instances, any number of operations at once   *)
(* and a channel of any length.                                            *)
(***************************************************************************)
EXTENDS Tui, FiniteSetTheorems, TLAPS

-----------------------------------------------------------------------------
(* Positions in a sorted list                                              *)

LEMMA RowsFinite ==
    ASSUME NEW S \in SUBSET Name
    PROVE  IsFiniteSet(S) /\ S \subseteq Nat /\ Cardinality(S) \in Nat
BY NamesAreOrdered, FS_Subset, FS_CardinalityType DEF NamesAreOrdered

LEMMA PosType ==
    ASSUME NEW S \in SUBSET Name, NEW n
    PROVE  Pos(S, n) \in Nat
<1>1. {m \in S : m < n} \in SUBSET Name
  OBVIOUS
<1> QED
  BY <1>1, RowsFinite DEF Pos

\* A name comes before those that are greater, and each position is inside the list.
LEMMA PosGrows ==
    ASSUME NEW S \in SUBSET Name, NEW m \in S, NEW n \in Name, m < n
    PROVE  Pos(S, m) < Pos(S, n)
<1> DEFINE M == {k \in S : k < m}
           B == {k \in S : k < n}
<1>1. S \subseteq Nat /\ m \in Nat /\ n \in Nat /\ M \in SUBSET Name /\ B \in SUBSET Name
  BY NamesAreOrdered DEF NamesAreOrdered
<1>2. IsFiniteSet(M) /\ IsFiniteSet(B) /\ Cardinality(M) \in Nat /\ Cardinality(B) \in Nat
  BY <1>1, RowsFinite
<1>3. m \notin M /\ M \cup {m} \in SUBSET B
  <2>1. m \notin M /\ m \in B
    BY <1>1
  <2>2. ASSUME NEW k \in M PROVE k \in B
    BY <1>1, <2>2
  <2> QED
    BY <2>1, <2>2
<1> HIDE DEF M, B
<1>4. Cardinality(M \cup {m}) = Cardinality(M) + 1
  BY <1>2, <1>3, FS_AddElement
<1>5. Cardinality(M \cup {m}) <= Cardinality(B)
  BY <1>2, <1>3, FS_Subset
<1>6. Cardinality(M) < Cardinality(B)
  BY <1>2, <1>4, <1>5
<1> QED
  BY <1>6 DEF Pos, M, B

LEMMA PosInside ==
    ASSUME NEW S \in SUBSET Name, NEW n \in S
    PROVE  Pos(S, n) < Cardinality(S)
<1> DEFINE M == {k \in S : k < n}
<1>1. IsFiniteSet(S) /\ n \in Nat /\ M \in SUBSET S /\ n \notin M /\ M \in SUBSET Name
  BY RowsFinite
<1>2. Cardinality(M) <= Cardinality(S) /\ (Cardinality(S) = Cardinality(M) => S = M)
  BY <1>1, FS_Subset
<1>3. Cardinality(M) \in Nat /\ Cardinality(S) \in Nat /\ S # M
  BY <1>1, RowsFinite
<1> HIDE DEF M
<1>4. Cardinality(M) < Cardinality(S)
  BY <1>2, <1>3
<1> QED
  BY <1>4 DEF Pos, M

LEMMA PosIsOne ==
    ASSUME NEW S \in SUBSET Name, NEW m \in S, NEW n \in S, Pos(S, m) = Pos(S, n)
    PROVE  m = n
<1>1. m \in Nat /\ n \in Nat /\ m \in Name /\ n \in Name
  BY RowsFinite
<1>2. ~(m < n) /\ ~(n < m)
  BY <1>1, PosGrows, PosType
<1> QED
  BY <1>1, <1>2

\* Every index inside the list is the position of a name.
LEMMA PosIsEvery ==
    ASSUME NEW S \in SUBSET Name, NEW i \in Nat, i < Cardinality(S)
    PROVE  \E n \in S : Pos(S, n) = i
<1> DEFINE T == 0 .. Cardinality(S) - 1
           f == [n \in S |-> Pos(S, n)]
<1>1. IsFiniteSet(S) /\ Cardinality(S) \in Nat
  BY RowsFinite
<1>2. IsFiniteSet(T) /\ Cardinality(T) = Cardinality(S)
  <2>1. /\ 0 \in Int /\ Cardinality(S) - 1 \in Int
        /\ IF 0 > Cardinality(S) - 1 THEN Cardinality(S) = 0
           ELSE Cardinality(S) - 1 - 0 + 1 = Cardinality(S)
    BY <1>1
  <2> QED
    BY <2>1, FS_Interval
<1>3. f \in [S -> T]
  BY <1>1, PosInside, PosType
<1>4. f \in Injection(S, T)
  BY <1>3, PosIsOne DEF Injection, IsInjective
<1>5. f \in Surjection(S, T)
  BY <1>2, <1>4, FS_Injection
<1>6. i \in T
  BY <1>1
<1> QED
  BY <1>5, <1>6 DEF Surjection

\* What is selected is in the list, and the selection is its position.
LEMMA SelectedIsShown ==
    ASSUME TypeOK
    PROVE  IF instances = {} THEN Selected = None
           ELSE Selected \in instances /\ Pos(instances, Selected) = selected
<1>1. instances \in SUBSET Name /\ selected \in Nat
      /\ (selected = 0 \/ selected < Cardinality(instances))
  BY DEF TypeOK
<1>2. IsFiniteSet(instances) /\ Cardinality(instances) \in Nat
  BY <1>1, RowsFinite
<1>3. CASE instances = {}
  BY <1>1, <1>3, FS_EmptySet DEF Selected
<1>4. CASE instances # {}
  <2>1. selected < Cardinality(instances)
    BY <1>1, <1>2, <1>4, FS_EmptySet
  <2>2. \E n \in instances : Pos(instances, n) = selected
    BY <1>1, <2>1, PosIsEvery
  <2> QED
    BY <1>4, <2>1, <2>2 DEF Selected
<1> QED
  BY <1>3, <1>4

\* The selection follows the selected name into the new list, or stays inside it.
LEMMA FollowIsShown ==
    ASSUME TypeOK, NEW rows \in SUBSET Name
    PROVE  /\ Follow(rows) \in Nat
           /\ Follow(rows) = 0 \/ Follow(rows) < Cardinality(rows)
           /\ Selected \in rows => Follow(rows) = Pos(rows, Selected)
<1>1. IsFiniteSet(rows) /\ Cardinality(rows) \in Nat /\ selected \in Nat
  BY RowsFinite DEF TypeOK
<1>2. CASE Selected \in rows
  BY <1>2, PosType, PosInside DEF Follow
<1>3. CASE Selected \notin rows /\ rows = {}
  BY <1>3 DEF Follow
<1>4. CASE Selected \notin rows /\ rows # {}
  <2>1. Cardinality(rows) # 0
    BY <1>1, <1>4, FS_EmptySet
  <2> QED
    BY <1>1, <1>4, <2>1 DEF Follow
<1> QED
  BY <1>2, <1>3, <1>4

-----------------------------------------------------------------------------
(* Types                                                                   *)

LEMMA EventTypes ==
    ASSUME NEW e \in EventSet
    PROVE  /\ e.type = "listed" => e.what \in SUBSET Name
           /\ e.type \in {"started", "finished"} => e.name \in Name
BY DEF EventSet

LEMMA TaskTypes ==
    ASSUME NEW r \in TaskSet, r.stage # "idle"
    PROVE  /\ r.name \in Name /\ r.as \in {None} \cup Name /\ r.kind \in Kinds
           /\ r.stage \in {"spawned", "running", "done"}
           /\ r = [kind |-> r.kind, name |-> r.name, as |-> r.as, stage |-> r.stage]
BY DEF TaskSet, Idle

LEMMA ModalTypes ==
    ASSUME NEW r \in ModalSet
    PROVE  /\ r.kind # "create" => r.name \in Name
           /\ r.kind \in {"ask", "confirm"} => r.op \in Asks \cup {"rotate"}
           /\ r.kind = "ask" => r.op \in Asks
           /\ r.kind = "confirm" => r.as \in {None} \cup Name
BY DEF ModalSet, Modal

LEMMA SpawnType ==
    ASSUME TypeOK, NEW kind \in Kinds, NEW n \in Name, NEW as \in {None} \cup Name,
           Spawn(kind, n, as)
    PROVE  task' \in [Task -> TaskSet] /\ ops' \in 0 .. MaxOps
<1>1. [kind |-> kind, name |-> n, as |-> as, stage |-> "spawned"] \in TaskSet
  BY DEF TaskSet
<1>2. task' \in [Task -> TaskSet]
  BY <1>1 DEF TypeOK, Spawn
<1>3. ops \in 0 .. MaxOps /\ MaxOps \in Nat /\ ops < MaxOps /\ ops' = ops + 1
  BY BoundsAreNaturals DEF BoundsAreNaturals, TypeOK, Spawn
<1> QED
  BY <1>2, <1>3

\* What a modal may be, from what it is made of.
LEMMA ModalMakes ==
    ASSUME NEW n \in Name
    PROVE  /\ Modal("create", None, "create", None) \in ModalSet
           /\ \A k \in {"actions", "show", "hour"} : Modal(k, n, None, None) \in ModalSet
           /\ \A op \in Asks : Modal("ask", n, op, None) \in ModalSet
           /\ \A op \in Asks \cup {"rotate"}, as \in {None} \cup Name :
                  Modal("confirm", n, op, as) \in ModalSet
BY DEF ModalSet, Modal

LEMMA CreateModal == Modal("create", None, "create", None) \in ModalSet
BY DEF ModalSet, Modal

LEMMA KeyType ==
    ASSUME TypeOK, Key
    PROVE  TypeOK'
<1>0. /\ instances \in SUBSET Name /\ (Selected # None => Selected \in instances)
      /\ disk \in SUBSET Name /\ None \notin Name
  BY SelectedIsShown, NamesAreOrdered DEF NamesAreOrdered, TypeOK
<1>1. CASE Move
  <2>1. selected' \in Nat /\ (selected' = 0 \/ selected' < Cardinality(instances))
    BY <1>0, <1>1, RowsFinite DEF TypeOK, Move
  <2> QED
    BY <1>1, <2>1 DEF TypeOK, Move, KeyUnchanged
<1>2. CASE Open
  <2>1. modal' \in ModalSet
    BY <1>0, <1>2, ModalMakes, CreateModal DEF Open
  <2> QED
    BY <1>2, <2>1 DEF TypeOK, Open, KeyUnchanged
<1>3. CASE Choose
  <2>1. modal' = None \/ modal' \in ModalSet
    <3>1. CASE Selected = None
      BY <1>3, <3>1 DEF Choose
    <3>2. CASE Selected # None
      <4>1. Selected \in Name
        BY <1>0, <3>2
      <4>2. \A o \in Opened(Selected) : o \in ModalSet
        BY <4>1, ModalMakes DEF Opened
      <4> QED
        BY <1>3, <4>2 DEF Choose
    <3> QED
      BY <3>1, <3>2
  <2>2. task' \in [Task -> TaskSet] /\ ops' \in 0 .. MaxOps
    <3>1. CASE UNCHANGED <<task, ops>>
      BY <3>1 DEF TypeOK
    <3>2. CASE Selected # None /\ Spawn("snapshot", Selected, None)
      BY <1>0, <3>2, SpawnType DEF Kinds
    <3> QED
      BY <1>3, <3>1, <3>2 DEF Choose
  <2> QED
    BY <1>3, <2>1, <2>2 DEF TypeOK, Choose, KeyUnchanged
<1>4. CASE Submit
  <2>0. modal \in ModalSet
    BY <1>4 DEF TypeOK, Submit
  <2>1. modal' = None \/ modal' \in ModalSet
    <3>1. CASE modal.kind = "ask" /\ modal.op # "clone"
      <4>1. modal.name \in Name /\ modal.op \in Asks
        BY <2>0, <3>1, ModalTypes
      <4> QED
        BY <1>4, <3>1, <4>1, ModalMakes DEF Submit
    <3> QED
      BY <1>4, <3>1 DEF Submit
  <2>2. task' \in [Task -> TaskSet] /\ ops' \in 0 .. MaxOps
    <3>1. CASE UNCHANGED <<task, ops>>
      BY <3>1 DEF TypeOK
    <3>2. ASSUME modal.kind = "ask", NEW as \in Name, Spawn("clone", modal.name, as)
          PROVE  task' \in [Task -> TaskSet] /\ ops' \in 0 .. MaxOps
      BY <2>0, <3>2, ModalTypes, SpawnType DEF Kinds, Asks, Copies
    <3>3. ASSUME NEW as \in Name, Spawn("create", as, as)
          PROVE  task' \in [Task -> TaskSet] /\ ops' \in 0 .. MaxOps
      BY <3>3, SpawnType DEF Kinds
    <3> QED
      BY <1>4, <3>1, <3>2, <3>3 DEF Submit
  <2> QED
    BY <1>4, <2>1, <2>2 DEF TypeOK, Submit, KeyUnchanged
<1>5. CASE Confirm
  <2>1. modal.op \in Kinds /\ modal.name \in Name /\ modal.as \in {None} \cup Name
    BY <1>5, ModalTypes DEF TypeOK, Confirm, Kinds
  <2>2. task' \in [Task -> TaskSet] /\ ops' \in 0 .. MaxOps
    BY <1>5, <2>1, SpawnType DEF Confirm
  <2> QED
    BY <1>5, <2>2 DEF TypeOK, Confirm, KeyUnchanged
<1>6. CASE Dismiss
  BY <1>6 DEF TypeOK, Dismiss, KeyUnchanged
<1>7. CASE Quit
  <2>1. chan' \in Seq(EventSet)
    BY <1>7 DEF Quit
  <2>2. task' \in [Task -> TaskSet]
    BY <1>7 DEF Quit, TaskSet
  <2> QED
    BY <1>7, <2>1, <2>2 DEF TypeOK, Quit, app
<1> QED
  BY <1>1, <1>2, <1>3, <1>4, <1>5, <1>6, <1>7 DEF Key

LEMMA TakeType ==
    ASSUME chan \in Seq(EventSet), chan # <<>>
    PROVE  /\ Head(chan) \in EventSet /\ Tail(chan) \in Seq(EventSet)
           /\ Len(chan) \in Nat /\ DOMAIN chan = 1 .. Len(chan) /\ Len(chan) > 0
           /\ Head(chan) = chan[1] /\ Len(Tail(chan)) = Len(chan) - 1
           /\ DOMAIN Tail(chan) = 1 .. Len(chan) - 1
           /\ \A i \in 1 .. Len(chan) - 1 : Tail(chan)[i] = chan[i + 1]
<1> HIDE DEF EventSet
<1> QED
  OBVIOUS

LEMMA HandleType ==
    ASSUME TypeOK, Handle
    PROVE  TypeOK'
<1>0. chan \in Seq(EventSet)
  BY DEF TypeOK
<1>1. CASE Listed
  <2>1. Head(chan) \in EventSet /\ chan' \in Seq(EventSet) /\ Rows \in SUBSET Name
    BY <1>0, <1>1, TakeType, EventTypes DEF Listed, ShowRows, Take, Rows
  <2>2. instances' = Rows /\ selected' = Follow(Rows) /\ modal' \in {modal, None}
    BY <1>1 DEF Listed, ShowRows
  <2> QED
    BY <1>1, <2>1, <2>2, FollowIsShown DEF TypeOK, Listed, ShowRows, EventUnchanged
<1>2. CASE OpStarted
  <2>1. chan' \in Seq(EventSet) /\ Head(chan).name \in Name
    BY <1>0, <1>2, TakeType, EventTypes DEF OpStarted, Take
  <2> QED
    BY <1>2, <2>1 DEF TypeOK, OpStarted, EventUnchanged
<1>3. CASE OpFinished
  <2>1. chan' \in Seq(EventSet) /\ Head(chan).name \in Name
    BY <1>0, <1>3, TakeType, EventTypes DEF OpFinished, Take
  <2>2. modal' = None \/ modal' \in ModalSet
    BY <1>3, <2>1, ModalMakes DEF TypeOK, OpFinished
  <2> QED
    BY <1>3, <2>1, <2>2 DEF TypeOK, OpFinished, EventUnchanged
<1> QED
  BY <1>1, <1>2, <1>3 DEF Handle

LEMMA SendType ==
    ASSUME TypeOK, NEW e \in EventSet, Send(e)
    PROVE  chan' \in Seq(EventSet)
<1>1. chan \in Seq(EventSet) /\ chan' = Append(chan, e)
  BY DEF TypeOK, Send
<1> QED
  BY <1>1

LEMMA FaultType ==
    ASSUME TypeOK, Fault
    PROVE  faults' \in 0 .. MaxFaults
BY BoundsAreNaturals DEF BoundsAreNaturals, TypeOK, Fault

\* What makes an instance has a name for it, from its wizard on.
Makes == Copies \cup {"create"}
HasTarget ==
    /\ \A t \in Task : task[t].stage # "idle" /\ task[t].kind \in Makes => task[t].as \in Name
    /\ modal # None /\ modal.kind = "confirm" /\ modal.op \in Makes => modal.as \in Name

LEMMA OperateType ==
    ASSUME TypeOK, HasTarget, NEW t \in Task, Operate(t)
    PROVE  TypeOK'
<1>0. task \in [Task -> TaskSet] /\ task[t] \in TaskSet /\ task[t].stage # "idle"
  BY DEF TypeOK, Operate, Started, Completes, Fails, Finished
<1>1. /\ task[t].name \in Name /\ task[t].as \in {None} \cup Name /\ task[t].kind \in Kinds
      /\ task[t] = [kind |-> task[t].kind, name |-> task[t].name, as |-> task[t].as,
                    stage |-> task[t].stage]
  BY <1>0, TaskTypes
<1>2. ASSUME NEW s \in {"running", "done"}, Stage(t, s)
      PROVE  task' \in [Task -> TaskSet]
  <2>1. [task[t] EXCEPT !.stage = s] =
            [kind |-> task[t].kind, name |-> task[t].name, as |-> task[t].as, stage |-> s]
    BY <1>1
  <2>2. [task[t] EXCEPT !.stage = s] \in TaskSet
    BY <1>1, <2>1 DEF TaskSet
  <2> QED
    BY <1>0, <1>2, <2>2 DEF Stage
<1>3. CASE Started(t)
  <2>1. Event("started", task[t].name, None) \in EventSet
    BY <1>1 DEF Event, EventSet
  <2>2. chan' \in Seq(EventSet)
    BY <1>3, <2>1, SendType DEF Started
  <2> QED
    BY <1>2, <1>3, <2>2 DEF TypeOK, Started, TaskUnchanged, app
<1>4. CASE Completes(t)
  <2>1. task[t].kind \in Makes => task[t].as \in Name
    BY <1>0 DEF HasTarget
  <2>2. disk' \subseteq Name
    BY <1>4, <2>1 DEF TypeOK, Completes, Copies, Makes
  <2> QED
    BY <1>2, <1>4, <2>2 DEF TypeOK, Completes, TaskUnchanged, app
<1>5. ASSUME NEW w \in {None, "create"}, Report(t, w) PROVE TypeOK'
  <2>1. Event("finished", task[t].name, w) \in EventSet
    BY <1>1 DEF Event, EventSet
  <2>2. chan' \in Seq(EventSet)
    BY <1>5, <2>1, SendType DEF Report
  <2>3. task' \in [Task -> TaskSet]
    BY <1>0, <1>5 DEF Report, TaskSet
  <2> QED
    BY <1>5, <2>2, <2>3 DEF TypeOK, Report, TaskUnchanged, app
<1> QED
  BY <1>3, <1>4, <1>5 DEF Operate, Fails, Finished

LEMMA TypeStep ==
    ASSUME TypeOK, HasTarget, [Next]_vars
    PROVE  TypeOK'
<1>1. CASE List
  <2>1. ls # None => Event("listed", None, ls.rows) \in EventSet
    BY DEF TypeOK, Event, EventSet
  <2>2. chan' \in Seq(EventSet) /\ faults' \in 0 .. MaxFaults
    BY <1>1, <2>1, SendType, FaultType DEF List, TypeOK
  <2>3. ls' = None \/ ls' \in [rows : SUBSET Name]
    BY <1>1 DEF List, TypeOK
  <2> QED
    BY <1>1, <2>2, <2>3 DEF List, TypeOK, app
<1>2. CASE LateKey \/ Ended \/ UNCHANGED vars
  BY <1>2 DEF TypeOK, LateKey, Ended, vars, app
<1>3. CASE Elsewhere
  BY <1>3, FaultType DEF TypeOK, Elsewhere, app
<1> QED
  BY <1>1, <1>2, <1>3, KeyType, HandleType, OperateType DEF Next

LEMMA TargetStep ==
    ASSUME TypeOK, HasTarget, [Next]_vars
    PROVE  HasTarget'
<1>0. /\ task \in [Task -> TaskSet] /\ (modal = None \/ modal \in ModalSet)
      /\ Idle.stage = "idle"
  BY DEF TypeOK, Idle
<1> DEFINE OfModal(m) ==
      m # None /\ m.kind = "confirm" /\ m.op \in Makes => m.as \in Name
<1> DEFINE OfTasks(f) ==
      \A t \in Task : f[t].stage # "idle" /\ f[t].kind \in Makes => f[t].as \in Name
<1>a. HasTarget <=> OfTasks(task) /\ OfModal(modal)
  BY DEF HasTarget
<1>b. OfTasks(task') /\ OfModal(modal') => HasTarget'
  BY DEF HasTarget
<1>1. ASSUME NEW kind, NEW n, NEW as, kind \in Makes => as \in Name, Spawn(kind, n, as)
      PROVE  OfTasks(task')
  <2> DEFINE r == [kind |-> kind, name |-> n, as |-> as, stage |-> "spawned"]
  <2>1. PICK t \in Task : task' = [task EXCEPT ![t] = r]
    BY <1>1 DEF Spawn
  <2>2. r.kind \in Makes => r.as \in Name
    BY <1>1
  <2> HIDE DEF r
  <2>3. ASSUME NEW u \in Task, task'[u].stage # "idle", task'[u].kind \in Makes
        PROVE  task'[u].as \in Name
    BY <1>0, <1>a, <2>1, <2>2, <2>3
  <2> QED
    BY <2>3
<1>2. CASE Move \/ Dismiss
  BY <1>2, <1>a, <1>b DEF Move, Dismiss
<1>3. CASE Open
  <2>1. modal'.kind # "confirm"
    BY <1>3 DEF Open, Modal
  <2> QED
    BY <1>3, <1>a, <1>b, <2>1 DEF Open
<1>4. CASE Choose
  <2>1. OfTasks(task')
    BY <1>1, <1>4, <1>a DEF Choose, Makes, Copies
  <2>2. \A n : \A m \in Opened(n) : m.kind = "confirm" => m.op = "rotate"
    BY DEF Opened, Modal
  <2>3. OfModal(modal')
    BY <1>4, <2>2 DEF Choose, Makes, Copies
  <2> QED
    BY <1>b, <2>1, <2>3
<1>5. CASE Submit
  <2>1. OfTasks(task')
    BY <1>1, <1>5, <1>a DEF Submit
  <2>2. OfModal(modal')
    <3>1. CASE modal.kind = "ask" /\ modal.op # "clone"
      <4>1. PICK as \in (IF modal.op = "restore" THEN Name ELSE {None}) :
                modal' = Modal("confirm", modal.name, modal.op, as)
        BY <1>5, <3>1 DEF Submit
      <4>2. modal.op \in Asks
        BY <1>0, <1>5, <3>1, ModalTypes DEF Submit
      <4> QED
        BY <3>1, <4>1, <4>2 DEF Modal, Makes, Copies, Asks
    <3> QED
      BY <1>5, <3>1 DEF Submit
  <2> QED
    BY <1>b, <2>1, <2>2
<1>6. CASE Confirm
  <2>1. OfTasks(task')
    BY <1>1, <1>6, <1>a DEF Confirm
  <2> QED
    BY <1>6, <1>b, <2>1 DEF Confirm
<1>7. CASE Quit
  BY <1>0, <1>7, <1>a, <1>b DEF Quit, app
<1>8. CASE Listed \/ OpStarted
  BY <1>8, <1>a, <1>b DEF Listed, ShowRows, OpStarted, EventUnchanged
<1>9. CASE OpFinished
  <2>1. modal' = modal \/ modal'.kind = "show"
    BY <1>9 DEF OpFinished, Modal
  <2> QED
    BY <1>9, <1>a, <1>b, <2>1 DEF OpFinished, EventUnchanged
<1>10. ASSUME NEW t \in Task, Operate(t) PROVE HasTarget'
  <2>0. task[t].stage # "idle" /\ task[t] \in TaskSet
    BY <1>0, <1>10 DEF Operate, Started, Completes, Fails, Finished
  <2>1. ASSUME NEW s, Stage(t, s) PROVE OfTasks(task')
    <3>1. /\ task' = [task EXCEPT ![t] = [task[t] EXCEPT !.stage = s]]
          /\ [task[t] EXCEPT !.stage = s].kind = task[t].kind
          /\ [task[t] EXCEPT !.stage = s].as = task[t].as
      <4>1. task[t] = [kind |-> task[t].kind, name |-> task[t].name, as |-> task[t].as,
                       stage |-> task[t].stage]
        BY <2>0, TaskTypes
      <4> QED
        BY <2>1, <4>1 DEF Stage
    <3> QED
      BY <1>0, <1>a, <2>0, <3>1
  <2>2. ASSUME task' = [task EXCEPT ![t] = Idle] PROVE OfTasks(task')
    BY <1>0, <1>a, <2>2
  <2>3. OfTasks(task')
    BY <1>10, <2>1, <2>2 DEF Operate, Started, Completes, Fails, Finished, Report
  <2>4. modal' = modal
    BY <1>10 DEF Operate, Started, Completes, Fails, Finished, Report, TaskUnchanged, app
  <2> QED
    BY <1>a, <1>b, <2>3, <2>4
<1>11. CASE List \/ LateKey \/ Elsewhere \/ Ended \/ UNCHANGED vars
  BY <1>11, <1>a, <1>b DEF List, LateKey, Elsewhere, Ended, vars, app
<1> QED
  BY <1>2, <1>3, <1>4, <1>5, <1>6, <1>7, <1>8, <1>9, <1>10, <1>11 DEF Next, Key, Handle

TInv == TypeOK /\ HasTarget

LEMMA InitType == Init => TInv
<1> SUFFICES ASSUME Init PROVE TInv
  OBVIOUS
<1>1. chan \in Seq(EventSet) /\ task \in [Task -> TaskSet] /\ Idle.stage = "idle"
  BY DEF Init, TaskSet, Idle
<1>2. 0 \in 0 .. MaxOps /\ 0 \in 0 .. MaxFaults
  BY BoundsAreNaturals DEF BoundsAreNaturals
<1> QED
  BY <1>1, <1>2 DEF Init, TInv, TypeOK, HasTarget

LEMMA TypeInvariant == Spec => []TInv
<1>1. TInv /\ [Next]_vars => TInv'
  BY TypeStep, TargetStep DEF TInv
<1> QED
  BY <1>1, InitType, PTL DEF Spec

\* AppState and the tasks have their types, and the selection is inside the list.
THEOREM TypeCorrect == Spec => []TypeOK
<1>1. TInv => TypeOK
  BY DEF TInv
<1> QED
  BY <1>1, TypeInvariant, PTL

-----------------------------------------------------------------------------
(* Keys mean what is shown                                                 *)

LEMMA MeaningStep ==
    ASSUME TInv, TInv', KeysMeanWhatIsShown, [Next]_vars
    PROVE  KeysMeanWhatIsShown'
<1>0. /\ TypeOK /\ None \notin Name /\ instances \in SUBSET Name
      /\ modal # None => modal \in ModalSet
      /\ Selected # None => Selected \in instances
  BY SelectedIsShown, NamesAreOrdered DEF NamesAreOrdered, TInv, TypeOK
<1>1. ASSUME UNCHANGED <<instances, selected>>, modal' = None \/ modal' = modal
      PROVE  KeysMeanWhatIsShown'
  BY <1>1 DEF KeysMeanWhatIsShown, Selected, Pos
<1>2. ASSUME UNCHANGED <<instances, selected>>,
             modal'.kind \notin {"actions", "ask", "confirm", "hour"}
      PROVE  KeysMeanWhatIsShown'
  BY <1>2 DEF KeysMeanWhatIsShown
<1>3. CASE Move
  BY <1>3 DEF Move, KeysMeanWhatIsShown
<1>4. CASE Open
  <2>1. UNCHANGED <<instances, selected>>
    BY <1>4 DEF Open, KeyUnchanged
  <2>2. CASE Selected # None /\ modal' = Modal("actions", Selected, None, None)
    <3>1. Selected' = Selected /\ instances' = instances
      BY <2>1 DEF Selected, Pos
    <3>2. modal'.name = Selected
      BY <2>2 DEF Modal
    <3> QED
      BY <1>0, <2>2, <3>1, <3>2 DEF KeysMeanWhatIsShown
  <2>3. CASE modal' \in {Modal("create", None, "create", None), Modal("show", Selected, None, None)}
    BY <1>2, <2>1, <2>3 DEF Modal
  <2> QED
    BY <1>4, <2>2, <2>3 DEF Open
<1>5. CASE Choose
  <2>1. UNCHANGED <<instances, selected>>
    BY <1>5 DEF Choose, KeyUnchanged
  <2>2. ASSUME Selected # None, modal' \in Opened(Selected) PROVE KeysMeanWhatIsShown'
    <3>1. modal'.name = Selected /\ modal'.kind \in {"confirm", "ask", "hour"}
      BY <2>2 DEF Opened, Modal
    <3> QED
      BY <1>0, <2>1, <2>2, <3>1 DEF KeysMeanWhatIsShown
  <2> QED
    BY <1>1, <1>5, <2>1, <2>2 DEF Choose
<1>6. CASE Submit
  <2>1. UNCHANGED <<instances, selected>>
    BY <1>6 DEF Submit, KeyUnchanged
  <2>2. CASE modal.kind = "ask" /\ modal.op # "clone"
    <3>1. modal'.name = modal.name /\ modal'.kind = "confirm" /\ modal # None
      BY <1>6, <2>2 DEF Submit, Modal
    <3> QED
      BY <2>1, <2>2, <3>1 DEF KeysMeanWhatIsShown
  <2> QED
    BY <1>1, <1>6, <2>1, <2>2 DEF Submit
<1>7. CASE Confirm \/ Dismiss
  BY <1>1, <1>7 DEF Confirm, Dismiss, KeyUnchanged
<1>8. CASE Quit
  BY <1>1, <1>8 DEF Quit, app
<1>9. CASE Listed
  <2>1. chan \in Seq(EventSet) /\ chan # <<>> /\ Head(chan).type = "listed"
    BY <1>0, <1>9 DEF TypeOK, Listed, ShowRows, Take
  <2>2. Rows \in SUBSET Name
    BY <2>1, TakeType, EventTypes DEF Rows
  <2>3. /\ instances' = Rows /\ selected' = Follow(Rows)
        /\ modal' = IF modal # None /\ modal.name \notin Rows \cup {None} THEN None ELSE modal
    BY <1>9 DEF Listed, ShowRows
  <2> SUFFICES ASSUME modal # None, modal' = modal,
                      modal.kind \in {"actions", "ask", "confirm", "hour"}
               PROVE  /\ modal.kind = "actions" => modal.name = Selected'
                      /\ modal.name \in Rows
    BY <2>3 DEF KeysMeanWhatIsShown
  <2>4. modal.name \in Name /\ modal.name \in Rows
    BY <1>0, <2>3, ModalTypes
  <2>5. ASSUME modal.kind = "actions" PROVE modal.name = Selected'
    <3>1. modal.name = Selected
      BY <2>5 DEF KeysMeanWhatIsShown
    <3>2. Follow(Rows) = Pos(Rows, Selected)
      BY <1>0, <2>2, <2>4, <3>1, FollowIsShown
    <3>3. selected' = Pos(Rows, Selected) /\ Selected \in Rows
      BY <2>3, <2>4, <3>1, <3>2
    <3>4. Pos(Rows, Selected) < Cardinality(Rows)
      BY <2>2, <3>3, PosInside
    <3>5. Selected' = CHOOSE n \in Rows : Pos(Rows, n) = Pos(Rows, Selected)
      BY <2>3, <3>3, <3>4 DEF Selected, Pos
    <3>6. \A n \in Rows : Pos(Rows, n) = Pos(Rows, Selected) => n = Selected
      BY <2>2, <3>3, PosIsOne
    <3>7. Selected' = Selected
      BY <3>3, <3>5, <3>6
    <3> QED
      BY <3>1, <3>7
  <2> QED
    BY <2>4, <2>5
<1>10. CASE OpStarted
  BY <1>1, <1>10 DEF OpStarted
<1>11. CASE OpFinished
  <2>1. modal' = modal \/ modal' = Modal("show", Head(chan).name, None, None)
    BY <1>11 DEF OpFinished
  <2> QED
    BY <1>1, <1>2, <1>11, <2>1 DEF OpFinished, Modal
<1>12. ASSUME NEW t \in Task, Operate(t) PROVE KeysMeanWhatIsShown'
  BY <1>1, <1>12 DEF Operate, Started, Completes, Fails, Finished, Report, TaskUnchanged, app
<1>13. CASE List \/ LateKey \/ Elsewhere \/ Ended \/ UNCHANGED vars
  BY <1>1, <1>13 DEF List, LateKey, Elsewhere, Ended, vars, app
<1> QED
  BY <1>3, <1>4, <1>5, <1>6, <1>7, <1>8, <1>9, <1>10, <1>11, <1>12, <1>13 DEF Next, Key, Handle

\* tui/app.rs lines 110-139: whatever listing arrives between two keys, the menu
\* is about the selection, and a question about an instance that is in the list.
THEOREM Meaning == Spec => []KeysMeanWhatIsShown
<1>1. Init => KeysMeanWhatIsShown
  BY DEF Init, KeysMeanWhatIsShown
<1>2. TInv /\ TInv' /\ KeysMeanWhatIsShown /\ [Next]_vars => KeysMeanWhatIsShown'
  BY MeaningStep
<1> QED
  BY <1>1, <1>2, TypeInvariant, PTL DEF Spec

-----------------------------------------------------------------------------
(* Every spinner has an operation                                          *)

AtWork(f, n) == \E t \in Task : f[t].name = n /\ f[t].stage \notin {"idle", "spawned"}
Finishes(c, i, n) == i \in DOMAIN c /\ c[i].type = "finished" /\ c[i].name = n

\* An OpStarted on its way comes before the OpFinished of that name.
StartsFirst ==
    Alive => \A i \in DOMAIN chan : chan[i].type = "started" =>
        AtWork(task, chan[i].name) \/ \E j \in DOMAIN chan : i < j /\ Finishes(chan, j, chan[i].name)

Spins == Alive => \A n \in inProgress : AtWork(task, n) \/ \E j \in DOMAIN chan : Finishes(chan, j, n)

OInv == StartsFirst /\ Spins

\* The tasks do as they did, and an event that is not an OpFinished is taken or
\* a listing is sent.
LEMMA QuietOps ==
    ASSUME TInv, OInv, UNCHANGED <<chan, inProgress>>, Alive' => Alive,
           \A n \in Name : AtWork(task, n) => AtWork(task', n)
    PROVE  OInv'
<1>1. chan \in Seq(EventSet) /\ inProgress \subseteq Name
  BY DEF TInv, TypeOK
<1>2. \A i \in DOMAIN chan : chan[i].type = "started" => chan[i].name \in Name
  BY <1>1, EventTypes
<1>3. \A i, n : Finishes(chan', i, n) <=> Finishes(chan, i, n)
  BY DEF Finishes
<1> QED
  BY <1>1, <1>2, <1>3 DEF OInv, StartsFirst, Spins

LEMMA SpawnWorks ==
    ASSUME TypeOK, NEW kind, NEW n, NEW as, Spawn(kind, n, as)
    PROVE  \A m : AtWork(task, m) => AtWork(task', m)
BY DEF TypeOK, Spawn, AtWork

LEMMA TaskWorks ==
    ASSUME TInv, NEW t \in Task, NEW s \in {"running", "done"}, Stage(t, s),
           task[t].stage # "idle"
    PROVE  (\A m : AtWork(task, m) => AtWork(task', m)) /\ AtWork(task', task[t].name)
<1>1. /\ task \in [Task -> TaskSet]
      /\ task[t] = [kind |-> task[t].kind, name |-> task[t].name, as |-> task[t].as,
                    stage |-> task[t].stage]
  BY TaskTypes DEF TInv, TypeOK
<1>2. task' = [task EXCEPT ![t] = [kind |-> task[t].kind, name |-> task[t].name,
                                   as |-> task[t].as, stage |-> s]]
  <2>1. [task[t] EXCEPT !.stage = s] = [kind |-> task[t].kind, name |-> task[t].name,
                                        as |-> task[t].as, stage |-> s]
    BY <1>1
  <2> QED
    BY <2>1 DEF Stage
<1>3. task'[t].name = task[t].name /\ task'[t].stage = s
  BY <1>1, <1>2
<1>4. \A u \in Task : u # t => task'[u] = task[u]
  BY <1>1, <1>2
<1>5. AtWork(task', task[t].name)
  BY <1>3 DEF AtWork
<1>6. ASSUME NEW m, AtWork(task, m) PROVE AtWork(task', m)
  BY <1>3, <1>4, <1>6 DEF AtWork
<1> QED
  BY <1>5, <1>6

\* An event joins the channel.
LEMMA Joined ==
    ASSUME chan \in Seq(EventSet), NEW e \in EventSet, Send(e)
    PROVE  /\ Len(chan) \in Nat /\ DOMAIN chan = 1 .. Len(chan)
           /\ DOMAIN chan' = 1 .. Len(chan) + 1
           /\ \A i \in 1 .. Len(chan) : chan'[i] = chan[i]
           /\ chan'[Len(chan) + 1] = e
<1>1. chan' = Append(chan, e)
  BY DEF Send
<1> HIDE DEF EventSet
<1> QED
  BY <1>1

\* What joins may be a listing, an OpFinished, or an OpStarted of a task at work.
LEMMA SendOps ==
    ASSUME TInv, OInv, NEW e \in EventSet, Send(e), UNCHANGED <<inProgress, loop>>,
           \A m \in Name : AtWork(task, m) => AtWork(task', m) \/ (e.type = "finished" /\ e.name = m),
           e.type = "started" => AtWork(task', e.name)
    PROVE  OInv'
<1> DEFINE k == Len(chan)
<1>1. /\ k \in Nat /\ DOMAIN chan = 1 .. k /\ DOMAIN chan' = 1 .. k + 1
      /\ \A i \in 1 .. k : chan'[i] = chan[i]
      /\ chan'[k + 1] = e
  BY Joined DEF TInv, TypeOK
<1>2. \A i \in 1 .. k : chan[i].type = "started" => chan[i].name \in Name
  BY <1>1, EventTypes DEF TInv, TypeOK
<1>3. inProgress \subseteq Name /\ (Alive' <=> Alive)
  BY DEF TInv, TypeOK, Alive
<1> HIDE DEF k
<1>4. \A n : \A i \in 1 .. k : Finishes(chan, i, n) => Finishes(chan', i, n)
  BY <1>1 DEF Finishes
<1>5. \A m \in Name : AtWork(task, m) => AtWork(task', m) \/ Finishes(chan', k + 1, m)
  BY <1>1 DEF Finishes
<1>6. StartsFirst'
  <2> SUFFICES ASSUME Alive, NEW i \in 1 .. k + 1, chan'[i].type = "started"
               PROVE  \/ AtWork(task', chan'[i].name)
                      \/ \E j \in 1 .. k + 1 : i < j /\ Finishes(chan', j, chan'[i].name)
    BY <1>1, <1>3 DEF StartsFirst
  <2>1. CASE i = k + 1
    BY <1>1, <2>1
  <2>2. CASE i \in 1 .. k
    <3>1. /\ chan'[i] = chan[i] /\ chan[i].name \in Name /\ k + 1 \in 1 .. k + 1 /\ i < k + 1
          /\ \A j \in 1 .. k : j \in 1 .. k + 1
      BY <1>1, <1>2, <2>2
    <3>2. \/ AtWork(task, chan[i].name)
          \/ \E j \in 1 .. k : i < j /\ Finishes(chan, j, chan[i].name)
      BY <1>1, <2>2, <3>1 DEF OInv, StartsFirst
    <3> QED
      BY <1>4, <1>5, <3>1, <3>2
  <2> QED
    BY <1>1, <2>1, <2>2
<1>7. Spins'
  <2> SUFFICES ASSUME Alive, NEW n \in inProgress
               PROVE  AtWork(task', n) \/ \E j \in 1 .. k + 1 : Finishes(chan', j, n)
    BY <1>1, <1>3 DEF Spins
  <2>1. AtWork(task, n) \/ \E j \in 1 .. k : Finishes(chan, j, n)
    BY <1>1 DEF OInv, Spins
  <2>2. k + 1 \in 1 .. k + 1 /\ \A j \in 1 .. k : j \in 1 .. k + 1
    BY <1>1
  <2> QED
    BY <1>3, <1>4, <1>5, <2>1, <2>2
<1> QED
  BY <1>6, <1>7 DEF OInv

\* The loop takes an event: an OpStarted that it takes still has what comes after it.
LEMMA TakeOps ==
    ASSUME TInv, OInv, NEW type, Take(type), UNCHANGED <<loop, task>>,
           \A n \in inProgress' :
               \/ n \in inProgress /\ ~Finishes(chan, 1, n)
               \/ type = "started" /\ n = Head(chan).name
    PROVE  OInv'
<1> DEFINE k == Len(chan)
<1>1. /\ k \in Nat /\ k > 0 /\ DOMAIN chan = 1 .. k /\ DOMAIN chan' = 1 .. k - 1
      /\ \A i \in 1 .. k - 1 : chan'[i] = chan[i + 1]
      /\ Head(chan) = chan[1] /\ chan[1].type = type
  BY TakeType DEF TInv, TypeOK, Take
<1>2. Alive' = Alive /\ \A n : AtWork(task', n) <=> AtWork(task, n)
  BY DEF Alive, AtWork
<1> HIDE DEF k
<1>3. \A n : \A j \in 1 .. k : Finishes(chan, j, n) => j = 1 \/ (j - 1 \in 1 .. k - 1 /\ Finishes(chan', j - 1, n))
  <2> SUFFICES ASSUME NEW j \in 1 .. k, NEW n, Finishes(chan, j, n), j # 1
               PROVE  j - 1 \in 1 .. k - 1 /\ Finishes(chan', j - 1, n)
    OBVIOUS
  <2>1. j - 1 \in 1 .. k - 1 /\ (j - 1) + 1 = j
    BY <1>1
  <2>2. chan'[j - 1] = chan[j]
    BY <1>1, <2>1
  <2> QED
    BY <1>1, <2>1, <2>2 DEF Finishes
<1>4. StartsFirst'
  <2> SUFFICES ASSUME Alive, NEW i \in 1 .. k - 1, chan'[i].type = "started"
               PROVE  \/ AtWork(task', chan'[i].name)
                      \/ \E j \in 1 .. k - 1 : i < j /\ Finishes(chan', j, chan'[i].name)
    BY <1>1, <1>2 DEF StartsFirst
  <2>1. chan'[i] = chan[i + 1] /\ i + 1 \in 1 .. k
    BY <1>1
  <2>2. CASE AtWork(task, chan'[i].name)
    BY <1>2, <2>2
  <2>3. ASSUME NEW j \in 1 .. k, i + 1 < j, Finishes(chan, j, chan'[i].name)
        PROVE  \E l \in 1 .. k - 1 : i < l /\ Finishes(chan', l, chan'[i].name)
    <3>1. j # 1 /\ i < j - 1
      BY <1>1, <2>3
    <3> QED
      BY <1>3, <2>3, <3>1
  <2> QED
    BY <1>1, <2>1, <2>2, <2>3 DEF OInv, StartsFirst
<1>5. Spins'
  <2> SUFFICES ASSUME Alive, NEW n \in inProgress'
               PROVE  AtWork(task', n) \/ \E j \in 1 .. k - 1 : Finishes(chan', j, n)
    BY <1>1, <1>2 DEF Spins
  <2>1. CASE n \in inProgress /\ ~Finishes(chan, 1, n)
    BY <1>1, <1>2, <1>3, <2>1 DEF OInv, Spins
  <2>2. CASE type = "started" /\ n = Head(chan).name
    <3>1. 1 \in DOMAIN chan /\ chan[1].type = "started" /\ n = chan[1].name
      BY <1>1, <2>2
    <3>2. AtWork(task, n) \/ \E j \in 1 .. k : 1 < j /\ Finishes(chan, j, n)
      BY <1>1, <3>1 DEF OInv, StartsFirst
    <3> QED
      BY <1>2, <1>3, <3>2
  <2> QED
    BY <2>1, <2>2
<1> QED
  BY <1>4, <1>5 DEF OInv

LEMMA OpsStep ==
    ASSUME TInv, TInv', OInv, [Next]_vars
    PROVE  OInv'
<1>0. TypeOK
  BY DEF TInv
<1>1. CASE Move \/ Open \/ Dismiss
  BY <1>1, QuietOps DEF Move, Open, Dismiss, KeyUnchanged, AtWork, Alive
<1>2. CASE Choose \/ Submit \/ Confirm
  <2>1. \A m : AtWork(task, m) => AtWork(task', m)
    BY <1>0, <1>2, SpawnWorks DEF Choose, Submit, Confirm, AtWork
  <2>2. UNCHANGED <<chan, inProgress, loop>>
    BY <1>2 DEF Choose, Submit, Confirm, KeyUnchanged
  <2> QED
    BY <2>1, <2>2, QuietOps DEF Alive
<1>3. CASE Quit \/ LateKey
  BY <1>3 DEF Quit, LateKey, OInv, StartsFirst, Spins, Alive
<1>4. CASE Listed
  <2>1. Take("listed") /\ UNCHANGED <<inProgress, loop, task>>
    BY <1>4 DEF Listed, ShowRows, EventUnchanged
  <2>2. ~\E n : Finishes(chan, 1, n)
    BY <1>0, <2>1, TakeType DEF TypeOK, Take, Finishes
  <2> QED
    BY <2>1, <2>2, TakeOps
<1>5. CASE OpStarted
  <2>1. /\ Take("started") /\ UNCHANGED <<loop, task>>
        /\ inProgress' = inProgress \cup {Head(chan).name}
    BY <1>5 DEF OpStarted, EventUnchanged
  <2>2. ~\E n : Finishes(chan, 1, n)
    BY <1>0, <2>1, TakeType DEF TypeOK, Take, Finishes
  <2> QED
    BY <2>1, <2>2, TakeOps
<1>6. CASE OpFinished
  <2>1. /\ Take("finished") /\ UNCHANGED <<loop, task>>
        /\ inProgress' = inProgress \ {Head(chan).name}
    BY <1>6 DEF OpFinished, EventUnchanged
  <2>2. \A n : Finishes(chan, 1, n) => n = Head(chan).name
    BY <1>0, <2>1, TakeType DEF TypeOK, Take, Finishes
  <2> QED
    BY <2>1, <2>2, TakeOps
<1>7. ASSUME NEW t \in Task, Operate(t) PROVE OInv'
  <2>0. /\ task[t].stage \in {"spawned", "running", "done"} /\ task[t].name \in Name
        /\ task \in [Task -> TaskSet]
        /\ UNCHANGED <<inProgress, loop>>
    <3>1. task[t].stage # "idle" /\ task \in [Task -> TaskSet] /\ task[t] \in TaskSet
      BY <1>0, <1>7 DEF TypeOK, Operate, Started, Completes, Fails, Finished
    <3>2. UNCHANGED <<inProgress, loop>>
      BY <1>7 DEF Operate, Started, Completes, Fails, Finished, Report, TaskUnchanged, app
    <3> QED
      BY <3>1, <3>2, TaskTypes
  <2>1. CASE Started(t)
    <3>1. LET e == Event("started", task[t].name, None)
          IN  e \in EventSet /\ Send(e) /\ e.type = "started" /\ e.name = task[t].name
      BY <2>0, <2>1 DEF Started, Event, EventSet
    <3>2. (\A m : AtWork(task, m) => AtWork(task', m)) /\ AtWork(task', task[t].name)
      BY <2>0, <2>1, TaskWorks DEF Started
    <3> QED
      BY <2>0, <3>1, <3>2, SendOps
  <2>2. CASE Completes(t)
    <3>1. \A m : AtWork(task, m) => AtWork(task', m)
      BY <2>0, <2>2, TaskWorks DEF Completes
    <3> QED
      BY <2>0, <2>2, <3>1, QuietOps DEF Completes, Alive
  <2>3. ASSUME NEW w \in {None, "create"}, Report(t, w) PROVE OInv'
    <3>1. LET e == Event("finished", task[t].name, w)
          IN  e \in EventSet /\ Send(e) /\ e.type = "finished" /\ e.name = task[t].name
      BY <2>0, <2>3 DEF Report, Event, EventSet
    <3>2. \A u \in Task : u # t => task'[u] = task[u]
      BY <2>0, <2>3 DEF Report
    <3>3. \A m : AtWork(task, m) => AtWork(task', m) \/ m = task[t].name
      BY <3>2 DEF AtWork
    <3> QED
      BY <2>0, <3>1, <3>3, SendOps
  <2> QED
    BY <1>7, <2>1, <2>2, <2>3 DEF Operate, Fails, Finished
<1>8. CASE List
  <2>0. UNCHANGED <<inProgress, loop, task>>
    BY <1>8 DEF List, app
  <2>1. CASE chan' = chan
    BY <2>0, <2>1, QuietOps DEF Alive, AtWork
  <2>2. CASE ls # None /\ Send(Event("listed", None, ls.rows))
    <3>1. LET e == Event("listed", None, ls.rows) IN e \in EventSet /\ e.type = "listed"
      BY <1>0, <2>2 DEF TypeOK, Event, EventSet
    <3> QED
      BY <2>0, <2>2, <3>1, SendOps DEF AtWork
  <2> QED
    BY <1>8, <2>1, <2>2 DEF List
<1>9. CASE Elsewhere \/ Ended \/ UNCHANGED vars
  BY <1>9, QuietOps DEF Elsewhere, Ended, vars, app, AtWork, Alive
<1> QED
  BY <1>1, <1>2, <1>3, <1>4, <1>5, <1>6, <1>7, <1>8, <1>9 DEF Next, Key, Handle

\* tui/app.rs lines 192-224: however many operations share a name and in whatever
\* order they end, no spinner is left without one.
THEOREM SpinnersEnd == Spec => []SpinnerHasOp
<1>1. Init => OInv
  BY DEF Init, OInv, StartsFirst, Spins
<1>2. TInv /\ TInv' /\ OInv /\ [Next]_vars => OInv'
  BY OpsStep
<1>3. OInv => SpinnerHasOp
  BY DEF OInv, Spins, AtWork, Finishes, SpinnerHasOp
<1> QED
  BY <1>1, <1>2, <1>3, TypeInvariant, PTL DEF Spec
=============================================================================
