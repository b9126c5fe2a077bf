------------------------------ MODULE DueRunProofs ------------------------------
(***************************************************************************)
(* Proofs about DueRun, for any number of instances, any hours and any     *)
(* length of the backups: type correctness, that no instance is attempted  *)
(* more than twice while another one waits, how long one may wait, and     *)
(* which instances have a backup every day.                                *)
(***************************************************************************)
EXTENDS DueRun, FiniteSetTheorems, TLAPS

LEMMA InitType == Init => TypeOK
<1> SUFFICES ASSUME Init PROVE TypeOK
  OBVIOUS
<1>1. over \in [Inst -> [Inst -> Nat]] /\ wait \in [Inst -> Nat]
  BY DEF Init
<1>2. hour \in [Inst -> Hours \cup {Off}] /\ up \in [Inst -> BOOLEAN]
  BY DEF Init
<1>3. lastOk \in [Inst -> Stamp] /\ lastTry \in [Inst -> Stamp]
  BY DEF Init, Stamp
<1> QED
  BY <1>1, <1>2, <1>3 DEF Init, TypeOK

LEMMA SeenType ==
    ASSUME TypeOK, NEW S, NEW d \in Nat, Seen(S, d)
    PROVE  over' \in [Inst -> [Inst -> Nat]] /\ wait' \in [Inst -> Nat]
<1> DEFINE still(n) == Waiting(n) /\ Waiting(n)' /\ n \notin S
<1>1. /\ over' = [n \in Inst |-> [m \in Inst |->
                    IF still(n) THEN over[n][m] + (IF m \in S THEN 1 ELSE 0) ELSE 0]]
      /\ wait' = [n \in Inst |-> IF still(n) THEN wait[n] + d ELSE 0]
  BY DEF Seen
<1> HIDE DEF still
<1> QED
  BY <1>1 DEF TypeOK

LEMMA RecordedType ==
    ASSUME TypeOK, NEW n \in Inst, Recorded(n)
    PROVE  lastTry' \in [Inst -> Stamp]
BY DEF TypeOK, Recorded, Stamp

LEMMA RunDueType ==
    ASSUME TypeOK, List \/ Succeeds \/ Fails \/ Return
    PROVE  TypeOK'
<1>1. over' \in [Inst -> [Inst -> Nat]] /\ wait' \in [Inst -> Nat]
  <2>1. Seen({}, 0)
    BY DEF List, Succeeds, Fails, Return
  <2> QED
    BY <2>1, SeenType
<1>2. CASE List
  BY <1>1, <1>2 DEF TypeOK, List, files
<1>3. CASE Succeeds
  <2>1. cur \in Inst
    BY <1>3 DEF Succeeds, TypeOK
  <2>2. lastOk' \in [Inst -> Stamp] /\ lastTry' \in [Inst -> Stamp]
    BY <1>3, <2>1 DEF TypeOK, Succeeds, Stamp
  <2> QED
    BY <1>1, <1>3, <2>2 DEF TypeOK, Succeeds
<1>4. CASE Fails
  <2>1. cur \in Inst
    BY <1>4 DEF Fails, TypeOK
  <2> QED
    BY <1>1, <1>4, <2>1, RecordedType DEF TypeOK, Fails
<1>5. CASE Return
  BY <1>1, <1>5 DEF TypeOK, Return, files
<1> QED
  BY <1>2, <1>3, <1>4, <1>5

LEMMA InstanceType ==
    ASSUME TypeOK, NEW n \in Inst, Skip(n) \/ Begin(n) \/ FailsAtOnce(n)
    PROVE  TypeOK'
<1>1. over' \in [Inst -> [Inst -> Nat]] /\ wait' \in [Inst -> Nat]
  BY SeenType DEF Skip, Begin, FailsAtOnce
<1>2. CASE Skip(n)
  BY <1>1, <1>2 DEF TypeOK, Skip, files
<1>3. CASE Begin(n)
  BY <1>1, <1>3 DEF TypeOK, Begin, files
<1>4. CASE FailsAtOnce(n)
  BY <1>1, <1>4, RecordedType DEF TypeOK, FailsAtOnce
<1> QED
  BY <1>2, <1>3, <1>4

LEMMA EventType ==
    ASSUME TypeOK, NEW n \in Inst,
           \/ Create(n) \/ Destroy(n) \/ Outage(n) \/ Request(n) \/ ManualEnds(n)
           \/ \E h \in Hours \cup {Off} : Cron(n, h)
    PROVE  TypeOK'
<1>1. over' \in [Inst -> [Inst -> Nat]] /\ wait' \in [Inst -> Nat]
  <2>1. Seen({}, 0)
    BY DEF Create, Destroy, Outage, Request, ManualEnds, Cron
  <2> QED
    BY <2>1, SeenType
<1>2. CASE Create(n)
  <2>1. hour' \in [Inst -> Hours \cup {Off}] /\ up' \in [Inst -> BOOLEAN]
    BY <1>2 DEF TypeOK, Create
  <2>2. lastOk' \in [Inst -> Stamp] /\ lastTry' \in [Inst -> Stamp]
    BY <1>2 DEF TypeOK, Create, Stamp
  <2> QED
    BY <1>1, <1>2, <2>1, <2>2 DEF TypeOK, Create, Event, tick
<1>3. CASE Destroy(n)
  <2>1. hour' \in [Inst -> Hours \cup {Off}] /\ up' \in [Inst -> BOOLEAN]
    BY <1>3 DEF TypeOK, Destroy
  <2> QED
    BY <1>1, <1>3, <2>1 DEF TypeOK, Destroy, Event, tick
<1>4. CASE Outage(n)
  BY <1>1, <1>4 DEF TypeOK, Outage, Event, tick, files
<1>5. CASE Request(n)
  BY <1>1, <1>5 DEF TypeOK, Request, Event, tick, files
<1>6. CASE ManualEnds(n)
  <2>1. lastOk' \in [Inst -> Stamp] /\ lastTry' \in [Inst -> Stamp]
    BY <1>6 DEF TypeOK, ManualEnds, Stamp
  <2> QED
    BY <1>1, <1>6, <2>1 DEF TypeOK, ManualEnds, tick
<1>7. ASSUME NEW h \in Hours \cup {Off}, Cron(n, h)
      PROVE  TypeOK'
  <2>1. hour' \in [Inst -> Hours \cup {Off}]
    BY <1>7 DEF TypeOK, Cron
  <2> QED
    BY <1>1, <1>7, <2>1 DEF TypeOK, Cron, Event, tick
<1> QED
  BY <1>2, <1>3, <1>4, <1>5, <1>6, <1>7

LEMMA NextType == TypeOK /\ [Next]_vars => TypeOK'
<1> SUFFICES ASSUME TypeOK, [Next]_vars PROVE TypeOK'
  OBVIOUS
<1>1. CASE UNCHANGED vars
  BY <1>1 DEF vars, files, tick, TypeOK
<1>2. CASE Kill
  <2>1. over' \in [Inst -> [Inst -> Nat]] /\ wait' \in [Inst -> Nat]
    BY <1>2 DEF Kill
  <2>2. events' \in Nat /\ on' = FALSE /\ todo' = {} /\ cur' = None
    BY <1>2 DEF TypeOK, Kill, Event
  <2>3. UNCHANGED <<now, here, hour, lastOk, lastTry, up, manual, since, fired>>
    BY <1>2 DEF Kill, files
  <2> QED
    BY <2>1, <2>2, <2>3 DEF TypeOK
<1>3. CASE Advance
  <2>1. over' \in [Inst -> [Inst -> Nat]] /\ wait' \in [Inst -> Nat]
    BY <1>3, SeenType DEF Advance
  <2>2. now' \in Nat /\ fired' = FALSE
    BY <1>3 DEF TypeOK, Advance
  <2>3. UNCHANGED <<here, hour, lastOk, lastTry, up, manual, on, todo, cur, since, events>>
    BY <1>3 DEF Advance, files, tick
  <2> QED
    BY <2>1, <2>2, <2>3 DEF TypeOK
<1> QED
  BY <1>1, <1>2, <1>3, RunDueType, InstanceType, EventType DEF Next

\* Every variable keeps its type.
THEOREM TypeCorrect == Spec => []TypeOK
<1> QED
  BY InitType, NextType, PTL DEF Spec

-----------------------------------------------------------------------------
(* No overtaking                                                           *)

\* An attempt at m takes m off the tick's list, so that a tick makes one at
\* most, and a tick that passes n does so when n does not wait or because it is
\* n's turn. So far, one attempt at m may have come in this tick, if m is not
\* still to come, and one in the tick before, if n is still to come in this one.
Credit(n, m) == (IF n \in todo THEN 1 ELSE 0) + (IF m \in todo THEN 0 ELSE 1)

WithinCredit == \A n, m \in Inst : over[n][m] <= Credit(n, m)

ListOfTick == ~on => todo = {}

LEMMA InitCredit == Init => WithinCredit /\ ListOfTick
BY DEF Init, WithinCredit, ListOfTick, Credit

\* What a step adds is one for an attempt, and only for those still waiting.
LEMMA SeenCounts ==
    ASSUME TypeOK, NEW S, NEW d \in Nat, Seen(S, d), NEW n \in Inst, NEW m \in Inst
    PROVE  \/ over'[n][m] = 0
           \/ /\ Waiting(n) /\ n \notin S
              /\ over'[n][m] = over[n][m] + (IF m \in S THEN 1 ELSE 0)
<1> DEFINE still(k) == Waiting(k) /\ Waiting(k)' /\ k \notin S
<1>1. over' = [k \in Inst |-> [l \in Inst |->
                 IF still(k) THEN over[k][l] + (IF l \in S THEN 1 ELSE 0) ELSE 0]]
  BY DEF Seen
<1>2. over'[n][m] = IF still(n) THEN over[n][m] + (IF m \in S THEN 1 ELSE 0) ELSE 0
  <2> HIDE DEF still
  <2> QED
    BY <1>1
<1> QED
  BY <1>2

\* A step that begins no attempt and takes nobody off the list who waits.
LEMMA NoAttempt ==
    ASSUME TypeOK, WithinCredit, NEW d \in Nat, Seen({}, d),
           \A n \in Inst : Waiting(n) =>
               /\ n \in todo <=> n \in todo'
               /\ \A m \in Inst : m \in todo' => m \in todo
    PROVE  WithinCredit'
<1> SUFFICES ASSUME NEW n \in Inst, NEW m \in Inst PROVE over'[n][m] <= Credit(n, m)'
  BY DEF WithinCredit
<1>1. over'[n][m] = 0 \/ (Waiting(n) /\ over'[n][m] = over[n][m])
  BY SeenCounts DEF TypeOK
<1>2. over[n][m] <= Credit(n, m) /\ over[n][m] \in Nat
  BY DEF WithinCredit, TypeOK
<1> QED
  BY <1>1, <1>2 DEF Credit

LEMMA AttemptStep ==
    ASSUME TypeOK, WithinCredit, NEW k \in Inst, k \in todo, todo' = todo \ {k}, Seen({k}, 0)
    PROVE  WithinCredit'
<1> SUFFICES ASSUME NEW n \in Inst, NEW m \in Inst PROVE over'[n][m] <= Credit(n, m)'
  BY DEF WithinCredit
<1>1. \/ over'[n][m] = 0
      \/ n # k /\ over'[n][m] = over[n][m] + (IF m = k THEN 1 ELSE 0)
  BY SeenCounts
<1>2. over[n][m] <= Credit(n, m) /\ over[n][m] \in Nat
  BY DEF WithinCredit, TypeOK
<1> QED
  BY <1>1, <1>2 DEF Credit

LEMMA ListStep ==
    ASSUME TypeOK, WithinCredit, ListOfTick, List
    PROVE  WithinCredit'
<1> SUFFICES ASSUME NEW n \in Inst, NEW m \in Inst PROVE over'[n][m] <= Credit(n, m)'
  BY DEF WithinCredit
<1>1. over'[n][m] = 0 \/ (Waiting(n) /\ over'[n][m] = over[n][m])
  <2>1. Seen({}, 0)
    BY DEF List
  <2> QED
    BY <2>1, SeenCounts DEF TypeOK
<1>2. over[n][m] <= Credit(n, m) /\ over[n][m] \in Nat /\ todo = {} /\ todo' = here
  BY DEF WithinCredit, TypeOK, ListOfTick, List
<1>3. Waiting(n) => n \in here
  BY DEF Waiting
<1> QED
  BY <1>1, <1>2, <1>3 DEF Credit

LEMMA NextCredit ==
    ASSUME TypeOK, WithinCredit, ListOfTick, [Next]_vars
    PROVE  WithinCredit' /\ ListOfTick'
<1>1. CASE UNCHANGED vars
  BY <1>1 DEF vars, tick, WithinCredit, ListOfTick, Credit
<1>2. CASE List
  BY <1>2, ListStep DEF List, ListOfTick
<1>3. CASE Succeeds \/ Fails \/ Return \/ Advance
  <2>1. todo' = todo /\ (on' => on) /\ (~on' => todo = {})
    BY <1>3 DEF Succeeds, Fails, Return, Advance, tick, ListOfTick
  <2>2. Seen({}, 0) \/ Seen({}, 1)
    BY <1>3 DEF Succeeds, Fails, Return, Advance
  <2> QED
    BY <2>1, <2>2, NoAttempt DEF ListOfTick
<1>4. CASE Kill
  BY <1>4 DEF Kill, WithinCredit, ListOfTick, Credit
<1>5. ASSUME NEW k \in Inst, Skip(k)
      PROVE  WithinCredit' /\ ListOfTick'
  <2>1. ~Waiting(k)
    BY <1>5 DEF Skip, Waiting
  <2> QED
    BY <1>5, <2>1, NoAttempt DEF Skip, ListOfTick
<1>6. ASSUME NEW k \in Inst, Begin(k) \/ FailsAtOnce(k)
      PROVE  WithinCredit' /\ ListOfTick'
  BY <1>6, AttemptStep DEF Begin, FailsAtOnce, ListOfTick
<1>7. ASSUME NEW k \in Inst,
             \/ Create(k) \/ Destroy(k) \/ Outage(k) \/ Request(k) \/ ManualEnds(k)
             \/ \E h \in Hours \cup {Off} : Cron(k, h)
      PROVE  WithinCredit' /\ ListOfTick'
  <2>1. UNCHANGED tick /\ Seen({}, 0)
    BY <1>7 DEF Create, Destroy, Outage, Request, ManualEnds, Cron
  <2> QED
    BY <2>1, NoAttempt DEF tick, ListOfTick
<1> QED
  BY <1>1, <1>2, <1>3, <1>4, <1>5, <1>6, <1>7 DEF Next

\* snapshot.rs lines 25-62: one instance that keeps failing, or takes its time,
\* is attempted twice at most before any other that is due has its turn.
THEOREM NobodyOvertakes == Spec => []NoOvertaking
<1>1. TypeOK /\ WithinCredit => NoOvertaking
  BY DEF TypeOK, WithinCredit, Credit, NoOvertaking
<1> QED
  BY <1>1, InitType, NextType, InitCredit, NextCredit, PTL DEF Spec

-----------------------------------------------------------------------------
(* Waiting                                                                 *)

\* The other instances that this tick is done with.
Done(n) == (Inst \ {n}) \ (todo \cup {cur})

\* How long the backup that is awaited has taken.
Elapsed == IF cur = None THEN 0 ELSE now - since

\* One backup of every other instance, or the time to the next tick.
Share(n) == IF Inst = {n} THEN 1 ELSE Long * (Cardinality(Inst) - 1)

\* What n may have waited for since it was passed: the rest of one tick, as long
\* as n is still to come in this one, and what this one has done so far.
Bound(n) ==
    IF on THEN (IF n \in todo THEN Share(n) ELSE 0) + Long * Cardinality(Done(n)) + Elapsed
          ELSE Share(n)

\* If the timer has fired in this very unit of time, its tick took no time, and
\* whoever is not to come any more has been passed just now.
WithinBound ==
    \A n \in Inst : /\ wait[n] <= Bound(n)
                    /\ wait[n] # 0 => (fired => n \in todo) /\ Waiting(n)

TickShape ==
    /\ ~on => todo = {} /\ cur = None
    /\ cur \notin todo
    /\ cur # None => since <= now /\ now - since <= Long

WInv == TypeOK /\ TickShape /\ WithinBound

LEMMA LongTimes ==
    ASSUME NEW c \in Nat, NEW d \in Nat, c <= d
    PROVE  /\ Long * c \in Nat /\ Long * (c + 1) = Long * c + Long
           /\ Long * c <= Long * d
<1>1. Long \in Nat
  BY DueRunAssumption DEF DueRunAssumption
<1>2. Long * c \in Nat /\ Long * (c + 1) = Long * c + Long
  BY <1>1
<1>3. PICK e \in Nat : d = c + e
  <2> WITNESS d - c \in Nat
  <2> QED
    OBVIOUS
<1>4. Long * e \in Nat /\ Long * d = Long * c + Long * e
  BY <1>1, <1>3
<1> QED
  BY <1>2, <1>4

\* What there is to count.
LEMMA Counted ==
    ASSUME NEW n \in Inst
    PROVE  /\ IsFiniteSet(Inst) /\ Cardinality(Inst) \in Nat \ {0}
           /\ Cardinality(Inst) - 1 \in Nat
           /\ IsFiniteSet(Inst \ {n}) /\ Cardinality(Inst \ {n}) = Cardinality(Inst) - 1
           /\ Share(n) \in Nat \ {0} /\ Share(n) >= Long * (Cardinality(Inst) - 1)
<1>1. IsFiniteSet(Inst) /\ Long \in Nat \ {0}
  BY DueRunAssumption DEF DueRunAssumption
<1>2. Cardinality(Inst) \in Nat /\ Cardinality(Inst) # 0
  BY <1>1, FS_CardinalityType, FS_EmptySet
<1>3. IsFiniteSet(Inst \ {n}) /\ Cardinality(Inst \ {n}) = Cardinality(Inst) - 1
  BY <1>1, FS_RemoveElement
<1>4. CASE Inst = {n}
  <2>1. Inst \ {n} = {}
    BY <1>4
  <2>2. Cardinality(Inst) - 1 = 0
    BY <1>3, <2>1, FS_EmptySet
  <2> QED
    BY <1>1, <1>2, <1>3, <1>4, <2>2 DEF Share
<1>5. CASE Inst # {n}
  <2>1. Inst \ {n} # {}
    BY <1>5
  <2>2. Cardinality(Inst) - 1 \in Nat /\ Cardinality(Inst) - 1 >= 1
    BY <1>2, <1>3, <2>1, FS_CardinalityType, FS_EmptySet
  <2>3. Long * 1 <= Long * (Cardinality(Inst) - 1)
    BY <2>2, LongTimes
  <2>4. Long * (Cardinality(Inst) - 1) \in Nat
    BY <2>2, LongTimes
  <2> QED
    BY <1>1, <1>2, <1>3, <1>5, <2>3, <2>4 DEF Share
<1> QED
  BY <1>4, <1>5

LEMMA PartCounted ==
    ASSUME NEW n \in Inst, NEW D \in SUBSET (Inst \ {n})
    PROVE  /\ IsFiniteSet(D) /\ Cardinality(D) \in Nat
           /\ Cardinality(D) <= Cardinality(Inst) - 1
           /\ Long * Cardinality(D) \in Nat
           /\ Long * Cardinality(D) <= Long * (Cardinality(Inst) - 1)
<1>1. /\ IsFiniteSet(Inst \ {n}) /\ Cardinality(Inst \ {n}) = Cardinality(Inst) - 1
      /\ Cardinality(Inst) \in Nat \ {0}
  BY Counted
<1>2. /\ IsFiniteSet(D) /\ Cardinality(D) \in Nat
      /\ Cardinality(D) <= Cardinality(Inst) - 1
  BY <1>1, FS_Subset, FS_CardinalityType
<1> QED
  BY <1>1, <1>2, LongTimes

LEMMA DoneIsPart ==
    ASSUME NEW n \in Inst
    PROVE  Done(n) \in SUBSET (Inst \ {n}) /\ Done(n)' \in SUBSET (Inst \ {n})
BY DEF Done

LEMMA ElapsedType ==
    ASSUME TypeOK, TickShape
    PROVE  Elapsed \in Nat /\ Elapsed <= Long
<1>1. Long \in Nat /\ now \in Nat /\ since \in Nat
  BY DueRunAssumption DEF TypeOK, DueRunAssumption
<1> QED
  BY <1>1 DEF Elapsed, TickShape

LEMMA Between ==
    ASSUME NEW a \in Nat, NEW b \in Nat, b <= a, a - b <= Long
    PROVE  a - b \in Nat /\ a - b <= Long
OBVIOUS

LEMMA NextElapsedType ==
    ASSUME TypeOK', TickShape'
    PROVE  Elapsed' \in Nat /\ Elapsed' <= Long
<1>1. Long \in Nat /\ now' \in Nat /\ since' \in Nat
  BY DueRunAssumption DEF TypeOK, DueRunAssumption
<1>2. CASE cur' = None
  BY <1>1, <1>2 DEF Elapsed
<1>3. CASE cur' # None
  <2>1. since' <= now' /\ now' - since' <= Long
    BY <1>3 DEF TickShape
  <2>2. now' - since' \in Nat /\ now' - since' <= Long
    BY <1>1, <2>1, Between
  <2> QED
    BY <1>3, <2>2 DEF Elapsed
<1> QED
  BY <1>2, <1>3

\* Only those go on waiting who wait before and after and are not attempted.
LEMMA SeenWaits ==
    ASSUME TypeOK, NEW S, NEW d \in Nat, Seen(S, d), NEW n \in Inst
    PROVE  \/ wait'[n] = 0
           \/ Waiting(n) /\ Waiting(n)' /\ n \notin S /\ wait'[n] = wait[n] + d
<1> DEFINE still(k) == Waiting(k) /\ Waiting(k)' /\ k \notin S
<1>1. wait' = [k \in Inst |-> IF still(k) THEN wait[k] + d ELSE 0]
  BY DEF Seen
<1>2. wait'[n] = IF still(n) THEN wait[n] + d ELSE 0
  <2> HIDE DEF still
  <2> QED
    BY <1>1
<1> QED
  BY <1>2

\* Of an instance that has not waited there is nothing to show.
LEMMA NothingToShow ==
    ASSUME TypeOK', TickShape',
           \A n \in Inst : wait'[n] # 0 =>
               /\ wait'[n] <= Bound(n)'
               /\ fired' => n \in todo'
               /\ Waiting(n)'
    PROVE  WInv'
<1> SUFFICES ASSUME NEW n \in Inst, wait'[n] = 0 PROVE 0 <= Bound(n)'
  BY DEF WInv, WithinBound
<1>1. Share(n) \in Nat
  BY Counted
<1>2. Long * Cardinality(Done(n)') \in Nat
  BY DoneIsPart, PartCounted
<1>3. Elapsed' \in Nat
  BY NextElapsedType
<1>4. Share(n)' = Share(n)
  BY DEF Share
<1> QED
  BY <1>1, <1>2, <1>3, <1>4 DEF Bound

LEMMA InitWait == Init => WInv
<1> SUFFICES ASSUME Init PROVE WInv
  OBVIOUS
<1>1. TypeOK /\ TickShape
  BY InitType DEF Init, TickShape
<1>2. ASSUME NEW n \in Inst PROVE wait[n] = 0 /\ 0 <= Bound(n)
  <2>1. Share(n) \in Nat
    BY Counted
  <2>2. wait[n] = 0 /\ on = FALSE
    BY DEF Init
  <2> QED
    BY <2>1, <2>2 DEF Bound
<1> QED
  BY <1>1, <1>2 DEF WInv, WithinBound

\* A step of no time that leaves the tick's list and the backup it awaits alone.
LEMMA SameTick ==
    ASSUME WInv, TypeOK', UNCHANGED <<tick, now, fired>>, Seen({}, 0)
    PROVE  WInv'
<1>1. TickShape'
  BY DEF WInv, TickShape, tick
<1>2. ASSUME NEW n \in Inst, wait'[n] # 0
      PROVE  wait'[n] <= Bound(n)' /\ (fired' => n \in todo') /\ Waiting(n)'
  <2>1. Bound(n)' = Bound(n)
    BY DEF Bound, Done, Elapsed, Share, tick
  <2>2. wait'[n] = wait[n] /\ Waiting(n)'
    <3>1. wait[n] \in Nat
      BY DEF WInv, TypeOK
    <3> QED
      BY <1>2, <3>1, SeenWaits DEF WInv
  <2> QED
    BY <1>2, <2>1, <2>2 DEF WInv, WithinBound, tick
<1> QED
  BY <1>1, <1>2, NothingToShow

\* k is taken off the list, and whoever waits on is another one.
LEMMA OffTheList ==
    ASSUME WInv, TypeOK', NEW k \in Inst, k \in todo, cur = None, todo' = todo \ {k},
           cur' = None \/ (cur' = k /\ since' = now), UNCHANGED <<on, now, fired>>,
           NEW S, Seen(S, 0), k \in S \/ ~Waiting(k)
    PROVE  WInv'
<1>1. TickShape'
  <2>1. now \in Nat /\ Long \in Nat /\ None \notin Inst
    BY DueRunAssumption DEF WInv, TypeOK, DueRunAssumption
  <2>2. on' /\ cur' \notin todo'
    BY <2>1 DEF WInv, TickShape, TypeOK
  <2>3. cur' # None => since' <= now' /\ now' - since' <= Long
    <3> SUFFICES ASSUME cur' # None PROVE since' <= now' /\ now' - since' <= Long
      OBVIOUS
    <3>1. since' = now /\ now' = now
      OBVIOUS
    <3> QED
      BY <2>1, <3>1
  <2> QED
    BY <2>2, <2>3 DEF TickShape
<1>2. ASSUME NEW n \in Inst, wait'[n] # 0
      PROVE  wait'[n] <= Bound(n)' /\ (fired' => n \in todo') /\ Waiting(n)'
  <2>1. n # k /\ wait'[n] = wait[n] /\ Waiting(n)'
    <3>1. wait[n] \in Nat
      BY DEF WInv, TypeOK
    <3> QED
      BY <1>2, <3>1, SeenWaits DEF WInv
  <2>2. wait[n] <= Bound(n) /\ (fired => n \in todo)
    BY <1>2, <2>1 DEF WInv, WithinBound
  <2>3. Elapsed = 0 /\ Elapsed' = 0
    <3>1. now \in Nat /\ now' = now /\ (cur' # None => since' = now)
      BY DEF WInv, TypeOK
    <3> QED
      BY <3>1 DEF Elapsed
  <2>4. Long * Cardinality(Done(n)) <= Long * Cardinality(Done(n)')
    <3>1. Done(n) \subseteq Done(n)'
      BY DueRunAssumption DEF Done, DueRunAssumption
    <3>2. /\ IsFiniteSet(Done(n)') /\ Cardinality(Done(n)') \in Nat
          /\ Cardinality(Done(n)) \in Nat
      BY DoneIsPart, PartCounted
    <3>3. Cardinality(Done(n)) <= Cardinality(Done(n)')
      BY <3>1, <3>2, FS_Subset
    <3> QED
      BY <3>2, <3>3, LongTimes
  <2>5. on /\ on'
    BY DEF WInv, TickShape
  <2>6. /\ Bound(n) = (IF n \in todo THEN Share(n) ELSE 0) + Long * Cardinality(Done(n))
        /\ Bound(n)' = (IF n \in todo THEN Share(n) ELSE 0) + Long * Cardinality(Done(n)')
    <3>1. /\ Long * Cardinality(Done(n)) \in Nat /\ Long * Cardinality(Done(n)') \in Nat
          /\ Share(n) \in Nat
      BY Counted, DoneIsPart, PartCounted
    <3> QED
      BY <2>1, <2>3, <2>5, <3>1 DEF Bound, Share
  <2>7. /\ Long * Cardinality(Done(n)) \in Nat /\ Long * Cardinality(Done(n)') \in Nat
        /\ Share(n) \in Nat /\ wait[n] \in Nat
    BY Counted, DoneIsPart, PartCounted DEF WInv, TypeOK
  <2> QED
    BY <2>1, <2>2, <2>4, <2>6, <2>7
<1> QED
  BY <1>1, <1>2, NothingToShow

\* Whoever waits when a tick begins is on its list.
LEMMA ListWaits ==
    ASSUME WInv, TypeOK', List
    PROVE  WInv'
<1>1. TickShape'
  <2>1. cur = None /\ cur' = None /\ on' = TRUE /\ todo' = here
    BY DEF WInv, TickShape, List
  <2>2. None \notin here
    BY DueRunAssumption DEF DueRunAssumption, WInv, TypeOK
  <2> QED
    BY <2>1, <2>2 DEF TickShape
<1>2. ASSUME NEW n \in Inst, wait'[n] # 0
      PROVE  wait'[n] <= Bound(n)' /\ (fired' => n \in todo') /\ Waiting(n)'
  <2>1. wait[n] \in Nat
    BY DEF WInv, TypeOK
  <2>2. Seen({}, 0)
    BY DEF List
  <2>3. wait'[n] = wait[n] /\ Waiting(n) /\ Waiting(n)'
    BY <1>2, <2>1, <2>2, SeenWaits DEF WInv
  <2>4. wait[n] <= Share(n)
    BY DEF WInv, WithinBound, Bound, List
  <2>5. n \in todo'
    BY <2>3 DEF Waiting, List
  <2>6. /\ Long * Cardinality(Done(n)') \in Nat /\ Share(n) \in Nat /\ Share(n)' = Share(n)
        /\ Elapsed' \in Nat
    BY <1>1, Counted, DoneIsPart, PartCounted, NextElapsedType DEF Share
  <2>7. Bound(n)' = Share(n) + Long * Cardinality(Done(n)') + Elapsed'
    BY <2>5, <2>6 DEF Bound, List
  <2> QED
    BY <2>1, <2>3, <2>4, <2>5, <2>6, <2>7
<1> QED
  BY <1>1, <1>2, NothingToShow

\* A backup that ends is one more that the tick is done with.
LEMMA EndWaits ==
    ASSUME WInv, TypeOK', Succeeds \/ Fails
    PROVE  WInv'
<1>1. cur # None /\ cur' = None /\ UNCHANGED <<on, todo, now, since, fired>> /\ Seen({}, 0)
  BY DEF Succeeds, Fails
<1>2. TickShape'
  <2>1. None \notin todo
    BY DueRunAssumption DEF DueRunAssumption, WInv, TypeOK
  <2> QED
    BY <1>1, <2>1 DEF WInv, TickShape
<1>3. ASSUME NEW n \in Inst, wait'[n] # 0
      PROVE  wait'[n] <= Bound(n)' /\ (fired' => n \in todo') /\ Waiting(n)'
  <2>1. wait[n] \in Nat
    BY DEF WInv, TypeOK
  <2>2. wait'[n] = wait[n] /\ Waiting(n) /\ Waiting(n)'
    BY <1>1, <1>3, <2>1, SeenWaits DEF WInv
  <2>3. cur # n /\ cur \in Inst /\ cur \notin todo /\ on
    BY <1>1, <2>2 DEF Waiting, WInv, TypeOK, TickShape
  <2>4. Done(n)' = Done(n) \cup {cur} /\ cur \notin Done(n)
    BY <1>1, <2>3, DueRunAssumption DEF Done, DueRunAssumption
  <2>5. IsFiniteSet(Done(n)) /\ Cardinality(Done(n)) \in Nat
    BY DoneIsPart, PartCounted
  <2>6. Cardinality(Done(n)') = Cardinality(Done(n)) + 1
    BY <2>4, <2>5, FS_AddElement
  <2>7. /\ Long * Cardinality(Done(n)) \in Nat
        /\ Long * Cardinality(Done(n)') = Long * Cardinality(Done(n)) + Long
    BY <2>5, <2>6, LongTimes
  <2>8. Share(n) \in Nat /\ Elapsed \in Nat /\ Elapsed <= Long /\ Long \in Nat
    BY Counted, ElapsedType, DueRunAssumption DEF WInv, DueRunAssumption
  <2>9. /\ Bound(n) = (IF n \in todo THEN Share(n) ELSE 0)
                        + Long * Cardinality(Done(n)) + Elapsed
        /\ Bound(n)' = (IF n \in todo THEN Share(n) ELSE 0) + Long * Cardinality(Done(n)')
    <3>1. Elapsed' = 0
      BY <1>1 DEF Elapsed
    <3> QED
      BY <1>1, <2>3, <2>7, <2>8, <3>1 DEF Bound, Share
  <2> QED
    BY <1>1, <1>3, <2>1, <2>2, <2>7, <2>8, <2>9 DEF WInv, WithinBound
<1> QED
  BY <1>2, <1>3, NothingToShow

\* What a tick took is what the next one may keep them waiting for.
LEMMA ReturnWaits ==
    ASSUME WInv, TypeOK', Return
    PROVE  WInv'
<1>1. /\ on /\ todo = {} /\ cur = None /\ on' = FALSE /\ Seen({}, 0)
      /\ UNCHANGED <<now, fired, todo, cur, since>>
  BY DEF Return
<1>2. TickShape'
  BY <1>1 DEF WInv, TickShape
<1>3. ASSUME NEW n \in Inst, wait'[n] # 0
      PROVE  wait'[n] <= Bound(n)' /\ (fired' => n \in todo') /\ Waiting(n)'
  <2>1. wait[n] \in Nat
    BY DEF WInv, TypeOK
  <2>2. wait'[n] = wait[n] /\ Waiting(n)'
    BY <1>1, <1>3, <2>1, SeenWaits DEF WInv
  <2>3. /\ Long * Cardinality(Done(n)) <= Share(n) /\ Long * Cardinality(Done(n)) \in Nat
        /\ Share(n) \in Nat
    <3>1. /\ Long * Cardinality(Done(n)) \in Nat
          /\ Long * Cardinality(Done(n)) <= Long * (Cardinality(Inst) - 1)
      BY DoneIsPart, PartCounted
    <3>2. /\ Share(n) \in Nat /\ Share(n) >= Long * (Cardinality(Inst) - 1)
          /\ Long * (Cardinality(Inst) - 1) \in Nat
      <4>1. Cardinality(Inst) - 1 \in Nat
        BY Counted
      <4>2. Long * (Cardinality(Inst) - 1) \in Nat
        BY <4>1, LongTimes
      <4> QED
        BY <4>2, Counted
    <3> QED
      BY <3>1, <3>2
  <2>4. Bound(n) = Long * Cardinality(Done(n))
    BY <1>1, <2>3 DEF Bound, Elapsed
  <2>5. Bound(n)' = Share(n)
    BY <1>1 DEF Bound, Share
  <2> QED
    BY <1>1, <1>3, <2>1, <2>2, <2>3, <2>4, <2>5 DEF WInv, WithinBound
<1> QED
  BY <1>2, <1>3, NothingToShow

\* A unit passes: of the backup that is awaited, or to the next tick.
LEMMA AdvanceWaits ==
    ASSUME WInv, TypeOK', Advance
    PROVE  WInv'
<1>1. /\ now' = now + 1 /\ fired' = FALSE /\ Seen({}, 1)
      /\ UNCHANGED <<on, todo, cur, since>>
  BY DEF Advance, tick
<1>2. now \in Nat /\ since \in Nat /\ Long \in Nat
  BY DueRunAssumption DEF WInv, TypeOK, DueRunAssumption
<1>3. on => cur # None /\ now - since < Long
  BY DEF Advance
<1>4. TickShape'
  BY <1>1, <1>2, <1>3 DEF WInv, TickShape
<1>5. ASSUME NEW n \in Inst, wait'[n] # 0
      PROVE  wait'[n] <= Bound(n)' /\ (fired' => n \in todo') /\ Waiting(n)'
  <2>1. wait[n] \in Nat
    BY DEF WInv, TypeOK
  <2>2. wait'[n] = wait[n] + 1 /\ Waiting(n)'
    BY <1>1, <1>5, <2>1, SeenWaits DEF WInv
  <2>3. CASE on
    <3>1. Elapsed' = Elapsed + 1 /\ Elapsed \in Nat
      BY <1>1, <1>2, <1>3, <2>3, ElapsedType DEF Elapsed, WInv
    <3>2. Done(n)' = Done(n) /\ Share(n)' = Share(n)
      BY <1>1 DEF Done, Share
    <3>3. Long * Cardinality(Done(n)) \in Nat /\ Share(n) \in Nat
      BY Counted, DoneIsPart, PartCounted
    <3>4. /\ Bound(n) = (IF n \in todo THEN Share(n) ELSE 0)
                          + Long * Cardinality(Done(n)) + Elapsed
          /\ Bound(n)' = (IF n \in todo THEN Share(n) ELSE 0)
                           + Long * Cardinality(Done(n)) + Elapsed'
      BY <1>1, <2>3, <3>2 DEF Bound
    <3> QED
      BY <1>1, <2>1, <2>2, <3>1, <3>3, <3>4 DEF WInv, WithinBound
  <2>4. CASE ~on
    <3>1. fired /\ n \notin todo
      BY <2>4 DEF Advance, WInv, TickShape
    <3>2. wait[n] = 0
      BY <3>1 DEF WInv, WithinBound
    <3>3. Bound(n)' = Share(n) /\ Share(n) \in Nat \ {0}
      BY <1>1, <2>4, Counted DEF Bound, Share
    <3> QED
      BY <1>1, <2>2, <3>2, <3>3
  <2> QED
    BY <2>3, <2>4
<1> QED
  BY <1>4, <1>5, NothingToShow

LEMMA NextWait == WInv /\ [Next]_vars => WInv'
<1> SUFFICES ASSUME WInv, [Next]_vars PROVE WInv'
  OBVIOUS
<1>0. TypeOK'
  BY NextType DEF WInv
<1>1. CASE UNCHANGED vars
  <2>1. UNCHANGED <<on, todo, cur, since, now, fired, wait, here, up, manual, hour, lastOk, lastTry>>
    BY <1>1 DEF vars, tick, files
  <2>2. \A n \in Inst : Bound(n)' = Bound(n) /\ (Waiting(n)' <=> Waiting(n))
    BY <2>1 DEF Bound, Done, Elapsed, Share, Waiting, IsDue, Date
  <2> QED
    BY <1>0, <2>1, <2>2 DEF WInv, TickShape, WithinBound
<1>2. CASE Kill
  <2>1. TickShape'
    BY <1>2, DueRunAssumption DEF Kill, TickShape, DueRunAssumption
  <2>2. \A n \in Inst : wait'[n] = 0
    BY <1>2 DEF Kill
  <2> QED
    BY <1>0, <2>1, <2>2, NothingToShow
<1>3. ASSUME NEW k \in Inst, Skip(k)
      PROVE  WInv'
  <2>1. ~Waiting(k)
    BY <1>3 DEF Skip, Waiting
  <2> QED
    BY <1>0, <1>3, <2>1, OffTheList DEF Skip
<1>4. ASSUME NEW k \in Inst, Begin(k) \/ FailsAtOnce(k)
      PROVE  WInv'
  BY <1>0, <1>4, OffTheList DEF Begin, FailsAtOnce
<1>5. ASSUME NEW k \in Inst,
             \/ Create(k) \/ Destroy(k) \/ Outage(k) \/ Request(k) \/ ManualEnds(k)
             \/ \E h \in Hours \cup {Off} : Cron(k, h)
      PROVE  WInv'
  <2>1. UNCHANGED <<tick, now, fired>> /\ Seen({}, 0)
    BY <1>5 DEF Create, Destroy, Outage, Request, ManualEnds, Cron
  <2> QED
    BY <1>0, <2>1, SameTick
<1> QED
  BY <1>0, <1>1, <1>2, <1>3, <1>4, <1>5, ListWaits, EndWaits, ReturnWaits, AdvanceWaits
     DEF Next

\* A tick that is not at n's own backup has taken no longer than one backup of
\* every other instance.
LEMMA TickTakes ==
    ASSUME WInv, NEW n \in Inst, cur # n
    PROVE  Long * Cardinality(Done(n)) + Elapsed <= Long * (Cardinality(Inst) - 1)
<1>1. /\ IsFiniteSet(Done(n)) /\ Cardinality(Done(n)) \in Nat
      /\ Long * Cardinality(Done(n)) \in Nat
      /\ Long * Cardinality(Done(n)) <= Long * (Cardinality(Inst) - 1)
      /\ Cardinality(Inst) - 1 \in Nat
  BY Counted, DoneIsPart, PartCounted
<1>2. Elapsed \in Nat /\ Elapsed <= Long /\ Long \in Nat
  BY ElapsedType, DueRunAssumption DEF WInv, DueRunAssumption
<1>3. Long * (Cardinality(Inst) - 1) \in Nat
  BY <1>1, LongTimes
<1>4. CASE cur = None
  BY <1>1, <1>3, <1>4 DEF Elapsed
<1>5. CASE cur # None
  <2>1. cur \in Inst \ {n} /\ cur \notin Done(n)
    BY <1>5 DEF WInv, TypeOK, Done
  <2>2. Done(n) \cup {cur} \in SUBSET (Inst \ {n})
    BY <2>1, DoneIsPart
  <2>3. Cardinality(Done(n) \cup {cur}) = Cardinality(Done(n)) + 1
    BY <1>1, <2>1, FS_AddElement
  <2>4. /\ Long * (Cardinality(Done(n)) + 1) <= Long * (Cardinality(Inst) - 1)
        /\ Long * (Cardinality(Done(n)) + 1) = Long * Cardinality(Done(n)) + Long
    BY <1>1, <2>2, <2>3, PartCounted, LongTimes
  <2> QED
    BY <1>1, <1>2, <1>3, <2>4
<1> QED
  BY <1>4, <1>5

LEMMA WithinLimit == WInv => WaitIsBounded
<1> SUFFICES ASSUME WInv, NEW n \in Inst
             PROVE  wait[n] <= IF Inst = {n} THEN 1 ELSE 2 * (Cardinality(Inst) - 1) * Long
  BY DEF WaitIsBounded, LongestWait
<1> DEFINE P == Long * (Cardinality(Inst) - 1)
<1>1. Cardinality(Inst) - 1 \in Nat /\ Long \in Nat
  BY Counted, DueRunAssumption DEF DueRunAssumption
<1>2. P \in Nat /\ 2 * (Cardinality(Inst) - 1) * Long = P + P
  BY <1>1, LongTimes
<1>3. Inst = {n} => P = 0
  <2> SUFFICES ASSUME Inst = {n} PROVE Cardinality(Inst) - 1 = 0
    BY <1>1
  <2>1. Inst \ {n} = {}
    OBVIOUS
  <2> QED
    BY <2>1, Counted, FS_EmptySet
<1>4. /\ wait[n] \in Nat /\ wait[n] <= Bound(n)
      /\ wait[n] # 0 => Waiting(n)
  BY DEF WInv, TypeOK, WithinBound
<1>5. ASSUME wait[n] # 0 PROVE Bound(n) <= Share(n) + P
  <2>1. cur # n
    BY <1>4, <1>5 DEF Waiting
  <2>2. Long * Cardinality(Done(n)) + Elapsed <= P
    BY <2>1, TickTakes
  <2>3. /\ Share(n) \in Nat /\ Elapsed \in Nat
        /\ Long * Cardinality(Done(n)) \in Nat
    BY Counted, DoneIsPart, PartCounted, ElapsedType DEF WInv
  <2> QED
    BY <1>2, <2>2, <2>3 DEF Bound
<1>6. Share(n) = IF Inst = {n} THEN 1 ELSE P
  BY DEF Share
<1>7. Bound(n) \in Int
  <2>1. /\ Share(n) \in Nat /\ Elapsed \in Nat
        /\ Long * Cardinality(Done(n)) \in Nat
    BY Counted, DoneIsPart, PartCounted, ElapsedType DEF WInv
  <2> QED
    BY <2>1 DEF Bound
<1> HIDE DEF P
<1> QED
  BY <1>2, <1>3, <1>4, <1>5, <1>6, <1>7

\* README, `snapshot --due`: an instance that is due and could be backed up has
\* its turn before any other has had three, so that it waits for two backups of
\* each at most, or, if it is alone, for the next tick.
THEOREM WaitsEnd == Spec => []WaitIsBounded
<1> QED
  BY InitWait, NextWait, WithinLimit, PTL DEF Spec

-----------------------------------------------------------------------------
(* Every day                                                               *)

\* When n's window opens, counted from midnight, at the latest: a backup from just
\* before midnight holds the first one up.
Opens(n) == IF hour[n] = 0 THEN HourLen - 1 ELSE hour[n] * HourLen

\* However late the window opens and however long the wait, there is time left
\* for the backup.
Fits(n) ==
    \A h \in Hours :
        (IF h = 0 THEN HourLen - 1 ELSE h * HourLen) + LongestWait(n) + Long < DayLen

\* Nothing happens to n itself, if only it is not destroyed: nobody edits it or
\* backs it up by hand, it is reachable and its backup succeeds.
Undisturbed(n) ==
    /\ n \in here' => n \in here /\ hour'[n] = hour[n] /\ up'[n]
    /\ n \notin manual'
    /\ n \in here' /\ cur = n /\ cur' # n => lastOk'[n] = now

\* To those in S nothing happens, to all others anything may; the tick is not killed.
CalmNext(S) == Next /\ ~Kill /\ \A n \in S : Undisturbed(n)

CalmSpec(S) == Init /\ [][CalmNext(S)]_vars

Covered(n) == lastOk[n] # Never /\ Date(lastOk[n]) = Date(now)
DayStart == DayLen * Date(now)

\* As long as n has no backup today, its window has not opened, or n has waited
\* ever since, or its backup began after no longer a wait than there can be.
Punctual(n) ==
    n \in here =>
        /\ up[n] /\ n \notin manual
        /\ lastTry[n] = lastOk[n] /\ (lastOk[n] # Never => lastOk[n] <= now)
        /\ hour[n] # Off /\ ~Covered(n) =>
             IF cur = n THEN since <= DayStart + Opens(n) + LongestWait(n)
                        ELSE now <= DayStart + Opens(n) + wait[n]

LEMMA DayOf ==
    ASSUME NEW t \in Nat
    PROVE  /\ Date(t) \in Nat /\ DayLen * Date(t) \in Nat
           /\ DayLen * Date(t) <= t /\ t < DayLen * Date(t) + DayLen
           /\ t % DayLen = t - DayLen * Date(t)
BY DueRunAssumption DEF DueRunAssumption, Date

LEMMA DaysApart ==
    ASSUME NEW D \in Nat \ {0}, NEW a \in Nat, NEW b \in Nat, a < b
    PROVE  D * a + D <= D * b
<1>1. PICK c \in Nat : b = a + 1 + c
  <2>1. b - (a + 1) \in Nat /\ b = a + 1 + (b - (a + 1))
    OBVIOUS
  <2> QED
    BY <2>1
<1>2. D * b = D * a + D + D * c /\ D * c \in Nat /\ D * a \in Nat
  BY <1>1
<1> QED
  BY <1>2

\* A unit of time ends the day or it does not.
LEMMA NextDay ==
    ASSUME NEW t \in Nat
    PROVE  \/ Date(t + 1) = Date(t)
           \/ DayLen * Date(t + 1) = t + 1 /\ DayLen * Date(t) + DayLen = t + 1
<1> DEFINE a == Date(t)
           b == Date(t + 1)
<1>1. /\ a \in Nat /\ DayLen \in Nat \ {0} /\ DayLen * a \in Nat
      /\ DayLen * a <= t /\ t < DayLen * a + DayLen
  BY DayOf, DueRunAssumption DEF DueRunAssumption
<1>2. /\ b \in Nat /\ DayLen * b \in Nat
      /\ DayLen * b <= t + 1 /\ t + 1 < DayLen * b + DayLen
  <2>1. t + 1 \in Nat
    OBVIOUS
  <2> QED
    BY <2>1, DayOf
<1> SUFFICES b = a \/ (DayLen * b = t + 1 /\ DayLen * a + DayLen = t + 1)
  OBVIOUS
<1> HIDE DEF a, b
<1>3. CASE a < b
  <2>1. DayLen * a + DayLen <= DayLen * b
    BY <1>1, <1>2, <1>3, DaysApart
  <2> QED
    BY <1>1, <1>2, <2>1
<1>4. CASE b < a
  <2>1. DayLen * b + DayLen <= DayLen * a
    BY <1>1, <1>2, <1>4, DaysApart
  <2> QED
    BY <1>1, <1>2, <2>1
<1> QED
  BY <1>1, <1>2, <1>3, <1>4

\* A backup of another day is one of a day before.
LEMMA Yesterday ==
    ASSUME NEW s \in Nat, NEW t \in Nat, s <= t, Date(s) # Date(t)
    PROVE  s < DayLen * Date(t)
<1> DEFINE a == Date(s)
           b == Date(t)
<1>1. /\ a \in Nat /\ b \in Nat /\ DayLen \in Nat \ {0} /\ DayLen * a \in Nat /\ DayLen * b \in Nat
      /\ DayLen * a <= s /\ s < DayLen * a + DayLen
      /\ DayLen * b <= t /\ t < DayLen * b + DayLen
  BY DayOf, DueRunAssumption DEF DueRunAssumption
<1> HIDE DEF a, b
<1>2. CASE a < b
  BY <1>1, <1>2, DaysApart DEF b
<1>3. CASE b < a
  BY <1>1, <1>3, DaysApart
<1> QED
  BY <1>1, <1>2, <1>3 DEF a, b

LEMMA OpensType ==
    ASSUME TypeOK, NEW n \in Inst, hour[n] # Off
    PROVE  /\ hour[n] \in Nat /\ hour[n] * HourLen \in Nat
           /\ Opens(n) \in Nat /\ Opens(n) >= hour[n] * HourLen /\ Opens(n) >= HourLen - 1
<1>1. hour[n] \in Hours /\ hour[n] \in Nat /\ HourLen \in Nat \ {0}
  BY DueRunAssumption DEF TypeOK, DueRunAssumption
<1>2. CASE hour[n] = 0
  BY <1>1, <1>2 DEF Opens
<1>3. CASE hour[n] # 0
  <2>1. PICK k \in Nat : hour[n] = k + 1
    <3>1. hour[n] - 1 \in Nat /\ hour[n] = (hour[n] - 1) + 1
      BY <1>1, <1>3
    <3> QED
      BY <3>1
  <2>2. hour[n] * HourLen = k * HourLen + HourLen /\ k * HourLen \in Nat
    BY <1>1, <2>1
  <2> QED
    BY <1>1, <1>3, <2>2 DEF Opens
<1> QED
  BY <1>2, <1>3

\* With its window open and no backup today, n waits unless it is being backed up.
LEMMA DueNow ==
    ASSUME TypeOK, NEW n \in Inst, n \in here, up[n], n \notin manual, cur # n,
           lastTry[n] = lastOk[n], lastOk[n] # Never => lastOk[n] <= now,
           hour[n] # Off, ~Covered(n), DayStart + Opens(n) <= now
    PROVE  Waiting(n)
<1>1. now \in Nat /\ lastOk[n] \in Stamp /\ HourLen \in Nat
  BY DueRunAssumption DEF TypeOK, DueRunAssumption
<1>2. /\ DayStart \in Nat /\ now % DayLen = now - DayStart
      /\ Opens(n) \in Nat /\ hour[n] * HourLen \in Nat
      /\ Opens(n) >= hour[n] * HourLen /\ Opens(n) >= HourLen - 1
  BY <1>1, DayOf, OpensType DEF DayStart
<1>3. now % DayLen >= hour[n] * HourLen
  BY <1>1, <1>2
<1>4. ASSUME lastOk[n] # Never PROVE ~(now - lastTry[n] < HourLen)
  <2>1. lastOk[n] \in Nat /\ lastOk[n] <= now
    BY <1>1, <1>4 DEF Stamp
  <2>2. lastOk[n] < DayStart
    BY <1>1, <1>4, <2>1, Yesterday DEF Covered, DayStart
  <2> QED
    BY <1>1, <1>2, <2>1, <2>2
<1> QED
  BY <1>3, <1>4 DEF Waiting, IsDue, Covered

LEMMA Longest ==
    ASSUME WInv, NEW n \in Inst
    PROVE  wait[n] \in Nat /\ LongestWait(n) \in Nat /\ wait[n] <= LongestWait(n)
<1>1. Cardinality(Inst) - 1 \in Nat /\ Long \in Nat
  BY Counted, DueRunAssumption DEF DueRunAssumption
<1>2. 2 * (Cardinality(Inst) - 1) * Long \in Nat
  BY <1>1
<1> QED
  BY <1>2, WithinLimit DEF WInv, TypeOK, WaitIsBounded, LongestWait

\* n waits on, for d more units.
LEMMA WaitsOn ==
    ASSUME TypeOK, NEW S, NEW d \in Nat, Seen(S, d), NEW n \in Inst, n \notin S,
           Waiting(n), Waiting(n)'
    PROVE  wait'[n] = wait[n] + d
<1> DEFINE still(k) == Waiting(k) /\ Waiting(k)' /\ k \notin S
<1>1. wait' = [k \in Inst |-> IF still(k) THEN wait[k] + d ELSE 0]
  BY DEF Seen
<1>2. still(n)
  OBVIOUS
<1> HIDE DEF still
<1> QED
  BY <1>1, <1>2

\* A step that takes no time and does not touch n's backup.
LEMMA SameDay ==
    ASSUME WInv, WInv', NEW n \in Inst, Punctual(n), Undisturbed(n), n \in here',
           now' = now, NEW S, n \notin S, Seen(S, 0), cur # n, cur' # n,
           lastOk'[n] = lastOk[n], lastTry'[n] = lastTry[n]
    PROVE  Punctual(n)'
<1>1. /\ n \in here /\ up[n] /\ n \notin manual /\ lastTry[n] = lastOk[n]
      /\ lastOk[n] # Never => lastOk[n] <= now
      /\ hour'[n] = hour[n] /\ up'[n] /\ n \notin manual'
  BY DEF Punctual, Undisturbed
<1>2. ASSUME hour[n] # Off, ~Covered(n)
      PROVE  now <= DayStart + Opens(n) + wait'[n]
  <2>1. now <= DayStart + Opens(n) + wait[n]
    BY <1>1, <1>2 DEF Punctual
  <2>2. now \in Nat /\ DayStart \in Nat /\ Opens(n) \in Nat /\ wait[n] \in Nat /\ wait'[n] \in Nat
    BY <1>2, DayOf, OpensType DEF WInv, TypeOK, DayStart
  <2>3. CASE now <= DayStart + Opens(n)
    BY <2>2, <2>3
  <2>4. CASE DayStart + Opens(n) <= now
    <3>1. Waiting(n)
      BY <1>1, <1>2, <2>4, DueNow DEF WInv
    <3>2. Waiting(n)'
      BY <1>1, <3>1 DEF Waiting, IsDue
    <3>3. wait'[n] = wait[n]
      BY <2>2, <3>1, <3>2, WaitsOn DEF WInv
    <3> QED
      BY <2>1, <3>3
  <2> QED
    BY <2>2, <2>3, <2>4
<1>3. Covered(n)' <=> Covered(n)
  BY DEF Covered
<1>4. DayStart' = DayStart /\ Opens(n)' = Opens(n)
  BY <1>1 DEF DayStart, Opens
<1> QED
  BY <1>1, <1>2, <1>3, <1>4 DEF Punctual

\* The backup of n begins: it has waited for no longer than there is to wait.
LEMMA BeginsInTime ==
    ASSUME WInv, NEW n \in Inst, Punctual(n), Undisturbed(n), Begin(n)
    PROVE  Punctual(n)'
<1>1. /\ n \in here /\ n \in here' /\ cur = None /\ cur # n /\ cur' = n /\ since' = now
      /\ UNCHANGED <<now, here, hour, lastOk, lastTry, up, manual>>
  BY DueRunAssumption DEF Begin, files, DueRunAssumption
<1>2. /\ up[n] /\ n \notin manual /\ lastTry[n] = lastOk[n]
      /\ lastOk[n] # Never => lastOk[n] <= now
      /\ hour[n] # Off /\ ~Covered(n) => now <= DayStart + Opens(n) + wait[n]
  BY <1>1 DEF Punctual
<1>3. hour[n] # Off /\ ~Covered(n) => now <= DayStart + Opens(n) + LongestWait(n)
  <2> SUFFICES ASSUME hour[n] # Off, ~Covered(n)
               PROVE  now <= DayStart + Opens(n) + LongestWait(n)
    OBVIOUS
  <2>1. now \in Nat /\ DayStart \in Nat /\ Opens(n) \in Nat
    BY DayOf, OpensType DEF WInv, TypeOK, DayStart
  <2> QED
    BY <1>2, <2>1, Longest
<1>4. /\ DayStart' = DayStart /\ Opens(n)' = Opens(n) /\ LongestWait(n)' = LongestWait(n)
      /\ Covered(n)' <=> Covered(n)
  BY <1>1 DEF DayStart, Opens, LongestWait, Covered
<1> QED
  BY <1>1, <1>2, <1>3, <1>4 DEF Punctual

\* It ends, and the day is covered.
LEMMA EndsInTime ==
    ASSUME WInv, NEW n \in Inst, Punctual(n), Undisturbed(n), n \in here', cur = n,
           Succeeds \/ Fails
    PROVE  Punctual(n)'
<1>1. /\ n \in here /\ n \in here' /\ cur' # n /\ lastOk'[n] = now
      /\ UNCHANGED <<now, here, hour, up, manual>>
  BY DueRunAssumption DEF Succeeds, Fails, Undisturbed, DueRunAssumption
<1>2. up[n] /\ n \notin manual /\ now \in Nat
  BY <1>1 DEF Punctual, WInv, TypeOK
<1>3. lastTry'[n] = now
  <2>1. CASE Succeeds
    BY <2>1, <1>1 DEF Succeeds, WInv, TypeOK
  <2>2. CASE Fails
    BY <2>2, <1>1, <1>2 DEF Fails, Recorded, WInv, TypeOK
  <2> QED
    BY <2>1, <2>2
<1>4. now # Never
  BY <1>2, DueRunAssumption DEF DueRunAssumption
<1>5. Covered(n)'
  BY <1>1, <1>4 DEF Covered
<1> QED
  BY <1>1, <1>2, <1>3, <1>5 DEF Punctual

\* A unit passes: n waits on, its window is not open yet, or a new day begins.
LEMMA DayGoesOn ==
    ASSUME WInv, WInv', NEW n \in Inst, Punctual(n), Undisturbed(n), n \in here', Advance
    PROVE  Punctual(n)'
<1>1. /\ n \in here /\ now' = now + 1 /\ Seen({}, 1)
      /\ UNCHANGED <<here, hour, lastOk, lastTry, up, manual, cur, since>>
  BY DEF Advance, files, tick
<1>2. /\ up[n] /\ n \notin manual /\ lastTry[n] = lastOk[n]
      /\ lastOk[n] # Never => lastOk[n] <= now
  BY <1>1 DEF Punctual
<1>3. now \in Nat /\ now + 1 \in Nat /\ since \in Nat /\ wait[n] \in Nat /\ wait'[n] \in Nat
  BY DEF WInv, TypeOK
<1>4. lastOk[n] # Never => lastOk[n] \in Nat /\ lastOk[n] <= now + 1
  BY <1>2, <1>3 DEF WInv, TypeOK, Stamp
<1>5. ASSUME hour[n] # Off, ~Covered(n)'
      PROVE  IF cur = n THEN since <= DayStart' + Opens(n) + LongestWait(n)
                        ELSE now' <= DayStart' + Opens(n) + wait'[n]
  <2>1. /\ Opens(n) \in Nat /\ LongestWait(n) \in Nat /\ DayStart \in Nat
        /\ DayStart <= now /\ now % DayLen = now - DayStart
    BY <1>3, <1>5, OpensType, Longest, DayOf DEF WInv, DayStart
  <2>2. /\ DayStart' \in Nat /\ DayStart' <= now + 1
        /\ (now + 1) % DayLen = now + 1 - DayStart'
    BY <1>1, <1>3, DayOf DEF DayStart
  <2>3. CASE Date(now + 1) = Date(now)
    <3>1. DayStart' = DayStart /\ ~Covered(n)
      BY <1>1, <1>5, <2>3 DEF DayStart, Covered
    <3>2. IF cur = n THEN since <= DayStart + Opens(n) + LongestWait(n)
                     ELSE now <= DayStart + Opens(n) + wait[n]
      BY <1>1, <1>5, <3>1 DEF Punctual
    <3>3. CASE cur = n
      BY <3>1, <3>2, <3>3
    <3>4. CASE cur # n /\ now < DayStart + Opens(n)
      BY <1>1, <1>3, <2>1, <3>1, <3>4
    <3>5. CASE cur # n /\ DayStart + Opens(n) <= now
      <4>1. Waiting(n)
        BY <1>1, <1>2, <1>5, <3>1, <3>5, DueNow DEF WInv
      <4>2. Waiting(n)'
        <5>1. hour[n] * HourLen \in Nat /\ HourLen \in Nat
          BY <1>5, OpensType, DueRunAssumption DEF WInv, DueRunAssumption
        <5>2. (now + 1) % DayLen >= hour[n] * HourLen
          BY <1>3, <2>1, <2>2, <3>1, <4>1, <5>1 DEF Waiting, IsDue
        <5>3. lastOk[n] # Never => ~(now + 1 - lastTry[n] < HourLen)
          BY <1>2, <1>3, <1>4, <4>1, <5>1 DEF Waiting, IsDue
        <5>4. ~(lastOk[n] # Never /\ Date(lastOk[n]) = Date(now + 1))
          BY <1>1, <1>5 DEF Covered
        <5>5. lastTry[n] # Never /\ lastTry'[n] = lastTry[n] => ~(now + 1 - lastTry[n] < HourLen)
          BY <1>2, <5>3
        <5>6. IsDue(n)'
          BY <1>1, <1>2, <1>3, <1>4, <1>5, <5>1, <5>2, <5>4, <5>5, DueRunAssumption
             DEF IsDue, DueRunAssumption
        <5> QED
          BY <1>1, <1>2, <3>5, <5>6 DEF Waiting
      <4>3. wait'[n] = wait[n] + 1
        BY <1>1, <4>1, <4>2, WaitsOn DEF WInv
      <4> QED
        BY <1>1, <1>3, <2>1, <3>1, <3>2, <3>5, <4>3
    <3> QED
      BY <1>3, <2>1, <3>3, <3>4, <3>5
  <2>4. CASE DayLen * Date(now + 1) = now + 1
    <3>1. DayStart' = now + 1
      BY <1>1, <2>4 DEF DayStart
    <3>2. cur = n => since <= now
      <4>1. None \notin Inst
        BY DueRunAssumption DEF DueRunAssumption
      <4> QED
        BY <4>1 DEF WInv, TickShape
    <3> QED
      BY <1>1, <1>3, <2>1, <3>1, <3>2
  <2> QED
    BY <1>3, <2>3, <2>4, NextDay
<1>6. Opens(n)' = Opens(n) /\ LongestWait(n)' = LongestWait(n)
  BY <1>1 DEF Opens, LongestWait
<1> QED
  BY <1>1, <1>2, <1>4, <1>5, <1>6 DEF Punctual

LEMMA NextPunctual ==
    ASSUME WInv, WInv', NEW n \in Inst, Punctual(n), [Next /\ ~Kill /\ Undisturbed(n)]_vars
    PROVE  Punctual(n)'
<1>1. CASE UNCHANGED vars
  BY <1>1 DEF vars, files, tick, Punctual, Covered, DayStart, Opens, LongestWait
<1>2. CASE n \notin here'
  BY <1>2 DEF Punctual
<1> SUFFICES ASSUME Next, ~Kill, Undisturbed(n), n \in here' PROVE Punctual(n)'
  BY <1>1, <1>2
<1>3. /\ n \in here /\ up[n] /\ n \notin manual /\ hour'[n] = hour[n] /\ up'[n]
      /\ n \notin manual' /\ None \notin Inst
  BY DueRunAssumption DEF Punctual, Undisturbed, DueRunAssumption
<1>4. CASE List \/ Return
  <2>1. /\ UNCHANGED <<now, here, hour, up, manual, lastOk, lastTry, cur, since>>
        /\ Seen({}, 0)
    BY <1>4 DEF List, Return, files
  <2>2. CASE cur # n
    BY <2>1, <2>2, SameDay
  <2>3. CASE cur = n
    BY <2>1, <2>3 DEF Punctual, Covered, DayStart, Opens, LongestWait
  <2> QED
    BY <2>2, <2>3
<1>5. CASE Succeeds \/ Fails
  <2>1. CASE cur = n
    BY <1>5, <2>1, EndsInTime
  <2>2. CASE cur # n
    <3>1. /\ now' = now /\ Seen({}, 0) /\ cur' # n /\ cur \in Inst
          /\ lastOk'[n] = lastOk[n] /\ lastTry'[n] = lastTry[n]
      BY <1>3, <1>5, <2>2 DEF Succeeds, Fails, Recorded, WInv, TypeOK
    <3> QED
      BY <2>2, <3>1, SameDay
  <2> QED
    BY <2>1, <2>2
<1>6. CASE Advance
  BY <1>6, DayGoesOn
<1>7. ASSUME NEW m \in Inst, Skip(m) \/ FailsAtOnce(m) \/ Begin(m)
      PROVE  Punctual(n)'
  <2>1. CASE Begin(m) /\ m = n
    BY <2>1, BeginsInTime
  <2>2. CASE ~(Begin(m) /\ m = n)
    <3>1. /\ now' = now /\ cur = None /\ cur # n /\ cur' # n
          /\ lastOk'[n] = lastOk[n]
      BY <1>3, <1>7, <2>2 DEF Skip, FailsAtOnce, Begin, files
    <3>2. lastTry'[n] = lastTry[n]
      BY <1>3, <1>7 DEF Skip, FailsAtOnce, Begin, files, Recorded, WInv, TypeOK
    <3>3. \E S : n \notin S /\ Seen(S, 0)
      <4>1. CASE Skip(m)
        BY <4>1 DEF Skip
      <4>2. CASE ~Skip(m)
        <5>1. Seen({m}, 0) /\ n \notin {m}
          BY <1>3, <1>7, <2>2, <4>2 DEF FailsAtOnce, Begin
        <5> QED
          BY <5>1
      <4> QED
        BY <4>1, <4>2
    <3> QED
      BY <3>1, <3>2, <3>3, SameDay
  <2> QED
    BY <2>1, <2>2
<1>8. ASSUME NEW m \in Inst,
             \/ Create(m) \/ Destroy(m) \/ Outage(m) \/ Request(m) \/ ManualEnds(m)
             \/ \E h \in Hours \cup {Off} : Cron(m, h)
      PROVE  Punctual(n)'
  <2>1. /\ UNCHANGED <<now, cur, since>> /\ Seen({}, 0)
    BY <1>8 DEF Create, Destroy, Outage, Request, ManualEnds, Cron, tick
  <2>2. lastOk'[n] = lastOk[n] /\ lastTry'[n] = lastTry[n]
    BY <1>3, <1>8 DEF Create, Destroy, Outage, Request, ManualEnds, Cron, files, WInv, TypeOK
  <2>3. CASE cur # n
    BY <2>1, <2>2, <2>3, SameDay
  <2>4. CASE cur = n
    BY <1>3, <2>1, <2>2, <2>4 DEF Punctual, Covered, DayStart, Opens, LongestWait
  <2> QED
    BY <2>3, <2>4
<1> QED
  BY <1>4, <1>5, <1>6, <1>7, <1>8 DEF Next

LEMMA InitPunctual ==
    ASSUME Init, NEW n \in Inst
    PROVE  Punctual(n)
<1>1. /\ now = 0 /\ lastOk[n] = Never /\ lastTry[n] = Never /\ cur = None /\ wait[n] = 0
      /\ manual = {} /\ (n \in here => up[n])
  BY DEF Init
<1>2. TypeOK /\ None \notin Inst
  BY InitType, DueRunAssumption DEF DueRunAssumption
<1>3. hour[n] # Off => 0 <= DayStart + Opens(n) + 0
  <2> SUFFICES ASSUME hour[n] # Off PROVE 0 <= DayStart + Opens(n) + 0
    OBVIOUS
  <2>1. Opens(n) \in Nat /\ DayStart \in Nat
    BY <1>1, <1>2, OpensType, DayOf DEF DayStart
  <2> QED
    BY <2>1
<1> QED
  BY <1>1, <1>2, <1>3 DEF Punctual

\* A day that ends without it would have been shorter than it is.
LEMMA MidnightComes ==
    ASSUME WInv, NEW n \in Inst, Fits(n), Punctual(n),
           [Next /\ ~Kill /\ Undisturbed(n)]_vars,
           Date(now') # Date(now), n \in here, hour[n] # Off, WInv'
    PROVE  Covered(n)
<1> SUFFICES ASSUME ~Covered(n) PROVE FALSE
  OBVIOUS
<1>1. Advance
  <2>1. now' # now
    OBVIOUS
  <2>2. Next
    BY <2>1 DEF vars
  <2> QED
    BY <2>1, <2>2 DEF Next, List, Succeeds, Fails, Return, Kill, Skip, Begin, FailsAtOnce,
                      Create, Destroy, Outage, Request, ManualEnds, Cron
<1>2. /\ now \in Nat /\ now' = now + 1 /\ n \in here' /\ since \in Nat /\ Long \in Nat \ {0}
      /\ DayLen \in Nat
      /\ on => now - since < Long
  BY <1>1, DueRunAssumption DEF Advance, files, WInv, TypeOK, DueRunAssumption
<1>3. /\ DayStart \in Nat /\ DayStart + DayLen = now + 1
  BY <1>2, NextDay, DayOf DEF DayStart
<1>4. /\ Opens(n) \in Nat /\ LongestWait(n) \in Nat /\ wait[n] \in Nat
      /\ wait[n] <= LongestWait(n)
  BY OpensType, Longest DEF WInv
<1>5. Opens(n) + LongestWait(n) + Long < DayLen
  BY DEF Fits, Opens, WInv, TypeOK
<1>6. CASE cur = n
  <2>1. since <= DayStart + Opens(n) + LongestWait(n)
    BY <1>6 DEF Punctual
  <2>2. on
    BY <1>6, DueRunAssumption DEF WInv, TickShape, DueRunAssumption
  <2> QED
    BY <1>2, <1>3, <1>4, <1>5, <2>1, <2>2
<1>7. CASE cur # n
  <2>1. now <= DayStart + Opens(n) + wait[n]
    BY <1>7 DEF Punctual
  <2> QED
    BY <1>2, <1>3, <1>4, <1>5, <2>1
<1> QED
  BY <1>6, <1>7

OnTime(S) == WInv /\ \A n \in S : Punctual(n)

LEMMA CalmStep ==
    ASSUME NEW S \in SUBSET Inst, \A n \in S : Fits(n), OnTime(S), [CalmNext(S)]_vars
    PROVE  /\ OnTime(S)'
           /\ Date(now') # Date(now) => \A n \in here \cap S : hour[n] # Off => Covered(n)
<1>1. WInv'
  BY NextWait DEF CalmNext, OnTime
<1>2. ASSUME NEW n \in S PROVE [Next /\ ~Kill /\ Undisturbed(n)]_vars
  BY DEF CalmNext
<1>3. \A n \in S : Punctual(n)'
  BY <1>1, <1>2, NextPunctual DEF OnTime
<1>4. ASSUME Date(now') # Date(now), NEW n \in here \cap S, hour[n] # Off PROVE Covered(n)
  BY <1>1, <1>2, <1>4, MidnightComes DEF OnTime
<1> QED
  BY <1>1, <1>3, <1>4 DEF OnTime

\* README, "Backups": "every instance is then backed up daily at its configured
\* hour". No day ends without a backup of an instance that nothing happens to,
\* whatever happens to the others, if two backups of each of them and one more
\* fit into the day after its hour.
THEOREM DayIsMade ==
    ASSUME NEW S \in SUBSET Inst, \A n \in S : Fits(n)
    PROVE  CalmSpec(S) => [][Date(now') # Date(now) =>
                               \A n \in here \cap S : hour[n] # Off => Covered(n)]_vars
<1> DEFINE Made == Date(now') # Date(now) =>
                     \A n \in here \cap S : hour[n] # Off => Covered(n)
<1>1. Init => OnTime(S)
  BY InitWait, InitPunctual DEF OnTime
<1>2. OnTime(S) /\ [CalmNext(S)]_vars => OnTime(S)' /\ [Made]_vars
  BY CalmStep
<1> HIDE DEF Made
<1>3. CalmSpec(S) => [][Made]_vars
  BY <1>1, <1>2, PTL DEF CalmSpec
<1> QED
  BY <1>3 DEF Made

\* And if nothing happens to any of them, no day is missed.
THEOREM NoDayIsMissed ==
    ASSUME \A n \in Inst : Fits(n)
    PROVE  CalmSpec(Inst) => NoDayMissed
<1> DEFINE Made == Date(now') # Date(now) =>
                     \A n \in here : hour[n] # Off =>
                       lastOk[n] # Never /\ Date(lastOk[n]) = Date(now)
<1>1. Init => OnTime(Inst)
  BY InitWait, InitPunctual DEF OnTime
<1>2. OnTime(Inst) /\ [CalmNext(Inst)]_vars => OnTime(Inst)' /\ [Made]_vars
  <2> SUFFICES ASSUME OnTime(Inst), [CalmNext(Inst)]_vars PROVE OnTime(Inst)' /\ Made
    OBVIOUS
  <2>1. here \cap Inst = here
    BY DEF OnTime, WInv, TypeOK
  <2> QED
    BY <2>1, CalmStep DEF Covered
<1> HIDE DEF Made
<1>3. CalmSpec(Inst) => [][Made]_vars
  BY <1>1, <1>2, PTL DEF CalmSpec
<1> QED
  BY <1>3 DEF NoDayMissed, Made
===============================================================================
