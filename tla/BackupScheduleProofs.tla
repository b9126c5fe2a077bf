-------------------------- MODULE BackupScheduleProofs --------------------------
(***************************************************************************)
(* Proofs about BackupSchedule, for any number of manual snapshots, any    *)
(* clock and any history of failures: what the stamps and the records of   *)
(* one instance have to do with each other.                                *)
(***************************************************************************)
EXTENDS BackupSchedule, TLAPS

-----------------------------------------------------------------------------
(* Time and records                                                        *)

LEMMA DateType ==
    ASSUME NEW a \in Time
    PROVE  Date(a) \in Nat
BY ClockAssumption DEF ClockAssumption, Time, Date

LEMMA DayBounds ==
    ASSUME NEW D \in Nat \ {0}, NEW a \in Nat
    PROVE  a \div D \in Nat /\ D * (a \div D) <= a /\ a < D * (a \div D) + D
OBVIOUS

LEMMA DateGrows ==
    ASSUME NEW a \in Time, NEW b \in Time, a <= b
    PROVE  Date(a) <= Date(b)
<1> DEFINE q == a \div DayLen
           r == b \div DayLen
<1>1. /\ q \in Nat /\ r \in Nat /\ DayLen \in Nat \ {0} /\ a \in Nat /\ b \in Nat
      /\ DayLen * q <= a /\ b < DayLen * r + DayLen
  BY ClockAssumption, DayBounds DEF ClockAssumption, Time
<1> HIDE DEF q, r
<1>2. DayLen * q < DayLen * (r + 1)
  BY <1>1
<1>3. q < r + 1
  BY <1>1, <1>2
<1> QED
  BY <1>1, <1>3 DEF q, r, Date

LEMMA Appended ==
    ASSUME NEW r \in Record, snaps \in Seq(Record), snaps' = Append(snaps, r)
    PROVE  /\ snaps' \in Seq(Record) /\ DOMAIN snaps' = 1 .. Len(snaps) + 1
           /\ DOMAIN snaps = 1 .. Len(snaps) /\ Len(snaps) \in Nat
           /\ Len(snaps') = Len(snaps) + 1
           /\ \A i \in DOMAIN snaps : snaps'[i] = snaps[i]
           /\ snaps'[Len(snaps) + 1] = r
OBVIOUS

LEMMA Recorded ==
    ASSUME TypeOK
    PROVE  /\ DOMAIN snaps = 1 .. Len(snaps) /\ Len(snaps) \in Nat
           /\ \A i \in DOMAIN snaps : snaps[i] \in Record /\ snaps[i].at \in Time
<1>1. snaps \in Seq(Record)
  BY DEF TypeOK
<1>2. DOMAIN snaps = 1 .. Len(snaps) /\ Len(snaps) \in Nat /\ \A i \in DOMAIN snaps : snaps[i] \in Record
  BY <1>1
<1>3. \A r \in Record : r.at \in Time
  BY DEF Record
<1> QED
  BY <1>2, <1>3

LEMMA Times == Time \subseteq Nat /\ \A t \in Time : t # Never
BY ProcAssumption, ClockAssumption DEF ProcAssumption, ClockAssumption, Time

-----------------------------------------------------------------------------
(* Types                                                                   *)

LEMMA InitType == Init => TypeOK
<1> SUFFICES ASSUME Init PROVE TypeOK
  OBVIOUS
<1>1. now \in Time /\ calm \in Time /\ events \in 0 .. MaxEvents
  BY ClockAssumption DEF ClockAssumption, Init, Time
<1>2. snaps \in Seq(Record)
  BY DEF Init
<1> QED
  BY <1>1, <1>2 DEF Init, TypeOK, Stamp

LEMMA DisturbType ==
    ASSUME TypeOK, Disturb
    PROVE  events' \in 0 .. MaxEvents /\ calm' \in Time
BY ClockAssumption DEF ClockAssumption, TypeOK, Disturb

LEMMA ReturnType ==
    ASSUME TypeOK, NEW p \in Proc, Return(p)
    PROVE  /\ pc' \in [Proc -> {"idle", "check", "load", "exec", "backup", "record", "stamp", "failed"}]
           /\ full' \in [Proc -> BOOLEAN] /\ at' \in [Proc -> Stamp]
BY DEF TypeOK, Return, Stamp

LEMMA CutType ==
    ASSUME TypeOK, NEW p \in Proc, pc[p] = "stamp" => at[p] \in Time,
           cut' = IF pc[p] = "stamp" THEN cut \cup {Date(at[p])} ELSE cut
    PROVE  cut' \subseteq {Date(t) : t \in Time}
BY DEF TypeOK

\* A process that is about to write the stamps has a time to write.
HasTime == \A p \in Proc : pc[p] = "stamp" => at[p] \in Time

TInv == TypeOK /\ HasTime

LEMMA TypeStep == TInv /\ [Next]_vars => TInv'
<1> SUFFICES ASSUME TInv, [Next]_vars PROVE TypeOK' /\ HasTime'
  BY DEF TInv
<1>1. TypeOK /\ HasTime
  BY DEF TInv
<1>2. ASSUME NEW t \in Tick, Fire(t) PROVE TypeOK' /\ HasTime'
  BY <1>1, <1>2 DEF TypeOK, HasTime, Fire, Proc, stateFile, ghosts
<1>3. ASSUME NEW t \in Tick, Check(t) PROVE TypeOK' /\ HasTime'
  BY <1>1, <1>3 DEF TypeOK, HasTime, Check, Proc, stateFile, ghosts
<1>4. ASSUME NEW m \in Manual, Request(m) PROVE TypeOK' /\ HasTime'
  BY <1>1, <1>4, DisturbType DEF TypeOK, HasTime, Request, Proc, stateFile
<1>5. ASSUME NEW p \in Proc, Choose(p) PROVE TypeOK' /\ HasTime'
  <2>1. full' \in [Proc -> BOOLEAN]
    BY <1>1, <1>5 DEF TypeOK, Choose
  <2> QED
    BY <1>1, <1>5, <2>1 DEF TypeOK, HasTime, Choose, stateFile, ghosts
<1>6. ASSUME NEW p \in Proc, Exec(p) PROVE TypeOK' /\ HasTime'
  BY <1>1, <1>6 DEF TypeOK, HasTime, Exec, stateFile, ghosts
<1>7. ASSUME NEW p \in Proc, BackupEnds(p) PROVE TypeOK' /\ HasTime'
  BY <1>1, <1>7 DEF TypeOK, HasTime, BackupEnds, stateFile
<1>8. ASSUME NEW p \in Proc, SaveRecord(p) PROVE TypeOK' /\ HasTime'
  <2>1. [at |-> now, full |-> full[p], auto |-> p \in Tick] \in Record
    BY <1>1 DEF TypeOK, Record
  <2>2. snaps' \in Seq(Record)
    BY <1>1, <1>8, <2>1 DEF TypeOK, SaveRecord, Push
  <2> QED
    BY <1>1, <1>8, <2>2 DEF TypeOK, HasTime, SaveRecord, Push, Stamp, stateFile, ghosts
<1>9. ASSUME NEW p \in Proc, SaveStamp(p) PROVE TypeOK' /\ HasTime'
  BY <1>1, <1>9, ReturnType DEF TypeOK, HasTime, SaveStamp, Return, Stamp
<1>10. ASSUME NEW p \in Proc, SaveFails(p) PROVE TypeOK' /\ HasTime'
  <2>1. cut' \subseteq {Date(t) : t \in Time}
    BY <1>1, <1>10, CutType DEF HasTime, SaveFails
  <2> QED
    BY <1>1, <1>10, <2>1, DisturbType DEF TypeOK, HasTime, SaveFails, stateFile
<1>11. ASSUME NEW p \in Proc, Fail(p) PROVE TypeOK' /\ HasTime'
  BY <1>1, <1>11, ReturnType DEF TypeOK, HasTime, Fail, Return, Stamp
<1>12. ASSUME NEW p \in Proc, Kill(p) PROVE TypeOK' /\ HasTime'
  <2>1. cut' \subseteq {Date(t) : t \in Time}
    BY <1>1, <1>12, CutType DEF HasTime, Kill
  <2> QED
    BY <1>1, <1>12, <2>1, DisturbType, ReturnType DEF TypeOK, HasTime, Kill, Return, stateFile
<1>13. ASSUME NEW p \in Proc, ConnectionLost(p) PROVE TypeOK' /\ HasTime'
  BY <1>1, <1>13, DisturbType DEF TypeOK, HasTime, ConnectionLost, stateFile
<1>14. ASSUME Cron PROVE TypeOK' /\ HasTime'
  BY <1>1, <1>14, DisturbType DEF TypeOK, HasTime, Cron, stateFile
<1>15. ASSUME Outage PROVE TypeOK' /\ HasTime'
  BY <1>1, <1>15, DisturbType DEF TypeOK, HasTime, Outage, stateFile
<1>16. ASSUME OrphanEnds PROVE TypeOK' /\ HasTime'
  BY <1>1, <1>16 DEF TypeOK, HasTime, OrphanEnds, stateFile
<1>17. ASSUME Advance PROVE TypeOK' /\ HasTime'
  <2>1. now' \in Time /\ calm' \in Time
    BY <1>1, <1>17, ClockAssumption DEF ClockAssumption, TypeOK, Advance, Time
  <2> QED
    BY <1>1, <1>17, <2>1 DEF TypeOK, HasTime, Advance, stateFile
<1>18. ASSUME UNCHANGED vars PROVE TypeOK' /\ HasTime'
  BY <1>1, <1>18 DEF TypeOK, HasTime, vars, Proc
<1>19. ASSUME NEW t \in Tick, FailLost(t) PROVE TypeOK' /\ HasTime'
  BY <1>1, <1>19, DisturbType, ReturnType DEF TypeOK, HasTime, FailLost, Return, Proc, stateFile
<1>20. ASSUME NEW p \in Proc, RecordUnsynced(p) PROVE TypeOK' /\ HasTime'
  <2>1. [at |-> now, full |-> full[p], auto |-> p \in Tick] \in Record
    BY <1>1 DEF TypeOK, Record
  <2>2. snaps' \in Seq(Record)
    BY <1>1, <1>20, <2>1 DEF TypeOK, RecordUnsynced, Push
  <2>3. cut' \subseteq {Date(t) : t \in Time}
    BY <1>1, <1>20 DEF TypeOK, RecordUnsynced
  <2> QED
    BY <1>1, <1>20, <2>2, <2>3, DisturbType DEF TypeOK, HasTime, RecordUnsynced, stateFile
<1>21. ASSUME NEW p \in Proc, StampUnsynced(p) PROVE TypeOK' /\ HasTime'
  BY <1>1, <1>21, DisturbType DEF TypeOK, HasTime, StampUnsynced, Stamp
<1> QED
  BY <1>2, <1>3, <1>4, <1>5, <1>6, <1>7, <1>8, <1>9, <1>10, <1>11, <1>12, <1>13,
     <1>14, <1>15, <1>16, <1>17, <1>18, <1>19, <1>20, <1>21 DEF Next, Happen

LEMMA TypeInvariant == Spec => []TInv
<1>1. Init => TInv
  BY InitType DEF Init, TInv, HasTime
<1> QED
  BY <1>1, TypeStep, PTL DEF Spec

\* Every variable has its type, whatever the timer, the users and S3 do.
THEOREM TypeCorrect == Spec => []TypeOK
<1>1. TInv => TypeOK
  BY DEF TInv
<1> QED
  BY <1>1, TypeInvariant, PTL

-----------------------------------------------------------------------------
(* The stamps and the records                                              *)

Sorted == \A i, j \in DOMAIN snaps : i < j => snaps[i].at <= snaps[j].at
Past == \A i \in DOMAIN snaps : snaps[i].at <= now

OkIsAttempt ==
    lastOk # Never =>
        /\ lastTry # Never /\ lastOk <= lastTry
        /\ \E i \in DOMAIN snaps : snaps[i].at = lastOk

TryIsPast == lastTry # Never => lastTry <= now

OneWrites == \A p, q \in Proc : pc[p] = "stamp" /\ pc[q] = "stamp" => p = q

\* What a process is about to write is recorded, and no older than what is there.
AtIsNew ==
    \A p \in Proc : pc[p] = "stamp" =>
        /\ at[p] <= now
        /\ lastTry # Never => lastTry <= at[p]
        /\ \E i \in DOMAIN snaps : snaps[i].at = at[p]

\* The attempts that the timer could report are in last_snapshot_attempt_at.
Attempts ==
    \A t \in Tick : tried[t] # Never => lastTry # Never /\ tried[t] <= lastTry

SInv == Sorted /\ Past /\ OkIsAttempt /\ TryIsPast /\ OneWrites /\ AtIsNew /\ Attempts

\* Steps that write none of the files.
QuietStep ==
    /\ UNCHANGED <<lastOk, lastTry, snaps, tried>>
    /\ now' >= now
    /\ \A p \in Proc : pc'[p] = "stamp" => pc[p] = "stamp" /\ at'[p] = at[p]

LEMMA QuietStamps ==
    ASSUME TInv, TInv', SInv, QuietStep
    PROVE  SInv'
<1>1. /\ now \in Nat /\ now' \in Nat /\ now <= now' /\ UNCHANGED <<lastOk, lastTry, snaps, tried>>
      /\ lastTry \in Nat \cup {Never}
  BY Times DEF TInv, TypeOK, QuietStep, Stamp
<1>2. \A i \in DOMAIN snaps : snaps[i].at \in Nat
  BY Recorded, Times DEF TInv
<1>3. \A p \in Proc : pc[p] = "stamp" => at[p] \in Nat
  BY Times DEF TInv, HasTime
<1>4. Sorted' /\ OkIsAttempt' /\ Attempts'
  BY <1>1 DEF SInv, Sorted, OkIsAttempt, Attempts
<1>5. Past' /\ TryIsPast'
  BY <1>1, <1>2 DEF SInv, Past, TryIsPast
<1>6. OneWrites'
  BY DEF QuietStep, SInv, OneWrites
<1>7. AtIsNew'
  BY <1>1, <1>3 DEF QuietStep, SInv, AtIsNew
<1> QED
  BY <1>4, <1>5, <1>6, <1>7 DEF SInv

\* Which steps those are.
LEMMA OthersAreQuiet ==
    ASSUME TInv, [Next]_vars,
           ~\E p \in Proc : \/ SaveRecord(p) \/ SaveStamp(p) \/ Fail(p)
                            \/ RecordUnsynced(p) \/ StampUnsynced(p)
    PROVE  QuietStep
<1>0. /\ TypeOK /\ now \in Int /\ pc \in [Proc -> {"idle", "check", "load", "exec", "backup", "record", "stamp", "failed"}]
      /\ at \in [Proc -> Stamp]
  BY Times DEF TInv, TypeOK
<1>1. ASSUME NEW t \in Tick, Fire(t) \/ Check(t) PROVE QuietStep
  BY <1>0, <1>1 DEF QuietStep, Fire, Check, Proc, stateFile, ghosts
<1>2. ASSUME NEW p \in Proc, Request(p) \/ Choose(p) \/ Exec(p) \/ BackupEnds(p) \/ ConnectionLost(p)
      PROVE  QuietStep
  BY <1>0, <1>2 DEF QuietStep, Request, Choose, Exec, BackupEnds, ConnectionLost, stateFile, ghosts
<1>3. ASSUME NEW p \in Proc, SaveFails(p) PROVE QuietStep
  BY <1>0, <1>3 DEF QuietStep, SaveFails, stateFile
<1>4. ASSUME NEW p \in Proc, Kill(p) \/ FailLost(p) PROVE QuietStep
  BY <1>0, <1>4 DEF QuietStep, Kill, FailLost, Return, stateFile
<1>5. CASE Cron \/ Outage \/ OrphanEnds
  BY <1>0, <1>5 DEF QuietStep, Cron, Outage, OrphanEnds, stateFile
<1>6. CASE Advance
  BY <1>0, <1>6 DEF QuietStep, Advance, stateFile
<1>7. CASE UNCHANGED vars
  BY <1>0, <1>7 DEF QuietStep, vars
<1> QED
  BY <1>1, <1>2, <1>3, <1>4, <1>5, <1>6, <1>7 DEF Next, Happen, Proc

\* Only Check takes a process of the timer on.
LEMMA Checks ==
    ASSUME TInv, [Next]_vars, NEW t \in Tick, pc[t] = "check", pc'[t] = "load"
    PROVE  Check(t)
<1>0. /\ pc \in [Proc -> {"idle", "check", "load", "exec", "backup", "record", "stamp", "failed"}]
      /\ t \in Proc /\ t \notin Manual
  BY ProcAssumption DEF ProcAssumption, TInv, TypeOK, Proc
<1>1. ASSUME NEW s \in Tick, Fire(s) \/ (Check(s) /\ s # t) PROVE FALSE
  BY <1>0, <1>1 DEF Fire, Check, Proc
<1>2. ASSUME NEW m \in Manual, Request(m) PROVE FALSE
  BY <1>0, <1>2 DEF Request, Proc
<1>3. ASSUME NEW p \in Proc,
             \/ Choose(p) \/ Exec(p) \/ BackupEnds(p) \/ SaveRecord(p) \/ SaveStamp(p)
             \/ SaveFails(p) \/ Fail(p) \/ Kill(p) \/ ConnectionLost(p)
             \/ FailLost(p) \/ RecordUnsynced(p) \/ StampUnsynced(p)
      PROVE  FALSE
  BY <1>0, <1>3 DEF Choose, Exec, BackupEnds, SaveRecord, Push, SaveStamp, SaveFails, Fail,
     Kill, ConnectionLost, FailLost, RecordUnsynced, StampUnsynced, Return
<1>4. CASE Cron \/ Outage \/ OrphanEnds \/ Advance \/ UNCHANGED vars
  BY <1>0, <1>1, <1>4 DEF Cron, Outage, OrphanEnds, Advance, vars
<1> QED
  BY <1>1, <1>2, <1>3, <1>4 DEF Next, Happen, Proc

\* What the first of the two writes leaves.
LEMMA AfterRecord ==
    ASSUME TInv, NEW p \in Proc, Push(p)
    PROVE  /\ Len(snaps) \in Nat /\ DOMAIN snaps = 1 .. Len(snaps)
           /\ DOMAIN snaps' = 1 .. Len(snaps) + 1
           /\ \A i \in DOMAIN snaps : snaps'[i] = snaps[i]
           /\ snaps'[Len(snaps) + 1].at = now
           /\ snaps'[Len(snaps) + 1].full = full[p]
           /\ snaps'[Len(snaps) + 1].auto = (p \in Tick)
<1>1. snaps \in Seq(Record) /\ [at |-> now, full |-> full[p], auto |-> p \in Tick] \in Record
  BY DEF TInv, TypeOK, Record
<1>2. snaps' = Append(snaps, [at |-> now, full |-> full[p], auto |-> p \in Tick])
  BY DEF Push
<1>3. /\ Len(snaps) \in Nat /\ DOMAIN snaps = 1 .. Len(snaps)
      /\ DOMAIN snaps' = 1 .. Len(snaps) + 1
      /\ \A i \in DOMAIN snaps : snaps'[i] = snaps[i]
      /\ snaps'[Len(snaps) + 1] = [at |-> now, full |-> full[p], auto |-> p \in Tick]
  BY <1>1, <1>2, Appended
<1> QED
  BY <1>3

LEMMA RecordStamps ==
    ASSUME TInv, SInv, NEW p \in Proc, SaveRecord(p) \/ RecordUnsynced(p)
    PROVE  SInv'
<1> DEFINE n == Len(snaps)
<1>1. /\ n \in Nat /\ DOMAIN snaps = 1 .. n /\ DOMAIN snaps' = 1 .. n + 1
      /\ \A i \in 1 .. n : snaps'[i] = snaps[i]
      /\ snaps'[n + 1].at = now
  BY AfterRecord DEF SaveRecord, RecordUnsynced
<1>2. /\ now \in Nat /\ UNCHANGED <<now, lastOk, lastTry, tried>>
      /\ \/ pc' = [pc EXCEPT ![p] = "stamp"] /\ at' = [at EXCEPT ![p] = now]
         \/ pc' = [pc EXCEPT ![p] = "failed"] /\ at' = at
      /\ pc \in [Proc -> {"idle", "check", "load", "exec", "backup", "record", "stamp", "failed"}]
      /\ at \in [Proc -> Stamp] /\ \A q \in Proc : pc[q] # "stamp"
  BY Times DEF TInv, TypeOK, SaveRecord, RecordUnsynced, Push, Unlocked, stateFile, ghosts
<1>3. \A i \in 1 .. n : snaps[i].at <= now
  BY <1>1 DEF SInv, Past
<1> HIDE DEF n
<1>4. Sorted'
  BY <1>1, <1>2, <1>3 DEF SInv, Sorted
<1>5. Past'
  BY <1>1, <1>2, <1>3 DEF Past
<1>6. OkIsAttempt'
  BY <1>1, <1>2 DEF SInv, OkIsAttempt
<1>7. TryIsPast' /\ Attempts'
  BY <1>2 DEF SInv, TryIsPast, Attempts
<1>8. OneWrites'
  BY <1>2 DEF OneWrites
<1>9. AtIsNew'
  BY <1>1, <1>2 DEF SInv, AtIsNew, TryIsPast
<1> QED
  BY <1>4, <1>5, <1>6, <1>7, <1>8, <1>9 DEF SInv

LEMMA SaveStamps ==
    ASSUME TInv, SInv, NEW p \in Proc, SaveStamp(p) \/ StampUnsynced(p)
    PROVE  SInv'
<1>1. /\ now \in Nat /\ UNCHANGED <<now, snaps>> /\ pc[p] = "stamp" /\ at[p] \in Time
      /\ lastOk' = at[p] /\ lastTry' = at[p]
      /\ tried' = [tried EXCEPT ![p] = at[p]] \/ tried' = tried
      /\ pc' = [pc EXCEPT ![p] = "idle"] \/ pc' = [pc EXCEPT ![p] = "failed"]
      /\ tried \in [Proc -> Stamp] /\ lastTry \in Stamp
      /\ pc \in [Proc -> {"idle", "check", "load", "exec", "backup", "record", "stamp", "failed"}]
  BY Times DEF TInv, TypeOK, HasTime, SaveStamp, StampUnsynced, Return
<1>2. /\ at[p] # Never /\ at[p] \in Nat /\ at[p] <= now
      /\ lastTry # Never => lastTry <= at[p]
      /\ \E i \in DOMAIN snaps : snaps[i].at = at[p]
  BY <1>1, Times DEF SInv, AtIsNew
<1>3. Sorted' /\ Past'
  BY <1>1 DEF SInv, Sorted, Past
<1>4. OkIsAttempt' /\ TryIsPast'
  BY <1>1, <1>2 DEF OkIsAttempt, TryIsPast
<1>5. OneWrites'
  BY <1>1 DEF SInv, OneWrites
<1>6. AtIsNew'
  BY <1>1 DEF SInv, OneWrites, AtIsNew
<1>7. Attempts'
  <2> SUFFICES ASSUME NEW t \in Tick, tried'[t] # Never
               PROVE  tried'[t] <= at[p]
    BY <1>1, <1>2 DEF Attempts
  <2>1. CASE t = p /\ tried' # tried
    BY <2>1, <1>1, <1>2
  <2>2. CASE t # p \/ tried' = tried
    <3>1. tried'[t] = tried[t] /\ tried[t] \in Nat /\ lastTry \in Nat
      BY <2>2, <1>1, Times DEF Proc, Stamp, SInv, Attempts
    <3> QED
      BY <3>1, <1>2, Times DEF SInv, Attempts
  <2> QED
    BY <2>1, <2>2
<1> QED
  BY <1>3, <1>4, <1>5, <1>6, <1>7 DEF SInv

LEMMA FailStamps ==
    ASSUME TInv, SInv, NEW p \in Proc, Fail(p)
    PROVE  SInv'
<1>1. /\ now \in Time /\ UNCHANGED <<now, snaps, lastOk>> /\ lastTry' \in {lastTry, now}
      /\ tried' = [tried EXCEPT ![p] = now] /\ (p \in Tick => lastTry' = now)
      /\ pc' = [pc EXCEPT ![p] = "idle"]
      /\ tried \in [Proc -> Stamp] /\ lastTry \in Stamp
      /\ \A q \in Proc : pc[q] # "stamp"
      /\ pc \in [Proc -> {"idle", "check", "load", "exec", "backup", "record", "stamp", "failed"}]
  BY DEF TInv, TypeOK, Fail, Return, Unlocked
<1>2. /\ now \in Nat /\ now # Never
      /\ lastTry # Never => lastTry' # Never /\ lastTry <= lastTry' /\ lastTry' <= now
      /\ lastTry # Never => lastTry \in Nat
  BY <1>1, Times DEF SInv, TryIsPast, Stamp
<1>3. Sorted' /\ Past' /\ TryIsPast'
  BY <1>1, <1>2 DEF SInv, Sorted, Past, TryIsPast
<1>4. OkIsAttempt'
  <2>1. lastOk # Never => lastOk \in Nat
    BY Times DEF TInv, TypeOK, Stamp
  <2> QED
    BY <1>1, <1>2, <2>1 DEF SInv, OkIsAttempt
<1>5. OneWrites' /\ AtIsNew'
  BY <1>1 DEF OneWrites, AtIsNew
<1>6. Attempts'
  <2> SUFFICES ASSUME NEW t \in Tick, tried'[t] # Never
               PROVE  lastTry' # Never /\ tried'[t] <= lastTry'
    BY DEF Attempts
  <2>1. CASE t = p
    BY <2>1, <1>1, <1>2
  <2>2. CASE t # p
    <3>1. tried'[t] = tried[t] /\ tried[t] \in Nat /\ lastTry # Never /\ tried[t] <= lastTry
      BY <2>2, <1>1, Times DEF Proc, Stamp, SInv, Attempts
    <3> QED
      BY <3>1, <1>1, <1>2
  <2> QED
    BY <2>1, <2>2
<1> QED
  BY <1>3, <1>4, <1>5, <1>6 DEF SInv

LEMMA StampStep ==
    ASSUME TInv, TInv', SInv, [Next]_vars
    PROVE  SInv'
BY OthersAreQuiet, QuietStamps, RecordStamps, SaveStamps, FailStamps

LEMMA StampInvariant == Spec => [](TInv /\ SInv)
<1>1. Init => SInv
  BY DEF Init, SInv, Sorted, Past, OkIsAttempt, TryIsPast, OneWrites, AtIsNew, Attempts, Proc
<1>2. (TInv /\ SInv) /\ [Next]_vars => SInv'
  BY TypeStep, StampStep
<1>3. Spec => []TInv
  BY TypeInvariant
<1> QED
  BY <1>1, <1>2, <1>3, PTL DEF Spec

\* What domain/instance.rs backup_failing compares: a success is an attempt and
\* a record, and records and stamps are in order, whatever ends in what order.
THEOREM StampsAreConsistent == Spec => []StampsAgree
<1>1. TInv /\ SInv => StampsAgree
  BY DEF SInv, Sorted, OkIsAttempt, TryIsPast, StampsAgree
<1> QED
  BY <1>1, StampInvariant, PTL

\* No later write takes a stamp back: the lock of snapshot.rs lines 207-227 covers both files.
THEOREM StampsOnlyGrow == Spec => StampsGrow
<1> DEFINE Grow ==
      /\ lastOk # Never => lastOk' # Never /\ lastOk' >= lastOk
      /\ lastTry # Never => lastTry' # Never /\ lastTry' >= lastTry
<1>1. ASSUME TInv, SInv, [Next]_vars PROVE Grow
  <2>1. /\ lastOk # Never => lastOk \in Nat /\ lastTry # Never /\ lastOk <= lastTry
        /\ lastTry # Never => lastTry \in Nat /\ lastTry <= now
        /\ now \in Time /\ now \in Nat /\ now # Never
    BY <1>1, Times DEF TInv, TypeOK, Stamp, SInv, OkIsAttempt, TryIsPast
  <2>2. ASSUME NEW p \in Proc, SaveRecord(p) \/ RecordUnsynced(p) PROVE Grow
    BY <2>1, <2>2 DEF SaveRecord, RecordUnsynced, stateFile
  <2>3. ASSUME NEW p \in Proc, SaveStamp(p) \/ StampUnsynced(p) PROVE Grow
    <3>1. at[p] \in Nat /\ at[p] # Never /\ (lastTry # Never => lastTry <= at[p])
      BY <1>1, <2>3, Times DEF TInv, HasTime, SInv, AtIsNew, SaveStamp, StampUnsynced
    <3> QED
      BY <2>1, <2>3, <3>1 DEF SaveStamp, StampUnsynced
  <2>4. ASSUME NEW p \in Proc, Fail(p) PROVE Grow
    BY <2>1, <2>4 DEF Fail
  <2>5. CASE QuietStep
    BY <2>1, <2>5 DEF QuietStep
  <2> QED
    BY <1>1, <2>2, <2>3, <2>4, <2>5, OthersAreQuiet
<1>2. TInv /\ SInv /\ [Next]_vars => [Grow]_vars
  BY <1>1
<1> QED
  BY <1>2, StampInvariant, PTL DEF Spec, StampsGrow

\* snapshot.rs lines 51-60: an attempt that the timer could record is in the
\* file that its next check reads, whatever was written to it since, so that the
\* next attempt is at least an hour later.
THEOREM RetriesAreApart == Spec => BacksOff
<1> DEFINE Apart ==
      \A t \in Tick : pc[t] = "check" /\ pc'[t] = "load" /\ tried[t] # Never
                         => now >= tried[t] + HourLen
<1>1. ASSUME TInv, SInv, [Next]_vars, NEW t \in Tick,
             pc[t] = "check", pc'[t] = "load", tried[t] # Never
      PROVE  now >= tried[t] + HourLen
  <2>1. /\ tried[t] \in Nat /\ now \in Nat /\ HourLen \in Nat
        /\ lastTry # Never /\ lastTry \in Nat /\ tried[t] <= lastTry
    BY <1>1, Times, ClockAssumption DEF ClockAssumption, TInv, TypeOK, Stamp, Proc, SInv, Attempts
  <2>2. Check(t)
    BY <1>1, Checks
  <2>3. ~BackingOff(lastTry)
    BY <1>1, <2>2 DEF TInv, TypeOK, Check, IsSnapshotDue, Proc
  <2> QED
    BY <2>1, <2>3 DEF BackingOff
<1>2. TInv /\ SInv /\ [Next]_vars => [Apart]_vars
  BY <1>1
<1> QED
  BY <1>2, StampInvariant, PTL DEF Spec, BacksOff

-----------------------------------------------------------------------------
(* The chain of backups                                                    *)

\* A process that decided on a differential backup has seen a full one.
ChainBegun ==
    \A p \in Proc : pc[p] \in {"exec", "backup", "record"} /\ ~full[p] =>
        \E j \in DOMAIN snaps : snaps[j].full

CInv == DiffHasFull /\ ChainBegun

LEMMA ChainStep ==
    ASSUME TInv, CInv, [Next]_vars
    PROVE  CInv'
<1>0. /\ pc \in [Proc -> {"idle", "check", "load", "exec", "backup", "record", "stamp", "failed"}]
      /\ full \in [Proc -> BOOLEAN]
  BY DEF TInv, TypeOK
<1>1. ASSUME NEW p \in Proc, SaveRecord(p) \/ RecordUnsynced(p) PROVE CInv'
  <2> DEFINE n == Len(snaps)
  <2>1. /\ n \in Nat /\ DOMAIN snaps = 1 .. n /\ DOMAIN snaps' = 1 .. n + 1
        /\ \A i \in 1 .. n : snaps'[i] = snaps[i]
        /\ snaps'[n + 1].full = full[p]
    BY <1>1, AfterRecord DEF SaveRecord, RecordUnsynced
  <2>2. /\ pc' = [pc EXCEPT ![p] = "stamp"] \/ pc' = [pc EXCEPT ![p] = "failed"]
        /\ full' = full /\ pc[p] = "record"
    BY <1>1 DEF SaveRecord, RecordUnsynced, Push
  <2>3. ~full[p] => \E j \in 1 .. n : snaps[j].full
    BY <2>1, <2>2 DEF CInv, ChainBegun
  <2> HIDE DEF n
  <2>4. DiffHasFull'
    BY <2>1, <2>3 DEF CInv, DiffHasFull
  <2>5. ChainBegun'
    BY <1>0, <2>1, <2>2 DEF CInv, ChainBegun
  <2> QED
    BY <2>4, <2>5 DEF CInv
<1>2. ASSUME NEW p \in Proc, Choose(p) PROVE CInv'
  <2>1. snaps' = snaps
    BY <1>2 DEF Choose
  <2>2. ASSUME NEW q \in Proc, pc'[q] \in {"exec", "backup", "record"}, ~full'[q]
        PROVE  \E j \in DOMAIN snaps : snaps[j].full
    <3>1. CASE q # p
      BY <1>0, <1>2, <2>2, <3>1 DEF Choose, CInv, ChainBegun
    <3>2. CASE q = p /\ healthy
      BY <1>0, <1>2, <2>2, <3>2 DEF Choose
    <3>3. CASE q = p /\ ~healthy
      BY <1>0, <1>2, <2>2, <3>3 DEF Choose
    <3> QED
      BY <3>1, <3>2, <3>3
  <2> QED
    BY <2>1, <2>2 DEF CInv, DiffHasFull, ChainBegun
<1>3. ASSUME UNCHANGED snaps,
             \A q \in Proc : pc'[q] \in {"exec", "backup", "record"} =>
                                pc[q] \in {"exec", "backup", "record"} /\ full'[q] = full[q]
      PROVE  CInv'
  BY <1>3 DEF CInv, DiffHasFull, ChainBegun
<1>4. ASSUME NEW t \in Tick, Fire(t) \/ Check(t) PROVE CInv'
  BY <1>0, <1>3, <1>4 DEF Fire, Check, Proc
<1>5. ASSUME NEW p \in Proc,
             \/ Request(p) \/ Exec(p) \/ BackupEnds(p) \/ SaveFails(p) \/ ConnectionLost(p)
             \/ StampUnsynced(p)
      PROVE  CInv'
  BY <1>0, <1>3, <1>5 DEF Request, Exec, BackupEnds, SaveFails, ConnectionLost, StampUnsynced
<1>6. ASSUME NEW p \in Proc, SaveStamp(p) \/ Fail(p) \/ FailLost(p) \/ Kill(p) PROVE CInv'
  BY <1>0, <1>3, <1>6 DEF SaveStamp, Fail, FailLost, Kill, Return
<1>7. CASE Cron \/ Outage \/ OrphanEnds \/ Advance \/ UNCHANGED vars
  BY <1>3, <1>7 DEF Cron, Outage, OrphanEnds, Advance, vars
<1> QED
  BY <1>1, <1>2, <1>4, <1>5, <1>6, <1>7 DEF Next, Happen, Proc

\* domain/instance.rs lines 57-60: pgbackrest finds the full backup it needs.
THEOREM ChainsBeginFull == Spec => []DiffHasFull
<1>1. Init => CInv
  BY DEF Init, CInv, DiffHasFull, ChainBegun
<1>2. TInv /\ CInv /\ [Next]_vars => CInv'
  BY ChainStep
<1>3. CInv => DiffHasFull
  BY DEF CInv
<1> QED
  BY <1>1, <1>2, <1>3, TypeInvariant, PTL DEF Spec

-----------------------------------------------------------------------------
(* One scheduled backup a day                                              *)

\* Records of the timer whose second file was written.
Scheduled(i) == snaps[i].auto /\ Date(snaps[i].at) \notin cut

\* last_snapshot_at covers every scheduled record, or is about to.
Covered ==
    \A i \in DOMAIN snaps : Scheduled(i) =>
        \/ lastOk # Never /\ snaps[i].at <= lastOk
        \/ \E t \in Tick : pc[t] = "stamp" /\ at[t] = snaps[i].at

\* From its check until it has recorded, the timer is the first of its day.
FirstOfDay ==
    \A t \in Tick : pc[t] \in {"load", "exec", "backup", "record"} =>
        \A i \in DOMAIN snaps : Scheduled(i) => Date(snaps[i].at) < Date(now)

DInv == OneScheduledPerDay /\ Covered /\ FirstOfDay

OneTick == \A s, t \in Tick : s = t

LEMMA QuietDay ==
    ASSUME TInv, TInv', SInv, DInv, QuietStep, cut \subseteq cut',
           \A t \in Tick : pc'[t] \in {"load", "exec", "backup", "record"} =>
                              pc[t] \in {"load", "exec", "backup", "record"},
           \A t \in Tick : pc[t] = "stamp" =>
                              \/ pc'[t] = "stamp" /\ at'[t] = at[t]
                              \/ Date(at[t]) \in cut'
    PROVE  DInv'
<1>1. snaps' = snaps /\ lastOk' = lastOk /\ now \in Time /\ now' \in Time /\ now <= now'
  BY DEF QuietStep, TInv, TypeOK
<1>2. \A i \in DOMAIN snaps : Scheduled(i)' => Scheduled(i)
  BY <1>1 DEF Scheduled, Date
<1>3. OneScheduledPerDay'
  BY <1>1 DEF DInv, OneScheduledPerDay, Date
<1>4. Covered'
  <2> SUFFICES ASSUME NEW i \in DOMAIN snaps, Scheduled(i)'
               PROVE  \/ lastOk # Never /\ snaps[i].at <= lastOk
                      \/ \E t \in Tick : pc'[t] = "stamp" /\ at'[t] = snaps[i].at
    BY <1>1 DEF Covered
  <2>1. CASE lastOk # Never /\ snaps[i].at <= lastOk
    BY <2>1
  <2>2. CASE \E t \in Tick : pc[t] = "stamp" /\ at[t] = snaps[i].at
    BY <1>1, <2>2 DEF Scheduled, Date
  <2> QED
    BY <1>2, <2>1, <2>2 DEF DInv, Covered
<1>5. FirstOfDay'
  <2> SUFFICES ASSUME NEW t \in Tick, pc'[t] \in {"load", "exec", "backup", "record"},
                      NEW i \in DOMAIN snaps, Scheduled(i)'
               PROVE  Date(snaps[i].at) < Date(now')
    BY <1>1 DEF FirstOfDay, Date
  <2>1. Date(snaps[i].at) < Date(now)
    BY <1>2 DEF DInv, FirstOfDay
  <2>2. Date(now) <= Date(now') /\ Date(now) \in Nat /\ Date(now') \in Nat
    BY <1>1, DateGrows, DateType
  <2>3. Date(snaps[i].at) \in Nat
    BY Recorded, DateType DEF TInv
  <2> QED
    BY <2>1, <2>2, <2>3
<1> QED
  BY <1>3, <1>4, <1>5 DEF DInv

LEMMA CheckDay ==
    ASSUME OneTick, TInv, TInv', SInv, DInv, NEW c \in Tick, Check(c)
    PROVE  DInv'
<1>1. /\ UNCHANGED <<snaps, lastOk, now, cut, at>> /\ pc[c] = "check" /\ c \in Proc
      /\ pc \in [Proc -> {"idle", "check", "load", "exec", "backup", "record", "stamp", "failed"}]
      /\ pc'[c] \in {"load", "idle"}
      /\ pc'[c] = "load" => ~CoveredToday(lastOk)
      /\ now \in Time /\ lastOk \in Stamp
  BY DEF TInv, TypeOK, Check, stateFile, ghosts, IsSnapshotDue, Proc
<1>2. \A t \in Tick : t = c
  BY DEF OneTick
<1>3. \A i \in DOMAIN snaps : Scheduled(i)' <=> Scheduled(i)
  BY <1>1 DEF Scheduled, Date
<1>4. OneScheduledPerDay'
  BY <1>1 DEF DInv, OneScheduledPerDay, Date
<1>5. \A i \in DOMAIN snaps : Scheduled(i) => lastOk # Never /\ snaps[i].at <= lastOk
  BY <1>1, <1>2 DEF DInv, Covered
<1>6. Covered'
  BY <1>1, <1>3, <1>5 DEF Covered
<1>7. FirstOfDay'
  <2> SUFFICES ASSUME pc'[c] = "load", NEW i \in DOMAIN snaps, Scheduled(i)
               PROVE  Date(snaps[i].at) < Date(now)
    BY <1>1, <1>2, <1>3 DEF FirstOfDay, Date
  <2>1. lastOk # Never /\ snaps[i].at <= lastOk /\ snaps[i].at \in Time
    BY <1>5, Recorded DEF TInv
  <2>2. lastOk \in Time /\ lastOk <= now
    BY <1>1, <2>1, Times DEF Stamp, SInv, OkIsAttempt, TryIsPast, TInv, TypeOK
  <2>3. Date(lastOk) # Date(now)
    BY <1>1, <2>1 DEF CoveredToday
  <2>4. /\ Date(snaps[i].at) <= Date(lastOk) /\ Date(lastOk) <= Date(now)
        /\ Date(snaps[i].at) \in Nat /\ Date(lastOk) \in Nat /\ Date(now) \in Nat
    BY <1>1, <2>1, <2>2, DateGrows, DateType
  <2> QED
    BY <2>3, <2>4
<1> QED
  BY <1>4, <1>6, <1>7 DEF DInv

LEMMA RecordDay ==
    ASSUME OneTick, TInv, SInv, DInv, NEW p \in Proc, SaveRecord(p) \/ RecordUnsynced(p)
    PROVE  DInv'
<1> DEFINE n == Len(snaps)
<1>1. /\ n \in Nat /\ DOMAIN snaps = 1 .. n /\ DOMAIN snaps' = 1 .. n + 1
      /\ \A i \in 1 .. n : snaps'[i] = snaps[i]
      /\ snaps'[n + 1].at = now /\ snaps'[n + 1].auto = (p \in Tick)
  BY AfterRecord DEF SaveRecord, RecordUnsynced
<1>2. /\ UNCHANGED <<now, lastOk>> /\ pc[p] = "record"
      /\ \/ /\ pc' = [pc EXCEPT ![p] = "stamp"] /\ at' = [at EXCEPT ![p] = now]
            /\ cut' = cut
         \/ /\ pc' = [pc EXCEPT ![p] = "failed"] /\ at' = at
            /\ cut' = cut \cup {Date(now)}
      /\ pc \in [Proc -> {"idle", "check", "load", "exec", "backup", "record", "stamp", "failed"}]
      /\ at \in [Proc -> Stamp] /\ \A q \in Proc : pc[q] # "stamp"
  BY DEF TInv, TypeOK, SaveRecord, RecordUnsynced, Push, Unlocked, stateFile, ghosts
<1>3. p \in Tick => \A i \in 1 .. n : Scheduled(i) => Date(snaps[i].at) < Date(now)
  BY <1>1, <1>2 DEF DInv, FirstOfDay
<1>4. cut \subseteq cut' /\ \A i \in 1 .. n : Scheduled(i)' => Scheduled(i)
  BY <1>1, <1>2 DEF Scheduled, Date
<1>5. \A i \in 1 .. n : Date(snaps[i].at) \in Nat
  BY <1>1, Recorded, DateType DEF TInv
<1>6. \A i \in 1 .. n : snaps[i].auto /\ p \in Tick /\ Date(snaps[i].at) = Date(now) => Date(now) \in cut
  <2>1. Date(now) \in Nat
    BY DateType DEF TInv, TypeOK
  <2> QED
    BY <1>3, <1>5, <2>1 DEF Scheduled
<1> HIDE DEF n
<1>7. OneScheduledPerDay'
  <2> SUFFICES ASSUME NEW i \in 1 .. n + 1, NEW j \in 1 .. n + 1,
                      i < j, snaps'[i].auto, snaps'[j].auto,
                      Date(snaps'[i].at) = Date(snaps'[j].at)
               PROVE  Date(snaps'[i].at) \in cut'
    BY <1>1, <1>2 DEF OneScheduledPerDay, Date
  <2>1. i \in 1 .. n /\ snaps'[i] = snaps[i]
    BY <1>1
  <2>2. CASE j \in 1 .. n
    BY <1>1, <1>4, <2>1, <2>2 DEF DInv, OneScheduledPerDay
  <2>3. CASE j = n + 1
    BY <1>1, <1>4, <1>6, <2>1, <2>3
  <2> QED
    BY <1>1, <2>2, <2>3
<1>8. Covered'
  <2> SUFFICES ASSUME NEW i \in 1 .. n + 1, Scheduled(i)'
               PROVE  \/ lastOk # Never /\ snaps'[i].at <= lastOk
                      \/ \E t \in Tick : pc'[t] = "stamp" /\ at'[t] = snaps'[i].at
    BY <1>1, <1>2 DEF Covered
  <2>1. CASE i = n + 1
    BY <1>1, <1>2, <2>1 DEF Scheduled
  <2>2. CASE i \in 1 .. n
    <3>1. lastOk # Never /\ snaps[i].at <= lastOk
      BY <1>1, <1>2, <1>4, <2>2 DEF DInv, Covered, Proc
    <3> QED
      BY <1>1, <2>2, <3>1
  <2> QED
    BY <1>1, <2>1, <2>2
<1>9. FirstOfDay'
  <2> SUFFICES ASSUME NEW t \in Tick, pc'[t] \in {"load", "exec", "backup", "record"},
                      NEW i \in 1 .. n + 1, Scheduled(i)'
               PROVE  Date(snaps'[i].at) < Date(now)
    BY <1>1, <1>2 DEF FirstOfDay, Date
  <2>1. t # p /\ pc[t] \in {"load", "exec", "backup", "record"} /\ p \notin Tick
    BY <1>2 DEF OneTick, Proc
  <2>2. i \in 1 .. n
    <3>1. ~snaps'[n + 1].auto
      BY <1>1, <2>1, Zenon
    <3>2. snaps'[i].auto
      BY DEF Scheduled
    <3> QED
      BY <1>1, <3>1, <3>2
  <2> QED
    BY <1>1, <1>4, <2>1, <2>2 DEF DInv, FirstOfDay
<1> QED
  BY <1>7, <1>8, <1>9 DEF DInv

LEMMA StampDay ==
    ASSUME TInv, SInv, DInv, NEW p \in Proc, SaveStamp(p) \/ StampUnsynced(p)
    PROVE  DInv'
<1>1. /\ UNCHANGED <<now, snaps, cut>> /\ pc[p] = "stamp" /\ at[p] \in Time
      /\ lastOk' = at[p]
      /\ pc' = [pc EXCEPT ![p] = "idle"] \/ pc' = [pc EXCEPT ![p] = "failed"]
      /\ pc \in [Proc -> {"idle", "check", "load", "exec", "backup", "record", "stamp", "failed"}]
  BY DEF TInv, TypeOK, HasTime, SaveStamp, StampUnsynced, Return
<1>2. /\ at[p] \in Nat /\ at[p] # Never
      /\ lastOk # Never => lastOk \in Nat /\ lastOk <= at[p]
  <2>1. lastOk \in Stamp /\ lastTry \in Stamp
    BY DEF TInv, TypeOK
  <2>2. /\ lastTry # Never => lastTry \in Nat /\ lastTry <= at[p]
        /\ lastOk # Never => lastOk \in Nat /\ lastTry # Never /\ lastOk <= lastTry
    BY <1>1, <2>1, Times DEF Stamp, SInv, AtIsNew, OkIsAttempt
  <2>3. at[p] \in Nat /\ at[p] # Never
    BY <1>1, Times
  <2> QED
    BY <2>2, <2>3
<1>3. \A i \in DOMAIN snaps : (Scheduled(i)' <=> Scheduled(i)) /\ snaps[i].at \in Nat
  BY <1>1, Recorded, Times DEF Scheduled, Date, TInv
<1>4. OneScheduledPerDay'
  BY <1>1 DEF DInv, OneScheduledPerDay, Date
<1>5. Covered'
  <2> SUFFICES ASSUME NEW i \in DOMAIN snaps, Scheduled(i)
               PROVE  snaps[i].at <= at[p]
    BY <1>1, <1>2, <1>3 DEF Covered
  <2>1. CASE lastOk # Never /\ snaps[i].at <= lastOk
    BY <1>2, <1>3, <2>1
  <2>2. ASSUME NEW t \in Tick, pc[t] = "stamp", at[t] = snaps[i].at PROVE snaps[i].at <= at[p]
    BY <1>1, <1>2, <2>2 DEF SInv, OneWrites, Proc
  <2> QED
    BY <2>1, <2>2 DEF DInv, Covered
<1>6. FirstOfDay'
  BY <1>1, <1>3 DEF DInv, FirstOfDay, Date, Proc
<1> QED
  BY <1>4, <1>5, <1>6 DEF DInv

LEMMA DayStep ==
    ASSUME OneTick, TInv, TInv', SInv, DInv, [Next]_vars
    PROVE  DInv'
<1>0. /\ pc \in [Proc -> {"idle", "check", "load", "exec", "backup", "record", "stamp", "failed"}]
      /\ at \in [Proc -> Stamp] /\ \A t \in Tick : t \in Proc /\ t \notin Manual
  BY ProcAssumption DEF ProcAssumption, TInv, TypeOK, Proc
<1> DEFINE Keeps ==
      /\ cut \subseteq cut'
      /\ \A t \in Tick : pc'[t] \in {"load", "exec", "backup", "record"} =>
                            pc[t] \in {"load", "exec", "backup", "record"}
      /\ \A t \in Tick : pc[t] = "stamp" =>
                            \/ pc'[t] = "stamp" /\ at'[t] = at[t]
                            \/ Date(at[t]) \in cut'
<1>1. ASSUME NEW c \in Tick, Check(c) PROVE DInv'
  BY <1>1, CheckDay
<1>2. ASSUME NEW p \in Proc, SaveRecord(p) \/ RecordUnsynced(p) PROVE DInv'
  BY <1>2, RecordDay
<1>3. ASSUME NEW p \in Proc, SaveStamp(p) \/ StampUnsynced(p) PROVE DInv'
  BY <1>3, StampDay
<1>4. ASSUME NEW p \in Proc, Fail(p) PROVE DInv'
  <2>1. /\ UNCHANGED <<snaps, lastOk, now, cut>> /\ pc' = [pc EXCEPT ![p] = "idle"]
        /\ \A q \in Proc : pc[q] # "stamp"
    BY <1>4 DEF Fail, Return, Unlocked
  <2> QED
    BY <1>0, <2>1 DEF DInv, OneScheduledPerDay, Covered, FirstOfDay, Scheduled, Date
<1>5. ASSUME QuietStep, Keeps PROVE DInv'
  BY <1>5, QuietDay
<1>6. ASSUME NEW t \in Tick, Fire(t) PROVE Keeps
  BY <1>0, <1>6 DEF Fire, ghosts
<1>7. ASSUME NEW p \in Proc, Choose(p) \/ Exec(p) \/ BackupEnds(p) PROVE Keeps
  BY <1>0, <1>7 DEF Choose, Exec, BackupEnds, ghosts
<1>8. ASSUME NEW m \in Manual, Request(m) PROVE Keeps
  BY <1>0, <1>8 DEF Request
<1>9. ASSUME NEW p \in Proc, SaveFails(p) PROVE Keeps
  BY <1>0, <1>9 DEF SaveFails
<1>10. ASSUME NEW p \in Proc, Kill(p) \/ FailLost(p) PROVE Keeps
  BY <1>0, <1>10 DEF Kill, FailLost, Return
<1>11. ASSUME NEW p \in Proc, ConnectionLost(p) PROVE Keeps
  BY <1>0, <1>11 DEF ConnectionLost
<1>12. ASSUME Cron \/ Outage \/ OrphanEnds \/ Advance \/ UNCHANGED vars PROVE Keeps
  BY <1>0, <1>12 DEF Cron, Outage, OrphanEnds, Advance, vars
<1> QED
  BY <1>1, <1>2, <1>3, <1>4, <1>5, <1>6, <1>7, <1>8, <1>9, <1>10, <1>11, <1>12, OthersAreQuiet
  DEF Next, Happen, Proc

\* snapshot.rs is_snapshot_due: with one process of the timer at a time, which
\* systemd sees to, a day has one scheduled backup unless its second file was lost.
THEOREM ScheduledOnce ==
    ASSUME OneTick
    PROVE  Spec => []OneScheduledPerDay
<1>1. Init => DInv
  BY DEF Init, DInv, OneScheduledPerDay, Covered, FirstOfDay
<1>2. (TInv /\ SInv) /\ (TInv /\ SInv)' /\ DInv /\ [Next]_vars => DInv'
  BY DayStep
<1>3. DInv => OneScheduledPerDay
  BY DEF DInv
<1> QED
  BY <1>1, <1>2, <1>3, StampInvariant, PTL DEF Spec

-----------------------------------------------------------------------------
(* Covered once nothing is wrong                                           *)

\* The stanza's holder is the process whose pgbackrest runs.
Holder == \A p \in Proc : pc[p] = "backup" <=> stanza = p

\* What keeps the timer's attempts from succeeding.
Blocked == ~healthy \/ stanza \notin Tick \cup {Free}

\* A failure of the timer has a reason that lasts, or has just gone.
FailedForReason == \A t \in Tick : pc[t] = "failed" => calm = now \/ Blocked

\* The last attempt succeeded, or has such a reason.
TryExplained == lastTry # Never => lastTry = lastOk \/ lastTry <= calm \/ Blocked

\* A record has the present time unless its process was slow.
AtIsNow == \A p \in Proc : pc[p] = "stamp" => at[p] = now \/ calm = now

\* The timer has fired and is done with this unit of time.
Handled ==
    \/ calm = now \/ Blocked
    \/ hour = Off \/ ~WindowOpen(hour)
    \/ CoveredToday(lastOk) \/ BackingOff(lastTry)

FiredIsHandled == fired /\ (\A t \in Tick : pc[t] = "idle") => Handled

FInv ==
    /\ calm <= now
    /\ Holder /\ FailedForReason /\ TryExplained /\ AtIsNow /\ FiredIsHandled

LEMMA HolderStep ==
    ASSUME TInv, Holder, [Next]_vars
    PROVE  Holder'
<1>0. /\ pc \in [Proc -> {"idle", "check", "load", "exec", "backup", "record", "stamp", "failed"}]
      /\ \A p \in Proc : p # Free /\ p # Orphan
      /\ Free # Orphan
  BY ProcAssumption DEF ProcAssumption, TInv, TypeOK
<1>1. ASSUME NEW t \in Tick, Fire(t) \/ Check(t) PROVE Holder'
  BY <1>0, <1>1 DEF Holder, Fire, Check, Proc
<1>2. ASSUME NEW p \in Proc,
             \/ Request(p) \/ Choose(p) \/ SaveRecord(p) \/ SaveFails(p)
             \/ RecordUnsynced(p) \/ StampUnsynced(p)
      PROVE  Holder'
  BY <1>0, <1>2 DEF Holder, Request, Choose, SaveRecord, Push, SaveFails, RecordUnsynced, StampUnsynced
<1>3. ASSUME NEW p \in Proc, Exec(p) PROVE Holder'
  BY <1>0, <1>3 DEF Holder, Exec
<1>4. ASSUME NEW p \in Proc, BackupEnds(p) PROVE Holder'
  BY <1>0, <1>4 DEF Holder, BackupEnds
<1>5. ASSUME NEW p \in Proc, SaveStamp(p) \/ Fail(p) \/ FailLost(p) PROVE Holder'
  BY <1>0, <1>5 DEF Holder, SaveStamp, Fail, FailLost, Return
<1>6. ASSUME NEW p \in Proc, Kill(p) PROVE Holder'
  BY <1>0, <1>6 DEF Holder, Kill, Return
<1>7. ASSUME NEW p \in Proc, ConnectionLost(p) PROVE Holder'
  BY <1>0, <1>7 DEF Holder, ConnectionLost
<1>8. CASE Cron \/ Outage \/ OrphanEnds \/ Advance \/ UNCHANGED vars
  BY <1>0, <1>8 DEF Holder, Cron, Outage, OrphanEnds, Advance, vars
<1> QED
  BY <1>1, <1>2, <1>3, <1>4, <1>5, <1>6, <1>7, <1>8 DEF Next, Happen, Proc

\* After a disturbance nothing is promised.
LEMMA DisturbedStep ==
    ASSUME TInv', SInv', Holder', calm' = now'
    PROVE  FInv'
<1>1. now' \in Nat /\ (lastTry' # Never => lastTry' <= now')
  BY Times DEF TInv, TypeOK, SInv, TryIsPast
<1> QED
  BY <1>1 DEF FInv, FailedForReason, TryExplained, AtIsNow, FiredIsHandled, Handled

\* Steps that leave the files and the conditions of a backup alone.
LEMMA CalmStep ==
    ASSUME TInv, FInv, Holder',
           UNCHANGED <<now, hour, lastOk, lastTry, healthy, stanza, calm, at>>,
           \A p \in Proc : pc'[p] = "stamp" => pc[p] = "stamp",
           \A t \in Tick : pc'[t] = "failed" => pc[t] = "failed" \/ Blocked,
           fired' /\ (\A t \in Tick : pc'[t] = "idle") =>
              Handled \/ (fired /\ \A t \in Tick : pc[t] = "idle")
    PROVE  FInv'
<1>1. FailedForReason' /\ TryExplained' /\ AtIsNow'
  BY DEF FInv, FailedForReason, TryExplained, AtIsNow, Blocked
<1>2. Handled' <=> Handled
  BY DEF Handled, Blocked, WindowOpen, CoveredToday, BackingOff, Date
<1>3. FiredIsHandled'
  BY <1>2 DEF FInv, FiredIsHandled
<1> QED
  BY <1>1, <1>3 DEF FInv

LEMMA DecidingSteps ==
    ASSUME OneTick, TInv, FInv, Holder', NEW p \in Proc,
           (p \in Tick /\ (Fire(p) \/ Check(p))) \/ Choose(p)
    PROVE  FInv'
<1>0. /\ pc \in [Proc -> {"idle", "check", "load", "exec", "backup", "record", "stamp", "failed"}]
      /\ \A t \in Tick : t \in Proc
  BY DEF TInv, TypeOK, Proc
<1>1. CASE p \in Tick /\ Fire(p)
  BY <1>0, <1>1, CalmStep DEF Fire, stateFile, ghosts
<1>2. CASE p \in Tick /\ Check(p)
  <2>1. pc'[p] = "idle" => Handled
    BY <1>0, <1>2 DEF Check, IsSnapshotDue, Handled
  <2> QED
    BY <1>0, <1>2, <2>1, CalmStep DEF Check, stateFile, ghosts
<1>3. CASE Choose(p)
  <2>1. \A q \in Proc : pc'[q] = "failed" => pc[q] = "failed" \/ ~healthy
    BY <1>0, <1>3 DEF Choose
  <2>2. \A q \in Proc : (pc'[q] = "stamp" => pc[q] = "stamp") /\ (pc'[q] = "idle" => pc[q] = "idle")
    BY <1>0, <1>3 DEF Choose
  <2> QED
    BY <1>0, <1>3, <2>1, <2>2, CalmStep DEF Choose, Blocked, stateFile, ghosts
<1> QED
  BY <1>1, <1>2, <1>3

LEMMA ExecStep ==
    ASSUME OneTick, TInv, TInv', SInv', FInv, Holder', NEW p \in Proc, Exec(p)
    PROVE  FInv'
<1>0. /\ pc \in [Proc -> {"idle", "check", "load", "exec", "backup", "record", "stamp", "failed"}]
      /\ \A t \in Tick : t \in Proc
      /\ \A q \in Proc : q # Free
      /\ stanza \in Proc \cup {Free, Orphan}
      /\ \A q \in Proc : (pc'[q] = "stamp" => pc[q] = "stamp") /\ (pc'[q] = "idle" => pc[q] = "idle")
  BY ProcAssumption DEF ProcAssumption, TInv, TypeOK, Proc, Exec
<1>1. CASE stanza # Free
  <2>1. p \in Tick => Blocked
    BY <1>0, <1>1 DEF OneTick, FInv, Holder, Blocked, Exec
  <2>2. \A q \in Proc : pc'[q] = "failed" => pc[q] = "failed" \/ q = p
    BY <1>0 DEF Exec
  <2>3. UNCHANGED <<now, hour, lastOk, lastTry, healthy, stanza, calm, at, fired>>
    BY <1>1 DEF Exec, stateFile, ghosts
  <2> QED
    BY <1>0, <2>1, <2>2, <2>3, CalmStep
<1>2. CASE stanza = Free
  <2>1. /\ UNCHANGED <<now, hour, lastOk, lastTry, healthy, calm, at, fired>>
        /\ stanza' = p /\ pc' = [pc EXCEPT ![p] = "backup"]
    BY <1>2 DEF Exec, stateFile, ghosts
  <2>2. Blocked => Blocked'
    BY <1>2, <2>1 DEF Blocked
  <2>3. FailedForReason' /\ TryExplained' /\ AtIsNow'
    BY <1>0, <2>1, <2>2 DEF FInv, FailedForReason, TryExplained, AtIsNow
  <2>4. Handled => Handled'
    BY <2>1, <2>2 DEF Handled, WindowOpen, CoveredToday, BackingOff, Date
  <2>5. FiredIsHandled'
    BY <1>0, <2>1, <2>4 DEF FInv, FiredIsHandled
  <2> QED
    BY <2>1, <2>3, <2>5 DEF FInv
<1> QED
  BY <1>1, <1>2

LEMMA BackupEndsStep ==
    ASSUME OneTick, TInv, TInv', SInv', FInv, Holder', NEW p \in Proc, BackupEnds(p)
    PROVE  FInv'
<1>1. CASE p \in Manual
  BY <1>1, DisturbedStep DEF BackupEnds
<1>2. CASE p \in Tick
  <2>0. /\ pc \in [Proc -> {"idle", "check", "load", "exec", "backup", "record", "stamp", "failed"}]
        /\ \A t \in Tick : t = p
        /\ p \notin Manual
    BY <1>2, ProcAssumption DEF ProcAssumption, TInv, TypeOK, OneTick
  <2>1. /\ UNCHANGED <<now, hour, lastOk, lastTry, healthy, calm, at, fired>>
        /\ stanza' = Free /\ stanza = p
        /\ pc' = [pc EXCEPT ![p] = IF healthy THEN "record" ELSE "failed"]
    BY <2>0 DEF BackupEnds, FInv, Holder, stateFile
  <2>2. Blocked' <=> Blocked
    BY <1>2, <2>1 DEF Blocked
  <2>3. ~healthy => Blocked
    BY DEF Blocked
  <2>4. FailedForReason'
    BY <2>0, <2>1, <2>2, <2>3 DEF FailedForReason
  <2>5. TryExplained' /\ AtIsNow'
    BY <2>0, <2>1, <2>2 DEF FInv, TryExplained, AtIsNow
  <2>6. FiredIsHandled'
    BY <1>2, <2>0, <2>1 DEF FiredIsHandled
  <2> QED
    BY <2>1, <2>4, <2>5, <2>6 DEF FInv
<1> QED
  BY <1>1, <1>2 DEF Proc

LEMMA WritingSteps ==
    ASSUME TInv, TInv', SInv, SInv', FInv, Holder', NEW p \in Proc,
           SaveRecord(p) \/ SaveStamp(p) \/ Fail(p)
    PROVE  FInv'
<1>0. /\ pc \in [Proc -> {"idle", "check", "load", "exec", "backup", "record", "stamp", "failed"}]
      /\ at \in [Proc -> Stamp] /\ \A t \in Tick : t \in Proc
      /\ now \in Nat /\ calm \in Nat /\ HourLen \in Nat \ {0} /\ calm <= now
  BY Times, ClockAssumption DEF ClockAssumption, TInv, TypeOK, Proc, FInv
<1>1. CASE SaveRecord(p)
  <2>1. /\ UNCHANGED <<now, hour, lastOk, lastTry, healthy, stanza, calm, fired>>
        /\ pc' = [pc EXCEPT ![p] = "stamp"] /\ at' = [at EXCEPT ![p] = now]
    BY <1>1 DEF SaveRecord, Push, stateFile, ghosts
  <2>2. FailedForReason' /\ TryExplained' /\ AtIsNow'
    BY <1>0, <2>1 DEF FInv, FailedForReason, TryExplained, AtIsNow, Blocked
  <2>3. Handled' <=> Handled
    BY <2>1 DEF Handled, Blocked, WindowOpen, CoveredToday, BackingOff, Date
  <2>4. FiredIsHandled'
    BY <1>0, <2>1, <2>3 DEF FInv, FiredIsHandled
  <2> QED
    BY <2>1, <2>2, <2>4 DEF FInv
<1>2. CASE SaveStamp(p)
  <2>1. /\ UNCHANGED <<now, hour, healthy, stanza, calm, fired>>
        /\ pc[p] = "stamp" /\ lastOk' = at[p] /\ lastTry' = at[p]
        /\ pc' = [pc EXCEPT ![p] = "idle"] /\ at' = [at EXCEPT ![p] = Never]
    BY <1>2 DEF SaveStamp, Return
  <2>2. FailedForReason' /\ TryExplained'
    BY <1>0, <2>1 DEF FInv, FailedForReason, TryExplained, Blocked
  <2>3. AtIsNow'
    BY <1>0, <2>1 DEF FInv, AtIsNow
  <2>4. /\ at[p] \in Time /\ now \in Time /\ at[p] \in Nat /\ at[p] # Never /\ at[p] <= now
        /\ lastTry # Never => lastTry <= at[p] /\ lastTry \in Nat
        /\ lastOk # Never => lastOk \in Time /\ lastOk \in Nat /\ lastTry # Never /\ lastOk <= lastTry
    <3>1. lastTry \in Stamp /\ lastOk \in Stamp /\ now \in Time /\ at[p] \in Time
      BY <2>1 DEF TInv, TypeOK, HasTime
    <3>2. at[p] \in Nat /\ at[p] # Never
      BY <3>1, Times
    <3> QED
      BY <2>1, <3>1, <3>2, Times DEF Stamp, SInv, AtIsNew, OkIsAttempt
  <2>5. CoveredToday(lastOk) => CoveredToday(at[p])
    <3> SUFFICES ASSUME lastOk # Never, Date(lastOk) = Date(now)
                 PROVE  Date(at[p]) = Date(now)
      BY <2>4 DEF CoveredToday
    <3>1. lastOk <= at[p] /\ lastOk \in Time
      BY <2>4
    <3>2. Date(lastOk) <= Date(at[p]) /\ Date(at[p]) <= Date(now)
      BY <3>1, <2>4, DateGrows
    <3>3. Date(at[p]) \in Nat /\ Date(now) \in Nat
      BY <2>4, DateType
    <3> QED
      BY <3>2, <3>3
  <2>6. BackingOff(lastTry) => BackingOff(at[p])
    BY <1>0, <2>4 DEF BackingOff
  <2>7. Handled => Handled'
    BY <2>1, <2>5, <2>6 DEF Handled, Blocked, WindowOpen, CoveredToday, BackingOff, Date
  <2>8. p \in Tick => Handled'
    BY <1>0, <2>1, <2>4 DEF FInv, AtIsNow, Handled, CoveredToday, Date
  <2>9. FiredIsHandled'
    BY <1>0, <2>1, <2>7, <2>8 DEF FInv, FiredIsHandled
  <2> QED
    BY <2>1, <2>2, <2>3, <2>9 DEF FInv
<1>3. CASE Fail(p)
  <2>1. /\ UNCHANGED <<now, hour, lastOk, healthy, stanza, calm, fired>>
        /\ pc[p] = "failed" /\ lastTry' = IF p \in Tick THEN now ELSE lastTry
        /\ pc' = [pc EXCEPT ![p] = "idle"] /\ at' = [at EXCEPT ![p] = Never]
        /\ \A q \in Proc : pc[q] # "stamp"
    BY <1>3 DEF Fail, Return, Unlocked
  <2>2. FailedForReason' /\ AtIsNow'
    BY <1>0, <2>1 DEF FInv, FailedForReason, AtIsNow, Blocked
  <2>3. TryExplained'
    BY <1>0, <2>1 DEF FInv, FailedForReason, TryExplained, Blocked
  <2>4. CASE p \in Tick
    <3>1. now # Never /\ lastTry' = now
      BY <2>1, <2>4, Times DEF TInv, TypeOK
    <3>2. Handled'
      BY <1>0, <2>1, <3>1 DEF Handled, BackingOff
    <3> QED
      BY <2>1, <2>2, <2>3, <3>2 DEF FInv, FiredIsHandled
  <2>5. CASE p \notin Tick
    <3>1. Handled' <=> Handled
      BY <2>1, <2>5 DEF Handled, Blocked, WindowOpen, CoveredToday, BackingOff, Date
    <3>2. FiredIsHandled'
      BY <1>0, <2>1, <2>5, <3>1 DEF FInv, FiredIsHandled
    <3> QED
      BY <2>1, <2>2, <2>3, <3>2 DEF FInv
  <2> QED
    BY <2>4, <2>5
<1> QED
  BY <1>1, <1>2, <1>3

LEMMA AdvanceStep ==
    ASSUME TInv, TInv', SInv', FInv, Holder', Advance
    PROVE  FInv'
<1>1. CASE Settled
  <2>1. /\ UNCHANGED <<hour, lastOk, lastTry, healthy, stanza, calm, pc>>
        /\ now' = now + 1 /\ fired' = FALSE /\ now \in Nat /\ calm \in Nat
        /\ \A p \in Proc : pc[p] \notin {"failed", "stamp"}
    BY <1>1, Times DEF Advance, Settled, stateFile, TInv, TypeOK
  <2> QED
    BY <2>1 DEF FInv, FailedForReason, TryExplained, AtIsNow, FiredIsHandled, Blocked, Proc
<1>2. CASE ~Settled
  BY <1>2, DisturbedStep DEF Advance
<1> QED
  BY <1>1, <1>2

LEMMA CoverStep ==
    ASSUME OneTick, TInv, TInv', SInv, SInv', FInv, [Next]_vars
    PROVE  FInv'
<1>0. Holder'
  BY HolderStep DEF FInv
<1>1. ASSUME NEW t \in Tick, Fire(t) \/ Check(t) PROVE FInv'
  BY <1>0, <1>1, DecidingSteps DEF Proc
<1>2. ASSUME NEW p \in Proc, Choose(p) \/ Exec(p) \/ BackupEnds(p) PROVE FInv'
  BY <1>0, <1>2, DecidingSteps, ExecStep, BackupEndsStep
<1>3. ASSUME NEW p \in Proc, SaveRecord(p) \/ SaveStamp(p) \/ Fail(p) PROVE FInv'
  BY <1>0, <1>3, WritingSteps
<1>4. ASSUME NEW p \in Proc,
             \/ Request(p) \/ SaveFails(p) \/ Kill(p) \/ ConnectionLost(p)
             \/ FailLost(p) \/ RecordUnsynced(p) \/ StampUnsynced(p)
      PROVE  FInv'
  BY <1>0, <1>4, DisturbedStep DEF Request, SaveFails, Kill, ConnectionLost,
     FailLost, RecordUnsynced, StampUnsynced, Push, Disturb
<1>5. CASE Cron \/ Outage \/ OrphanEnds
  BY <1>0, <1>5, DisturbedStep DEF Cron, Outage, OrphanEnds, Disturb
<1>6. CASE Advance
  BY <1>0, <1>6, AdvanceStep
<1>7. CASE UNCHANGED vars
  BY <1>0, <1>7, CalmStep DEF vars, FInv
<1> QED
  BY <1>1, <1>2, <1>3, <1>4, <1>5, <1>6, <1>7 DEF Next, Happen, Proc

\* README, `snapshot --due`: an hour without anything going wrong, and an
\* instance whose window has opened has its backup.
THEOREM CoveredInTheEnd ==
    ASSUME OneTick
    PROVE  Spec => []CoveredAfterBackoff
<1>1. Init => FInv
  BY ProcAssumption DEF ProcAssumption, Init, FInv, Holder, FailedForReason, TryExplained,
     AtIsNow, FiredIsHandled, Proc
<1>2. (TInv /\ SInv) /\ (TInv /\ SInv)' /\ FInv /\ [Next]_vars => FInv'
  BY CoverStep
<1>3. TInv /\ SInv /\ FInv => CoveredAfterBackoff
  <2> SUFFICES ASSUME TInv, SInv, FInv, Settled, healthy, stanza = Free, hour # Off,
                      WindowOpen(hour), now - calm >= HourLen
               PROVE  CoveredToday(lastOk) \/ (lastOk # Never /\ now - lastOk < HourLen)
    BY DEF CoveredAfterBackoff
  <2>1. /\ now \in Nat /\ calm \in Nat /\ HourLen \in Nat \ {0} /\ ~Blocked
        /\ \A p \in Proc : p # Free
    BY Times, ClockAssumption, ProcAssumption
    DEF ClockAssumption, ProcAssumption, TInv, TypeOK, Blocked
  <2>2. calm # now
    BY <2>1
  <2>3. \A p \in Proc : pc[p] = "idle"
    BY <2>1 DEF FInv, Holder, Settled
  <2>4. fired
    BY <2>3 DEF Settled, Proc
  <2>5. Handled
    BY <2>3, <2>4 DEF FInv, FiredIsHandled, Proc
  <2>6. CoveredToday(lastOk) \/ BackingOff(lastTry)
    BY <2>1, <2>2, <2>5 DEF Handled
  <2>7. ASSUME BackingOff(lastTry) PROVE lastTry = lastOk
    <3>1. lastTry # Never /\ lastTry \in Nat /\ now - lastTry < HourLen
      BY <2>7, Times DEF BackingOff, TInv, TypeOK, Stamp
    <3>2. ~(lastTry <= calm)
      BY <2>1, <3>1
    <3> QED
      BY <2>1, <3>1, <3>2 DEF FInv, TryExplained
  <2> QED
    BY <2>6, <2>7 DEF BackingOff
<1> QED
  BY <1>1, <1>2, <1>3, StampInvariant, PTL DEF Spec
=============================================================================
