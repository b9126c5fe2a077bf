------------------------------ MODULE SmartProofs ------------------------------
(***************************************************************************)
(* Proofs about Smart, for any set of drives and any number of commands,   *)
(* changes and faults: type correctness, that the dashboard shows neither  *)
(* an alarm nor an all-clear older than 48 hours, and that the timer has   *)
(* the grant and the record that it uses; and, if nobody disables it while *)
(* it checks, that an uninstall leaves no cache.                           *)
(***************************************************************************)
EXTENDS Smart, TLAPS

-----------------------------------------------------------------------------
(* Operators                                                               *)

LEMMA WorseType ==
    ASSUME NEW s \in Status, NEW t \in Status
    PROVE  /\ Worse(s, t) \in Status
           /\ Worse(s, t) = "critical" <=> s = "critical" \/ t = "critical"
BY DEF Status, Worse, Rank

\* A verdict is critical only while a drive fails, and for every drive that tells.
LEMMA VerdictTells ==
    ASSUME TypeOK, NEW d
    PROVE  /\ Verdict(d) \in Status
           /\ Verdict(d) = "critical" => Failing
           /\ d \in Drive /\ Telling(d) => Verdict(d) = "critical"
<1>1. CASE sudoers = None \/ d \notin sudoers
  BY <1>1 DEF Verdict, Telling, Status
<1>2. CASE sudoers # None /\ d \in sudoers
  <2>1. d \in Drive /\ drive[d] \in Condition
    BY <1>2 DEF TypeOK
  <2> QED
    BY <1>2, <2>1 DEF Verdict, Telling, Status, Condition, Failing
<1> QED
  BY <1>1, <1>2

\* What ages keeps its order.
LEMMA Aging ==
    ASSUME NEW a \in Age, NEW b \in Age, a <= b
    PROVE  /\ Older(a) \in Age /\ Older(a) <= Older(b)
           /\ LongAgo(a) \in Age /\ LongAgo(a) <= LongAgo(b)
BY DEF Age, Stale, Older, LongAgo

LEMMA AgeFacts == 0 \in Age /\ Stale \in Age /\ \A a \in Age : 0 <= a /\ a <= a
BY DEF Age, Stale

LEMMA IdleType == Idle \in Run /\ Idle.pc = "idle" /\ Idle.best = "unknown"
BY AgeFacts DEF Idle, Run, Status

LEMMA Runs ==
    ASSUME TypeOK, NEW p \in Runner
    PROVE  /\ run[p] \in Run /\ run[p].todo \in SUBSET Drive
           /\ run[p].best \in Status /\ run[p].age \in Age
BY DEF TypeOK, Run

LEMMA PresentType == Present \in SUBSET Drive
BY DEF Present

-----------------------------------------------------------------------------
(* Types                                                                   *)

LEMMA InitType == Init => TypeOK
<1> SUFFICES ASSUME Init PROVE TypeOK
  OBVIOUS
<1>1. cmds \in 0 .. MaxCmds /\ changes \in 0 .. MaxChanges /\ faults \in 0 .. MaxFaults
  BY SmartAssumption DEF SmartAssumption, Init
<1>2. run \in [Runner -> Run] /\ drive \in [Drive -> Condition]
  BY IdleType DEF Init, Condition
<1>3. told \in [Drive -> Age] /\ calm \in Age
  BY AgeFacts DEF Init
<1> QED
  BY <1>1, <1>2, <1>3 DEF Init, TypeOK, Status

LEMMA KeepType ==
    ASSUME TypeOK, Keep
    PROVE  told' \in [Drive -> Age] /\ calm' \in Age
BY AgeFacts DEF TypeOK, Keep

LEMMA CheckFromType ==
    ASSUME TypeOK, NEW p \in Runner, CheckFrom(p)
    PROVE  run' \in [Runner -> Run]
<1>1. [Idle EXCEPT !.pc = "discover", !.rec = record] \in Run
  BY IdleType DEF TypeOK, Run, Checking
<1> QED
  BY <1>1 DEF TypeOK, CheckFrom

LEMMA GotoType ==
    ASSUME TypeOK, NEW p \in Runner,
           NEW l \in Checking \cup Installing \cup Uninstalling, Goto(p, l)
    PROVE  run' \in [Runner -> Run]
<1>1. [run[p] EXCEPT !.pc = l] \in Run
  BY Runs DEF Run
<1> QED
  BY <1>1 DEF TypeOK, Goto

LEMMA QuitType ==
    ASSUME TypeOK, NEW p \in Runner, Quit(p)
    PROVE  run' \in [Runner -> Run]
BY IdleType DEF TypeOK, Quit

LEMMA ChecksType ==
    ASSUME TypeOK, NEW p \in Runner, Checks(p), Keep
    PROVE  TypeOK'
<1>1. told' \in [Drive -> Age] /\ calm' \in Age
  BY KeepType
<1>2. CASE Discover(p)
  <2>1. [run[p] EXCEPT !.todo = IF run[p].rec THEN Present ELSE {},
                       !.pc = IF run[p].rec /\ Present # {} THEN "probe" ELSE "write"] \in Run
    BY Runs, PresentType DEF Run, Checking
  <2>2. run' \in [Runner -> Run]
    BY <1>2, <2>1 DEF TypeOK, Discover
  <2> QED
    BY <1>1, <1>2, <2>2 DEF TypeOK, Discover, setup
<1>3. CASE Probe(p)
  <2> DEFINE d == CHOOSE d \in run[p].todo : \A e \in run[p].todo : d <= e
             left == run[p].todo \ {d}
  <2>1. Worse(run[p].best, Verdict(d)) \in Status
    BY Runs, VerdictTells, WorseType
  <2>2. left \in SUBSET Drive
    BY Runs
  <2>3. [run[p] EXCEPT !.best = Worse(@, Verdict(d)), !.todo = left,
                       !.pc = IF left = {} THEN "write" ELSE "probe"] \in Run
    <3> HIDE DEF d, left
    <3> QED
      BY Runs, <2>1, <2>2 DEF Run, Checking
  <2>4. run' \in [Runner -> Run]
    BY <1>3, <2>3 DEF TypeOK, Probe
  <2> QED
    BY <1>1, <1>3, <2>4 DEF TypeOK, Probe, setup
<1>4. CASE WriteCache(p)
  <2>1. run' \in [Runner -> Run]
    BY <1>4, QuitType DEF WriteCache
  <2>2. cache' \in [status: Status, age: Age]
    BY <1>4, Runs DEF WriteCache
  <2> QED
    BY <1>1, <1>4, <2>1, <2>2 DEF TypeOK, WriteCache, setup
<1> QED
  BY <1>2, <1>3, <1>4 DEF Checks

LEMMA SetsType ==
    ASSUME TypeOK, NEW p \in Runner, Sets(p), Keep
    PROVE  TypeOK'
<1>1. told' \in [Drive -> Age] /\ calm' \in Age
  BY KeepType
<1>2. CASE FindDrives(p)
  <2>1. [run[p] EXCEPT !.pc = "grant", !.todo = Present] \in Run
    BY Runs, PresentType DEF Run, Installing
  <2>2. run' \in [Runner -> Run]
    BY <1>2, <2>1, QuitType DEF TypeOK, FindDrives
  <2> QED
    BY <1>1, <1>2, <2>2 DEF TypeOK, FindDrives, setup
<1>3. CASE Grant(p)
  <2>1. run' \in [Runner -> Run]
    BY <1>3, GotoType DEF Grant, Installing
  <2> QED
    BY <1>1, <1>3, <2>1, Runs DEF TypeOK, Grant
<1>4. CASE WriteRecord(p)
  <2>1. run' \in [Runner -> Run]
    BY <1>4, GotoType DEF WriteRecord, Installing
  <2> QED
    BY <1>1, <1>4, <2>1 DEF TypeOK, WriteRecord
<1>5. CASE EnableTimer(p)
  <2>1. run' \in [Runner -> Run]
    BY <1>5, CheckFromType DEF EnableTimer
  <2> QED
    BY <1>1, <1>5, <2>1 DEF TypeOK, EnableTimer
<1>6. CASE DisableTimer(p)
  <2>1. run' \in [Runner -> Run]
    BY <1>6, GotoType DEF DisableTimer, Uninstalling
  <2> QED
    BY <1>1, <1>6, <2>1 DEF TypeOK, DisableTimer
<1>7. CASE Revoke(p)
  <2>1. run' \in [Runner -> Run]
    BY <1>7, GotoType DEF Revoke, Uninstalling
  <2> QED
    BY <1>1, <1>7, <2>1 DEF TypeOK, Revoke
<1>8. CASE RemoveRecord(p)
  <2>1. run' \in [Runner -> Run]
    BY <1>8, GotoType DEF RemoveRecord, Uninstalling
  <2> QED
    BY <1>1, <1>8, <2>1 DEF TypeOK, RemoveRecord
<1>9. CASE RemoveCache(p)
  <2>1. run' \in [Runner -> Run]
    BY <1>9, QuitType DEF RemoveCache
  <2> QED
    BY <1>1, <1>9, <2>1 DEF TypeOK, RemoveCache, setup
<1> QED
  BY <1>2, <1>3, <1>4, <1>5, <1>6, <1>7, <1>8, <1>9 DEF Sets

LEMMA CommandType ==
    ASSUME TypeOK, NEW l \in {"find", "disable", "discover"}, Command(l), Keep
    PROVE  TypeOK'
<1>1. "user" \in Runner
  BY DEF Runner
<1>2. run' \in [Runner -> Run]
  BY <1>1, CheckFromType, GotoType DEF Command, Installing, Uninstalling
<1>3. cmds' \in 0 .. MaxCmds
  BY SmartAssumption DEF SmartAssumption, TypeOK, Command
<1> QED
  BY <1>2, <1>3, KeepType DEF TypeOK, Command, setup

LEMMA FaultType ==
    ASSUME TypeOK, Fault
    PROVE  faults' \in 0 .. MaxFaults
BY SmartAssumption DEF SmartAssumption, TypeOK, Fault

LEMMA CallFailsType ==
    ASSUME TypeOK, NEW p \in Runner, CallFails(p), Keep
    PROVE  TypeOK'
<1>1. run' \in [Runner -> Run]
  BY GotoType, QuitType DEF CallFails, Checking, Uninstalling
<1> QED
  BY <1>1, FaultType, KeepType DEF TypeOK, CallFails, setup

LEMMA DieType ==
    ASSUME TypeOK, NEW p \in Runner, Die(p), Keep
    PROVE  TypeOK'
BY QuitType, FaultType, KeepType DEF TypeOK, Die, setup

LEMMA ChangeType ==
    ASSUME TypeOK, NEW d \in Drive, Change(d), Keep
    PROVE  TypeOK'
<1>1. changes' \in 0 .. MaxChanges /\ drive' \in [Drive -> Condition]
  BY SmartAssumption DEF SmartAssumption, TypeOK, Change
<1> QED
  BY <1>1, KeepType DEF TypeOK, Change, setup

LEMMA ActType ==
    ASSUME TypeOK, Act, Keep
    PROVE  TypeOK'
<1>1. CASE TimerFires
  <2>1. run' \in [Runner -> Run]
    BY <1>1, CheckFromType DEF TimerFires, Runner
  <2> QED
    BY <1>1, <2>1, KeepType DEF TypeOK, TimerFires, setup
<1>2. CASE ReaderTick
  <2>1. shown' \in Status
    BY <1>2 DEF TypeOK, ReaderTick, ReadCache, Status
  <2> QED
    BY <1>2, <2>1, KeepType DEF TypeOK, ReaderTick, setup
<1> QED
  BY <1>1, <1>2, ChecksType, SetsType, CallFailsType, DieType, CommandType, ChangeType DEF Act

LEMMA AgeType ==
    ASSUME TypeOK, Day \/ Sleep
    PROVE  TypeOK'
<1>1. \A a \in Age : Older(a) \in Age /\ LongAgo(a) \in Age
  BY Aging, AgeFacts
<1>2. CASE Day
  <2>1. cache' = None \/ cache' \in [status: Status, age: Age]
    BY <1>1, <1>2 DEF TypeOK, Day, Age1
  <2>2. \A p \in Runner : [run[p] EXCEPT !.age = Older(@)] \in Run
    BY <1>1, Runs DEF Run
  <2>3. run' \in [Runner -> Run]
    BY <1>2, <2>2 DEF TypeOK, Day, Age1
  <2>4. told' \in [Drive -> Age] /\ calm' \in Age
    BY <1>1, <1>2, AgeFacts DEF TypeOK, Day, Age1
  <2> QED
    BY <1>2, <2>1, <2>3, <2>4 DEF TypeOK, Day, Age1, setup
<1>3. CASE Sleep
  <2>1. cache' = None \/ cache' \in [status: Status, age: Age]
    BY <1>1, <1>3 DEF TypeOK, Sleep, Age1
  <2>2. \A p \in Runner : [run[p] EXCEPT !.age = LongAgo(@)] \in Run
    BY <1>1, Runs DEF Run
  <2>3. run' \in [Runner -> Run]
    BY <1>3, <2>2 DEF TypeOK, Sleep, Age1
  <2>4. told' \in [Drive -> Age] /\ calm' \in Age
    BY <1>1, <1>3, AgeFacts DEF TypeOK, Sleep, Age1
  <2> QED
    BY <1>3, <2>1, <2>3, <2>4, FaultType DEF TypeOK, Sleep, Age1, setup
<1> QED
  BY <1>2, <1>3

LEMMA NextType == TypeOK /\ [Next]_vars => TypeOK'
<1>1. TypeOK /\ UNCHANGED vars => TypeOK'
  BY DEF TypeOK, vars, setup, ghosts
<1> QED
  BY <1>1, ActType, AgeType DEF Next

\* Every variable keeps its type.
THEOREM TypeCorrect == Spec => []TypeOK
<1> QED
  BY InitType, NextType, PTL DEF Spec

-----------------------------------------------------------------------------
(* What the verdicts know. A verdict carries the time at which its check   *)
(* began; RedIsRecent and OkIsRecent bound what may have happened since.   *)

\* Only what every check would see counts as seen.
ToldOfTelling == \A d \in Drive : ~Telling(d) => told[d] = 0

\* A check that has found a drive failing is not older than that drive's
\* failing; one that has not is older than the failing of every drive behind it.
ChecksKnow ==
    \A p \in Runner :
        /\ At(p, "discover") => run[p].best = "unknown"
        /\ At(p, "probe") /\ run[p].best # "critical" =>
             \A d \in Drive \ run[p].todo : told[d] <= run[p].age
        /\ At(p, "write") /\ run[p].best \in {"ok", "warn"} =>
             \A d \in Drive : told[d] <= run[p].age
        /\ run[p].pc \in Checking /\ run[p].best = "critical" => calm <= run[p].age

\* And so it is for the cache.
CacheKnows ==
    cache # None =>
        /\ cache.status = "critical" => calm <= cache.age
        /\ cache.status \in {"ok", "warn"} => \A d \in Drive : told[d] <= cache.age

\* What is shown is what was read, until there is something new to read.
ShowsWhatItRead == read => shown = ReadCache

KInv == ToldOfTelling /\ ChecksKnow /\ CacheKnows /\ ShowsWhatItRead

LEMMA InitKInv == Init => KInv
BY DEF Init, KInv, ToldOfTelling, ChecksKnow, CacheKnows, ShowsWhatItRead,
       Idle, At, Checking, ReadCache

\* Within a day nothing that is known grows older, and nothing is told of a
\* drive that does not tell.
LEMMA KeepFacts ==
    ASSUME TypeOK, ToldOfTelling, Keep
    PROVE  /\ calm' <= calm /\ calm' \in Age
           /\ Failing => calm' = 0
           /\ \A d \in Drive : told'[d] <= told[d] /\ told'[d] \in Age
           /\ ToldOfTelling'
<1>1. /\ \A d \in Drive : told'[d] = IF Telling(d)' THEN told[d] ELSE 0
      /\ calm' = IF Failing \/ Failing' THEN 0 ELSE calm
  BY DEF Keep
<1>2. calm \in Age /\ \A d \in Drive : told[d] \in Age
  BY DEF TypeOK
<1> QED
  BY <1>1, <1>2, AgeFacts DEF ToldOfTelling

\* A step that writes no cache and no verdict keeps what is known.
Quiet(p) ==
    \/ UNCHANGED run[p]
    \/ run[p]'.pc \notin Checking
    \/ run[p]'.pc \in {"discover", "write"} /\ run[p]'.best = "unknown"

LEMMA QuietStep ==
    ASSUME TypeOK, KInv, Keep, cache' \in {cache, None}, \A p \in Runner : Quiet(p)
    PROVE  ChecksKnow' /\ CacheKnows' /\ ToldOfTelling'
<1>1. /\ calm' <= calm /\ calm' \in Age
      /\ \A d \in Drive : told'[d] <= told[d] /\ told'[d] \in Age
      /\ ToldOfTelling'
  BY KeepFacts DEF KInv
<1>2. calm \in Age /\ (\A d \in Drive : told[d] \in Age)
  BY DEF TypeOK
<1>3. CacheKnows'
  <2>1. CASE cache' = cache /\ cache # None
    <3>1. cache.age \in Age
      BY <2>1 DEF TypeOK
    <3> QED
      BY <1>1, <1>2, <2>1, <3>1 DEF KInv, CacheKnows, Age
  <2> QED
    BY <2>1 DEF CacheKnows
<1>4. ChecksKnow'
  <2> SUFFICES ASSUME NEW p \in Runner
               PROVE  /\ At(p, "discover")' => run[p]'.best = "unknown"
                      /\ At(p, "probe")' /\ run[p]'.best # "critical" =>
                           \A d \in Drive \ run[p]'.todo : told'[d] <= run[p]'.age
                      /\ At(p, "write")' /\ run[p]'.best \in {"ok", "warn"} =>
                           \A d \in Drive : told'[d] <= run[p]'.age
                      /\ run[p]'.pc \in Checking /\ run[p]'.best = "critical" =>
                           calm' <= run[p]'.age
    BY DEF ChecksKnow
  <2>1. CASE UNCHANGED run[p]
    <3>1. run[p].age \in Age
      BY Runs
    <3> QED
      BY <1>1, <1>2, <2>1, <3>1 DEF KInv, ChecksKnow, At, Age
  <2>2. CASE run[p]'.pc \notin Checking
    BY <2>2 DEF At, Checking
  <2>3. CASE run[p]'.pc \in {"discover", "write"} /\ run[p]'.best = "unknown"
    BY <2>3 DEF At
  <2> QED
    BY <2>1, <2>2, <2>3 DEF Quiet
<1> QED
  BY <1>1, <1>3, <1>4

LEMMA QuietRuns ==
    ASSUME TypeOK, NEW p \in Runner,
           \/ Quit(p) \/ CheckFrom(p)
           \/ \E l \in Installing \cup Uninstalling : Goto(p, l)
    PROVE  \A q \in Runner : Quiet(q)
<1>1. CASE Quit(p)
  BY <1>1, IdleType DEF TypeOK, Quit, Quiet, Checking
<1>2. CASE CheckFrom(p)
  BY <1>2, IdleType DEF TypeOK, CheckFrom, Quiet, Checking, Idle
<1>3. CASE \E l \in Installing \cup Uninstalling : Goto(p, l)
  BY <1>3, Runs DEF TypeOK, Goto, Quiet, Run, Checking, Installing, Uninstalling
<1> QED
  BY <1>1, <1>2, <1>3

\* A check goes on: p's run becomes r, and the others stay.
LEMMA RunStep ==
    ASSUME TypeOK, KInv, Keep, UNCHANGED cache, NEW p \in Runner, NEW r \in Run,
           run' = [run EXCEPT ![p] = r], r.age = run[p].age,
           r.pc \in {"probe", "write"},
           r.best = "critical" => Failing \/ (run[p].pc \in Checking /\ run[p].best = "critical"),
           r.pc = "probe" /\ r.best # "critical" =>
               \A d \in Drive \ r.todo : told'[d] <= r.age,
           r.pc = "write" /\ r.best \in {"ok", "warn"} =>
               \A d \in Drive : told'[d] <= r.age
    PROVE  ChecksKnow' /\ CacheKnows' /\ ToldOfTelling'
<1>1. /\ calm' <= calm /\ calm' \in Age /\ (Failing => calm' = 0)
      /\ \A d \in Drive : told'[d] <= told[d] /\ told'[d] \in Age
      /\ ToldOfTelling'
  BY KeepFacts DEF KInv
<1>2. calm \in Age /\ (\A d \in Drive : told[d] \in Age)
  BY DEF TypeOK
<1>3. CacheKnows'
  <2>1. CASE cache # None
    <3>1. cache.age \in Age
      BY <2>1 DEF TypeOK
    <3> QED
      BY <1>1, <1>2, <2>1, <3>1 DEF KInv, CacheKnows, Age
  <2> QED
    BY <2>1 DEF CacheKnows
<1>4. ChecksKnow'
  <2> SUFFICES ASSUME NEW q \in Runner
               PROVE  /\ At(q, "discover")' => run[q]'.best = "unknown"
                      /\ At(q, "probe")' /\ run[q]'.best # "critical" =>
                           \A d \in Drive \ run[q]'.todo : told'[d] <= run[q]'.age
                      /\ At(q, "write")' /\ run[q]'.best \in {"ok", "warn"} =>
                           \A d \in Drive : told'[d] <= run[q]'.age
                      /\ run[q]'.pc \in Checking /\ run[q]'.best = "critical" =>
                           calm' <= run[q]'.age
    BY DEF ChecksKnow
  <2>1. CASE q # p
    <3>1. run'[q] = run[q] /\ run[q].age \in Age
      BY <2>1, Runs DEF TypeOK
    <3> QED
      BY <1>1, <1>2, <3>1 DEF KInv, ChecksKnow, At, Age
  <2>2. CASE q = p
    <3>1. run'[p] = r /\ r.age \in Age
      BY Runs DEF TypeOK
    <3>2. r.best = "critical" => calm' <= r.age
      BY <1>1, <1>2, <3>1 DEF KInv, ChecksKnow, Age
    <3> QED
      BY <2>2, <3>1, <3>2 DEF At
  <2> QED
    BY <2>1, <2>2
<1> QED
  BY <1>1, <1>3, <1>4

LEMMA DiscoverStep ==
    ASSUME TypeOK, KInv, Keep, NEW p \in Runner, Discover(p)
    PROVE  ChecksKnow' /\ CacheKnows' /\ ToldOfTelling'
<1> DEFINE r == [run[p] EXCEPT !.todo = IF run[p].rec THEN Present ELSE {},
                               !.pc = IF run[p].rec /\ Present # {} THEN "probe" ELSE "write"]
<1>1. r \in Run /\ r.age = run[p].age /\ r.pc \in {"probe", "write"} /\ r.best = run[p].best
  BY Runs, PresentType DEF Run, Checking
<1>2. run[p].best = "unknown"
  BY DEF Discover, KInv, ChecksKnow
<1>3. r.pc = "probe" => r.todo = Present
  BY Runs DEF Run
<1>4. \A d \in Drive \ Present : told'[d] = 0
  BY DEF Present, Discover, Keep, Telling
<1>5. run' = [run EXCEPT ![p] = r] /\ UNCHANGED cache
  BY DEF TypeOK, Discover
<1>6. 0 <= run[p].age
  BY Runs, AgeFacts
<1> HIDE DEF r
<1> QED
  BY <1>1, <1>2, <1>3, <1>4, <1>5, <1>6, RunStep

LEMMA ProbeStep ==
    ASSUME TypeOK, KInv, Keep, NEW p \in Runner, Probe(p)
    PROVE  ChecksKnow' /\ CacheKnows' /\ ToldOfTelling'
<1> DEFINE d == CHOOSE d \in run[p].todo : \A e \in run[p].todo : d <= e
           left == run[p].todo \ {d}
           r == [run[p] EXCEPT !.best = Worse(@, Verdict(d)), !.todo = left,
                               !.pc = IF left = {} THEN "write" ELSE "probe"]
<1>0. /\ run' = [run EXCEPT ![p].best = Worse(@, Verdict(d)), ![p].todo = left,
                             ![p].pc = IF left = {} THEN "write" ELSE "probe"]
      /\ UNCHANGED cache /\ At(p, "probe")
  BY Zenon DEF Probe
<1>1. run' = [run EXCEPT ![p] = r] /\ UNCHANGED cache /\ At(p, "probe")
  <2> HIDE DEF d, left
  <2> QED
    BY <1>0 DEF TypeOK
<1>2. left \in SUBSET Drive
  BY Runs
<1>3. /\ Worse(run[p].best, Verdict(d)) \in Status
      /\ Worse(run[p].best, Verdict(d)) = "critical" =>
           run[p].best = "critical" \/ Failing
      /\ Worse(run[p].best, Verdict(d)) # "critical" =>
           run[p].best # "critical" /\ ~(d \in Drive /\ Telling(d))
  BY Runs, VerdictTells, WorseType
<1> HIDE DEF d
<1>4. /\ r \in Run /\ r.age = run[p].age /\ r.todo = left
      /\ r.best = Worse(run[p].best, Verdict(d))
      /\ r.pc = IF left = {} THEN "write" ELSE "probe"
  BY <1>2, <1>3, Runs DEF Run, Checking
<1>5. r.best # "critical" => \A e \in Drive \ left : told'[e] <= run[p].age
  <2> SUFFICES ASSUME r.best # "critical", NEW e \in Drive \ left
               PROVE  told'[e] <= run[p].age
    OBVIOUS
  <2>0. /\ told'[e] <= told[e] /\ told'[e] \in Age
        /\ told[e] \in Age /\ run[p].age \in Age
    BY KeepFacts, Runs DEF KInv, TypeOK
  <2>1. CASE e \notin run[p].todo
    <3>1. told[e] <= run[p].age
      BY <1>1, <1>3, <1>4, <2>1 DEF KInv, ChecksKnow
    <3> QED
      BY <2>0, <3>1 DEF Age
  <2>2. CASE e = d
    <3>1. told[e] = 0
      BY <1>3, <1>4, <2>2 DEF KInv, ToldOfTelling
    <3> QED
      BY <2>0, <3>1 DEF Age
  <2> QED
    BY <2>1, <2>2
<1>6. r.best = "critical" => Failing \/ (run[p].pc \in Checking /\ run[p].best = "critical")
  BY <1>1, <1>3, <1>4 DEF At, Checking
<1> HIDE DEF r, left
<1>7. r.pc = "write" /\ r.best \in {"ok", "warn"} => \A e \in Drive : told'[e] <= r.age
  BY <1>4, <1>5
<1> QED
  BY <1>1, <1>4, <1>5, <1>6, <1>7, RunStep

LEMMA WriteCacheStep ==
    ASSUME TypeOK, KInv, Keep, NEW p \in Runner, WriteCache(p)
    PROVE  ChecksKnow' /\ CacheKnows' /\ ToldOfTelling'
<1> DEFINE c == [status |-> run[p].best, age |-> run[p].age]
<1>1. cache' = c /\ Quit(p) /\ At(p, "write")
  BY DEF WriteCache
<1>2. /\ calm' <= calm /\ calm' \in Age /\ calm \in Age /\ run[p].age \in Age
      /\ \A d \in Drive : told'[d] <= told[d] /\ told'[d] \in Age /\ told[d] \in Age
      /\ ToldOfTelling'
  BY KeepFacts, Runs DEF KInv, TypeOK
<1>3. CacheKnows'
  <2>1. c.status = "critical" => calm <= c.age
    BY <1>1 DEF KInv, ChecksKnow, At, Checking
  <2>2. c.status \in {"ok", "warn"} => \A d \in Drive : told[d] <= c.age
    BY <1>1 DEF KInv, ChecksKnow, At
  <2>3. c.age \in Age
    BY <1>2
  <2> HIDE DEF c
  <2> QED
    BY <1>1, <1>2, <2>1, <2>2, <2>3 DEF CacheKnows, Age
<1>4. ChecksKnow'
  <2>1. \A q \in Runner : run'[q] = run[q] \/ run'[q].pc = "idle"
    BY <1>1, IdleType DEF TypeOK, Quit
  <2>2. \A q \in Runner : run[q].age \in Age
    BY Runs
  <2> QED
    BY <1>2, <2>1, <2>2 DEF ChecksKnow, KInv, At, Checking, Age
<1> QED
  BY <1>2, <1>3, <1>4

LEMMA DayStep ==
    ASSUME TypeOK, KInv, Day
    PROVE  ChecksKnow' /\ CacheKnows' /\ ToldOfTelling'
<1>1. /\ cache' = IF cache = None THEN None ELSE [cache EXCEPT !.age = Older(@)]
      /\ run' = [p \in Runner |-> IF run[p].pc \in Checking
                                    THEN [run[p] EXCEPT !.age = Older(@)] ELSE run[p]]
      /\ \A d \in Drive : told'[d] = IF Telling(d) THEN Older(told[d]) ELSE 0
      /\ calm' = IF Failing THEN 0 ELSE Older(calm)
      /\ UNCHANGED <<drive, sudoers, record>>
  BY DEF Day, Age1, setup
<1>2. /\ \A a \in Age : Older(a) \in Age /\ 0 <= Older(a)
      /\ \A a, b \in Age : a <= b => Older(a) <= Older(b)
  BY Aging, AgeFacts
<1>3. /\ calm \in Age /\ (\A d \in Drive : told[d] \in Age)
      /\ \A p \in Runner : run[p] \in Run /\ run[p].age \in Age
  BY Runs DEF TypeOK
<1>4. ToldOfTelling'
  BY <1>1 DEF ToldOfTelling, Telling
<1>5. /\ \A a \in Age : calm <= a => calm' <= Older(a)
      /\ \A d \in Drive, a \in Age : told[d] <= a => told'[d] <= Older(a)
  BY <1>1, <1>2, <1>3
<1>6. CacheKnows'
  <2>1. CASE cache # None
    <3>1. /\ cache \in [status: Status, age: Age] /\ cache.age \in Age
          /\ cache' = [cache EXCEPT !.age = Older(@)]
      BY <1>1, <2>1 DEF TypeOK
    <3>2. cache'.status = cache.status /\ cache'.age = Older(cache.age)
      BY <3>1
    <3> QED
      BY <1>5, <2>1, <3>1, <3>2 DEF KInv, CacheKnows
  <2>2. CASE cache = None
    BY <1>1, <2>2 DEF CacheKnows
  <2> QED
    BY <2>1, <2>2
<1>7. ChecksKnow'
  <2>1. ASSUME NEW p \in Runner
        PROVE  /\ run'[p].pc = run[p].pc /\ run'[p].best = run[p].best
               /\ run'[p].todo = run[p].todo
               /\ run[p].pc \in Checking => run'[p].age = Older(run[p].age)
    BY <1>1, <1>3, <2>1 DEF Run
  <2> QED
    BY <1>3, <1>5, <2>1 DEF KInv, ChecksKnow, At, Checking
<1> QED
  BY <1>4, <1>6, <1>7

LEMMA SleepStep ==
    ASSUME TypeOK, KInv, Sleep
    PROVE  ChecksKnow' /\ CacheKnows' /\ ToldOfTelling'
<1>1. /\ cache' = IF cache = None THEN None ELSE [cache EXCEPT !.age = LongAgo(@)]
      /\ run' = [p \in Runner |-> IF run[p].pc \in Checking
                                    THEN [run[p] EXCEPT !.age = LongAgo(@)] ELSE run[p]]
      /\ \A d \in Drive : told'[d] = IF Telling(d) THEN LongAgo(told[d]) ELSE 0
      /\ calm' = IF Failing THEN 0 ELSE LongAgo(calm)
      /\ UNCHANGED <<drive, sudoers, record>>
  BY DEF Sleep, Age1, setup
<1>2. /\ \A a \in Age : LongAgo(a) \in Age /\ 0 <= LongAgo(a)
      /\ \A a, b \in Age : a <= b => LongAgo(a) <= LongAgo(b)
  BY Aging, AgeFacts
<1>3. /\ calm \in Age /\ (\A d \in Drive : told[d] \in Age)
      /\ \A p \in Runner : run[p] \in Run /\ run[p].age \in Age
  BY Runs DEF TypeOK
<1>4. ToldOfTelling'
  BY <1>1 DEF ToldOfTelling, Telling
<1>5. /\ \A a \in Age : calm <= a => calm' <= LongAgo(a)
      /\ \A d \in Drive, a \in Age : told[d] <= a => told'[d] <= LongAgo(a)
  BY <1>1, <1>2, <1>3
<1>6. CacheKnows'
  <2>1. CASE cache # None
    <3>1. /\ cache \in [status: Status, age: Age] /\ cache.age \in Age
          /\ cache' = [cache EXCEPT !.age = LongAgo(@)]
      BY <1>1, <2>1 DEF TypeOK
    <3>2. cache'.status = cache.status /\ cache'.age = LongAgo(cache.age)
      BY <3>1
    <3> QED
      BY <1>5, <2>1, <3>1, <3>2 DEF KInv, CacheKnows
  <2>2. CASE cache = None
    BY <1>1, <2>2 DEF CacheKnows
  <2> QED
    BY <2>1, <2>2
<1>7. ChecksKnow'
  <2>1. ASSUME NEW p \in Runner
        PROVE  /\ run'[p].pc = run[p].pc /\ run'[p].best = run[p].best
               /\ run'[p].todo = run[p].todo
               /\ run[p].pc \in Checking => run'[p].age = LongAgo(run[p].age)
    BY <1>1, <1>3, <2>1 DEF Run
  <2> QED
    BY <1>3, <1>5, <2>1 DEF KInv, ChecksKnow, At, Checking
<1> QED
  BY <1>4, <1>6, <1>7

LEMMA ActKnows ==
    ASSUME TypeOK, KInv, Act, Keep
    PROVE  ChecksKnow' /\ CacheKnows' /\ ToldOfTelling'
<1>1. CASE TimerFires
  BY <1>1, QuietRuns, QuietStep DEF TimerFires, Runner
<1>2. CASE ReaderTick
  BY <1>2, QuietStep DEF ReaderTick, Quiet
<1>3. ASSUME NEW p \in Runner, Checks(p)
      PROVE  ChecksKnow' /\ CacheKnows' /\ ToldOfTelling'
  BY <1>3, DiscoverStep, ProbeStep, WriteCacheStep DEF Checks
<1>4. ASSUME NEW p \in Runner, Sets(p)
      PROVE  ChecksKnow' /\ CacheKnows' /\ ToldOfTelling'
  <2>1. CASE FindDrives(p)
    <3>1. \A q \in Runner : run'[q] = run[q] \/ run'[q].pc \notin Checking
      BY <2>1, IdleType, Runs DEF TypeOK, FindDrives, Quit, Checking, Run
    <3> QED
      BY <2>1, <3>1, QuietStep DEF FindDrives, Quiet
  <2>2. cache' \in {cache, None}
    BY <1>4 DEF Sets, FindDrives, Grant, WriteRecord, EnableTimer, DisableTimer,
                Revoke, RemoveRecord, RemoveCache
  <2>3. CASE ~FindDrives(p)
    <3>1. \/ Quit(p) \/ CheckFrom(p)
          \/ \E l \in Installing \cup Uninstalling : Goto(p, l)
      BY <1>4, <2>3 DEF Sets, Grant, WriteRecord, EnableTimer, DisableTimer,
                        Revoke, RemoveRecord, RemoveCache, Installing, Uninstalling
    <3> QED
      BY <2>2, <3>1, QuietRuns, QuietStep
  <2> QED
    BY <2>1, <2>3
<1>5. ASSUME NEW p \in Runner, CallFails(p)
      PROVE  ChecksKnow' /\ CacheKnows' /\ ToldOfTelling'
  <2>1. CASE At(p, "discover") /\ Goto(p, "write")
    <3>1. run[p].best = "unknown"
      BY <2>1 DEF KInv, ChecksKnow
    <3>2. \A q \in Runner : run'[q] = run[q] \/ (run'[q].pc = "write" /\ run'[q].best = "unknown")
      BY <2>1, <3>1, Runs DEF TypeOK, Goto, Run
    <3> QED
      BY <1>5, <3>2, QuietStep DEF CallFails, Quiet
  <2>2. CASE \/ Quit(p)
             \/ \E l \in Installing \cup Uninstalling : Goto(p, l)
    BY <1>5, <2>2, QuietRuns, QuietStep DEF CallFails
  <2> QED
    BY <1>5, <2>1, <2>2 DEF CallFails, Uninstalling
<1>6. ASSUME NEW p \in Runner, Die(p)
      PROVE  ChecksKnow' /\ CacheKnows' /\ ToldOfTelling'
  BY <1>6, QuietRuns, QuietStep DEF Die
<1>7. ASSUME NEW l \in {"find", "disable", "discover"}, Command(l)
      PROVE  ChecksKnow' /\ CacheKnows' /\ ToldOfTelling'
  <2>1. \A q \in Runner : Quiet(q)
    BY <1>7, QuietRuns DEF Command, Runner, Installing, Uninstalling
  <2> QED
    BY <1>7, <2>1, QuietStep DEF Command
<1>8. ASSUME NEW d \in Drive, Change(d)
      PROVE  ChecksKnow' /\ CacheKnows' /\ ToldOfTelling'
  BY <1>8, QuietStep DEF Change, Quiet
<1> QED
  BY <1>1, <1>2, <1>3, <1>4, <1>5, <1>6, <1>7, <1>8 DEF Act

LEMMA ShowsStep ==
    ASSUME ShowsWhatItRead, Next
    PROVE  ShowsWhatItRead'
<1>1. read' => (UNCHANGED <<cache, shown, read>> \/ ReaderTick)
  BY DEF Next, Act, Checks, Sets, Day, Sleep, Age1, TimerFires, Discover, Probe, WriteCache,
         FindDrives, Grant, WriteRecord, EnableTimer, DisableTimer, Revoke, RemoveRecord,
         RemoveCache, CallFails, Die, Command, Change
<1>2. ReaderTick => ReadCache' = ReadCache
  BY DEF ReaderTick, ReadCache
<1> QED
  BY <1>1, <1>2 DEF ShowsWhatItRead, ReadCache, ReaderTick

LEMMA NextKInv == TypeOK /\ KInv /\ [Next]_vars => KInv'
<1> SUFFICES ASSUME TypeOK, KInv, [Next]_vars PROVE KInv'
  OBVIOUS
<1>1. CASE UNCHANGED vars
  BY <1>1 DEF vars, setup, ghosts, KInv, ToldOfTelling, Telling, ChecksKnow, CacheKnows,
              ShowsWhatItRead, ReadCache, At
<1>2. CASE Next
  BY <1>2, ActKnows, DayStep, SleepStep, ShowsStep DEF Next, KInv
<1> QED
  BY <1>1, <1>2

\* A verdict's age bounds how long ago the drives were as it says.
THEOREM WhatIsKnown == Spec => []KInv
<1> QED
  BY InitType, NextType, InitKInv, NextKInv, PTL DEF Spec

\* types.rs is_stale, check.rs lines 430-431: a red footer means that a drive
\* was failing less than 48 hours ago, whichever check wrote the cache.
THEOREM AlarmsAreRecent == Spec => []RedIsRecent
<1>1. TypeOK /\ KInv => RedIsRecent
  <2> SUFFICES ASSUME TypeOK, KInv, read, shown = "critical" PROVE calm < Stale
    BY DEF RedIsRecent
  <2>1. cache # None /\ cache.status = "critical" /\ ~(cache.age >= Stale)
    BY DEF KInv, ShowsWhatItRead, ReadCache
  <2>2. cache.age \in Age /\ calm \in Age /\ calm <= cache.age
    BY <2>1 DEF TypeOK, KInv, CacheKnows
  <2> QED
    BY <2>1, <2>2 DEF Age, Stale
<1> QED
  BY <1>1, TypeCorrect, WhatIsKnown, PTL

\* An all-clear does not hide a drive that has been failing, in reach of the
\* checks, for 48 hours.
THEOREM AllClearsAreRecent == Spec => []OkIsRecent
<1>1. TypeOK /\ KInv => OkIsRecent
  <2> SUFFICES ASSUME TypeOK, KInv, read, shown \in {"ok", "warn"}, NEW d \in Drive
               PROVE told[d] < Stale
    BY DEF OkIsRecent
  <2>1. cache # None /\ cache.status \in {"ok", "warn"} /\ ~(cache.age >= Stale)
    BY DEF KInv, ShowsWhatItRead, ReadCache
  <2>2. cache.age \in Age /\ told[d] \in Age /\ told[d] <= cache.age
    BY <2>1 DEF TypeOK, KInv, CacheKnows
  <2> QED
    BY <2>1, <2>2 DEF Age, Stale
<1> QED
  BY <1>1, TypeCorrect, WhatIsKnown, PTL

-----------------------------------------------------------------------------
(* Install and uninstall. The timer's service only checks, so that the     *)
(* steps of one command are the only ones of their kind.                   *)

SetupOrder ==
    /\ run["timer"].pc \in {"idle"} \cup Checking
    /\ At("user", "record") => sudoers # None
    /\ At("user", "enable") => sudoers # None /\ record
    /\ run["user"].pc \in {"revoke", "forget", "clear"} => ~timer \/ broken

SInv == SetupOrder /\ TimerHasGrant

LEMMA InitSInv == Init => SInv
BY IdleType DEF Init, SInv, SetupOrder, TimerHasGrant, At, Runner

LEMMA NextSInv ==
    ASSUME TypeOK, SInv, Next
    PROVE  SInv'
<1> USE DEF SInv, SetupOrder, TimerHasGrant, At
<1>0. /\ "timer" \in Runner /\ "user" \in Runner
      /\ run \in [Runner -> Run] /\ run["timer"] \in Run /\ run["user"] \in Run
      /\ \A S \in SUBSET Drive : S # None
  BY SmartAssumption DEF SmartAssumption, TypeOK, Runner
<1>1. CASE TimerFires
  BY <1>0, <1>1, IdleType DEF TimerFires, CheckFrom, setup, Checking
<1>2. CASE ReaderTick
  BY <1>2 DEF ReaderTick, setup
<1>3. ASSUME NEW p \in Runner, Discover(p) \/ Probe(p)
      PROVE  SInv'
  <2>1. /\ UNCHANGED <<setup, broken>>
        /\ \A q \in Runner : run'[q].pc = run[q].pc \/ run'[q].pc \in {"probe", "write"}
    <3>1. CASE Discover(p)
      BY <1>0, <3>1 DEF Discover, Run
    <3>2. CASE Probe(p)
      <4> DEFINE d == CHOOSE d \in run[p].todo : \A e \in run[p].todo : d <= e
                 left == run[p].todo \ {d}
      <4>1. /\ run' = [run EXCEPT ![p].best = Worse(@, Verdict(d)), ![p].todo = left,
                                  ![p].pc = IF left = {} THEN "write" ELSE "probe"]
            /\ UNCHANGED <<setup, broken>>
        BY <3>2, Zenon DEF Probe
      <4> HIDE DEF d, left
      <4> QED
        BY <1>0, <4>1 DEF Run
    <3> QED
      BY <1>3, <3>1, <3>2
  <2>2. UNCHANGED <<sudoers, record, timer, broken>>
    BY <2>1 DEF setup
  <2> QED
    BY <1>0, <2>1, <2>2 DEF Checking
<1>4. ASSUME NEW p \in Runner, WriteCache(p)
      PROVE  SInv'
  BY <1>0, <1>4, IdleType DEF WriteCache, Quit, setup
<1>5. ASSUME NEW p \in Runner, Sets(p)
      PROVE  SInv'
  <2>0. p = "user"
    BY <1>5 DEF Sets, FindDrives, Grant, WriteRecord, EnableTimer, DisableTimer, Revoke,
                RemoveRecord, RemoveCache, Runner, Checking
  <2> USE <2>0
  <2>1. CASE FindDrives(p)
    BY <1>0, <2>1, IdleType, PresentType DEF FindDrives, Quit, setup, Run
  <2>2. CASE Grant(p)
    BY <1>0, <2>2 DEF Grant, Goto, Run
  <2>3. CASE WriteRecord(p)
    BY <1>0, <2>3 DEF WriteRecord, Goto, Run
  <2>4. CASE EnableTimer(p)
    BY <1>0, <2>4, IdleType DEF EnableTimer, CheckFrom
  <2>5. CASE DisableTimer(p)
    BY <1>0, <2>5 DEF DisableTimer, Goto, Run
  <2>6. CASE Revoke(p)
    BY <1>0, <2>6 DEF Revoke, Goto, Run
  <2>7. CASE RemoveRecord(p)
    BY <1>0, <2>7 DEF RemoveRecord, Goto, Run
  <2>8. CASE RemoveCache(p)
    BY <1>0, <2>8, IdleType DEF RemoveCache, Quit, setup
  <2> QED
    BY <1>5, <2>1, <2>2, <2>3, <2>4, <2>5, <2>6, <2>7, <2>8 DEF Sets
<1>6. ASSUME NEW p \in Runner, CallFails(p) \/ Die(p)
      PROVE  SInv'
  <2>1. UNCHANGED <<sudoers, record, timer>>
        /\ broken' = (broken \/ run[p].pc \in Installing \cup Uninstalling)
    BY <1>6 DEF CallFails, Die, setup
  <2>2. \A q \in Runner : q # p => run'[q] = run[q]
    BY <1>0, <1>6 DEF CallFails, Die, Goto, Quit
  <2>3. \/ run'[p].pc = "idle"
        \/ run[p].pc = "discover" /\ run'[p].pc = "write"
        \/ run[p].pc \in Uninstalling /\ run'[p].pc \in Uninstalling
    <3>1. run[p] \in Run /\ run \in [Runner -> Run]
      BY <1>0
    <3>2. Quit(p) => run'[p].pc = "idle"
      BY <3>1, IdleType DEF Quit
    <3>3. \A l : Goto(p, l) => run'[p].pc = l
      BY <3>1 DEF Goto, Run
    <3> QED
      BY <1>6, <3>2, <3>3 DEF CallFails, Die, Uninstalling
  <2> QED
    BY <1>0, <2>1, <2>2, <2>3 DEF Runner, Checking, Installing, Uninstalling
<1>7. ASSUME NEW l \in {"find", "disable", "discover"}, Command(l)
      PROVE  SInv'
  <2>1. UNCHANGED <<sudoers, record, timer, broken>>
    BY <1>7 DEF Command, setup
  <2>2. run'["timer"] = run["timer"]
    BY <1>0, <1>7 DEF Command, CheckFrom, Goto
  <2>3. run'["user"].pc = l
    BY <1>0, <1>7, IdleType DEF Command, CheckFrom, Goto, Run
  <2> QED
    BY <2>1, <2>2, <2>3
<1>8. ASSUME NEW d \in Drive, Change(d)
      PROVE  SInv'
  BY <1>8 DEF Change, setup
<1>9. CASE Day \/ Sleep
  <2>1. UNCHANGED <<sudoers, record, timer, broken>>
    BY <1>9 DEF Day, Sleep, Age1, setup
  <2>2. \A q \in Runner : run'[q].pc = run[q].pc
    BY <1>0, <1>9 DEF Day, Sleep, Age1, Run
  <2> QED
    BY <1>0, <2>1, <2>2
<1> QED
  BY <1>1, <1>2, <1>3, <1>4, <1>5, <1>6, <1>7, <1>8, <1>9 DEF Next, Act, Checks

\* install.rs: unless a step of install or uninstall failed, an enabled timer
\* finds its grant and its record.
THEOREM TimerIsGranted == Spec => []TimerHasGrant
<1>1. TypeOK /\ SInv /\ [Next]_vars => SInv'
  <2>1. SInv /\ UNCHANGED vars => SInv'
    BY DEF vars, setup, ghosts, SInv, SetupOrder, TimerHasGrant, At
  <2> QED
    BY <2>1, NextSInv
<1> QED
  BY <1>1, InitType, NextType, InitSInv, PTL DEF Spec, SInv

-----------------------------------------------------------------------------
(* When uninstall leaves no cache                                          *)

\* Nobody disables the timer while its service runs a check.
LetsFinish == timer /\ ~timer' => At("timer", "idle")

FinishSpec == Init /\ [][Next /\ LetsFinish]_vars

Ended == ~timer => At("timer", "idle")

LEMMA StaysEnded ==
    ASSUME TypeOK, SInv, Ended, [Next /\ LetsFinish]_vars
    PROVE  Ended'
<1> SUFFICES ASSUME ~timer' PROVE At("timer", "idle")'
  BY DEF Ended
<1>1. At("timer", "idle") /\ run \in [Runner -> Run] /\ run["timer"].pc = "idle"
  BY DEF Ended, LetsFinish, vars, setup, TypeOK, At
<1>2. ASSUME NEW p \in Runner, Checks(p) \/ Sets(p) \/ CallFails(p) \/ Die(p)
      PROVE  At("timer", "idle")'
  <2>1. p # "timer"
    BY <1>1, <1>2
       DEF At, Checking, Installing, Uninstalling, Checks, Discover, Probe, WriteCache, Sets,
           FindDrives, Grant, WriteRecord, EnableTimer, DisableTimer, Revoke, RemoveRecord,
           RemoveCache, CallFails, Die
  <2>2. run'["timer"] = run["timer"]
    BY <1>1, <1>2, <2>1
       DEF Runner, Checks, Discover, Probe, WriteCache, Sets, FindDrives, Grant, WriteRecord,
           EnableTimer, DisableTimer, Revoke, RemoveRecord, RemoveCache, CallFails, Die,
           CheckFrom, Goto, Quit
  <2> QED
    BY <1>1, <2>2 DEF At
<1>3. CASE TimerFires
  BY <1>3 DEF TimerFires, setup
<1>4. ASSUME NEW l, Command(l) PROVE At("timer", "idle")'
  <2>1. run'["timer"] = run["timer"]
    BY <1>1, <1>4 DEF Command, CheckFrom, Goto, Runner
  <2> QED
    BY <1>1, <2>1 DEF At
<1>5. CASE Day \/ Sleep
  <2>1. run'["timer"] = run["timer"]
    BY <1>1, <1>5 DEF Day, Sleep, Age1, Runner, Checking
  <2> QED
    BY <1>1, <2>1 DEF At
<1>6. CASE UNCHANGED run
  BY <1>1, <1>6 DEF At
<1> QED
  BY <1>2, <1>3, <1>4, <1>5, <1>6 DEF Next, Act, ReaderTick, Change, vars

\* commands/smart.rs line 27. If the timer is disabled only when its service is at
\* rest, no cache appears after an uninstall, whatever fails and wherever it stops.
THEOREM CleanWhenFinished == FinishSpec => UninstallIsClean
<1> DEFINE Clean == ~timer /\ ~record /\ At("user", "idle") /\ cache = None => cache' = None
<1>1. TypeOK /\ SInv /\ [Next /\ LetsFinish]_vars => TypeOK' /\ SInv'
  <2>1. SInv /\ UNCHANGED vars => SInv'
    BY DEF vars, setup, ghosts, SInv, SetupOrder, TimerHasGrant, At
  <2> QED
    BY <2>1, NextSInv, NextType
<1>2. TypeOK /\ SInv /\ Ended /\ [Next /\ LetsFinish]_vars => Ended'
  BY StaysEnded
<1>3. Ended /\ [Next /\ LetsFinish]_vars => [Clean]_vars
  <2> SUFFICES ASSUME Ended, Next, ~timer, At("user", "idle"), cache = None, cache' # None
               PROVE  FALSE
    OBVIOUS
  <2>1. PICK p \in Runner : WriteCache(p)
    BY DEF Next, Act, Keep, TimerFires, ReaderTick, Checks, Discover, Probe, Sets, FindDrives,
           Grant, WriteRecord, EnableTimer, DisableTimer, Revoke, RemoveRecord, RemoveCache,
           CallFails, Die, Command, Change, Day, Sleep, Age1
  <2> QED
    BY <2>1 DEF Ended, WriteCache, At, Runner
<1>4. Init => Ended
  BY IdleType DEF Init, Ended, At, Runner
<1> QED
  BY <1>1, <1>2, <1>3, <1>4, InitType, InitSInv, PTL DEF FinishSpec, UninstallIsClean
=============================================================================
