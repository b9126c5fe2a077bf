------------------------------ MODULE TuiStatus ------------------------------
(***************************************************************************)
(* What the dashboard shows of the instances' containers, and when it      *)
(* raises the alarm: the ls poller and the status poller (tui/refresh.rs), *)
(* the refresh that follows an operation, and the event loop's handlers    *)
(* (tui/app.rs). A reading is taken at one moment and handled at another,  *)
(* and between the two the container may change, or Docker stop answering. *)
(*                                                                         *)
(* A reading is "up", "down" or an error; the numbers that come with it    *)
(* are left out, and so are the snapshot, disk and SMART pollers. Keys,    *)
(* modals and operations are in Tui.                                       *)
(***************************************************************************)
EXTENDS Naturals, FiniteSets, Sequences, TLC

CONSTANTS
    Name,       \* the instances' names
    Refresher,  \* bound: as many post-operation refreshes at once
    None,
    MaxChanges, \* bound: changes of containers and of Docker
    MaxOps      \* bound: operations that end well

ASSUME BoundsAreNaturals == {MaxChanges, MaxOps} \subseteq Nat

VARIABLES
    real,       \* real[n]: absent, gone (state.toml without a container), down, up
    docker,     \* ok, hung (calls wait), refused (calls fail)
    ls,         \* the ls poller: what it has listed and asked so far
    todo,       \* the status poller: the names left of this round
    held,       \* ... and its reading of the first of them
    one,        \* one[k]: a refresh_one task
    chan,       \* the event channel
    rows,       \* AppState.instances: name and running
    shown,      \* AppState.statuses
    stale,      \* AppState.stale_status
    error,      \* AppState.last_op_error: the instance that went down
    changes, ops

world == <<real, docker>>
tasks == <<ls, todo, held, one>>
app   == <<rows, shown, stale, error>>
vars  == <<world, tasks, chan, app, changes, ops>>

Listable == {n \in Name : real[n] # "absent"}
Up(n) == real[n] = "up"
Idle == [name |-> None, reading |-> None, at |-> None]

Event(type, n, what) == [type |-> type, name |-> n, what |-> what]
Send(e) == chan' = Append(chan, e)

\* status::run_with_engine: inspect, which fails without state.toml or container;
\* of a running one `docker stats`, as a blocking call whose failure does not
\* matter; then psql and the rest in the container, which fails if it is down.
Inspected(n) ==
    IF docker = "refused" \/ real[n] \in {"absent", "gone"}
      THEN [name |-> n, reading |-> "error", at |-> "done"]
      ELSE [name |-> n, reading |-> real[n], at |-> IF Up(n) THEN "stats" ELSE "done"]

Further(t) ==
    CASE t.at = "stats" -> [t EXCEPT !.at = "execs"]
      [] t.at = "execs" ->
            [t EXCEPT !.at = "done", !.reading = IF docker = "ok" /\ Up(t.name) THEN @ ELSE "error"]

\* A poller's period is far longer than the loop takes for what the poller sent.
Drained(types) == \A i \in DOMAIN chan : chan[i].type \notin types

-----------------------------------------------------------------------------
(* The ls poller                                                           *)

\* state.toml files are listed first, then loaded, and Docker asked, one after the
\* other: unwrap_or(false). Five seconds for the whole, or the listing is dropped.
LsTick ==
    /\ ls = None /\ Drained({"listed"})
    /\ ls' = [left |-> Listable, rows |-> [n \in {} |-> FALSE]]
    /\ UNCHANGED <<todo, held, one, chan>>

\* A name removed since is skipped, or shown as down if it was just loaded.
LsAsk ==
    /\ ls # None /\ docker # "hung"
    /\ \E n \in ls.left :
        ls' \in {[left |-> ls.left \ {n},
                 rows |-> (n :> (docker = "ok" /\ Up(n))) @@ ls.rows]}
               \cup (IF n \in Listable THEN {} ELSE {[ls EXCEPT !.left = @ \ {n}]})
    /\ UNCHANGED <<todo, held, one, chan>>

LsSend ==
    /\ ls # None /\ ls.left = {}
    /\ Send(Event("listed", None, ls.rows)) /\ ls' = None
    /\ UNCHANGED <<todo, held, one>>

LsTimesOut ==
    /\ ls # None /\ ls.left # {} /\ docker = "hung"
    /\ ls' = None
    /\ UNCHANGED <<todo, held, one, chan>>

Ls == LsTick \/ LsAsk \/ LsSend \/ LsTimesOut

-----------------------------------------------------------------------------
(* The status poller                                                       *)

\* borrow_and_update: the names of the newest listing that the loop has handled.
PollTick ==
    /\ todo = {} /\ Drained({"status", "failed"})
    /\ todo' = DOMAIN rows
    /\ UNCHANGED <<ls, held, one, chan>>

PollAsk ==
    /\ todo # {} /\ held = Idle /\ docker # "hung"
    /\ \E n \in todo : held' = Inspected(n)
    /\ UNCHANGED <<ls, todo, one, chan>>

PollFurther ==
    /\ held.at \in {"stats", "execs"} /\ docker # "hung"
    /\ held' = Further(held)
    /\ UNCHANGED <<ls, todo, one, chan>>

Tell(n, r) ==
    Send(IF r = "error" THEN Event("failed", n, None) ELSE Event("status", n, r))

PollSend ==
    /\ held.at = "done"
    /\ Tell(held.name, held.reading)
    /\ todo' = todo \ {held.name} /\ held' = Idle
    /\ UNCHANGED <<ls, one>>

\* Mutant: no time limit.
PollTimesOutNever == FALSE

\* Five seconds for each name, but no time limit ends a blocking call.
PollTimesOut ==
    /\ docker = "hung" /\ todo # {} /\ held.at \in {None, "execs"}
    /\ \E n \in IF held = Idle THEN todo ELSE {held.name} :
        /\ Tell(n, "error")
        /\ todo' = todo \ {n} /\ held' = Idle
    /\ UNCHANGED <<ls, one>>

Poll == PollTick \/ PollAsk \/ PollFurther \/ PollSend \/ PollTimesOut

-----------------------------------------------------------------------------
(* refresh_one                                                             *)

\* Mutant: an error is sent like a reading.
RefreshSendsAny(k) ==
    /\ one[k].at = "done"
    /\ one' = [one EXCEPT ![k] = Idle]
    /\ Send(Event("status", one[k].name, one[k].reading))
    /\ UNCHANGED <<ls, todo, held>>

\* No time limit, and an error is not reported.
RefreshSends(k) ==
    /\ one[k].at = "done"
    /\ one' = [one EXCEPT ![k] = Idle]
    /\ IF one[k].reading = "error" THEN UNCHANGED chan
       ELSE Send(Event("status", one[k].name, one[k].reading))
    /\ UNCHANGED <<ls, todo, held>>

RefreshAsks(k) ==
    /\ one[k] # Idle /\ one[k].at # "done" /\ docker # "hung"
    /\ one' = [one EXCEPT ![k] = IF @.at = None THEN Inspected(@.name) ELSE Further(@)]
    /\ UNCHANGED <<ls, todo, held, chan>>

Refresh(k) == RefreshAsks(k) \/ RefreshSends(k)

\* OpFinished of an operation that went well, of any kind but destroy.
OpDone ==
    /\ ops < MaxOps /\ ops' = ops + 1
    /\ \E k \in Refresher, n \in Name :
        one[k] = Idle /\ one' = [one EXCEPT ![k].name = n]
    /\ UNCHANGED <<world, ls, todo, held, chan, app, changes>>

-----------------------------------------------------------------------------
(* The event loop                                                          *)

Take(type) == chan # <<>> /\ Head(chan).type = type /\ chan' = Tail(chan)
Handled == UNCHANGED <<world, tasks, changes, ops>>

\* Statuses of names that are no longer listed stay.
Listed ==
    /\ Take("listed") /\ rows' = Head(chan).what
    /\ UNCHANGED <<shown, stale, error>> /\ Handled

\* Mutant: the status is stored before it is compared with the previous one.
StatusRefreshedFirst ==
    /\ Take("status")
    /\ LET e == Head(chan) IN
        /\ stale' = stale \ {e.name}
        /\ shown' = [shown EXCEPT ![e.name] = e.what]
        /\ error' = IF shown'[e.name] = "up" /\ e.what = "down" THEN e.name ELSE error
    /\ UNCHANGED rows /\ Handled

StatusRefreshed ==
    /\ Take("status")
    /\ LET e == Head(chan) IN
        /\ stale' = stale \ {e.name}
        /\ error' = IF shown[e.name] = "up" /\ e.what = "down" THEN e.name ELSE error
        /\ shown' = [shown EXCEPT ![e.name] = e.what]
    /\ UNCHANGED rows /\ Handled

RefreshFailed ==
    /\ Take("failed") /\ stale' = stale \cup {Head(chan).name}
    /\ UNCHANGED <<rows, shown, error>> /\ Handled

Handle == Listed \/ StatusRefreshed \/ RefreshFailed

\* Esc
ClearError ==
    /\ error # None /\ error' = None
    /\ UNCHANGED <<world, tasks, chan, rows, shown, stale, changes, ops>>

-----------------------------------------------------------------------------
(* The world                                                               *)

Change == changes < MaxChanges /\ changes' = changes + 1

\* Containers are made, started, stopped and removed, by crashes, commands and
\* operations.
Turn ==
    /\ Change
    /\ \E n \in Name : \E r \in {"absent", "gone", "down", "up"} \ {real[n]} :
        /\ real[n] # "absent" \/ r # "gone"
        /\ real' = [real EXCEPT ![n] = r]
    /\ UNCHANGED <<docker, tasks, chan, app, ops>>

DockerTurns ==
    /\ Change /\ docker' \in {"ok", "hung", "refused"} \ {docker}
    /\ UNCHANGED <<real, tasks, chan, app, ops>>

Init ==
    /\ real \in [Name -> {"absent", "up"}] /\ docker = "ok"
    /\ ls = None /\ todo = {} /\ held = Idle /\ one = [k \in Refresher |-> Idle]
    /\ chan = <<>>
    /\ rows = [n \in {} |-> FALSE] /\ shown = [n \in Name |-> None]
    /\ stale = {} /\ error = None
    /\ changes = 0 /\ ops = 0

Work == Ls \/ Poll \/ \E k \in Refresher : Refresh(k)

Next ==
    \/ Work /\ UNCHANGED <<world, app, changes, ops>>
    \/ OpDone \/ Handle \/ ClearError \/ Turn \/ DockerTurns

\* The runtime runs the loop and every task that can go on. Nothing is promised
\* of the world, the user and the operations.
Fairness ==
    /\ WF_vars(Handle)
    /\ WF_vars(Ls /\ UNCHANGED <<world, app, changes, ops>>)
    /\ WF_vars(Poll /\ UNCHANGED <<world, app, changes, ops>>)
    /\ \A k \in Refresher : WF_vars(Refresh(k) /\ UNCHANGED <<world, app, changes, ops>>)

Spec == Init /\ [][Next]_vars /\ Fairness

-----------------------------------------------------------------------------
(* Properties                                                              *)

Listing == UNION {[S -> BOOLEAN] : S \in SUBSET Name}
EventSet ==
    [type : {"listed"}, name : {None}, what : Listing]
    \cup [type : {"status"}, name : Name, what : {"down", "up"}]
    \cup [type : {"failed"}, name : Name, what : {None}]

\* What is shown has the types of AppState: an error is never shown as a status.
TypeOK ==
    /\ real \in [Name -> {"absent", "gone", "down", "up"}]
    /\ docker \in {"ok", "hung", "refused"}
    /\ ls = None \/ (ls.left \subseteq Name /\ ls.rows \in Listing)
    /\ todo \subseteq Name /\ (held = Idle \/ held.name \in todo)
    /\ \A k \in Refresher : one[k].name = None => one[k] = Idle
    /\ chan \in Seq(EventSet)
    /\ rows \in Listing
    /\ shown \in [Name -> {None, "down", "up"}]
    /\ stale \subseteq Name /\ error \in {None} \cup Name
    /\ changes \in 0 .. MaxChanges /\ ops \in 0 .. MaxOps

\* The list and the detail pane say what is the case, or say that they do not know.
Agrees ==
    IF docker = "ok"
    THEN /\ DOMAIN rows = Listable
         /\ \A n \in Listable :
             /\ rows[n] = Up(n)
             /\ IF real[n] = "gone" THEN n \in stale ELSE n \notin stale /\ shown[n] = real[n]
    ELSE DOMAIN rows \subseteq stale \/ (docker = "hung" /\ held.at = "stats")

\* Whatever the order in which readings arrive, and however long Docker hung, once
\* nothing changes any more the dashboard shows what is the case, and goes on
\* showing it; unless the poller is in the blocking call.
Converges == <>[]Agrees

\* refresh.rs line 90, "docker call timed out ... marking stale": when Docker hangs
\* for good, every listed instance is marked.
HungIsMarked == <>[](docker = "hung") => <>[](DOMAIN rows \subseteq stale)

\* app.rs, "loud flash so user notices the crash": when an instance that is shown
\* as up is down, the alarm is raised, unless it comes up again, or is removed, or
\* Docker does not answer.
AlarmSounds ==
    \A n \in Name :
        (shown[n] = "up" /\ real[n] = "down") ~>
            (error = n \/ real[n] # "down" \/ docker # "ok" \/ n \notin DOMAIN rows)
=============================================================================
