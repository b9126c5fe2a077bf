-------------------------------- MODULE Tui --------------------------------
(***************************************************************************)
(* The dashboard: one loop that owns AppState (tui/app.rs) and takes       *)
(* events from one unbounded channel (tui/mod.rs), operations that run as  *)
(* tasks of the same process and report OpStarted and OpFinished           *)
(* (tui/ops.rs), and pollers that read the host and report what they saw   *)
(* some time ago (tui/refresh.rs).                                         *)
(*                                                                         *)
(* The list is sorted by name, so it is kept as a set of names, which are  *)
(* naturals, and the selection as an index into it. A key is taken when    *)
(* the loop handles it: what a key does depends on nothing it saw earlier, *)
(* so its time in the channel adds no behaviour. Left out: the status,        *)
(* snapshot, disk and SMART views with their pollers, the flash and the    *)
(* error line, all of which handlers only overwrite, and what is typed     *)
(* into a wizard beyond the resulting name. What a command does to the     *)
(* host is in Lifecycle; here it adds or removes a state.toml.             *)
(***************************************************************************)
EXTENDS Naturals, FiniteSets, Sequences

CONSTANTS
    Name,       \* the instances' names
    Task,       \* bound: as many operations run at once
    None,       \* no name, no modal
    Offered,    \* bound: the menu's entries with a wizard that are tried
    MaxOps,     \* bound: operations started
    MaxFaults,  \* bound: changes made outside the dashboard, lost listings
    MaxQueue    \* bound: events in the channel

ASSUME NamesAreOrdered == Name \subseteq Nat /\ IsFiniteSet(Name) /\ None \notin Name
ASSUME BoundsAreNaturals == {MaxOps, MaxFaults} \subseteq Nat /\ MaxQueue \in Nat \ {0}

VARIABLES
    disk,       \* the names with a state.toml
    instances,  \* AppState.instances, as a set
    selected,   \* AppState.selected
    modal,      \* AppState.modal
    inProgress, \* AppState.in_progress, its keys
    loop,       \* the process: running, left (the loop, by should_quit), exited
    chan,       \* the event channel
    task,       \* the operations' tasks
    ls,         \* the listing the ls poller holds
    ops, faults \* counters for the bounds

app   == <<instances, selected, modal, inProgress>>
vars  == <<disk, app, loop, chan, task, ls, ops, faults>>

Copies == {"clone", "restore"}                         \* another instance appears
Asks   == Copies \cup {"upgrade", "resize", "destroy"} \* a wizard comes first
Kinds  == Asks \cup {"rotate", "snapshot", "create"}

Modal(kind, n, op, as) == [kind |-> kind, name |-> n, op |-> op, as |-> as]
Idle   == [kind |-> None, name |-> None, as |-> None, stage |-> "idle"]

Pos(S, n) == Cardinality({m \in S : m < n})
Selected  == IF selected < Cardinality(instances)
             THEN CHOOSE n \in instances : Pos(instances, n) = selected ELSE None

Event(type, n, what) == [type |-> type, name |-> n, what |-> what]
Send(e)  == Len(chan) < MaxQueue /\ chan' = Append(chan, e)
Fault    == faults < MaxFaults /\ faults' = faults + 1

-----------------------------------------------------------------------------
(* Keys                                                                    *)

\* ops::spawn, from the loop's drain of pending_ops in the same iteration: the
\* task exists, its OpStarted is not sent yet.
Spawn(kind, n, as) ==
    /\ ops < MaxOps /\ ops' = ops + 1
    /\ \E t \in Task :
        /\ task[t].stage = "idle"
        /\ task' = [task EXCEPT ![t] = [kind |-> kind, name |-> n, as |-> as, stage |-> "spawned"]]

Alive == loop = "running"
KeyUnchanged == UNCHANGED <<disk, instances, inProgress, loop, chan, ls, faults>>

Move ==
    /\ Alive /\ modal = None
    /\ \/ selected + 1 < Cardinality(instances) /\ selected' = selected + 1
       \/ selected > 0 /\ selected' = selected - 1
    /\ UNCHANGED <<modal, task, ops>> /\ KeyUnchanged

\* a, n, Enter: the menu, the create wizard, the connection string, which is read
\* from state.toml at once. Help and the error's text are left out.
Open ==
    /\ Alive /\ modal = None
    /\ modal' \in {Modal("create", None, "create", None)}
            \cup (IF Selected = None THEN {} ELSE {Modal("actions", Selected, None, None)})
            \cup (IF Selected \in disk THEN {Modal("show", Selected, None, None)} ELSE {})
    /\ UNCHANGED <<selected, task, ops>> /\ KeyUnchanged

\* The open_*_for_selected methods: rotate asks to confirm, the hour is read from
\* state.toml, the rest open a wizard.
Opened(n) ==
    {Modal("confirm", n, "rotate", None)}
    \cup {Modal("ask", n, op, None) : op \in Asks \cap Offered}
    \cup (IF n \in disk THEN {Modal("hour", n, None, None)} ELSE {})

\* A key of the actions menu: the menu closes, the action takes what is selected
\* now, not what the menu's title says. A snapshot starts at once, unless an
\* operation is in progress under that name.
Choose ==
    /\ Alive /\ modal # None /\ modal.kind = "actions"
    /\ \/ /\ Selected # None /\ Selected \notin inProgress
          /\ Spawn("snapshot", Selected, None) /\ modal' = None
       \/ /\ modal' \in {None} \cup (IF Selected = None THEN {} ELSE Opened(Selected))
          /\ UNCHANGED <<task, ops>>
    /\ UNCHANGED selected /\ KeyUnchanged

\* Enter in a wizard. A name that does not parse keeps the wizard open; clone
\* and create start, the others ask to confirm first; the hour is written under
\* the lock of StateStore.
Submit ==
    /\ Alive /\ modal # None
    /\ \/ /\ modal.kind = "ask" /\ modal.op # "clone"
          /\ \E as \in (IF modal.op = "restore" THEN Name ELSE {None}) :
                modal' = Modal("confirm", modal.name, modal.op, as)
          /\ UNCHANGED <<task, ops>>
       \/ /\ modal.kind = "ask" /\ modal.op = "clone" /\ modal' = None
          /\ \E as \in Name : Spawn("clone", modal.name, as)
       \/ /\ modal.kind = "create" /\ modal' = None
          /\ \E as \in Name : Spawn("create", as, as)
       \/ modal.kind = "hour" /\ modal' = None /\ UNCHANGED <<task, ops>>
    /\ UNCHANGED selected /\ KeyUnchanged

\* y or Enter in the confirmation.
Confirm ==
    /\ Alive /\ modal # None /\ modal.kind = "confirm"
    /\ Spawn(modal.op, modal.name, modal.as) /\ modal' = None
    /\ UNCHANGED selected /\ KeyUnchanged

\* Esc, n in the confirmation.
Dismiss ==
    /\ Alive /\ modal # None /\ modal' = None
    /\ UNCHANGED <<selected, task, ops>> /\ KeyUnchanged

\* q: the loop breaks before it takes another event. The receiver is dropped, and
\* the runtime's shutdown drops every task at the call it awaits.
Quit ==
    /\ Alive /\ modal = None /\ loop' = "left"
    /\ chan' = <<>> /\ task' = [t \in Task |-> Idle] /\ ls' = None
    /\ UNCHANGED <<disk, app, ops, faults>>

Key == Move \/ Open \/ Choose \/ Submit \/ Confirm \/ Dismiss \/ Quit

-----------------------------------------------------------------------------
(* Events                                                                  *)

Take(type) == Alive /\ chan # <<>> /\ Head(chan).type = type /\ chan' = Tail(chan)
EventUnchanged == UNCHANGED <<disk, loop, task, ls, ops, faults>>

Follow(rows) ==
    IF Selected \in rows THEN Pos(rows, Selected)
    ELSE IF rows = {} THEN 0
    ELSE IF selected >= Cardinality(rows) THEN Cardinality(rows) - 1
    ELSE selected

\* A listing replaces the rows. The selection follows its name, or else is
\* clamped; a modal about a name that is no longer listed closes.
ShowRows(rows, sel) ==
    /\ Take("listed")
    /\ instances' = rows /\ selected' = sel
    /\ modal' = IF modal # None /\ modal.name \notin rows \cup {None} THEN None ELSE modal
    /\ UNCHANGED inProgress /\ EventUnchanged

Rows == Head(chan).what

\* Mutants of Listed: the selection keeps its index, clamped or not.
ListedByIndex == chan # <<>> /\ ShowRows(Rows, IF selected < Cardinality(Rows) THEN selected ELSE 0)
ListedUnclamped == chan # <<>> /\ ShowRows(Rows, IF Selected \in Rows THEN Pos(Rows, Selected) ELSE selected)

Listed == chan # <<>> /\ ShowRows(Rows, Follow(Rows))

OpStarted ==
    /\ Take("started")
    /\ inProgress' = inProgress \cup {Head(chan).name}
    /\ UNCHANGED <<instances, selected, modal>> /\ EventUnchanged

\* The key is removed whoever else runs on that name. A create that succeeded
\* opens its connection string over whatever modal is open, if state.toml can be
\* read.
OpFinished ==
    /\ Take("finished")
    /\ LET e == Head(chan)
       IN  /\ inProgress' = inProgress \ {e.name}
           /\ modal' = IF e.what = "create" /\ e.name \in disk
                       THEN Modal("show", e.name, None, None) ELSE modal
    /\ UNCHANGED <<instances, selected>> /\ EventUnchanged

Handle == Listed \/ OpStarted \/ OpFinished

-----------------------------------------------------------------------------
(* Operations                                                              *)

Stage(t, s) == task' = [task EXCEPT ![t].stage = s]
TaskUnchanged == UNCHANGED <<app, loop, ls, ops>>

Started(t) ==
    /\ task[t].stage = "spawned" /\ Stage(t, "running")
    /\ Send(Event("started", task[t].name, None))
    /\ UNCHANGED <<disk, faults>> /\ TaskUnchanged

\* Either outcome, whatever the command's own guards say: they are in Lifecycle.
Completes(t) ==
    /\ task[t].stage = "running" /\ Stage(t, "done")
    /\ disk' = CASE task[t].kind = "destroy" -> disk \ {task[t].name}
                 [] task[t].kind \in Copies \cup {"create"} -> disk \cup {task[t].as}
                 [] OTHER -> disk
    /\ UNCHANGED <<chan, faults>> /\ TaskUnchanged

Report(t, what) ==
    /\ task' = [task EXCEPT ![t] = Idle] /\ Send(Event("finished", task[t].name, what))
    /\ UNCHANGED <<disk, faults>> /\ TaskUnchanged

\* Mutant of Fails: an early return that skips OpFinished.
FailsSilently(t) ==
    /\ task[t].stage = "running" /\ task' = [task EXCEPT ![t] = Idle]
    /\ UNCHANGED <<disk, chan, faults>> /\ TaskUnchanged

Fails(t) == task[t].stage = "running" /\ Report(t, None)

Finished(t) ==
    task[t].stage = "done" /\ Report(t, IF task[t].kind = "create" THEN "create" ELSE None)

Operate(t) == loop = "running" /\ (Started(t) \/ Completes(t) \/ Fails(t) \/ Finished(t))

-----------------------------------------------------------------------------
(* The ls poller                                                           *)

\* ls::run lists the state.toml files and then awaits Docker once for each: the
\* listing is old when it is sent. The five-second timeout drops it.
List ==
    /\ loop = "running"
    /\ \/ ls = None /\ ls' = [rows |-> disk] /\ UNCHANGED <<chan, faults>>
       \/ ls # None /\ ls' = None /\ Send(Event("listed", None, ls.rows)) /\ UNCHANGED faults
       \/ ls # None /\ ls' = None /\ Fault /\ UNCHANGED chan
    /\ UNCHANGED <<disk, app, loop, task, ops>>

-----------------------------------------------------------------------------
(* Leaving, and the world                                                  *)

\* The shutdown waits for the key reader's blocking thread. It notices the closed
\* channel when it sends the next key.
LateKey ==
    /\ loop = "left" /\ loop' = "exited"
    /\ UNCHANGED <<disk, app, chan, task, ls, ops, faults>>

\* A command in another terminal creates or destroys an instance.
Elsewhere ==
    /\ loop = "running" /\ Fault
    /\ \E n \in Name : disk' \in {disk \cup {n}, disk \ {n}} \ {disk}
    /\ UNCHANGED <<app, loop, chan, task, ls, ops>>

Ended == loop = "exited" /\ UNCHANGED vars

Init ==
    /\ disk \in SUBSET Name
    /\ instances = {} /\ selected = 0 /\ modal = None /\ inProgress = {}
    /\ loop = "running" /\ chan = <<>>
    /\ task = [t \in Task |-> Idle] /\ ls = None
    /\ ops = 0 /\ faults = 0

Next == \/ Key \/ Handle \/ (\E t \in Task : Operate(t))
        \/ List \/ LateKey \/ Elsewhere \/ Ended

Spec == Init /\ [][Next]_vars

\* The runtime schedules the loop and its tasks; the user and the world promise
\* nothing.
Fairness == WF_vars(Handle) /\ \A t \in Task : WF_vars(Operate(t))

FairSpec == Spec /\ Fairness

-----------------------------------------------------------------------------
(* Properties                                                              *)

EventSet ==
    [type : {"listed"}, name : {None}, what : SUBSET Name]
    \cup [type : {"started"}, name : Name, what : {None}]
    \cup [type : {"finished"}, name : Name, what : {None, "create"}]

ModalSet ==
    [kind : {"create"}, name : {None}, op : {"create"}, as : {None}]
    \cup [kind : {"actions", "show", "hour"}, name : Name, op : {None}, as : {None}]
    \cup [kind : {"ask"}, name : Name, op : Asks, as : {None}]
    \cup [kind : {"confirm"}, name : Name, op : Asks \cup {"rotate"}, as : {None} \cup Name]

TaskSet == {Idle} \cup
    [kind : Kinds, name : Name, as : {None} \cup Name,
     stage : {"spawned", "running", "done"}]

\* The state of the dashboard and of its tasks has the types of AppState, with a
\* selection inside the list.
TypeOK ==
    /\ disk \subseteq Name /\ instances \subseteq Name
    /\ selected \in Nat /\ (selected = 0 \/ selected < Cardinality(instances))
    /\ modal = None \/ modal \in ModalSet
    /\ inProgress \subseteq Name
    /\ loop \in {"running", "left", "exited"}
    /\ chan \in Seq(EventSet)
    /\ task \in [Task -> TaskSet]
    /\ ls = None \/ ls \in [rows : SUBSET Name]
    /\ ops \in 0..MaxOps /\ faults \in 0..MaxFaults

\* tui/app.rs lines 110-139: "Prevents pressing keys against vanished state". A
\* wizard or a confirmation about an instance is open only while the instance is
\* in the list, and the menu's actions, which take the selection, take the
\* instance in the menu's title.
KeysMeanWhatIsShown ==
    modal # None =>
        /\ modal.kind = "actions" => modal.name = Selected
        /\ modal.kind \in {"actions", "ask", "confirm", "hour"} => modal.name \in instances

\* tui/app.rs lines 192-224: the spinner of an instance never outlives its
\* operations. When it is on, an operation that reports under that name runs or
\* its OpFinished is still to be handled.
SpinnerHasOp ==
    \A n \in inProgress : Alive =>
        \/ \E t \in Task : task[t].name = n /\ task[t].stage \notin {"idle", "spawned"}
        \/ \E i \in DOMAIN chan : chan[i].type = "finished" /\ chan[i].name = n

\* README.md line 189: "q - quit". Violated: after the loop has been left the
\* process waits for its key reader, which waits for a key.
QuitExits == loop = "left" ~> loop = "exited"
=============================================================================
