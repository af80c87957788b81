------------------------------ MODULE Commands ------------------------------
(***************************************************************************)
(* The command state machines and commandsHelper                           *)
(* (internal/internal_command_state_machine.go), driven by the workflow's  *)
(* calls and by history events (internal/internal_event_handlers.go), for  *)
(* one workflow execution and a server that turns commands into events.    *)
(*                                                                         *)
(* The helper is a record h; every method is an operator from helpers to   *)
(* helpers, and a panic sets h.panic.  A workflow task is atomic up to its *)
(* code: the events are applied, then the code makes calls, then the       *)
(* commands go to the server or are lost.  A lost task leaves the helper   *)
(* that replay rebuilds: the one of the last completed task.               *)
(***************************************************************************)
EXTENDS Naturals, Sequences, FiniteSets, TLC, SequencesExt

CONSTANTS
    Activities, Timers, Children, Nexus,  \* calls the code may make and cancel
    Externals,          \* signals to and cancellations of other workflows
    Markers,            \* markers, upserts: commands complete once they are sent
    CancelUnsentNexus,  \* may the code cancel an operation in the task that starts it
    Disconnected,       \* calls made under a context the workflow's own does not cancel
    MaxTasks,           \* bound on workflow tasks
    Workloads,          \* bound: the calls one execution makes are among one of these
    None

Ops == Activities \cup Timers \cup Children \cup Nexus \cup Externals \cup Markers

ASSUME CommandsAssumption ==
    /\ IsFiniteSet(Ops) /\ None \notin Ops
    /\ CancelUnsentNexus \in BOOLEAN /\ Disconnected \subseteq Ops
    /\ MaxTasks \in Nat /\ Workloads \subseteq SUBSET Ops

\* Command IDs: the call itself and the separate cancel command of some calls.
Main(o) == <<"main", o>>
Cancel(o) == <<"cancel", o>>
Cancelable == Activities \cup Timers \cup Children \cup Nexus
Commands == {Main(o) : o \in Ops} \cup {Cancel(o) : o \in Activities \cup Timers \cup Nexus}

VARIABLES
    h,       \* the commandsHelper and the callers' side of every call
    ckpt,    \* h after the last completed workflow task
    inTask,  \* a workflow task is being worked on
    tasks,   \* workflow tasks started so far
    srv,     \* the server's view of every call: [st, ev, cancel]
    wfCanceled,  \* the workflow's own cancellation has been requested
    last,    \* the last event ID of the history
    log,     \* events the helper of ckpt has not seen
    buffer,  \* events the server holds back while a task is in flight
    refused  \* the server got a command it has to refuse

vars == <<h, ckpt, inTask, tasks, srv, wfCanceled, last, log, buffer, refused>>

States ==
    {"none", "Created", "CommandSent", "CanceledBeforeInitiated", "Initiated", "Started",
     "CanceledAfterInitiated", "CanceledAfterStarted", "CancellationCommandSent",
     "CompletedAfterCancellationCommandSent", "Completed", "CanceledBeforeSent",
     "CancellationCommandAccepted"}

Waits == {"Try", "WaitRequested", "WaitCompleted", "Abandon"}

\* The cancellation types the code may ask for.
WaitsOf(o) ==
    IF o \in Nexus THEN Waits
    ELSE IF o \in Activities THEN {"Try", "WaitCompleted"} ELSE {"WaitCompleted"}

newCommandsHelper ==
    [order |-> <<>>,                             \* orderedCommands
     st |-> [c \in Commands |-> "none"],         \* every machine's state
     next |-> 0,                                 \* nextCommandEventID
     schedID |-> [o \in Ops |-> 0],              \* scheduleID, scheduledEventID
     byID |-> {},                                \* scheduledEventIDTo...: <<ID, call>>
     unscheduled |-> <<>>,                       \* nexusOperationsWithoutScheduledID
     fut |-> [o \in Ops |-> "none"],             \* the call's future
     wait |-> [o \in Ops |-> "WaitCompleted"],   \* its cancellation type
     canceled |-> [o \in Ops |-> FALSE],         \* its context is canceled
     watch |-> <<>>,                             \* cancellation callbacks in order
     panic |-> FALSE]

-----------------------------------------------------------------------------
(***************************************************************************)
(* The transitions of the machines: a handler is a function from the       *)
(* states it accepts; in any other state it panics.                        *)
(***************************************************************************)
To(S, s) == [t \in S |-> s]
Stay(S) == [t \in S |-> t]

baseCancel ==
    Stay({"Completed", "CompletedAfterCancellationCommandSent", "CanceledAfterInitiated",
          "CancellationCommandSent"})
    @@ To({"Created"}, "CanceledBeforeSent")
    @@ To({"CommandSent"}, "CancellationCommandSent")
    @@ To({"Initiated"}, "CanceledAfterInitiated")

baseInitiated ==
    To({"CommandSent"}, "Initiated")
    @@ To({"CanceledBeforeInitiated", "CanceledBeforeSent", "CancellationCommandSent"},
          "CanceledAfterInitiated")

baseInitiationFailed ==
    To({"Initiated", "CommandSent", "CanceledBeforeInitiated", "CancellationCommandSent"},
       "Completed")

baseCompletion ==
    To({"CanceledAfterInitiated", "Initiated"}, "Completed")
    @@ To({"CancellationCommandSent"}, "CompletedAfterCancellationCommandSent")

baseCancelInitiated ==
    Stay({"CancellationCommandSent", "CanceledAfterInitiated"})
    @@ To({"Initiated"}, "CanceledAfterInitiated")

baseCancelFailed == To({"CompletedAfterCancellationCommandSent"}, "Completed")

baseCanceled ==
    To({"CancellationCommandSent", "CanceledAfterInitiated", "CanceledAfterStarted",
        "CancellationCommandAccepted"}, "Completed")

childStarted ==
    To({"Initiated"}, "Started")
    @@ To({"CanceledAfterInitiated"}, "CanceledAfterStarted")
    @@ Stay(States)

childInitiated == [s \in DOMAIN baseInitiated \ {"CancellationCommandSent"} |-> baseInitiated[s]]

childCancelFailed == To({"CancellationCommandSent"}, "Started") @@ baseCancelFailed

\* Fault: as the base, which forgets the machine before the server's answer to
\* the cancel request has come.
childCanceledAsBase == To({"Started"}, "Completed") @@ baseCanceled

childCanceled ==
    To({"Started"}, "Completed")
    @@ To({"CancellationCommandSent"}, "CompletedAfterCancellationCommandSent")
    @@ baseCanceled

childCompletion ==
    To({"Started", "CanceledAfterStarted", "CompletedAfterCancellationCommandSent",
        "CancellationCommandAccepted"}, "Completed")
    @@ baseCompletion

childCancelRequested ==
    To({"CompletedAfterCancellationCommandSent"}, "Completed")
    @@ To(States, "CancellationCommandAccepted")

nexusStarted == To({"Initiated"}, "Started")
nexusCompletion == To({"Initiated", "Started"}, "Completed")
externalInitiated == To({"CommandSent"}, "Initiated")
externalCompletion == To({"Initiated"}, "Completed")
requestCancelNexusCompletion == To({"Created", "Initiated"}, "Completed")

\* handleCommandSent: what a machine becomes when getCommands marks it as sent.
handleCommandSent(c) ==
    LET o == c[2] IN
    IF o \in Markers THEN To({"Created"}, "Completed")
    ELSE To({"Created"}, "CommandSent")
         @@ (IF c = Main(o) /\ o \in Activities \cup Timers
             THEN To({"CanceledAfterInitiated"}, "CancellationCommandSent")
             ELSE IF c = Main(o) /\ o \in Children
             THEN To({"CanceledAfterStarted"}, "CancellationCommandSent")
             ELSE <<>>)
         @@ Stay(States)

\* The handler an event runs on the machine it is for.
HandlerOf ==
    [ActivityTaskScheduled |-> baseInitiated,
     ActivityTaskClosed |-> baseCompletion,
     ActivityTaskCancelRequested |-> baseCancelInitiated,
     ActivityTaskCanceled |-> baseCanceled,
     TimerStarted |-> baseInitiated,
     TimerFired |-> baseCompletion,
     TimerCanceled |-> baseCanceled,
     ChildInitiated |-> childInitiated,
     ChildStartFailed |-> baseInitiationFailed,
     ChildStarted |-> childStarted,
     ChildClosed |-> childCompletion,
     ChildCanceled |-> childCanceled,
     CancelChildInitiated |-> baseCancelInitiated,
     CancelChildFailed |-> childCancelFailed,
     ChildCancelRequested |-> childCancelRequested,
     NexusScheduled |-> baseInitiated,
     NexusStarted |-> nexusStarted,
     NexusClosed |-> nexusCompletion,
     NexusCancelRequested |-> externalInitiated,
     NexusCancelDelivered |-> requestCancelNexusCompletion,
     ExternalInitiated |-> externalInitiated,
     ExternalClosed |-> externalCompletion]

-----------------------------------------------------------------------------
(***************************************************************************)
(* commandsHelper                                                          *)
(***************************************************************************)
Has(g, c) == Contains(g.order, c)
Without(s, c) == SelectSeq(s, LAMBDA d : d # c)

failStateTransition(g) == [g EXCEPT !.panic = TRUE]

moveState(g, c, s) ==
    [g EXCEPT !.st[c] = s, !.order = IF s = "Completed" THEN Without(@, c) ELSE @]

\* Run a handler on the machine of c.
Transit(g, c, handler) ==
    IF g.st[c] \in DOMAIN handler THEN moveState(g, c, handler[g.st[c]])
    ELSE failStateTransition(g)

addCommand(g, c) ==
    IF Has(g, c) THEN failStateTransition(g)
    ELSE [g EXCEPT !.order = Append(@, c), !.st[c] = "Created", !.next = @ + 1]

\* Fault: the command stays where it was as well.
moveCommandToBackKept(g, c) == [g EXCEPT !.order = Append(@, c)]

moveCommandToBack(g, c) == [g EXCEPT !.order = Append(Without(@, c), c)]

\* Fault: a cancel of something resolved is sent all the same.
removeCancelOfResolvedCommandSkipped(g, c) == g

removeCancelOfResolvedCommand(g, c) == [g EXCEPT !.order = Without(@, c)]

\* getCommand: is there a command to send in the machine's state?
HasCommand(g, c) ==
    LET o == c[2] IN
    \/ c = Cancel(o) /\ g.st[c] = "Created"
    \/ /\ c = Main(o)
       /\ \/ g.st[c] = "Created" /\ (o \in Nexus => g.st[Cancel(o)] = "none")
          \/ g.st[c] = "CanceledBeforeSent" /\ o \in Activities \cup Timers
          \/ g.st[c] = "CanceledAfterStarted" /\ o \in Children

Unsent(g) == SelectSeq(g.order, LAMBDA c : HasCommand(g, c))

\* Fault: commands the events of this task have produced are not counted.
setCurrentWorkflowTaskStartedEventIDUncounted(g, started) == [g EXCEPT !.next = started + 2]

setCurrentWorkflowTaskStartedEventID(g, started) ==
    [g EXCEPT !.next = started + 2 + Len(Unsent(g))]

\* What one unsent command tells the server.
CommandOf(g, c) ==
    [type |-> IF c[1] = "main" /\ g.st[c] \in {"Created", "CanceledBeforeSent"}
              THEN "schedule" ELSE "cancel",
     op |-> c[2], sched |-> g.schedID[c[2]]]

\* getCommands(true): the commands in order, and the helper once they are sent.
getCommands(g) == [i \in DOMAIN Unsent(g) |-> CommandOf(g, Unsent(g)[i])]

MarkAsSent(g) ==
    LET Sent(k, c) == Transit(k, c, handleCommandSent(c)) IN FoldLeft(Sent, g, g.order)

-----------------------------------------------------------------------------
(***************************************************************************)
(* The calls of the workflow code.                                         *)
(***************************************************************************)
\* A future becomes ready once; its cancellation callback goes.
Resolve(g, o) == [g EXCEPT !.fut[o] = "ready", !.watch = Without(@, o)]

Watch(g, o) == [g EXCEPT !.watch = Append(@, o)]

\* ExecuteActivity, NewTimer, ExecuteChildWorkflow, ExecuteNexusOperation,
\* signals and cancellations of other workflows, markers.  A child's
\* cancellation callback is registered only once it has started.
Execute(g, o, w) ==
    LET k == [addCommand(g, Main(o)) EXCEPT
                !.fut[o] = IF o \in Markers THEN "ready" ELSE "pending",
                !.wait[o] = w,
                !.schedID[o] = IF o \in Activities THEN g.next ELSE 0,
                !.byID = @ \cup (IF o \in Activities THEN {<<g.next, o>>} ELSE {}),
                !.unscheduled = IF o \in Nexus THEN Append(@, o) ELSE @]
    IN IF o \in Activities \cup Timers \cup Nexus THEN Watch(k, o) ELSE k

\* The cancel method of each machine.
cancel(g, o) ==
    LET c == Main(o) IN
    CASE o \in Activities \cup Timers ->
             Transit(IF g.st[c] \in {"Created", "CommandSent", "Initiated"}
                     THEN addCommand(g, Cancel(o)) ELSE g, c, baseCancel)
      [] o \in Children /\ g.st[c] = "Started" ->
             [moveCommandToBack(moveState(g, c, "CanceledAfterStarted"), c) EXCEPT !.next = @ + 1]
      [] o \in Children /\ g.st[c] # "Started" -> Transit(g, c, baseCancel)
      [] o \in Nexus ->
             IF g.st[Cancel(o)] # "none" \/ g.st[c] = "Completed" THEN g
             ELSE IF g.st[c] = "Created"
             THEN Transit(addCommand(g, Cancel(o)), Cancel(o), requestCancelNexusCompletion)
             ELSE addCommand(g, Cancel(o))

requestCancelNexusOperation(g, o) ==
    LET k == cancel(g, o) IN
    IF k.st[Main(o)] # "CanceledBeforeSent" THEN k
    ELSE [k EXCEPT !.unscheduled = Without(@, o)]

\* The cancellation callback of a call: RequestCancelActivity,
\* RequestCancelTimer, RequestCancelChildWorkflow, RequestCancelNexusOperation
\* or AbandonNexusOperation.  A callback runs once.
RequestCancel(h0, o) ==
    LET g == [h0 EXCEPT !.watch = Without(@, o)]
        k == IF o \in Nexus THEN requestCancelNexusOperation(g, o) ELSE cancel(g, o)
        s == k.st[Main(o)]
        unblocks == \/ o \in Timers
                    \/ o \in Activities /\ (k.wait[o] = "Try" \/ s = "Completed")
                    \/ o \in Nexus /\ s \in {"Created", "CommandSent"}
    IN CASE ~Has(g, Main(o)) -> failStateTransition(g)
         [] Has(g, Main(o)) /\ o \in Nexus /\ g.wait[o] = "Abandon" -> Resolve(g, o)
         [] OTHER -> IF unblocks THEN Resolve(k, o) ELSE k

\* A context is canceled: calls that watch it are canceled in order.
CancelContexts(g, S) ==
    FoldLeft(RequestCancel,
             [g EXCEPT !.canceled = [o \in Ops |-> @[o] \/ o \in S]],
             SelectSeq(g.watch, LAMBDA o : o \in S))

-----------------------------------------------------------------------------
(***************************************************************************)
(* History events: [type, op, sched, id], sched the ID of the event that   *)
(* scheduled the call.                                                     *)
(***************************************************************************)
KindOf(o) == CHOOSE K \in {Activities, Timers, Children, Nexus, Externals, Markers} : o \in K

Lookup(g, e) == {p[2] : p \in {q \in g.byID : q[1] = e.sched /\ q[2] \in KindOf(e.op)}}

\* Fault: the operation scheduled last takes the event.
UnscheduledLast(g) == {Last(g.unscheduled)}

UnscheduledFront(g) == {Head(g.unscheduled)}

\* The call an event is for, found by name, by the event ID it refers to, or
\* as the first operation still without an ID; none is a panic.
Target(g, e) ==
    CASE e.type = "NexusScheduled" ->
             IF g.unscheduled = <<>> THEN {} ELSE UnscheduledFront(g)
      [] e.type = "ActivityTaskScheduled" -> IF Lookup(g, e) = {} THEN {} ELSE {e.op}
      [] e.op \in Activities \cup Nexus /\ e.type \notin {"NexusScheduled", "ActivityTaskScheduled"} ->
             Lookup(g, e)
      [] e.type = "ExternalClosed" -> Lookup(g, e)
      [] OTHER -> {e.op}

\* The maps from event IDs to calls after an event for o.
Remember(g, e, o) ==
    [g EXCEPT
        !.unscheduled = IF e.type = "NexusScheduled" THEN Without(@, o) ELSE @,
        !.schedID[o] = IF e.type = "NexusScheduled" THEN e.id ELSE @,
        !.byID = CASE e.type \in {"NexusScheduled", "ExternalInitiated"} -> @ \cup {<<e.id, o>>}
                   [] e.type \in {"ActivityTaskClosed", "ActivityTaskCanceled", "NexusClosed"} ->
                          @ \ {<<e.sched, o>>}
                   [] OTHER -> @]

DropCancel(g, e, o) ==
    IF \/ e.type = "TimerFired"
       \/ e.type = "ActivityTaskClosed" /\ g.schedID[o] = e.sched
    THEN removeCancelOfResolvedCommand(g, Cancel(o)) ELSE g

\* Fault: an activity waiting for its cancellation is not told of it.
ResolvesBarWaiting(g, e, o) ==
    \/ e.type \in {"ActivityTaskClosed", "TimerFired", "ChildStartFailed", "ChildClosed",
                   "ChildCanceled", "NexusClosed", "ExternalClosed"}
    \/ e.type = "ActivityTaskCanceled" /\ g.wait[o] = "Try"

\* Does the event make the call's future ready?
Resolves(g, e, o) ==
    \/ e.type \in {"ActivityTaskClosed", "TimerFired", "ChildStartFailed", "ChildClosed",
                   "ChildCanceled", "NexusClosed", "ExternalClosed"}
    \/ /\ e.type = "ActivityTaskCanceled"
       /\ g.wait[o] = "Try"
          \/ g.st[Main(o)] \in {"Completed", "CompletedAfterCancellationCommandSent"}
    \/ e.type = "NexusCancelRequested" /\ g.wait[o] = "Try"
    \/ e.type = "NexusCancelDelivered" /\ g.wait[o] = "WaitRequested"

\* Fault: the cancellation of a child that had not started is forgotten.
ChildIsUpIgnoringCancel(g, o) == Watch(g, o)

\* startedCallback of a child: register for cancellation, or cancel at once.
ChildIsUp(g, o) ==
    IF g.fut[o] # "pending" THEN g
    ELSE IF g.canceled[o] THEN RequestCancel(g, o) ELSE Watch(g, o)

ProcessEvent(g, e) ==
    LET T == Target(g, e)
        o == CHOOSE x \in T : TRUE
        c == IF e.type \in {"NexusCancelRequested", "NexusCancelDelivered"}
             THEN Cancel(o) ELSE Main(o)
        k == Transit(DropCancel(Remember(g, e, o), e, o), c, HandlerOf[e.type])
    IN CASE e.type = "CancelRequested" ->
                CancelContexts(g, {x \in Cancelable \ Disconnected : g.fut[x] = "pending"})
         [] e.type = "MarkerRecorded" -> g
         [] OTHER ->
                IF T = {} \/ ~\E x \in T : Has(g, Main(x)) THEN failStateTransition(g)
                ELSE IF Resolves(k, e, o) THEN Resolve(k, o)
                ELSE IF e.type = "ChildStarted" THEN ChildIsUp(k, o) ELSE k

-----------------------------------------------------------------------------
(***************************************************************************)
(* The server.  Events that come in while a workflow task is in flight are *)
(* held back until the task's own events are written.                      *)
(***************************************************************************)
Event(type, o, n) == [type |-> type, op |-> o, sched |-> n, id |-> 0]

\* Give the events of s the next IDs of the history.
Numbered(s, n) == [i \in DOMAIN s |-> [s[i] EXCEPT !.id = n + i]]

ScheduledEvent(o) ==
    CASE o \in Activities -> "ActivityTaskScheduled" [] o \in Timers -> "TimerStarted"
      [] o \in Children -> "ChildInitiated" [] o \in Nexus -> "NexusScheduled"
      [] o \in Externals -> "ExternalInitiated" [] o \in Markers -> "MarkerRecorded"

CancelEvent(o) ==
    CASE o \in Activities -> "ActivityTaskCancelRequested" [] o \in Timers -> "TimerCanceled"
      [] o \in Children -> "CancelChildInitiated" [] o \in Nexus -> "NexusCancelRequested"

Held(a, o) == \E i \in DOMAIN a.buffer : a.buffer[i].op = o

\* The command names something the server knows and that is not closed, or whose
\* closing the worker cannot have seen.
Acceptable(a, c) ==
    \/ c.type = "schedule" \/ c.op \in Children
    \/ /\ c.op \in Timers \/ c.sched = a.srv[c.op].ev
       /\ a.srv[c.op].st \in {"open", "started"} \/ Held(a, c.op)

\* One command: its event, and what becomes of the call.  Canceling a timer
\* takes back its firing if that is still held; canceling an activity nobody has
\* started closes it.
ApplyCommand(a, c) ==
    LET o == c.op
        n == a.last + 1
        closes == c.type = "cancel" /\
                  (o \in Timers \/ (o \in Activities /\ a.srv[o].st = "open"))
    IN [srv |-> [a.srv EXCEPT ![o] =
                    IF c.type = "schedule"
                    THEN [st |-> IF o \in Markers THEN "closed" ELSE "open", ev |-> n, cancel |-> "no"]
                    ELSE [@ EXCEPT !.cancel = "requested", !.st = IF closes THEN "closed" ELSE @]],
        log |-> Append(a.log,
                  IF c.type = "schedule"
                  THEN [type |-> ScheduledEvent(o), op |-> o, sched |-> n, id |-> n]
                  ELSE [type |-> CancelEvent(o), op |-> o, sched |-> c.sched, id |-> n]),
        buffer |-> IF c.type = "schedule" THEN a.buffer
                   ELSE IF o \in Timers THEN SelectSeq(a.buffer, LAMBDA e : e.op # o)
                   ELSE IF closes THEN Append(a.buffer, Event("ActivityTaskCanceled", o, c.sched))
                   ELSE a.buffer,
        last |-> n,
        refused |-> a.refused \/ ~Acceptable(a, c)]

\* Something happens outside: the event is written, or held back.
Emit(e) ==
    /\ inTask \/ tasks < MaxTasks
    /\ IF inTask
       THEN buffer' = Append(buffer, e) /\ UNCHANGED <<log, last>>
       ELSE /\ log' = log \o Numbered(<<e>>, last)
            /\ last' = last + 1
            /\ UNCHANGED buffer
    /\ UNCHANGED <<h, ckpt, inTask, tasks, refused>>

Happens(o, from, to, type) ==
    /\ srv[o].st \in from
    /\ srv' = [srv EXCEPT ![o].st = to]
    /\ UNCHANGED wfCanceled
    /\ Emit(Event(type, o, srv[o].ev))

\* A worker picks up the activity: no event until it closes.
ActivityStarts(o) ==
    /\ srv[o].st = "open"
    /\ inTask \/ tasks < MaxTasks
    /\ srv' = [srv EXCEPT ![o].st = "started"]
    /\ UNCHANGED <<h, ckpt, inTask, tasks, wfCanceled, last, log, buffer, refused>>

ActivityCloses(o) == Happens(o, {"open", "started"}, "closed", "ActivityTaskClosed")
ActivityIsCanceled(o) ==
    srv[o].cancel = "requested" /\ Happens(o, {"started"}, "closed", "ActivityTaskCanceled")
TimerFires(o) == Happens(o, {"open"}, "closed", "TimerFired")
ChildStarts(o) == Happens(o, {"open"}, "started", "ChildStarted")
ChildFailsToStart(o) == Happens(o, {"open"}, "closed", "ChildStartFailed")
ChildCloses(o) == Happens(o, {"started"}, "closed", "ChildClosed")
ChildIsCanceled(o) == Happens(o, {"started"}, "closed", "ChildCanceled")
NexusStarts(o) == Happens(o, {"open"}, "started", "NexusStarted")
NexusCloses(o) == Happens(o, {"open", "started"}, "closed", "NexusClosed")
ExternalCloses(o) == Happens(o, {"open"}, "closed", "ExternalClosed")

\* The answer to a request to cancel a child comes before or after the child's
\* own end; the one to a Nexus operation only while the operation is open.
CancelIsAnswered(o, type) ==
    /\ srv[o].cancel = "requested"
    /\ o \in Nexus => srv[o].st # "closed"
    /\ srv' = [srv EXCEPT ![o].cancel = "answered"]
    /\ UNCHANGED wfCanceled
    /\ Emit(Event(type, o, srv[o].ev))

\* The calls the execution has made.
Called == {o \in Ops : h.fut[o] # "none"}

\* The workflow's own cancellation, while the execution has or may still make
\* a call whose context hears of it.
WorkflowCancelRequested ==
    /\ ~wfCanceled
    /\ \E W \in Workloads : Called \subseteq W /\ ~(W \cap Cancelable \subseteq Disconnected)
    /\ wfCanceled' = TRUE
    /\ UNCHANGED srv
    /\ Emit(Event("CancelRequested", None, 0))

-----------------------------------------------------------------------------
(***************************************************************************)
(* Workflow tasks                                                          *)
(***************************************************************************)
Init ==
    /\ h = newCommandsHelper /\ ckpt = newCommandsHelper
    /\ inTask = FALSE /\ tasks = 0 /\ wfCanceled = FALSE
    /\ srv = [o \in Ops |-> [st |-> "none", ev |-> 0, cancel |-> "no"]]
    /\ last = 1 /\ log = <<>> /\ buffer = <<>>
    /\ refused = FALSE

\* A task starts: its events are applied in order, WorkflowTaskStarted last.
StartTask ==
    /\ ~inTask /\ tasks < MaxTasks
    /\ inTask' = TRUE
    /\ tasks' = tasks + 1
    /\ last' = last + 2
    /\ h' = setCurrentWorkflowTaskStartedEventID(FoldLeft(ProcessEvent, ckpt, log), last + 2)
    /\ UNCHANGED <<ckpt, srv, wfCanceled, log, buffer, refused>>

\* The code makes a call.
Call(o, w) ==
    /\ inTask /\ ~h.panic
    /\ h.fut[o] = "none"
    /\ \E W \in Workloads : Called \cup {o} \subseteq W
    /\ h' = Execute(h, o, w)
    /\ UNCHANGED <<ckpt, inTask, tasks, srv, wfCanceled, last, log, buffer, refused>>

\* The code cancels the context of a call.
CancelCall(o) ==
    /\ inTask /\ ~h.panic
    /\ h.fut[o] = "pending" /\ ~h.canceled[o]
    /\ o \in Nexus /\ h.st[Main(o)] = "Created" => CancelUnsentNexus
    /\ h' = CancelContexts(h, {o})
    /\ UNCHANGED <<ckpt, inTask, tasks, srv, wfCanceled, last, log, buffer, refused>>

\* The task completes: the server writes WorkflowTaskCompleted, one event per
\* command and what it has held back.
Respond ==
    /\ inTask /\ ~h.panic
    /\ LET a == FoldLeft(ApplyCommand,
                         [srv |-> srv, log |-> <<>>, buffer |-> buffer, last |-> last + 1,
                          refused |-> refused],
                         getCommands(h))
       IN /\ srv' = a.srv
          /\ refused' = a.refused
          /\ log' = a.log \o Numbered(a.buffer, a.last)
          /\ last' = a.last + Len(a.buffer)
    /\ h' = MarkAsSent(h)
    /\ ckpt' = h'
    /\ inTask' = FALSE
    /\ buffer' = <<>>
    /\ UNCHANGED <<tasks, wfCanceled>>

\* The task is lost: it times out, its cached state is gone and the next task
\* replays the history up to the last completed one.
TaskLost ==
    /\ inTask
    /\ inTask' = FALSE
    /\ h' = ckpt
    /\ log' = log \o Numbered(buffer, last + 1)
    /\ last' = last + 1 + Len(buffer)
    /\ buffer' = <<>>
    /\ UNCHANGED <<ckpt, tasks, srv, wfCanceled, refused>>

Finished == ~inTask /\ tasks = MaxTasks /\ UNCHANGED vars

Next ==
    \/ StartTask \/ Respond \/ TaskLost \/ WorkflowCancelRequested \/ Finished
    \/ \E o \in Ops : \E w \in WaitsOf(o) : Call(o, w)
    \/ \E o \in Cancelable : CancelCall(o)
    \/ \E o \in Activities : ActivityStarts(o) \/ ActivityCloses(o) \/ ActivityIsCanceled(o)
    \/ \E o \in Timers : TimerFires(o)
    \/ \E o \in Children :
           \/ ChildStarts(o) \/ ChildFailsToStart(o) \/ ChildCloses(o) \/ ChildIsCanceled(o)
           \/ CancelIsAnswered(o, "ChildCancelRequested") \/ CancelIsAnswered(o, "CancelChildFailed")
    \/ \E o \in Nexus :
           NexusStarts(o) \/ NexusCloses(o) \/ CancelIsAnswered(o, "NexusCancelDelivered")
    \/ \E o \in Externals : ExternalCloses(o)

Spec == Init /\ [][Next]_vars

-----------------------------------------------------------------------------
(***************************************************************************)
(* Properties                                                              *)
(***************************************************************************)
\* Every machine is in a known state and the ordered list holds each of them at
\* most once, as the map beside it requires (commandsHelper.commands).
TypeOK ==
    /\ h.st \in [Commands -> States] /\ h.next \in Nat
    /\ h.order \in Seq(Commands) /\ IsInjective(h.order)
    /\ h.fut \in [Ops -> {"none", "pending", "ready"}]
    /\ inTask \in BOOLEAN /\ tasks \in 0..MaxTasks

\* Workflow code that replays the same calls never drives a machine into a
\* transition it does not have, and never gets an event it cannot place
\* (failStateTransition, getCommand), whatever the order of events, cancellations
\* and lost tasks.
NoIllegalTransition == ~h.panic

\* No command refers to something the worker already knows is closed, or to an
\* event that scheduled something else: the server would fail the task on it
\* (removeCancelOfResolvedCommand).
CommandsAccepted == ~refused

\* The event ID the SDK predicts for an activity is the one the server gives it
\* (setCurrentWorkflowTaskStartedEventID, getNextID), cancellations that come
\* before WorkflowTaskStarted included.
PredictedIDs ==
    \A o \in Activities :
        srv[o].st # "none" /\ h.fut[o] # "none" => h.schedID[o] = srv[o].ev

\* An operation is tied to the event that scheduled it and to no other
\* (nexusOperationsWithoutScheduledID).
NexusMapping ==
    \A o \in Nexus : \A p \in h.byID : p[2] = o => p[1] = srv[o].ev

\* Once the code runs with the end of a call in its history, the call's future is
\* ready: nobody waits for what has already happened.
FuturesSettle ==
    \A o \in Ops :
        inTask /\ ~h.panic /\ srv[o].st = "closed" /\ ~Held([buffer |-> buffer], o)
            => h.fut[o] # "pending"

\* A cancellation reaches the server with the first completed task that could
\* send it: of an activity or a timer with the task it was made in, of a child with
\* the task that sees it started ("which would result in an uncanceled workflow").
CancelReachesServer ==
    \A o \in Ops :
        /\ ~inTask /\ ckpt.canceled[o] /\ ckpt.wait[o] # "Abandon"
        /\ srv[o].st \in {"open", "started"}
        /\ o \in Children => ckpt.st[Main(o)] \notin {"CommandSent", "Initiated"}
        => srv[o].cancel # "no"
=============================================================================
