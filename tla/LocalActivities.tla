--------------------------- MODULE LocalActivities ---------------------------
(***************************************************************************)
(* Local activities: the workflow tasks that start them and wait for them, *)
(* the tunnel to the local activity worker, its two pollers and its slots, *)
(* retries by local timer, workflow task heartbeats, and the stop of both  *)
(* workers.                                                                *)
(*                                                                         *)
(* Every processWorkflowTask has its own doneCh, laResultCh and laRetryCh: *)
(* its generation.  An item is one localActivityTask, an activity with the *)
(* generation that sent it.  Sends on the two channels are rendezvous with *)
(* the waiting task, or are given up when doneCh is closed.                *)
(***************************************************************************)
EXTENDS Naturals, Sequences, FiniteSets

CONSTANTS
    Runs,               \* workflow runs, each with at most one task at a time
    Acts,               \* local activities
    RunOf,              \* the run whose code calls an activity
    Pollers, Slots,     \* of the local activity worker
    MaximumAttempts,    \* of the retry policy
    HeartbeatReturns,   \* may the answer to a heartbeat bring a task (TRUE), none (FALSE)?
    MaxTasks,           \* bounds on: workflow tasks of a run,
    MaxEvents,          \*   heartbeats, cancellations, failures, a stop that times out
    None

ASSUME LocalActivitiesAssumption ==
    /\ RunOf \in [Acts -> Runs]
    /\ MaximumAttempts \in Nat \ {0}
    /\ HeartbeatReturns \subseteq BOOLEAN
    /\ {MaxTasks, MaxEvents} \subseteq Nat
    /\ None \notin [act : Acts, gen : Nat]

VARIABLES
    queue,      \* items between taskQueueHead and taskQueueTail
    ready,      \* a token is in taskReadyCh
    poller,     \* the local activity pollers
    exec,       \* what runs in a slot
    timers,     \* items whose retry waits for time.AfterFunc
    wft,        \* the workflow task goroutine of a run
    act,        \* pendingLaTasks and what the code knows of an activity
    saved,      \* the same as the server's history has it
    stop,       \* "no", "stopping" (stopC is closed), "la" (localActivityStopC too)
    timedOut,   \* awaitWaitGroup gave up on the workflow worker's goroutines
    left        \* how many of MaxEvents may still happen
vars == <<queue, ready, poller, exec, timers, wft, act, saved, stop, timedOut, left>>

ActsOf(r) == {a \in Acts : RunOf[a] = r}
Item(a, r) == [act |-> a, gen |-> wft[r].gen]
RunOfItem(i) == RunOf[i.act]
Pending(r) == {a \in ActsOf(r) : act[a].status = "pending"}

\* processWorkflowTask of the run has been called and has not returned.
InTask(r) == wft[r].pc \notin {"idle", "polling"}

\* doneCh of the item's generation is not closed.
Live(i) == wft[RunOfItem(i)].gen = i.gen /\ InTask(RunOfItem(i))

laStopped == stop = "la"

\* The slot is released.
Free(s) == exec' = [exec EXCEPT ![s] = [pc |-> "free", item |-> None, result |-> None]]

Uses(n) == left >= n /\ left' = left - n

-----------------------------------------------------------------------------
(* The tunnel.  The queue's mutex makes each of these one step; the token  *)
(* is set after it is unlocked.                                            *)

sendTask(i) == queue' = Append(queue, i)
notifyTaskReady == ready' = TRUE
clearTasks == queue' = <<>>

-----------------------------------------------------------------------------
(* The workflow task.                                                      *)

At(r, pc) == wft[r].pc = pc
Goto(r, pc) == wft' = [wft EXCEPT ![r].pc = pc]
GotoWith(r, pc, unstarted, closed) ==
    wft' = [wft EXCEPT ![r] = [pc |-> pc, gen |-> @.gen, unstarted |-> unstarted,
                               closed |-> closed]]

\* A poll that may bring the run's next task is opened.
OpenPoll(r) ==
    /\ At(r, "idle") /\ stop = "no" /\ ~wft[r].closed
    /\ wft[r].gen < MaxTasks
    /\ Goto(r, "polling")
    /\ UNCHANGED <<queue, ready, poller, exec, timers, act, saved, stop, timedOut, left>>

\* The poll returns.  While the worker stops, one that drains still processes the
\* task; otherwise, and once worker.Stop has returned, the task is let go, which
\* is for the run a poll that brings none.
PollTask(r) ==
    /\ At(r, "polling")
    /\ \/ /\ ~laStopped
          /\ wft' = [wft EXCEPT ![r] = [pc |-> "code", gen |-> @.gen + 1,
                                        unstarted |-> @.unstarted, closed |-> FALSE]]
       \/ Goto(r, "idle")
    /\ UNCHANGED <<queue, ready, poller, exec, timers, act, saved, stop, timedOut, left>>

\* The code runs until it blocks: it calls and cancels local activities, or
\* completes the workflow.
Code(r) ==
    /\ At(r, "code")
    /\ \E calls \in SUBSET {a \in ActsOf(r) : act[a].status \in {"uncalled", "backoff"}},
          cancels \in SUBSET Pending(r), completes \in BOOLEAN :
        /\ completes => calls \cup cancels = {}
        /\ Uses(IF completes THEN Cardinality(Pending(r)) ELSE Cardinality(cancels))
        /\ act' = [a \in Acts |->
                     IF a \in calls
                     THEN [status |-> "pending", attempt |-> act[a].attempt + 1,
                           canceled |-> FALSE]
                     ELSE [act[a] EXCEPT !.canceled = @ \/ a \in cancels]]
        /\ GotoWith(r, IF completes THEN "respond" ELSE "send", wft[r].unstarted \cup calls,
                    completes)
    /\ UNCHANGED <<queue, ready, poller, exec, timers, saved, stop, timedOut>>

\* CompleteWorkflowTask sends the activities that are not started.  Those the
\* tunnel refuses stay unstarted.
Send(r) ==
    /\ At(r, "send")
    /\ IF laStopped \/ wft[r].unstarted = {}
       THEN /\ Goto(r, IF Pending(r) = {} THEN "respond" ELSE "wait")
            /\ UNCHANGED queue
       ELSE \E a \in wft[r].unstarted :
              /\ sendTask(Item(a, r))
              /\ GotoWith(r, "notifySend", wft[r].unstarted \ {a}, wft[r].closed)
    /\ UNCHANGED <<ready, poller, exec, timers, act, saved, stop, timedOut, left>>

Notify(r) ==
    /\ \/ At(r, "notifySend") /\ Goto(r, "send")
       \/ At(r, "notifyRetry") /\ Goto(r, "wait")
    /\ notifyTaskReady
    /\ UNCHANGED <<queue, poller, exec, timers, act, saved, stop, timedOut, left>>

\* A retry's timer has fired and the waiting task receives it.
Retry(r, i) ==
    /\ At(r, "wait") /\ i \in timers /\ Live(i) /\ RunOfItem(i) = r
    /\ timers' = timers \ {i}
    /\ IF act[i.act].status # "pending"
       THEN Goto(r, "closing") /\ UNCHANGED <<queue, act>>
       ELSE IF laStopped
       THEN UNCHANGED <<wft, queue, act>>
       ELSE /\ act' = [act EXCEPT ![i.act].attempt = @ + 1]
            /\ sendTask(i)
            /\ Goto(r, "notifyRetry")
    /\ UNCHANGED <<ready, poller, exec, saved, stop, timedOut, left>>

\* Fault: the timer's callback only sends.
RetryAbortedNever(i) == FALSE /\ UNCHANGED vars

\* Its generation is over.
RetryAborted(i) ==
    /\ i \in timers /\ ~Live(i)
    /\ timers' = timers \ {i}
    /\ UNCHANGED <<queue, ready, poller, exec, wft, act, saved, stop, timedOut, left>>

\* retryLocalActivity: is there another attempt after this result?
MayRetry(i, result) == result = "failed" /\ act[i.act].attempt < MaximumAttempts

\* The waiting task receives a result: a short backoff is waited for here, a long
\* one goes into the marker and becomes a timer of the workflow.
Result(r, s) ==
    LET i == exec[s].item
    IN  /\ At(r, "wait") /\ exec[s].pc = "result" /\ Live(i) /\ RunOfItem(i) = r
        /\ Free(s)
        /\ \/ /\ MayRetry(i, exec[s].result)
              /\ timers' = timers \cup {i}
              /\ UNCHANGED <<act, wft>>
           \/ /\ act' = [act EXCEPT ![i.act].status =
                           IF MayRetry(i, exec[s].result) THEN "backoff" ELSE "resolved"]
              /\ Goto(r, "code")
              /\ UNCHANGED timers
        /\ UNCHANGED <<queue, ready, poller, saved, stop, timedOut, left>>

-----------------------------------------------------------------------------
(* Heartbeats and the end of the task.                                     *)

\* What the history has of an activity: one without a marker is called again.
Recorded(r) == [a \in Acts |-> IF RunOf[a] = r /\ act[a].status # "pending" THEN act[a]
                               ELSE saved[a]]
\* The context is cleared; the next task replays the history.
Lost(r) == [a \in Acts |-> IF RunOf[a] = r THEN saved[a] ELSE act[a]]

\* Fault: the heartbeat does not look at the stop channel.
HeartbeatAnyway(r) ==
    /\ At(r, "wait")
    /\ Goto(r, "heartbeat") /\ Uses(1)
    /\ UNCHANGED <<queue, ready, poller, exec, timers, act, saved, stop, timedOut>>

\* The task is about to time out.
Heartbeat(r) ==
    /\ At(r, "wait")
    /\ IF laStopped THEN Goto(r, "closing") /\ UNCHANGED left
       ELSE Goto(r, "heartbeat") /\ Uses(1)
    /\ UNCHANGED <<queue, ready, poller, exec, timers, act, saved, stop, timedOut>>

HeartbeatAnswered(r) ==
    /\ At(r, "heartbeat")
    /\ \E returned \in HeartbeatReturns : Goto(r, IF returned THEN "code" ELSE "closing")
    /\ saved' = Recorded(r)
    /\ UNCHANGED <<queue, ready, poller, exec, timers, act, stop, timedOut, left>>

Respond(r) ==
    /\ At(r, "respond")
    /\ saved' = Recorded(r)
    /\ Goto(r, "closing")
    /\ UNCHANGED <<queue, ready, poller, exec, timers, act, stop, timedOut, left>>

\* The call fails: the context is discarded.
CallFails(r) ==
    /\ At(r, "heartbeat") \/ At(r, "respond")
    /\ Uses(1)
    /\ act' = Lost(r)
    /\ GotoWith(r, "closing", {}, FALSE)
    /\ UNCHANGED <<queue, ready, poller, exec, timers, saved, stop, timedOut>>

\* processWorkflowTask returns, which closes doneCh.
CloseDone(r) ==
    /\ At(r, "closing")
    /\ Goto(r, "idle")
    /\ UNCHANGED <<queue, ready, poller, exec, timers, act, saved, stop, timedOut, left>>

-----------------------------------------------------------------------------
(* The local activity worker.                                              *)

\* A poller holds a slot before it asks the tunnel.
Reserve(p, s) ==
    /\ poller[p].pc = "reserve" /\ exec[s].pc = "free" /\ ~laStopped
    /\ poller' = [poller EXCEPT ![p] = [pc |-> "get", slot |-> s]]
    /\ exec' = [exec EXCEPT ![s].pc = "reserved"]
    /\ UNCHANGED <<queue, ready, timers, wft, act, saved, stop, timedOut, left>>

Goes(s, pc, result) ==
    exec' = [exec EXCEPT ![s] = [pc |-> pc, item |-> @.item, result |-> result]]
Leaves(p) == poller' = [poller EXCEPT ![p] = [pc |-> "left", slot |-> None]]

\* Fault: a poller that takes one of several items does not say so.
GetTaskQuiet(p) ==
    /\ poller[p].pc = "get" /\ ~laStopped
    /\ IF queue = <<>>
       THEN /\ poller' = [poller EXCEPT ![p].pc = "wait"]
            /\ UNCHANGED <<queue, exec>>
       ELSE /\ queue' = Tail(queue)
            /\ exec' = [exec EXCEPT ![poller[p].slot].item = Head(queue)]
            /\ poller' = [poller EXCEPT ![p].pc = "dispatch"]
    /\ UNCHANGED <<ready, timers, wft, act, saved, stop, timedOut, left>>

\* getTask: the head of the queue, or wait for the token.
GetTask(p) ==
    /\ poller[p].pc = "get" /\ ~laStopped
    /\ IF queue = <<>>
       THEN /\ poller' = [poller EXCEPT ![p].pc = "wait"]
            /\ UNCHANGED <<queue, exec>>
       ELSE /\ queue' = Tail(queue)
            /\ exec' = [exec EXCEPT ![poller[p].slot].item = Head(queue)]
            /\ poller' = [poller EXCEPT ![p].pc = IF Tail(queue) = <<>> THEN "dispatch"
                                                  ELSE "notify"]
    /\ UNCHANGED <<ready, timers, wft, act, saved, stop, timedOut, left>>

WakeUp(p) ==
    /\ poller[p].pc = "wait" /\ ready
    /\ ready' = FALSE
    /\ poller' = [poller EXCEPT ![p].pc = "get"]
    /\ UNCHANGED <<queue, exec, timers, wft, act, saved, stop, timedOut, left>>

\* There are more: another poller may wait.
PollerNotifies(p) ==
    /\ poller[p].pc = "notify"
    /\ notifyTaskReady
    /\ poller' = [poller EXCEPT ![p].pc = "dispatch"]
    /\ UNCHANGED <<queue, exec, timers, wft, act, saved, stop, timedOut, left>>

Dispatch(p) ==
    /\ poller[p].pc = "dispatch"
    /\ poller' = [poller EXCEPT ![p] = [pc |-> "reserve", slot |-> None]]
    /\ exec' = [exec EXCEPT ![poller[p].slot].pc = "polled"]
    /\ UNCHANGED <<queue, ready, timers, wft, act, saved, stop, timedOut, left>>

\* A poller that finds the tunnel stopped empties it and leaves.
PollerStops(p) ==
    /\ laStopped
    /\ \/ /\ poller[p].pc \in {"get", "wait"}
          /\ clearTasks
          /\ Free(poller[p].slot)
       \/ /\ poller[p].pc = "reserve"
          /\ UNCHANGED <<queue, exec>>
    /\ Leaves(p)
    /\ UNCHANGED <<ready, timers, wft, act, saved, stop, timedOut, left>>

\* ProcessTask: run the activity unless the worker stops or it is canceled.
Execute(s) ==
    /\ exec[s].pc = "polled"
    /\ IF laStopped THEN Free(s)
       ELSE IF act[exec[s].item.act].canceled THEN Goes(s, "result", "canceled")
       ELSE Goes(s, "running", None)
    /\ UNCHANGED <<queue, ready, poller, timers, wft, act, saved, stop, timedOut, left>>

\* The activity returns, or its context is canceled.  A worker that stops keeps
\* the result to itself.
Return(s) ==
    /\ exec[s].pc = "running"
    /\ IF laStopped THEN Free(s) /\ UNCHANGED left
       ELSE \E result \in {"ok", "failed"} \cup
                          (IF act[exec[s].item.act].canceled THEN {"canceled"} ELSE {}) :
              /\ Goes(s, "result", result)
              /\ Uses(IF result = "failed" THEN 1 ELSE 0)
    /\ UNCHANGED <<queue, ready, poller, timers, wft, act, saved, stop, timedOut>>

\* Fault: doneCh is not looked at.
DropResultNever(s) == FALSE /\ UNCHANGED vars

\* processWorkflowTask has returned: the result is dropped.
DropResult(s) ==
    /\ exec[s].pc = "result" /\ ~Live(exec[s].item)
    /\ Free(s)
    /\ UNCHANGED <<queue, ready, poller, timers, wft, act, saved, stop, timedOut, left>>

-----------------------------------------------------------------------------
(* workflowWorker.Stop                                                     *)

\* Fault: the two workers stop at the same time.
StopTogether ==
    /\ stop = "no"
    /\ stop' = "la"
    /\ UNCHANGED <<queue, ready, poller, exec, timers, wft, act, saved, timedOut, left>>

StopWorkflowWorker ==
    /\ stop = "no"
    /\ stop' = "stopping"
    /\ UNCHANGED <<queue, ready, poller, exec, timers, wft, act, saved, timedOut, left>>

\* May awaitWaitGroup answer so?  Pollers and tasks count in stopWG.
awaitWaitGroup(success) == success => \A r \in Runs : At(r, "idle")

\* worker.Stop returns: its goroutines are done, or stopTimeout is over.
StopLocalActivities ==
    /\ stop = "stopping"
    /\ stop' = "la"
    /\ \E success \in BOOLEAN :
        /\ awaitWaitGroup(success)
        /\ timedOut' = ~success
        /\ Uses(IF success THEN 0 ELSE 1)
    /\ UNCHANGED <<queue, ready, poller, exec, timers, wft, act, saved>>

-----------------------------------------------------------------------------
Init ==
    /\ queue = <<>> /\ ready = FALSE
    /\ poller = [p \in Pollers |-> [pc |-> "reserve", slot |-> None]]
    /\ exec = [s \in Slots |-> [pc |-> "free", item |-> None, result |-> None]]
    /\ timers = {}
    /\ wft = [r \in Runs |-> [pc |-> "idle", gen |-> 0, unstarted |-> {}, closed |-> FALSE]]
    /\ act = [a \in Acts |-> [status |-> "uncalled", attempt |-> 0, canceled |-> FALSE]]
    /\ saved = act
    /\ stop = "no" /\ timedOut = FALSE /\ left = MaxEvents

Task(r) ==
    \/ Code(r) \/ Send(r) \/ Notify(r) \/ HeartbeatAnswered(r) \/ Respond(r) \/ CloseDone(r)
    \/ \E i \in timers : Retry(r, i)
    \/ \E s \in Slots : Result(r, s)
Poller(p) ==
    \/ \E s \in Slots : Reserve(p, s)
    \/ GetTask(p) \/ WakeUp(p) \/ PollerNotifies(p) \/ Dispatch(p) \/ PollerStops(p)
Executor(s) == Execute(s) \/ Return(s) \/ DropResult(s)

Next ==
    \/ \E r \in Runs : OpenPoll(r) \/ PollTask(r) \/ Task(r) \/ Heartbeat(r) \/ CallFails(r)
    \/ \E p \in Pollers : Poller(p)
    \/ \E s \in Slots : Executor(s)
    \/ \E i \in timers : RetryAborted(i)
    \/ StopWorkflowWorker \/ StopLocalActivities

Spec == Init /\ [][Next]_vars

\* Goroutines that can run do run, calls are answered, activities return, and the
\* heartbeat timer fires.
FairSpec ==
    /\ Spec
    /\ \A r \in Runs : WF_vars(Task(r)) /\ WF_vars(Heartbeat(r))
    /\ \A p \in Pollers : WF_vars(Poller(p))
    /\ \A s \in Slots : WF_vars(Executor(s))
    /\ WF_vars(\E i \in timers : RetryAborted(i))

-----------------------------------------------------------------------------
(* Properties.                                                             *)

\* While an item is queued, a poller that sleeps will be woken: the token is
\* there, or somebody who will set it or look at the queue is awake.
TunnelWakes ==
    queue # <<>> /\ ~laStopped =>
        \/ ready
        \/ \E p \in Pollers : poller[p].pc \in {"get", "notify"}
        \/ \E r \in Runs : wft[r].pc \in {"notifySend", "notifyRetry"}

\* The number of places that hold an item: waiting to be sent, in the tunnel,
\* in a slot, or with a retry timer.
Places(i) ==
    Cardinality({k \in DOMAIN queue : queue[k] = i})
    + Cardinality({s \in Slots : exec[s].item = i})
    + (IF i \in timers THEN 1 ELSE 0)
    + (IF i.act \in wft[RunOfItem(i)].unstarted THEN 1 ELSE 0)

\* A task that waits for an activity has it in exactly one place: no result will
\* be missing, and none comes twice (the tunnel's list is linked through the
\* items and could not hold one twice).  That includes the stop of the workers:
\* unless it times out, no activity is discarded that a task still waits for.
InOnePlace ==
    ~timedOut => \A r \in Runs : InTask(r) /\ ~At(r, "closing") /\ ~wft[r].closed =>
        \A a \in ActsOf(r) :
            Places(Item(a, r)) = IF act[a].status = "pending" THEN 1 ELSE 0

\* A task that started local activities ends, whatever fails or stops.
TasksEnd == \A r \in Runs : InTask(r) ~> ~InTask(r)

\* A slot is not held for ever by a result that nobody receives.
SlotsReturn == \A s \in Slots : []<>(exec[s].pc \in {"free", "reserved"})

\* Once the local activity worker is told to stop, every goroutine around it
\* returns: pollers, executions, the timers of retries and the tasks.
StopEnds ==
    laStopped ~> /\ \A p \in Pollers : poller[p].pc = "left"
                 /\ \A s \in Slots : exec[s].pc = "free"
                 /\ timers = {} /\ \A r \in Runs : ~InTask(r)
=============================================================================
