----------------------------- MODULE BaseWorker -----------------------------
(***************************************************************************)
(* The goroutines of one baseWorker (internal/internal_worker_base.go): a  *)
(* fixed set of pollers that reserve a slot, poll the server and hand the  *)
(* task over an unbuffered channel, the task dispatcher, the eager task    *)
(* dispatcher, the goroutine that processes a task, and the shutdown that  *)
(* has to bring all of them home.  Beside them run the workflow task       *)
(* completions that reserve slots of this worker for eager activities      *)
(* (internal/internal_eager_activity.go).                                  *)
(*                                                                         *)
(* A permit is a *SlotPermit: an actor that holds a pointer to it has it   *)
(* in its own part of the state, so that holding it twice, or releasing it *)
(* twice, is expressible.                                                  *)
(***************************************************************************)
EXTENDS Naturals, FiniteSets

CONSTANTS
    Pollers,        \* the goroutines of runPoller
    Permits,        \* the slots of the fixed-size supplier
    PolledTasks,    \* tasks the server may answer a poll with
    EagerTasks,     \* activity tasks the server may attach to a completion
    EagerReqs,      \* workflow task completions that ask for eager activities
    MaxPerTask,     \* eager requests per workflow task completion
    MaxConcurrent,  \* eager permits held at a time, 0 for no limit
    None,           \* no permit, no task
    Empty           \* the empty answer of a long poll that timed out

Tasks == PolledTasks \cup EagerTasks

ASSUME BaseWorkerAssumption ==
    /\ PolledTasks \cap EagerTasks = {}
    /\ None \notin Permits \cup Tasks
    /\ Empty \notin Tasks \cup {None}
    /\ MaxPerTask \in Nat
    /\ MaxConcurrent \in Nat

VARIABLES
    drain,        \* workerPollCompleteOnShutdown, settled before Start
    noRepoll,     \* the flag shared by the remote-task pollers
    stopPc,       \* how far the shutdown has come
    timedOut,     \* Stop gave up waiting for the goroutines
    fatal,        \* a poller reported a fatal error
    free,         \* permits the semaphore still has
    used,         \* usedSlots of the tracking slot supplier
    poller,       \* [pc, permit, task] of every poller
    reserver,     \* [pc, permit] of the goroutine of reserveSlotAsync
    queueClosed,  \* taskQueueCh has been closed
    dispatcher,   \* [pc, permit, task] of runTaskDispatcher
    eagerDisp,    \* runEagerTaskDispatcher: "run" or "exited"
    eagerQueue,   \* eagerTaskQueueCh: the eager tasks waiting there
    jobs,         \* goroutines of processTaskAsync
    eager,        \* [pc, permits, tasks] of every completion
    eagerPermits, \* permits that carry the eager release callback
    fate,         \* what became of every task
    latePolls     \* polls a poller opened after the worker was to stop

stopVars == <<drain, noRepoll, stopPc, timedOut, fatal>>
slotVars == <<free, used, eagerPermits>>
pollVars == <<poller, reserver>>
dispVars == <<queueClosed, dispatcher>>
eagerVars == <<eagerDisp, eagerQueue, eager>>
vars == <<stopVars, slotVars, pollVars, dispVars, eagerVars, jobs, fate, latePolls>>

(***************************************************************************)
(* The shutdown, in the order the code goes through it: noRepoll, the      *)
(* pollers' stop channel, baseWorker.stopCh, the limiter context, and the  *)
(* task limiter's context once the wait for the goroutines is over.        *)
(***************************************************************************)
StopPcs == {"run", "noRepoll", "stopC", "stopCh", "waiting", "done"}
stopping == stopPc \in {"stopC", "stopCh", "waiting", "done"}
isStop == stopPc \in {"stopCh", "waiting", "done"}
limiterCanceled == stopPc \in {"waiting", "done"}
taskLimiterCanceled == stopPc = "done"

PollerPcs == {"top", "reserve", "got", "throttle", "checked", "poll", "send", "exited"}
ReserverPcs == {"none", "waiting", "offer", "failed"}
DispatcherPcs == {"recv", "limit", "discard", "exited"}
EagerPcs == {"apply", "checked", "rpc", "resp", "done"}
Fates == {"unseen", "received", "executing", "done", "dropped", "stranded"}

Job(t, s) == [task |-> t, permit |-> s, started |-> FALSE]

\* The type of every variable: in particular a poll, a dispatcher and a task never
\* get a nil permit from reserveSlotAsync.
TypeOK ==
    /\ drain \in BOOLEAN
    /\ noRepoll \in BOOLEAN
    /\ stopPc \in StopPcs
    /\ timedOut \in BOOLEAN
    /\ fatal \in BOOLEAN
    /\ free \subseteq Permits
    /\ used \subseteq Permits
    /\ eagerPermits \subseteq Permits
    /\ poller \in [Pollers -> [pc: PollerPcs, permit: Permits \cup {None},
                               task: Tasks \cup {None, Empty}]]
    /\ reserver \in [Pollers -> [pc: ReserverPcs, permit: Permits \cup {None}]]
    /\ queueClosed \in BOOLEAN
    /\ dispatcher \in [pc: DispatcherPcs, permit: Permits \cup {None},
                       task: Tasks \cup {None, Empty}]
    /\ eagerDisp \in {"run", "exited"}
    /\ eagerQueue \subseteq [task: EagerTasks, permit: Permits]
    /\ jobs \subseteq [task: Tasks \cup {Empty}, permit: Permits, started: BOOLEAN]
    /\ eager \in [EagerReqs -> [pc: EagerPcs, permits: SUBSET Permits,
                                tasks: SUBSET EagerTasks]]
    /\ fate \in [Tasks -> Fates]
    /\ latePolls \in [Pollers -> Nat]

Init ==
    /\ drain \in BOOLEAN
    /\ noRepoll = FALSE /\ stopPc = "run" /\ timedOut = FALSE /\ fatal = FALSE
    /\ free = Permits /\ used = {} /\ eagerPermits = {}
    /\ poller = [p \in Pollers |-> [pc |-> "top", permit |-> None, task |-> None]]
    /\ reserver = [p \in Pollers |-> [pc |-> "none", permit |-> None]]
    /\ queueClosed = FALSE
    /\ dispatcher = [pc |-> "recv", permit |-> None, task |-> None]
    /\ eagerDisp = "run" /\ eagerQueue = {}
    /\ jobs = {}
    /\ eager = [e \in EagerReqs |-> [pc |-> "apply", permits |-> {}, tasks |-> {}]]
    /\ fate = [t \in Tasks |-> "unseen"]
    /\ latePolls = [p \in Pollers |-> 0]

\* Fault: the slot's mark survives its release.
ReleaseSlotStillUsed(s) ==
    /\ free' = free \cup {s}
    /\ eagerPermits' = eagerPermits \ {s}
    /\ UNCHANGED used

(***************************************************************************)
(* trackingSlotSupplier.ReleaseSlot: no longer used, back to the           *)
(* semaphore, and the eager callback if the permit has one.                *)
(***************************************************************************)
ReleaseSlot(s) ==
    /\ used' = used \ {s}
    /\ free' = free \cup {s}
    /\ eagerPermits' = eagerPermits \ {s}

SetFate(t, f) == fate' = IF t \in Tasks THEN [fate EXCEPT ![t] = f] ELSE fate

PollerTo(p, pc) == poller' = [poller EXCEPT ![p].pc = pc]

\* The poller gives its permit back and goes to pc with empty hands.
PollerRelease(p, pc) ==
    /\ ReleaseSlot(poller[p].permit)
    /\ poller' = [poller EXCEPT ![p] = [pc |-> pc, permit |-> None, task |-> None]]

-----------------------------------------------------------------------------
(***************************************************************************)
(* runPoller and the goroutine of reserveSlotAsync.                        *)
(***************************************************************************)

\* The top of the loop: leave if polling is over, else ask for a slot.
ReserveOrLeave(p) ==
    /\ poller[p].pc = "top"
    /\ IF noRepoll
       THEN PollerTo(p, "exited") /\ UNCHANGED reserver
       ELSE /\ PollerTo(p, "reserve")
            /\ reserver' = [reserver EXCEPT ![p] = [pc |-> "waiting", permit |-> None]]
    /\ UNCHANGED <<stopVars, slotVars, dispVars, eagerVars, jobs, fate, latePolls>>

\* ReserveSlot returns a permit to the goroutine.
ReserverAcquire(p) ==
    /\ reserver[p].pc = "waiting"
    /\ \E s \in free :
        /\ free' = free \ {s}
        /\ reserver' = [reserver EXCEPT ![p] = [pc |-> "offer", permit |-> s]]
    /\ UNCHANGED <<stopVars, used, eagerPermits, poller, dispVars, eagerVars, jobs,
                   fate, latePolls>>

\* ReserveSlot returns an error that is not a cancellation.
ReserverError(p) ==
    /\ reserver[p].pc = "waiting"
    /\ reserver' = [reserver EXCEPT ![p].pc = "failed"]
    /\ UNCHANGED <<stopVars, slotVars, poller, dispVars, eagerVars, jobs, fate, latePolls>>

\* What the goroutine gives up when the poller's context is canceled.  Fault:
\* once it has a permit it does not watch the context any more.
GivesUpBarOffer(p) == reserver[p].pc \in {"waiting", "failed"}
GivesUp(p) == reserver[p].pc \in {"waiting", "failed", "offer"}

\* The poller's context is canceled by its return: the goroutine gives up its
\* wait, its report of an error, or the permit nobody will take.
ReserverCanceled(p) ==
    /\ poller[p].pc = "exited"
    /\ GivesUp(p)
    /\ reserver' = [reserver EXCEPT ![p] = [pc |-> "none", permit |-> None]]
    /\ IF reserver[p].pc = "offer"
       THEN ReleaseSlot(reserver[p].permit)
       ELSE UNCHANGED slotVars
    /\ UNCHANGED <<stopVars, poller, dispVars, eagerVars, jobs, fate, latePolls>>

\* Where the poller goes with what it received; nil means an error.
AfterReserve(p) == IF reserver[p].pc = "offer" THEN "got" ELSE "top"

\* The receive from reserveChan: a permit, or nil and another round.
TakePermit(p) ==
    /\ poller[p].pc = "reserve"
    /\ reserver[p].pc \in {"offer", "failed"}
    /\ poller' = [poller EXCEPT ![p] =
            [pc |-> AfterReserve(p), permit |-> reserver[p].permit, task |-> None]]
    /\ reserver' = [reserver EXCEPT ![p] = [pc |-> "none", permit |-> None]]
    /\ UNCHANGED <<stopVars, slotVars, dispVars, eagerVars, jobs, fate, latePolls>>

\* The select's other branch: the worker stops while a slot is awaited.
StopWhileReserving(p) ==
    /\ poller[p].pc = "reserve"
    /\ isStop
    /\ PollerTo(p, "exited")
    /\ UNCHANGED <<stopVars, slotVars, reserver, dispVars, eagerVars, jobs, fate, latePolls>>

\* With a permit in hand noRepoll is read again before pollTask is called.
PollOrLeave(p) ==
    /\ poller[p].pc = "got"
    /\ IF noRepoll
       THEN PollerRelease(p, "exited")
       ELSE PollerTo(p, "throttle") /\ UNCHANGED slotVars
    /\ UNCHANGED <<stopVars, reserver, dispVars, eagerVars, jobs, fate, latePolls>>

-----------------------------------------------------------------------------
(***************************************************************************)
(* pollTask: the pacing, the poll, and the hand-over to the dispatcher.    *)
(***************************************************************************)

\* Pacing ends; a poll goes ahead only if noRepoll is still unset.
Pace(p) ==
    /\ poller[p].pc = "throttle"
    /\ ~noRepoll
    /\ PollerTo(p, "checked")
    /\ UNCHANGED <<stopVars, slotVars, reserver, dispVars, eagerVars, jobs, fate, latePolls>>

\* noRepoll arrived during pacing, or the poll limiter was canceled: the
\* deferred release returns the unused slot.
SkipPoll(p) ==
    /\ poller[p].pc = "throttle"
    /\ noRepoll \/ limiterCanceled
    /\ PollerRelease(p, "top")
    /\ UNCHANGED <<stopVars, reserver, dispVars, eagerVars, jobs, fate, latePolls>>

\* doPoll refuses when the worker is stopping and opens the poll otherwise.
OpenPoll(p) ==
    /\ poller[p].pc = "checked"
    /\ IF stopping
       THEN PollerRelease(p, "top") /\ UNCHANGED latePolls
       ELSE /\ PollerTo(p, "poll")
            /\ latePolls' = [latePolls EXCEPT ![p] = IF stopPc # "run" \/ fatal THEN @ + 1 ELSE @]
            /\ UNCHANGED slotVars
    /\ UNCHANGED <<stopVars, reserver, dispVars, eagerVars, jobs, fate>>

\* The poll returns a task, or the empty task of a long poll that expired.
PollReturns(p) ==
    /\ poller[p].pc = "poll"
    /\ \E t \in {u \in PolledTasks : fate[u] = "unseen"} \cup {Empty} :
        /\ poller' = [poller EXCEPT ![p] = [pc |-> "send", permit |-> @.permit, task |-> t]]
        /\ SetFate(t, "received")
    /\ UNCHANGED <<stopVars, slotVars, reserver, dispVars, eagerVars, jobs, latePolls>>

\* The poll returns an error that is retried later.
PollError(p) ==
    /\ poller[p].pc = "poll"
    /\ PollerRelease(p, "top")
    /\ UNCHANGED <<stopVars, reserver, dispVars, eagerVars, jobs, fate, latePolls>>

\* A non-retriable error after the grace period: fatalErrCb stops all polling.
PollFatal(p) ==
    /\ poller[p].pc = "poll"
    /\ PollerRelease(p, "top")
    /\ fatal' = TRUE
    /\ noRepoll' = TRUE
    /\ UNCHANGED <<drain, stopPc, timedOut, reserver, dispVars, eagerVars, jobs, fate, latePolls>>

\* Without draining, doPoll abandons the poll when the worker stops; an answer
\* the server had already given is lost with it.
AbandonPoll(p) ==
    /\ poller[p].pc = "poll"
    /\ ~drain /\ stopping
    /\ PollerRelease(p, "top")
    /\ \E t \in {u \in PolledTasks : fate[u] = "unseen"} \cup {Empty} : SetFate(t, "dropped")
    /\ UNCHANGED <<stopVars, reserver, dispVars, eagerVars, jobs, latePolls>>

\* Without draining, the send to taskQueueCh gives way to stopCh.
AbandonSend(p) ==
    /\ poller[p].pc = "send"
    /\ ~drain /\ isStop
    /\ PollerRelease(p, "top")
    /\ SetFate(poller[p].task, "dropped")
    /\ UNCHANGED <<stopVars, reserver, dispVars, eagerVars, jobs, latePolls>>

-----------------------------------------------------------------------------
(***************************************************************************)
(* runTaskDispatcher, discardTaskQueue and the goroutine of Start that     *)
(* closes the channel.                                                     *)
(***************************************************************************)

\* Fault: didSendTask stays false, the deferred release runs after the send.
HandoverThenRelease(p) ==
    /\ poller[p].pc = "send"
    /\ dispatcher.pc = "recv"
    /\ dispatcher' = [pc |-> "limit", permit |-> poller[p].permit, task |-> poller[p].task]
    /\ PollerRelease(p, "top")
    /\ UNCHANGED <<stopVars, reserver, queueClosed, eagerVars, jobs, fate, latePolls>>

\* The rendezvous on taskQueueCh.
Handover(p) ==
    /\ poller[p].pc = "send"
    /\ dispatcher.pc = "recv"
    /\ dispatcher' = [pc |-> "limit", permit |-> poller[p].permit, task |-> poller[p].task]
    /\ poller' = [poller EXCEPT ![p] = [pc |-> "top", permit |-> None, task |-> None]]
    /\ UNCHANGED <<stopVars, slotVars, reserver, queueClosed, eagerVars, jobs, fate, latePolls>>

\* The rendezvous once the dispatcher only discards.
Discard(p) ==
    /\ poller[p].pc = "send"
    /\ dispatcher.pc = "discard"
    /\ PollerRelease(p, "top")
    /\ SetFate(poller[p].task, "dropped")
    /\ UNCHANGED <<stopVars, reserver, dispVars, eagerVars, jobs, latePolls>>

\* taskLimiter.Wait returns nil and processTaskAsync starts a goroutine.  Wait may
\* have returned just before a cancellation, so this is not conditional on it.
Dispatch ==
    /\ dispatcher.pc = "limit"
    /\ jobs' = jobs \cup {Job(dispatcher.task, dispatcher.permit)}
    /\ dispatcher' = [pc |-> "recv", permit |-> None, task |-> None]
    /\ UNCHANGED <<stopVars, slotVars, pollVars, queueClosed, eagerVars, fate, latePolls>>

\* The context taskLimiter.Wait watches: the task limiter's own when draining,
\* the worker's otherwise.  Fault: always the one that Stop cancels at once.
WaitCanceledByStop == limiterCanceled
WaitCanceled == IF drain THEN taskLimiterCanceled ELSE limiterCanceled

\* A draining dispatcher keeps receiving what pollers send.
AfterCancel == IF drain THEN "discard" ELSE "exited"

\* taskLimiter.Wait fails and the task in hand is given up.
DispatchCanceled ==
    /\ dispatcher.pc = "limit"
    /\ WaitCanceled
    /\ ReleaseSlot(dispatcher.permit)
    /\ SetFate(dispatcher.task, "dropped")
    /\ dispatcher' = [pc |-> AfterCancel, permit |-> None, task |-> None]
    /\ UNCHANGED <<stopVars, pollVars, queueClosed, eagerVars, jobs, latePolls>>

\* When the dispatcher may return.  Fault: on stopCh even when it should drain.
DispatcherMayExitOnStop == queueClosed \/ isStop
DispatcherMayExit == queueClosed \/ (~drain /\ isStop)

\* The dispatcher returns when the channel is closed or, without draining,
\* when the worker stops.
DispatcherExit ==
    /\ dispatcher.pc \in {"recv", "discard"}
    /\ DispatcherMayExit
    /\ dispatcher' = [dispatcher EXCEPT !.pc = "exited"]
    /\ UNCHANGED <<stopVars, slotVars, pollVars, queueClosed, eagerVars, jobs, fate, latePolls>>

\* pollerWG.Wait() returned: no poller is left to send.
CloseTaskQueue ==
    /\ ~queueClosed
    /\ \A p \in Pollers : poller[p].pc = "exited"
    /\ queueClosed' = TRUE
    /\ UNCHANGED <<stopVars, slotVars, pollVars, dispatcher, eagerVars, jobs, fate, latePolls>>

-----------------------------------------------------------------------------
(***************************************************************************)
(* processTaskAsync.                                                       *)
(***************************************************************************)

\* The goroutine marks the slot of a real task and calls ProcessTask, which
\* refuses a task when the worker is stopping and does not drain.
StartJob(j) ==
    /\ ~j.started
    /\ jobs' = (jobs \ {j}) \cup {[j EXCEPT !.started = TRUE]}
    /\ used' = IF j.task = Empty THEN used ELSE used \cup {j.permit}
    /\ SetFate(j.task, IF ~drain /\ stopping THEN "dropped" ELSE "executing")
    /\ UNCHANGED <<stopVars, free, eagerPermits, pollVars, dispVars, eagerVars, latePolls>>

\* ProcessTask returns or panics; the deferred release runs either way.
FinishJob(j) ==
    /\ j.started
    /\ jobs' = jobs \ {j}
    /\ ReleaseSlot(j.permit)
    /\ fate' = IF j.task \in Tasks /\ fate[j.task] = "executing"
               THEN [fate EXCEPT ![j.task] = "done"] ELSE fate
    /\ UNCHANGED <<stopVars, pollVars, dispVars, eagerVars, latePolls>>

-----------------------------------------------------------------------------
(***************************************************************************)
(* The eager path: a completion reserves slots (applyToRequest), calls the *)
(* server, and hands the activities it got to this worker                  *)
(* (handleResponse); runEagerTaskDispatcher starts them.                   *)
(***************************************************************************)

\* tryReserveSlot first reads stopCh.
EagerCheckStop(e) ==
    /\ eager[e].pc = "apply"
    /\ Cardinality(eager[e].permits) < MaxPerTask
    /\ ~isStop
    /\ eager' = [eager EXCEPT ![e].pc = "checked"]
    /\ UNCHANGED <<stopVars, slotVars, pollVars, dispVars, eagerDisp, eagerQueue, jobs,
                   fate, latePolls>>

\* TryReserveSlot under countLock: a permit if one is free and the executor
\* holds fewer than maxConcurrent, else nothing.
EagerReserve(e) ==
    /\ eager[e].pc = "checked"
    /\ IF (MaxConcurrent = 0 \/ Cardinality(eagerPermits) < MaxConcurrent) /\ free # {}
       THEN \E s \in free :
              /\ free' = free \ {s}
              /\ eagerPermits' = eagerPermits \cup {s}
              /\ eager' = [eager EXCEPT ![e].pc = "apply", ![e].permits = @ \cup {s}]
       ELSE /\ eager' = [eager EXCEPT ![e].pc = "apply"]
            /\ UNCHANGED <<free, eagerPermits>>
    /\ UNCHANGED <<stopVars, used, pollVars, dispVars, eagerDisp, eagerQueue, jobs, fate,
                   latePolls>>

\* RespondWorkflowTaskCompleted is sent.
EagerCall(e) ==
    /\ eager[e].pc = "apply"
    /\ eager' = [eager EXCEPT ![e].pc = "rpc"]
    /\ UNCHANGED <<stopVars, slotVars, pollVars, dispVars, eagerDisp, eagerQueue, jobs,
                   fate, latePolls>>

\* The server answers with at most as many activities as were asked for; a
\* failed call answers with none.
EagerAnswer(e) ==
    /\ eager[e].pc = "rpc"
    /\ \E ts \in SUBSET {t \in EagerTasks : fate[t] = "unseen"} :
        /\ Cardinality(ts) <= Cardinality(eager[e].permits)
        /\ eager' = [eager EXCEPT ![e] = [pc |-> "resp", permits |-> @.permits, tasks |-> ts]]
        /\ fate' = [t \in Tasks |-> IF t \in ts THEN "received" ELSE fate[t]]
    /\ UNCHANGED <<stopVars, slotVars, pollVars, dispVars, eagerDisp, eagerQueue, jobs,
                   latePolls>>

\* A permit the server did not use is released.
EagerReleaseUnused(e) ==
    /\ eager[e].pc = "resp"
    /\ Cardinality(eager[e].permits) > Cardinality(eager[e].tasks)
    /\ \E s \in eager[e].permits :
        /\ ReleaseSlot(s)
        /\ eager' = [eager EXCEPT ![e].permits = @ \ {s}]
    /\ UNCHANGED <<stopVars, pollVars, dispVars, eagerDisp, eagerQueue, jobs, fate, latePolls>>

\* pushEagerTask.  Nobody receives it once runEagerTaskDispatcher returned.
EagerPush(e) ==
    /\ eager[e].pc = "resp"
    /\ Cardinality(eager[e].permits) = Cardinality(eager[e].tasks)
    /\ \E t \in eager[e].tasks, s \in eager[e].permits :
        /\ eagerQueue' = eagerQueue \cup {[task |-> t, permit |-> s]}
        /\ eager' = [eager EXCEPT ![e].permits = @ \ {s}, ![e].tasks = @ \ {t}]
        /\ SetFate(t, IF eagerDisp = "exited" THEN "stranded" ELSE "received")
    /\ UNCHANGED <<stopVars, slotVars, pollVars, dispVars, eagerDisp, jobs, latePolls>>

\* handleResponse returns.
EagerDone(e) ==
    /\ eager[e].pc = "resp"
    /\ eager[e].permits = {} /\ eager[e].tasks = {}
    /\ eager' = [eager EXCEPT ![e].pc = "done"]
    /\ UNCHANGED <<stopVars, slotVars, pollVars, dispVars, eagerDisp, eagerQueue, jobs,
                   fate, latePolls>>

\* The eager dispatcher starts a waiting task; while stopping it drains.
EagerDispatch ==
    /\ eagerDisp = "run"
    /\ \E q \in eagerQueue :
        /\ eagerQueue' = eagerQueue \ {q}
        /\ jobs' = jobs \cup {Job(q.task, q.permit)}
    /\ UNCHANGED <<stopVars, slotVars, pollVars, dispVars, eagerDisp, eager, fate, latePolls>>

\* Fault: the eager queue is not drained on stop.
EagerMayExitUndrained == isStop
EagerMayExit == isStop /\ eagerQueue = {}

\* It returns when the worker stops and the queue is empty.
EagerExit ==
    /\ eagerDisp = "run"
    /\ EagerMayExit
    /\ eagerDisp' = "exited"
    /\ UNCHANGED <<stopVars, slotVars, pollVars, dispVars, eagerQueue, eager, jobs, fate,
                   latePolls>>

-----------------------------------------------------------------------------
(***************************************************************************)
(* AggregatedWorker.stop, activityWorker.Stop and baseWorker.Stop.         *)
(***************************************************************************)

\* What stopWG counts.
AllExited ==
    /\ \A p \in Pollers : poller[p].pc = "exited" /\ reserver[p].pc = "none"
    /\ queueClosed
    /\ dispatcher.pc = "exited"
    /\ eagerDisp = "exited"
    /\ jobs = {}

\* Fault of BeginStop: Stop relies on the stop channels alone to end polling.
BeginStopWithoutNoRepoll ==
    /\ stopPc = "run"
    /\ stopPc' = "noRepoll"
    /\ UNCHANGED <<drain, noRepoll, timedOut, fatal, slotVars, pollVars, dispVars, eagerVars,
                   jobs, fate, latePolls>>

\* AggregatedWorker.stop closes noRepoll first.
BeginStop ==
    /\ stopPc = "run"
    /\ stopPc' = "noRepoll"
    /\ noRepoll' = TRUE
    /\ UNCHANGED <<drain, timedOut, fatal, slotVars, pollVars, dispVars, eagerVars, jobs, fate,
                   latePolls>>

\* close(stopC), close(stopCh), limiterContextCancel().
StopStep ==
    /\ \/ stopPc = "noRepoll" /\ stopPc' = "stopC"
       \/ stopPc = "stopC" /\ stopPc' = "stopCh"
       \/ stopPc = "stopCh" /\ stopPc' = "waiting"
    /\ UNCHANGED <<drain, noRepoll, timedOut, fatal, slotVars, pollVars, dispVars, eagerVars, jobs,
                   fate, latePolls>>

\* stopWG is zero.  Fault: it does not count the goroutines that process tasks.
StopWGZeroBarJobs ==
    /\ \A p \in Pollers : poller[p].pc = "exited" /\ reserver[p].pc = "none"
    /\ queueClosed /\ dispatcher.pc = "exited" /\ eagerDisp = "exited"
StopWGZero == AllExited

\* awaitWaitGroup succeeds, or stopTimeout elapses first.
StopReturn ==
    /\ stopPc = "waiting"
    /\ StopWGZero
    /\ stopPc' = "done"
    /\ UNCHANGED <<drain, noRepoll, timedOut, fatal, slotVars, pollVars, dispVars, eagerVars, jobs,
                   fate, latePolls>>

StopTimeout ==
    /\ stopPc = "waiting"
    /\ ~StopWGZero
    /\ stopPc' = "done"
    /\ timedOut' = TRUE
    /\ UNCHANGED <<drain, noRepoll, fatal, slotVars, pollVars, dispVars, eagerVars, jobs, fate,
                   latePolls>>

\* Nothing is left to do: the only state the system may stay in.
Finished ==
    /\ stopPc = "done" /\ AllExited
    /\ \A e \in EagerReqs : eager[e].pc = "done"
    /\ UNCHANGED vars

-----------------------------------------------------------------------------
ReserverStep(p) == ReserverAcquire(p) \/ ReserverCanceled(p)

PollerStep(p) ==
    \/ ReserveOrLeave(p) \/ TakePermit(p) \/ StopWhileReserving(p) \/ PollOrLeave(p)
    \/ Pace(p) \/ SkipPoll(p) \/ OpenPoll(p) \/ PollReturns(p) \/ AbandonPoll(p)
    \/ AbandonSend(p)

DispatcherStep == Dispatch \/ DispatchCanceled \/ DispatcherExit \/ CloseTaskQueue

EagerStep(e) ==
    \/ EagerCheckStop(e) \/ EagerReserve(e) \/ EagerCall(e) \/ EagerAnswer(e)
    \/ EagerReleaseUnused(e) \/ EagerPush(e) \/ EagerDone(e)

Next ==
    \/ \E p \in Pollers :
        \/ PollerStep(p) \/ ReserverStep(p) \/ ReserverError(p)
        \/ PollError(p) \/ PollFatal(p) \/ Handover(p) \/ Discard(p)
    \/ DispatcherStep
    \/ \E j \in jobs : StartJob(j) \/ FinishJob(j)
    \/ \E e \in EagerReqs : EagerStep(e)
    \/ EagerDispatch \/ EagerExit
    \/ BeginStop \/ StopStep \/ StopReturn \/ StopTimeout
    \/ Finished

Spec == Init /\ [][Next]_vars

(***************************************************************************)
(* Fairness.  Goroutines that can run do run; the server bounds a long     *)
(* poll (pollTaskServiceTimeOut) and answers a completion; a task's code   *)
(* returns.  A send on a Go channel is served in order, so a poller that   *)
(* keeps offering a task is not overtaken for ever.  A fatal error leads   *)
(* to Stop (handleFatalError); nothing else obliges a caller to stop the   *)
(* worker, and errors and the stop timeout may happen or not.              *)
(***************************************************************************)
Fairness ==
    /\ \A p \in Pollers :
        /\ WF_vars(PollerStep(p))
        /\ WF_vars(ReserverStep(p))
        /\ SF_vars(Handover(p) \/ Discard(p))
    /\ WF_vars(Dispatch \/ DispatchCanceled)
    /\ WF_vars(DispatcherExit)
    /\ WF_vars(CloseTaskQueue)
    /\ \A s \in Permits : WF_vars(\E j \in jobs : j.permit = s /\ (StartJob(j) \/ FinishJob(j)))
    /\ \A e \in EagerReqs : WF_vars(EagerStep(e))
    /\ WF_vars(EagerDispatch \/ EagerExit)
    /\ WF_vars(BeginStop /\ fatal)
    /\ WF_vars(StopStep)

FairSpec == Spec /\ Fairness

-----------------------------------------------------------------------------
(***************************************************************************)
(* Properties.                                                             *)
(***************************************************************************)

\* Where pointers to permit s are: every local variable that holds it.
Owners(s) ==
    {<<"poller", p>> : p \in {q \in Pollers : poller[q].permit = s}}
    \cup {<<"reserver", p>> : p \in {q \in Pollers : reserver[q].permit = s}}
    \cup {<<"dispatcher", d>> : d \in {x \in {None} : dispatcher.permit = s}}
    \cup {<<"job", j>> : j \in {k \in jobs : k.permit = s}}
    \cup {<<"queue", q>> : q \in {x \in eagerQueue : x.permit = s}}
    \cup {<<"eager", e>> : e \in {x \in EagerReqs : s \in eager[x].permits}}

\* A slot is in the semaphore or has exactly one owner that will release it:
\* none is leaked and none is released twice (the semaphore would panic), on
\* every path through runPoller, pollTask, the dispatchers and the eager code.
SlotsConserved ==
    \A s \in Permits :
        IF s \in free THEN Owners(s) = {} ELSE \E o \in Owners(s) : Owners(s) = {o}

\* usedSlots, which the slot gauges report, only names slots of tasks that are
\* being processed: release clears the mark before the slot is issued again.
UsedMeansProcessing ==
    \A s \in used : \E j \in jobs : j.permit = s /\ j.started

\* "The dispatcher is guaranteed to be alive: in drain mode it only exits after
\* taskQueueCh is closed, which happens after all pollers finish"
\* (pollTask): nobody ever sends on the closed channel, and a draining poller
\* that blocks in its send has a receiver.
SendHasReceiver ==
    \A p \in Pollers :
        /\ poller[p].pc # "exited" => ~queueClosed
        /\ drain /\ poller[p].pc = "send" => dispatcher.pc # "exited"

\* With workerPollCompleteOnShutdown, a task the worker received is given up
\* only after Stop has run out of its timeout.
DrainLosesNothing ==
    drain /\ (\E t \in Tasks : fate[t] = "dropped") => timedOut

\* Once Stop has returned without a timeout no goroutine of the worker is left,
\* now or later, and the only slots out are those of eager requests whose answer
\* is still to come or came too late for runEagerTaskDispatcher.
StopIsFinal ==
    stopPc = "done" /\ ~timedOut =>
        /\ AllExited
        /\ \A s \in Permits \ free :
            \/ \E e \in EagerReqs : s \in eager[e].permits
            \/ \E q \in eagerQueue : q.permit = s /\ fate[q.task] = "stranded"

\* Once Stop has begun, or a fatal error is recorded, a poller opens at most
\* the one poll it had already decided on.  "a poll can complete naturally
\* right after stopC fires but before ShutdownWorker is sent, causing the poller
\* to loop and re-poll" is the race that noRepoll closes.
AtMostOneLatePoll ==
    \A p \in Pollers : latePolls[p] <= 1

\* Stop, and a fatal poll error that leads to it, ends every goroutine of the
\* worker: pollers blocked in a reservation, a poll or a send, reservations
\* nobody waits for, both dispatchers and the closer of the channel.
StopTerminates ==
    (stopPc # "run" \/ fatal) ~> AllExited

\* Every task the worker received is executed or given up; only an eager task
\* that came after the eager dispatcher left stays in its channel.
ReceivedTasksSettle ==
    \A t \in Tasks :
        fate[t] = "received" ~> fate[t] \in {"done", "dropped", "stranded"}
=============================================================================
