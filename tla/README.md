# TLA+ models of the Temporal Go SDK

TLA+ modules for the parts of the SDK where several goroutines, the server and the
workflow's code meet, the TLC runs that check them on small instances, and TLAPS proofs
for every value of the constants. `PROJECT.json` lists components, runs, theorems,
hazards, findings, and the source lines each definition translates.

## The system

| Part | State | Operations | What makes it hard |
|---|---|---|---|
| Base worker (`internal_worker_base.go`) | pollers, reservations, `taskQueueCh`, `eagerTaskQueueCh`, stop channels, wait groups | `runPoller`, `reserveSlotAsync`, `pollTask`, both dispatchers, `processTaskAsync`, `Stop` | goroutines that have to come home in any order, drain mode, a stop timeout |
| Slot supplier (`tuning.go`) | semaphore, `issuedSlotsAtomic`, `usedSlots`, gauges | `ReserveSlot`, `TryReserveSlot`, `MarkSlotUsed`, `ReleaseSlot`, `publishMetrics` | three counts changed one after the other, gauges set outside the lock |
| Eager activities (`internal_eager_activity.go`) | `heldSlotCount` | `applyToRequest`, `handleResponse`, release callback | slots held across an RPC while the worker stops |
| Command state machines (`internal_command_state_machine.go`, `internal_event_handlers.go`) | `orderedCommands`, machine states, predicted event IDs, ID maps | calls, cancellations, one handler per event, `getCommands` | cancellation racing completion, replay after a lost task |
| Workflow task handler, sticky cache (`internal_task_handlers.go`, `internal_worker_cache.go`) | cached contexts and their locks, history position | `ProcessWorkflowTask`, `ResetIfStale`, completion, eviction | stale contexts, lost answers, evictions under a lock |
| Coroutines, channels, selectors (`internal_workflow.go`) | coroutine list, blocked senders and receivers | send, receive, select, `ExecuteUntilAllBlocked` | callbacks left in several channels, wakeups within a round |
| Local activities (`internal_task_pollers.go`, `internal_task_handlers.go`) | tunnel, pending activities, retry timers | send, poll, execute, retry, heartbeat | timers and retries racing the end of a task |
| Autoscaling workflow pollers (`internal_workflow_autoscaling_balancer.go`, `internal_poller_groups.go`) | targets, groups, leases, waiters | `waitForPollTurn`, `acquire`, `releaseReservation`, target callbacks | two queue kinds waiting for each other, groups that come back |
| Activity tasks (`internal_task_handlers.go`, `internal_task_pollers.go`) | batching window, buffered details, contexts with causes | `Execute`, `Heartbeat`, `Close`, the answer | a goroutine per window, cancellations from five sides |
| Sessions (`session.go`) | token bucket, `doneChanMap`, the workflow's view | creation and completion activities, `waitForAvailableToken`, `close` | a token per session through every way it ends, a parked poller |
| Updates, worker heartbeats | see `PROJECT.json` | | |
| Clients, interceptors, converters, test environment, contrib | little or none | | not protocols |

A worker polls the server under a slot, gives the task to a dispatcher, and processes it.
Processing a workflow task takes a cached or a new context, applies history events to the
command state machines, runs the code in coroutines until all are blocked, waits for local
activities, and sends the commands back; the completion may bring eager activities, which
use slots of the activity worker.

## Modules

`BaseWorker` is one base worker. Every goroutine is a record with a program counter and
the permit and task in its local variables; an action is what the goroutine does between
two points where another can interfere. `stopPc` is the shutdown's position (`noRepoll`,
`stopC`, `stopCh`, limiter context, task limiter context); `drain` is
`workerPollCompleteOnShutdown`, fixed at start. `fate` and `latePolls` are history
variables. A reservation or a release is one step here.

`SlotSupplier` looks inside those steps: each atomic operation, critical section and gauge
update of `trackingSlotSupplier` over the fixed-size supplier, and `countLock` of the eager
executor. A thread has one permit at a time.

`Commands` is `commandsHelper` as a record and its methods as operators on it. A machine's
handler is a function from the states it accepts; any other state is a panic. Events of a
task are applied, then the code makes calls and cancels contexts, then the task completes
or is lost; a lost task continues from the helper of the last completed one, which is what
replay of deterministic code rebuilds. The server is external: it turns commands into
events, holds events back while a task is in flight, and refuses commands for things the
worker knows are closed.

`Coroutines` is one workflow's dispatcher. `order` is its list of coroutines, `ExecuteUntilAllBlocked`
walks along it, and a coroutine called by it does one operation of workflow code: a send,
receive, select, lock, close or spawn, chosen freely. A channel is a record of buffer, blocked
receivers and blocked senders; a selector's callbacks stay in the channels of its branches, with
the Select they belong to. A selector with a default branch stores a value it is told of in the
channel's `recValue` at once, since the default branch may block first. `AbstractChannels` is a queue of values per channel with room for
what blocked senders hold; `ChannelsImplementQueues` maps the detailed channels to it.

`WorkflowTasks` has one run on the server, its history as a sequence of events, and processors
that handle its tasks and queries over one sticky cache. A processor is a program counter with
the task and the context it took; contexts have a lock, a history position and the events they
applied, which stands for the state that code and command machines build from them. Faults are
timeouts, lost or refused answers, completions on another host, failing code, evictions; they and
signals, updates and queries share one bound, `MaxEvents`.

`LocalActivities` has the workflow tasks of a few runs, the tunnel (`queue`, `ready`), pollers,
slots, retry timers, and the stop of the two workers one after the other. A poll that is open when
the stop begins may still bring a task: a worker that drains processes it. `StopLocalActivities` is the
return of the workflow worker's `Stop`: `awaitWaitGroup` succeeds only when no poll and no task of the
worker is left, may give up at any time, and `timedOut` is its answer.

`Autoscaling` has the manager goroutines of the sticky and the normal queue, the balancer (`bal`),
the group store, targets with their callbacks, the shared slots and a few polls. A manager
looks at the balancer under its lock in one step, and waits with the wakeup channel it saw.

`Activities` has the activity tasks of one worker: `Execute`, the `temporalInvoker` with the goroutine
of each batching window, and the answer. The n-th heartbeat has details n. `ctx` is the cause of the
task's context and the error of the activity's context below it. `Sessions` extends it: some tasks are
attempts of session creation activities, with the token bucket, the creation poller that waits for a
token, the workflow's view of a session, and the stop of the worker.

`MC*` modules give instances; the `.cfg` files give the constants. Operators marked
*Fault* are wrong variants of the definition after them, used to confirm that the
properties notice such a mistake; no specification uses them.

## Runs

| Run | Instance | Distinct states | Shows |
|---|---|---|---|
| `worker` | 1 poller, 2 slots, 1 polled and 1 eager task, 1 completion | 323,326 | slots conserved, used marks correct, no send without receiver, draining loses nothing before the timeout, a clean stop leaves nothing running, at most one late poll per poller; a stop or fatal error ends every goroutine and received tasks settle |
| `slot_accounting` | 3 threads, 2 slots, 1 eager permit, 3 table changes | 162,689 | counts agree, eager limit kept, gauges converge |
| `commands` | 1 each of activity, timer, child, external, marker; 2 Nexus operations; 2 calls, 3 tasks | 1,630,731 | no illegal transition, no refused command, IDs predicted, each operation keeps its event, futures settle, cancellations reach the server |
| `nexus_cancel_unsent_mapping` | 2 Nexus operations | violated | first finding |
| `coroutines` | 3 coroutines, 3 channels (unbuffered, one place, signals), 1 future, 4 selectors, 1 update; 4 operations, 2 sends | 1,431,997 | channels implement queues, nothing sent is lost, a round ends only when nobody can go on, updates run first |
| `selector_default` | 2 coroutines, 2 selectors, 2 sends | violated | third finding |
| `selector_close` | 2 coroutines, 1 selector | violated | second finding |
| `workflow_tasks` | 2 processors, 4 contexts; 3 events around the tasks | 762,707 | a completing context has applied exactly the history; queries see an accepted state; no context leaks; every task is answered |
| `local_activities` | 1 run, 2 activities, 2 pollers, 2 slots; 2 attempts, 2 tasks, 2 events | 765,510 | the tunnel wakes its pollers, a pending activity is in one place, also while the workers stop, tasks end, slots return and a stop ends every goroutine |
| `sessions` | 1 activity with 3 heartbeats; 2 recreated sessions on 1 token; 2 attempts of 1 session | 314,220 | progress is kept, an answer "canceled" was asked for, tokens are kept, the poller is woken, unwanted sessions end |
| `autoscaling` | 1 group that goes and comes back, 2 slots, 2 polls, targets 1 to 2, backlogs 0 and 2 | 2,500,323 | counts are the leases, no lost wakeup, the balancer's target follows |
| `autoscaling_live` | the same, the group goes, backlog 2 | 465,028 | both kinds keep polling |

Bounds. Two slots let a poller poll and send while its last task is still with
the dispatcher, and let eager requests take the slots it needs; the safety of more pollers is proved.
Three threads let a slot change hands while a third publishes. Two
calls and three tasks let every pair of kinds meet, with a call made, canceled, closed and
one task lost; Nexus operations are paired with each other, since it is their list that can mix them
up. Three heartbeats let one be sent, one wait, and one come while a goroutine reports; two sessions on
one token make one of them wait. Three coroutines let one block, one meet it, and a third come between. Two
processors let one wait for the context another destroys; three events are, for example, an update
whose task is dropped, a signal after it and an eviction between, or a fault, an eviction and a query; and
with four contexts one is left to create when the others are cached, in use or on their way out. Two attempts and two tasks let a retry meet the
next task, two pollers share one notification. `MaxVersion`, `MaxTasks`, `MaxOps`,
`MaxSends`, `MaxEvents`, `MaxBeats` and the
sets `Polls`, `Workloads` and `Disturbed` bound the exploration only. Symmetry is used for safety runs only. `CHECK_DEADLOCK FALSE` is set where
the system may stop: code that has finished or is blocked, no more requests.

Fairness. Goroutines that can run do run (weak fairness). In `BaseWorker!FairSpec` a long
poll ends because its gRPC call has a timeout; a completion is answered for the same
reason; task code is assumed to return. Senders on a Go channel are served in order, hence
strong fairness of a poller's rendezvous. A fatal error leads to `Stop`
(`handleFatalError`). Nothing obliges a caller to stop, an error to happen, or the stop
timeout to elapse. In `WorkflowTasks!FairSpec` some goroutine that can run does (processor, poller or
eviction, with no fairness between them) and the server times
out a task that is not answered. In `LocalActivities!FairSpec` an execution ends (it has a
timeout), the heartbeat timer of a task fires, and so does the timer of a retry. In `Autoscaling!FairSpec` polls end, tasks are processed,
and a custom supplier does not fail for ever. In `Sessions!FairSpec` the activity's code and handler
run, its ticker ticks, and the heartbeats of an unwanted session do not all fail on their way; the slots' semaphore serves waiters in order.

## Findings

1. `nexus_cancel_unsent_mapping`: a Nexus operation whose context is canceled in the task that
   starts it. `nexusOperationStateMachine.cancel` leaves the operation `Created`, and
   `requestCancelNexusOperation` looks for `CanceledBeforeSent`. The operation stays in
   `nexusOperationsWithoutScheduledID` and takes the scheduled event of the next operation,
   which the comment at that place says must not happen. The operation and its cancel have
   also advanced the predicted event ID and send nothing, so an activity called later in the
   task has the wrong schedule ID. `TestCancelNexusOperation` in `test/replaytests` replays this
   cancellation, but nothing that needs an event ID follows it there. The passing run
   excludes the case with `CancelUnsentNexus = FALSE`.
2. `selector_close`: the comment on `AddReceive` says that the branch is removed once its channel
   is closed and its callback was called with more = false. A Select that was blocked when the
   channel was closed keeps the branch; the next Select calls it again. The `coroutines` run sets
   `CloseUnderSelect = FALSE`, so that no channel is closed under a waiting selector.
3. `selector_default`: two coroutines wait for signals in a selector with a default branch, and the
   default branches block. Each is told of a signal and stores the value in the channel's `recValue`
   (`internal_workflow.go:1484`), of which there is one: the second replaces the first, which nobody
   receives. The comment there says that the value is stored early "to prevent signal loss when
   AddDefault blocks", and `Test_SignalNotLost` and `TestSelectBlockingDefaultWithDefaultFlags` test it with one selector.
   Any selector or receiver that waits for the channel beside such a selector can lose a value in this way, and
   is also not woken when the stored value could be received by it (`NoLostWakeup` fails
   as well). The `coroutines` run has the selector whose default branch blocks, and sets
   `ShareDefault = FALSE`: nobody else waits for the channel at that time. Under this restriction
   `SentIsNotLost`, `NoLostWakeup` and `ChannelsImplementQueues` hold.

Also seen, and left as they are:

- Commands: when one batch holds the workflow's cancellation and then the completion of a Nexus
  operation, the cancel command stays queued and is sent for a closed operation; timers and
  activities have `removeCancelOfResolvedCommand` for this. Whether the server refuses it is
  outside the repository, so the run puts Nexus operations on disconnected contexts.
- Channels: `Close` says that all blocked sends are going to panic, but a receive that makes room
  in the buffer accepts one before it sees the close. A selector with a receive and a send on
  the same channel can meet itself; the instances keep a selector's branches on different channels.
- Tasks: a context is in the cache before its creator has locked it. A sticky query that locks it first
  finds no event applied and fails; the context is discarded. A completion that cannot be encoded
  is recorded as failed while the context stays cached, and a sticky query already under way can
  see its state. `QueriesSeeHistory` says exactly what is left.
- Local activities: if the server answers a heartbeat without a new task (`HeartbeatReturns` with
  `FALSE`), a cached context can keep a pending activity whose result was dropped, and
  `InOnePlace` does not hold; the run and the theorem take the answer to bring a task. The type
  assertion on `workflowTaskHeartbeatError` (`internal_task_pollers.go:637`) never matches, since
  the handler returns a pointer; the task is then answered as failed instead.
- Activities: the race in the TODO at `internal_task_handlers.go:2235` is there; older details can also
  overwrite newer ones that wait in the next window. `ProgressIsKept` exempts an activity that reported
  while a goroutine had details in hand. Details in a goroutine's hand when a failing activity closes
  are not flushed, and its call fails under the canceled context. A visitor error found by `Close`'s flush
  or by a window's goroutine after the activity returned, or followed by a panic, is answered twice although
  the comment on `heartbeatVisitorError` says the second answer is skipped.
- Autoscaling: `hasCoverageGap` is computed before `acquire` and may be stale there, so a kind can
  exceed its target for a moment when groups vanish in between.

## Proofs

All safety invariants that the runs check of `BaseWorker`, `SlotSupplier`, `LocalActivities`,
`Autoscaling`, `Activities` and `Sessions`, and `NoContextLeaks` of `WorkflowTasks`, are proved for every
value of the constants, from the named assumption of each module. The assumptions are about constants only: sets are finite where
the code counts them, bounds are natural numbers, and `None` is none of the values it stands beside
(in `Autoscaling` also no lease, so that "no lease" can be told from a lease).

`BaseWorkerProofs`: `Hands` (types, and who holds a permit or task at each program
counter) is inductive and gives `TypeOK`. `Shutdown` relates `stopPc`, the dispatchers,
the closed channel and the fates of tasks: with it `SendHasReceiver` and
`DrainLosesNothing`. `LateInv` says that `noRepoll` is set once the
worker is to stop, and that a poller that opened a late poll is not past that test again:
with it `AtMostOneLatePoll`. `UsedMeansProcessing` is inductive over `Hands`; only two actions
touch used marks or goroutines, all others are `UsedStays`. `EagerTasksInv` says that an eager activity
is in one place and that what is in the channel after its dispatcher left came too late for it.

`BaseWorkerSlotProofs`: `SlotsConserved` counts owners, which is not a form the provers
handle; it is split into `Apart` (no two holders share a permit, none holds a free one)
and `Covered` (a permit that is not free has a holder), with `Idle` (a reservation exists
only while its poller awaits it or has left) for the receive. Each way a permit moves
(acquire, take, hand over, dispatch, start, finish, and those of eager requests) has a lemma of its own;
`SlotStep` assigns every action one of them, or `SlotsStay`. `StopIsFinal`
follows from `Hands`, `Shutdown`, `Covered` and `EagerTasksInv`.

`SlotSupplierProofs`: `Shape` (types, and who holds `countLock`) supports `CountsAgree`;
`LimitInv` adds that the lock's holder has room; `GaugeInv` says that while the gauges are
stale some thread is publishing and will notice the version.

`LocalActivitiesProofs`: `Shape` has the types and `SlotInv` (a slot, its poller and the item in it
fit together); with it `TunnelWakes`. `Graceful` says that the local activity worker stops before the
timeout only when every poll and task of the workflow worker has ended, so that what its stop discards is
nobody's. `InOnePlace` counts
places, so the inductive form is a set of facts without counting: places are apart (`Apart`), numbers of attempts
and tasks are fresh (`Fresh`), what is unsent is nowhere else (`Unsent`), and what was sent is held
somewhere (`Held`); `PlacesCount` turns it into the count. It assumes that heartbeats are answered with a
task (`HeartbeatReturns \subseteq {TRUE}`).

`WorkflowTasksProofs`: `NoContextLeaks` alone is not inductive, since a context that is dropped may be one that
somebody still works on. `Inv` adds who may touch a context: the one that processes it has its lock, and nobody
destroys it meanwhile (`LockedAt`); the one that created it has it alone until it is put into the cache, or to the
end for a query (`PrivateAt`); and one marked as cached is in the cache or on its way out (`CachedAt`), so that the
answer to a task knows whether it must destroy the context itself. A step is of one of eight kinds (`Works`,
`Looks`, `Locks`, `Forgets`, `Leaves`, `Creates`, `Puts`, `Destroys`), each with a lemma that it keeps `Inv`. Of the
events a context has applied only whether there are any is used. `AlwaysProcessedByOne` is what the lock is for.

`AutoscalingProofs`: `Typing`; `TargetInv` says that callbacks belong to the sticky queue, at most one
is between load and store, and a target that the balancer has not got is about to be brought. `NoLostWakeup`
needs, for each kind, that a manager's snapshot is current or its channel is closed (`TurnInv`, `CapacityInv`);
`SyncSame` and `SyncTwice` say that a second look at the group store changes nothing, `CoverSync` and
`CoverStep` that another kind's leases never open a coverage gap for this one.

`AutoscalingLeaseProofs`: `CountsAreLeases` compares counters with numbers of leases in managers and polls.
`HoldersOK` says at which program counters there is a lease, `QueueOK` that a manager is in the semaphore's queue
at most once and with its lease. `KeysOK` is the point: no lease has a key later than the store's, and one under
the store's key of its group is one the balancer counts for that group; hence a group that comes back starts
with no lease under its new key, and 0 is the right count. `CountsOK` is the equality itself, with the
finiteness of the sets counted. Most actions are `Calm` (no lease moves); acquire, failure, start and release
each change one count and one set by one (`Counted`, `Recount`).

`SessionsProofs`, about `Activities` and `Sessions`: a step is one of a few kinds (`StepKinds`), which gives
`Typing`. `Asked` adds to `CanceledOnlyIfAsked` that the context has that cause only if it was asked. `Progress`
strengthens `ProgressIsKept`: until the task has raced with a window's goroutine, the goroutines and the invoker
agree on which window is open (`Agree`), and at most one goroutine has details in hand. `Tokens` says that
the tokens in the bucket and those with tasks add up to its size, which gives `TokensAreKept`, and on top of it
`PollerWakes`.

A leaf names its backend and time limit (`SMTT`, `ZenonT`) where the default limit is close,
so that the proofs also pass on a busy machine.

Only model-checked:

- liveness, which is out of the prover's reach;
- `Commands`: events, cancellations and commands are applied with folds over sequences, and what a fold computes
  needs induction over data;
- `StateIsHistory` and `QueriesSeeHistory` of `WorkflowTasks`: they compare filtered and concatenated parts of the
  history, which needs the same induction;
- `Coroutines` and its refinement of `AbstractChannels`: its lists are cut and concatenated, and
  closing a channel or completing blocked sends folds over them.

## Not modelled

See the components in `PROJECT.json`. Within the modelled parts:

- base worker: the `ShutdownWorker` call and plugins; custom slot
  suppliers beyond a reservation that fails; the panic of `handleResponse` on more eager
  activities than were requested (the server is taken to keep to the request);
- commands: version markers (which count two event IDs), updates and local activity markers;
- coroutines: corrupt signals, chained futures, `Await` with cancellation, semaphores, wait groups,
  deadlock detection; a receive callback is taken to consume its value, and the SDK flags of new
  workflows to be on; the messages an update sends;
- workflow tasks: one run and one worker with a cache; the pages of a history are fetched in
  one step; a completed task has one command; messages between events;
- local activities: `ResetHistoryEventId` on heartbeat answers (the code does not apply it either), the
  activity's own heartbeats;
- activities and sessions: completion by ID, the throttle interval as a time, sessions on several
  workers, the user's activities of a session; the slot a poller reserves before it waits for a token
  is in `BaseWorker`;
- autoscaling: the managers' shutdown, `pollerGroupManager` (groups of activity and Nexus pollers),
  the session token, the weights of the random choice of a group; with several groups
  `EveryGroupIsPolled` would also need that choice to be fair.

Most of the repository's lines are outside: clients, converters, contributed integrations, the
test environment and generated-like request building hold no protocol that a state machine would show.

## Plan

1. Version markers and update messages in `Commands`.
2. Several pages of history and messages between events in `WorkflowTasks`.
3. Proofs: the channels' refinement, the machine invariants of `Commands`.
