------------------------ MODULE LocalActivitiesProofs ------------------------
(***************************************************************************)
(* Proofs about LocalActivities, for every number of runs, activities,     *)
(* pollers, slots, attempts, tasks and failures.                           *)
(*                                                                         *)
(* Shape is who is where with what; TunnelWakes is inductive on top of it. *)
(* InOnePlace counts places, which is not a form the provers handle: Apart *)
(* (no item is in two places) and Held (a task that waits has exactly its  *)
(* pending activities in places) say the same without counting, until the  *)
(* local activity worker stops, and need Fresh, that no item is of a later *)
(* generation than its run's task.  Graceful has the rest: a stop that did *)
(* not time out finds no task that waits.                                  *)
(***************************************************************************)
EXTENDS LocalActivities, TLAPS

Items == [act : Acts, gen : Nat]
TaskPcs == {"idle", "polling", "code", "send", "notifySend", "notifyRetry", "wait",
            "heartbeat", "respond", "closing"}
PollerPcs == {"reserve", "get", "wait", "notify", "dispatch", "left"}
ExecPcs == {"free", "reserved", "polled", "running", "result"}
Statuses == {"uncalled", "pending", "backoff", "resolved"}
Activities(statuses) == [Acts -> [status : statuses, attempt : Nat, canceled : BOOLEAN]]

PollersOK == poller \in [Pollers -> [pc : PollerPcs, slot : Slots \cup {None}]]
TasksOK == wft \in [Runs -> [pc : TaskPcs, gen : Nat, unstarted : SUBSET Acts, closed : BOOLEAN]]
SlotsOK == exec \in [Slots -> [pc : ExecPcs, item : Items \cup {None},
                               result : {"ok", "failed", "canceled", None}]]
ItemsOK == queue \in Seq(Items) /\ timers \subseteq Items
ActsOK == act \in Activities(Statuses) /\ saved \in Activities(Statuses \ {"pending"})
Typing == PollersOK /\ TasksOK /\ SlotsOK /\ ItemsOK /\ ActsOK
          /\ stop \in {"no", "stopping", "la"}

\* A poller between its reservation and its dispatch has a slot of its own.
Asking(p) == poller[p].pc \in {"get", "wait"}
Carrying(p) == poller[p].pc \in {"notify", "dispatch"}
SlotInv ==
    /\ \A p \in Pollers : Asking(p) \/ Carrying(p) =>
          /\ poller[p].slot \in Slots /\ exec[poller[p].slot].pc = "reserved"
          /\ Asking(p) <=> exec[poller[p].slot].item = None
    /\ \A p, q \in Pollers :
          (Asking(p) \/ Carrying(p)) /\ (Asking(q) \/ Carrying(q))
              /\ poller[p].slot = poller[q].slot => p = q
    /\ \A s \in Slots : /\ exec[s].pc = "free" => exec[s].item = None
                        /\ exec[s].pc \in {"polled", "running", "result"} => exec[s].item # None

Shape == Typing /\ SlotInv

-----------------------------------------------------------------------------
USE DEF TaskPcs, PollerPcs, ExecPcs, Statuses, Activities

\* newLocalActivityTunnel and the workers start with empty hands.
LEMMA ShapeInit == Init => Shape
<1>. SUFFICES ASSUME Init PROVE Shape
  OBVIOUS
<1>1. PollersOK /\ TasksOK
  BY DEF Init, PollersOK, TasksOK
<1>2. SlotsOK /\ ItemsOK /\ ActsOK
  BY DEF Init, SlotsOK, ItemsOK, ActsOK
<1>3. SlotInv
  BY DEF Init, SlotInv, Asking, Carrying
<1>. QED BY <1>1, <1>2, <1>3 DEF Shape, Typing, Init

\* None stands for no item.
LEMMA NoneIsNoItem == None \notin Items
  BY LocalActivitiesAssumption DEF Items

\* An item names an activity and the generation of its run.
LEMMA ItemType == ASSUME TasksOK, NEW r \in Runs, NEW a \in Acts PROVE Item(a, r) \in Items
  BY DEF TasksOK, Item, Items

\* Every step keeps the program counters of the tasks.
LEMMA TasksStep == Shape /\ [Next]_vars => TasksOK'
<1>. SUFFICES ASSUME Shape, [Next]_vars PROVE TasksOK'
  OBVIOUS
<1>. USE DEF Shape, Typing, TasksOK, At, Goto, GotoWith
<1>1. ASSUME NEW r \in Runs, OpenPoll(r) \/ PollTask(r) PROVE TasksOK'
  <2>1. CASE OpenPoll(r)
    BY <2>1 DEF OpenPoll
  <2>2. CASE PollTask(r) /\ Goto(r, "idle")
    BY <2>2
  <2>3. CASE PollTask(r) /\ ~Goto(r, "idle")
    <3>1. wft' = [wft EXCEPT ![r] = [pc |-> "code", gen |-> wft[r].gen + 1,
                                     unstarted |-> wft[r].unstarted, closed |-> FALSE]]
      BY Zenon, <2>3 DEF PollTask
    <3>. QED BY <3>1
  <2>. QED BY <1>1, <2>1, <2>2, <2>3
<1>2. ASSUME NEW r \in Runs, Code(r) PROVE TasksOK'
  <2>1. PICK calls \in SUBSET ActsOf(r), completes \in BOOLEAN :
          GotoWith(r, IF completes THEN "respond" ELSE "send", wft[r].unstarted \cup calls,
                   completes)
    BY Zenon, <1>2 DEF Code
  <2>2. wft[r].unstarted \cup calls \in SUBSET Acts
    BY DEF ActsOf
  <2>. QED BY <2>1, <2>2
<1>3. ASSUME NEW r \in Runs, Send(r) \/ Notify(r) PROVE TasksOK'
  BY <1>3 DEF Send, Notify
<1>4. ASSUME NEW r \in Runs, HeartbeatAnswered(r) \/ Respond(r) PROVE TasksOK'
  BY <1>4 DEF HeartbeatAnswered, Respond
<1>5. ASSUME NEW r \in Runs, Heartbeat(r) \/ CallFails(r) \/ CloseDone(r) PROVE TasksOK'
  <2>1. CASE Heartbeat(r) \/ CloseDone(r)
    BY <2>1 DEF Heartbeat, CloseDone
  <2>2. CASE CallFails(r)
    BY <2>2 DEF CallFails
  <2>. QED BY <1>5, <2>1, <2>2
<1>6. ASSUME NEW r \in Runs, NEW i \in timers, Retry(r, i) PROVE TasksOK'
  BY <1>6 DEF Retry
<1>7. ASSUME NEW r \in Runs, NEW s \in Slots, Result(r, s) PROVE TasksOK'
  BY <1>7 DEF Result
<1>8. ASSUME NEW p \in Pollers, Poller(p) PROVE TasksOK'
  BY <1>8 DEF Poller, Reserve, GetTask, WakeUp, PollerNotifies, Dispatch, PollerStops
<1>9. ASSUME NEW s \in Slots, Executor(s) PROVE TasksOK'
  BY <1>9 DEF Executor, Execute, Return, DropResult
<1>10. ASSUME NEW i \in timers, RetryAborted(i) PROVE TasksOK'
  BY <1>10 DEF RetryAborted
<1>11. CASE StopWorkflowWorker \/ StopLocalActivities \/ UNCHANGED vars
  BY Zenon, <1>11 DEF StopWorkflowWorker, StopLocalActivities, vars
<1>. QED
  BY <1>1, <1>2, <1>3, <1>4, <1>5, <1>6, <1>7, <1>8, <1>9, <1>10, <1>11 DEF Next, Task

\* A step of a task, or of a run's timers, leaves the pollers alone.
LEMMA PollersKept ==
  ASSUME NEW r \in Runs,
         \/ OpenPoll(r) \/ PollTask(r) \/ Task(r) \/ Heartbeat(r) \/ CallFails(r)
         \/ \E i \in timers : RetryAborted(i)
         \/ \E s \in Slots : Executor(s)
  PROVE  UNCHANGED <<poller, stop>>
  BY Zenon DEF OpenPoll, PollTask, Task, Heartbeat, CallFails, RetryAborted, Code, Send, Notify,
         HeartbeatAnswered, Respond, CloseDone, Retry, Result, Executor, Execute, Return,
         DropResult

\* Every step keeps the program counters of the pollers.
LEMMA PollersStep == Shape /\ [Next]_vars => PollersOK' /\ stop' \in {"no", "stopping", "la"}
<1>. SUFFICES ASSUME Shape, [Next]_vars
             PROVE  PollersOK' /\ stop' \in {"no", "stopping", "la"}
  OBVIOUS
<1>. USE DEF Shape, Typing, PollersOK
<1>1. ASSUME NEW p \in Pollers, Poller(p) PROVE PollersOK' /\ UNCHANGED stop
  <2>1. ASSUME NEW s \in Slots, Reserve(p, s) PROVE PollersOK' /\ UNCHANGED stop
    BY <2>1 DEF Reserve
  <2>2. CASE GetTask(p)
    BY <2>2 DEF GetTask
  <2>3. CASE WakeUp(p) \/ PollerNotifies(p) \/ Dispatch(p) \/ PollerStops(p)
    BY <2>3 DEF WakeUp, PollerNotifies, Dispatch, PollerStops, Leaves
  <2>. QED BY <1>1, <2>1, <2>2, <2>3 DEF Poller
<1>2. CASE StopWorkflowWorker \/ StopLocalActivities \/ UNCHANGED vars
  BY Zenon, <1>2 DEF StopWorkflowWorker, StopLocalActivities, vars
<1>3. CASE \E i \in timers : RetryAborted(i)
  BY <1>3 DEF RetryAborted
<1>4. CASE \E s \in Slots : Executor(s)
  BY <1>4 DEF Executor, Execute, Return, DropResult
<1>5. ASSUME NEW r \in Runs,
             OpenPoll(r) \/ PollTask(r) \/ Task(r) \/ Heartbeat(r) \/ CallFails(r)
      PROVE  UNCHANGED <<poller, stop>>
  BY <1>5, PollersKept
<1>. QED BY <1>1, <1>2, <1>3, <1>4, <1>5 DEF Next

\* Every step keeps what slots and the tunnel hold.
LEMMA SlotsStep == Shape /\ [Next]_vars => SlotsOK' /\ ItemsOK'
<1>. SUFFICES ASSUME Shape, [Next]_vars PROVE SlotsOK' /\ ItemsOK'
  OBVIOUS
<1>. USE DEF Shape, Typing, SlotsOK, ItemsOK, Free, Goes
<1>1. ASSUME NEW r \in Runs, Send(r) PROVE SlotsOK' /\ ItemsOK'
  <2>1. ASSUME NEW a \in wft[r].unstarted PROVE Append(queue, Item(a, r)) \in Seq(Items)
    BY <2>1, ItemType DEF TasksOK
  <2>. QED BY Zenon, <1>1, <2>1 DEF Send, sendTask
<1>2. ASSUME NEW r \in Runs, NEW i \in timers, Retry(r, i) PROVE SlotsOK' /\ ItemsOK'
  BY <1>2 DEF Retry, sendTask
<1>3. ASSUME NEW r \in Runs, NEW s \in Slots, Result(r, s) PROVE SlotsOK' /\ ItemsOK'
  <2>1. exec[s].item \in Items
    BY <1>3 DEF Result, SlotInv
  <2>. QED BY <1>3, <2>1 DEF Result
<1>4. ASSUME NEW r \in Runs,
             \/ OpenPoll(r) \/ PollTask(r) \/ Heartbeat(r) \/ CallFails(r) \/ Code(r) \/ Notify(r)
             \/ HeartbeatAnswered(r) \/ Respond(r) \/ CloseDone(r)
      PROVE  UNCHANGED <<queue, exec, timers>>
  BY Zenon, <1>4
     DEF OpenPoll, PollTask, Heartbeat, CallFails, Code, Notify, HeartbeatAnswered, Respond, CloseDone
<1>5. ASSUME NEW p \in Pollers, NEW s \in Slots, Reserve(p, s) PROVE SlotsOK' /\ ItemsOK'
  BY Zenon, <1>5 DEF Reserve
<1>6. ASSUME NEW p \in Pollers, GetTask(p) PROVE SlotsOK' /\ ItemsOK'
  <2>1. CASE queue = <<>>
    BY <1>6, <2>1 DEF GetTask
  <2>2. CASE queue # <<>>
    <3>1. Head(queue) \in Items /\ Tail(queue) \in Seq(Items)
      BY <2>2
    <3>2. exec' = [exec EXCEPT ![poller[p].slot].item = Head(queue)]
      BY Zenon, <1>6, <2>2 DEF GetTask
    <3>3. SlotsOK'
      BY Zenon, <3>1, <3>2
    <3>. QED BY Zenon, <1>6, <2>2, <3>1, <3>3 DEF GetTask
  <2>. QED BY <2>1, <2>2
<1>7. ASSUME NEW p \in Pollers, WakeUp(p) \/ PollerNotifies(p) \/ Dispatch(p)
      PROVE  SlotsOK' /\ ItemsOK'
  BY ZenonT(40), <1>7 DEF WakeUp, PollerNotifies, Dispatch
<1>8. ASSUME NEW p \in Pollers, PollerStops(p) PROVE SlotsOK' /\ ItemsOK'
  <2>1. CASE poller[p].pc \in {"get", "wait"}
    <3>1. queue' = <<>> /\ UNCHANGED timers /\ Free(poller[p].slot)
      BY <1>8, <2>1 DEF PollerStops, clearTasks
    <3>2. poller[p].slot \in Slots
      BY <2>1 DEF SlotInv, Asking
    <3>3. SlotsOK'
      BY <3>1, <3>2
    <3>. QED BY <3>1, <3>3
  <2>2. CASE poller[p].pc = "reserve"
    BY <1>8, <2>2 DEF PollerStops
  <2>. QED BY <1>8, <2>1, <2>2 DEF PollerStops
<1>9. ASSUME NEW s \in Slots, Executor(s) PROVE SlotsOK' /\ ItemsOK'
  BY <1>9 DEF Executor, Execute, Return, DropResult
<1>10. CASE \E i \in timers : RetryAborted(i)
  BY <1>10 DEF RetryAborted
<1>11. CASE StopWorkflowWorker \/ StopLocalActivities \/ UNCHANGED vars
  BY Zenon, <1>11 DEF StopWorkflowWorker, StopLocalActivities, vars
<1>. QED
  BY <1>1, <1>2, <1>3, <1>4, <1>5, <1>6, <1>7, <1>8, <1>9, <1>10, <1>11 DEF Next, Task, Poller

\* Every step keeps what is known and recorded of activities.
LEMMA ActsStep == Shape /\ [Next]_vars => ActsOK'
<1>. SUFFICES ASSUME Shape, [Next]_vars PROVE ActsOK'
  OBVIOUS
<1>. USE DEF Shape, Typing, ActsOK
<1>1. ASSUME NEW r \in Runs, Code(r) PROVE ActsOK'
  <2>1. PICK calls \in SUBSET {a \in ActsOf(r) : act[a].status \in {"uncalled", "backoff"}},
             cancels \in SUBSET Pending(r) :
          act' = [a \in Acts |->
                     IF a \in calls
                     THEN [status |-> "pending", attempt |-> act[a].attempt + 1,
                           canceled |-> FALSE]
                     ELSE [act[a] EXCEPT !.canceled = @ \/ a \in cancels]]
    BY Zenon, <1>1 DEF Code
  <2>2. ASSUME NEW a \in Acts
        PROVE  act'[a] \in [status : Statuses, attempt : Nat, canceled : BOOLEAN]
    <3>1. CASE a \in calls
      BY <2>1, <3>1
    <3>2. CASE a \notin calls
      <4>1. PICK c \in BOOLEAN : c = (act[a].canceled \/ a \in cancels)
        BY Zenon
      <4>2. act'[a] = [act[a] EXCEPT !.canceled = c]
        BY <2>1, <3>2, <4>1
      <4>. QED BY <4>2
    <3>. QED BY <3>1, <3>2
  <2>3. UNCHANGED saved
    BY <1>1 DEF Code
  <2>. QED BY <2>1, <2>2, <2>3
<1>2. ASSUME NEW r \in Runs, HeartbeatAnswered(r) \/ Respond(r) PROVE ActsOK'
  BY <1>2 DEF HeartbeatAnswered, Respond, Recorded
<1>3. ASSUME NEW r \in Runs, CallFails(r) PROVE ActsOK'
  BY <1>3 DEF CallFails, Lost
<1>4. ASSUME NEW r \in Runs, NEW i \in timers, Retry(r, i) PROVE ActsOK'
  <2>1. act' \in {act, [act EXCEPT ![i.act].attempt = @ + 1]} /\ UNCHANGED saved
    BY <1>4 DEF Retry
  <2>2. i.act \in Acts
    BY DEF ItemsOK, Items
  <2>. QED BY <2>1, <2>2
<1>5. ASSUME NEW r \in Runs, NEW s \in Slots, Result(r, s) PROVE ActsOK'
  BY <1>5 DEF Result
<1>6. ASSUME NEW r \in Runs,
             \/ OpenPoll(r) \/ PollTask(r) \/ Send(r) \/ Notify(r) \/ Heartbeat(r) \/ CloseDone(r)
      PROVE  UNCHANGED <<act, saved>>
  BY <1>6 DEF OpenPoll, PollTask, Send, Notify, Heartbeat, CloseDone
<1>7. ASSUME NEW p \in Pollers, Poller(p) PROVE UNCHANGED <<act, saved>>
  BY <1>7 DEF Poller, Reserve, GetTask, WakeUp, PollerNotifies, Dispatch, PollerStops
<1>8. CASE \E s \in Slots : Executor(s)
  BY <1>8 DEF Executor, Execute, Return, DropResult
<1>9. CASE \/ StopWorkflowWorker \/ StopLocalActivities \/ UNCHANGED vars
           \/ \E i \in timers : RetryAborted(i)
  BY Zenon, <1>9 DEF StopWorkflowWorker, StopLocalActivities, vars, RetryAborted
<1>. QED BY <1>1, <1>2, <1>3, <1>4, <1>5, <1>6, <1>7, <1>8, <1>9 DEF Next, Task

\* Every step keeps the slots of the pollers apart.
LEMMA SlotInvStep == Shape /\ [Next]_vars => SlotInv'
<1>. SUFFICES ASSUME Shape, [Next]_vars PROVE SlotInv'
  OBVIOUS
<1>. USE DEF SlotInv, Asking, Carrying, Free, Goes
<1>. /\ poller \in [Pollers -> [pc : PollerPcs, slot : Slots \cup {None}]]
     /\ exec \in [Slots -> [pc : ExecPcs, item : Items \cup {None},
                            result : {"ok", "failed", "canceled", None}]]
     /\ SlotInv
  BY DEF Shape, Typing, PollersOK, SlotsOK
<1>. HIDE DEF ExecPcs, PollerPcs
<1>1. ASSUME NEW r \in Runs, NEW s \in Slots, Result(r, s) PROVE SlotInv'
  BY <1>1 DEF Result
<1>2. ASSUME NEW p \in Pollers, NEW s \in Slots, Reserve(p, s) PROVE SlotInv'
  BY <1>2 DEF Reserve
<1>3. ASSUME NEW p \in Pollers, GetTask(p) PROVE SlotInv'
  <2>1. CASE queue = <<>>
    <3>1. poller[p].pc = "get" /\ poller' = [poller EXCEPT ![p].pc = "wait"] /\ UNCHANGED exec
      BY <1>3, <2>1 DEF GetTask
    <3>. QED BY <3>1
  <2>2. CASE queue # <<>>
    <3>1. Head(queue) # None
      BY <2>2, NoneIsNoItem DEF Shape, Typing, ItemsOK
    <3>2. PICK pc \in {"dispatch", "notify"} : poller' = [poller EXCEPT ![p].pc = pc]
      BY <1>3, <2>2 DEF GetTask
    <3>3. poller[p].pc = "get" /\ exec' = [exec EXCEPT ![poller[p].slot].item = Head(queue)]
      BY <1>3, <2>2 DEF GetTask
    <3>. QED BY <3>1, <3>2, <3>3
  <2>. QED BY <2>1, <2>2
<1>4. ASSUME NEW p \in Pollers, WakeUp(p) \/ PollerNotifies(p) PROVE SlotInv'
  BY <1>4 DEF WakeUp, PollerNotifies
<1>5. ASSUME NEW p \in Pollers, Dispatch(p) PROVE SlotInv'
  BY <1>5 DEF Dispatch
<1>6. ASSUME NEW p \in Pollers, PollerStops(p) PROVE SlotInv'
  BY <1>6 DEF PollerStops, Leaves
<1>7. ASSUME NEW s \in Slots, Executor(s) PROVE SlotInv'
  BY <1>7 DEF Executor, Execute, Return, DropResult
<1>8. ASSUME UNCHANGED <<poller, exec>> PROVE SlotInv'
  BY <1>8
<1>9. ASSUME NEW r \in Runs, NEW i \in timers, Retry(r, i) PROVE UNCHANGED <<poller, exec>>
  BY <1>9 DEF Retry
<1>10. ASSUME NEW r \in Runs,
              \/ OpenPoll(r) \/ PollTask(r) \/ Heartbeat(r) \/ CallFails(r) \/ Code(r) \/ Send(r) \/ Notify(r)
              \/ HeartbeatAnswered(r) \/ Respond(r) \/ CloseDone(r)
       PROVE  UNCHANGED <<poller, exec>>
  BY Zenon, <1>10
     DEF OpenPoll, PollTask, Heartbeat, CallFails, Code, Send, Notify, HeartbeatAnswered, Respond,
               CloseDone
<1>11. CASE \/ StopWorkflowWorker \/ StopLocalActivities \/ UNCHANGED vars
            \/ \E i \in timers : RetryAborted(i)
  <2>1. UNCHANGED <<poller, exec>>
    BY Zenon, <1>11 DEF StopWorkflowWorker, StopLocalActivities, vars, RetryAborted
  <2>. QED BY <2>1, <1>8
<1>. HIDE DEF SlotInv
<1>. QED
  BY <1>1, <1>2, <1>3, <1>4, <1>5, <1>6, <1>7, <1>8, <1>9, <1>10, <1>11 DEF Next, Task, Poller

\* Shape is an invariant.
THEOREM ShapeAlways == Spec => []Shape
<1>1. Shape /\ [Next]_vars => Shape'
  BY Zenon, TasksStep, PollersStep, SlotsStep, ActsStep, SlotInvStep DEF Shape, Typing
<1>. QED BY ShapeInit, <1>1, PTL DEF Spec

-----------------------------------------------------------------------------
(* The tunnel wakes its pollers, and a stop in time waits for the tasks.   *)

\* Whoever queues an item, or takes one of several, sets the token after it.
LEMMA TunnelStep == Shape /\ TunnelWakes /\ [Next]_vars => TunnelWakes'
<1>. SUFFICES ASSUME Shape, TunnelWakes, [Next]_vars PROVE TunnelWakes'
  OBVIOUS
<1>. USE DEF Shape, Typing, PollersOK, TasksOK, TunnelWakes, laStopped, At, Goto, GotoWith
<1>1. ASSUME NEW r \in Runs, Send(r) PROVE TunnelWakes'
  <2>1. CASE wft'[r].pc = "notifySend"
    BY Zenon, <2>1
  <2>2. CASE UNCHANGED queue /\ wft[r].pc = "send"
    BY Zenon, <1>1, <2>2 DEF Send
  <2>. QED BY <1>1, <2>1, <2>2 DEF Send
<1>2. ASSUME NEW r \in Runs, Notify(r) PROVE TunnelWakes'
  BY Zenon, <1>2 DEF Notify, notifyTaskReady
<1>3. ASSUME NEW r \in Runs, NEW i \in timers, Retry(r, i) PROVE TunnelWakes'
  BY <1>3 DEF Retry
<1>4. ASSUME NEW r \in Runs,
             OpenPoll(r) \/ PollTask(r) \/ Code(r) \/ HeartbeatAnswered(r) \/ Respond(r)
      PROVE  TunnelWakes'
  <2>1. ASSUME OpenPoll(r) \/ PollTask(r) \/ Code(r) PROVE TunnelWakes'
    BY Zenon, <2>1 DEF OpenPoll, PollTask, Code
  <2>2. ASSUME HeartbeatAnswered(r) \/ Respond(r) PROVE TunnelWakes'
    BY Zenon, <2>2 DEF HeartbeatAnswered, Respond
  <2>. QED BY Zenon, <1>4, <2>1, <2>2
<1>5. ASSUME NEW r \in Runs, Heartbeat(r) \/ CallFails(r) \/ CloseDone(r) PROVE TunnelWakes'
  <2>1. ASSUME Heartbeat(r) PROVE TunnelWakes'
    BY Zenon, <2>1 DEF Heartbeat
  <2>2. ASSUME CallFails(r) PROVE TunnelWakes'
    BY Zenon, <2>2 DEF CallFails
  <2>3. ASSUME CloseDone(r) PROVE TunnelWakes'
    BY Zenon, <2>3 DEF CloseDone
  <2>. QED BY Zenon, <1>5, <2>1, <2>2, <2>3
<1>6. ASSUME NEW r \in Runs, NEW s \in Slots, Result(r, s) PROVE TunnelWakes'
  BY Zenon, <1>6 DEF Result
<1>7. ASSUME NEW p \in Pollers, GetTask(p) PROVE TunnelWakes'
  <2>1. CASE queue = <<>>
    BY Zenon, <1>7, <2>1 DEF GetTask
  <2>2. CASE queue # <<>> /\ Tail(queue) = <<>>
    BY Zenon, <1>7, <2>2 DEF GetTask
  <2>3. CASE queue # <<>> /\ Tail(queue) # <<>>
    BY <1>7, <2>3 DEF GetTask
  <2>. QED BY Zenon, <2>1, <2>2, <2>3
<1>8. ASSUME NEW p \in Pollers, NEW s \in Slots, Reserve(p, s) PROVE TunnelWakes'
  BY Zenon, <1>8 DEF Reserve
<1>9. ASSUME NEW p \in Pollers, WakeUp(p) \/ PollerNotifies(p) \/ Dispatch(p) \/ PollerStops(p)
      PROVE  TunnelWakes'
  BY Zenon, <1>9 DEF WakeUp, PollerNotifies, notifyTaskReady, Dispatch, PollerStops
<1>10. ASSUME NEW s \in Slots, Executor(s) PROVE TunnelWakes'
  BY Zenon, <1>10 DEF Executor, Execute, Return, DropResult
<1>11. CASE \/ StopWorkflowWorker \/ StopLocalActivities \/ UNCHANGED vars
            \/ \E i \in timers : RetryAborted(i)
  BY Zenon, <1>11 DEF StopWorkflowWorker, StopLocalActivities, vars, RetryAborted
<1>. QED
  BY Zenon, <1>1, <1>2, <1>3, <1>4, <1>5, <1>6, <1>7, <1>8, <1>9, <1>10, <1>11
     DEF Next, Task, Poller

\* An item in the tunnel never meets only sleeping pollers without a token
\* (getTask, sendTask, notifyTaskReady).
THEOREM TunnelAlwaysWakes == Spec => []TunnelWakes
<1>1. Init => TunnelWakes
  BY Zenon DEF Init, TunnelWakes
<1>. QED BY <1>1, ShapeAlways, TunnelStep, PTL DEF Spec

\* The local activity worker stops after the polls and tasks of the workflow
\* worker have returned, unless awaitWaitGroup gave up on them.
Graceful == laStopped /\ ~timedOut => \A r \in Runs : At(r, "idle")

\* No poll is opened once stopC is closed, and only a poll begins a task.
LEMMA GracefulStep == Shape /\ Graceful /\ [Next]_vars => Graceful'
<1>. SUFFICES ASSUME Shape, Graceful, [Next]_vars, laStopped', ~timedOut', NEW q \in Runs
             PROVE  wft'[q].pc = "idle"
  BY Zenon DEF Graceful, At
<1>. USE DEF Shape, Typing, TasksOK, Graceful, laStopped, At, Goto, GotoWith
<1>1. ASSUME NEW r \in Runs, OpenPoll(r) \/ PollTask(r) PROVE FALSE
  BY Zenon, <1>1 DEF OpenPoll, PollTask
<1>2. ASSUME NEW r \in Runs, Task(r) \/ Heartbeat(r) \/ CallFails(r) PROVE FALSE
  <2>1. UNCHANGED <<stop, timedOut>> /\ ~At(r, "idle")
    BY Zenon, <1>2 DEF Task, Heartbeat, CallFails, Code, Send, Notify, HeartbeatAnswered, Respond,
                CloseDone, Retry, Result
  <2>. QED BY Zenon, <2>1
<1>3. ASSUME NEW p \in Pollers, Poller(p) PROVE UNCHANGED <<wft, stop, timedOut>>
  BY Zenon, <1>3 DEF Poller, Reserve, GetTask, WakeUp, PollerNotifies, Dispatch, PollerStops
<1>4. ASSUME NEW s \in Slots, Executor(s) PROVE UNCHANGED <<wft, stop, timedOut>>
  BY Zenon, <1>4 DEF Executor, Execute, Return, DropResult
<1>5. CASE UNCHANGED vars \/ \E i \in timers : RetryAborted(i)
  BY Zenon, <1>5 DEF vars, RetryAborted
<1>6. CASE StopWorkflowWorker \/ StopLocalActivities
  BY Zenon, <1>6 DEF StopWorkflowWorker, StopLocalActivities, awaitWaitGroup
<1>. QED BY Zenon, <1>1, <1>2, <1>3, <1>4, <1>5, <1>6 DEF Next

\* workflowWorker.Stop waits for the workflow worker before it goes on.
LEMMA GracefulAlways == Spec => []Graceful
<1>1. Init => Graceful
  BY Zenon DEF Init, Graceful, laStopped
<1>. QED BY <1>1, ShapeAlways, GracefulStep, PTL DEF Spec

-----------------------------------------------------------------------------
\* The items in the tunnel, in a slot, or with a timer.
Sent == {i \in Items : \/ \E k \in DOMAIN queue : queue[k] = i
                       \/ \E s \in Slots : exec[s].item = i
                       \/ i \in timers}

\* No item is of a later generation than its run's task.
Fresh == \A i \in Sent : i.gen <= wft[RunOfItem(i)].gen

\* No item is in two of these places.
Apart ==
    /\ \A k, l \in DOMAIN queue : queue[k] = queue[l] => k = l
    /\ \A s, t \in Slots : exec[s].item = exec[t].item /\ exec[s].item # None => s = t
    /\ \A k \in DOMAIN queue, s \in Slots : queue[k] # exec[s].item
    /\ \A k \in DOMAIN queue : queue[k] \notin timers
    /\ \A s \in Slots : exec[s].item \notin timers

\* What is not started was not sent, and is sent before the task does anything else.
UnsentOf(r) ==
    /\ wft[r].pc \notin {"send", "notifySend"} => wft[r].unstarted = {}
    /\ \A a \in wft[r].unstarted : RunOf[a] = r /\ Item(a, r) \notin Sent
Unsent == ~laStopped => \A r \in Runs : UnsentOf(r)

Over(r) == wft[r].pc \in {"idle", "polling", "closing"}

\* A task in progress has its pending activities, and no others, in places; one
\* that is over left none pending.
HeldOf(r) ==
    /\ wft[r].closed => wft[r].pc \in {"idle", "closing", "respond"}
    /\ ~wft[r].closed => \A a \in ActsOf(r) :
          /\ Over(r) \/ At(r, "respond") => act[a].status # "pending"
          /\ ~Over(r) => (act[a].status = "pending"
                            <=> Item(a, r) \in Sent \/ a \in wft[r].unstarted)
Held == ~laStopped => \A r \in Runs : HeldOf(r)

(* Items move between places and never are in two.                         *)

\* sendTask: an item that was nowhere.
LEMMA SendMoves ==
  ASSUME Typing, Apart, NEW i \in Items \ Sent, queue' = Append(queue, i),
         UNCHANGED <<exec, timers>>
  PROVE  Apart' /\ Sent' = Sent \cup {i}
<1>1. /\ queue' \in Seq(Items) /\ Len(queue') = Len(queue) + 1 /\ queue'[Len(queue) + 1] = i
      /\ \A k \in 1 .. Len(queue) : queue'[k] = queue[k]
  BY DEF Typing, ItemsOK
<1>2. Apart'
  BY <1>1 DEF Typing, ItemsOK, Apart, Sent
<1>3. Sent' = Sent \cup {i}
  BY <1>1 DEF Typing, ItemsOK, Sent
<1>. QED BY Zenon, <1>2, <1>3

\* A retry: from its timer to the tunnel.
LEMMA RetryMoves ==
  ASSUME Typing, Apart, NEW i \in timers, timers' = timers \ {i}, queue' = Append(queue, i),
         UNCHANGED exec
  PROVE  Apart' /\ Sent' = Sent
<1>1. /\ queue' \in Seq(Items) /\ Len(queue') = Len(queue) + 1 /\ queue'[Len(queue) + 1] = i
      /\ \A k \in 1 .. Len(queue) : queue'[k] = queue[k]
  BY DEF Typing, ItemsOK
<1>2. Apart'
  BY <1>1 DEF Typing, ItemsOK, Apart, Sent
<1>3. Sent' = Sent
  BY <1>1 DEF Typing, ItemsOK, Sent
<1>. QED BY Zenon, <1>2, <1>3

\* getTask: from the tunnel to the poller's slot.
LEMMA TakeMoves ==
  ASSUME Typing, Apart, NEW s \in Slots, exec[s].item = None, queue # <<>>,
         queue' = Tail(queue), exec' = [exec EXCEPT ![s].item = Head(queue)], UNCHANGED timers
  PROVE  Apart' /\ Sent' = Sent
<1>1. /\ Len(queue) > 0 /\ Head(queue) = queue[1] /\ queue[1] \in Items
      /\ queue' \in Seq(Items) /\ Len(queue') = Len(queue) - 1
      /\ \A k \in 1 .. Len(queue') : queue'[k] = queue[k + 1]
  BY DEF Typing, ItemsOK
<1>2. exec'[s].item = queue[1] /\ \A t \in Slots \ {s} : exec'[t] = exec[t]
  BY Zenon, <1>1 DEF Typing, SlotsOK
<1>3. Apart'
  BY <1>1, <1>2, NoneIsNoItem DEF Typing, ItemsOK, Apart
<1>4. Sent' = Sent
  <2>1. ASSUME NEW i \in Items PROVE i \in Sent => i \in Sent'
    <3>1. ASSUME NEW k \in DOMAIN queue, queue[k] = i PROVE i \in Sent'
      <4>1. CASE k = 1
        BY Zenon, <1>2, <3>1, <4>1 DEF Sent
      <4>2. CASE k # 1
        <5>1. k - 1 \in DOMAIN queue' /\ queue'[k - 1] = i
          BY <1>1, <3>1, <4>2 DEF Typing, ItemsOK
        <5>. QED BY Zenon, <5>1 DEF Sent
      <4>. QED BY Zenon, <4>1, <4>2
    <3>2. ASSUME NEW t \in Slots, exec[t].item = i PROVE i \in Sent'
      BY Zenon, <1>2, <3>2, NoneIsNoItem DEF Sent
    <3>. QED BY Zenon, <3>1, <3>2 DEF Sent
  <2>2. ASSUME NEW i \in Items PROVE i \in Sent' => i \in Sent
    BY <1>1, <1>2 DEF Sent, Typing, ItemsOK
  <2>. QED BY Zenon, <2>1, <2>2 DEF Sent
<1>. QED BY Zenon, <1>3, <1>4

\* A result to be retried: from its slot to a timer.
LEMMA TimerMoves ==
  ASSUME Typing, Apart, NEW s \in Slots, exec[s].item # None, Free(s),
         timers' = timers \cup {exec[s].item}, UNCHANGED queue
  PROVE  Apart' /\ Sent' = Sent
<1>1. exec'[s].item = None /\ \A t \in Slots \ {s} : exec'[t] = exec[t]
  BY Zenon DEF Free, Typing, SlotsOK
<1>2. exec[s].item \in Items
  BY Zenon DEF Typing, SlotsOK
<1>3. Apart'
  BY <1>1, <1>2, NoneIsNoItem DEF Apart, Typing, ItemsOK
<1>4. Sent' = Sent
  BY <1>1, <1>2, NoneIsNoItem DEF Sent
<1>. QED BY Zenon, <1>3, <1>4

\* A slot is released with what it holds.
LEMMA SlotDrops ==
  ASSUME Typing, Apart, NEW s \in Slots, Free(s), UNCHANGED <<queue, timers>>
  PROVE  Apart' /\ Sent' = Sent \ {exec[s].item}
<1>1. exec'[s].item = None /\ \A t \in Slots \ {s} : exec'[t] = exec[t]
  BY Zenon DEF Free, Typing, SlotsOK
<1>2. Apart'
  BY <1>1, NoneIsNoItem DEF Apart, Typing, ItemsOK
<1>3. Sent' = Sent \ {exec[s].item}
  BY <1>1, NoneIsNoItem DEF Sent, Apart
<1>. QED BY Zenon, <1>2, <1>3

\* A retry whose task is over.
LEMMA TimerDrops ==
  ASSUME Typing, Apart, NEW i \in timers, timers' = timers \ {i}, UNCHANGED <<queue, exec>>
  PROVE  Apart' /\ Sent' = Sent \ {i}
  BY DEF Typing, ItemsOK, Apart, Sent

\* A step that moves no item.
LEMMA NothingMoves ==
  ASSUME Typing, Apart, UNCHANGED <<queue, timers>>,
         \A s \in Slots : exec'[s].item = exec[s].item
  PROVE  Apart' /\ Sent' = Sent
  BY DEF Apart, Sent

PlacesInv == Apart /\ Fresh /\ Unsent /\ Held

\* Items leave places only once nobody waits for them.
LEMMA PlacesKept ==
  ASSUME Typing, PlacesInv, Apart', UNCHANGED <<wft, act>>,
         laStopped => laStopped', Sent' \subseteq Sent,
         laStopped' \/ \A i \in Sent \ Sent' : ~Live(i)
  PROVE  PlacesInv'
<1>1. Fresh'
  BY Zenon DEF PlacesInv, Fresh, RunOfItem
<1>2. Unsent'
  BY Zenon DEF PlacesInv, Unsent, UnsentOf, Item
<1>3. Held'
  <2>. SUFFICES ASSUME ~laStopped' PROVE Held'
    BY Zenon DEF Held
  <2>1. ASSUME NEW r \in Runs, NEW a \in ActsOf(r), ~Over(r)
        PROVE  Item(a, r) \in Sent' <=> Item(a, r) \in Sent
    BY <2>1 DEF Live, InTask, Item, RunOfItem, ActsOf, Over
  <2>. QED BY Zenon, <2>1 DEF PlacesInv, Held, HeldOf, Over, At, Item, ActsOf
<1>. QED BY Zenon, <1>1, <1>2, <1>3 DEF PlacesInv

\* Steps of the local activity worker, of timers, and of the stop.
LEMMA PlacesWorker ==
  ASSUME Shape, PlacesInv,
         \/ \E p \in Pollers : Poller(p)
         \/ \E s \in Slots : Executor(s)
         \/ \E i \in timers : RetryAborted(i)
         \/ StopWorkflowWorker \/ StopLocalActivities \/ UNCHANGED vars
  PROVE  PlacesInv'
<1>. Typing /\ Apart
  BY Zenon DEF Shape, PlacesInv
<1>1. ASSUME NEW p \in Pollers, GetTask(p) PROVE PlacesInv'
  <2>1. UNCHANGED <<wft, act, stop, timers>>
    BY Zenon, <1>1 DEF GetTask
  <2>2. Apart' /\ Sent' = Sent
    <3>1. CASE queue = <<>>
      BY Zenon, <1>1, <3>1, NothingMoves DEF GetTask
    <3>2. CASE queue # <<>>
      <4>1. poller[p].slot \in Slots /\ exec[poller[p].slot].item = None
        BY Zenon, <1>1 DEF GetTask, Shape, SlotInv, Asking
      <4>. QED BY Zenon, <1>1, <3>2, <4>1, <2>1, TakeMoves DEF GetTask
    <3>. QED BY Zenon, <3>1, <3>2
  <2>. QED BY Zenon, <2>1, <2>2, PlacesKept DEF laStopped
<1>2. ASSUME NEW p \in Pollers,
             (\E s \in Slots : Reserve(p, s)) \/ WakeUp(p) \/ PollerNotifies(p) \/ Dispatch(p)
      PROVE  PlacesInv'
  <2>1. UNCHANGED <<wft, act, stop, timers, queue>>
    BY Zenon, <1>2 DEF Reserve, WakeUp, PollerNotifies, Dispatch
  <2>2. \A s \in Slots : exec'[s].item = exec[s].item
    BY <1>2 DEF Reserve, WakeUp, PollerNotifies, Dispatch, Typing, SlotsOK
  <2>. QED BY Zenon, <2>1, <2>2, NothingMoves, PlacesKept DEF laStopped
<1>3. ASSUME NEW p \in Pollers, PollerStops(p) PROVE PlacesInv'
  <2>1. UNCHANGED <<wft, act, stop, timers>> /\ laStopped
    BY Zenon, <1>3 DEF PollerStops
  <2>2. Apart' /\ Sent' \subseteq Sent
    <3>1. CASE UNCHANGED <<queue, exec>>
      BY Zenon, <2>1, <3>1, NothingMoves
    <3>2. CASE queue' = <<>> /\ Free(poller[p].slot)
      <4>1. \A s \in Slots : exec'[s].item = exec[s].item \/ exec'[s].item = None
        BY Zenon, <3>2 DEF Free, Typing, SlotsOK
      <4>2. DOMAIN queue' = {}
        BY <3>2
      <4>3. Apart'
        BY Zenon, <2>1, <4>1, <4>2, NoneIsNoItem DEF Apart, Typing, ItemsOK
      <4>4. Sent' \subseteq Sent
        BY Zenon, <2>1, <4>1, <4>2, NoneIsNoItem DEF Sent
      <4>. QED BY Zenon, <4>3, <4>4
    <3>. QED BY Zenon, <1>3, <3>1, <3>2 DEF PollerStops, clearTasks
  <2>. QED BY Zenon, <2>1, <2>2, PlacesKept DEF laStopped
<1>4. ASSUME NEW s \in Slots, Executor(s) PROVE PlacesInv'
  <2>1. UNCHANGED <<wft, act, stop, timers, queue>>
    BY Zenon, <1>4 DEF Executor, Execute, Return, DropResult, Goes, Free
  <2>2. CASE \E pc, result : Goes(s, pc, result)
    <3>1. \A t \in Slots : exec'[t].item = exec[t].item
      BY <2>2 DEF Goes, Typing, SlotsOK
    <3>. QED BY Zenon, <2>1, <3>1, NothingMoves, PlacesKept DEF laStopped
  <2>3. CASE Free(s) /\ (laStopped \/ ~Live(exec[s].item))
    <3>1. Apart' /\ Sent' = Sent \ {exec[s].item}
      BY Zenon, <2>1, <2>3, SlotDrops
    <3>. QED BY Zenon, <2>1, <2>3, <3>1, PlacesKept DEF laStopped
  <2>4. (\E pc, result : Goes(s, pc, result)) \/ (Free(s) /\ (laStopped \/ ~Live(exec[s].item)))
    BY Zenon, <1>4 DEF Executor, Execute, Return, DropResult
  <2>. QED BY Zenon, <2>2, <2>3, <2>4
<1>5. ASSUME NEW i \in timers, RetryAborted(i) PROVE PlacesInv'
  <2>1. Apart' /\ Sent' = Sent \ {i}
    BY Zenon, <1>5, TimerDrops DEF RetryAborted
  <2>. QED BY Zenon, <1>5, <2>1, PlacesKept DEF RetryAborted, laStopped
<1>6. CASE StopWorkflowWorker \/ StopLocalActivities \/ UNCHANGED vars
  <2>1. UNCHANGED <<wft, act, timers, queue, exec>> /\ (laStopped => laStopped')
    BY Zenon, <1>6 DEF StopWorkflowWorker, StopLocalActivities, vars, laStopped
  <2>. QED BY Zenon, <2>1, NothingMoves, PlacesKept
<1>. QED BY Zenon, <1>1, <1>2, <1>3, <1>4, <1>5, <1>6 DEF Poller

\* What the code's run does to its activities.
LEMMA CodeCalls ==
  ASSUME Typing, NEW r \in Runs, Code(r)
  PROVE  \E calls \in SUBSET {a \in ActsOf(r) : act[a].status \in {"uncalled", "backoff"}},
            completes \in BOOLEAN :
            /\ completes => calls = {}
            /\ \A a \in Acts : act'[a].status = IF a \in calls THEN "pending" ELSE act[a].status
            /\ wft' = [wft EXCEPT ![r] = [pc |-> IF completes THEN "respond" ELSE "send",
                                          gen |-> wft[r].gen,
                                          unstarted |-> wft[r].unstarted \cup calls,
                                          closed |-> completes]]
<1>1. PICK calls \in SUBSET {a \in ActsOf(r) : act[a].status \in {"uncalled", "backoff"}},
           cancels \in SUBSET Pending(r), completes \in BOOLEAN :
            /\ completes => calls \cup cancels = {}
            /\ act' = [a \in Acts |->
                     IF a \in calls
                     THEN [status |-> "pending", attempt |-> act[a].attempt + 1,
                           canceled |-> FALSE]
                     ELSE [act[a] EXCEPT !.canceled = @ \/ a \in cancels]]
            /\ GotoWith(r, IF completes THEN "respond" ELSE "send",
                        wft[r].unstarted \cup calls, completes)
  BY Zenon DEF Code
<1>2. \A a \in Acts : act'[a].status = IF a \in calls THEN "pending" ELSE act[a].status
  BY Zenon, <1>1 DEF Typing, ActsOK
<1>3. completes => calls = {}
  BY Zenon, <1>1
<1>. QED BY Zenon, <1>1, <1>2, <1>3 DEF GotoWith

\* Steps of a task that move no item and leave its generation alone.
LEMMA PlacesTask ==
  ASSUME Shape, PlacesInv, HeartbeatReturns \subseteq {TRUE}, NEW r \in Runs,
         \/ Notify(r) \/ HeartbeatAnswered(r) \/ Heartbeat(r) \/ Respond(r) \/ CallFails(r)
         \/ CloseDone(r) \/ Code(r)
  PROVE  PlacesInv'
<1>. USE DEF Shape, Typing, TasksOK, PlacesInv
<1>1. UNCHANGED <<queue, exec, timers, stop>>
  BY Zenon DEF Notify, HeartbeatAnswered, Heartbeat, Respond, CallFails, CloseDone, Code
<1>2. Apart' /\ Sent' = Sent
  BY Zenon, <1>1, NothingMoves
<1>3. \A q \in Runs : /\ wft'[q].gen = wft[q].gen
                      /\ q # r => wft'[q] = wft[q]
  BY DEF Notify, HeartbeatAnswered, Heartbeat, Respond, CallFails, CloseDone, Code, Goto, GotoWith
<1>4. Fresh'
  BY Zenon, <1>2, <1>3, LocalActivitiesAssumption DEF Fresh, RunOfItem, Sent, Items
<1>5. \A q \in Runs, a \in Acts : Item(a, q)' = Item(a, q)
  BY Zenon, <1>3 DEF Item
<1>6. \A a \in Acts : RunOf[a] # r => act'[a].status = act[a].status
  <2>1. CASE Code(r)
    BY Zenon, <2>1, CodeCalls DEF ActsOf
  <2>2. CASE CallFails(r)
    BY Zenon, <2>2 DEF CallFails, Lost
  <2>3. CASE Notify(r) \/ HeartbeatAnswered(r) \/ Heartbeat(r) \/ Respond(r) \/ CloseDone(r)
    BY Zenon, <2>3 DEF Notify, HeartbeatAnswered, Heartbeat, Respond, CloseDone
  <2>. QED BY Zenon, <2>1, <2>2, <2>3
<1>7. SUFFICES ASSUME ~laStopped PROVE Unsent' /\ Held'
  BY Zenon, <1>1, <1>2, <1>4 DEF Unsent, Held, laStopped
<1>8. ASSUME NEW q \in Runs, q # r PROVE UnsentOf(q)' /\ HeldOf(q)'
  BY <1>2, <1>3, <1>5, <1>6, <1>7, <1>8 DEF Unsent, UnsentOf, Held, HeldOf, Over, At, ActsOf
<1>9. UnsentOf(r)' /\ HeldOf(r)'
  <2>. USE <1>2, <1>5, <1>7 DEF Unsent, UnsentOf, Held, HeldOf, Over, At, Goto, GotoWith
  <2>1. CASE Notify(r)
    BY <2>1 DEF Notify, ActsOf
  <2>2. CASE HeartbeatAnswered(r)
    <3>1. At(r, "heartbeat") /\ Goto(r, "code") /\ UNCHANGED act
      BY Zenon, <2>2 DEF HeartbeatAnswered
    <3>. QED BY <3>1 DEF ActsOf
  <2>3. CASE Heartbeat(r)
    BY <2>3 DEF Heartbeat, ActsOf
  <2>4. CASE Respond(r) \/ CloseDone(r)
    BY <2>4 DEF Respond, CloseDone, ActsOf
  <2>5. CASE CallFails(r)
    BY Zenon, <2>5 DEF CallFails, Lost, ActsOf, ActsOK
  <2>6. CASE Code(r)
    <3>1. PICK calls \in SUBSET {a \in ActsOf(r) : act[a].status \in {"uncalled", "backoff"}},
               completes \in BOOLEAN :
            /\ completes => calls = {}
            /\ \A a \in Acts : act'[a].status = IF a \in calls THEN "pending" ELSE act[a].status
            /\ wft' = [wft EXCEPT ![r] = [pc |-> IF completes THEN "respond" ELSE "send",
                                          gen |-> wft[r].gen,
                                          unstarted |-> wft[r].unstarted \cup calls,
                                          closed |-> completes]]
      BY Zenon, <2>6, CodeCalls
    <3>2. \A a \in Acts : act'[a].status = IF a \in calls THEN "pending" ELSE act[a].status
      BY Zenon, <3>1
    <3>3. wft'[r] = [pc |-> IF completes THEN "respond" ELSE "send", gen |-> wft[r].gen,
                     unstarted |-> wft[r].unstarted \cup calls, closed |-> completes]
      BY Zenon, <3>1
    <3>4. wft[r].pc = "code" /\ wft[r].unstarted = {} /\ ~wft[r].closed
      BY Zenon, <2>6 DEF Code
    <3>5. \A a \in calls : Item(a, r) \notin Sent /\ a \in ActsOf(r)
      BY Zenon, <3>1, <3>4
    <3>. QED BY <3>1, <3>2, <3>3, <3>4, <3>5 DEF ActsOf
  <2>. QED BY Zenon, <2>1, <2>2, <2>3, <2>4, <2>5, <2>6
<1>10. Unsent' /\ Held'
  BY Zenon, <1>1, <1>8, <1>9 DEF Unsent, Held
<1>. QED BY Zenon, <1>10

\* The parts of other runs, when a step is about one run.
LEMMA OtherRuns ==
  ASSUME Typing, PlacesInv, ~laStopped, NEW r \in Runs,
         \A q \in Runs : q # r => wft'[q] = wft[q],
         \A a \in Acts : RunOf[a] # r => act'[a].status = act[a].status,
         \A i \in Items : RunOfItem(i) # r => (i \in Sent' <=> i \in Sent)
  PROVE  \A q \in Runs : q # r => UnsentOf(q)' /\ HeldOf(q)'
<1>. SUFFICES ASSUME NEW q \in Runs, q # r PROVE UnsentOf(q)' /\ HeldOf(q)'
  OBVIOUS
<1>1. \A a \in Acts : Item(a, q)' = Item(a, q)
  BY Zenon DEF Item
<1>2. \A a \in ActsOf(q) : Item(a, q) \in Sent' <=> Item(a, q) \in Sent
  BY Zenon, ItemType DEF Typing, ActsOf, RunOfItem, Item
<1>3. UnsentOf(q)'
  BY <1>1, <1>2 DEF PlacesInv, Unsent, UnsentOf, Typing, TasksOK, ActsOf
<1>4. HeldOf(q)'
  BY Zenon, <1>1, <1>2 DEF PlacesInv, Held, HeldOf, Over, At, ActsOf
<1>. QED BY Zenon, <1>3, <1>4

\* A poll is opened, or returns without a task.
LEMMA PlacesIdle ==
  ASSUME Shape, PlacesInv, NEW r \in Runs, OpenPoll(r) \/ (PollTask(r) /\ Goto(r, "idle"))
  PROVE  PlacesInv'
<1>. USE DEF Shape, Typing, TasksOK, PlacesInv
<1>1. /\ UNCHANGED <<queue, exec, timers, stop, act>> /\ wft[r].pc \in {"idle", "polling"}
      /\ Goto(r, "idle") \/ (Goto(r, "polling") /\ ~wft[r].closed)
  BY Zenon DEF OpenPoll, PollTask, At
<1>2. Apart' /\ Sent' = Sent
  BY Zenon, <1>1, NothingMoves
<1>3. /\ wft'[r].pc = "idle" \/ (wft'[r].pc = "polling" /\ ~wft[r].closed)
      /\ wft'[r].gen = wft[r].gen
      /\ wft'[r].unstarted = wft[r].unstarted /\ wft'[r].closed = wft[r].closed
  <2>1. CASE Goto(r, "idle")
    BY Zenon, <2>1 DEF Goto
  <2>2. CASE Goto(r, "polling") /\ ~wft[r].closed
    BY Zenon, <2>2 DEF Goto
  <2>. QED BY Zenon, <1>1, <2>1, <2>2
<1>4. \A q \in Runs : q # r => wft'[q] = wft[q]
  BY Zenon, <1>1 DEF Goto
<1>5. \A q \in Runs : wft'[q].gen = wft[q].gen
  BY Zenon, <1>3, <1>4
<1>6. Fresh'
  BY Zenon, <1>2, <1>5, LocalActivitiesAssumption DEF Fresh, RunOfItem, Sent, Items
<1>7. SUFFICES ASSUME ~laStopped PROVE Unsent' /\ Held'
  BY Zenon, <1>1, <1>2, <1>6 DEF Unsent, Held, laStopped
<1>8. UnsentOf(r)'
  BY Zenon, <1>1, <1>2, <1>3, <1>7 DEF Unsent, UnsentOf, Item
<1>9. HeldOf(r)'
  BY Zenon, <1>1, <1>2, <1>3, <1>7 DEF Held, HeldOf, Over, At, ActsOf
<1>. QED BY Zenon, <1>1, <1>2, <1>4, <1>7, <1>8, <1>9, OtherRuns DEF Unsent, Held

\* A new task has a new generation.
LEMMA PlacesPoll ==
  ASSUME Shape, PlacesInv, NEW r \in Runs, PollTask(r), ~Goto(r, "idle")
  PROVE  PlacesInv'
<1>. USE DEF Shape, Typing, TasksOK, PlacesInv
<1>1. UNCHANGED <<queue, exec, timers, stop, act>> /\ ~laStopped /\ At(r, "polling")
  BY Zenon DEF PollTask
<1>2. Apart' /\ Sent' = Sent
  BY Zenon, <1>1, NothingMoves
<1>3. wft'[r] = [pc |-> "code", gen |-> wft[r].gen + 1, unstarted |-> wft[r].unstarted,
                 closed |-> FALSE]
  BY Zenon DEF PollTask
<1>4. \A q \in Runs : q # r => wft'[q] = wft[q]
  BY Zenon DEF PollTask
<1>5. Fresh'
  BY <1>2, <1>3, <1>4, LocalActivitiesAssumption DEF Fresh, RunOfItem, Sent, Items
<1>6. ~laStopped
  BY Zenon, <1>1
<1>7. UnsentOf(r)'
  BY <1>1, <1>3, <1>6 DEF Unsent, UnsentOf, At
<1>8. HeldOf(r)'
  <2>1. \A a \in ActsOf(r) : Item(a, r)' \notin Sent
    <3>. SUFFICES ASSUME NEW a \in ActsOf(r), Item(a, r)' \in Sent PROVE FALSE
      OBVIOUS
    <3>1. Item(a, r)'.gen = wft[r].gen + 1 /\ RunOfItem(Item(a, r)') = r
      BY <1>3 DEF Item, RunOfItem, ActsOf
    <3>. QED BY <3>1 DEF Fresh
  <2>2. wft[r].unstarted = {} /\ \A a \in ActsOf(r) : act[a].status # "pending"
    BY Zenon, <1>1, <1>6 DEF Unsent, UnsentOf, Held, HeldOf, At, Over
  <2>. QED BY <1>1, <1>2, <1>3, <2>1, <2>2 DEF HeldOf, Over, At, ActsOf
<1>. QED BY Zenon, <1>1, <1>2, <1>4, <1>5, <1>6, <1>7, <1>8, OtherRuns DEF Unsent, Held

\* An activity is sent.
LEMMA PlacesSend ==
  ASSUME Shape, PlacesInv, NEW r \in Runs, Send(r)
  PROVE  PlacesInv'
<1>. USE DEF Shape, Typing, TasksOK, PlacesInv
<1>1. UNCHANGED <<exec, timers, stop, act>> /\ At(r, "send")
  BY Zenon DEF Send
<1>2. \A q \in Runs : wft'[q].gen = wft[q].gen /\ (q # r => wft'[q] = wft[q])
  BY DEF Send, Goto, GotoWith
<1>3. CASE UNCHANGED queue /\ Goto(r, IF Pending(r) = {} THEN "respond" ELSE "wait")
           /\ (laStopped \/ wft[r].unstarted = {})
  <2>1. Apart' /\ Sent' = Sent
    BY Zenon, <1>1, <1>3, NothingMoves
  <2>2. Fresh'
    BY Zenon, <1>2, <2>1, LocalActivitiesAssumption DEF Fresh, RunOfItem, Sent, Items
  <2>3. SUFFICES ASSUME ~laStopped PROVE Unsent' /\ Held'
    BY Zenon, <1>1, <2>1, <2>2 DEF Unsent, Held, laStopped
  <2>4. /\ wft'[r].pc = IF Pending(r) = {} THEN "respond" ELSE "wait"
        /\ wft'[r].unstarted = {} /\ wft'[r].closed = wft[r].closed /\ wft[r].unstarted = {}
    BY Zenon, <1>3, <2>3 DEF Goto
  <2>5. UnsentOf(r)'
    BY Zenon, <2>4 DEF UnsentOf
  <2>6. HeldOf(r)'
    BY Zenon, <1>1, <1>2, <2>1, <2>3, <2>4 DEF Held, HeldOf, Over, At, ActsOf, Pending, Item
  <2>. QED BY Zenon, <1>1, <1>2, <2>1, <2>3, <2>5, <2>6, OtherRuns DEF Unsent, Held
<1>4. ASSUME ~laStopped, NEW a \in wft[r].unstarted, queue' = Append(queue, Item(a, r)),
             GotoWith(r, "notifySend", wft[r].unstarted \ {a}, wft[r].closed)
      PROVE  PlacesInv'
  <2>1. Item(a, r) \in Items \ Sent /\ RunOf[a] = r
    BY Zenon, <1>4, ItemType DEF Unsent, UnsentOf
  <2>2. Apart' /\ Sent' = Sent \cup {Item(a, r)}
    BY Zenon, <1>1, <1>4, <2>1, SendMoves
  <2>3. Fresh'
    BY <1>2, <2>1, <2>2, LocalActivitiesAssumption DEF Fresh, RunOfItem, Sent, Items, Item
  <2>4. /\ wft'[r].pc = "notifySend" /\ wft'[r].unstarted = wft[r].unstarted \ {a}
        /\ wft'[r].closed = wft[r].closed
    BY Zenon, <1>4 DEF GotoWith
  <2>5. UnsentOf(r)'
    BY Zenon, <1>2, <1>4, <2>2, <2>4 DEF Unsent, UnsentOf, Item
  <2>6. HeldOf(r)'
    BY Zenon, <1>1, <1>2, <1>4, <2>2, <2>4 DEF Held, HeldOf, Over, At, ActsOf, Item
  <2>7. \A i \in Items : RunOfItem(i) # r => (i \in Sent' <=> i \in Sent)
    BY <2>1, <2>2 DEF RunOfItem, Item
  <2>. QED BY Zenon, <1>1, <1>2, <1>4, <2>2, <2>3, <2>5, <2>6, <2>7, OtherRuns DEF Unsent, Held
<1>. QED BY Zenon, <1>3, <1>4 DEF Send, sendTask

\* A retry's timer has fired.
LEMMA PlacesRetry ==
  ASSUME Shape, PlacesInv, NEW r \in Runs, NEW i \in timers, Retry(r, i)
  PROVE  PlacesInv'
<1>. USE DEF Shape, Typing, TasksOK, PlacesInv
<1>1. /\ UNCHANGED <<exec, stop>> /\ At(r, "wait") /\ RunOfItem(i) = r /\ wft[r].gen = i.gen
      /\ timers' = timers \ {i}
  BY Zenon DEF Retry, Live
<1>2. \A q \in Runs : wft'[q].gen = wft[q].gen /\ (q # r => wft'[q] = wft[q])
  BY DEF Retry, Goto
<1>3. i \in Items /\ i \in Sent /\ i = Item(i.act, r) /\ i.act \in ActsOf(r)
  BY Zenon, <1>1 DEF ItemsOK, Sent, Items, Item, RunOfItem, ActsOf
<1>4. CASE laStopped
  <2>1. UNCHANGED queue
    BY Zenon, <1>4 DEF Retry
  <2>2. Apart' /\ Sent' \subseteq Sent
    BY Zenon, <1>1, <2>1, TimerDrops
  <2>3. Fresh'
    BY Zenon, <1>2, <2>2, LocalActivitiesAssumption DEF Fresh, RunOfItem, Sent, Items
  <2>. QED BY Zenon, <1>1, <1>4, <2>2, <2>3 DEF Unsent, Held, laStopped
<1>5. CASE ~laStopped
  <2>1. act[i.act].status = "pending"
    BY Zenon, <1>1, <1>3, <1>5 DEF Held, HeldOf, At, Over
  <2>2. /\ act' = [act EXCEPT ![i.act].attempt = @ + 1]
        /\ queue' = Append(queue, i)
        /\ wft' = [wft EXCEPT ![r].pc = "notifyRetry"]
    BY Zenon, <1>5, <2>1 DEF Retry, sendTask, Goto
  <2>3. Apart' /\ Sent' = Sent
    BY Zenon, <1>1, <2>2, RetryMoves
  <2>4. Fresh'
    BY Zenon, <1>2, <2>3, LocalActivitiesAssumption DEF Fresh, RunOfItem, Sent, Items
  <2>5. \A a \in Acts : act'[a].status = act[a].status
    BY <2>2 DEF ActsOK
  <2>6. UnsentOf(r)'
    BY <1>1, <1>2, <1>5, <2>2, <2>3 DEF Unsent, UnsentOf, At
  <2>7. HeldOf(r)'
    BY <1>1, <1>2, <1>5, <2>2, <2>3, <2>5 DEF Held, HeldOf, Over, At, ActsOf, Item
  <2>. QED BY Zenon, <1>1, <1>2, <1>5, <2>3, <2>4, <2>5, <2>6, <2>7, OtherRuns DEF Unsent, Held
<1>. QED BY Zenon, <1>4, <1>5

\* A result is received.
LEMMA PlacesResult ==
  ASSUME Shape, PlacesInv, NEW r \in Runs, NEW s \in Slots, Result(r, s)
  PROVE  PlacesInv'
<1>. USE DEF Shape, Typing, TasksOK, PlacesInv
<1>. DEFINE i == exec[s].item
<1>1. /\ UNCHANGED <<queue, stop>> /\ At(r, "wait") /\ RunOfItem(i) = r /\ wft[r].gen = i.gen
      /\ Free(s) /\ i # None
  BY Zenon DEF Result, Live, SlotInv
<1>2. i \in Items
  BY Zenon, <1>1 DEF SlotsOK
<1>3. i = Item(i.act, r) /\ i.act \in ActsOf(r)
  BY Zenon, <1>1, <1>2 DEF Items, Item, RunOfItem, ActsOf
<1>4. CASE timers' = timers \cup {i} /\ UNCHANGED <<act, wft>>
  <2>1. Apart' /\ Sent' = Sent
    BY Zenon, <1>1, <1>4, TimerMoves
  <2>. QED BY Zenon, <1>1, <1>4, <2>1, PlacesKept DEF laStopped
<1>5. ASSUME UNCHANGED timers, Goto(r, "code"), NEW status \in {"backoff", "resolved"},
             act' = [act EXCEPT ![i.act].status = status]
      PROVE  PlacesInv'
  <2>1. Apart' /\ Sent' = Sent \ {i}
    BY Zenon, <1>1, <1>5, SlotDrops
  <2>2. \A q \in Runs : wft'[q].gen = wft[q].gen /\ (q # r => wft'[q] = wft[q])
    BY Zenon, <1>5 DEF Goto
  <2>3. Fresh'
    BY Zenon, <2>1, <2>2, LocalActivitiesAssumption DEF Fresh, RunOfItem, Sent, Items
  <2>4. \A a \in Acts : act'[a].status = IF a = i.act THEN status ELSE act[a].status
    BY Zenon, <1>3, <1>5 DEF ActsOK
  <2>5. SUFFICES ASSUME ~laStopped PROVE Unsent' /\ Held'
    BY Zenon, <1>1, <2>1, <2>3 DEF Unsent, Held, laStopped
  <2>6. /\ wft'[r].pc = "code" /\ wft'[r].closed = wft[r].closed
        /\ wft'[r].unstarted = {} /\ wft[r].unstarted = {}
    BY <1>1, <1>5, <2>5 DEF Goto, Unsent, UnsentOf, At
  <2>7. UnsentOf(r)'
    BY Zenon, <2>6 DEF UnsentOf
  <2>8. HeldOf(r)'
    <3>1. /\ ~wft'[r].closed /\ ~Over(r)' /\ ~At(r, "respond")'
          /\ \A a \in ActsOf(r) : act[a].status = "pending" <=> Item(a, r) \in Sent
      BY Zenon, <1>1, <2>5, <2>6 DEF Held, HeldOf, Over, At
    <3>2. ASSUME NEW a \in ActsOf(r)
          PROVE  act'[a].status = "pending" <=> Item(a, r)' \in Sent'
      <4>1. a \in Acts /\ Item(a, r)' = Item(a, r) /\ (Item(a, r) = i <=> a = i.act)
        BY <1>3, <2>2 DEF ActsOf, Item
      <4>2. act'[a].status = IF a = i.act THEN status ELSE act[a].status
        BY Zenon, <2>4, <4>1
      <4>3. status # "pending"
        BY Zenon, <1>5
      <4>. QED BY Zenon, <2>1, <3>1, <4>1, <4>2, <4>3
    <3>. QED BY Zenon, <2>6, <3>1, <3>2 DEF HeldOf, ActsOf
  <2>9. \A j \in Items : RunOfItem(j) # r => (j \in Sent' <=> j \in Sent)
    BY Zenon, <1>1, <2>1
  <2>10. \A a \in Acts : RunOf[a] # r => act'[a].status = act[a].status
    BY Zenon, <1>3, <2>4 DEF ActsOf
  <2>. QED BY Zenon, <1>1, <2>2, <2>5, <2>7, <2>8, <2>9, <2>10, OtherRuns DEF Unsent, Held
<1>. QED BY Zenon, <1>4, <1>5 DEF Result

\* Every step keeps PlacesInv.
LEMMA PlacesStep ==
  ASSUME HeartbeatReturns \subseteq {TRUE}
  PROVE  Shape /\ PlacesInv /\ [Next]_vars => PlacesInv'
<1>. SUFFICES ASSUME Shape, PlacesInv, [Next]_vars PROVE PlacesInv'
  OBVIOUS
<1>1. ASSUME NEW r \in Runs,
             OpenPoll(r) \/ PollTask(r) \/ Task(r) \/ Heartbeat(r) \/ CallFails(r)
      PROVE  PlacesInv'
  BY Zenon, <1>1, PlacesIdle, PlacesPoll, PlacesTask, PlacesSend, PlacesRetry, PlacesResult DEF Task
<1>. QED BY Zenon, <1>1, PlacesWorker DEF Next

\* Initially nothing is pending and nothing is anywhere.
LEMMA PlacesInit == Init => PlacesInv
<1>. SUFFICES ASSUME Init PROVE PlacesInv
  OBVIOUS
<1>1. DOMAIN queue = {} /\ timers = {} /\ \A s \in Slots : exec[s].item = None
  BY DEF Init
<1>2. Sent = {} /\ Apart
  BY Zenon, <1>1, NoneIsNoItem DEF Sent, Apart
<1>3. Unsent /\ Held
  BY Zenon DEF Init, Unsent, UnsentOf, Held, HeldOf, Over, ActsOf
<1>. QED BY Zenon, <1>2, <1>3 DEF PlacesInv, Fresh

INSTANCE FiniteSetTheorems

\* A set without two members counts one or none.
LEMMA AtMostOne ==
  ASSUME NEW S, \A x, y \in S : x = y
  PROVE  Cardinality(S) = IF S = {} THEN 0 ELSE 1
<1>1. CASE S = {}
  BY Zenon, <1>1, FS_EmptySet
<1>2. CASE S # {}
  <2>1. PICK x : x \in S
    BY Zenon, <1>2
  <2>2. S = {x}
    BY Zenon, <2>1
  <2>. QED BY Zenon, <1>2, <2>2, FS_Singleton
<1>. QED BY Zenon, <1>1, <1>2

\* Counting what Apart and Held say.
LEMMA PlacesCount == Shape /\ PlacesInv /\ Graceful => InOnePlace
<1>. SUFFICES ASSUME Shape, PlacesInv, ~laStopped, NEW r \in Runs, ~Over(r), ~wft[r].closed,
                    NEW a \in ActsOf(r)
             PROVE  Places(Item(a, r)) = IF act[a].status = "pending" THEN 1 ELSE 0
  BY Zenon DEF InOnePlace, InTask, Graceful, Over, At
<1>. DEFINE i == Item(a, r)
            Q == {k \in DOMAIN queue : queue[k] = i}
            X == {s \in Slots : exec[s].item = i}
<1>1. i \in Items /\ i.act = a /\ RunOfItem(i) = r
  BY Zenon, ItemType DEF Shape, Typing, ActsOf, Item, RunOfItem
<1>2. \A k, l \in Q : k = l
  BY Zenon DEF PlacesInv, Apart
<1>3. \A s, t \in X : s = t
  BY Zenon, <1>1, NoneIsNoItem DEF PlacesInv, Apart
<1>4. i \in Sent <=> Q # {} \/ X # {} \/ i \in timers
  BY Zenon, <1>1 DEF Sent
<1>5. (Q = {} \/ X = {}) /\ (Q = {} \/ i \notin timers) /\ (X = {} \/ i \notin timers)
  BY DEF PlacesInv, Apart
<1>6. act[a].status = "pending" <=> i \in Sent \/ a \in wft[r].unstarted
  BY Zenon DEF PlacesInv, Held, HeldOf
<1>7. ~(i \in Sent /\ a \in wft[r].unstarted)
  BY Zenon DEF PlacesInv, Unsent, UnsentOf
<1>8. Cardinality(Q) = IF Q = {} THEN 0 ELSE 1
  BY Zenon, <1>2, AtMostOne
<1>9. Cardinality(X) = IF X = {} THEN 0 ELSE 1
  BY Zenon, <1>3, AtMostOne
<1>10. Places(i) = Cardinality(Q) + Cardinality(X) + (IF i \in timers THEN 1 ELSE 0)
                   + (IF a \in wft[r].unstarted THEN 1 ELSE 0)
  BY Zenon, <1>1 DEF Places
<1>. HIDE DEF i, Q, X
<1>11. Places(i) = IF act[a].status = "pending" THEN 1 ELSE 0
  BY <1>4, <1>5, <1>6, <1>7, <1>8, <1>9, <1>10
<1>. QED BY Zenon, <1>11 DEF i

\* As long as the answer to a heartbeat brings the next task, a task that waits for
\* an activity has it in exactly one place: its result comes, and comes once.  A
\* stop of the workers changes that only if it times out (workflowWorker.Stop).
THEOREM AlwaysInOnePlace ==
  ASSUME HeartbeatReturns \subseteq {TRUE}
  PROVE  Spec => []InOnePlace
<1>. Shape /\ PlacesInv /\ [Next]_vars => PlacesInv'
  BY Zenon, PlacesStep
<1>. QED BY PlacesInit, ShapeAlways, GracefulAlways, PlacesCount, PTL DEF Spec

=============================================================================
