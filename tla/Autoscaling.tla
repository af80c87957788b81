----------------------------- MODULE Autoscaling -----------------------------
(***************************************************************************)
(* Autoscaling workflow pollers: the normal and the sticky runner with one *)
(* manager goroutine each, the balancer they share, the store of poller    *)
(* groups, the pollers' autoscalers, and the polls in flight with their    *)
(* slots.  Shutdown is not modelled here.                                  *)
(*                                                                         *)
(* A manager asks the balancer for its turn, its runner for capacity, the  *)
(* balancer for a group, and the supplier for a slot; then it starts a     *)
(* goroutine with the poll.  The balancer wakes by closing a channel and   *)
(* replacing it: `woken' says that the channel a waiting manager holds is  *)
(* closed.  The store does the same once per version, so the channel that  *)
(* came with version `seen' is closed when the store has another version.  *)
(***************************************************************************)
EXTENDS Integers, Sequences, FiniteSets

CONSTANTS
    Groups,             \* poller group IDs
    History,            \* the server's group sets: version v is History[v]
    Slots,              \* of the workflow worker
    MaxSlots,           \* what its supplier reports: Slots, or 0 for no fixed number
    Minimum, Maximum, Initial,      \* of the poller behaviour
    Backlogs,           \* values of the backlog hint
    ServerSupportsAutoscaling,
    Polls,              \* poll goroutines: a bound on how many exist
    None

ASSUME AutoscalingAssumption ==
    /\ 1 \in DOMAIN History /\ DOMAIN History \subseteq Nat \ {0}
    /\ \A v \in DOMAIN History : History[v] \subseteq Groups
    /\ {Slots, Minimum, Maximum, Initial} \subseteq Nat \ {0}
    /\ MaxSlots \in {0, Slots}
    /\ Minimum <= Initial /\ Initial <= Maximum
    /\ Backlogs \subseteq Nat
    /\ ServerSupportsAutoscaling \in BOOLEAN
    /\ None \notin Groups \cup [group : Groups \cup {None}, key : Nat]

VARIABLES
    store,      \* pollerGroupSnapshotStore
    bal,        \* workflowAutoscalingBalancer
    runner,     \* autoscalingTaskPollerRunner and pollerAutoscaler of each kind
    mgr,        \* runAutoscalingPoller of each kind
    poll,       \* polls in flight
    queue,      \* managers waiting for a slot, in the semaphore's order
    free,       \* slots of the supplier
    busy        \* slots of tasks at the dispatcher or being processed
vars == <<store, bal, runner, mgr, poll, queue, free, busy>>

Kinds == {"normal", "sticky"}
otherQueueKind(k) == IF k = "sticky" THEN "normal" ELSE "sticky"
Larger(m, n) == IF m > n THEN m ELSE n
Zero == [k \in Kinds |-> 0]
total(counts) == counts["normal"] + counts["sticky"]

minMeaningfulStickyBacklog == 2

-----------------------------------------------------------------------------
(* The group store.  A group keeps its key while consecutive snapshots     *)
(* have it; one that comes back has the version of its return.             *)

Known == DOMAIN store.groups

updateGroups(v) ==
    /\ v > store.version
    /\ store' = [version |-> v,
                 groups |-> [g \in History[v] |-> IF g \in Known THEN store.groups[g] ELSE v]]

\* Any poller of the task queue may bring a snapshot, also an old one.
GroupsInfo ==
    /\ \E v \in DOMAIN History : updateGroups(v)
    /\ UNCHANGED <<bal, runner, mgr, poll, queue, free, busy>>

-----------------------------------------------------------------------------
(* The balancer: what is decided under its mutex.                          *)

NewGroup(key) == [key |-> key, res |-> Zero, backlog |-> 0]

syncGroupsLocked ==
    [res |-> bal.res, active |-> bal.active, target |-> bal.target,
     backlog |-> IF Known # {} THEN 0 ELSE bal.backlog,
     groups |-> [g \in Known |->
                   IF g \in DOMAIN bal.groups /\ bal.groups[g].key = store.groups[g]
                   THEN bal.groups[g] ELSE NewGroup(store.groups[g])]]

coverageCandidates(b, k) == {g \in DOMAIN b.groups : b.groups[g].res[k] = 0}

stickyCandidates(b) ==
    {g \in DOMAIN b.groups : /\ b.groups[g].backlog >= minMeaningfulStickyBacklog
                             /\ b.groups[g].backlog > b.groups[g].res["sticky"]}

stickyCanGrow(b) == b.res["sticky"] < b.target

Missing(b, k) == coverageCandidates(b, k) # {}

\* No group lacks either kind: sticky polls go first while a backlog lets them grow.
StickyFirst(b, k) ==
    /\ \A j \in Kinds : ~Missing(b, j)
    /\ LET grow == stickyCandidates(b) # {} /\ stickyCanGrow(b)
       IN  IF k = "sticky" THEN grow ELSE ~grow

\* Fault: with groups missing for both, the kinds wait for each other.
eligibleWhenFewer(b, k) ==
    \/ DOMAIN b.groups = {}
    \/ Missing(b, k) /\ ~(Missing(b, otherQueueKind(k)) /\ b.res[k] >= b.res[otherQueueKind(k)])
    \/ StickyFirst(b, k)

\* Whether a kind may poll, and the groups it may target; without groups it
\* polls ungrouped.
eligible(b, k) ==
    \/ DOMAIN b.groups = {}
    \/ Missing(b, k) /\ ~(Missing(b, otherQueueKind(k)) /\ b.res[k] > b.res[otherQueueKind(k)])
    \/ StickyFirst(b, k)

eligibleGroups(b, k) ==
    IF Missing(b, k) THEN coverageCandidates(b, k)
    ELSE IF k = "sticky" THEN stickyCandidates(b) ELSE DOMAIN b.groups

needsMoreStickyPolls(b) ==
    /\ b.backlog >= minMeaningfulStickyBacklog
    /\ b.backlog > b.res["sticky"]
    /\ stickyCanGrow(b)

hasFiniteCapacity == MaxSlots > 0

canPollKind(b, k) ==
    \/ b.active[k] = 0
    \/ /\ \/ b.active[otherQueueKind(k)] # 0
          \/ hasFiniteCapacity /\ b.active[k] + 1 < MaxSlots
       /\ k = "normal" => ~needsMoreStickyPolls(b)
       /\ k = "sticky" => stickyCanGrow(b)
       /\ \/ k = "sticky" /\ needsMoreStickyPolls(b)
          \/ ~hasFiniteCapacity
          \/ total(b.active) < MaxSlots

canTakeTurn(b, k) == eligible(b, k) /\ (Missing(b, k) \/ canPollKind(b, k))

\* A lease names the group by its key; an ungrouped one has no group.
Lease(g) == [group |-> g, key |-> IF g = None THEN 0 ELSE store.groups[g]]

Reserved(b, k, g) ==
    IF g = None THEN [b EXCEPT !.res[k] = @ + 1]
    ELSE [b EXCEPT !.res[k] = @ + 1, !.groups[g].res[k] = @ + 1]

\* Fault: the group is found by its ID alone.
releaseReservationByID(b, k, l) ==
    LET g == l.group
        fewer == [b EXCEPT !.res[k] = Larger(@ - 1, 0)]
    IN  IF g \in DOMAIN b.groups /\ b.groups[g].res[k] > 0
        THEN [fewer EXCEPT !.groups[g].res[k] = @ - 1] ELSE fewer

releaseReservationLocked(b, k, l) ==
    LET g == l.group
        fewer == [b EXCEPT !.res[k] = Larger(@ - 1, 0)]
    IN  IF g \in DOMAIN b.groups /\ b.groups[g].key = l.key /\ b.groups[g].res[k] > 0
        THEN [fewer EXCEPT !.groups[g].res[k] = @ - 1] ELSE fewer

-----------------------------------------------------------------------------
(* Managers.                                                               *)

wakeWaiters(ms) ==
    [k \in Kinds |-> IF ms[k].pc \in {"turnWait", "acquireWait"}
                     THEN [ms[k] EXCEPT !.woken = TRUE] ELSE ms[k]]

At(k, pc) == mgr[k].pc = pc
Manages(pc, lease, seen) == [pc |-> pc, lease |-> lease, seen |-> seen, woken |-> FALSE]
Goto(k, pc) == mgr' = [mgr EXCEPT ![k] = Manages(pc, @.lease, 0)]

\* Goes on with the channels of this moment.
GotoWith(k, pc) == mgr' = [mgr EXCEPT ![k] = Manages(pc, @.lease, store.version)]

Changed(k) == mgr[k].seen # store.version
Resumes(k, pc) == At(k, pc) /\ (mgr[k].woken \/ Changed(k))

\* runAutoscalingPoller begins a round.
waitForPollTurn(k) ==
    /\ At(k, "top") \/ Resumes(k, "turnWait")
    /\ bal' = syncGroupsLocked
    /\ GotoWith(k, IF canTakeTurn(syncGroupsLocked, k) THEN "capacity" ELSE "turnWait")
    /\ UNCHANGED <<store, runner, poll, queue, free, busy>>

effectivePollerTarget(current, requiredMin) ==
    LET low == Larger(Minimum, requiredMin)
        high == Larger(Maximum, low)
    IN  IF current < low THEN low ELSE IF current > high THEN high ELSE current

effectiveTarget(k) == effectivePollerTarget(runner[k].target, Cardinality(Known))

\* acquire of the runner, one round under activeMu.  The store's channel was
\* noted before, so a change during the round is not missed.
AcquireCapacity(k) ==
    /\ At(k, "capacity")
    /\ IF runner[k].active < effectiveTarget(k)
       THEN UNCHANGED bal ELSE bal' = syncGroupsLocked
    /\ IF runner[k].active < effectiveTarget(k) \/ Missing(syncGroupsLocked, k)
       THEN runner' = [runner EXCEPT ![k].active = @ + 1] /\ Goto(k, "acquire")
       ELSE UNCHANGED runner /\ mgr' = [mgr EXCEPT ![k].pc = "capacityWait"]
    /\ UNCHANGED <<store, poll, queue, free, busy>>

CapacityWakes(k) ==
    /\ At(k, "capacityWait")
    /\ \/ runner[k].wake /\ runner' = [runner EXCEPT ![k].wake = FALSE]
       \/ Changed(k) /\ UNCHANGED runner
    /\ GotoWith(k, "capacity")
    /\ UNCHANGED <<store, bal, poll, queue, free, busy>>

\* The balancer's acquire; choosePollerGroup picks any candidate.
AcquireGroup(k, g) ==
    /\ At(k, "acquire") \/ Resumes(k, "acquireWait")
    /\ LET b == syncGroupsLocked
       IN  /\ eligible(b, k)
           /\ IF Known = {} THEN g = None ELSE g \in eligibleGroups(b, k)
           /\ bal' = Reserved(b, k, g)
    /\ mgr' = [wakeWaiters(mgr) EXCEPT ![k] = Manages("reserving", Lease(g), 0)]
    /\ queue' = Append(queue, k)
    /\ UNCHANGED <<store, runner, poll, free, busy>>

AcquireWaits(k) ==
    /\ At(k, "acquire") \/ Resumes(k, "acquireWait")
    /\ ~eligible(syncGroupsLocked, k)
    /\ bal' = syncGroupsLocked
    /\ GotoWith(k, "acquireWait")
    /\ UNCHANGED <<store, runner, poll, queue, free, busy>>

\* The bound Polls has room for another poll.
NoPoll == [kind |-> "none", lease |-> None, pc |-> "free", answered |-> FALSE, target |-> 0]
Room == Cardinality({i \in Polls : poll[i] = NoPoll}) > Cardinality({k \in Kinds : At(k, "permit")})

\* A slot goes to the manager that waits longest.
ReserveSlot(k) ==
    /\ queue # <<>> /\ k = Head(queue)
    /\ free > 0 /\ Room
    /\ free' = free - 1
    /\ queue' = Tail(queue)
    /\ Goto(k, "permit")
    /\ UNCHANGED <<store, bal, runner, poll, busy>>

\* The runner's release.
Returned(k) ==
    [runner EXCEPT ![k] = [active |-> @.active - 1, target |-> @.target, wake |-> TRUE,
                           saw |-> @.saw]]

\* ReserveSlot of the supplier fails: the admission goes back, and the manager
\* tries again.
ReserveFails(k) ==
    /\ At(k, "reserving")
    /\ \E n \in DOMAIN queue :
          /\ queue[n] = k
          /\ queue' = [m \in 1 .. Len(queue) - 1 |-> queue[IF m < n THEN m ELSE m + 1]]
    /\ bal' = releaseReservationLocked(bal, k, mgr[k].lease)
    /\ runner' = Returned(k)
    /\ mgr' = [wakeWaiters(mgr) EXCEPT ![k] = Manages("top", None, 0)]
    /\ UNCHANGED <<store, poll, free, busy>>

\* The poll's goroutine starts.
Start(k) ==
    /\ At(k, "permit") /\ \E j \in Polls : poll[j] = NoPoll
    /\ LET i == CHOOSE j \in Polls : poll[j] = NoPoll
       IN  poll' = [poll EXCEPT ![i] = [kind |-> k, lease |-> mgr[k].lease, pc |-> "polling",
                                        answered |-> FALSE, target |-> 0]]
    /\ bal' = [bal EXCEPT !.active[k] = @ + 1]
    /\ mgr' = [wakeWaiters(mgr) EXCEPT ![k] = Manages("top", None, 0)]
    /\ UNCHANGED <<store, runner, queue, free, busy>>

PollsOf(k) == {i \in Polls : poll[i].kind = k}

-----------------------------------------------------------------------------
(* Polls.                                                                  *)

Answers == {"task", "empty"}

PollAt(i, pc) == poll[i].pc = pc
PollGoto(i, pc, answered, target) ==
    poll' = [poll EXCEPT ![i] = [kind |-> @.kind, lease |-> @.lease, pc |-> pc,
                                 answered |-> answered, target |-> target]]

setStickyGroupBacklog(g, n) ==
    LET b == syncGroupsLocked
        ungrouped == Known = {} /\ g = None
        new == IF ungrouped THEN [b EXCEPT !.backlog = n]
               ELSE IF g \in DOMAIN b.groups THEN [b EXCEPT !.groups[g].backlog = n] ELSE b
    IN  bal' = new /\ mgr' = IF new # b THEN wakeWaiters(mgr) ELSE mgr

\* The autoscaler's next target when the server decides nothing.
NoDecision(k, a, t) ==
    CASE a = "task" \/ ~runner[k].saw -> t
      [] a = "exhausted" -> t \div 2
      [] OTHER -> t - 1

\* The targets that may follow an answer, before they are clamped: the server's
\* delta is any number.  A decision to scale up also needs scaleUpAllowed, which
\* depends on the last two periods.
Clamp(t) == effectivePollerTarget(t, 0)
Decisions(k, a) ==
    LET t == runner[k].target
    IN  {[target |-> NoDecision(k, a, t), saw |-> runner[k].saw]}
        \cup (IF a \in Answers THEN {[target |-> n, saw |-> TRUE] : n \in Minimum - 1 .. Maximum + 1}
                               ELSE {})

\* An answer gives the slot to the dispatcher, even an empty one; without an
\* answer the slot is released.
HandOver(answered) ==
    IF answered
    THEN busy' = busy + 1 /\ UNCHANGED free
    ELSE free' = free + 1 /\ UNCHANGED busy

\* The poll returns; a sticky answer has a backlog hint.  The autoscaler
\* changes its target, and the callback follows.
PollReturns(i) ==
    /\ PollAt(i, "polling")
    /\ \E a \in Answers \cup {"error", "exhausted"} :
          /\ IF poll[i].kind = "sticky" /\ a \in Answers
             THEN \E g \in Groups \cup {None}, n \in Backlogs : setStickyGroupBacklog(g, n)
             ELSE UNCHANGED <<bal, mgr>>
          /\ \E d \in Decisions(poll[i].kind, a) :
                /\ runner' = [runner EXCEPT ![poll[i].kind] =
                                 [active |-> @.active, target |-> Clamp(d.target),
                                  wake |-> @.wake, saw |-> d.saw]]
                /\ IF d.target = runner[poll[i].kind].target
                   THEN HandOver(a \in Answers) /\ PollGoto(i, "finish", FALSE, 0)
                   ELSE PollGoto(i, "changed", a \in Answers, 0) /\ UNCHANGED <<free, busy>>
    /\ UNCHANGED <<store, queue>>

\* Fault: updateTarget without targetChangedMu.
LoadTargetUnlocked(i) ==
    /\ PollAt(i, "changed") /\ poll[i].kind = "sticky"
    /\ PollGoto(i, "notify", poll[i].answered, runner["sticky"].target)
    /\ UNCHANGED <<store, bal, runner, mgr, queue, free, busy>>

\* updateTarget calls back with the target it loads under targetChangedMu.
\* Only the sticky callback uses it.
LoadTarget(i) ==
    /\ PollAt(i, "changed") /\ poll[i].kind = "sticky"
    /\ \A j \in PollsOf("sticky") : poll[j].pc # "notify"
    /\ PollGoto(i, "notify", poll[i].answered, runner["sticky"].target)
    /\ UNCHANGED <<store, bal, runner, mgr, queue, free, busy>>

TargetChanged(i) ==
    /\ \/ PollAt(i, "notify") /\ bal' = [bal EXCEPT !.target = poll[i].target]
       \/ PollAt(i, "changed") /\ poll[i].kind = "normal" /\ UNCHANGED bal
    /\ runner' = [runner EXCEPT ![poll[i].kind].wake = TRUE]
    /\ mgr' = wakeWaiters(mgr)
    /\ PollGoto(i, "finish", FALSE, 0)
    /\ HandOver(poll[i].answered)
    /\ UNCHANGED <<store, queue>>

TaskProcessed ==
    /\ busy > 0
    /\ busy' = busy - 1 /\ free' = free + 1
    /\ UNCHANGED <<store, bal, runner, mgr, poll, queue>>

releaseActivePoll(i) ==
    /\ PollAt(i, "finish")
    /\ bal' = releaseReservationLocked([bal EXCEPT !.active[poll[i].kind] = @ - 1],
                                       poll[i].kind, poll[i].lease)
    /\ mgr' = wakeWaiters(mgr)
    /\ poll' = [poll EXCEPT ![i] = [kind |-> @.kind, lease |-> None, pc |-> "release",
                                    answered |-> FALSE, target |-> 0]]
    /\ UNCHANGED <<store, runner, queue, free, busy>>

\* Fault: the runner's release wakes nobody.
ReleaseQuietly(i) ==
    /\ PollAt(i, "release")
    /\ runner' = [runner EXCEPT ![poll[i].kind].active = @ - 1]
    /\ poll' = [poll EXCEPT ![i] = NoPoll]
    /\ UNCHANGED <<store, bal, mgr, queue, free, busy>>

Release(i) ==
    /\ PollAt(i, "release")
    /\ runner' = Returned(poll[i].kind)
    /\ poll' = [poll EXCEPT ![i] = NoPoll]
    /\ UNCHANGED <<store, bal, mgr, queue, free, busy>>

-----------------------------------------------------------------------------

Init ==
    /\ store = [version |-> 1, groups |-> [g \in History[1] |-> 1]]
    /\ bal = [res |-> Zero, active |-> Zero, target |-> Initial, backlog |-> 0,
              groups |-> [g \in {} |-> NewGroup(0)]]
    /\ runner = [k \in Kinds |-> [active |-> 0, target |-> Initial, wake |-> FALSE,
                                  saw |-> ServerSupportsAutoscaling]]
    /\ mgr = [k \in Kinds |-> [pc |-> "top", lease |-> None, seen |-> 0, woken |-> FALSE]]
    /\ poll = [i \in Polls |-> NoPoll]
    /\ queue = <<>> /\ free = Slots /\ busy = 0

Manager(k) ==
    \/ waitForPollTurn(k) \/ AcquireCapacity(k) \/ CapacityWakes(k)
    \/ \E g \in Groups \cup {None} : AcquireGroup(k, g)
    \/ AcquireWaits(k) \/ Start(k)

Poll(i) ==
    PollReturns(i) \/ LoadTarget(i) \/ TargetChanged(i) \/ releaseActivePoll(i) \/ Release(i)

Next ==
    \/ GroupsInfo
    \/ \E k \in Kinds : Manager(k) \/ ReserveSlot(k) \/ ReserveFails(k)
    \/ \E i \in Polls : Poll(i)
    \/ TaskProcessed

Spec == Init /\ [][Next]_vars

\* Goroutines run, polls time out and tasks are processed; the supplier does not
\* fail for ever.  (With several groups EveryGroupIsPolled also needs a random
\* choice that does not pass over one of them for ever.)
FairSpec ==
    /\ Spec
    /\ \A k \in Kinds : WF_vars(Manager(k) \/ ReserveSlot(k))
    /\ \A i \in Polls : WF_vars(Poll(i))
    /\ WF_vars(TaskProcessed)
    /\ <>[][\A k \in Kinds : ~ReserveFails(k)]_vars

-----------------------------------------------------------------------------
(* Properties.                                                             *)

Leases == {mgr[k].lease : k \in Kinds} \cup {poll[i].lease : i \in Polls}

Started(k, ls) == Cardinality({i \in PollsOf(k) : poll[i].lease \in ls})
Out(k, ls) == Started(k, ls) + (IF mgr[k].lease \in ls THEN 1 ELSE 0)

\* The balancer's counts are the leases that are out: of a kind, of a kind and
\* a group as long as the group lives, and started ones.  A lease that outlives
\* its group never counts for the group that has its name later
\* (releaseReservationLocked, syncGroupsLocked).
CountsAreLeases ==
    \A k \in Kinds :
        /\ bal.res[k] = Out(k, Leases \ {None})
        /\ bal.active[k] = Started(k, Leases \ {None})
        /\ \A g \in DOMAIN bal.groups :
              bal.groups[g].res[k] = Out(k, {[group |-> g, key |-> bal.groups[g].key]})

\* A manager sleeps only while it has to: when what it waits for has come, its
\* channel is closed, its token is there, or the poll that will put it there
\* is on its way (waitForPollTurn, acquire, wakeWaiters, wakeCapacityWaiter).
NoLostWakeup ==
    \A k \in Kinds :
        LET b == syncGroupsLocked
            quiet == ~mgr[k].woken /\ ~Changed(k)
        IN  /\ At(k, "turnWait") /\ quiet => ~canTakeTurn(b, k)
            /\ At(k, "acquireWait") /\ quiet => ~eligible(b, k)
            /\ At(k, "capacityWait") /\ ~Changed(k) /\ ~runner[k].wake
                  /\ (\A i \in PollsOf(k) : poll[i].pc \notin {"changed", "notify", "release"})
               => ~(runner[k].active < effectiveTarget(k)) /\ ~Missing(b, k)

\* The balancer works with the sticky autoscaler's target once the callbacks
\* are through, whatever their order (updateTarget, setStickyTarget).
StickyTargetFollows ==
    (\A i \in PollsOf("sticky") : poll[i].pc \notin {"changed", "notify"})
        => bal.target = runner["sticky"].target

\* Both kinds poll every group the server lists again and again, or poll
\* without a group when it lists none, whatever backlog hints are kept and
\* however the targets move (canPollKind, eligibleGroups, hasCoverageGap).
EveryGroupIsPolled ==
    \A k \in Kinds, g \in Groups \cup {None} :
        []<>(\/ IF g = None THEN Known # {} ELSE g \notin Known
             \/ \E i \in PollsOf(k) : poll[i].pc = "polling" /\ poll[i].lease = Lease(g))

=============================================================================
