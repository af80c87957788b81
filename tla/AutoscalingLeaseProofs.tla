------------------------ MODULE AutoscalingLeaseProofs ------------------------
(***************************************************************************)
(* CountsAreLeases of Autoscaling, for any groups, group history, slots,   *)
(* poller bounds, backlog hints and number of polls.                       *)
(*                                                                         *)
(* A lease is with the manager that waits for its slot or with the poll it *)
(* was started for, never with both.  The store gives a group that comes   *)
(* back a key no lease has, so a lease that is out under the key the store *)
(* knows is a lease of the group the balancer counts for.                  *)
(***************************************************************************)
EXTENDS AutoscalingProofs

\* A manager in the semaphore's queue is there once, and has its lease.
QueueOK ==
    /\ queue \in Seq(Kinds)
    /\ \A m \in 1 .. Len(queue) : mgr[queue[m]].pc = "reserving"
    /\ \A m, n \in 1 .. Len(queue) : m # n => queue[m] # queue[n]

\* Who has a lease.
HoldersOK ==
    /\ \A k \in Kinds : mgr[k].lease # None <=> mgr[k].pc \in {"reserving", "permit"}
    /\ \A i \in Polls :
          poll[i].lease # None <=> poll[i].pc \in {"polling", "changed", "notify", "finish"}

Held(l) == (\E k \in Kinds : mgr[k].lease = l) \/ (\E i \in Polls : poll[i].lease = l)

\* No key is later than the store; a lease under the store's key of its group is
\* one the balancer counts for that group.
KeysOK ==
    /\ \A g \in Known : store.groups[g] <= store.version
    /\ \A l \in LeaseType :
          Held(l) => /\ l.key <= store.version
                     /\ l.group \in Known /\ store.groups[l.group] = l.key
                           => l.group \in DOMAIN bal.groups /\ bal.groups[l.group].key = l.key

Holders(k) == {i \in Polls : poll[i].kind = k /\ poll[i].lease # None}
HoldersOf(k, l) == {i \in Polls : poll[i].kind = k /\ poll[i].lease = l}
LeaseOf(b, g) == [group |-> g, key |-> b.groups[g].key]

\* A balancer b counts the leases of a kind that are out.
KindCounts(b, k) ==
    /\ b.active[k] = Cardinality(Holders(k))
    /\ b.res[k] = Cardinality(Holders(k)) + (IF mgr[k].lease # None THEN 1 ELSE 0)
    /\ \A g \in DOMAIN b.groups :
          b.groups[g].res[k] = Cardinality(HoldersOf(k, LeaseOf(b, g)))
                               + (IF mgr[k].lease = LeaseOf(b, g) THEN 1 ELSE 0)

CountsFor(b) == \A k \in Kinds : KindCounts(b, k)
CountsOK == CountsFor(bal) /\ \A k \in Kinds : IsFiniteSet(Holders(k))

-----------------------------------------------------------------------------
(* What a step does to leases.                                             *)

WithLease == {"reserving", "permit"}
PollWithLease == {"polling", "changed", "notify", "finish"}

\* Managers keep their leases and their places in the queue.
ManagersKeep ==
    /\ UNCHANGED queue
    /\ \A k \in Kinds : /\ mgr'[k].lease = mgr[k].lease
                        /\ \/ mgr'[k].pc = mgr[k].pc
                           \/ mgr'[k].pc \notin WithLease /\ mgr[k].pc \notin WithLease

\* Polls keep their leases.
PollsKeep ==
    \A i \in Polls : /\ poll'[i].lease = poll[i].lease
                     /\ poll[i].lease # None => poll'[i].kind = poll[i].kind
                     /\ poll'[i].pc \in PollWithLease <=> poll[i].pc \in PollWithLease

\* The balancer counts nothing; it may have looked at the store.
BalKeeps ==
    /\ bal'.res = bal.res /\ bal'.active = bal.active
    /\ \/ \A k \in Kinds : SameCover(bal', bal, k)
       \/ UNCHANGED store /\ \A k \in Kinds : SameCover(bal', syncGroupsLocked, k)

Calm == ManagersKeep /\ PollsKeep /\ BalKeeps

\* A manager that moves, and the ones it wakes.
LEMMA ManagerMoves ==
  ASSUME mgr \in [Kinds -> ManagerType], NEW k \in Kinds, NEW pc, NEW lease, NEW seen,
         \/ mgr' = [mgr EXCEPT ![k] = Manages(pc, lease, seen)]
         \/ mgr' = [wakeWaiters(mgr) EXCEPT ![k] = Manages(pc, lease, seen)]
  PROVE  /\ mgr'[k].pc = pc /\ mgr'[k].lease = lease
         /\ \A j \in Kinds : j # k => mgr'[j].pc = mgr[j].pc /\ mgr'[j].lease = mgr[j].lease
<1>. DEFINE woken == wakeWaiters(mgr)
<1>1. \A j \in Kinds : woken[j].pc = mgr[j].pc /\ woken[j].lease = mgr[j].lease
  BY Zenon DEF wakeWaiters, ManagerType
<1>2. DOMAIN woken = Kinds /\ DOMAIN mgr = Kinds
  BY DEF wakeWaiters
<1>3. \A j \in Kinds : \/ j = k /\ mgr'[j] = Manages(pc, lease, seen)
                       \/ j # k /\ mgr'[j] \in {mgr[j], woken[j]}
  BY Zenon, <1>2
<1>4. Manages(pc, lease, seen).pc = pc /\ Manages(pc, lease, seen).lease = lease
  BY DEF Manages
<1>. HIDE DEF woken
<1>. QED BY <1>1, <1>3, <1>4

\* Waking leaves leases and places alone.
LEMMA WakingKeeps ==
  ASSUME mgr \in [Kinds -> ManagerType], mgr' = mgr \/ mgr' = wakeWaiters(mgr), UNCHANGED queue
  PROVE  ManagersKeep
<1>1. \A j \in Kinds : mgr'[j].pc = mgr[j].pc /\ mgr'[j].lease = mgr[j].lease
  BY Zenon DEF wakeWaiters, ManagerType
<1>. QED BY <1>1 DEF ManagersKeep

\* A look at the store counts nothing.
LEMMA SyncKeeps ==
  ASSUME bal' = syncGroupsLocked, UNCHANGED store
  PROVE  BalKeeps
  BY Zenon DEF BalKeeps, syncGroupsLocked, SameCover

\* Nor does a backlog hint.
LEMMA HintKeeps ==
  ASSUME Typing, NEW g \in Groups \cup {None}, NEW n \in Backlogs, setStickyGroupBacklog(g, n),
         UNCHANGED store
  PROVE  BalKeeps
<1>. DEFINE b == syncGroupsLocked
<1>1. b \in BalancerType /\ b.res = bal.res /\ b.active = bal.active
  BY SyncType DEF Typing, syncGroupsLocked
<1>2. \/ bal' = b \/ bal' = [b EXCEPT !.backlog = n]
      \/ bal' = [b EXCEPT !.groups[g].backlog = n]
  BY Zenon DEF setStickyGroupBacklog
<1>. HIDE DEF b
<1>3. bal'.res = bal.res /\ bal'.active = bal.active
  BY <1>1, <1>2 DEF BalancerType
<1>4. \A k \in Kinds : SameCover(bal', b, k)
  BY Zenon, BacklogType DEF b
<1>. QED BY <1>3, <1>4 DEF BalKeeps, b

\* A manager's steps without a lease.
LEMMA ManagerCalm ==
  ASSUME Typing, HoldersOK, NEW k \in Kinds,
         waitForPollTurn(k) \/ AcquireCapacity(k) \/ CapacityWakes(k) \/ AcquireWaits(k)
  PROVE  Calm
<1>1. UNCHANGED <<store, poll, queue>>
  BY Zenon DEF waitForPollTurn, AcquireCapacity, CapacityWakes, AcquireWaits
<1>2. PollsKeep
  BY <1>1 DEF PollsKeep
<1>3. mgr \in [Kinds -> ManagerType] /\ mgr[k].pc \notin WithLease
  BY DEF Typing, MgrOK, waitForPollTurn, AcquireCapacity, CapacityWakes, AcquireWaits, At, Resumes,
         WithLease
<1>4. ManagersKeep
  <2>1. ASSUME NEW pc \in ManagerPcs \ WithLease, NEW seen,
               mgr' = [mgr EXCEPT ![k] = Manages(pc, @.lease, seen)]
        PROVE  ManagersKeep
    <3>1. /\ mgr'[k].pc = pc /\ mgr'[k].lease = mgr[k].lease
          /\ \A j \in Kinds : j # k => mgr'[j].pc = mgr[j].pc /\ mgr'[j].lease = mgr[j].lease
      BY Zenon, <1>3, <2>1, ManagerMoves
    <3>. QED BY <1>1, <1>3, <3>1 DEF ManagersKeep
  <2>2. CASE mgr' = [mgr EXCEPT ![k].pc = "capacityWait"]
    BY <1>1, <1>3, <2>2 DEF ManagersKeep, ManagerType, WithLease
  <2>3. {"capacity", "turnWait", "acquire", "acquireWait"} \subseteq ManagerPcs \ WithLease
    BY DEF ManagerPcs, WithLease
  <2>. QED BY Zenon, <2>1, <2>2, <2>3 DEF waitForPollTurn, AcquireCapacity, CapacityWakes,
              AcquireWaits, Goto, GotoWith
<1>5. bal' = bal \/ bal' = syncGroupsLocked
  BY Zenon DEF waitForPollTurn, AcquireCapacity, CapacityWakes, AcquireWaits
<1>6. BalKeeps
  BY <1>1, <1>5, SyncKeeps DEF BalKeeps, SameCover
<1>. QED BY <1>2, <1>4, <1>6 DEF Calm

\* A poll's steps while it keeps its lease, or after it.
LEMMA PollCalm ==
  ASSUME Typing, HoldersOK, NEW i \in Polls,
         PollReturns(i) \/ LoadTarget(i) \/ TargetChanged(i) \/ Release(i)
  PROVE  Calm
<1>0. /\ poll \in [Polls -> PollType] /\ mgr \in [Kinds -> ManagerType] /\ bal \in BalancerType
      /\ UNCHANGED <<store, queue>>
  BY Zenon DEF Typing, PollOK, MgrOK, BalOK, PollReturns, LoadTarget, TargetChanged, Release
<1>1. ManagersKeep
  <2>1. mgr' = mgr \/ mgr' = wakeWaiters(mgr)
    BY Zenon DEF PollReturns, setStickyGroupBacklog, LoadTarget, TargetChanged, Release
  <2>. QED BY <1>0, <2>1, WakingKeeps
<1>2. PollsKeep
  <2>1. ASSUME NEW pc \in PollWithLease, NEW answered, NEW target, PollGoto(i, pc, answered, target),
               poll[i].pc \in PollWithLease
        PROVE  PollsKeep
    BY <1>0, <2>1 DEF PollGoto, PollsKeep
  <2>2. CASE Release(i)
    BY <1>0, <2>2 DEF Release, PollAt, NoPoll, HoldersOK, PollWithLease, PollsKeep
  <2>3. {"polling", "changed", "notify", "finish"} \subseteq PollWithLease
    BY DEF PollWithLease
  <2>. QED BY Zenon, <2>1, <2>2, <2>3 DEF PollReturns, LoadTarget, TargetChanged, PollAt
<1>3. BalKeeps
  <2>1. CASE bal' = bal
    BY <2>1 DEF BalKeeps, SameCover
  <2>2. CASE bal' = [bal EXCEPT !.target = poll[i].target]
    BY <1>0, <2>2 DEF BalKeeps, SameCover, BalancerType
  <2>3. CASE \E g \in Groups \cup {None}, n \in Backlogs : setStickyGroupBacklog(g, n)
    BY <1>0, <2>3, HintKeeps
  <2>. QED BY Zenon, <2>1, <2>2, <2>3 DEF PollReturns, LoadTarget, TargetChanged, Release
<1>. QED BY <1>1, <1>2, <1>3 DEF Calm

\* The steps that move no lease.
LEMMA CalmStep ==
  ASSUME Typing, HoldersOK, [Next]_vars,
         ~\E k \in Kinds : \/ \E g \in Groups \cup {None} : AcquireGroup(k, g)
                           \/ ReserveSlot(k) \/ ReserveFails(k) \/ Start(k),
         ~\E i \in Polls : releaseActivePoll(i)
  PROVE  Calm
<1>1. CASE GroupsInfo \/ TaskProcessed \/ UNCHANGED vars
  BY <1>1 DEF GroupsInfo, TaskProcessed, vars, Calm, ManagersKeep, PollsKeep, BalKeeps, SameCover
<1>. QED BY Zenon, <1>1, ManagerCalm, PollCalm DEF Next, Manager, Poll

-----------------------------------------------------------------------------
(* Who has a lease.                                                        *)

LEMMA LeaseIsNotNone == None \notin LeaseType /\ None \notin Groups
  BY AutoscalingAssumption DEF LeaseType

\* The steps that give a lease to a manager, pass it on, or take it back.
LEMMA AcquireMoves ==
  ASSUME Typing, NEW k \in Kinds, NEW g \in Groups \cup {None}, AcquireGroup(k, g)
  PROVE  /\ mgr[k].pc \notin WithLease /\ mgr'[k].pc = "reserving" /\ mgr'[k].lease = Lease(g)
         /\ Lease(g) \in LeaseType
         /\ \A j \in Kinds : j # k => mgr'[j].pc = mgr[j].pc /\ mgr'[j].lease = mgr[j].lease
         /\ queue' = Append(queue, k) /\ UNCHANGED <<store, poll>>
         /\ bal' = Reserved(syncGroupsLocked, k, g)
<1>1. mgr \in [Kinds -> ManagerType]
  BY DEF Typing, MgrOK
<1>2. mgr[k].pc \notin WithLease
  BY DEF AcquireGroup, At, Resumes, WithLease
<1>3. mgr' = [wakeWaiters(mgr) EXCEPT ![k] = Manages("reserving", Lease(g), 0)]
  BY DEF AcquireGroup
<1>4. /\ mgr'[k].pc = "reserving" /\ mgr'[k].lease = Lease(g)
      /\ \A j \in Kinds : j # k => mgr'[j].pc = mgr[j].pc /\ mgr'[j].lease = mgr[j].lease
  BY Zenon, <1>1, <1>3, ManagerMoves
<1>. QED BY Zenon, <1>2, <1>4, GroupKnown DEF AcquireGroup

LEMMA SlotMoves ==
  ASSUME Typing, QueueOK, NEW k \in Kinds, ReserveSlot(k)
  PROVE  /\ queue # <<>> /\ k = Head(queue) /\ queue' = Tail(queue)
         /\ mgr[k].pc = "reserving" /\ mgr'[k].pc = "permit" /\ mgr'[k].lease = mgr[k].lease
         /\ \A j \in Kinds : j # k => mgr'[j].pc = mgr[j].pc /\ mgr'[j].lease = mgr[j].lease
         /\ UNCHANGED <<store, bal, poll>>
<1>1. mgr \in [Kinds -> ManagerType]
  BY DEF Typing, MgrOK
<1>2. queue # <<>> /\ k = Head(queue)
  BY DEF ReserveSlot
<1>3. mgr[k].pc = "reserving"
  BY <1>2 DEF QueueOK
<1>4. mgr' = [mgr EXCEPT ![k] = Manages("permit", mgr[k].lease, 0)]
  BY DEF ReserveSlot, Goto
<1>5. /\ mgr'[k].pc = "permit" /\ mgr'[k].lease = mgr[k].lease
      /\ \A j \in Kinds : j # k => mgr'[j].pc = mgr[j].pc /\ mgr'[j].lease = mgr[j].lease
  BY Zenon, <1>1, <1>4, ManagerMoves
<1>. QED BY <1>2, <1>3, <1>5 DEF ReserveSlot

LEMMA FailMoves ==
  ASSUME Typing, NEW k \in Kinds, ReserveFails(k)
  PROVE  /\ mgr[k].pc = "reserving" /\ mgr'[k].pc = "top" /\ mgr'[k].lease = None
         /\ \A j \in Kinds : j # k => mgr'[j].pc = mgr[j].pc /\ mgr'[j].lease = mgr[j].lease
         /\ bal' = releaseReservationLocked(bal, k, mgr[k].lease) /\ UNCHANGED <<store, poll>>
<1>1. mgr \in [Kinds -> ManagerType]
  BY DEF Typing, MgrOK
<1>2. mgr' = [wakeWaiters(mgr) EXCEPT ![k] = Manages("top", None, 0)]
  BY DEF ReserveFails
<1>3. /\ mgr'[k].pc = "top" /\ mgr'[k].lease = None
      /\ \A j \in Kinds : j # k => mgr'[j].pc = mgr[j].pc /\ mgr'[j].lease = mgr[j].lease
  BY Zenon, <1>1, <1>2, ManagerMoves
<1>. QED BY <1>3 DEF ReserveFails, At

LEMMA StartMoves ==
  ASSUME Typing, NEW k \in Kinds, Start(k)
  PROVE  /\ mgr[k].pc = "permit" /\ mgr'[k].pc = "top" /\ mgr'[k].lease = None
         /\ \A j \in Kinds : j # k => mgr'[j].pc = mgr[j].pc /\ mgr'[j].lease = mgr[j].lease
         /\ bal' = [bal EXCEPT !.active[k] = @ + 1] /\ UNCHANGED <<store, queue>>
         /\ \E i \in Polls : /\ poll[i] = NoPoll /\ poll'[i].kind = k /\ poll'[i].pc = "polling"
                             /\ poll'[i].lease = mgr[k].lease
                             /\ \A j \in Polls : j # i => poll'[j] = poll[j]
<1>1. mgr \in [Kinds -> ManagerType] /\ poll \in [Polls -> PollType]
  BY DEF Typing, MgrOK, PollOK
<1>2. mgr' = [wakeWaiters(mgr) EXCEPT ![k] = Manages("top", None, 0)]
  BY DEF Start
<1>3. /\ mgr'[k].pc = "top" /\ mgr'[k].lease = None
      /\ \A j \in Kinds : j # k => mgr'[j].pc = mgr[j].pc /\ mgr'[j].lease = mgr[j].lease
  BY Zenon, <1>1, <1>2, ManagerMoves
<1>4. PICK i \in Polls :
        /\ poll[i] = NoPoll
        /\ poll' = [poll EXCEPT ![i] = [kind |-> k, lease |-> mgr[k].lease, pc |-> "polling",
                                        answered |-> FALSE, target |-> 0]]
  BY Zenon DEF Start
<1>5. /\ poll'[i].kind = k /\ poll'[i].pc = "polling" /\ poll'[i].lease = mgr[k].lease
      /\ \A j \in Polls : j # i => poll'[j] = poll[j]
  BY <1>1, <1>4
<1>. QED BY Zenon, <1>3, <1>4, <1>5 DEF Start, At

LEMMA ReleaseMoves ==
  ASSUME Typing, NEW i \in Polls, releaseActivePoll(i)
  PROVE  /\ poll[i].pc = "finish" /\ poll[i].kind \in Kinds
         /\ poll'[i].kind = poll[i].kind /\ poll'[i].pc = "release" /\ poll'[i].lease = None
         /\ \A j \in Polls : j # i => poll'[j] = poll[j]
         /\ bal' = releaseReservationLocked([bal EXCEPT !.active[poll[i].kind] = @ - 1],
                                            poll[i].kind, poll[i].lease)
         /\ ManagersKeep /\ UNCHANGED store
<1>1. mgr \in [Kinds -> ManagerType] /\ poll \in [Polls -> PollType] /\ poll[i].kind \in Kinds
  BY PollsFly DEF Typing, MgrOK, PollOK, Poll
<1>2. ManagersKeep
  BY <1>1, WakingKeeps DEF releaseActivePoll
<1>3. /\ poll'[i].kind = poll[i].kind /\ poll'[i].pc = "release" /\ poll'[i].lease = None
      /\ \A j \in Polls : j # i => poll'[j] = poll[j]
  BY <1>1 DEF releaseActivePoll
<1>. QED BY <1>1, <1>2, <1>3 DEF releaseActivePoll, PollAt

\* The queue has each manager that waits for a slot once, and no other.
LEMMA QueueStep == Typing /\ HoldersOK /\ QueueOK /\ [Next]_vars => QueueOK'
<1>. SUFFICES ASSUME Typing, HoldersOK, QueueOK, [Next]_vars PROVE QueueOK'
  OBVIOUS
<1>1. CASE Calm
  BY <1>1 DEF Calm, ManagersKeep, QueueOK, WithLease
<1>2. ASSUME NEW k \in Kinds, NEW g \in Groups \cup {None}, AcquireGroup(k, g) PROVE QueueOK'
  <2>1. \A m \in 1 .. Len(queue) : queue[m] # k /\ queue[m] \in Kinds
    BY <1>2, AcquireMoves DEF QueueOK, WithLease
  <2>2. /\ queue' \in Seq(Kinds) /\ Len(queue') = Len(queue) + 1 /\ queue'[Len(queue) + 1] = k
        /\ \A m \in 1 .. Len(queue) : queue'[m] = queue[m]
    BY <1>2, AcquireMoves DEF QueueOK
  <2>3. /\ mgr'[k].pc = "reserving"
        /\ \A j \in Kinds : j # k => mgr'[j].pc = mgr[j].pc
    BY <1>2, AcquireMoves
  <2>. QED BY <2>1, <2>2, <2>3 DEF QueueOK
<1>3. ASSUME NEW k \in Kinds, ReserveSlot(k) PROVE QueueOK'
  <2>1. /\ queue' \in Seq(Kinds) /\ Len(queue') = Len(queue) - 1 /\ queue[1] = k
        /\ \A m \in 1 .. Len(queue') : queue'[m] = queue[m + 1] /\ queue[m + 1] # k
    <3>1. queue # <<>> /\ k = Head(queue) /\ queue' = Tail(queue)
      BY Zenon, <1>3, SlotMoves
    <3>2. /\ queue' \in Seq(Kinds) /\ Len(queue') = Len(queue) - 1 /\ queue[1] = k
          /\ \A m \in 1 .. Len(queue') : queue'[m] = queue[m + 1]
      BY <3>1 DEF QueueOK
    <3>3. \A m \in 1 .. Len(queue) - 1 : queue[m + 1] # queue[1]
      BY DEF QueueOK
    <3>. QED BY <3>2, <3>3
  <2>2. \A j \in Kinds : j # k => mgr'[j].pc = mgr[j].pc
    BY <1>3, SlotMoves
  <2>3. \A m \in 1 .. Len(queue') : m + 1 \in 1 .. Len(queue) /\ queue[m + 1] \in Kinds
    BY <2>1 DEF QueueOK
  <2>4. \A m \in 1 .. Len(queue') : mgr'[queue'[m]].pc = "reserving"
    BY <2>1, <2>2, <2>3 DEF QueueOK
  <2>5. \A m, n \in 1 .. Len(queue') : m # n => queue'[m] # queue'[n]
    BY <2>1, <2>3 DEF QueueOK
  <2>. QED BY Zenon, <2>1, <2>4, <2>5 DEF QueueOK
<1>4. ASSUME NEW k \in Kinds, ReserveFails(k) PROVE QueueOK'
  <2>1. PICK n \in DOMAIN queue :
          /\ queue[n] = k
          /\ queue' = [m \in 1 .. Len(queue) - 1 |-> queue[IF m < n THEN m ELSE m + 1]]
    BY Zenon, <1>4 DEF ReserveFails
  <2>. DEFINE place(m) == IF m < n THEN m ELSE m + 1
              left == 1 .. Len(queue')
  <2>2. queue' \in Seq(Kinds) /\ Len(queue') = Len(queue) - 1
    BY <2>1 DEF QueueOK
  <2>3. /\ \A m \in left : place(m) \in 1 .. Len(queue) /\ place(m) # n
        /\ \A m, i \in left : m # i => place(m) # place(i)
    BY <2>1, <2>2 DEF QueueOK
  <2>4. \A m \in left : queue'[m] = queue[place(m)]
    BY <2>1, <2>2 DEF QueueOK
  <2>5. \A j \in Kinds : j # k => mgr'[j].pc = mgr[j].pc
    BY <1>4, FailMoves
  <2>6. /\ \A m \in 1 .. Len(queue) : queue[m] \in Kinds /\ mgr[queue[m]].pc = "reserving"
        /\ \A m, i \in 1 .. Len(queue) : m # i => queue[m] # queue[i]
        /\ n \in 1 .. Len(queue)
    BY <2>1 DEF QueueOK
  <2>. HIDE DEF place, left
  <2>7. ASSUME NEW m \in left PROVE mgr'[queue'[m]].pc = "reserving"
    <3>1. /\ queue'[m] = queue[place(m)] /\ queue[place(m)] \in Kinds
          /\ mgr[queue[place(m)]].pc = "reserving" /\ queue[place(m)] # queue[n]
      BY Zenon, <2>3, <2>4, <2>6
    <3>. QED BY Zenon, <2>1, <2>5, <3>1
  <2>8. \A m, i \in left : m # i => queue'[m] # queue'[i]
    BY Zenon, <2>3, <2>4, <2>6
  <2>. QED BY Zenon, <2>2, <2>7, <2>8 DEF QueueOK, left
<1>5. ASSUME NEW k \in Kinds, Start(k) PROVE QueueOK'
  <2>1. mgr[k].pc = "permit" /\ UNCHANGED queue /\ \A j \in Kinds : j # k => mgr'[j].pc = mgr[j].pc
    BY <1>5, StartMoves
  <2>. QED BY <2>1 DEF QueueOK
<1>6. ASSUME NEW i \in Polls, releaseActivePoll(i) PROVE QueueOK'
  <2>1. ManagersKeep
    BY Zenon, <1>6, ReleaseMoves
  <2>. QED BY <2>1 DEF ManagersKeep, QueueOK, WithLease
<1>. QED BY Zenon, <1>1, <1>2, <1>3, <1>4, <1>5, <1>6, CalmStep

\* A manager has a lease while it waits for a slot and has not started its poll;
\* a poll has one until releaseActivePoll.
LEMMA HoldersStep == Typing /\ HoldersOK /\ QueueOK /\ [Next]_vars => HoldersOK'
<1>. SUFFICES ASSUME Typing, HoldersOK, QueueOK, [Next]_vars PROVE HoldersOK'
  OBVIOUS
<1>. USE LeaseIsNotNone DEF HoldersOK
<1>1. CASE Calm
  BY <1>1 DEF Calm, ManagersKeep, PollsKeep, WithLease, PollWithLease
<1>2. ASSUME NEW k \in Kinds, NEW g \in Groups \cup {None}, AcquireGroup(k, g) PROVE HoldersOK'
  BY <1>2, AcquireMoves
<1>3. ASSUME NEW k \in Kinds, ReserveSlot(k) PROVE HoldersOK'
  BY <1>3, SlotMoves
<1>4. ASSUME NEW k \in Kinds, ReserveFails(k) PROVE HoldersOK'
  BY <1>4, FailMoves
<1>5. ASSUME NEW k \in Kinds, Start(k) PROVE HoldersOK'
  BY <1>5, StartMoves
<1>6. ASSUME NEW i \in Polls, releaseActivePoll(i) PROVE HoldersOK'
  <2>1. /\ ManagersKeep /\ poll'[i].pc = "release" /\ poll'[i].lease = None
        /\ \A j \in Polls : j # i => poll'[j] = poll[j]
    BY Zenon, <1>6, ReleaseMoves
  <2>. QED BY <2>1 DEF ManagersKeep, WithLease
<1>. QED BY Zenon, <1>1, <1>2, <1>3, <1>4, <1>5, <1>6, CalmStep

-----------------------------------------------------------------------------
(* What the balancer counts.                                               *)

\* The count of kind k in group g is n now.
CountSet(new, gs, g, k, n) ==
    /\ DOMAIN new = DOMAIN gs
    /\ \A h \in DOMAIN gs :
          /\ new[h].key = gs[h].key
          /\ \A j \in Kinds : new[h].res[j] = IF h = g /\ j = k THEN n ELSE gs[h].res[j]

LEMMA CountChange ==
  ASSUME NEW gs \in GroupsType, NEW g \in DOMAIN gs, NEW k \in Kinds, NEW n \in Int, NEW new,
         new = [gs EXCEPT ![g].res[k] = n]
  PROVE  CountSet(new, gs, g, k, n)
<1>1. PICK S \in SUBSET Groups : gs \in [S -> GroupType]
  BY DEF GroupsType
<1>2. DOMAIN new = DOMAIN gs /\ \A h \in DOMAIN gs : h # g => new[h] = gs[h]
  BY <1>1
<1>3. new[g] = [key |-> gs[g].key, res |-> [gs[g].res EXCEPT ![k] = n], backlog |-> gs[g].backlog]
  BY Zenon, <1>1 DEF GroupType
<1>4. gs[g].res \in [Kinds -> Int]
  BY <1>1 DEF GroupType
<1>5. new[g].key = gs[g].key /\ \A j \in Kinds : new[g].res[j] = IF j = k THEN n ELSE gs[g].res[j]
  BY <1>3, <1>4
<1>. QED BY Zenon, <1>2, <1>5 DEF CountSet

\* A balancer's reservations after the lease l of kind k is counted d times more.
Counted(new, b, k, l, d) ==
    /\ \A j \in Kinds : new.res[j] = b.res[j] + (IF j = k THEN d ELSE 0)
    /\ DOMAIN new.groups = DOMAIN b.groups
    /\ \A h \in DOMAIN b.groups :
          /\ new.groups[h].key = b.groups[h].key
          /\ \A j \in Kinds : new.groups[h].res[j] =
                b.groups[h].res[j] + (IF j = k /\ LeaseOf(b, h) = l THEN d ELSE 0)

\* So it is when the group the lease is for, if it lives, is counted.
LEMMA CountedOnce ==
  ASSUME NEW b \in BalancerType, NEW k \in Kinds, NEW l \in LeaseType, NEW d \in Int, NEW new,
         new.res[k] = b.res[k] + d, \A j \in Kinds : j # k => new.res[j] = b.res[j],
         IF l.group \in DOMAIN b.groups /\ b.groups[l.group].key = l.key
         THEN CountSet(new.groups, b.groups, l.group, k, b.groups[l.group].res[k] + d)
         ELSE new.groups = b.groups
  PROVE  Counted(new, b, k, l, d)
<1>1. \A j \in Kinds : b.res[j] \in Int
  BY DEF BalancerType
<1>2. \A h \in DOMAIN b.groups : \A j \in Kinds : b.groups[h].res[j] \in Int
  BY DEF BalancerType, GroupsType, GroupType
<1>3. \A h \in DOMAIN b.groups : LeaseOf(b, h) = l <=> h = l.group /\ b.groups[h].key = l.key
  BY DEF LeaseOf, LeaseType
<1>4. CASE l.group \in DOMAIN b.groups /\ b.groups[l.group].key = l.key
  BY <1>1, <1>2, <1>3, <1>4 DEF Counted, CountSet
<1>5. CASE ~(l.group \in DOMAIN b.groups /\ b.groups[l.group].key = l.key)
  BY <1>1, <1>2, <1>3, <1>5 DEF Counted
<1>. QED BY Zenon, <1>4, <1>5

\* A reservation counts the lease it gives.
LEMMA ReservedCounts ==
  ASSUME NEW b \in BalancerType, NEW k \in Kinds, NEW l \in LeaseType, None \notin DOMAIN b.groups,
         l.group = None \/ (l.group \in DOMAIN b.groups /\ b.groups[l.group].key = l.key)
  PROVE  Counted(Reserved(b, k, l.group), b, k, l, 1) /\ Reserved(b, k, l.group).active = b.active
<1>. DEFINE new == Reserved(b, k, l.group)
            n == b.groups[l.group].res[k] + 1
<1>1. /\ new.active = b.active /\ new.res[k] = b.res[k] + 1
      /\ \A j \in Kinds : j # k => new.res[j] = b.res[j]
  BY DEF Reserved, BalancerType
<1>2. new.groups = IF l.group = None THEN b.groups ELSE [b.groups EXCEPT ![l.group].res[k] = n]
  BY Zenon DEF Reserved, BalancerType
<1>. HIDE DEF new
<1>3. CASE l.group # None
  <2>1. b.groups \in GroupsType /\ l.group \in DOMAIN b.groups /\ n \in Int
    BY <1>3 DEF BalancerType, GroupsType, GroupType
  <2>. HIDE DEF n
  <2>2. CountSet(new.groups, b.groups, l.group, k, n)
    BY Zenon, <1>2, <1>3, <2>1, CountChange
  <2>3. Counted(new, b, k, l, 1)
    BY <1>1, <1>3, <2>2, CountedOnce DEF n
  <2>. QED BY <1>1, <2>3 DEF new
<1>4. CASE l.group = None
  <2>1. Counted(new, b, k, l, 1)
    BY <1>1, <1>2, <1>4, CountedOnce
  <2>. QED BY <1>1, <2>1 DEF new
<1>. QED BY <1>3, <1>4

\* A release finds the group only under the lease's key.
LEMMA ReleasedCounts ==
  ASSUME NEW b \in BalancerType, NEW k \in Kinds, NEW l \in LeaseType, b.res[k] > 0,
         \A h \in DOMAIN b.groups : LeaseOf(b, h) = l => b.groups[h].res[k] > 0
  PROVE  /\ Counted(releaseReservationLocked(b, k, l), b, k, l, -1)
         /\ releaseReservationLocked(b, k, l).active = b.active
<1>. DEFINE known == l.group \in DOMAIN b.groups /\ b.groups[l.group].key = l.key
            new == releaseReservationLocked(b, k, l)
            fewer == [b EXCEPT !.res[k] = Larger(@ - 1, 0)]
            n == b.groups[l.group].res[k] - 1
<1>1. PICK d \in Int : d = -1
  OBVIOUS
<1>2. /\ fewer.active = b.active /\ fewer.groups = b.groups /\ fewer \in BalancerType
      /\ fewer.res[k] = b.res[k] + d
      /\ \A j \in Kinds : j # k => fewer.res[j] = b.res[j]
  BY <1>1 DEF BalancerType, Larger
<1>3. known => LeaseOf(b, l.group) = l /\ b.groups[l.group].res[k] > 0
  BY DEF LeaseOf, LeaseType
<1>4. new = IF known THEN [fewer EXCEPT !.groups[l.group].res[k] = @ - 1] ELSE fewer
  BY Zenon, <1>3 DEF releaseReservationLocked
<1>. HIDE DEF new, fewer
<1>5. /\ new.active = b.active /\ new.res = fewer.res
      /\ new.groups = IF known THEN [b.groups EXCEPT ![l.group].res[k] = n] ELSE b.groups
  <2>1. CASE known
    BY Zenon, <1>2, <1>4, <2>1 DEF BalancerType
  <2>2. CASE ~known
    BY Zenon, <1>2, <1>4, <2>2
  <2>. QED BY Zenon, <2>1, <2>2
<1>6. known => n \in Int /\ n = b.groups[l.group].res[k] + d /\ b.groups \in GroupsType
  BY <1>1 DEF BalancerType, GroupsType, GroupType
<1>. HIDE DEF n
<1>7. known => CountSet(new.groups, b.groups, l.group, k, b.groups[l.group].res[k] + d)
  BY Zenon, <1>5, <1>6, CountChange
<1>8. Counted(new, b, k, l, d)
  BY Zenon, <1>2, <1>5, <1>7, CountedOnce
<1>. QED BY Zenon, <1>1, <1>5, <1>8 DEF new

-----------------------------------------------------------------------------
(* Keys.                                                                   *)

SameKeys(b, c) ==
    DOMAIN b.groups = DOMAIN c.groups /\ \A g \in DOMAIN b.groups : b.groups[g].key = c.groups[g].key

LEMMA KeysSame ==
  ASSUME KeysOK, UNCHANGED store, SameKeys(bal', bal), \A l \in LeaseType : Held(l)' => Held(l)
  PROVE  KeysOK'
<1>1. UNCHANGED Known
  BY DEF Known
<1>. QED BY <1>1 DEF KeysOK, SameKeys

LEMMA KeysSynced ==
  ASSUME Typing, KeysOK, UNCHANGED store, SameKeys(bal', syncGroupsLocked),
         \A l \in LeaseType : Held(l)' => l.key <= store.version
  PROVE  KeysOK'
<1>1. UNCHANGED Known
  BY DEF Known
<1>2. DOMAIN bal'.groups = Known /\ \A g \in Known : bal'.groups[g].key = store.groups[g]
  BY SyncType DEF Typing, SameKeys
<1>. QED BY <1>1, <1>2 DEF KeysOK

\* The group of a lease that a manager takes.
LEMMA LeaseTaken ==
  ASSUME Typing, KeysOK, NEW k \in Kinds, NEW g \in Groups \cup {None}, AcquireGroup(k, g)
  PROVE  /\ Lease(g).key <= store.version /\ Lease(g).group = g
         /\ g \in Known => Lease(g).key = store.groups[g]
         /\ g = None \/ g \in Known
<1>1. g = None \/ g \in Known
  BY GroupKnown, SyncType DEF Typing
<1>2. store.version \in Nat /\ Known \subseteq Groups
  BY DEF Typing, StoreOK
<1>. QED BY <1>1, <1>2, LeaseIsNotNone DEF Lease, KeysOK

\* A group that comes back has a key no lease has.
LEMMA KeysStep == Typing /\ HoldersOK /\ QueueOK /\ KeysOK /\ [Next]_vars => KeysOK'
<1>. SUFFICES ASSUME Typing, HoldersOK, QueueOK, KeysOK, [Next]_vars PROVE KeysOK'
  OBVIOUS
<1>1. CASE GroupsInfo
  <2>1. PICK v \in DOMAIN History :
          /\ v > store.version
          /\ store' = [version |-> v,
                       groups |-> [g \in History[v] |-> IF g \in Known THEN store.groups[g] ELSE v]]
    BY <1>1 DEF GroupsInfo, updateGroups
  <2>2. v \in Nat /\ store.version \in Nat /\ \A g \in Known : store.groups[g] \in Nat
    BY AutoscalingAssumption DEF Typing, StoreOK
  <2>3. /\ store'.version = v /\ Known' = History[v]
        /\ \A g \in Known' : store'.groups[g] = IF g \in Known THEN store.groups[g] ELSE v
    BY <2>1 DEF Known
  <2>4. \A l \in LeaseType : l.key \in Nat /\ Held(l)' = Held(l)
    BY <1>1 DEF GroupsInfo, Held, LeaseType
  <2>5. UNCHANGED bal
    BY <1>1 DEF GroupsInfo
  <2>. QED BY <2>1, <2>2, <2>3, <2>4, <2>5 DEF KeysOK
<1>2. CASE ~GroupsInfo
  <2>1. UNCHANGED store
    BY <1>2, StoreStep
  <2>2. CASE Calm
    <3>1. \A l \in LeaseType : Held(l)' = Held(l)
      BY <2>2 DEF Calm, ManagersKeep, PollsKeep, Held
    <3>2. SameKeys(bal', bal) \/ SameKeys(bal', syncGroupsLocked)
      BY <2>2 DEF Calm, BalKeeps, SameCover, SameKeys, Kinds
    <3>. QED BY <2>1, <3>1, <3>2, KeysSame, KeysSynced DEF KeysOK
  <2>3. ASSUME NEW k \in Kinds, NEW g \in Groups \cup {None}, AcquireGroup(k, g) PROVE KeysOK'
    <3>1. ASSUME NEW l \in LeaseType, Held(l)' PROVE Held(l) \/ l = Lease(g)
      BY <2>3, <3>1, AcquireMoves DEF Held
    <3>2. \A l \in LeaseType : Held(l)' => l.key <= store.version
      BY <2>3, <3>1, LeaseTaken DEF KeysOK
    <3>3. SameKeys(bal', syncGroupsLocked)
      BY <2>3, SyncType, GroupKnown, ReservedType, AcquireMoves DEF Typing, SameKeys
    <3>. QED BY <2>1, <3>2, <3>3, KeysSynced
  <2>4. ASSUME NEW k \in Kinds, ReserveSlot(k) PROVE KeysOK'
    <3>1. \A l \in LeaseType : Held(l)' => Held(l)
      BY <2>4, SlotMoves DEF Held
    <3>2. SameKeys(bal', bal)
      BY <2>4, SlotMoves DEF SameKeys
    <3>. QED BY <2>1, <3>1, <3>2, KeysSame
  <2>5. ASSUME NEW k \in Kinds, ReserveFails(k) PROVE KeysOK'
    <3>1. \A l \in LeaseType : Held(l)' => Held(l)
      BY <2>5, FailMoves, LeaseIsNotNone DEF Held
    <3>2. bal \in BalancerType /\ bal' = releaseReservationLocked(bal, k, mgr[k].lease)
      BY <2>5, FailMoves DEF Typing, BalOK
    <3>3. PICK j \in Kinds : j # k
      BY DEF Kinds
    <3>4. SameKeys(bal', bal)
      BY <3>2, <3>3, ReleasedType DEF SameCover, SameKeys
    <3>. QED BY <2>1, <3>1, <3>4, KeysSame
  <2>6. ASSUME NEW k \in Kinds, Start(k) PROVE KeysOK'
    <3>1. \A l \in LeaseType : Held(l)' => Held(l)
      BY <2>6, StartMoves, LeaseIsNotNone DEF Held
    <3>2. bal' = [bal EXCEPT !.active[k] = @ + 1] /\ bal \in BalancerType
      BY <2>6, StartMoves DEF Typing, BalOK
    <3>3. SameKeys(bal', bal)
      BY <3>2 DEF SameKeys, BalancerType
    <3>. QED BY <2>1, <3>1, <3>3, KeysSame
  <2>7. ASSUME NEW i \in Polls, releaseActivePoll(i) PROVE KeysOK'
    <3>. DEFINE b == [bal EXCEPT !.active[poll[i].kind] = @ - 1]
    <3>1. \A l \in LeaseType : Held(l)' => Held(l)
      BY Zenon, <2>7, ReleaseMoves, LeaseIsNotNone DEF Held, ManagersKeep
    <3>2. poll[i].kind \in Kinds /\ bal' = releaseReservationLocked(b, poll[i].kind, poll[i].lease)
      BY Zenon, <2>7, ReleaseMoves
    <3>3. b \in BalancerType /\ b.groups = bal.groups
      BY <3>2 DEF Typing, BalOK, BalancerType
    <3>. HIDE DEF b
    <3>4. PICK j \in Kinds : j # poll[i].kind
      BY DEF Kinds
    <3>5. SameKeys(bal', bal)
      BY <3>2, <3>3, <3>4, ReleasedType DEF SameCover, SameKeys
    <3>. QED BY <2>1, <3>1, <3>5, KeysSame
  <2>. QED BY Zenon, <2>2, <2>3, <2>4, <2>5, <2>6, <2>7, CalmStep
<1>. QED BY <1>1, <1>2

-----------------------------------------------------------------------------
(* Counts.                                                                 *)

\* What the counts need of finite sets; the library's theorems give it at the end.
FiniteSetFacts ==
    /\ IsFiniteSet({}) /\ Cardinality({}) = 0
    /\ \A S : IsFiniteSet(S) => Cardinality(S) \in Nat /\ (Cardinality(S) = 0 => S = {})
    /\ \A S, x : IsFiniteSet(S) /\ x \notin S =>
          IsFiniteSet(S \cup {x}) /\ Cardinality(S \cup {x}) = Cardinality(S) + 1
    /\ \A S, x : IsFiniteSet(S) /\ x \in S =>
          IsFiniteSet(S \ {x}) /\ Cardinality(S \ {x}) = Cardinality(S) - 1
    /\ \A S : \A R \in SUBSET S : IsFiniteSet(S) => IsFiniteSet(R)

LEMMA HoldersFinite ==
  ASSUME FiniteSetFacts, NEW k \in Kinds, NEW l \in LeaseType, IsFiniteSet(Holders(k))
  PROVE  IsFiniteSet(HoldersOf(k, l)) /\ HoldersOf(k, l) \subseteq Holders(k)
<1>1. HoldersOf(k, l) \subseteq Holders(k)
  BY LeaseIsNotNone DEF Holders, HoldersOf
<1>. QED BY <1>1 DEF FiniteSetFacts

LEMMA LeaseOfType ==
  ASSUME NEW b \in BalancerType, NEW g \in DOMAIN b.groups
  PROVE  LeaseOf(b, g) \in LeaseType /\ LeaseOf(b, g) # None /\ LeaseOf(b, g).group = g
<1>1. b.groups[g].key \in Nat /\ g \in Groups
  BY DEF BalancerType, GroupsType, GroupType
<1>2. LeaseOf(b, g) \in LeaseType /\ LeaseOf(b, g).group = g
  BY <1>1 DEF LeaseOf, LeaseType
<1>. QED BY <1>2, LeaseIsNotNone

\* A set that gains, keeps or loses an element.
Moved(S, T, e) ==
    \/ e = 0 /\ T = S
    \/ e = 1 /\ \E x : x \notin S /\ T = S \cup {x}
    \/ e = -1 /\ \E x \in S : T = S \ {x}

LEMMA MovedCount ==
  ASSUME FiniteSetFacts, NEW S, NEW T, NEW e, IsFiniteSet(S), Moved(S, T, e)
  PROVE  IsFiniteSet(T) /\ Cardinality(S) \in Nat /\ Cardinality(T) = Cardinality(S) + e
<1>1. Cardinality(S) \in Nat
  BY Zenon DEF FiniteSetFacts
<1>2. CASE e = 0 /\ T = S
  BY <1>1, <1>2
<1>3. CASE e = 1 /\ \E x : x \notin S /\ T = S \cup {x}
  <2>1. IsFiniteSet(T) /\ Cardinality(T) = Cardinality(S) + 1
    BY <1>3 DEF FiniteSetFacts
  <2>. QED BY <1>1, <1>3, <2>1
<1>4. CASE e = -1 /\ \E x \in S : T = S \ {x}
  <2>1. IsFiniteSet(T) /\ Cardinality(T) = Cardinality(S) - 1
    BY Zenon, <1>4 DEF FiniteSetFacts
  <2>. QED BY <1>1, <1>4, <2>1
<1>. QED BY Zenon, <1>2, <1>3, <1>4 DEF Moved

\* The polls that hold the lease l of kind k are e more; the manager's hold on it
\* is c more.
PollsTake(k, l, e) ==
    \A j \in Kinds :
        /\ Moved(Holders(j), Holders(j)', IF j = k THEN e ELSE 0)
        /\ \A m \in LeaseType : Moved(HoldersOf(j, m), HoldersOf(j, m)', IF j = k /\ m = l THEN e ELSE 0)

ManagerTakes(k, l, c) ==
    /\ \A j \in Kinds : j # k \/ c = 0 => mgr'[j].lease = mgr[j].lease
    /\ c = 1 => mgr[k].lease = None /\ mgr'[k].lease = l
    /\ c = -1 => mgr[k].lease = l /\ mgr'[k].lease = None

\* Polls that keep their leases are counted as before.
LEMMA SameHolders ==
  ASSUME PollsKeep, NEW k, NEW l PROVE PollsTake(k, l, 0)
<1>. SUFFICES ASSUME NEW j \in Kinds
              PROVE  /\ Holders(j)' = Holders(j)
                     /\ \A m \in LeaseType : HoldersOf(j, m)' = HoldersOf(j, m)
  BY Zenon DEF PollsTake, Moved
<1>1. Holders(j)' = Holders(j)
  <2>1. \A i \in Polls : poll'[i].lease # None <=> poll[i].lease # None
    BY DEF PollsKeep
  <2>2. \A i \in Polls : poll[i].lease # None => poll'[i].kind = poll[i].kind
    BY DEF PollsKeep
  <2>. QED BY <2>1, <2>2 DEF Holders
<1>2. \A m \in LeaseType : HoldersOf(j, m)' = HoldersOf(j, m)
  BY LeaseIsNotNone DEF PollsKeep, HoldersOf
<1>. QED BY <1>1, <1>2

\* The balancer still counts right when it counts what is taken.
LEMMA Recount ==
  ASSUME FiniteSetFacts, CountsOK, NEW b \in BalancerType, CountsFor(b),
         NEW k \in Kinds, NEW l \in LeaseType, NEW c \in {-1, 0, 1}, NEW e \in {-1, 0, 1},
         Counted(bal', b, k, l, c + e),
         \A j \in Kinds : bal'.active[j] = b.active[j] + (IF j = k THEN e ELSE 0),
         PollsTake(k, l, e), ManagerTakes(k, l, c)
  PROVE  CountsOK'
<1>. SUFFICES ASSUME NEW j \in Kinds PROVE KindCounts(bal, j)' /\ IsFiniteSet(Holders(j)')
  BY Zenon DEF CountsOK, CountsFor
<1>1. IsFiniteSet(Holders(j)) /\ KindCounts(b, j)
  BY DEF CountsOK, CountsFor
<1>2. /\ IsFiniteSet(Holders(j)') /\ Cardinality(Holders(j)) \in Nat
      /\ Cardinality(Holders(j)') = Cardinality(Holders(j)) + (IF j = k THEN e ELSE 0)
  BY Zenon, <1>1, MovedCount DEF PollsTake
<1>3. (IF mgr'[j].lease # None THEN 1 ELSE 0)
         = (IF mgr[j].lease # None THEN 1 ELSE 0) + (IF j = k THEN c ELSE 0)
  BY LeaseIsNotNone DEF ManagerTakes
<1>4. bal'.res[j] = b.res[j] + (IF j = k THEN c + e ELSE 0)
  BY DEF Counted
<1>5. /\ bal'.active[j] = Cardinality(Holders(j)')
      /\ bal'.res[j] = Cardinality(Holders(j)') + (IF mgr'[j].lease # None THEN 1 ELSE 0)
  BY <1>1, <1>2, <1>3, <1>4 DEF KindCounts
<1>6. ASSUME NEW h \in DOMAIN bal'.groups
      PROVE  bal'.groups[h].res[j] = Cardinality(HoldersOf(j, LeaseOf(bal, h))')
                                     + (IF mgr'[j].lease = LeaseOf(bal, h)' THEN 1 ELSE 0)
  <2>1. PICK m : m = LeaseOf(b, h)
    BY Zenon
  <2>2. /\ h \in DOMAIN b.groups /\ LeaseOf(bal, h)' = m
        /\ bal'.groups[h].res[j] = b.groups[h].res[j] + (IF j = k /\ m = l THEN c + e ELSE 0)
    BY <2>1 DEF Counted, LeaseOf
  <2>3. m # None /\ m \in LeaseType
    BY <2>1, <2>2, LeaseOfType
  <2>4. IsFiniteSet(HoldersOf(j, m))
    BY <1>1, <2>3, HoldersFinite
  <2>5. /\ Cardinality(HoldersOf(j, m)) \in Nat
        /\ Cardinality(HoldersOf(j, m)')
              = Cardinality(HoldersOf(j, m)) + (IF j = k /\ m = l THEN e ELSE 0)
    BY Zenon, <2>3, <2>4, MovedCount DEF PollsTake
  <2>6. (IF mgr'[j].lease = m THEN 1 ELSE 0)
           = (IF mgr[j].lease = m THEN 1 ELSE 0) + (IF j = k /\ m = l THEN c ELSE 0)
    BY <2>3 DEF ManagerTakes
  <2>7. b.groups[h].res[j] = Cardinality(HoldersOf(j, m)) + (IF mgr[j].lease = m THEN 1 ELSE 0)
    BY <1>1, <2>1, <2>2 DEF KindCounts
  <2>8. bal'.groups[h].res[j] = Cardinality(HoldersOf(j, m)') + (IF mgr'[j].lease = m THEN 1 ELSE 0)
    BY <2>2, <2>5, <2>6, <2>7
  <2>. QED BY Zenon, <2>2, <2>8 DEF HoldersOf
<1>. QED BY <1>2, <1>5, <1>6 DEF KindCounts

\* syncGroupsLocked counts right: a group it starts afresh has no lease out.
LEMMA SyncCounts ==
  ASSUME FiniteSetFacts, Typing, KeysOK, CountsOK
  PROVE  CountsFor(syncGroupsLocked)
<1>. DEFINE b == syncGroupsLocked
<1>1. /\ b \in BalancerType /\ b.res = bal.res /\ b.active = bal.active /\ DOMAIN b.groups = Known
      /\ bal \in BalancerType
  BY SyncType DEF Typing, BalOK, syncGroupsLocked
<1>2. \A g \in Known : b.groups[g] = IF g \in DOMAIN bal.groups /\ bal.groups[g].key = store.groups[g]
                                     THEN bal.groups[g] ELSE NewGroup(store.groups[g])
  BY DEF syncGroupsLocked
<1>. HIDE DEF b
<1>3. ASSUME NEW k \in Kinds, NEW g \in Known
      PROVE  b.groups[g].res[k] = Cardinality(HoldersOf(k, LeaseOf(b, g)))
                                  + (IF mgr[k].lease = LeaseOf(b, g) THEN 1 ELSE 0)
  <2>1. CASE g \in DOMAIN bal.groups /\ bal.groups[g].key = store.groups[g]
    <3>1. b.groups[g] = bal.groups[g] /\ LeaseOf(b, g) = LeaseOf(bal, g)
      BY <1>2, <2>1 DEF LeaseOf
    <3>. QED BY <2>1, <3>1 DEF CountsOK, CountsFor, KindCounts
  <2>2. CASE ~(g \in DOMAIN bal.groups /\ bal.groups[g].key = store.groups[g])
    <3>1. b.groups[g] = NewGroup(store.groups[g])
      BY <1>2, <2>2
    <3>2. b.groups[g].res[k] = 0 /\ b.groups[g].key = store.groups[g]
      BY <3>1 DEF NewGroup, Zero
    <3>3. /\ LeaseOf(b, g) \in LeaseType /\ LeaseOf(b, g).group = g
          /\ LeaseOf(b, g).key = store.groups[g]
      BY <1>1, <3>2, LeaseOfType DEF LeaseOf
    <3>4. ~Held(LeaseOf(b, g))
      BY <2>2, <3>3 DEF KeysOK
    <3>5. mgr[k].lease # LeaseOf(b, g) /\ HoldersOf(k, LeaseOf(b, g)) = {}
      BY <3>4 DEF Held, HoldersOf
    <3>. QED BY <3>2, <3>5 DEF FiniteSetFacts
  <2>. QED BY <2>1, <2>2
<1>4. CountsFor(b)
  BY <1>1, <1>3 DEF CountsOK, CountsFor, KindCounts
<1>. QED BY <1>4 DEF b

\* What is out is counted.
LEMMA OutIsCounted ==
  ASSUME FiniteSetFacts, Typing, CountsOK, NEW k \in Kinds, NEW l \in LeaseType,
         mgr[k].lease = l \/ HoldersOf(k, l) # {}
  PROVE  /\ bal.res[k] > 0
         /\ \A h \in DOMAIN bal.groups : LeaseOf(bal, h) = l => bal.groups[h].res[k] > 0
<1>1. /\ IsFiniteSet(Holders(k)) /\ IsFiniteSet(HoldersOf(k, l))
      /\ HoldersOf(k, l) \subseteq Holders(k) /\ KindCounts(bal, k)
  BY HoldersFinite DEF CountsOK, CountsFor
<1>2. Cardinality(Holders(k)) \in Nat /\ Cardinality(HoldersOf(k, l)) \in Nat
  BY Zenon, <1>1 DEF FiniteSetFacts
<1>3. CASE mgr[k].lease = l
  BY <1>1, <1>2, <1>3, LeaseIsNotNone DEF KindCounts
<1>4. CASE HoldersOf(k, l) # {}
  <2>1. Cardinality(HoldersOf(k, l)) # 0 /\ Cardinality(Holders(k)) # 0
    BY <1>1, <1>4 DEF FiniteSetFacts
  <2>. QED BY <1>1, <1>2, <2>1 DEF KindCounts
<1>. QED BY <1>3, <1>4

\* The cases of CountsStep.
LEMMA CalmCounts ==
  ASSUME FiniteSetFacts, Typing, KeysOK, CountsOK, PollsKeep, BalKeeps,
         \A j \in Kinds : mgr'[j].lease = mgr[j].lease
  PROVE  CountsOK'
<1>1. /\ bal \in BalancerType /\ syncGroupsLocked \in BalancerType
      /\ syncGroupsLocked.res = bal.res /\ syncGroupsLocked.active = bal.active
  BY SyncType DEF Typing, BalOK, syncGroupsLocked
<1>2. PICK b \in BalancerType : /\ CountsFor(b) /\ bal'.res = b.res /\ bal'.active = b.active
                                /\ \A k \in Kinds : SameCover(bal', b, k)
  BY <1>1, SyncCounts DEF CountsOK, BalKeeps
<1>3. PICK k \in Kinds, l \in LeaseType : TRUE
  <2>1. "normal" \in Kinds
    BY DEF Kinds
  <2>2. [group |-> None, key |-> 0] \in LeaseType
    BY DEF LeaseType
  <2>. QED BY <2>1, <2>2
<1>4. Counted(bal', b, k, l, 0)
  <2>1. /\ \A j \in Kinds : b.res[j] \in Int
        /\ \A h \in DOMAIN b.groups : \A j \in Kinds : b.groups[h].res[j] \in Int
    BY DEF BalancerType, GroupsType, GroupType
  <2>. QED BY <1>2, <2>1 DEF Counted, SameCover
<1>5. \A j \in Kinds : bal'.active[j] = b.active[j] + (IF j = k THEN 0 ELSE 0)
  BY <1>2 DEF BalancerType
<1>6. PollsTake(k, l, 0) /\ ManagerTakes(k, l, 0)
  BY SameHolders DEF ManagerTakes
<1>. QED BY <1>2, <1>4, <1>5, <1>6, Recount

LEMMA AcquireCounts ==
  ASSUME FiniteSetFacts, Typing, HoldersOK, KeysOK, CountsOK, NEW k \in Kinds, NEW g \in Groups \cup {None},
         AcquireGroup(k, g)
  PROVE  CountsOK'
<1>0. PICK l : l = Lease(g)
  BY Zenon
<1>. DEFINE b == syncGroupsLocked
<1>1. /\ b \in BalancerType /\ DOMAIN b.groups = Known
      /\ \A h \in Known : b.groups[h].key = store.groups[h]
  BY SyncType DEF Typing
<1>2. CountsFor(b)
  BY SyncCounts
<1>3. l \in LeaseType /\ mgr[k].lease = None /\ ManagerTakes(k, l, 1)
  BY <1>0, AcquireMoves DEF HoldersOK, WithLease, ManagerTakes
<1>4. bal' = Reserved(b, k, g) /\ PollsKeep
  BY AcquireMoves DEF PollsKeep
<1>5. /\ l.group = g /\ (g = None \/ (g \in DOMAIN b.groups /\ b.groups[g].key = l.key))
      /\ None \notin DOMAIN b.groups
  BY <1>0, <1>1, LeaseTaken, GroupKnown
<1>. HIDE DEF b
<1>6. Counted(bal', b, k, l, 1) /\ bal'.active = b.active
  BY <1>1, <1>3, <1>4, <1>5, ReservedCounts
<1>7. \A j \in Kinds : bal'.active[j] = b.active[j] + (IF j = k THEN 0 ELSE 0)
  BY <1>1, <1>6 DEF BalancerType
<1>8. PollsTake(k, l, 0)
  BY <1>4, SameHolders
<1>. QED BY <1>1, <1>2, <1>3, <1>6, <1>7, <1>8, Recount

LEMMA FailCounts ==
  ASSUME FiniteSetFacts, Typing, HoldersOK, CountsOK, NEW k \in Kinds, ReserveFails(k)
  PROVE  CountsOK'
<1>1. PICK l : l = mgr[k].lease
  BY Zenon
<1>2. l \in LeaseType /\ ManagerTakes(k, l, -1)
  BY <1>1, FailMoves DEF HoldersOK, Typing, MgrOK, ManagerType, ManagerTakes
<1>3. bal' = releaseReservationLocked(bal, k, l) /\ PollsKeep /\ bal \in BalancerType
  BY <1>1, FailMoves DEF PollsKeep, Typing, BalOK
<1>4. /\ bal.res[k] > 0
      /\ \A h \in DOMAIN bal.groups : LeaseOf(bal, h) = l => bal.groups[h].res[k] > 0
  BY <1>1, <1>2, OutIsCounted
<1>5. Counted(bal', bal, k, l, -1) /\ bal'.active = bal.active
  BY <1>2, <1>3, <1>4, ReleasedCounts
<1>6. \A j \in Kinds : bal'.active[j] = bal.active[j] + (IF j = k THEN 0 ELSE 0)
  BY <1>3, <1>5 DEF BalancerType
<1>7. PollsTake(k, l, 0) /\ CountsFor(bal)
  BY <1>3, SameHolders DEF CountsOK
<1>. QED BY <1>2, <1>3, <1>5, <1>6, <1>7, Recount

LEMMA StartCounts ==
  ASSUME FiniteSetFacts, Typing, HoldersOK, CountsOK, NEW k \in Kinds, Start(k)
  PROVE  CountsOK'
<1>0. PICK l : l = mgr[k].lease
  BY Zenon
<1>1. l \in LeaseType /\ l # None /\ ManagerTakes(k, l, -1)
  BY <1>0, StartMoves DEF HoldersOK, Typing, MgrOK, ManagerType, ManagerTakes
<1>2. PICK i \in Polls : /\ poll[i] = NoPoll /\ poll'[i].kind = k /\ poll'[i].lease = l
                         /\ \A j \in Polls : j # i => poll'[j] = poll[j]
  BY <1>0, StartMoves
<1>3. poll[i].kind = "none" /\ poll[i].lease = None /\ "none" \notin Kinds
  BY <1>2 DEF NoPoll, Kinds
<1>4. PollsTake(k, l, 1)
  <2>1. \A j \in Kinds \ {k} : Holders(j)' = Holders(j) /\ \A m : HoldersOf(j, m)' = HoldersOf(j, m)
    BY <1>2, <1>3 DEF Holders, HoldersOf
  <2>2. /\ Holders(k)' = Holders(k) \cup {i} /\ i \notin Holders(k)
        /\ HoldersOf(k, l)' = HoldersOf(k, l) \cup {i} /\ i \notin HoldersOf(k, l)
        /\ \A m : m # l => HoldersOf(k, m)' = HoldersOf(k, m)
    BY <1>1, <1>2, <1>3 DEF Holders, HoldersOf
  <2>. QED BY <2>1, <2>2 DEF PollsTake, Moved
<1>5. bal \in BalancerType /\ bal' = [bal EXCEPT !.active[k] = @ + 1]
  BY StartMoves DEF Typing, BalOK
<1>6. /\ Counted(bal', bal, k, l, 0)
      /\ \A j \in Kinds : bal'.active[j] = bal.active[j] + (IF j = k THEN 1 ELSE 0)
  <2>1. bal'.res = bal.res /\ bal'.groups = bal.groups /\ bal.active \in [Kinds -> Int]
    BY <1>5 DEF BalancerType
  <2>2. /\ \A j \in Kinds : bal.res[j] \in Int
        /\ \A h \in DOMAIN bal.groups : \A j \in Kinds : bal.groups[h].res[j] \in Int
    BY <1>5 DEF BalancerType, GroupsType, GroupType
  <2>3. Counted(bal', bal, k, l, 0)
    BY <2>1, <2>2 DEF Counted
  <2>. QED BY <1>5, <2>1, <2>3 DEF BalancerType
<1>7. CountsFor(bal)
  BY DEF CountsOK
<1>. QED BY <1>1, <1>4, <1>5, <1>6, <1>7, Recount

LEMMA ReleaseCounts ==
  ASSUME FiniteSetFacts, Typing, HoldersOK, CountsOK, NEW i \in Polls, releaseActivePoll(i)
  PROVE  CountsOK'
<1>0. PICK k, l, b : k = poll[i].kind /\ l = poll[i].lease /\ b = [bal EXCEPT !.active[k] = @ - 1]
  BY Zenon
<1>1. /\ k \in Kinds /\ l \in LeaseType /\ l # None
      /\ poll'[i].kind = k /\ poll'[i].lease = None
      /\ \A j \in Polls : j # i => poll'[j] = poll[j]
  BY <1>0, ReleaseMoves DEF HoldersOK, Typing, PollOK, PollType
<1>2. bal' = releaseReservationLocked(b, k, l) /\ ManagerTakes(k, l, 0)
  BY <1>0, ReleaseMoves DEF ManagersKeep, ManagerTakes
<1>3. /\ b \in BalancerType /\ b.res = bal.res /\ b.groups = bal.groups
      /\ \A j \in Kinds : b.active[j] = bal.active[j] + (IF j = k THEN -1 ELSE 0)
      /\ bal \in BalancerType
  BY <1>0, <1>1 DEF Typing, BalOK, BalancerType
<1>4. i \in HoldersOf(k, l) /\ PollsTake(k, l, -1)
  <2>1. \A j \in Kinds \ {k} : Holders(j)' = Holders(j) /\ \A m : HoldersOf(j, m)' = HoldersOf(j, m)
    BY <1>0, <1>1 DEF Holders, HoldersOf
  <2>2. /\ Holders(k)' = Holders(k) \ {i} /\ i \in Holders(k)
        /\ HoldersOf(k, l)' = HoldersOf(k, l) \ {i} /\ i \in HoldersOf(k, l)
        /\ \A m \in LeaseType : m # l => HoldersOf(k, m)' = HoldersOf(k, m)
    BY <1>0, <1>1, LeaseIsNotNone DEF Holders, HoldersOf
  <2>. QED BY <2>1, <2>2 DEF PollsTake, Moved
<1>5. /\ b.res[k] > 0
      /\ \A h \in DOMAIN b.groups : LeaseOf(b, h) = l => b.groups[h].res[k] > 0
  <2>1. /\ bal.res[k] > 0
        /\ \A h \in DOMAIN bal.groups : LeaseOf(bal, h) = l => bal.groups[h].res[k] > 0
    BY <1>1, <1>4, OutIsCounted
  <2>. QED BY <1>3, <2>1 DEF LeaseOf
<1>6. Counted(bal', b, k, l, -1) /\ bal'.active = b.active
  BY <1>1, <1>2, <1>3, <1>5, ReleasedCounts
<1>7. Counted(bal', bal, k, l, -1) /\ CountsFor(bal)
  BY <1>3, <1>6 DEF Counted, LeaseOf, CountsOK
<1>. QED BY <1>1, <1>2, <1>3, <1>4, <1>6, <1>7, Recount

\* The balancer counts every lease once, from the manager's acquire to the poll's
\* release.
LEMMA CountsStep ==
  FiniteSetFacts /\ Typing /\ HoldersOK /\ QueueOK /\ KeysOK /\ CountsOK /\ [Next]_vars
      => CountsOK'
<1>. SUFFICES ASSUME FiniteSetFacts, Typing, HoldersOK, QueueOK, KeysOK, CountsOK, [Next]_vars PROVE CountsOK'
  OBVIOUS
<1>1. ASSUME NEW k \in Kinds, ReserveSlot(k) PROVE CountsOK'
  <2>1. (\A j \in Kinds : mgr'[j].lease = mgr[j].lease) /\ UNCHANGED <<bal, poll>>
    BY <1>1, SlotMoves
  <2>2. PollsKeep /\ BalKeeps
    BY <2>1 DEF PollsKeep, BalKeeps, SameCover
  <2>. QED BY <2>1, <2>2, CalmCounts
<1>2. ASSUME Calm PROVE CountsOK'
  BY Zenon, <1>2, CalmCounts DEF Calm, ManagersKeep
<1>. QED BY Zenon, <1>1, <1>2, CalmStep, AcquireCounts, FailCounts, StartCounts, ReleaseCounts

\* The invariant at the start: no lease is out.
LEMMA LeasesInit == FiniteSetFacts /\ Init => QueueOK /\ HoldersOK /\ KeysOK /\ CountsOK
<1>. SUFFICES ASSUME FiniteSetFacts, Init PROVE QueueOK /\ HoldersOK /\ KeysOK /\ CountsOK
  OBVIOUS
<1>1. QueueOK
  BY DEF Init, QueueOK
<1>2. \A k \in Kinds : mgr[k].lease = None /\ mgr[k].pc = "top"
  BY DEF Init
<1>3. \A i \in Polls : poll[i].lease = None /\ poll[i].pc = "free"
  BY DEF Init, NoPoll
<1>4. HoldersOK
  BY <1>2, <1>3 DEF HoldersOK
<1>5. KeysOK
  <2>1. \A l \in LeaseType : ~Held(l)
    BY <1>2, <1>3, LeaseIsNotNone DEF Held
  <2>. QED BY <2>1 DEF Init, KeysOK, Known
<1>6. \A k \in Kinds : Holders(k) = {}
  BY <1>3 DEF Holders
<1>7. \A k \in Kinds : bal.active[k] = 0 /\ bal.res[k] = 0
  BY DEF Init, Zero
<1>8. DOMAIN bal.groups = {}
  BY DEF Init
<1>9. CountsOK
  <2>1. IsFiniteSet({}) /\ Cardinality({}) = 0
    BY DEF FiniteSetFacts
  <2>2. \A k \in Kinds : KindCounts(bal, k)
    BY <1>2, <1>6, <1>7, <1>8, <2>1 DEF KindCounts
  <2>. QED BY <1>6, <2>1, <2>2 DEF CountsOK, CountsFor
<1>. QED BY <1>1, <1>4, <1>5, <1>9

\* CountsOK in the terms of CountsAreLeases.
LEMMA CountsOKMeans ==
  ASSUME CountsOK
  PROVE  CountsAreLeases
<1>1. ASSUME NEW k \in Kinds PROVE Started(k, Leases \ {None}) = Cardinality(Holders(k))
  <2>1. {i \in PollsOf(k) : poll[i].lease \in Leases \ {None}} = Holders(k)
    BY DEF PollsOf, Leases, Holders
  <2>. QED BY <2>1 DEF Started
<1>2. ASSUME NEW k \in Kinds, NEW l PROVE Started(k, {l}) = Cardinality(HoldersOf(k, l))
  <2>1. {i \in PollsOf(k) : poll[i].lease \in {l}} = HoldersOf(k, l)
    BY DEF PollsOf, HoldersOf
  <2>. QED BY <2>1 DEF Started
<1>3. ASSUME NEW k \in Kinds
      PROVE  /\ mgr[k].lease \in Leases \ {None} <=> mgr[k].lease # None
             /\ \A l : mgr[k].lease \in {l} <=> mgr[k].lease = l
  BY DEF Leases
<1>4. ASSUME NEW k \in Kinds
      PROVE  /\ bal.res[k] = Out(k, Leases \ {None})
             /\ bal.active[k] = Started(k, Leases \ {None})
  BY Zenon, <1>1, <1>3 DEF CountsOK, CountsFor, KindCounts, Out
<1>5. ASSUME NEW k \in Kinds, NEW g \in DOMAIN bal.groups
      PROVE  bal.groups[g].res[k] = Out(k, {[group |-> g, key |-> bal.groups[g].key]})
  <2>1. PICK l : l = LeaseOf(bal, g)
    BY Zenon
  <2>2. bal.groups[g].res[k] = Cardinality(HoldersOf(k, l)) + (IF mgr[k].lease = l THEN 1 ELSE 0)
    BY <2>1 DEF CountsOK, CountsFor, KindCounts
  <2>3. Out(k, {l}) = Cardinality(HoldersOf(k, l)) + (IF mgr[k].lease = l THEN 1 ELSE 0)
    BY <1>2, <1>3 DEF Out
  <2>. QED BY Zenon, <2>1, <2>2, <2>3 DEF LeaseOf
<1>. QED BY Zenon, <1>4, <1>5 DEF CountsAreLeases

-----------------------------------------------------------------------------
INSTANCE FiniteSetTheorems

LEMMA FiniteSetLemma == FiniteSetFacts
<1>1. IsFiniteSet({}) /\ Cardinality({}) = 0
  BY FS_EmptySet
<1>2. ASSUME NEW S, IsFiniteSet(S) PROVE Cardinality(S) \in Nat /\ (Cardinality(S) = 0 => S = {})
  BY <1>2, FS_CardinalityType, FS_EmptySet
<1>3. ASSUME NEW S, NEW x, IsFiniteSet(S), x \notin S
      PROVE  IsFiniteSet(S \cup {x}) /\ Cardinality(S \cup {x}) = Cardinality(S) + 1
  BY <1>3, FS_AddElement
<1>4. ASSUME NEW S, NEW x, IsFiniteSet(S), x \in S
      PROVE  IsFiniteSet(S \ {x}) /\ Cardinality(S \ {x}) = Cardinality(S) - 1
  BY <1>4, FS_RemoveElement
<1>5. ASSUME NEW S, NEW R \in SUBSET S, IsFiniteSet(S) PROVE IsFiniteSet(R)
  BY <1>5, FS_Subset
<1>. QED BY Zenon, <1>1, <1>2, <1>3, <1>4, <1>5 DEF FiniteSetFacts

\* The balancer's counts are the leases that are out, whatever the order in which
\* groups come and go, slots are refused, and polls return: a lease that outlives
\* its group is never counted for, nor taken from, the group that has its name
\* later (releaseReservationLocked, syncGroupsLocked).
THEOREM CountsAreAlwaysLeases == Spec => []CountsAreLeases
<1>. DEFINE Inv == QueueOK /\ HoldersOK /\ KeysOK /\ CountsOK
<1>1. Init => Inv
  BY Zenon, LeasesInit, FiniteSetLemma
<1>2. Typing /\ Inv /\ [Next]_vars => Inv'
  BY Zenon, QueueStep, HoldersStep, KeysStep, CountsStep, FiniteSetLemma
<1>3. Inv => CountsAreLeases
  BY Zenon, CountsOKMeans
<1>. HIDE DEF Inv
<1>. QED BY <1>1, <1>2, <1>3, TypingAlways, PTL DEF Spec
=============================================================================
