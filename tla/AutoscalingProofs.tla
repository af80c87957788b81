-------------------------- MODULE AutoscalingProofs --------------------------
(***************************************************************************)
(* Proofs about Autoscaling, for any groups, group history, slots, poller  *)
(* bounds, backlog hints and number of polls.                              *)
(*                                                                         *)
(* Typing is needed for the counts.  A balancer that has looked at the     *)
(* store finds nothing new when it looks again (SyncTwice), so a manager's *)
(* answer stays right until something changes, and everything that changes *)
(* closes its channel, leaves its token, or is a poll on its way to do so. *)
(***************************************************************************)
EXTENDS Autoscaling, TLAPS

LeaseType == [group : Groups \cup {None}, key : Nat]
GroupType == [key : Nat, res : [Kinds -> Int], backlog : Nat]
GroupsType == UNION {[S -> GroupType] : S \in SUBSET Groups}
BalancerType == [res : [Kinds -> Int], active : [Kinds -> Int], target : Int, backlog : Nat,
                 groups : GroupsType]
RunnerType == [active : Int, target : Minimum .. Maximum, wake : BOOLEAN, saw : BOOLEAN]
ManagerPcs == {"top", "turnWait", "capacity", "capacityWait", "acquire", "acquireWait",
               "reserving", "permit"}
ManagerType == [pc : ManagerPcs, lease : LeaseType \cup {None}, seen : Nat, woken : BOOLEAN]
PollPcs == {"free", "polling", "changed", "notify", "finish", "release"}
PollType == [kind : Kinds \cup {"none"}, lease : LeaseType \cup {None}, pc : PollPcs,
             answered : BOOLEAN, target : Int]

StoreOK ==
    /\ store.version \in Nat
    /\ Known \subseteq Groups /\ \A g \in Known : store.groups[g] \in Nat
BalOK == bal \in BalancerType
RunnerOK == runner \in [Kinds -> RunnerType]
MgrOK == mgr \in [Kinds -> ManagerType] /\ \A k \in Kinds : mgr[k].seen <= store.version
PollOK == /\ poll \in [Polls -> PollType]
          /\ \A i \in Polls : poll[i].pc = "free" <=> poll[i].kind = "none"
Typing == StoreOK /\ BalOK /\ RunnerOK /\ MgrOK /\ PollOK

-----------------------------------------------------------------------------
(* What the balancer's operators do.                                       *)

\* syncGroupsLocked has the groups of the store, under their keys.
LEMMA SyncType ==
  ASSUME StoreOK, BalOK
  PROVE  /\ syncGroupsLocked \in BalancerType
         /\ DOMAIN syncGroupsLocked.groups = Known
         /\ \A g \in Known : syncGroupsLocked.groups[g].key = store.groups[g]
<1>. DEFINE gs == syncGroupsLocked.groups
<1>1. DOMAIN bal.groups \subseteq Groups /\ \A g \in DOMAIN bal.groups : bal.groups[g] \in GroupType
  BY DEF BalOK, BalancerType, GroupsType
<1>2. \A g \in Known : NewGroup(store.groups[g]) \in GroupType
  BY DEF StoreOK, NewGroup, GroupType, Zero
<1>3. gs \in [Known -> GroupType] /\ \A g \in Known : gs[g].key = store.groups[g]
  BY <1>1, <1>2 DEF syncGroupsLocked, NewGroup
<1>4. gs \in GroupsType
  BY <1>3 DEF GroupsType, StoreOK
<1>5. syncGroupsLocked \in BalancerType
  BY <1>4 DEF syncGroupsLocked, BalancerType, BalOK
<1>. QED BY <1>3, <1>5

\* A balancer that has the store's groups is not changed by another look.
LEMMA SyncTwice ==
  ASSUME StoreOK, NEW b \in BalancerType, DOMAIN b.groups = Known,
         \A g \in Known : b.groups[g].key = store.groups[g],
         Known # {} => b.backlog = 0,
         bal' = b, store' = store
  PROVE  syncGroupsLocked' = b
<1>1. b.groups = [g \in Known |-> b.groups[g]]
  BY DEF BalancerType, GroupsType
<1>2. b = [res |-> b.res, active |-> b.active, target |-> b.target, backlog |-> b.backlog,
           groups |-> b.groups]
  BY DEF BalancerType
<1>3. Known' = Known
  BY DEF Known
<1>4. syncGroupsLocked'.groups = b.groups
  BY <1>1, <1>3 DEF syncGroupsLocked
<1>. QED BY <1>2, <1>3, <1>4 DEF syncGroupsLocked

\* Groups with one count of one kind changed.
LEMMA CountType ==
  ASSUME NEW gs \in GroupsType, NEW g \in DOMAIN gs, NEW k \in Kinds, NEW n \in Int
  PROVE  LET new == [gs EXCEPT ![g].res[k] = n]
         IN  /\ new \in GroupsType /\ DOMAIN new = DOMAIN gs
             /\ \A h \in DOMAIN gs : /\ new[h].key = gs[h].key
                                    /\ \A j \in Kinds : j # k => new[h].res[j] = gs[h].res[j]
<1>. DEFINE new == [gs EXCEPT ![g].res[k] = n]
<1>1. PICK S \in SUBSET Groups : gs \in [S -> GroupType]
  BY DEF GroupsType
<1>2. [gs[g].res EXCEPT ![k] = n] \in [Kinds -> Int]
  BY <1>1 DEF GroupType
<1>3. gs[g] = [key |-> gs[g].key, res |-> gs[g].res, backlog |-> gs[g].backlog]
  BY <1>1 DEF GroupType
<1>4. new[g] = [key |-> gs[g].key, res |-> [gs[g].res EXCEPT ![k] = n], backlog |-> gs[g].backlog]
  BY <1>1, <1>3 DEF GroupType
<1>5. new[g] \in GroupType
  BY <1>1, <1>2, <1>4 DEF GroupType
<1>6. new \in [S -> GroupType]
  BY <1>1, <1>5
<1>7. \A h \in DOMAIN gs : /\ new[h].key = gs[h].key
                          /\ \A j \in Kinds : j # k => new[h].res[j] = gs[h].res[j]
  BY <1>1, <1>4 DEF GroupType
<1>. QED BY <1>1, <1>6, <1>7 DEF GroupsType

\* Two balancers that agree on groups, keys, and a kind's counts.
SameCover(b, c, k) ==
    /\ DOMAIN b.groups = DOMAIN c.groups
    /\ \A g \in DOMAIN b.groups : b.groups[g].key = c.groups[g].key
                                 /\ b.groups[g].res[k] = c.groups[g].res[k]

\* A reservation adds to the counts of its kind only.
LEMMA ReservedType ==
  ASSUME NEW b \in BalancerType, NEW k \in Kinds, NEW g, g = None \/ g \in DOMAIN b.groups,
         None \notin DOMAIN b.groups
  PROVE  /\ Reserved(b, k, g) \in BalancerType
         /\ Reserved(b, k, g).backlog = b.backlog
         /\ \A j \in Kinds : j # k => SameCover(Reserved(b, k, g), b, j)
         /\ DOMAIN Reserved(b, k, g).groups = DOMAIN b.groups
         /\ \A h \in DOMAIN b.groups : Reserved(b, k, g).groups[h].key = b.groups[h].key
<1>. DEFINE res == [b.res EXCEPT ![k] = @ + 1]
<1>1. res \in [Kinds -> Int]
  BY DEF BalancerType
<1>2. CASE g = None
  <2>1. Reserved(b, k, g) = [res |-> res, active |-> b.active, target |-> b.target,
                             backlog |-> b.backlog, groups |-> b.groups]
    BY <1>2 DEF Reserved, BalancerType
  <2>. QED BY <1>1, <2>1 DEF BalancerType, SameCover
<1>3. CASE g # None
  <2>. DEFINE gs == [b.groups EXCEPT ![g].res[k] = b.groups[g].res[k] + 1]
  <2>1. Reserved(b, k, g) = [res |-> res, active |-> b.active, target |-> b.target,
                             backlog |-> b.backlog, groups |-> gs]
    BY Zenon, <1>3 DEF Reserved, BalancerType
  <2>2. /\ b.groups[g].res[k] + 1 \in Int
        /\ b.groups \in GroupsType /\ g \in DOMAIN b.groups
    BY <1>3 DEF BalancerType, GroupsType, GroupType
  <2>3. /\ gs \in GroupsType /\ DOMAIN gs = DOMAIN b.groups
        /\ \A h \in DOMAIN b.groups :
              /\ gs[h].key = b.groups[h].key
              /\ \A j \in Kinds : j # k => gs[h].res[j] = b.groups[h].res[j]
    BY <2>2, CountType
  <2>. QED BY <1>1, <2>1, <2>3 DEF BalancerType, SameCover
<1>. QED BY <1>2, <1>3

\* A release takes from the counts of its kind only.
LEMMA ReleasedType ==
  ASSUME NEW b \in BalancerType, NEW k \in Kinds, NEW l
  PROVE  /\ releaseReservationLocked(b, k, l) \in BalancerType
         /\ releaseReservationLocked(b, k, l).target = b.target
         /\ \A j \in Kinds : j # k => SameCover(releaseReservationLocked(b, k, l), b, j)
<1>. DEFINE res == [b.res EXCEPT ![k] = Larger(@ - 1, 0)]
            g == l.group
            down == g \in DOMAIN b.groups /\ b.groups[g].key = l.key /\ b.groups[g].res[k] > 0
            gs == [b.groups EXCEPT ![g].res[k] = b.groups[g].res[k] - 1]
            new == releaseReservationLocked(b, k, l)
<1>1. res \in [Kinds -> Int]
  BY DEF BalancerType, Larger
<1>2. CASE ~down
  <2>1. new = [res |-> res, active |-> b.active, target |-> b.target,
               backlog |-> b.backlog, groups |-> b.groups]
    BY <1>2 DEF releaseReservationLocked, BalancerType
  <2>. QED BY <1>1, <2>1 DEF BalancerType, SameCover
<1>3. CASE down
  <2>1. new = [res |-> res, active |-> b.active, target |-> b.target,
               backlog |-> b.backlog, groups |-> gs]
    BY Zenon, <1>3 DEF releaseReservationLocked, BalancerType
  <2>2. /\ b.groups[g].res[k] - 1 \in Int
        /\ b.groups \in GroupsType /\ g \in DOMAIN b.groups
    BY <1>3 DEF BalancerType, GroupsType, GroupType
  <2>3. /\ gs \in GroupsType /\ DOMAIN gs = DOMAIN b.groups
        /\ \A h \in DOMAIN b.groups :
              /\ gs[h].key = b.groups[h].key
              /\ \A j \in Kinds : j # k => gs[h].res[j] = b.groups[h].res[j]
    BY <2>2, CountType
  <2>. QED BY <1>1, <2>1, <2>3 DEF BalancerType, SameCover
<1>. QED BY <1>2, <1>3

-----------------------------------------------------------------------------
(* Types.                                                                  *)

\* The initial state: groups are seeded, nothing polls.
LEMMA TypingInit == Init => Typing
<1>. SUFFICES ASSUME Init PROVE Typing
  OBVIOUS
<1>. USE AutoscalingAssumption DEF Init
<1>1. StoreOK
  BY DEF StoreOK, Known
<1>2. BalOK
  <2>1. bal.groups \in [{} -> GroupType]
    OBVIOUS
  <2>2. bal.groups \in GroupsType
    BY Zenon, <2>1 DEF GroupsType
  <2>. QED BY <2>2 DEF BalOK, BalancerType, Zero
<1>3. RunnerOK
  BY DEF RunnerOK, RunnerType
<1>4. MgrOK
  BY DEF MgrOK, ManagerType, ManagerPcs
<1>5. PollOK
  BY DEF PollOK, PollType, PollPcs, NoPoll, Kinds
<1>. QED BY <1>1, <1>2, <1>3, <1>4, <1>5 DEF Typing

\* updateGroups takes only later versions.
LEMMA StoreStep ==
  Typing /\ [Next]_vars =>
      StoreOK' /\ (UNCHANGED store \/ (GroupsInfo /\ store'.version > store.version))
<1>. SUFFICES ASSUME Typing, [Next]_vars
             PROVE  StoreOK' /\ (UNCHANGED store \/ (GroupsInfo /\ store'.version > store.version))
  OBVIOUS
<1>1. CASE GroupsInfo
  <2>1. PICK v \in DOMAIN History :
          /\ v > store.version
          /\ store' = [version |-> v,
                       groups |-> [g \in History[v] |-> IF g \in Known THEN store.groups[g] ELSE v]]
    BY <1>1 DEF GroupsInfo, updateGroups
  <2>2. v \in Nat /\ History[v] \subseteq Groups
    BY AutoscalingAssumption
  <2>. QED BY <1>1, <2>1, <2>2 DEF StoreOK, Known, Typing
<1>2. ASSUME NEW k \in Kinds, Manager(k) \/ ReserveSlot(k) \/ ReserveFails(k)
      PROVE  UNCHANGED store
  BY <1>2 DEF Manager, waitForPollTurn, AcquireCapacity, CapacityWakes, AcquireGroup, AcquireWaits,
              Start, ReserveSlot, ReserveFails
<1>3. ASSUME NEW i \in Polls, Poll(i) PROVE UNCHANGED store
  BY Zenon, <1>3 DEF Poll, PollReturns, LoadTarget, TargetChanged, releaseActivePoll, Release
<1>4. ASSUME TaskProcessed \/ UNCHANGED vars PROVE UNCHANGED store
  BY <1>4 DEF TaskProcessed, vars
<1>5. ASSUME UNCHANGED store PROVE StoreOK'
  BY <1>5 DEF Typing, StoreOK, Known
<1>6. GroupsInfo \/ UNCHANGED store
  BY <1>2, <1>3, <1>4 DEF Next
<1>. QED BY <1>1, <1>5, <1>6

\* A group a manager may target is a group of the store.
LEMMA GroupKnown ==
  ASSUME Typing, NEW k \in Kinds, NEW g \in Groups \cup {None}, AcquireGroup(k, g)
  PROVE  /\ Lease(g) \in LeaseType
         /\ g = None \/ g \in DOMAIN syncGroupsLocked.groups
         /\ None \notin DOMAIN syncGroupsLocked.groups
<1>1. DOMAIN syncGroupsLocked.groups = Known /\ Known \subseteq Groups
  BY SyncType DEF Typing, StoreOK
<1>2. CASE Known = {}
  BY <1>1, <1>2 DEF AcquireGroup, Lease, LeaseType
<1>3. CASE Known # {}
  <2>1. g \in Known
    BY <1>1, <1>3 DEF AcquireGroup, eligibleGroups, coverageCandidates, stickyCandidates
  <2>. QED BY <1>1, <2>1, AutoscalingAssumption DEF Lease, LeaseType, Typing, StoreOK
<1>. QED BY <1>2, <1>3

\* A backlog hint changes no count.
LEMMA BacklogType ==
  ASSUME Typing, NEW g \in Groups \cup {None}, NEW n \in Backlogs, setStickyGroupBacklog(g, n)
  PROVE  /\ bal' \in BalancerType /\ bal'.target = bal.target
         /\ \A k \in Kinds : SameCover(bal', syncGroupsLocked, k)
         /\ (bal' = syncGroupsLocked /\ mgr' = mgr) \/ mgr' = wakeWaiters(mgr)
<1>. DEFINE b == syncGroupsLocked
<1>1. b \in BalancerType /\ DOMAIN b.groups = Known /\ b.target = bal.target
  BY SyncType DEF Typing, syncGroupsLocked
<1>2. n \in Nat
  BY AutoscalingAssumption
<1>. HIDE DEF b
<1>3. CASE bal' = b
  BY <1>1, <1>3 DEF setStickyGroupBacklog, SameCover, b
<1>4. CASE bal' = [b EXCEPT !.backlog = n]
  BY <1>1, <1>2, <1>4 DEF setStickyGroupBacklog, BalancerType, SameCover, b
<1>5. CASE g \in DOMAIN b.groups /\ bal' = [b EXCEPT !.groups[g].backlog = n]
  <2>. DEFINE gs == [b.groups EXCEPT ![g].backlog = n]
  <2>1. PICK S \in SUBSET Groups : b.groups \in [S -> GroupType]
    BY <1>1 DEF BalancerType, GroupsType
  <2>2. gs[g] = [key |-> b.groups[g].key, res |-> b.groups[g].res, backlog |-> n]
    BY <1>5, <2>1 DEF GroupType
  <2>3. gs \in [S -> GroupType]
    BY <1>2, <1>5, <2>1, <2>2 DEF GroupType
  <2>4. gs \in GroupsType
    BY <2>3 DEF GroupsType
  <2>5. bal' = [res |-> b.res, active |-> b.active, target |-> b.target, backlog |-> b.backlog,
                groups |-> gs]
    BY <1>1, <1>5 DEF BalancerType
  <2>6. bal' \in BalancerType /\ bal'.target = bal.target
    BY <1>1, <2>4, <2>5 DEF BalancerType
  <2>7. \A k \in Kinds : SameCover(bal', b, k)
    BY <2>1, <2>2, <2>5 DEF SameCover, GroupType
  <2>. QED BY <2>6, <2>7 DEF setStickyGroupBacklog, b
<1>. QED BY <1>1, <1>3, <1>4, <1>5 DEF setStickyGroupBacklog, b

\* Every step keeps the balancer's type.
LEMMA BalStep == Typing /\ [Next]_vars => BalOK'
<1>. SUFFICES ASSUME Typing, [Next]_vars PROVE BalOK'
  OBVIOUS
<1>. USE DEF BalOK
<1>1. syncGroupsLocked \in BalancerType /\ bal \in BalancerType
  BY SyncType DEF Typing
<1>2. ASSUME NEW k \in Kinds, Manager(k) \/ ReserveSlot(k) \/ ReserveFails(k) PROVE BalOK'
  <2>1. ASSUME NEW g \in Groups \cup {None}, AcquireGroup(k, g) PROVE BalOK'
    <3>1. bal' = Reserved(syncGroupsLocked, k, g)
      BY <2>1 DEF AcquireGroup
    <3>. QED BY <1>1, <2>1, <3>1, GroupKnown, ReservedType
  <2>2. CASE ReserveFails(k)
    BY <1>1, <2>2, ReleasedType DEF ReserveFails
  <2>3. CASE Start(k)
    <3>1. bal' = [bal EXCEPT !.active[k] = @ + 1]
      BY <2>3 DEF Start
    <3>2. bal' = [res |-> bal.res, active |-> [bal.active EXCEPT ![k] = @ + 1],
                  target |-> bal.target, backlog |-> bal.backlog, groups |-> bal.groups]
      BY <1>1, <3>1 DEF BalancerType
    <3>. QED BY <1>1, <3>2 DEF BalancerType
  <2>4. CASE waitForPollTurn(k) \/ AcquireWaits(k) \/ AcquireCapacity(k)
    BY <1>1, <2>4 DEF waitForPollTurn, AcquireWaits, AcquireCapacity
  <2>5. CASE CapacityWakes(k) \/ ReserveSlot(k)
    BY <1>1, <2>5 DEF CapacityWakes, ReserveSlot
  <2>. QED BY <1>2, <2>1, <2>2, <2>3, <2>4, <2>5 DEF Manager
<1>3. ASSUME NEW i \in Polls, Poll(i) PROVE BalOK'
  <2>1. CASE PollReturns(i)
    BY <1>1, <2>1, BacklogType DEF PollReturns
  <2>2. CASE TargetChanged(i)
    <3>1. bal' = bal \/ bal' = [bal EXCEPT !.target = poll[i].target]
      BY <2>2 DEF TargetChanged
    <3>2. poll[i].target \in Int
      BY DEF Typing, PollOK, PollType
    <3>. QED BY <1>1, <3>1, <3>2 DEF BalancerType
  <2>3. CASE releaseActivePoll(i)
    <3>. DEFINE b == [bal EXCEPT !.active[poll[i].kind] = @ - 1]
    <3>1. poll[i].kind \in Kinds
      BY <2>3 DEF releaseActivePoll, PollAt, Typing, PollOK, PollType
    <3>2. b = [res |-> bal.res, active |-> [bal.active EXCEPT ![poll[i].kind] = @ - 1],
               target |-> bal.target, backlog |-> bal.backlog, groups |-> bal.groups]
      BY <1>1 DEF BalancerType
    <3>3. b \in BalancerType
      BY <1>1, <3>1, <3>2 DEF BalancerType
    <3>. QED BY <2>3, <3>1, <3>3, ReleasedType DEF releaseActivePoll
  <2>4. CASE LoadTarget(i) \/ Release(i)
    BY <1>1, <2>4 DEF LoadTarget, Release
  <2>. QED BY <1>3, <2>1, <2>2, <2>3, <2>4 DEF Poll
<1>4. CASE GroupsInfo \/ TaskProcessed \/ UNCHANGED vars
  BY <1>1, <1>4 DEF GroupsInfo, TaskProcessed, vars
<1>. QED BY <1>2, <1>3, <1>4 DEF Next

\* The target stays between the minimum and the maximum.
LEMMA ClampType ==
  ASSUME NEW t \in Int
  PROVE  Clamp(t) \in Minimum .. Maximum /\ (t \in Minimum .. Maximum => Clamp(t) = t)
  BY AutoscalingAssumption DEF Clamp, effectivePollerTarget, Larger

\* What an answer does to the autoscaler.
LEMMA DecisionType ==
  ASSUME Typing, NEW k \in Kinds, NEW a, NEW d \in Decisions(k, a)
  PROVE  d.target \in Int /\ d.saw \in BOOLEAN
<1>1. runner[k].target \in Int /\ runner[k].saw \in BOOLEAN
  BY AutoscalingAssumption DEF Typing, RunnerOK, RunnerType
<1>2. NoDecision(k, a, runner[k].target) \in Int
  BY <1>1 DEF NoDecision
<1>3. CASE d = [target |-> NoDecision(k, a, runner[k].target), saw |-> runner[k].saw]
  BY <1>1, <1>2, <1>3
<1>4. ASSUME NEW n \in Minimum - 1 .. Maximum + 1, d = [target |-> n, saw |-> TRUE]
      PROVE  d.target \in Int /\ d.saw \in BOOLEAN
  BY <1>4, AutoscalingAssumption
<1>. QED BY <1>3, <1>4 DEF Decisions

\* Every step keeps the runners' type.
LEMMA RunnerStep == Typing /\ [Next]_vars => RunnerOK'
<1>. SUFFICES ASSUME Typing, [Next]_vars PROVE RunnerOK'
  OBVIOUS
<1>. USE DEF RunnerOK, RunnerType
<1>0. runner \in [Kinds -> RunnerType]
  BY DEF Typing
<1>1. ASSUME NEW k \in Kinds, Manager(k) \/ ReserveSlot(k) \/ ReserveFails(k) PROVE RunnerOK'
  <2>1. CASE AcquireCapacity(k) \/ CapacityWakes(k)
    <3>1. \/ runner' = runner
          \/ runner' = [runner EXCEPT ![k].active = @ + 1]
          \/ runner' = [runner EXCEPT ![k].wake = FALSE]
      BY <2>1 DEF AcquireCapacity, CapacityWakes
    <3>2. CASE runner' = [runner EXCEPT ![k].active = @ + 1]
      BY <1>0, <3>2
    <3>3. CASE runner' = [runner EXCEPT ![k].wake = FALSE]
      BY Zenon, <1>0, <3>3
    <3>. QED BY <1>0, <3>1, <3>2, <3>3
  <2>2. CASE ReserveFails(k)
    BY <1>0, <2>2 DEF ReserveFails, Returned
  <2>3. ASSUME waitForPollTurn(k) \/ AcquireWaits(k) \/ Start(k) \/ ReserveSlot(k)
               \/ \E g \in Groups \cup {None} : AcquireGroup(k, g)
        PROVE  UNCHANGED runner
    BY <2>3 DEF waitForPollTurn, AcquireWaits, Start, ReserveSlot, AcquireGroup
  <2>. QED BY <1>0, <1>1, <2>1, <2>2, <2>3 DEF Manager
<1>2. ASSUME NEW i \in Polls, Poll(i) PROVE RunnerOK'
  <2>1. PollAt(i, "free") \/ poll[i].kind \in Kinds
    BY DEF PollAt, Typing, PollOK, PollType
  <2>2. CASE PollReturns(i)
    <3>1. PICK a, d : /\ d \in Decisions(poll[i].kind, a)
                      /\ runner' = [runner EXCEPT ![poll[i].kind] =
                                      [active |-> @.active, target |-> Clamp(d.target),
                                       wake |-> @.wake, saw |-> d.saw]]
      BY Zenon, <2>2 DEF PollReturns
    <3>2. poll[i].kind \in Kinds
      BY <2>1, <2>2 DEF PollReturns, PollAt
    <3>3. Clamp(d.target) \in Minimum .. Maximum /\ d.saw \in BOOLEAN
      BY <3>1, <3>2, ClampType, DecisionType
    <3>. QED BY <1>0, <3>1, <3>2, <3>3
  <2>3. CASE TargetChanged(i)
    BY Zenon, <1>0, <2>3 DEF TargetChanged
  <2>4. CASE Release(i)
    <3>1. poll[i].kind \in Kinds
      BY <2>1, <2>4 DEF Release, PollAt
    <3>. QED BY <1>0, <2>4, <3>1 DEF Release, Returned
  <2>5. CASE LoadTarget(i) \/ releaseActivePoll(i)
    BY <1>0, <2>5 DEF LoadTarget, releaseActivePoll
  <2>. QED BY <1>2, <2>2, <2>3, <2>4, <2>5 DEF Poll
<1>3. CASE GroupsInfo \/ TaskProcessed \/ UNCHANGED vars
  BY <1>0, <1>3 DEF GroupsInfo, TaskProcessed, vars
<1>. QED BY <1>1, <1>2, <1>3 DEF Next

\* Waking the waiters changes nothing else.
LEMMA WakeType ==
  ASSUME mgr \in [Kinds -> ManagerType]
  PROVE  /\ wakeWaiters(mgr) \in [Kinds -> ManagerType]
         /\ \A k \in Kinds :
              /\ wakeWaiters(mgr)[k].pc = mgr[k].pc /\ wakeWaiters(mgr)[k].seen = mgr[k].seen
              /\ mgr[k].pc \in {"turnWait", "acquireWait"} => wakeWaiters(mgr)[k].woken
  BY Zenon DEF wakeWaiters, ManagerType

\* Every step keeps the managers' type; what a manager has seen is no later than
\* the store.
LEMMA MgrStep == Typing /\ [Next]_vars => MgrOK'
<1>. SUFFICES ASSUME Typing, [Next]_vars PROVE MgrOK'
  OBVIOUS
<1>0. /\ mgr \in [Kinds -> ManagerType] /\ \A k \in Kinds : mgr[k].seen <= store.version
      /\ store.version \in Nat
  BY DEF Typing, MgrOK, StoreOK
<1>1. ASSUME NEW k \in Kinds, NEW pc \in ManagerPcs, NEW lease \in LeaseType \cup {None},
             NEW seen \in {0, store.version}, UNCHANGED store,
             \/ mgr' = [mgr EXCEPT ![k] = Manages(pc, lease, seen)]
             \/ mgr' = [wakeWaiters(mgr) EXCEPT ![k] = Manages(pc, lease, seen)]
      PROVE  MgrOK'
  <2>1. Manages(pc, lease, seen) \in ManagerType /\ Manages(pc, lease, seen).seen = seen
    BY <1>0 DEF Manages, ManagerType
  <2>2. mgr' \in [Kinds -> ManagerType]
    BY <1>0, <1>1, <2>1, WakeType
  <2>3. ASSUME NEW j \in Kinds PROVE mgr'[j].seen <= store.version
    BY <1>0, <1>1, <2>1, WakeType
  <2>. QED BY <1>1, <2>2, <2>3 DEF MgrOK
<1>2. ASSUME UNCHANGED store, mgr' = mgr \/ mgr' = wakeWaiters(mgr) PROVE MgrOK'
  BY <1>0, <1>2, WakeType DEF MgrOK
<1>3. ASSUME NEW k \in Kinds, Manager(k) \/ ReserveSlot(k) \/ ReserveFails(k) PROVE MgrOK'
  <2>. USE DEF Goto, GotoWith, ManagerPcs
  <2>1. mgr[k].lease \in LeaseType \cup {None}
    BY <1>0 DEF ManagerType
  <2>2. CASE waitForPollTurn(k)
    BY Zenon, <1>1, <2>1, <2>2 DEF waitForPollTurn
  <2>3. CASE AcquireCapacity(k)
    <3>1. CASE Goto(k, "acquire")
      BY Zenon, <1>1, <2>1, <2>3, <3>1 DEF AcquireCapacity
    <3>2. CASE mgr' = [mgr EXCEPT ![k].pc = "capacityWait"]
      BY <1>0, <2>3, <3>2 DEF AcquireCapacity, MgrOK, ManagerType
    <3>. QED BY <2>3, <3>1, <3>2 DEF AcquireCapacity
  <2>4. CASE CapacityWakes(k) \/ AcquireWaits(k) \/ ReserveSlot(k)
    BY <1>1, <2>1, <2>4 DEF CapacityWakes, AcquireWaits, ReserveSlot
  <2>5. CASE \E g \in Groups \cup {None} : AcquireGroup(k, g)
    BY Zenon, <1>1, <2>5, GroupKnown DEF AcquireGroup
  <2>6. CASE Start(k) \/ ReserveFails(k)
    BY <1>1, <2>6 DEF Start, ReserveFails
  <2>. QED BY <1>3, <2>2, <2>3, <2>4, <2>5, <2>6 DEF Manager
<1>4. ASSUME NEW i \in Polls, Poll(i) PROVE MgrOK'
  BY Zenon, <1>2, <1>4 DEF Poll, PollReturns, setStickyGroupBacklog, LoadTarget, TargetChanged,
                    releaseActivePoll, Release
<1>5. CASE GroupsInfo
  <2>1. store'.version \in Nat /\ store'.version >= store.version
    BY <1>0, StoreStep DEF StoreOK
  <2>. QED BY <1>0, <1>5, <2>1 DEF GroupsInfo, MgrOK, ManagerType
<1>6. CASE TaskProcessed \/ UNCHANGED vars
  BY <1>2, <1>6 DEF TaskProcessed, vars
<1>. QED BY <1>3, <1>4, <1>5, <1>6 DEF Next

\* What a poll's step does to the polls.
LEMMA PollGotoType ==
  ASSUME PollOK, NEW i \in Polls, poll[i].kind \in Kinds, NEW pc \in PollPcs \ {"free"},
         NEW answered \in BOOLEAN, NEW target \in Int, PollGoto(i, pc, answered, target)
  PROVE  /\ PollOK'
         /\ poll'[i].kind = poll[i].kind /\ poll'[i].pc = pc /\ poll'[i].target = target
         /\ \A j \in Polls : j # i => poll'[j] = poll[j]
<1>1. poll[i].lease \in LeaseType \cup {None}
  BY DEF PollOK, PollType
<1>. QED BY <1>1 DEF PollOK, PollType, PollGoto, Kinds

\* Only a poll in flight has a step.
LEMMA PollsFly ==
  ASSUME PollOK, NEW i \in Polls, Poll(i)
  PROVE  poll[i].kind \in Kinds
  BY Zenon DEF PollOK, PollType, PollAt, Poll, PollReturns, LoadTarget, TargetChanged,
         releaseActivePoll, Release

\* Every step keeps the polls' type.
LEMMA PollStep == Typing /\ [Next]_vars => PollOK'
<1>. SUFFICES ASSUME Typing, [Next]_vars PROVE PollOK'
  OBVIOUS
<1>0. PollOK /\ poll \in [Polls -> PollType]
  BY DEF Typing, PollOK
<1>1. ASSUME NEW k \in Kinds, Start(k) PROVE PollOK'
  <2>1. PICK i \in Polls :
          poll' = [poll EXCEPT ![i] = [kind |-> k, lease |-> mgr[k].lease, pc |-> "polling",
                                       answered |-> FALSE, target |-> 0]]
    BY Zenon, <1>1 DEF Start
  <2>2. mgr[k].lease \in LeaseType \cup {None}
    BY DEF Typing, MgrOK, ManagerType
  <2>. QED BY <1>0, <2>1, <2>2 DEF PollOK, PollType, PollPcs, Kinds
<1>2. ASSUME NEW i \in Polls, Poll(i) PROVE PollOK'
  <2>1. poll[i].kind \in Kinds
    BY <1>0, <1>2, PollsFly
  <2>2. CASE PollReturns(i)
    <3>1. PICK a : PollGoto(i, "finish", FALSE, 0) \/ PollGoto(i, "changed", a \in Answers, 0)
      BY Zenon, <2>2 DEF PollReturns
    <3>2. (a \in Answers) \in BOOLEAN /\ FALSE \in BOOLEAN /\ 0 \in Int
      OBVIOUS
    <3>3. {"finish", "changed"} \subseteq PollPcs \ {"free"}
      BY DEF PollPcs
    <3>. QED BY Zenon, <1>0, <2>1, <3>1, <3>2, <3>3, PollGotoType
  <2>3. CASE LoadTarget(i)
    <3>1. poll[i].answered \in BOOLEAN /\ runner["sticky"].target \in Int
      BY <1>0, AutoscalingAssumption DEF PollType, Typing, RunnerOK, RunnerType, Kinds
    <3>. QED BY <1>0, <2>1, <2>3, <3>1, PollGotoType DEF LoadTarget, PollPcs
  <2>4. CASE TargetChanged(i)
    <3>1. PollGoto(i, "finish", FALSE, 0)
      BY Zenon, <2>4 DEF TargetChanged
    <3>2. "finish" \in PollPcs \ {"free"} /\ FALSE \in BOOLEAN /\ 0 \in Int
      BY DEF PollPcs
    <3>. QED BY Zenon, <1>0, <2>1, <3>1, <3>2, PollGotoType
  <2>5. CASE releaseActivePoll(i)
    BY <1>0, <2>1, <2>5 DEF releaseActivePoll, PollOK, PollType, PollPcs, Kinds
  <2>6. CASE Release(i)
    BY <1>0, <2>6 DEF Release, NoPoll, PollOK, PollType, PollPcs
  <2>. QED BY <1>2, <2>2, <2>3, <2>4, <2>5, <2>6 DEF Poll
<1>3. ASSUME NEW k \in Kinds,
             \/ waitForPollTurn(k) \/ AcquireCapacity(k) \/ CapacityWakes(k)
             \/ \E g \in Groups \cup {None} : AcquireGroup(k, g)
             \/ AcquireWaits(k) \/ ReserveSlot(k) \/ ReserveFails(k)
      PROVE  UNCHANGED poll
  BY <1>3 DEF waitForPollTurn, AcquireCapacity, CapacityWakes, AcquireGroup, AcquireWaits,
              ReserveSlot, ReserveFails
<1>4. ASSUME GroupsInfo \/ TaskProcessed \/ UNCHANGED vars PROVE UNCHANGED poll
  BY <1>4 DEF GroupsInfo, TaskProcessed, vars
<1>5. ASSUME UNCHANGED poll PROVE PollOK'
  BY <1>0, <1>5 DEF PollOK
<1>. QED BY <1>1, <1>2, <1>3, <1>4, <1>5 DEF Next, Manager

\* Types are kept.
THEOREM TypingAlways == Spec => []Typing
<1>1. Typing /\ [Next]_vars => Typing'
  BY StoreStep, BalStep, RunnerStep, MgrStep, PollStep DEF Typing
<1>. QED BY TypingInit, <1>1, PTL DEF Spec

-----------------------------------------------------------------------------
(* The sticky target.                                                      *)

StickyAt(i, pc) == poll[i].kind = "sticky" /\ poll[i].pc = pc

\* At most one callback is under way; if no other is to follow, it brings the
\* target of the moment, or that target has been brought.
TargetInv ==
    /\ \A i \in Polls : poll[i].pc = "notify" => poll[i].kind = "sticky"
    /\ \A i, j \in Polls : StickyAt(i, "notify") /\ StickyAt(j, "notify") => i = j
    /\ \/ \E i \in Polls : StickyAt(i, "changed")
       \/ \E i \in Polls : StickyAt(i, "notify") /\ poll[i].target = runner["sticky"].target
       \/ /\ \A i \in Polls : ~StickyAt(i, "notify")
          /\ bal.target = runner["sticky"].target

\* No step of a manager touches the sticky target or a callback.
LEMMA TargetKept ==
  ASSUME Typing, NEW k \in Kinds, Manager(k) \/ ReserveSlot(k) \/ ReserveFails(k)
  PROVE  /\ bal'.target = bal.target /\ runner'["sticky"].target = runner["sticky"].target
         /\ \A i \in Polls : \/ poll'[i] = poll[i]
                             \/ poll[i].pc = "free" /\ poll'[i].pc = "polling"
<1>0. /\ bal \in BalancerType /\ syncGroupsLocked.target = bal.target
      /\ runner \in [Kinds -> RunnerType] /\ poll \in [Polls -> PollType]
      /\ syncGroupsLocked \in BalancerType
  BY SyncType DEF Typing, BalOK, RunnerOK, PollOK, syncGroupsLocked
<1>1. CASE Start(k)
  <2>1. PICK i \in Polls :
          /\ poll[i] = NoPoll
          /\ poll' = [poll EXCEPT ![i] = [kind |-> k, lease |-> mgr[k].lease, pc |-> "polling",
                                          answered |-> FALSE, target |-> 0]]
    BY Zenon, <1>1 DEF Start
  <2>2. bal'.target = bal.target /\ UNCHANGED runner
    BY <1>0, <1>1 DEF Start, BalancerType
  <2>. QED BY <1>0, <2>1, <2>2 DEF NoPoll
<1>2. CASE waitForPollTurn(k) \/ AcquireWaits(k) \/ CapacityWakes(k) \/ ReserveSlot(k)
  BY <1>0, <1>2 DEF waitForPollTurn, AcquireWaits, CapacityWakes, ReserveSlot, RunnerType, Kinds
<1>3. CASE AcquireCapacity(k)
  BY <1>0, <1>3 DEF AcquireCapacity, RunnerType, Kinds
<1>4. CASE \E g \in Groups \cup {None} : AcquireGroup(k, g)
  BY <1>0, <1>4 DEF AcquireGroup, Reserved, BalancerType
<1>5. CASE ReserveFails(k)
  BY <1>0, <1>5, ReleasedType DEF ReserveFails, Returned, RunnerType, Kinds
<1>. QED BY <1>1, <1>2, <1>3, <1>4, <1>5 DEF Manager

\* A poll's step keeps TargetInv.
LEMMA TargetStep ==
  ASSUME Typing, TargetInv, NEW i \in Polls, Poll(i)
  PROVE  TargetInv'
<1>0. /\ poll[i].kind \in Kinds /\ PollOK /\ poll \in [Polls -> PollType]
      /\ bal \in BalancerType /\ runner \in [Kinds -> RunnerType]
  BY PollsFly DEF Typing, PollOK, BalOK, RunnerOK
<1>1. CASE PollReturns(i)
  <2>1. PICK a, d :
          /\ runner' = [runner EXCEPT ![poll[i].kind] =
                           [active |-> @.active, target |-> Clamp(d.target),
                            wake |-> @.wake, saw |-> d.saw]]
          /\ IF d.target = runner[poll[i].kind].target
             THEN PollGoto(i, "finish", FALSE, 0)
             ELSE PollGoto(i, "changed", a \in Answers, 0)
    BY Zenon, <1>1 DEF PollReturns
  <2>2. bal'.target = bal.target
    BY <1>1, BacklogType DEF PollReturns
  <2>3. poll[i].pc = "polling"
    BY <1>1 DEF PollReturns, PollAt
  <2>4. \A j \in Polls : j # i => poll'[j] = poll[j]
    BY <1>0, <2>1 DEF PollGoto
  <2>5. CASE d.target = runner[poll[i].kind].target
    <3>1. runner'["sticky"].target = runner["sticky"].target
      BY <1>0, <2>1, <2>5, ClampType, AutoscalingAssumption DEF RunnerType, Kinds
    <3>2. poll'[i].pc = "finish"
      BY <1>0, <2>1, <2>5 DEF PollGoto
    <3>. QED BY <2>2, <2>3, <2>4, <3>1, <3>2 DEF TargetInv, StickyAt
  <2>6. CASE d.target # runner[poll[i].kind].target
    <3>1. poll'[i].pc = "changed" /\ poll'[i].kind = poll[i].kind
      BY <1>0, <2>1, <2>6 DEF PollGoto
    <3>2. CASE poll[i].kind = "sticky"
      BY <2>3, <2>4, <3>1, <3>2 DEF TargetInv, StickyAt
    <3>3. CASE poll[i].kind = "normal"
      <4>1. runner'["sticky"].target = runner["sticky"].target
        BY <1>0, <2>1, <3>3 DEF RunnerType, Kinds
      <4>. QED BY <2>2, <2>3, <2>4, <3>1, <3>3, <4>1 DEF TargetInv, StickyAt
    <3>. QED BY <1>0, <3>2, <3>3 DEF Kinds
  <2>. QED BY <2>5, <2>6
<1>2. CASE LoadTarget(i)
  <2>1. /\ poll'[i].pc = "notify" /\ poll'[i].kind = "sticky"
        /\ poll'[i].target = runner["sticky"].target
        /\ \A j \in Polls : j # i => poll'[j] = poll[j]
        /\ UNCHANGED <<bal, runner>>
    BY <1>0, <1>2 DEF LoadTarget, PollGoto
  <2>2. \A j \in Polls : ~StickyAt(j, "notify")
    BY <1>2 DEF LoadTarget, PollsOf, StickyAt
  <2>. QED BY <2>1, <2>2 DEF TargetInv, StickyAt
<1>3. CASE TargetChanged(i)
  <2>1. /\ poll'[i].pc = "finish"
        /\ \A j \in Polls : j # i => poll'[j] = poll[j]
        /\ runner'["sticky"].target = runner["sticky"].target
    BY <1>0, <1>3 DEF TargetChanged, PollGoto, RunnerType, Kinds
  <2>2. CASE poll[i].pc = "notify"
    <3>1. StickyAt(i, "notify") /\ bal'.target = poll[i].target
      BY <1>0, <1>3, <2>2 DEF TargetChanged, PollAt, TargetInv, StickyAt, BalancerType
    <3>2. \A j \in Polls : ~StickyAt(j, "notify")'
      BY <2>1, <3>1 DEF TargetInv, StickyAt
    <3>3. CASE \E j \in Polls : StickyAt(j, "changed")
      BY <2>1, <2>2, <3>2, <3>3 DEF TargetInv, StickyAt
    <3>4. CASE ~\E j \in Polls : StickyAt(j, "changed")
      <4>1. poll[i].target = runner["sticky"].target
        BY <3>1, <3>4 DEF TargetInv
      <4>. QED BY <2>1, <3>1, <3>2, <4>1 DEF TargetInv, StickyAt
    <3>. QED BY <3>3, <3>4
  <2>3. CASE poll[i].pc = "changed" /\ poll[i].kind = "normal" /\ UNCHANGED bal
    BY <2>1, <2>3 DEF TargetInv, StickyAt
  <2>. QED BY <1>3, <2>2, <2>3 DEF TargetChanged, PollAt
<1>4. CASE releaseActivePoll(i)
  <2>. DEFINE b == [bal EXCEPT !.active[poll[i].kind] = @ - 1]
  <2>1. b = [res |-> bal.res, active |-> [bal.active EXCEPT ![poll[i].kind] = @ - 1],
             target |-> bal.target, backlog |-> bal.backlog, groups |-> bal.groups]
    BY <1>0 DEF BalancerType
  <2>2. b \in BalancerType /\ b.target = bal.target
    BY <1>0, <2>1 DEF BalancerType
  <2>3. bal'.target = bal.target
    BY Zenon, <1>0, <1>4, <2>2, ReleasedType DEF releaseActivePoll
  <2>4. /\ poll[i].pc = "finish" /\ poll'[i].pc = "release"
        /\ \A j \in Polls : j # i => poll'[j] = poll[j]
        /\ UNCHANGED runner
    BY <1>0, <1>4 DEF releaseActivePoll, PollAt
  <2>. QED BY <2>3, <2>4 DEF TargetInv, StickyAt
<1>5. CASE Release(i)
  <2>1. /\ poll[i].pc = "release" /\ poll'[i].pc = "free"
        /\ \A j \in Polls : j # i => poll'[j] = poll[j]
        /\ UNCHANGED bal /\ runner'["sticky"].target = runner["sticky"].target
    BY <1>0, <1>5 DEF Release, PollAt, NoPoll, Returned, RunnerType, Kinds
  <2>. QED BY <2>1 DEF TargetInv, StickyAt
<1>. QED BY <1>1, <1>2, <1>3, <1>4, <1>5 DEF Poll

\* The balancer works with the sticky autoscaler's target once the callbacks
\* of updateTarget are through, in whatever order polls return.
THEOREM StickyTargetAlwaysFollows == Spec => []StickyTargetFollows
<1>1. Init => TargetInv
  BY DEF Init, TargetInv, StickyAt, NoPoll, Kinds
<1>2. Typing /\ TargetInv /\ [Next]_vars => TargetInv'
  <2>. SUFFICES ASSUME Typing, TargetInv, [Next]_vars PROVE TargetInv'
    OBVIOUS
  <2>1. ASSUME NEW k \in Kinds, Manager(k) \/ ReserveSlot(k) \/ ReserveFails(k) PROVE TargetInv'
    BY <2>1, TargetKept DEF TargetInv, StickyAt
  <2>2. CASE GroupsInfo \/ TaskProcessed \/ UNCHANGED vars
    BY <2>2 DEF GroupsInfo, TaskProcessed, vars, TargetInv, StickyAt
  <2>. QED BY <2>1, <2>2, TargetStep DEF Next
<1>3. TargetInv => StickyTargetFollows
  BY DEF TargetInv, StickyTargetFollows, StickyAt, PollsOf
<1>. QED BY <1>1, <1>2, <1>3, TypingAlways, PTL DEF Spec

-----------------------------------------------------------------------------
(* Sleeping managers.                                                      *)

Quiet(k) == ~mgr[k].woken /\ ~Changed(k)
Hot(k) == \E i \in PollsOf(k) : poll[i].pc \in {"changed", "notify", "release"}

TurnInv(k) ==
    /\ At(k, "turnWait") /\ Quiet(k) => ~canTakeTurn(syncGroupsLocked, k)
    /\ At(k, "acquireWait") /\ Quiet(k) => ~eligible(syncGroupsLocked, k)

CapacityInv(k) ==
    At(k, "capacityWait") /\ ~Changed(k) /\ ~runner[k].wake /\ ~Hot(k)
        => ~(runner[k].active < effectiveTarget(k)) /\ ~Missing(syncGroupsLocked, k)

Own(k) == Manager(k) \/ ReserveSlot(k) \/ ReserveFails(k)

\* A look at the store is the same before and after somebody else's look.
LEMMA SyncSame ==
  ASSUME Typing, store' = store, bal' = bal \/ bal' = syncGroupsLocked
  PROVE  syncGroupsLocked' = syncGroupsLocked
<1>1. CASE bal' = bal
  BY <1>1 DEF syncGroupsLocked, Known
<1>2. CASE bal' = syncGroupsLocked
  <2>1. /\ syncGroupsLocked \in BalancerType
        /\ DOMAIN syncGroupsLocked.groups = Known
        /\ \A g \in Known : syncGroupsLocked.groups[g].key = store.groups[g]
    BY SyncType DEF Typing
  <2>2. Known # {} => syncGroupsLocked.backlog = 0
    BY DEF syncGroupsLocked
  <2>. QED BY <1>2, <2>1, <2>2, SyncTwice DEF Typing
<1>. QED BY <1>1, <1>2

\* What balancers of the same cover have in common after a look.
LEMMA CoverSync ==
  ASSUME Typing, BalOK', NEW k \in Kinds, store' = store,
         SameCover(bal', bal, k) \/ SameCover(bal', syncGroupsLocked, k)
  PROVE  Missing(syncGroupsLocked, k)' <=> Missing(syncGroupsLocked, k)
<1>. DEFINE b == syncGroupsLocked
<1>1. Known' = Known
  BY DEF Known
<1>2. /\ DOMAIN b.groups = Known /\ DOMAIN b'.groups = Known
      /\ \A g \in Known : b.groups[g].key = store.groups[g]
  BY <1>1, SyncType DEF syncGroupsLocked, Typing
<1>3. \A g \in Known : b'.groups[g] = IF g \in DOMAIN bal'.groups /\ bal'.groups[g].key = store.groups[g]
                                     THEN bal'.groups[g] ELSE NewGroup(store.groups[g])
  BY <1>1 DEF syncGroupsLocked
<1>4. \A g \in Known : b.groups[g] = IF g \in DOMAIN bal.groups /\ bal.groups[g].key = store.groups[g]
                                    THEN bal.groups[g] ELSE NewGroup(store.groups[g])
  BY DEF syncGroupsLocked
<1>5. \A g \in Known : b'.groups[g].res[k] = b.groups[g].res[k]
  <2>1. CASE SameCover(bal', bal, k)
    BY <1>3, <1>4, <2>1 DEF SameCover
  <2>2. CASE SameCover(bal', b, k)
    BY <1>2, <1>3, <2>2 DEF SameCover
  <2>. QED BY <2>1, <2>2
<1>. QED BY <1>2, <1>5 DEF Missing, coverageCandidates

\* Another goroutine's step: it brings a new snapshot, wakes a waiting manager,
\* or leaves what the manager would find as it was.
LEMMA OtherSteps ==
  ASSUME Typing, [Next]_vars, NEW k \in Kinds, ~Own(k)
  PROVE  \/ GroupsInfo
         \/ mgr'[k] = wakeWaiters(mgr)[k]
         \/ mgr'[k] = mgr[k] /\ syncGroupsLocked' = syncGroupsLocked
<1>0. mgr \in [Kinds -> ManagerType]
  BY DEF Typing, MgrOK
<1>1. ASSUME NEW j \in Kinds, j # k, Own(j)
      PROVE  \/ mgr'[k] = wakeWaiters(mgr)[k]
             \/ mgr'[k] = mgr[k] /\ syncGroupsLocked' = syncGroupsLocked
  <2>1. CASE waitForPollTurn(j) \/ AcquireCapacity(j) \/ AcquireWaits(j) \/ CapacityWakes(j)
             \/ ReserveSlot(j)
    <3>1. mgr'[k] = mgr[k]
      BY <1>0, <1>1, <2>1 DEF waitForPollTurn, AcquireCapacity, AcquireWaits, CapacityWakes,
                              ReserveSlot, Goto, GotoWith
    <3>2. store' = store /\ (bal' = bal \/ bal' = syncGroupsLocked)
      BY <2>1 DEF waitForPollTurn, AcquireCapacity, AcquireWaits, CapacityWakes, ReserveSlot
    <3>. QED BY <3>1, <3>2, SyncSame
  <2>2. CASE (\E g \in Groups \cup {None} : AcquireGroup(j, g)) \/ ReserveFails(j) \/ Start(j)
    BY Zenon, <1>0, <1>1, <2>2 DEF AcquireGroup, ReserveFails, Start, wakeWaiters
  <2>. QED BY <1>1, <2>1, <2>2 DEF Own, Manager
<1>2. ASSUME NEW i \in Polls, Poll(i)
      PROVE  \/ mgr' = wakeWaiters(mgr)
             \/ mgr' = mgr /\ syncGroupsLocked' = syncGroupsLocked
  <2>1. CASE PollReturns(i)
    <3>1. store' = store
      BY <2>1 DEF PollReturns
    <3>2. CASE UNCHANGED <<bal, mgr>>
      BY <3>1, <3>2, SyncSame
    <3>3. CASE \E g \in Groups \cup {None}, n \in Backlogs : setStickyGroupBacklog(g, n)
      BY <3>1, <3>3, BacklogType, SyncSame
    <3>. QED BY <2>1, <3>2, <3>3 DEF PollReturns
  <2>2. CASE TargetChanged(i) \/ releaseActivePoll(i)
    BY Zenon, <2>2 DEF TargetChanged, releaseActivePoll
  <2>3. CASE LoadTarget(i) \/ Release(i)
    BY <2>3, SyncSame DEF LoadTarget, Release
  <2>. QED BY <1>2, <2>1, <2>2, <2>3 DEF Poll
<1>3. CASE TaskProcessed \/ UNCHANGED vars
  BY <1>3, SyncSame DEF TaskProcessed, vars
<1>. QED BY <1>1, <1>2, <1>3 DEF Next, Own

\* A new snapshot closes the channel every manager waits on.
LEMMA SnapshotWakes ==
  ASSUME Typing, [Next]_vars, GroupsInfo, NEW k \in Kinds
  PROVE  Changed(k)'
<1>1. \E v \in DOMAIN History : v > store.version /\ store'.version = v
  BY DEF GroupsInfo, updateGroups
<1>2. mgr'[k].seen <= store.version /\ mgr'[k].seen \in Nat /\ store.version \in Nat
  BY DEF GroupsInfo, Typing, MgrOK, ManagerType, StoreOK
<1>. QED BY <1>1, <1>2, AutoscalingAssumption DEF Changed

\* Managers that wait for the balancer are woken in time.
LEMMA TurnStep ==
  ASSUME Typing, [Next]_vars, NEW k \in Kinds, TurnInv(k)
  PROVE  TurnInv(k)'
<1>0. mgr \in [Kinds -> ManagerType]
  BY DEF Typing, MgrOK
<1>1. CASE GroupsInfo
  BY <1>1, SnapshotWakes DEF TurnInv, Quiet
<1>2. CASE waitForPollTurn(k)
  <2>1. syncGroupsLocked' = syncGroupsLocked
    BY <1>2, SyncSame DEF waitForPollTurn
  <2>2. /\ ~At(k, "acquireWait")'
        /\ At(k, "turnWait")' => ~canTakeTurn(syncGroupsLocked, k)
    BY <1>0, <1>2 DEF waitForPollTurn, GotoWith, Manages, At
  <2>. QED BY <2>1, <2>2 DEF TurnInv
<1>3. CASE AcquireWaits(k)
  <2>1. syncGroupsLocked' = syncGroupsLocked
    BY <1>3, SyncSame DEF AcquireWaits
  <2>2. ~At(k, "turnWait")' /\ ~eligible(syncGroupsLocked, k)
    BY <1>0, <1>3 DEF AcquireWaits, GotoWith, Manages, At
  <2>. QED BY <2>1, <2>2 DEF TurnInv
<1>4. CASE \/ AcquireCapacity(k) \/ CapacityWakes(k) \/ Start(k) \/ ReserveSlot(k) \/ ReserveFails(k)
           \/ \E g \in Groups \cup {None} : AcquireGroup(k, g)
  <2>1. ~At(k, "turnWait")' /\ ~At(k, "acquireWait")'
    <3>1. CASE AcquireCapacity(k)
      <4>1. Goto(k, "acquire") \/ mgr' = [mgr EXCEPT ![k].pc = "capacityWait"]
        BY <3>1 DEF AcquireCapacity
      <4>. QED BY <1>0, <4>1 DEF Goto, Manages, At, ManagerType
    <3>3. CASE CapacityWakes(k) \/ ReserveSlot(k)
      BY <1>0, <3>3 DEF CapacityWakes, ReserveSlot, Goto, GotoWith, Manages, At
    <3>2. CASE Start(k) \/ ReserveFails(k) \/ \E g \in Groups \cup {None} : AcquireGroup(k, g)
      <4>1. \E l : \E pc \in {"top", "reserving"} :
                mgr' = [wakeWaiters(mgr) EXCEPT ![k] = Manages(pc, l, 0)]
        BY <3>2 DEF Start, ReserveFails, AcquireGroup
      <4>. QED BY <4>1 DEF Manages, At, wakeWaiters
    <3>. QED BY <1>4, <3>1, <3>2, <3>3
  <2>. QED BY <2>1 DEF TurnInv
<1>5. CASE ~Own(k) /\ ~GroupsInfo
  <2>1. CASE mgr'[k] = wakeWaiters(mgr)[k]
    BY <1>0, <2>1 DEF wakeWaiters, TurnInv, Quiet, At, ManagerType
  <2>2. CASE mgr'[k] = mgr[k] /\ syncGroupsLocked' = syncGroupsLocked
    <3>1. store' = store
      BY <1>5, StoreStep
    <3>. QED BY <2>2, <3>1 DEF TurnInv, Quiet, At, Changed
  <2>. QED BY <1>5, <2>1, <2>2, OtherSteps
<1>. QED BY <1>1, <1>2, <1>3, <1>4, <1>5 DEF Own, Manager

\* Another goroutine's step does not open or close the gap of a kind, unless it
\* is a poll of that kind that gave back its group and is to give back its room.
LEMMA CoverStep ==
  ASSUME Typing, [Next]_vars, NEW k \in Kinds, ~Own(k), ~GroupsInfo
  PROVE  Hot(k)' \/ (Missing(syncGroupsLocked, k)' <=> Missing(syncGroupsLocked, k))
<1>. DEFINE same == Missing(syncGroupsLocked, k)' <=> Missing(syncGroupsLocked, k)
<1>0. /\ store' = store /\ BalOK' /\ bal \in BalancerType /\ poll \in [Polls -> PollType]
      /\ syncGroupsLocked \in BalancerType
  BY StoreStep, BalStep, SyncType DEF Typing, BalOK, PollOK
<1>1. ASSUME bal' = bal \/ bal' = syncGroupsLocked PROVE same
  <2>1. syncGroupsLocked' = syncGroupsLocked
    BY <1>0, <1>1, SyncSame
  <2>. QED BY <2>1
<1>2. ASSUME SameCover(bal', bal, k) \/ SameCover(bal', syncGroupsLocked, k) PROVE same
  BY <1>0, <1>2, CoverSync
<1>3. ASSUME bal'.groups = bal.groups PROVE same
  BY <1>2, <1>3 DEF SameCover
<1>4. ASSUME NEW j \in Kinds, j # k, Own(j) PROVE same
  <2>1. ASSUME NEW g \in Groups \cup {None}, AcquireGroup(j, g) PROVE same
    <3>1. bal' = Reserved(syncGroupsLocked, j, g)
      BY <2>1 DEF AcquireGroup
    <3>2. SameCover(bal', syncGroupsLocked, k)
      BY <1>0, <1>4, <2>1, <3>1, GroupKnown, ReservedType
    <3>. QED BY <1>2, <3>2
  <2>2. CASE ReserveFails(j)
    <3>1. SameCover(bal', bal, k)
      BY <1>0, <1>4, <2>2, ReleasedType DEF ReserveFails
    <3>. QED BY <1>2, <3>1
  <2>3. CASE Start(j)
    BY <1>0, <1>3, <2>3 DEF Start, BalancerType
  <2>4. CASE waitForPollTurn(j) \/ AcquireWaits(j) \/ AcquireCapacity(j) \/ CapacityWakes(j)
             \/ ReserveSlot(j)
    BY <1>1, <2>4 DEF waitForPollTurn, AcquireWaits, AcquireCapacity, CapacityWakes, ReserveSlot
  <2>. QED BY <1>4, <2>1, <2>2, <2>3, <2>4 DEF Own, Manager
<1>5. ASSUME NEW i \in Polls, Poll(i) PROVE Hot(k)' \/ same
  <2>0. poll[i].kind \in Kinds
    BY <1>5, PollsFly DEF Typing
  <2>1. CASE PollReturns(i)
    <3>1. CASE UNCHANGED <<bal, mgr>>
      BY <1>1, <3>1
    <3>2. CASE \E g \in Groups \cup {None}, n \in Backlogs : setStickyGroupBacklog(g, n)
      BY <1>2, <3>2, BacklogType
    <3>. QED BY <2>1, <3>1, <3>2 DEF PollReturns
  <2>2. CASE TargetChanged(i)
    BY <1>0, <1>3, <2>2 DEF TargetChanged, BalancerType
  <2>3. CASE releaseActivePoll(i)
    <3>1. CASE poll[i].kind = k
      <4>1. poll'[i].kind = k /\ poll'[i].pc = "release"
        BY <1>0, <2>3, <3>1 DEF releaseActivePoll
      <4>. QED BY <4>1 DEF Hot, PollsOf
    <3>2. CASE poll[i].kind # k
      <4>. DEFINE b == [bal EXCEPT !.active[poll[i].kind] = @ - 1]
      <4>1. b = [res |-> bal.res, active |-> [bal.active EXCEPT ![poll[i].kind] = @ - 1],
                 target |-> bal.target, backlog |-> bal.backlog, groups |-> bal.groups]
        BY <1>0 DEF BalancerType
      <4>2. b \in BalancerType /\ b.groups = bal.groups
        BY <1>0, <2>0, <4>1 DEF BalancerType
      <4>3. SameCover(bal', b, k)
        BY <2>0, <2>3, <3>2, <4>2, ReleasedType DEF releaseActivePoll
      <4>4. SameCover(bal', bal, k)
        BY <4>2, <4>3 DEF SameCover
      <4>. QED BY <1>2, <4>4
    <3>. QED BY <3>1, <3>2
  <2>4. CASE LoadTarget(i) \/ Release(i)
    BY <1>1, <2>4 DEF LoadTarget, Release
  <2>. QED BY <1>5, <2>1, <2>2, <2>3, <2>4 DEF Poll
<1>6. CASE TaskProcessed \/ UNCHANGED vars
  BY <1>1, <1>6 DEF TaskProcessed, vars
<1>. QED BY <1>4, <1>5, <1>6 DEF Next, Own

\* Another goroutine's step leaves the runner's token, is followed by one that
\* does, or leaves the runner as it was.
LEMMA RunnerKept ==
  ASSUME Typing, [Next]_vars, NEW k \in Kinds, ~Own(k), ~GroupsInfo
  PROVE  \/ runner'[k].wake \/ Hot(k)'
         \/ /\ runner'[k].active = runner[k].active /\ runner'[k].target = runner[k].target
            /\ runner'[k].wake = runner[k].wake /\ ~Hot(k)
<1>0. runner \in [Kinds -> RunnerType] /\ PollOK /\ poll \in [Polls -> PollType]
  BY DEF Typing, RunnerOK, PollOK
<1>1. ASSUME \A i \in Polls : poll'[i] = poll[i] \/ poll[i].pc = "free" PROVE Hot(k)' \/ ~Hot(k)
  BY <1>1 DEF Hot, PollsOf
<1>2. ASSUME NEW j \in Kinds, j # k, Own(j)
      PROVE  runner'[k] = runner[k] /\ \A i \in Polls : poll'[i] = poll[i] \/ poll[i].pc = "free"
  <2>1. runner'[k] = runner[k]
    BY <1>0, <1>2 DEF Own, Manager, waitForPollTurn, AcquireCapacity, CapacityWakes, AcquireGroup,
                      AcquireWaits, Start, ReserveSlot, ReserveFails, Returned
  <2>. QED BY <1>2, <2>1, TargetKept DEF Own
<1>3. ASSUME NEW i \in Polls, Poll(i)
      PROVE  \/ runner'[k].wake \/ Hot(k)'
             \/ /\ runner'[k].active = runner[k].active /\ runner'[k].target = runner[k].target
                /\ runner'[k].wake = runner[k].wake /\ ~Hot(k)
  <2>0. poll[i].kind \in Kinds
    BY <1>3, PollsFly DEF Typing
  <2>1. CASE PollReturns(i)
    <3>1. PICK a, d :
            /\ runner' = [runner EXCEPT ![poll[i].kind] =
                             [active |-> @.active, target |-> Clamp(d.target),
                              wake |-> @.wake, saw |-> d.saw]]
            /\ IF d.target = runner[poll[i].kind].target
               THEN PollGoto(i, "finish", FALSE, 0)
               ELSE PollGoto(i, "changed", a \in Answers, 0)
      BY Zenon, <2>1 DEF PollReturns
    <3>2. poll[i].pc = "polling" /\ \A j \in Polls : j # i => poll'[j] = poll[j]
      BY <1>0, <2>1, <3>1 DEF PollReturns, PollAt, PollGoto
    <3>3. Hot(k)' \/ ~Hot(k)
      BY <3>2 DEF Hot, PollsOf
    <3>4. CASE poll[i].kind # k
      BY <1>0, <3>1, <3>3, <3>4
    <3>5. CASE poll[i].kind = k /\ d.target = runner[k].target
      <4>1. Clamp(d.target) = runner[k].target
        BY <1>0, <3>5, ClampType, AutoscalingAssumption DEF RunnerType
      <4>2. /\ runner'[k].active = runner[k].active /\ runner'[k].target = runner[k].target
            /\ runner'[k].wake = runner[k].wake
        BY <1>0, <3>1, <3>5, <4>1
      <4>. QED BY <3>3, <4>2
    <3>6. CASE poll[i].kind = k /\ d.target # runner[k].target
      <4>1. poll'[i].kind = k /\ poll'[i].pc = "changed"
        BY <1>0, <3>1, <3>6 DEF PollGoto
      <4>. QED BY <4>1 DEF Hot, PollsOf
    <3>. QED BY <3>4, <3>5, <3>6
  <2>2. CASE LoadTarget(i)
    <3>1. /\ runner' = runner /\ poll[i].pc = "changed" /\ poll'[i].kind = poll[i].kind
          /\ poll'[i].pc = "notify" /\ \A j \in Polls : j # i => poll'[j] = poll[j]
      BY <1>0, <2>2 DEF LoadTarget, PollAt, PollGoto
    <3>. QED BY <3>1 DEF Hot, PollsOf
  <2>3. CASE TargetChanged(i) \/ Release(i)
    <3>1. CASE poll[i].kind = k
      <4>1. CASE TargetChanged(i)
        <5>1. runner' = [runner EXCEPT ![k].wake = TRUE]
          BY <3>1, <4>1 DEF TargetChanged
        <5>2. runner'[k].wake = TRUE
          BY <1>0, <5>1 DEF RunnerType
        <5>. QED BY <5>2
      <4>2. CASE Release(i)
        <5>1. runner'[k].wake = TRUE
          BY <1>0, <3>1, <4>2 DEF Release, Returned
        <5>. QED BY <5>1
      <4>. QED BY <2>3, <4>1, <4>2
    <3>2. CASE poll[i].kind # k
      <4>1. runner'[k] = runner[k] /\ \A j \in Polls : j # i => poll'[j] = poll[j]
        BY <1>0, <2>3, <3>2 DEF TargetChanged, Release, Returned, PollGoto
      <4>. QED BY <3>2, <4>1 DEF Hot, PollsOf
    <3>. QED BY <3>1, <3>2
  <2>4. CASE releaseActivePoll(i)
    <3>1. /\ runner' = runner /\ poll[i].pc = "finish"
          /\ \A j \in Polls : j # i => poll'[j] = poll[j]
      BY <1>0, <2>4 DEF releaseActivePoll, PollAt
    <3>. QED BY <3>1 DEF Hot, PollsOf
  <2>. QED BY <1>3, <2>1, <2>2, <2>3, <2>4 DEF Poll
<1>4. CASE TaskProcessed \/ UNCHANGED vars
  BY <1>1, <1>4 DEF TaskProcessed, vars
<1>. QED BY <1>1, <1>2, <1>3, <1>4 DEF Next, Own

\* Managers that wait for capacity are woken in time.
LEMMA CapacityStep ==
  ASSUME Typing, [Next]_vars, NEW k \in Kinds, CapacityInv(k)
  PROVE  CapacityInv(k)'
<1>0. mgr \in [Kinds -> ManagerType]
  BY DEF Typing, MgrOK
<1>1. CASE GroupsInfo
  BY <1>1, SnapshotWakes DEF CapacityInv
<1>2. CASE AcquireCapacity(k)
  <2>1. CASE runner[k].active < effectiveTarget(k) \/ Missing(syncGroupsLocked, k)
    <3>1. ~At(k, "capacityWait")'
      BY <1>0, <1>2, <2>1 DEF AcquireCapacity, Goto, Manages, At
    <3>. QED BY <3>1 DEF CapacityInv
  <2>2. CASE ~(runner[k].active < effectiveTarget(k)) /\ ~Missing(syncGroupsLocked, k)
    <3>1. store' = store /\ runner' = runner /\ bal' = syncGroupsLocked
      BY <1>2, <2>2 DEF AcquireCapacity
    <3>2. syncGroupsLocked' = syncGroupsLocked
      BY <3>1, SyncSame
    <3>. QED BY <2>2, <3>1, <3>2 DEF CapacityInv, effectiveTarget, Known
  <2>. QED BY <2>1, <2>2
<1>3. CASE waitForPollTurn(k) \/ CapacityWakes(k) \/ AcquireWaits(k) \/ ReserveSlot(k)
  <2>1. ~At(k, "capacityWait")'
    BY <1>0, <1>3 DEF waitForPollTurn, CapacityWakes, AcquireWaits, ReserveSlot, Goto, GotoWith,
                      Manages, At
  <2>. QED BY <2>1 DEF CapacityInv
<1>4. CASE Start(k) \/ ReserveFails(k) \/ \E g \in Groups \cup {None} : AcquireGroup(k, g)
  <2>1. \E l : \E pc \in {"top", "reserving"} : mgr' = [wakeWaiters(mgr) EXCEPT ![k] = Manages(pc, l, 0)]
    BY <1>4 DEF Start, ReserveFails, AcquireGroup
  <2>2. ~At(k, "capacityWait")'
    BY <2>1 DEF Manages, At, wakeWaiters
  <2>. QED BY <2>2 DEF CapacityInv
<1>5. CASE ~Own(k) /\ ~GroupsInfo
  <2>1. SUFFICES ASSUME At(k, "capacityWait")', ~Changed(k)', ~runner'[k].wake, ~Hot(k)'
                 PROVE  ~(runner'[k].active < effectiveTarget(k)') /\ ~Missing(syncGroupsLocked, k)'
    BY DEF CapacityInv
  <2>2. store' = store
    BY <1>5, StoreStep
  <2>3. mgr'[k] = mgr[k]
    BY Zenon, <1>0, <1>5, <2>1, OtherSteps DEF wakeWaiters, At, ManagerType
  <2>4. /\ runner'[k].active = runner[k].active /\ runner'[k].target = runner[k].target
        /\ runner'[k].wake = runner[k].wake /\ ~Hot(k)
    BY <1>5, <2>1, RunnerKept
  <2>5. ~(runner[k].active < effectiveTarget(k)) /\ ~Missing(syncGroupsLocked, k)
    BY <2>1, <2>2, <2>3, <2>4 DEF CapacityInv, At, Changed
  <2>6. effectiveTarget(k)' = effectiveTarget(k)
    BY <2>2, <2>4 DEF effectiveTarget, Known
  <2>7. ~Missing(syncGroupsLocked, k)'
    BY <1>5, <2>1, <2>5, CoverStep
  <2>. QED BY <2>4, <2>5, <2>6, <2>7
<1>. QED BY <1>1, <1>2, <1>3, <1>4, <1>5 DEF Own, Manager

\* A manager sleeps only while it has to: what it waits for does not come
\* without closing its channel or leaving its token (waitForPollTurn, acquire,
\* wakeWaiters, wakeCapacityWaiter).
THEOREM WakeupsAreNotLost == Spec => []NoLostWakeup
<1>. DEFINE Inv == \A k \in Kinds : TurnInv(k) /\ CapacityInv(k)
<1>1. Init => Inv
  BY DEF Init, TurnInv, CapacityInv, At
<1>2. Typing /\ Inv /\ [Next]_vars => Inv'
  <2>. SUFFICES ASSUME Typing, Inv, [Next]_vars PROVE Inv'
    OBVIOUS
  <2>1. ASSUME NEW k \in Kinds PROVE TurnInv(k)' /\ CapacityInv(k)'
    BY TurnStep, CapacityStep
  <2>. QED BY <2>1
<1>3. Inv => NoLostWakeup
  BY DEF NoLostWakeup, TurnInv, CapacityInv, Quiet, Hot
<1>. QED BY <1>1, <1>2, <1>3, TypingAlways, PTL DEF Spec

=============================================================================
