------------------------ MODULE BaseWorkerSlotProofs ------------------------
(***************************************************************************)
(* Proofs that BaseWorker neither leaks a slot nor releases one twice.     *)
(***************************************************************************)
EXTENDS BaseWorkerProofs

\* A slot in the semaphore is in nobody's hands.
FreeIsFree ==
    /\ \A p \in Pollers : poller[p].permit \notin free /\ reserver[p].permit \notin free
    /\ dispatcher.permit \notin free
    /\ \A j \in jobs : j.permit \notin free
    /\ \A q \in eagerQueue : q.permit \notin free
    /\ \A e \in EagerReqs : eager[e].permits \cap free = {}

\* Two variables of the polling side never hold the same slot.
PollSide ==
    /\ \A p, q \in Pollers :
        /\ poller[p].permit = poller[q].permit => p = q \/ poller[p].permit = None
        /\ reserver[p].permit = reserver[q].permit => p = q \/ reserver[p].permit = None
        /\ poller[p].permit = reserver[q].permit => poller[p].permit = None
    /\ \A p \in Pollers :
        /\ dispatcher.permit = poller[p].permit => dispatcher.permit = None
        /\ dispatcher.permit = reserver[p].permit => dispatcher.permit = None

\* Nor do two variables of the eager side and the tasks being processed.
TaskSide ==
    /\ \A j, k \in jobs : j.permit = k.permit => j = k
    /\ \A q, r \in eagerQueue : q.permit = r.permit => q = r
    /\ \A d, e \in EagerReqs : d # e => eager[d].permits \cap eager[e].permits = {}
    /\ \A j \in jobs, q \in eagerQueue : j.permit # q.permit
    /\ \A e \in EagerReqs :
        /\ \A j \in jobs : j.permit \notin eager[e].permits
        /\ \A q \in eagerQueue : q.permit \notin eager[e].permits

\* Nor one of each side.
Across ==
    /\ \A p \in Pollers, j \in jobs : j.permit # poller[p].permit /\ j.permit # reserver[p].permit
    /\ \A p \in Pollers, q \in eagerQueue :
        q.permit # poller[p].permit /\ q.permit # reserver[p].permit
    /\ \A p \in Pollers, e \in EagerReqs :
        poller[p].permit \notin eager[e].permits /\ reserver[p].permit \notin eager[e].permits
    /\ \A j \in jobs : j.permit # dispatcher.permit
    /\ \A q \in eagerQueue : q.permit # dispatcher.permit
    /\ \A e \in EagerReqs : dispatcher.permit \notin eager[e].permits

Apart == FreeIsFree /\ PollSide /\ TaskSide /\ Across

\* Somebody holds every slot that is out.
Covered ==
    \A s \in Permits :
        \/ s \in free
        \/ \E p \in Pollers : poller[p].permit = s
        \/ \E p \in Pollers : reserver[p].permit = s
        \/ dispatcher.permit = s
        \/ \E j \in jobs : j.permit = s
        \/ \E q \in eagerQueue : q.permit = s
        \/ \E e \in EagerReqs : s \in eager[e].permits

\* A reservation is outstanding only while the poller waits for it, or after it left.
Idle ==
    \A p \in Pollers : poller[p].pc \notin {"reserve", "exited"} => reserver[p].pc = "none"

\* The types of the variables that hold slots.
PollTypes ==
    /\ poller \in [Pollers -> [pc: PollerPcs, permit: Permits \cup {None},
                               task: Tasks \cup {None, Empty}]]
    /\ reserver \in [Pollers -> [pc: ReserverPcs, permit: Permits \cup {None}]]
EagerTypes == eager \in [EagerReqs -> [pc: EagerPcs, permits: SUBSET Permits,
                                       tasks: SUBSET EagerTasks]]

\* Only slots are in the semaphore and on the task side.
Proper ==
    /\ free \subseteq Permits
    /\ \A j \in jobs : j.permit \in Permits
    /\ \A q \in eagerQueue : q.permit \in Permits
    /\ \A e \in EagerReqs : eager[e].permits \subseteq Permits

LEMMA SlotTypes == Hands => PollTypes /\ EagerTypes /\ Proper
BY DEF Hands, TypeOK, PollTypes, EagerTypes, Proper

\* A poller makes one reservation at a time and takes its result before it goes on.
LEMMA IdleStep == Hands /\ Idle /\ [Next]_vars => Idle'
<1> SUFFICES ASSUME Hands, Idle, [Next]_vars PROVE Idle'
  OBVIOUS
<1> USE DEF Idle, pollVars
<1>0. PollTypes
  BY SlotTypes
<1>1. CASE UNCHANGED vars
  BY <1>1 DEF vars
<1>2. CASE Finished
  BY <1>2 DEF Finished, vars
<1>3. ASSUME NEW p \in Pollers, ReserveOrLeave(p) PROVE Idle'
  BY SMTT(30), <1>3, <1>0 DEF PollTypes, ReserveOrLeave, PollerTo
<1>4. ASSUME NEW p \in Pollers, TakePermit(p) PROVE Idle'
  BY <1>4, <1>0 DEF PollTypes, TakePermit, AfterReserve
<1>5. ASSUME NEW p \in Pollers, StopWhileReserving(p) PROVE Idle'
  BY <1>5, <1>0 DEF PollTypes, StopWhileReserving, PollerTo
<1>6. ASSUME NEW p \in Pollers, PollOrLeave(p) PROVE Idle'
  BY Zenon, <1>6, <1>0 DEF PollTypes, PollOrLeave, PollerRelease, ReleaseSlot, PollerTo
<1>7. ASSUME NEW p \in Pollers, Pace(p) PROVE Idle'
  BY <1>7, <1>0 DEF PollTypes, Pace, PollerTo
<1>8. ASSUME NEW p \in Pollers, SkipPoll(p) PROVE Idle'
  BY <1>8, <1>0 DEF PollTypes, SkipPoll, PollerRelease, ReleaseSlot
<1>9. ASSUME NEW p \in Pollers, OpenPoll(p) PROVE Idle'
  BY SMTT(30), <1>9, <1>0 DEF PollTypes, OpenPoll, PollerRelease, ReleaseSlot, PollerTo
<1>10. ASSUME NEW p \in Pollers, PollReturns(p) PROVE Idle'
  BY <1>10, <1>0 DEF PollTypes, PollReturns, SetFate
<1>11. ASSUME NEW p \in Pollers, AbandonPoll(p) PROVE Idle'
  BY <1>11, <1>0 DEF PollTypes, AbandonPoll, PollerRelease, ReleaseSlot, SetFate
<1>12. ASSUME NEW p \in Pollers, AbandonSend(p) PROVE Idle'
  BY <1>12, <1>0 DEF PollTypes, AbandonSend, PollerRelease, ReleaseSlot, SetFate
<1>13. ASSUME NEW p \in Pollers, ReserverAcquire(p) PROVE Idle'
  BY <1>13, <1>0 DEF PollTypes, ReserverAcquire
<1>14. ASSUME NEW p \in Pollers, ReserverCanceled(p) PROVE Idle'
  BY <1>14, <1>0 DEF PollTypes, ReserverCanceled, ReleaseSlot, GivesUp
<1>15. ASSUME NEW p \in Pollers, ReserverError(p) PROVE Idle'
  BY <1>15, <1>0 DEF PollTypes, ReserverError
<1>16. ASSUME NEW p \in Pollers, PollError(p) PROVE Idle'
  BY <1>16, <1>0 DEF PollTypes, PollError, PollerRelease, ReleaseSlot
<1>17. ASSUME NEW p \in Pollers, PollFatal(p) PROVE Idle'
  BY <1>17, <1>0 DEF PollTypes, PollFatal, PollerRelease, ReleaseSlot
<1>18. ASSUME NEW p \in Pollers, Handover(p) PROVE Idle'
  BY <1>18, <1>0 DEF PollTypes, Handover
<1>19. ASSUME NEW p \in Pollers, Discard(p) PROVE Idle'
  BY <1>19, <1>0 DEF PollTypes, Discard, PollerRelease, ReleaseSlot, SetFate
<1>20. ASSUME Dispatch PROVE Idle'
  BY <1>20 DEF Dispatch, Job
<1>21. ASSUME DispatchCanceled PROVE Idle'
  BY <1>21 DEF DispatchCanceled, ReleaseSlot, SetFate, AfterCancel, WaitCanceled
<1>22. ASSUME DispatcherExit PROVE Idle'
  BY <1>22 DEF DispatcherExit, DispatcherMayExit
<1>23. ASSUME CloseTaskQueue PROVE Idle'
  BY <1>23 DEF CloseTaskQueue
<1>24. ASSUME NEW j \in jobs, StartJob(j) PROVE Idle'
  BY <1>24 DEF StartJob, SetFate
<1>25. ASSUME NEW j \in jobs, FinishJob(j) PROVE Idle'
  BY <1>25 DEF FinishJob, ReleaseSlot
<1>26. ASSUME NEW e \in EagerReqs, EagerCheckStop(e) PROVE Idle'
  BY <1>26 DEF EagerCheckStop
<1>27. ASSUME NEW e \in EagerReqs, EagerReserve(e) PROVE Idle'
  BY <1>27 DEF EagerReserve
<1>28. ASSUME NEW e \in EagerReqs, EagerCall(e) PROVE Idle'
  BY <1>28 DEF EagerCall
<1>29. ASSUME NEW e \in EagerReqs, EagerAnswer(e) PROVE Idle'
  BY <1>29 DEF EagerAnswer
<1>30. ASSUME NEW e \in EagerReqs, EagerReleaseUnused(e) PROVE Idle'
  BY <1>30 DEF EagerReleaseUnused, ReleaseSlot
<1>31. ASSUME NEW e \in EagerReqs, EagerPush(e) PROVE Idle'
  BY <1>31 DEF EagerPush, SetFate
<1>32. ASSUME NEW e \in EagerReqs, EagerDone(e) PROVE Idle'
  BY <1>32 DEF EagerDone
<1>33. ASSUME EagerDispatch PROVE Idle'
  BY <1>33 DEF EagerDispatch, Job
<1>34. ASSUME EagerExit PROVE Idle'
  BY <1>34 DEF EagerExit, EagerMayExit
<1>35. ASSUME BeginStop PROVE Idle'
  BY <1>35 DEF BeginStop
<1>36. ASSUME StopStep PROVE Idle'
  BY <1>36 DEF StopStep
<1>37. ASSUME StopReturn PROVE Idle'
  BY <1>37 DEF StopReturn, StopWGZero
<1>38. ASSUME StopTimeout PROVE Idle'
  BY <1>38 DEF StopTimeout, StopWGZero
<1> QED
  BY SMTT(30), <1>1, <1>2, <1>3, <1>4, <1>5, <1>6, <1>7, <1>8, <1>9, <1>10, <1>11, <1>12, <1>13,
     <1>14, <1>15, <1>16, <1>17, <1>18, <1>19, <1>20, <1>21, <1>22, <1>23, <1>24, <1>25,
     <1>26, <1>27, <1>28, <1>29, <1>30, <1>31, <1>32, <1>33, <1>34, <1>35, <1>36, <1>37,
     <1>38
     DEF Next, PollerStep, ReserverStep, DispatcherStep, EagerStep

\* What the steps that test noRepoll or stopC do to the slots: nothing, or a release.
LEMMA ReserveKeeps ==
  ASSUME Hands, Idle, NEW p \in Pollers, ReserveOrLeave(p)
  PROVE  /\ \A q \in Pollers : /\ poller'[q].permit = poller[q].permit
                              /\ reserver'[q].permit = reserver[q].permit
         /\ UNCHANGED <<slotVars, dispVars, eagerVars, jobs>>
<1> USE DEF Hands, TypeOK, Idle
<1>1. /\ poller[p].pc = "top"
      /\ UNCHANGED <<slotVars, dispVars, eagerVars, jobs>>
  BY Zenon DEF ReserveOrLeave
<1>2. \/ poller' = [poller EXCEPT ![p].pc = "exited"] /\ reserver' = reserver
      \/ /\ poller' = [poller EXCEPT ![p].pc = "reserve"]
         /\ reserver' = [reserver EXCEPT ![p] = [pc |-> "waiting", permit |-> None]]
  BY Zenon DEF ReserveOrLeave, PollerTo
<1>3. reserver[p].permit = None
  BY <1>1
<1>4. CASE poller' = [poller EXCEPT ![p].pc = "exited"] /\ reserver' = reserver
  BY <1>1, <1>4
<1>5. CASE /\ poller' = [poller EXCEPT ![p].pc = "reserve"]
           /\ reserver' = [reserver EXCEPT ![p] = [pc |-> "waiting", permit |-> None]]
  BY <1>1, <1>3, <1>5
<1> QED
  BY <1>2, <1>4, <1>5

\* The poller with a permit keeps it or releases it.
LEMMA KeepOrRelease ==
  ASSUME Hands, NEW p \in Pollers, PollOrLeave(p) \/ OpenPoll(p)
  PROVE  /\ UNCHANGED <<reserver, dispVars, eagerVars, jobs>>
         /\ poller[p].permit \in Permits
         /\ \/ PollerRelease(p, "exited")
            \/ PollerRelease(p, "top")
            \/ UNCHANGED slotVars /\ \A q \in Pollers : poller'[q].permit = poller[q].permit
<1> USE DEF Hands, TypeOK
<1>1. UNCHANGED <<reserver, dispVars, eagerVars, jobs>> /\ poller[p].pc \in {"got", "checked"}
  BY Zenon DEF PollOrLeave, OpenPoll
<1>2. \/ PollerRelease(p, "exited")
      \/ PollerRelease(p, "top")
      \/ UNCHANGED slotVars /\ (PollerTo(p, "throttle") \/ PollerTo(p, "poll"))
  BY Zenon DEF PollOrLeave, OpenPoll
<1>3. ASSUME PollerTo(p, "throttle") PROVE \A q \in Pollers : poller'[q].permit = poller[q].permit
  BY <1>3 DEF PollerTo
<1>4. ASSUME PollerTo(p, "poll") PROVE \A q \in Pollers : poller'[q].permit = poller[q].permit
  BY <1>4 DEF PollerTo
<1>5. poller[p].permit \in Permits
  BY <1>1
<1> QED
  BY <1>1, <1>2, <1>3, <1>4, <1>5

\* A goroutine of processTaskAsync has the slot it was started with.
LEMMA JobPermit == \A t, s : Job(t, s).permit = s
BY DEF Job

\* All slots start in the semaphore.
LEMMA ApartInit == Init => Idle /\ Apart /\ Covered
BY SMTT(30), BaseWorkerAssumption
   DEF Init, Idle, Apart, FreeIsFree, PollSide, TaskSide, Across, Covered

\* A step that changes nobody's slot.
SlotsStay ==
    /\ free' = free /\ jobs' = jobs /\ eagerQueue' = eagerQueue
    /\ dispatcher'.permit = dispatcher.permit
    /\ \A p \in Pollers : poller'[p].permit = poller[p].permit
    /\ \A p \in Pollers : reserver'[p].permit = reserver[p].permit
    /\ \A e \in EagerReqs : eager'[e].permits = eager[e].permits

Kept == (Apart => Apart') /\ (Covered => Covered')

\* Apart is its four parts.
LEMMA ApartParts ==
  ASSUME Apart => FreeIsFree', Apart => PollSide', Apart => TaskSide', Apart => Across',
         Covered => Covered'
  PROVE  Kept
BY DEF Apart, Kept

LEMMA StaySlots ==
  ASSUME SlotsStay
  PROVE  Kept
<1>1. Apart => FreeIsFree'
  BY DEF SlotsStay, Apart, FreeIsFree
<1>2. Apart => PollSide'
  BY DEF SlotsStay, Apart, PollSide
<1>3. Apart => TaskSide'
  BY DEF SlotsStay, Apart, TaskSide
<1>4. Apart => Across'
  BY DEF SlotsStay, Apart, Across
<1>5. Covered => Covered'
  BY DEF SlotsStay, Covered
<1> QED
  BY <1>1, <1>2, <1>3, <1>4, <1>5, ApartParts

\* The polling side's moves: from the semaphore to the goroutine of
\* reserveSlotAsync, to the poller, and to the dispatcher.
LEMMA AcquireSlots ==
  ASSUME PollTypes, NEW p \in Pollers, ReserverAcquire(p), reserver[p].permit = None
  PROVE  Kept
<1>1. /\ UNCHANGED <<poller, dispatcher, jobs, eagerQueue, eager>>
      /\ \E s \in free : free' = free \ {s} /\ reserver'[p].permit = s
      /\ \A q \in Pollers : q # p => reserver'[q].permit = reserver[q].permit
  BY DEF PollTypes, ReserverAcquire, dispVars, eagerVars
<1>2. Apart => FreeIsFree'
  BY <1>1, BaseWorkerAssumption DEF Apart, FreeIsFree
<1>3. Apart => PollSide'
  BY <1>1 DEF Apart, FreeIsFree, PollSide
<1>4. Apart => TaskSide'
  BY <1>1 DEF Apart, TaskSide
<1>5. Apart => Across'
  BY <1>1 DEF Apart, FreeIsFree, Across
<1>6. Covered => Covered'
  BY <1>1, BaseWorkerAssumption DEF Covered
<1> QED
  BY <1>2, <1>3, <1>4, <1>5, <1>6, ApartParts

LEMMA TakeSlots ==
  ASSUME PollTypes, NEW p \in Pollers, TakePermit(p), poller[p].permit = None
  PROVE  Kept
<1>1. /\ UNCHANGED <<free, dispatcher, jobs, eagerQueue, eager>>
      /\ poller'[p].permit = reserver[p].permit /\ reserver'[p].permit = None
      /\ \A q \in Pollers : q # p => /\ poller'[q].permit = poller[q].permit
                                     /\ reserver'[q].permit = reserver[q].permit
  BY DEF PollTypes, TakePermit, slotVars, dispVars, eagerVars
<1>2. Apart => FreeIsFree'
  BY <1>1, BaseWorkerAssumption DEF Apart, FreeIsFree
<1>3. Apart => PollSide'
  BY <1>1, BaseWorkerAssumption DEF Apart, PollSide
<1>4. Apart => TaskSide'
  BY <1>1, BaseWorkerAssumption DEF Apart, TaskSide
<1>5. Apart => Across'
  BY <1>1, BaseWorkerAssumption DEF Apart, Across
<1>6. Covered => Covered'
  BY <1>1, BaseWorkerAssumption DEF Covered
<1> QED
  BY <1>2, <1>3, <1>4, <1>5, <1>6, ApartParts

LEMMA HandoverSlots ==
  ASSUME Proper, PollTypes, NEW p \in Pollers, Handover(p), dispatcher.permit = None
  PROVE  Kept
<1>1. /\ UNCHANGED <<free, reserver, jobs, eagerQueue, eager>>
      /\ poller'[p].permit = None /\ dispatcher'.permit = poller[p].permit
      /\ \A q \in Pollers : q # p => poller'[q].permit = poller[q].permit
  BY DEF PollTypes, Handover, slotVars, eagerVars
<1>2. Apart => FreeIsFree'
  BY <1>1, BaseWorkerAssumption DEF Apart, FreeIsFree
<1>3. Apart => PollSide'
  BY <1>1, BaseWorkerAssumption DEF Apart, PollSide
<1>4. Apart => TaskSide'
  BY <1>1, BaseWorkerAssumption DEF Apart, TaskSide
<1>5. Apart => Across'
  BY <1>1, BaseWorkerAssumption DEF Apart, Across
<1>6. Covered => Covered'
  BY <1>1, BaseWorkerAssumption DEF Covered
<1> QED
  BY <1>2, <1>3, <1>4, <1>5, <1>6, ApartParts

\* Back to the semaphore, from each variable of the polling side.
LEMMA PollerReleaseSlots ==
  ASSUME Proper, PollTypes, NEW p \in Pollers, NEW pc, PollerRelease(p, pc),
         poller[p].permit \in Permits,
         UNCHANGED <<reserver, dispatcher, jobs, eagerQueue, eager>>
  PROVE  Kept
<1>1. /\ UNCHANGED <<reserver, dispatcher, jobs, eagerQueue, eager>>
      /\ free' = free \cup {poller[p].permit} /\ poller'[p].permit = None
      /\ \A q \in Pollers : q # p => poller'[q].permit = poller[q].permit
  BY DEF PollTypes, PollerRelease, ReleaseSlot
<1>2. Apart => FreeIsFree'
  BY <1>1, BaseWorkerAssumption DEF Apart, FreeIsFree, PollSide, Across, Proper
<1>3. Apart => PollSide'
  BY <1>1 DEF Apart, PollSide
<1>4. Apart => TaskSide'
  BY <1>1 DEF Apart, TaskSide
<1>5. Apart => Across'
  BY <1>1, BaseWorkerAssumption DEF Apart, Across, Proper
<1>6. Covered => Covered'
  BY <1>1, BaseWorkerAssumption DEF Covered
<1> QED
  BY <1>2, <1>3, <1>4, <1>5, <1>6, ApartParts

LEMMA ReserverReleaseSlots ==
  ASSUME Proper, PollTypes, NEW p \in Pollers, ReserverCanceled(p), reserver[p].pc = "offer",
         reserver[p].permit \in Permits
  PROVE  Kept
<1>1. /\ UNCHANGED <<poller, dispatcher, jobs, eagerQueue, eager>>
      /\ free' = free \cup {reserver[p].permit} /\ reserver'[p].permit = None
      /\ \A q \in Pollers : q # p => reserver'[q].permit = reserver[q].permit
  BY DEF PollTypes, ReserverCanceled, ReleaseSlot, dispVars, eagerVars
<1>2. Apart => FreeIsFree'
  BY <1>1, BaseWorkerAssumption DEF Apart, FreeIsFree, PollSide, Across, Proper
<1>3. Apart => PollSide'
  BY <1>1 DEF Apart, PollSide
<1>4. Apart => TaskSide'
  BY <1>1 DEF Apart, TaskSide
<1>5. Apart => Across'
  BY <1>1, BaseWorkerAssumption DEF Apart, Across, Proper
<1>6. Covered => Covered'
  BY <1>1, BaseWorkerAssumption DEF Covered
<1> QED
  BY <1>2, <1>3, <1>4, <1>5, <1>6, ApartParts

LEMMA DispatcherReleaseSlots ==
  ASSUME Proper, DispatchCanceled, dispatcher.permit \in Permits
  PROVE  Kept
<1>1. /\ UNCHANGED <<poller, reserver, jobs, eagerQueue, eager>>
      /\ free' = free \cup {dispatcher.permit} /\ dispatcher'.permit = None
  BY DEF DispatchCanceled, ReleaseSlot, pollVars, eagerVars
<1>2. Apart => FreeIsFree'
  BY <1>1, BaseWorkerAssumption DEF Apart, FreeIsFree, PollSide, Across, Proper
<1>3. Apart => PollSide'
  BY <1>1 DEF Apart, PollSide
<1>4. Apart => TaskSide'
  BY <1>1 DEF Apart, TaskSide
<1>5. Apart => Across'
  BY <1>1, BaseWorkerAssumption DEF Apart, Across, Proper
<1>6. Covered => Covered'
  BY <1>1, BaseWorkerAssumption DEF Covered
<1> QED
  BY <1>2, <1>3, <1>4, <1>5, <1>6, ApartParts

\* The task side's moves: a goroutine of processTaskAsync gets the slot of the
\* dispatcher, keeps it when it marks it used, and releases it.
LEMMA DispatchSlots ==
  ASSUME Proper, Dispatch, dispatcher.permit \in Permits
  PROVE  Kept
<1>. DEFINE k == Job(dispatcher.task, dispatcher.permit)
<1>1. /\ UNCHANGED <<free, poller, reserver, eagerQueue, eager>>
      /\ jobs' = jobs \cup {k} /\ k.permit = dispatcher.permit /\ dispatcher'.permit = None
  BY JobPermit DEF Dispatch, slotVars, pollVars, eagerVars
<1>. HIDE DEF k
<1>2. Apart => FreeIsFree'
  BY <1>1, BaseWorkerAssumption DEF Apart, FreeIsFree, Proper
<1>3. Apart => PollSide'
  BY <1>1 DEF Apart, PollSide
<1>4. Apart => TaskSide'
  BY <1>1 DEF Apart, TaskSide, Across
<1>5. Apart => Across'
  BY <1>1, BaseWorkerAssumption DEF Apart, PollSide, Across, Proper
<1>6. Covered => Covered'
  BY <1>1, BaseWorkerAssumption DEF Covered
<1> QED
  BY <1>2, <1>3, <1>4, <1>5, <1>6, ApartParts

LEMMA StartSlots ==
  ASSUME Hands, NEW j \in jobs, StartJob(j)
  PROVE  Kept
<1>. DEFINE k == [j EXCEPT !.started = TRUE]
<1>1. /\ UNCHANGED <<free, poller, reserver, dispatcher, eagerQueue, eager>>
      /\ jobs' = (jobs \ {j}) \cup {k} /\ k.permit = j.permit
  BY StartedPermit DEF StartJob, pollVars, dispVars, eagerVars
<1>. HIDE DEF k
<1>2. Apart => FreeIsFree'
  BY <1>1 DEF Apart, FreeIsFree
<1>3. Apart => PollSide'
  BY <1>1 DEF Apart, PollSide
<1>4. Apart => TaskSide'
  BY <1>1 DEF Apart, TaskSide
<1>5. Apart => Across'
  BY <1>1 DEF Apart, Across
<1>6. Covered => Covered'
  BY <1>1 DEF Covered
<1> QED
  BY <1>2, <1>3, <1>4, <1>5, <1>6, ApartParts

LEMMA FinishSlots ==
  ASSUME NEW j \in jobs, FinishJob(j)
  PROVE  Kept
<1>1. /\ UNCHANGED <<poller, reserver, dispatcher, eagerQueue, eager>>
      /\ jobs' = jobs \ {j} /\ free' = free \cup {j.permit}
  BY DEF FinishJob, ReleaseSlot, pollVars, dispVars, eagerVars
<1>2. Apart => FreeIsFree'
  BY <1>1 DEF Apart, FreeIsFree, TaskSide, Across
<1>3. Apart => PollSide'
  BY <1>1 DEF Apart, PollSide
<1>4. Apart => TaskSide'
  BY <1>1 DEF Apart, TaskSide
<1>5. Apart => Across'
  BY <1>1 DEF Apart, Across
<1>6. Covered => Covered'
  BY <1>1 DEF Covered
<1> QED
  BY <1>2, <1>3, <1>4, <1>5, <1>6, ApartParts

\* The eager side's moves: from the semaphore to the request, and from it back or
\* through the eager channel to a goroutine.
LEMMA EagerReserveSlots ==
  ASSUME EagerTypes, NEW e \in EagerReqs, EagerReserve(e)
  PROVE  Kept
<1>0. /\ UNCHANGED <<poller, reserver, dispatcher, eagerQueue, jobs>>
      /\ \A d \in EagerReqs : d # e => eager'[d].permits = eager[d].permits
      /\ \/ free' = free /\ eager'[e].permits = eager[e].permits
         \/ \E s \in free : free' = free \ {s} /\ eager'[e].permits = eager[e].permits \cup {s}
  BY DEF EagerTypes, EagerReserve, pollVars, dispVars
<1>1. CASE free' = free /\ eager'[e].permits = eager[e].permits
  BY <1>0, <1>1, StaySlots DEF SlotsStay
<1>2. ASSUME NEW s \in free, free' = free \ {s}, eager'[e].permits = eager[e].permits \cup {s}
      PROVE  Kept
  <2>2. Apart => FreeIsFree'
    BY <1>0, <1>2 DEF Apart, FreeIsFree
  <2>3. Apart => PollSide'
    BY <1>0, <1>2 DEF Apart, PollSide
  <2>4. Apart => TaskSide'
    BY <1>0, <1>2 DEF Apart, FreeIsFree, TaskSide
  <2>5. Apart => Across'
    BY <1>0, <1>2 DEF Apart, FreeIsFree, Across
  <2>6. Covered => Covered'
    BY <1>0, <1>2 DEF Covered
  <2> QED
    BY <2>2, <2>3, <2>4, <2>5, <2>6, ApartParts
<1> QED
  BY <1>0, <1>1, <1>2

LEMMA EagerReleaseSlots ==
  ASSUME EagerTypes, NEW e \in EagerReqs, EagerReleaseUnused(e)
  PROVE  Kept
<1>1. PICK s \in eager[e].permits :
          free' = free \cup {s} /\ eager' = [eager EXCEPT ![e].permits = @ \ {s}]
  BY Zenon DEF EagerReleaseUnused, ReleaseSlot
<1>2. /\ UNCHANGED <<poller, reserver, dispatcher, eagerQueue, jobs>>
      /\ eager'[e].permits = eager[e].permits \ {s}
      /\ \A d \in EagerReqs : d # e => eager'[d].permits = eager[d].permits
  BY <1>1 DEF EagerTypes, EagerReleaseUnused, pollVars, dispVars
<1>3. Apart => FreeIsFree'
  BY <1>1, <1>2 DEF Apart, FreeIsFree, TaskSide, Across
<1>4. Apart => PollSide'
  BY <1>1, <1>2 DEF Apart, PollSide
<1>5. Apart => TaskSide'
  BY <1>1, <1>2 DEF Apart, TaskSide
<1>6. Apart => Across'
  BY <1>1, <1>2 DEF Apart, Across
<1>7. Covered => Covered'
  BY <1>1, <1>2 DEF Covered
<1> QED
  BY <1>3, <1>4, <1>5, <1>6, <1>7, ApartParts

LEMMA EagerPushSlots ==
  ASSUME EagerTypes, NEW e \in EagerReqs, EagerPush(e)
  PROVE  Kept
<1>1. PICK t \in eager[e].tasks, s \in eager[e].permits :
          /\ eagerQueue' = eagerQueue \cup {[task |-> t, permit |-> s]}
          /\ eager' = [eager EXCEPT ![e].permits = @ \ {s}, ![e].tasks = @ \ {t}]
  BY Zenon DEF EagerPush
<1>. DEFINE k == [task |-> t, permit |-> s]
<1>2. /\ UNCHANGED <<free, poller, reserver, dispatcher, jobs>>
      /\ eagerQueue' = eagerQueue \cup {k} /\ k.permit = s
      /\ eager'[e].permits = eager[e].permits \ {s}
      /\ \A d \in EagerReqs : d # e => eager'[d].permits = eager[d].permits
  BY <1>1 DEF EagerTypes, EagerPush, slotVars, pollVars, dispVars
<1>. HIDE DEF k
<1>3. Apart => FreeIsFree'
  BY <1>2 DEF Apart, FreeIsFree
<1>4. Apart => PollSide'
  BY <1>2 DEF Apart, PollSide
<1>5. Apart => TaskSide'
  BY <1>2 DEF Apart, TaskSide
<1>6. Apart => Across'
  BY <1>2 DEF Apart, Across
<1>7. Covered => Covered'
  BY <1>2 DEF Covered
<1> QED
  BY <1>3, <1>4, <1>5, <1>6, <1>7, ApartParts

LEMMA EagerDispatchSlots ==
  ASSUME EagerDispatch
  PROVE  Kept
<1>0. PICK q \in eagerQueue :
          /\ eagerQueue' = eagerQueue \ {q}
          /\ jobs' = jobs \cup {Job(q.task, q.permit)}
  BY DEF EagerDispatch
<1>. DEFINE k == Job(q.task, q.permit)
<1>1. /\ UNCHANGED <<free, poller, reserver, dispatcher, eager>>
      /\ jobs' = jobs \cup {k} /\ k.permit = q.permit /\ eagerQueue' = eagerQueue \ {q}
  BY <1>0, JobPermit DEF EagerDispatch, slotVars, pollVars, dispVars
<1>. HIDE DEF k
<1>2. Apart => FreeIsFree'
  BY <1>1 DEF Apart, FreeIsFree
<1>3. Apart => PollSide'
  BY <1>1 DEF Apart, PollSide
<1>4. Apart => TaskSide'
  BY <1>1 DEF Apart, TaskSide
<1>5. Apart => Across'
  BY <1>1 DEF Apart, Across
<1>6. Covered => Covered'
  BY <1>1 DEF Covered
<1> QED
  BY <1>2, <1>3, <1>4, <1>5, <1>6, ApartParts

\* Every step that moves a slot takes it from the one variable that held it, and
\* puts it in another or in the semaphore.
LEMMA SlotStep == Hands /\ Idle /\ [Next]_vars => Kept
<1> SUFFICES ASSUME Hands, Idle, [Next]_vars PROVE Kept
  OBVIOUS
<1>0. PollTypes /\ EagerTypes /\ Proper
  BY SlotTypes
<1>1. CASE UNCHANGED vars
  BY <1>1, StaySlots DEF SlotsStay, vars, slotVars, pollVars, dispVars, eagerVars
<1>2. CASE Finished
  BY <1>2, StaySlots DEF Finished, SlotsStay, vars, slotVars, pollVars, dispVars, eagerVars
<1>3. ASSUME NEW p \in Pollers, ReserveOrLeave(p) PROVE Kept
  BY <1>3, ReserveKeeps, StaySlots DEF SlotsStay, slotVars, dispVars, eagerVars
<1>4. ASSUME NEW p \in Pollers, TakePermit(p) PROVE Kept
  <2>1. poller[p].permit = None
    BY <1>4 DEF Hands, TakePermit
  <2> QED
    BY <1>0, <1>4, <2>1, TakeSlots
<1>5. ASSUME NEW p \in Pollers, StopWhileReserving(p) \/ Pace(p) PROVE Kept
  <2>1. UNCHANGED <<free, reserver, dispatcher, jobs, eagerQueue, eager>>
    BY Zenon, <1>5 DEF StopWhileReserving, Pace, slotVars, dispVars, eagerVars
  <2>2. PollerTo(p, "exited") \/ PollerTo(p, "checked")
    BY Zenon, <1>5 DEF StopWhileReserving, Pace
  <2>3. \A q \in Pollers : poller'[q].permit = poller[q].permit
    BY <1>0, <2>2 DEF PollTypes, PollerTo
  <2> QED
    BY <2>1, <2>3, StaySlots DEF SlotsStay
<1>6. ASSUME NEW p \in Pollers, PollOrLeave(p) \/ OpenPoll(p) PROVE Kept
  <2>1. CASE UNCHANGED slotVars /\ \A q \in Pollers : poller'[q].permit = poller[q].permit
    BY <1>6, <2>1, KeepOrRelease, StaySlots DEF SlotsStay, slotVars, dispVars, eagerVars
  <2>2. ASSUME NEW pc, PollerRelease(p, pc) PROVE Kept
    BY <1>0, <1>6, <2>2, KeepOrRelease, PollerReleaseSlots DEF dispVars, eagerVars
  <2> QED
    BY <1>6, <2>1, <2>2, KeepOrRelease
<1>7. ASSUME NEW p \in Pollers, SkipPoll(p) \/ PollError(p) \/ PollFatal(p) \/ AbandonPoll(p)
                                \/ AbandonSend(p) \/ Discard(p)
      PROVE  Kept
  <2>1. /\ PollerRelease(p, "top") /\ poller[p].pc \in {"throttle", "poll", "send"}
        /\ UNCHANGED <<reserver, dispatcher, jobs, eagerQueue, eager>>
    BY Zenon, <1>7
       DEF SkipPoll, PollError, PollFatal, AbandonPoll, AbandonSend, Discard, dispVars, eagerVars
  <2>2. poller[p].permit \in Permits
    BY <2>1 DEF Hands
  <2> QED
    BY <1>0, <2>1, <2>2, PollerReleaseSlots
<1>8. ASSUME NEW p \in Pollers, PollReturns(p) PROVE Kept
  BY <1>0, <1>8, StaySlots
     DEF PollTypes, PollReturns, SlotsStay, slotVars, dispVars, eagerVars
<1>9. ASSUME NEW p \in Pollers, ReserverAcquire(p) PROVE Kept
  <2>1. reserver[p].permit = None
    BY <1>9 DEF Hands, ReserverAcquire
  <2> QED
    BY <1>0, <1>9, <2>1, AcquireSlots
<1>10. ASSUME NEW p \in Pollers, ReserverCanceled(p) PROVE Kept
  <2>1. CASE reserver[p].pc = "offer"
    <3>1. reserver[p].permit \in Permits
      BY <2>1 DEF Hands
    <3> QED
      BY <1>0, <1>10, <2>1, <3>1, ReserverReleaseSlots
  <2>2. CASE reserver[p].pc # "offer"
    <3>1. reserver[p].permit = None
      BY <2>2 DEF Hands
    <3> QED
      BY <1>0, <1>10, <2>2, <3>1, StaySlots
         DEF PollTypes, ReserverCanceled, SlotsStay, slotVars, dispVars, eagerVars
  <2> QED
    BY <2>1, <2>2
<1>11. ASSUME NEW p \in Pollers, ReserverError(p) PROVE Kept
  BY <1>0, <1>11, StaySlots
     DEF PollTypes, ReserverError, SlotsStay, slotVars, dispVars, eagerVars
<1>12. ASSUME NEW p \in Pollers, Handover(p) PROVE Kept
  <2>1. dispatcher.permit = None
    BY <1>12 DEF Hands, Handover
  <2> QED
    BY <1>0, <1>12, <2>1, HandoverSlots
<1>13. ASSUME Dispatch \/ DispatchCanceled PROVE Kept
  <2>1. dispatcher.permit \in Permits
    BY <1>13 DEF Hands, Dispatch, DispatchCanceled
  <2> QED
    BY <1>0, <1>13, <2>1, DispatchSlots, DispatcherReleaseSlots
<1>14. ASSUME DispatcherExit PROVE Kept
  <2>1. dispatcher'.permit = dispatcher.permit
    BY <1>14 DEF Hands, TypeOK, DispatcherExit
  <2> QED
    BY <1>14, <2>1, StaySlots DEF DispatcherExit, SlotsStay, slotVars, pollVars, eagerVars
<1>15. ASSUME CloseTaskQueue PROVE Kept
  BY <1>15, StaySlots DEF CloseTaskQueue, SlotsStay, slotVars, pollVars, eagerVars
<1>16. ASSUME NEW j \in jobs, StartJob(j) \/ FinishJob(j) PROVE Kept
  BY <1>16, StartSlots, FinishSlots
<1>17. ASSUME NEW e \in EagerReqs, EagerCheckStop(e) \/ EagerCall(e) \/ EagerDone(e) PROVE Kept
  BY <1>0, <1>17, StaySlots
     DEF EagerTypes, EagerCheckStop, EagerCall, EagerDone, SlotsStay, slotVars, pollVars, dispVars
<1>18. ASSUME NEW e \in EagerReqs, EagerAnswer(e) PROVE Kept
  BY <1>0, <1>18, StaySlots
     DEF EagerTypes, EagerAnswer, SlotsStay, slotVars, pollVars, dispVars
<1>19. ASSUME NEW e \in EagerReqs, EagerReserve(e) \/ EagerReleaseUnused(e) \/ EagerPush(e)
       PROVE  Kept
  BY <1>0, <1>19, EagerReserveSlots, EagerReleaseSlots, EagerPushSlots
<1>20. ASSUME EagerDispatch PROVE Kept
  BY <1>20, EagerDispatchSlots
<1>21. ASSUME EagerExit PROVE Kept
  BY <1>21, StaySlots DEF EagerExit, SlotsStay, slotVars, pollVars, dispVars
<1>22. ASSUME BeginStop \/ StopStep \/ StopReturn \/ StopTimeout PROVE Kept
  <2>1. UNCHANGED <<free, poller, reserver, dispatcher, jobs, eagerQueue, eager>>
    BY Zenon, <1>22 DEF BeginStop, StopStep, StopReturn, StopTimeout, slotVars, pollVars, dispVars,
       eagerVars
  <2> QED
    BY <2>1, StaySlots DEF SlotsStay
<1> QED
  BY <1>1, <1>2, <1>3, <1>4, <1>5, <1>6, <1>7, <1>8, <1>9, <1>10, <1>11, <1>12, <1>13, <1>14,
     <1>15, <1>16, <1>17, <1>18, <1>19, <1>20, <1>21, <1>22
     DEF Next, PollerStep, ReserverStep, DispatcherStep, EagerStep
-----------------------------------------------------------------------------
\* The invariants about slots hold together.
LEMMA SlotInvariant == Spec => [](Hands /\ Idle /\ Apart /\ Covered)
BY HandsInit, HandsStep, IdleStep, ApartInit, SlotStep, PTL DEF Spec, Kept

\* No path through runPoller, pollTask, the dispatchers and the eager code leaks a
\* slot or releases it twice.
THEOREM SlotsCorrect == Spec => []SlotsConserved
<1>1. ASSUME Apart, NEW s \in Permits, s \in free PROVE Owners(s) = {}
  BY ZenonT(60), <1>1 DEF Apart, FreeIsFree, Owners
<1>2. ASSUME Apart, Covered, NEW s \in Permits, s \notin free
      PROVE  \E o \in Owners(s) : Owners(s) = {o}
  <2> USE <1>2, BaseWorkerAssumption DEF Owners, Apart
  <2>1. ASSUME NEW p \in Pollers, poller[p].permit = s PROVE Owners(s) = {<<"poller", p>>}
    BY SMTT(30), <2>1 DEF PollSide, Across
  <2>2. ASSUME NEW p \in Pollers, reserver[p].permit = s PROVE Owners(s) = {<<"reserver", p>>}
    BY SMTT(30), <2>2 DEF PollSide, Across
  <2>3. ASSUME dispatcher.permit = s PROVE Owners(s) = {<<"dispatcher", None>>}
    BY SMTT(30), <2>3 DEF PollSide, Across
  <2>4. ASSUME NEW j \in jobs, j.permit = s PROVE Owners(s) = {<<"job", j>>}
    BY SMTT(30), <2>4 DEF TaskSide, Across
  <2>5. ASSUME NEW q \in eagerQueue, q.permit = s PROVE Owners(s) = {<<"queue", q>>}
    BY SMTT(30), <2>5 DEF TaskSide, Across
  <2>6. ASSUME NEW e \in EagerReqs, s \in eager[e].permits PROVE Owners(s) = {<<"eager", e>>}
    BY SMTT(30), <2>6 DEF TaskSide, Across
  <2>7. \E o : Owners(s) = {o}
    BY ZenonT(60), <2>1, <2>2, <2>3, <2>4, <2>5, <2>6 DEF Covered
  <2> QED
    BY SMTT(30), <2>7
<1>3. Apart /\ Covered => SlotsConserved
  BY <1>1, <1>2 DEF SlotsConserved
<1> QED
  BY <1>3, SlotInvariant, PTL

\* After a successful Stop nothing is left running, and a slot is out only for an
\* eager request or an eager activity that came too late.
THEOREM StopCorrect == Spec => []StopIsFinal
<1>1. Hands /\ Shutdown /\ Covered /\ EagerTasksInv => StopIsFinal
  <2> SUFFICES ASSUME Hands, Shutdown, Covered, EagerTasksInv, stopPc = "done" /\ ~timedOut
               PROVE  /\ AllExited
                      /\ \A s \in Permits \ free :
                          \/ \E e \in EagerReqs : s \in eager[e].permits
                          \/ \E q \in eagerQueue : q.permit = s /\ fate[q.task] = "stranded"
    BY DEF StopIsFinal
  <2>1. AllExited
    BY DEF Shutdown
  <2>2. /\ \A p \in Pollers : poller[p].permit = None /\ reserver[p].permit = None
        /\ dispatcher.permit = None
    BY <2>1 DEF AllExited, Hands
  <2>3. jobs = {} /\ \A q \in eagerQueue : fate[q.task] = "stranded"
    BY <2>1 DEF AllExited, EagerTasksInv
  <2> QED
    BY <2>1, <2>2, <2>3, BaseWorkerAssumption DEF Covered
<1> QED
  BY <1>1, HandsInit, HandsStep, EagerTasksInit, EagerTasksStep, Invariant, SlotInvariant, PTL
     DEF Spec
=============================================================================
