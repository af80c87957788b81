-------------------------- MODULE BaseWorkerProofs --------------------------
(***************************************************************************)
(* Proofs about BaseWorker, for any number of pollers, slots, tasks and    *)
(* workflow task completions.                                              *)
(***************************************************************************)
EXTENDS BaseWorker, TLAPS

\* What a goroutine has in its hands at each point: a permit from the moment it
\* is received until it is passed on or released, a task while it is being sent or
\* dispatched.
Hands ==
    /\ TypeOK
    /\ \A p \in Pollers :
        /\ poller[p].pc \in {"got", "throttle", "checked", "poll", "send"}
               => poller[p].permit \in Permits
        /\ poller[p].pc \in {"top", "reserve", "exited"} => poller[p].permit = None
        /\ poller[p].pc = "send" => poller[p].task \in Tasks \cup {Empty}
        /\ reserver[p].pc = "offer" => reserver[p].permit \in Permits
        /\ reserver[p].pc # "offer" => reserver[p].permit = None
    /\ dispatcher.pc = "limit" => dispatcher.permit \in Permits /\ dispatcher.task \in Tasks \cup {Empty}
    /\ dispatcher.pc # "limit" => dispatcher.permit = None

\* When Start has made the goroutines, nobody holds anything.
LEMMA HandsInit == Init => Hands
<1> SUFFICES ASSUME Init PROVE Hands
  OBVIOUS
<1>1. TypeOK
  BY Zenon DEF Init, TypeOK, StopPcs, PollerPcs, ReserverPcs, DispatcherPcs, EagerPcs, Fates
<1> QED
  BY <1>1 DEF Init, Hands

\* Every step of the goroutines keeps what they have in their hands.
LEMMA HandsStep == Hands /\ [Next]_vars => Hands'
<1> SUFFICES ASSUME Hands, [Next]_vars PROVE Hands'
  OBVIOUS
<1> USE BaseWorkerAssumption DEF Hands, TypeOK, Tasks, StopPcs, PollerPcs, ReserverPcs,
        DispatcherPcs, EagerPcs, Fates, stopVars, slotVars, pollVars, dispVars, eagerVars
<1>1. CASE UNCHANGED vars
  BY <1>1 DEF vars
<1>2. CASE Finished
  BY <1>2 DEF Finished, vars
<1>3. ASSUME NEW p \in Pollers, ReserveOrLeave(p) PROVE Hands'
  <2>1. /\ poller[p].pc = "top"
        /\ UNCHANGED <<stopVars, slotVars, dispVars, eagerVars, jobs, fate, latePolls>>
    BY <1>3, Zenon DEF ReserveOrLeave
  <2>2. \/ poller' = [poller EXCEPT ![p].pc = "exited"] /\ reserver' = reserver
        \/ /\ poller' = [poller EXCEPT ![p].pc = "reserve"]
           /\ reserver' = [reserver EXCEPT ![p] = [pc |-> "waiting", permit |-> None]]
    BY <1>3, Zenon DEF ReserveOrLeave, PollerTo
  <2>3. CASE poller' = [poller EXCEPT ![p].pc = "exited"] /\ reserver' = reserver
    BY <2>1, <2>3
  <2>4. CASE /\ poller' = [poller EXCEPT ![p].pc = "reserve"]
             /\ reserver' = [reserver EXCEPT ![p] = [pc |-> "waiting", permit |-> None]]
    BY <2>1, <2>4
  <2> QED
    BY <2>2, <2>3, <2>4
<1>4. ASSUME NEW p \in Pollers, TakePermit(p) PROVE Hands'
  <2>1. CASE reserver[p].pc = "offer"
    BY <1>4, <2>1 DEF TakePermit, AfterReserve
  <2>2. CASE reserver[p].pc = "failed"
    <3>1. /\ poller' = [poller EXCEPT ![p] = [pc |-> "top", permit |-> None, task |-> None]]
          /\ reserver' = [reserver EXCEPT ![p] = [pc |-> "none", permit |-> None]]
          /\ UNCHANGED <<stopVars, slotVars, dispVars, eagerVars, jobs, fate, latePolls>>
      BY ZenonT(60), <1>4, <2>2 DEF TakePermit, AfterReserve
    <3> QED
      BY <3>1
  <2> QED
    BY <1>4, <2>1, <2>2 DEF TakePermit
<1>5. ASSUME NEW p \in Pollers, StopWhileReserving(p) PROVE Hands'
  BY <1>5 DEF StopWhileReserving, PollerTo
<1>6. ASSUME NEW p \in Pollers, PollOrLeave(p) PROVE Hands'
  <2>1. /\ poller[p].pc = "got"
        /\ UNCHANGED <<stopVars, reserver, dispVars, eagerVars, jobs, fate, latePolls>>
        /\ \/ PollerRelease(p, "exited")
           \/ PollerTo(p, "throttle") /\ UNCHANGED slotVars
    BY <1>6, Zenon DEF PollOrLeave
  <2>2. CASE PollerRelease(p, "exited")
    BY <2>1, <2>2 DEF PollerRelease, ReleaseSlot
  <2>3. CASE PollerTo(p, "throttle") /\ UNCHANGED slotVars
    BY <2>1, <2>3 DEF PollerTo
  <2> QED
    BY <2>1, <2>2, <2>3
<1>7. ASSUME NEW p \in Pollers, Pace(p) PROVE Hands'
  BY <1>7 DEF Pace, PollerTo
<1>8. ASSUME NEW p \in Pollers, SkipPoll(p) PROVE Hands'
  BY <1>8 DEF SkipPoll, PollerRelease, ReleaseSlot
<1>9. ASSUME NEW p \in Pollers, OpenPoll(p) PROVE Hands'
  BY <1>9 DEF OpenPoll, PollerRelease, ReleaseSlot, PollerTo
<1>10. ASSUME NEW p \in Pollers, PollReturns(p) PROVE Hands'
  <2>1. PICK t \in PolledTasks \cup {Empty} :
            /\ poller' = [poller EXCEPT ![p] = [pc |-> "send", permit |-> poller[p].permit, task |-> t]]
            /\ SetFate(t, "received")
    BY Zenon, <1>10 DEF PollReturns
  <2>2. fate' \in [Tasks -> Fates]
    BY <2>1 DEF SetFate
  <2>3. /\ poller[p].pc = "poll"
        /\ UNCHANGED <<stopVars, slotVars, reserver, dispVars, eagerVars, jobs, latePolls>>
    BY <1>10 DEF PollReturns
  <2>4. poller' \in [Pollers -> [pc: PollerPcs, permit: Permits \cup {None},
                                 task: Tasks \cup {None, Empty}]]
    BY <2>1
  <2> QED
    BY <2>1, <2>2, <2>3, <2>4
<1>11. ASSUME NEW p \in Pollers, AbandonPoll(p) PROVE Hands'
  BY <1>11 DEF AbandonPoll, PollerRelease, ReleaseSlot, SetFate
<1>12. ASSUME NEW p \in Pollers, AbandonSend(p) PROVE Hands'
  BY <1>12 DEF AbandonSend, PollerRelease, ReleaseSlot, SetFate
<1>13. ASSUME NEW p \in Pollers, ReserverAcquire(p) PROVE Hands'
  BY <1>13 DEF ReserverAcquire
<1>14. ASSUME NEW p \in Pollers, ReserverCanceled(p) PROVE Hands'
  BY <1>14 DEF ReserverCanceled, ReleaseSlot, GivesUp
<1>15. ASSUME NEW p \in Pollers, ReserverError(p) PROVE Hands'
  BY <1>15 DEF ReserverError
<1>16. ASSUME NEW p \in Pollers, PollError(p) PROVE Hands'
  BY <1>16 DEF PollError, PollerRelease, ReleaseSlot
<1>17. ASSUME NEW p \in Pollers, PollFatal(p) PROVE Hands'
  BY <1>17 DEF PollFatal, PollerRelease, ReleaseSlot
<1>18. ASSUME NEW p \in Pollers, Handover(p) PROVE Hands'
  BY <1>18 DEF Handover
<1>19. ASSUME NEW p \in Pollers, Discard(p) PROVE Hands'
  BY <1>19 DEF Discard, PollerRelease, ReleaseSlot, SetFate
<1>20. ASSUME Dispatch PROVE Hands'
  <2>1. Job(dispatcher.task, dispatcher.permit)
            \in [task: Tasks \cup {Empty}, permit: Permits, started: BOOLEAN]
    BY <1>20 DEF Dispatch, Job
  <2> QED
    BY <1>20, <2>1 DEF Dispatch
<1>21. ASSUME DispatchCanceled PROVE Hands'
  BY <1>21 DEF DispatchCanceled, ReleaseSlot, SetFate, AfterCancel, WaitCanceled
<1>22. ASSUME DispatcherExit PROVE Hands'
  BY SMTT(30), <1>22 DEF DispatcherExit, DispatcherMayExit
<1>23. ASSUME CloseTaskQueue PROVE Hands'
  BY <1>23 DEF CloseTaskQueue
<1>24. ASSUME NEW j \in jobs, StartJob(j) PROVE Hands'
  <2>1. j \in [task: Tasks \cup {Empty}, permit: Permits, started: BOOLEAN]
    OBVIOUS
  <2>2. [j EXCEPT !.started = TRUE]
            \in [task: Tasks \cup {Empty}, permit: Permits, started: BOOLEAN]
    BY Zenon, <2>1
  <2>3. fate' \in [Tasks -> Fates]
    BY <1>24 DEF StartJob, SetFate
  <2>4. used' \subseteq Permits
    BY <1>24, <2>1 DEF StartJob
  <2>5. jobs' \subseteq [task: Tasks \cup {Empty}, permit: Permits, started: BOOLEAN]
    BY ZenonT(60), <1>24, <2>2 DEF StartJob
  <2>6. UNCHANGED <<stopVars, free, eagerPermits, pollVars, dispVars, eagerVars, latePolls>>
    BY <1>24 DEF StartJob
  <2> QED
    BY <2>3, <2>4, <2>5, <2>6
<1>25. ASSUME NEW j \in jobs, FinishJob(j) PROVE Hands'
  BY <1>25 DEF FinishJob, ReleaseSlot
<1>26. ASSUME NEW e \in EagerReqs, EagerCheckStop(e) PROVE Hands'
  BY <1>26 DEF EagerCheckStop
<1>27. ASSUME NEW e \in EagerReqs, EagerReserve(e) PROVE Hands'
  BY SMTT(30), <1>27 DEF EagerReserve
<1>28. ASSUME NEW e \in EagerReqs, EagerCall(e) PROVE Hands'
  BY SMTT(30), <1>28 DEF EagerCall
<1>29. ASSUME NEW e \in EagerReqs, EagerAnswer(e) PROVE Hands'
  <2>1. PICK ts \in SUBSET EagerTasks :
            /\ eager' = [eager EXCEPT ![e] = [pc |-> "resp", permits |-> eager[e].permits, tasks |-> ts]]
            /\ fate' = [t \in Tasks |-> IF t \in ts THEN "received" ELSE fate[t]]
    BY ZenonT(60), <1>29 DEF EagerAnswer
  <2>2. fate' \in [Tasks -> Fates]
    BY <2>1
  <2>3. eager' \in [EagerReqs -> [pc: EagerPcs, permits: SUBSET Permits,
                                  tasks: SUBSET EagerTasks]]
    BY <2>1
  <2>4. UNCHANGED <<stopVars, slotVars, pollVars, dispVars, eagerDisp, eagerQueue, jobs,
                    latePolls>>
    BY <1>29 DEF EagerAnswer
  <2> QED
    BY <2>2, <2>3, <2>4
<1>30. ASSUME NEW e \in EagerReqs, EagerReleaseUnused(e) PROVE Hands'
  BY <1>30 DEF EagerReleaseUnused, ReleaseSlot
<1>31. ASSUME NEW e \in EagerReqs, EagerPush(e) PROVE Hands'
  BY <1>31 DEF EagerPush, SetFate
<1>32. ASSUME NEW e \in EagerReqs, EagerDone(e) PROVE Hands'
  BY <1>32 DEF EagerDone
<1>33. ASSUME EagerDispatch PROVE Hands'
  <2>1. PICK q \in eagerQueue : /\ eagerQueue' = eagerQueue \ {q}
                                /\ jobs' = jobs \cup {Job(q.task, q.permit)}
    BY <1>33 DEF EagerDispatch
  <2>2. Job(q.task, q.permit)
            \in [task: Tasks \cup {Empty}, permit: Permits, started: BOOLEAN]
    BY <2>1 DEF Job
  <2> QED
    BY <1>33, <2>1, <2>2 DEF EagerDispatch
<1>34. ASSUME EagerExit PROVE Hands'
  BY <1>34 DEF EagerExit, EagerMayExit
<1>35. ASSUME BeginStop PROVE Hands'
  BY <1>35 DEF BeginStop
<1>36. ASSUME StopStep PROVE Hands'
  BY <1>36 DEF StopStep
<1>37. ASSUME StopReturn PROVE Hands'
  BY <1>37 DEF StopReturn, StopWGZero
<1>38. ASSUME StopTimeout PROVE Hands'
  BY <1>38 DEF StopTimeout, StopWGZero
<1> QED
  BY ZenonT(60), <1>1, <1>2, <1>3, <1>4, <1>5, <1>6, <1>7, <1>8, <1>9, <1>10, <1>11, <1>12, <1>13,
     <1>14, <1>15, <1>16, <1>17, <1>18, <1>19, <1>20, <1>21, <1>22, <1>23, <1>24, <1>25,
     <1>26, <1>27, <1>28, <1>29, <1>30, <1>31, <1>32, <1>33, <1>34, <1>35, <1>36, <1>37,
     <1>38
     DEF Next, PollerStep, ReserverStep, DispatcherStep, EagerStep

\* Every variable keeps its type; a nil permit never reaches a poll, a dispatcher or
\* a task.
THEOREM TypeCorrect == Spec => []TypeOK
<1>1. Hands => TypeOK
  BY DEF Hands
<1> QED
  BY <1>1, HandsInit, HandsStep, PTL DEF Spec

-----------------------------------------------------------------------------
\* The order in which a stopping worker is taken apart: the channel is closed after
\* the last poller returned, a draining dispatcher returns after that, Stop reports
\* success after everybody, and only a Stop that timed out cancels the task limiter
\* under a dispatcher that is still at work.
Shutdown ==
    /\ queueClosed => \A p \in Pollers : poller[p].pc = "exited"
    /\ drain /\ dispatcher.pc = "exited" => queueClosed
    /\ stopPc = "done" /\ ~timedOut => AllExited
    /\ dispatcher.pc = "discard" => timedOut
    /\ DrainLosesNothing

\* Nothing is closed and nothing is lost when the worker starts.
LEMMA ShutdownInit == Init => Shutdown
BY SMTT(30) DEF Init, Shutdown, DrainLosesNothing

\* No step, of a stopping worker or of a running one, breaks that order.
LEMMA ShutdownStep == Hands /\ Shutdown /\ [Next]_vars => Shutdown'
<1> SUFFICES ASSUME Hands, Shutdown, [Next]_vars PROVE Shutdown'
  OBVIOUS
<1> USE BaseWorkerAssumption DEF Hands, TypeOK, Shutdown, DrainLosesNothing, AllExited, Tasks,
        StopPcs, PollerPcs, ReserverPcs, DispatcherPcs, Fates, stopVars, slotVars, pollVars,
        dispVars, eagerVars, isStop, stopping, limiterCanceled, taskLimiterCanceled
<1>1. CASE UNCHANGED vars
  BY <1>1 DEF vars
<1>2. CASE Finished
  BY <1>2 DEF Finished, vars
<1>3. ASSUME NEW p \in Pollers, ReserveOrLeave(p) PROVE Shutdown'
  BY <1>3 DEF ReserveOrLeave, PollerTo
<1>4. ASSUME NEW p \in Pollers, TakePermit(p) PROVE Shutdown'
  BY <1>4 DEF TakePermit, AfterReserve
<1>5. ASSUME NEW p \in Pollers, StopWhileReserving(p) PROVE Shutdown'
  BY <1>5 DEF StopWhileReserving, PollerTo
<1>6. ASSUME NEW p \in Pollers, PollOrLeave(p) PROVE Shutdown'
  BY <1>6 DEF PollOrLeave, PollerRelease, ReleaseSlot, PollerTo
<1>7. ASSUME NEW p \in Pollers, Pace(p) PROVE Shutdown'
  BY <1>7 DEF Pace, PollerTo
<1>8. ASSUME NEW p \in Pollers, SkipPoll(p) PROVE Shutdown'
  BY <1>8 DEF SkipPoll, PollerRelease, ReleaseSlot
<1>9. ASSUME NEW p \in Pollers, OpenPoll(p) PROVE Shutdown'
  BY <1>9 DEF OpenPoll, PollerRelease, ReleaseSlot, PollerTo
<1>10. ASSUME NEW p \in Pollers, PollReturns(p) PROVE Shutdown'
  BY <1>10 DEF PollReturns, SetFate
<1>11. ASSUME NEW p \in Pollers, AbandonPoll(p) PROVE Shutdown'
  BY <1>11 DEF AbandonPoll, PollerRelease, ReleaseSlot, SetFate
<1>12. ASSUME NEW p \in Pollers, AbandonSend(p) PROVE Shutdown'
  BY <1>12 DEF AbandonSend, PollerRelease, ReleaseSlot, SetFate
<1>13. ASSUME NEW p \in Pollers, ReserverAcquire(p) PROVE Shutdown'
  BY <1>13 DEF ReserverAcquire
<1>14. ASSUME NEW p \in Pollers, ReserverCanceled(p) PROVE Shutdown'
  BY <1>14 DEF ReserverCanceled, ReleaseSlot, GivesUp
<1>15. ASSUME NEW p \in Pollers, ReserverError(p) PROVE Shutdown'
  BY <1>15 DEF ReserverError
<1>16. ASSUME NEW p \in Pollers, PollError(p) PROVE Shutdown'
  BY <1>16 DEF PollError, PollerRelease, ReleaseSlot
<1>17. ASSUME NEW p \in Pollers, PollFatal(p) PROVE Shutdown'
  BY <1>17 DEF PollFatal, PollerRelease, ReleaseSlot
<1>18. ASSUME NEW p \in Pollers, Handover(p) PROVE Shutdown'
  BY <1>18 DEF Handover
<1>19. ASSUME NEW p \in Pollers, Discard(p) PROVE Shutdown'
  BY <1>19 DEF Discard, PollerRelease, ReleaseSlot, SetFate
<1>20. ASSUME Dispatch PROVE Shutdown'
  BY <1>20 DEF Dispatch, Job
<1>21. ASSUME DispatchCanceled PROVE Shutdown'
  BY <1>21 DEF DispatchCanceled, ReleaseSlot, SetFate, AfterCancel, WaitCanceled
<1>22. ASSUME DispatcherExit PROVE Shutdown'
  BY <1>22 DEF DispatcherExit, DispatcherMayExit
<1>23. ASSUME CloseTaskQueue PROVE Shutdown'
  BY <1>23 DEF CloseTaskQueue
<1>24. ASSUME NEW j \in jobs, StartJob(j) PROVE Shutdown'
  BY <1>24 DEF StartJob, SetFate
<1>25. ASSUME NEW j \in jobs, FinishJob(j) PROVE Shutdown'
  BY <1>25 DEF FinishJob, ReleaseSlot
<1>26. ASSUME NEW e \in EagerReqs, EagerCheckStop(e) PROVE Shutdown'
  BY <1>26 DEF EagerCheckStop
<1>27. ASSUME NEW e \in EagerReqs, EagerReserve(e) PROVE Shutdown'
  BY <1>27 DEF EagerReserve
<1>28. ASSUME NEW e \in EagerReqs, EagerCall(e) PROVE Shutdown'
  BY SMTT(30), <1>28 DEF EagerCall
<1>29. ASSUME NEW e \in EagerReqs, EagerAnswer(e) PROVE Shutdown'
  <2>1. PICK ts \in SUBSET EagerTasks :
            fate' = [t \in Tasks |-> IF t \in ts THEN "received" ELSE fate[t]]
    BY ZenonT(60), <1>29 DEF EagerAnswer
  <2>2. \A t \in Tasks : fate'[t] = "dropped" => fate[t] = "dropped"
    BY <2>1
  <2>3. UNCHANGED <<stopVars, slotVars, pollVars, dispVars, eagerDisp, jobs>>
    BY <1>29 DEF EagerAnswer
  <2> QED
    BY <2>2, <2>3
<1>30. ASSUME NEW e \in EagerReqs, EagerReleaseUnused(e) PROVE Shutdown'
  BY <1>30 DEF EagerReleaseUnused, ReleaseSlot
<1>31. ASSUME NEW e \in EagerReqs, EagerPush(e) PROVE Shutdown'
  BY <1>31 DEF EagerPush, SetFate
<1>32. ASSUME NEW e \in EagerReqs, EagerDone(e) PROVE Shutdown'
  BY <1>32 DEF EagerDone
<1>33. ASSUME EagerDispatch PROVE Shutdown'
  BY <1>33 DEF EagerDispatch, Job
<1>34. ASSUME EagerExit PROVE Shutdown'
  BY <1>34 DEF EagerExit, EagerMayExit
<1>35. ASSUME BeginStop PROVE Shutdown'
  BY <1>35 DEF BeginStop
<1>36. ASSUME StopStep PROVE Shutdown'
  BY <1>36 DEF StopStep
<1>37. ASSUME StopReturn PROVE Shutdown'
  BY <1>37 DEF StopReturn, StopWGZero
<1>38. ASSUME StopTimeout PROVE Shutdown'
  BY <1>38 DEF StopTimeout, StopWGZero
<1> QED
  BY ZenonT(60), <1>1, <1>2, <1>3, <1>4, <1>5, <1>6, <1>7, <1>8, <1>9, <1>10, <1>11, <1>12, <1>13,
     <1>14, <1>15, <1>16, <1>17, <1>18, <1>19, <1>20, <1>21, <1>22, <1>23, <1>24, <1>25,
     <1>26, <1>27, <1>28, <1>29, <1>30, <1>31, <1>32, <1>33, <1>34, <1>35, <1>36, <1>37,
     <1>38
     DEF Next, PollerStep, ReserverStep, DispatcherStep, EagerStep

-----------------------------------------------------------------------------
\* A poll opened after Stop began or a fatal error was recorded: noRepoll is set, and
\* the poller is past the last test of it that let the poll through.
LateInv ==
    /\ stopPc # "run" \/ fatal => noRepoll
    /\ \A p \in Pollers :
        \/ latePolls[p] = 0
        \/ latePolls[p] = 1 /\ noRepoll /\ poller[p].pc # "checked"

\* No poll is late before Stop.
LEMMA LateInit == Init => LateInv
BY DEF Init, LateInv

\* No step lets a poller past noRepoll once it is set.
LEMMA LateStep == Hands /\ LateInv /\ [Next]_vars => LateInv'
<1> SUFFICES ASSUME Hands, LateInv, [Next]_vars PROVE LateInv'
  OBVIOUS
<1> USE BaseWorkerAssumption DEF Hands, TypeOK, LateInv, StopPcs, PollerPcs, stopVars, slotVars,
        pollVars, dispVars, eagerVars, isStop, stopping, limiterCanceled
<1>1. CASE UNCHANGED vars
  BY <1>1 DEF vars
<1>2. CASE Finished
  BY <1>2 DEF Finished, vars
<1>3. ASSUME NEW p \in Pollers, ReserveOrLeave(p) PROVE LateInv'
  BY SMTT(30), <1>3 DEF ReserveOrLeave, PollerTo
<1>4. ASSUME NEW p \in Pollers, TakePermit(p) PROVE LateInv'
  BY <1>4 DEF TakePermit, AfterReserve
<1>5. ASSUME NEW p \in Pollers, StopWhileReserving(p) PROVE LateInv'
  BY <1>5 DEF StopWhileReserving, PollerTo
<1>6. ASSUME NEW p \in Pollers, PollOrLeave(p) PROVE LateInv'
  <2>1. /\ UNCHANGED <<stopVars, latePolls>>
        /\ \/ poller' = [poller EXCEPT ![p] = [pc |-> "exited", permit |-> None, task |-> None]]
           \/ poller' = [poller EXCEPT ![p].pc = "throttle"]
    BY <1>6, Zenon DEF PollOrLeave, PollerRelease, PollerTo
  <2>2. \A q \in Pollers : poller'[q].pc = "checked" => poller[q].pc = "checked"
    <3>1. CASE poller' = [poller EXCEPT ![p] = [pc |-> "exited", permit |-> None, task |-> None]]
      BY <3>1
    <3>2. CASE poller' = [poller EXCEPT ![p].pc = "throttle"]
      BY <3>2
    <3> QED
      BY <2>1, <3>1, <3>2
  <2> QED
    BY <2>1, <2>2
<1>7. ASSUME NEW p \in Pollers, Pace(p) PROVE LateInv'
  BY SMTT(30), <1>7 DEF Pace, PollerTo
<1>8. ASSUME NEW p \in Pollers, SkipPoll(p) PROVE LateInv'
  BY <1>8 DEF SkipPoll, PollerRelease, ReleaseSlot
<1>9. ASSUME NEW p \in Pollers, OpenPoll(p) PROVE LateInv'
  BY SMTT(30), <1>9 DEF OpenPoll, PollerRelease, ReleaseSlot, PollerTo
<1>10. ASSUME NEW p \in Pollers, PollReturns(p) PROVE LateInv'
  BY SMTT(30), <1>10 DEF PollReturns, SetFate
<1>11. ASSUME NEW p \in Pollers, AbandonPoll(p) PROVE LateInv'
  BY SMTT(30), <1>11 DEF AbandonPoll, PollerRelease, ReleaseSlot, SetFate
<1>12. ASSUME NEW p \in Pollers, AbandonSend(p) PROVE LateInv'
  BY <1>12 DEF AbandonSend, PollerRelease, ReleaseSlot, SetFate
<1>13. ASSUME NEW p \in Pollers, ReserverAcquire(p) PROVE LateInv'
  BY <1>13 DEF ReserverAcquire
<1>14. ASSUME NEW p \in Pollers, ReserverCanceled(p) PROVE LateInv'
  BY <1>14 DEF ReserverCanceled, ReleaseSlot, GivesUp
<1>15. ASSUME NEW p \in Pollers, ReserverError(p) PROVE LateInv'
  BY <1>15 DEF ReserverError
<1>16. ASSUME NEW p \in Pollers, PollError(p) PROVE LateInv'
  BY <1>16 DEF PollError, PollerRelease, ReleaseSlot
<1>17. ASSUME NEW p \in Pollers, PollFatal(p) PROVE LateInv'
  BY <1>17 DEF PollFatal, PollerRelease, ReleaseSlot
<1>18. ASSUME NEW p \in Pollers, Handover(p) PROVE LateInv'
  BY <1>18 DEF Handover
<1>19. ASSUME NEW p \in Pollers, Discard(p) PROVE LateInv'
  BY <1>19 DEF Discard, PollerRelease, ReleaseSlot, SetFate
<1>20. ASSUME Dispatch PROVE LateInv'
  BY <1>20 DEF Dispatch, Job
<1>21. ASSUME DispatchCanceled PROVE LateInv'
  BY <1>21 DEF DispatchCanceled, ReleaseSlot, SetFate, AfterCancel, WaitCanceled
<1>22. ASSUME DispatcherExit PROVE LateInv'
  BY <1>22 DEF DispatcherExit, DispatcherMayExit
<1>23. ASSUME CloseTaskQueue PROVE LateInv'
  BY <1>23 DEF CloseTaskQueue
<1>24. ASSUME NEW j \in jobs, StartJob(j) PROVE LateInv'
  BY <1>24 DEF StartJob, SetFate
<1>25. ASSUME NEW j \in jobs, FinishJob(j) PROVE LateInv'
  BY <1>25 DEF FinishJob, ReleaseSlot
<1>26. ASSUME NEW e \in EagerReqs, EagerCheckStop(e) PROVE LateInv'
  BY <1>26 DEF EagerCheckStop
<1>27. ASSUME NEW e \in EagerReqs, EagerReserve(e) PROVE LateInv'
  BY <1>27 DEF EagerReserve
<1>28. ASSUME NEW e \in EagerReqs, EagerCall(e) PROVE LateInv'
  BY <1>28 DEF EagerCall
<1>29. ASSUME NEW e \in EagerReqs, EagerAnswer(e) PROVE LateInv'
  BY <1>29 DEF EagerAnswer
<1>30. ASSUME NEW e \in EagerReqs, EagerReleaseUnused(e) PROVE LateInv'
  BY <1>30 DEF EagerReleaseUnused, ReleaseSlot
<1>31. ASSUME NEW e \in EagerReqs, EagerPush(e) PROVE LateInv'
  BY <1>31 DEF EagerPush, SetFate
<1>32. ASSUME NEW e \in EagerReqs, EagerDone(e) PROVE LateInv'
  BY SMTT(30), <1>32 DEF EagerDone
<1>33. ASSUME EagerDispatch PROVE LateInv'
  BY <1>33 DEF EagerDispatch, Job
<1>34. ASSUME EagerExit PROVE LateInv'
  BY <1>34 DEF EagerExit, EagerMayExit
<1>35. ASSUME BeginStop PROVE LateInv'
  BY <1>35 DEF BeginStop
<1>36. ASSUME StopStep PROVE LateInv'
  BY <1>36 DEF StopStep
<1>37. ASSUME StopReturn PROVE LateInv'
  BY <1>37 DEF StopReturn, StopWGZero
<1>38. ASSUME StopTimeout PROVE LateInv'
  BY <1>38 DEF StopTimeout, StopWGZero
<1> QED
  BY ZenonT(60), <1>1, <1>2, <1>3, <1>4, <1>5, <1>6, <1>7, <1>8, <1>9, <1>10, <1>11, <1>12, <1>13,
     <1>14, <1>15, <1>16, <1>17, <1>18, <1>19, <1>20, <1>21, <1>22, <1>23, <1>24, <1>25,
     <1>26, <1>27, <1>28, <1>29, <1>30, <1>31, <1>32, <1>33, <1>34, <1>35, <1>36, <1>37,
     <1>38
     DEF Next, PollerStep, ReserverStep, DispatcherStep, EagerStep

-----------------------------------------------------------------------------
\* The three invariants together are inductive.
LEMMA Invariant == Spec => [](Hands /\ Shutdown /\ LateInv)
BY HandsInit, HandsStep, ShutdownInit, ShutdownStep, LateInit, LateStep, PTL DEF Spec

\* pollTask's comment on its blocking send is right for any number of pollers: while
\* a poller is alive the channel is open, and while a draining one sends there is
\* a dispatcher.
THEOREM SendCorrect == Spec => []SendHasReceiver
<1>1. Hands /\ Shutdown => SendHasReceiver
  BY DEF Hands, TypeOK, Shutdown, SendHasReceiver
<1> QED
  BY <1>1, Invariant, PTL

\* A draining worker gives up a task it received only after Stop timed out.
THEOREM DrainCorrect == Spec => []DrainLosesNothing
<1>1. Shutdown => DrainLosesNothing
  BY DEF Shutdown
<1> QED
  BY <1>1, Invariant, PTL

\* Whatever the interleaving of stop with the pollers, each opens at most one more
\* poll.
THEOREM LatePollsCorrect == Spec => []AtMostOneLatePoll
<1>1. Hands /\ LateInv => AtMostOneLatePoll
  BY DEF Hands, TypeOK, LateInv, AtMostOneLatePoll
<1> QED
  BY <1>1, Invariant, PTL

-----------------------------------------------------------------------------
(* Which slots are marked used, and where eager activities are.            *)

\* A goroutine of processTaskAsync keeps its slot when it marks it used.
LEMMA StartedPermit ==
  ASSUME Hands, NEW j \in jobs
  PROVE  [j EXCEPT !.started = TRUE].permit = j.permit
<1>1. j \in [task: Tasks \cup {Empty}, permit: Permits, started: BOOLEAN]
  BY DEF Hands, TypeOK
<1> QED
  BY <1>1

\* Only StartJob marks a slot, and only FinishJob ends a goroutine.
UsedStays == used' \subseteq used /\ jobs \subseteq jobs'

LEMMA UsedStaysStep ==
  ASSUME [Next]_vars, ~\E j \in jobs : StartJob(j) \/ FinishJob(j)
  PROVE  UsedStays
<1> USE DEF UsedStays, slotVars
<1>1. ASSUME NEW p \in Pollers,
             PollerStep(p) \/ PollError(p) \/ PollFatal(p) \/ Handover(p) \/ Discard(p)
      PROVE  UsedStays
  <2>1. jobs' = jobs
    BY Zenon, <1>1
       DEF PollerStep, ReserveOrLeave, TakePermit, StopWhileReserving, PollOrLeave, Pace, SkipPoll,
           OpenPoll, PollReturns, PollError, PollFatal, AbandonPoll, AbandonSend, Handover, Discard
  <2>2. UNCHANGED used \/ \E s : ReleaseSlot(s)
    BY Zenon, <1>1
       DEF PollerStep, ReserveOrLeave, TakePermit, StopWhileReserving, PollOrLeave, Pace, SkipPoll,
           OpenPoll, PollReturns, PollError, PollFatal, AbandonPoll, AbandonSend, Handover, Discard,
           PollerRelease
  <2> QED
    BY <2>1, <2>2 DEF ReleaseSlot
<1>2. ASSUME NEW p \in Pollers, ReserverStep(p) \/ ReserverError(p) PROVE UsedStays
  BY <1>2 DEF ReserverStep, ReserverAcquire, ReserverCanceled, ReserverError, ReleaseSlot
<1>3. CASE DispatcherStep \/ CloseTaskQueue
  BY <1>3 DEF DispatcherStep, Dispatch, DispatchCanceled, DispatcherExit, CloseTaskQueue, ReleaseSlot
<1>4. ASSUME NEW e \in EagerReqs, EagerStep(e) PROVE UsedStays
  <2>1. CASE EagerReleaseUnused(e)
    BY <2>1 DEF EagerReleaseUnused, ReleaseSlot
  <2>2. CASE ~EagerReleaseUnused(e)
    BY Zenon, <1>4, <2>2
       DEF EagerStep, EagerCheckStop, EagerReserve, EagerCall, EagerAnswer, EagerPush, EagerDone
  <2> QED
    BY <2>1, <2>2
<1>5. CASE EagerDispatch \/ EagerExit
  BY <1>5 DEF EagerDispatch, EagerExit
<1>6. CASE BeginStop \/ StopStep \/ StopReturn \/ StopTimeout \/ Finished \/ UNCHANGED vars
  BY Zenon, <1>6 DEF BeginStop, StopStep, StopReturn, StopTimeout, Finished, vars
<1> QED
  BY <1>1, <1>2, <1>3, <1>4, <1>5, <1>6 DEF Next, DispatcherStep

\* MarkSlotUsed is always undone by the release of the same slot.
LEMMA UsedStep == Hands /\ UsedMeansProcessing /\ [Next]_vars => UsedMeansProcessing'
<1> SUFFICES ASSUME Hands, UsedMeansProcessing, [Next]_vars PROVE UsedMeansProcessing'
  OBVIOUS
<1>1. CASE UsedStays
  BY <1>1 DEF UsedStays, UsedMeansProcessing
<1>2. ASSUME NEW j \in jobs, StartJob(j) PROVE UsedMeansProcessing'
  <2>1. PICK k : k = [j EXCEPT !.started = TRUE]
    BY ZenonT(60)
  <2>2. k.permit = j.permit
    BY <2>1, StartedPermit
  <2>3. k.started
    <3>1. j \in [task: Tasks \cup {Empty}, permit: Permits, started: BOOLEAN]
      BY DEF Hands, TypeOK
    <3> QED
      BY <2>1, <3>1
  <2>4. jobs' = (jobs \ {j}) \cup {k} /\ used' \subseteq used \cup {j.permit} /\ ~j.started
    BY <1>2, <2>1 DEF StartJob
  <2> QED
    BY <2>2, <2>3, <2>4 DEF UsedMeansProcessing
<1>3. ASSUME NEW j \in jobs, FinishJob(j) PROVE UsedMeansProcessing'
  BY <1>3 DEF FinishJob, ReleaseSlot, UsedMeansProcessing
<1> QED
  BY <1>1, <1>2, <1>3, UsedStaysStep

\* The slot gauges only count slots of tasks that are being processed.
THEOREM UsedCorrect == Spec => []UsedMeansProcessing
<1>1. Init => UsedMeansProcessing
  BY DEF Init, UsedMeansProcessing
<1> QED
  BY <1>1, HandsInit, HandsStep, UsedStep, PTL DEF Spec

\* An eager activity is in one place: still unseen, with the request that received
\* it, in the channel, or with a goroutine.  What is in the channel after
\* runEagerTaskDispatcher returned came too late for it.
EagerTasksInv ==
    /\ \A p \in Pollers : poller[p].task \notin EagerTasks
    /\ dispatcher.task \notin EagerTasks
    /\ \A e \in EagerReqs : \A t \in eager[e].tasks : fate[t] = "received"
    /\ \A d, e \in EagerReqs : d # e => eager[d].tasks \cap eager[e].tasks = {}
    /\ \A q \in eagerQueue :
        /\ fate[q.task] \in {"received", "stranded"}
        /\ \A e \in EagerReqs : q.task \notin eager[e].tasks
        /\ \A r \in eagerQueue : q.task = r.task => q = r
        /\ \A j \in jobs : j.task # q.task
    /\ \A j \in jobs :
        /\ j.task \in EagerTasks => fate[j.task] # "unseen"
        /\ \A e \in EagerReqs : j.task \notin eager[e].tasks
    /\ eagerDisp = "exited" => \A q \in eagerQueue : fate[q.task] = "stranded"

\* A step that receives no task and passes none on.
NoTaskMoves ==
    /\ \A p \in Pollers : poller'[p].task \in {None, poller[p].task}
    /\ \A e \in EagerReqs : eager'[e].tasks = eager[e].tasks
    /\ UNCHANGED <<eagerQueue, eagerDisp, jobs, fate>>
    /\ dispatcher'.task = dispatcher.task

LEMMA NoTaskMovesKeeps ==
  ASSUME EagerTasksInv, NoTaskMoves
  PROVE  EagerTasksInv'
<1>1. \A p \in Pollers : poller'[p].task \notin EagerTasks
  BY BaseWorkerAssumption DEF EagerTasksInv, NoTaskMoves, Tasks
<1>2. dispatcher'.task \notin EagerTasks
  BY DEF EagerTasksInv, NoTaskMoves
<1> QED
  BY <1>1, <1>2 DEF EagerTasksInv, NoTaskMoves

LEMMA NoTaskMovesStep ==
  ASSUME Hands, [Next]_vars,
         ~\E p \in Pollers : \/ PollReturns(p) \/ AbandonPoll(p) \/ AbandonSend(p) \/ Handover(p)
                             \/ Discard(p),
         ~(Dispatch \/ DispatchCanceled \/ EagerDispatch \/ EagerExit),
         ~\E j \in jobs : StartJob(j) \/ FinishJob(j),
         ~\E e \in EagerReqs : EagerAnswer(e) \/ EagerPush(e)
  PROVE  NoTaskMoves
<1> USE DEF pollVars, dispVars, eagerVars
<1>1. ASSUME NEW p \in Pollers,
             \/ ReserveOrLeave(p) \/ TakePermit(p) \/ StopWhileReserving(p) \/ PollOrLeave(p)
             \/ Pace(p) \/ SkipPoll(p) \/ OpenPoll(p) \/ PollError(p) \/ PollFatal(p)
      PROVE  NoTaskMoves
  <2>1. UNCHANGED <<dispatcher, eager, eagerQueue, eagerDisp, jobs, fate>>
    BY Zenon, <1>1
       DEF ReserveOrLeave, TakePermit, StopWhileReserving, PollOrLeave, Pace, SkipPoll, OpenPoll,
           PollError, PollFatal
  <2>2. \E pc, permit :
           \/ poller' = [poller EXCEPT ![p] = [pc |-> pc, permit |-> permit, task |-> None]]
           \/ poller' = [poller EXCEPT ![p].pc = pc]
    BY Zenon, <1>1
       DEF ReserveOrLeave, TakePermit, StopWhileReserving, PollOrLeave, Pace, SkipPoll, OpenPoll,
           PollError, PollFatal, PollerTo, PollerRelease
  <2>3. PICK pc, permit :
           \/ poller' = [poller EXCEPT ![p] = [pc |-> pc, permit |-> permit, task |-> None]]
           \/ poller' = [poller EXCEPT ![p].pc = pc]
    BY ZenonT(60), <2>2
  <2>4. CASE poller' = [poller EXCEPT ![p] = [pc |-> pc, permit |-> permit, task |-> None]]
    BY ZenonT(40), <2>1, <2>4 DEF Hands, TypeOK, NoTaskMoves
  <2>5. CASE poller' = [poller EXCEPT ![p].pc = pc]
    BY <2>1, <2>5 DEF Hands, TypeOK, NoTaskMoves
  <2> QED
    BY <2>3, <2>4, <2>5
<1>2. ASSUME NEW p \in Pollers, ReserverStep(p) \/ ReserverError(p) PROVE NoTaskMoves
  BY Zenon, <1>2 DEF ReserverStep, ReserverAcquire, ReserverCanceled, ReserverError, NoTaskMoves
<1>3. CASE DispatcherExit \/ CloseTaskQueue
  <2>1. UNCHANGED <<poller, eager, eagerQueue, eagerDisp, jobs, fate>>
    BY Zenon, <1>3 DEF DispatcherExit, CloseTaskQueue
  <2>2. dispatcher'.task = dispatcher.task
    BY <1>3 DEF DispatcherExit, CloseTaskQueue, Hands, TypeOK
  <2> QED
    BY <2>1, <2>2 DEF NoTaskMoves
<1>4. ASSUME NEW e \in EagerReqs,
             EagerCheckStop(e) \/ EagerReserve(e) \/ EagerCall(e) \/ EagerReleaseUnused(e) \/ EagerDone(e)
      PROVE  NoTaskMoves
  <2>1. UNCHANGED <<poller, dispatcher, eagerQueue, eagerDisp, jobs, fate>>
    BY Zenon, <1>4
       DEF EagerCheckStop, EagerReserve, EagerCall, EagerReleaseUnused, EagerDone
  <2>2. \E pc, permits : \/ eager' = [eager EXCEPT ![e].pc = pc, ![e].permits = permits]
                         \/ eager' = [eager EXCEPT ![e].pc = pc]
                         \/ eager' = [eager EXCEPT ![e].permits = permits]
    BY Zenon, <1>4
       DEF EagerCheckStop, EagerReserve, EagerCall, EagerReleaseUnused, EagerDone
  <2>3. \A d \in EagerReqs : eager'[d].tasks = eager[d].tasks
    BY <2>2 DEF Hands, TypeOK
  <2> QED
    BY <2>1, <2>3 DEF NoTaskMoves
<1>5. CASE BeginStop \/ StopStep \/ StopReturn \/ StopTimeout \/ Finished \/ UNCHANGED vars
  BY Zenon, <1>5 DEF BeginStop, StopStep, StopReturn, StopTimeout, Finished, vars, NoTaskMoves
<1> QED
  BY <1>1, <1>2, <1>3, <1>4, <1>5 DEF Next, PollerStep, DispatcherStep, EagerStep

\* No eager activity has been received when the worker starts.
LEMMA EagerTasksInit == Init => EagerTasksInv
BY BaseWorkerAssumption DEF Init, EagerTasksInv, Tasks

\* Each step moves an eager activity along that path or leaves it where it is.
LEMMA EagerTasksStep == Hands /\ EagerTasksInv /\ [Next]_vars => EagerTasksInv'
<1> SUFFICES ASSUME Hands, EagerTasksInv, [Next]_vars PROVE EagerTasksInv'
  OBVIOUS
<1>1. CASE NoTaskMoves
  BY Zenon, <1>1, NoTaskMovesKeeps
<1> USE BaseWorkerAssumption DEF Hands, TypeOK, EagerTasksInv, Tasks, PollerPcs, DispatcherPcs,
        EagerPcs, Fates, stopVars, slotVars, pollVars, dispVars, eagerVars
<1>2. ASSUME NEW p \in Pollers, PollReturns(p) PROVE EagerTasksInv'
  BY SMTT(30), <1>2 DEF PollReturns, SetFate
<1>3. ASSUME NEW p \in Pollers, AbandonPoll(p) PROVE EagerTasksInv'
  BY SMTT(30), <1>3 DEF AbandonPoll, PollerRelease, ReleaseSlot, SetFate
<1>4. ASSUME NEW p \in Pollers, AbandonSend(p) PROVE EagerTasksInv'
  BY <1>4 DEF AbandonSend, PollerRelease, ReleaseSlot, SetFate
<1>5. ASSUME NEW p \in Pollers, Handover(p) PROVE EagerTasksInv'
  BY SMTT(30), <1>5 DEF Handover
<1>6. ASSUME NEW p \in Pollers, Discard(p) PROVE EagerTasksInv'
  BY SMTT(30), <1>6 DEF Discard, PollerRelease, ReleaseSlot, SetFate
<1>7. ASSUME Dispatch PROVE EagerTasksInv'
  BY SMTT(30), <1>7 DEF Dispatch, Job
<1>8. ASSUME DispatchCanceled PROVE EagerTasksInv'
  BY <1>8 DEF DispatchCanceled, ReleaseSlot, SetFate, AfterCancel, WaitCanceled
<1>9. ASSUME NEW j \in jobs, StartJob(j) PROVE EagerTasksInv'
  BY SMTT(30), <1>9 DEF StartJob, SetFate
<1>10. ASSUME NEW j \in jobs, FinishJob(j) PROVE EagerTasksInv'
  BY <1>10 DEF FinishJob, ReleaseSlot
<1>11. ASSUME NEW e \in EagerReqs, EagerAnswer(e) PROVE EagerTasksInv'
  BY <1>11 DEF EagerAnswer
<1>12. ASSUME NEW e \in EagerReqs, EagerPush(e) PROVE EagerTasksInv'
  BY <1>12 DEF EagerPush, SetFate
<1>13. ASSUME EagerDispatch PROVE EagerTasksInv'
  BY SMTT(30), <1>13 DEF EagerDispatch, Job
<1>14. ASSUME EagerExit PROVE EagerTasksInv'
  BY <1>14 DEF EagerExit, EagerMayExit
<1> HIDE DEF Hands, TypeOK, EagerTasksInv
<1> QED
  BY ZenonT(60), <1>1, <1>2, <1>3, <1>4, <1>5, <1>6, <1>7, <1>8, <1>9, <1>10, <1>11, <1>12, <1>13,
     <1>14, NoTaskMovesStep
=============================================================================
