------------------------------ MODULE Sessions ------------------------------
(***************************************************************************)
(* A session worker on top of Activities: the creation activities that     *)
(* keep sessions open, the token bucket that limits them, the one poller   *)
(* of the creation worker that waits for a token before it polls, the      *)
(* workflow that completes a session, and the worker's Stop.               *)
(*                                                                         *)
(* A task is the attempt of a creation activity polled on the creation     *)
(* queue ("create") or on the resource's own queue ("recreate"), or an     *)
(* activity of the user's ("user").                                        *)
(***************************************************************************)
EXTENDS Activities

CONSTANTS
    SessionIDs,
    SessionOf,      \* the session of a task
    Size,           \* maxConcurrentSessionExecutionSize
    Workloads,      \* what kinds of tasks there are
    Disturbed       \* bound on the tasks that are canceled or time out on their own

ASSUME SessionsAssumption ==
    /\ SessionOf \in [Acts -> SessionIDs]
    /\ Size \in Nat \ {0}
    /\ Disturbed \subseteq Acts
    /\ Workloads \subseteq [Acts -> {"create", "recreate", "user", "none"}]

VARIABLES
    kind,           \* the workload
    availableToken,
    bucketClosed,
    poller,         \* runPoller of the creation worker
    doneChanMap,    \* the task whose doneCh is stored for a session
    doneClosed,     \* tasks whose doneCh is closed
    wf              \* the workflow's view of a session
bucketVars == <<availableToken, bucketClosed, poller>>
envVars == <<doneChanMap, doneClosed>>
vars == <<actVars, kind, bucketVars, envVars, wf>>

-----------------------------------------------------------------------------
(* The token bucket and the poller.  The slot it reserves first is         *)
(* BaseWorker's matter.                                                    *)

\* The poller parks on the condition variable in the step that finds no token.
waitForAvailableToken ==
    /\ poller = "wait"
    /\ poller' = IF bucketClosed THEN "exited" ELSE IF availableToken = 0 THEN "parked" ELSE "poll"
    /\ UNCHANGED <<actVars, kind, availableToken, bucketClosed, envVars, wf>>

PollerLoops ==
    /\ poller = "top"
    /\ poller' \in IF stop = "running" THEN {"wait"} ELSE {"wait", "exited"}
    /\ UNCHANGED <<actVars, kind, availableToken, bucketClosed, envVars, wf>>

\* The server hands out an attempt when the one before it has failed and may be
\* retried.
Offered(a) ==
    /\ At(a, "idle")
    /\ \A b \in Acts \ {a} : kind[b] # "none" /\ SessionOf[b] = SessionOf[a] =>
          At(b, "idle") \/ (server[b].state = "failed" /\ act[b].err # "shutdown")

\* A poll ends with a task, without one, or with an error after which the worker
\* does not poll again (noRepoll).
Poll ==
    /\ poller = "poll"
    /\ \/ /\ poller' = "top"
          /\ \E a \in Acts : kind[a] = "create" /\ Offered(a) /\ Start(a, "create")
       \/ poller' \in {"top", "exited"} /\ UNCHANGED actVars
    /\ UNCHANGED <<kind, availableToken, bucketClosed, envVars, wf>>

\* The activity worker and the resource's queue have no bucket.
PollOther(a) ==
    /\ \/ kind[a] = "recreate" /\ Offered(a) /\ Start(a, "create")
       \/ kind[a] = "user" /\ Start(a, "body")
    /\ UNCHANGED <<kind, bucketVars, envVars, wf>>

Woken == IF poller = "parked" THEN "wait" ELSE poller

-----------------------------------------------------------------------------
(* sessionCreationActivity.                                                *)

\* CreateSession: a token, or the error that there are too many sessions.
getToken(a) ==
    /\ At(a, "create")
    /\ IF availableToken = 0
       THEN /\ act' = [act EXCEPT ![a].pc = "returned", ![a].err = "error"]
            /\ UNCHANGED availableToken
       ELSE /\ Goto(a, "register")
            /\ availableToken' = availableToken - 1
    /\ UNCHANGED <<invoker, window, ctx, server, stop, kind, bucketClosed, poller, envVars, wf>>

Register(a) ==
    /\ At(a, "register")
    /\ Goto(a, "signal")
    /\ doneChanMap' = [doneChanMap EXCEPT ![SessionOf[a]] = a]
    /\ UNCHANGED <<invoker, window, ctx, server, stop, kind, bucketVars, doneClosed, wf>>

\* Fault: the token is not returned when the signal fails.
SignalErrorPcEarly == "returned"
SignalErrorPc == "token"

\* The signal may arrive although its call fails.
SignalCreationResponse(a) ==
    /\ At(a, "signal")
    /\ LET s == SessionOf[a]
           signaled == [wf EXCEPT ![s] = IF @ = "creating" THEN "open" ELSE @]
           live == ctx[a].err = "none"
       IN  \/ live /\ Goto(a, "session") /\ wf' = signaled
           \/ /\ act' = [act EXCEPT ![a].pc = SignalErrorPc, ![a].err = "error"]
              /\ wf' \in {wf} \cup IF live THEN {signaled} ELSE {}
    /\ UNCHANGED <<invoker, window, ctx, server, stop, kind, bucketVars, envVars>>

CompleteSession(s) ==
    /\ doneClosed' = doneClosed \cup ({doneChanMap[s]} \ {None})
    /\ doneChanMap' = [doneChanMap EXCEPT ![s] = None]

\* ctx.Done() is selected.
SessionCanceled(a) ==
    /\ At(a, "session") /\ ctx[a].err # "none"
    /\ CompleteSession(SessionOf[a])
    /\ act' = [act EXCEPT ![a].pc = "token", ![a].err = IF cancelAllowed(a) THEN "canceled" ELSE "shutdown"]
    /\ UNCHANGED <<invoker, window, ctx, server, stop, kind, bucketVars, wf>>

SessionHeartbeat(a) ==
    /\ At(a, "session")
    /\ HeartbeatUnbatched(a)
    /\ UNCHANGED <<kind, bucketVars, envVars, wf>>

SessionDone(a) ==
    /\ At(a, "session") /\ a \in doneClosed
    /\ act' = [act EXCEPT ![a].pc = "token", ![a].err = "nil"]
    /\ UNCHANGED <<invoker, window, ctx, server, stop, kind, bucketVars, envVars, wf>>

\* The deferred AddSessionToken; it signals after it has unlocked.
addToken(a) ==
    /\ At(a, "token")
    /\ Goto(a, "signalToken")
    /\ availableToken' = availableToken + 1
    /\ UNCHANGED <<invoker, window, ctx, server, stop, kind, bucketClosed, poller, envVars, wf>>

SignalToken(a) ==
    /\ At(a, "signalToken")
    /\ Goto(a, "returned")
    /\ poller' = Woken
    /\ UNCHANGED <<invoker, window, ctx, server, stop, kind, availableToken, bucketClosed, envVars, wf>>

CreationActivity(a) ==
    \/ getToken(a) \/ Register(a) \/ SignalCreationResponse(a)
    \/ SessionCanceled(a) \/ SessionDone(a) \/ addToken(a) \/ SignalToken(a)

-----------------------------------------------------------------------------
(* The workflow.  A session is open once its signal is there; it has failed *)
(* when its creation activity fails for good.                              *)

Attempt(a, s) == SessionOf[a] = s /\ kind[a] \in {"create", "recreate"}

createSessionFails(s) ==
    /\ wf[s] \in {"creating", "open"}
    /\ \E a \in Acts :
          /\ Attempt(a, s)
          /\ \/ server[a].state = "gone"
             \/ server[a].state = "failed" /\ act[a].err = "shutdown"
             \/ server[a].state = "canceled" /\ wf[s] = "creating"
    /\ wf' = [wf EXCEPT ![s] = "failed"]
    /\ UNCHANGED <<actVars, kind, bucketVars, envVars>>

\* CompleteSession cancels the creation activity and schedules the completion
\* activity, which may time out before a worker has it.
WorkflowCompletes(s) ==
    /\ wf[s] = "open"
    /\ wf' = [wf EXCEPT ![s] = "completing"]
    /\ server' = [a \in Acts |-> IF Attempt(a, s) /\ Running(a)
                                 THEN [server[a] EXCEPT !.asked = TRUE] ELSE server[a]]
    /\ UNCHANGED <<act, invoker, window, ctx, stop, kind, bucketVars, envVars>>

sessionCompletionActivity(s) ==
    /\ wf[s] = "completing"
    /\ wf' = [wf EXCEPT ![s] = "closed"]
    /\ CompleteSession(s) \/ UNCHANGED envVars
    /\ UNCHANGED <<actVars, kind, bucketVars>>

-----------------------------------------------------------------------------
(* activityWorker.Stop and baseWorker.Stop.                                *)

BeginStop ==
    /\ stop = "running" /\ stop' = "begun"
    /\ UNCHANGED <<act, invoker, window, ctx, server, kind, bucketVars, envVars, wf>>

closeBucket ==
    /\ stop = "begun" /\ stop' = "broadcast"
    /\ bucketClosed' = TRUE
    /\ UNCHANGED <<act, invoker, window, ctx, server, kind, availableToken, poller, envVars, wf>>

\* Fault: only a token wakes the poller.
BroadcastNobody ==
    /\ stop = "broadcast" /\ stop' = "await"
    /\ UNCHANGED <<act, invoker, window, ctx, server, kind, bucketVars, envVars, wf>>

Broadcast ==
    /\ stop = "broadcast" /\ stop' = "await"
    /\ poller' = Woken
    /\ UNCHANGED <<act, invoker, window, ctx, server, kind, availableToken, bucketClosed, envVars, wf>>

\* The wait ends by itself or times out; backgroundContextCancel(ErrWorkerShutdown).
StopEnds ==
    /\ stop = "await" /\ stop' = "over"
    /\ ctx' = [a \in Acts |-> Cancel(ctx[a], "other")]
    /\ UNCHANGED <<act, invoker, window, server, kind, bucketVars, envVars, wf>>

Stop == closeBucket \/ Broadcast \/ StopEnds

-----------------------------------------------------------------------------
Init ==
    /\ ActInit
    /\ kind \in Workloads
    /\ availableToken = Size /\ bucketClosed = FALSE
    /\ poller = IF \E a \in Acts : kind[a] = "create" THEN "top" ELSE "exited"
    /\ doneChanMap = [s \in SessionIDs |-> None] /\ doneClosed = {}
    /\ wf = [s \in SessionIDs |-> "creating"]

Code(a) ==
    \/ CreationActivity(a)
    \/ UserCode(a) /\ UNCHANGED <<kind, bucketVars, envVars, wf>>

Handler(a) == (Finish(a) \/ Window(a)) /\ UNCHANGED <<kind, bucketVars, envVars, wf>>

Poller == waitForAvailableToken \/ PollerLoops \/ Poll

Next ==
    \/ Poller \/ BeginStop \/ Stop
    \/ \E a \in Acts :
          \/ PollOther(a) \/ Code(a) \/ SessionHeartbeat(a) \/ Handler(a)
          \/ a \in Disturbed /\ Outside(a) /\ UNCHANGED <<kind, bucketVars, envVars, wf>>
    \/ \E s \in SessionIDs : createSessionFails(s) \/ WorkflowCompletes(s) \/ sessionCompletionActivity(s)

Spec == Init /\ [][Next]_vars

\* The server no longer wants the session.
Unwanted(a) == server[a].asked \/ server[a].state = "gone"

\* Goroutines run; a session's ticker ticks, and not every heartbeat fails on its
\* way.
FairSpec ==
    /\ Spec
    /\ \A a \in Acts :
          /\ WF_vars(CreationActivity(a)) /\ WF_vars(Handler(a))
          /\ WF_vars(Unwanted(a) /\ SessionHeartbeat(a) /\ ctx'[a].err # "none")

-----------------------------------------------------------------------------
(* Properties.                                                             *)

HoldsToken(a) == act[a].pc \in {"register", "signal", "session", "token"}

\* Every token is in the bucket or with one creation activity, however that ends:
\* no token is lost when a session fails and none is returned twice.
TokensAreKept ==
    availableToken + Cardinality({a \in Acts : HoldsToken(a)}) = Size

\* The poller sleeps neither through a token nor through the worker's stop: when
\* there is one, or the bucket is closed, somebody is on the way to wake it
\* (waitForAvailableToken; addToken and close signal after they have unlocked).
PollerWakes ==
    poller = "parked" =>
        /\ availableToken > 0 => \E a \in Acts : At(a, "signalToken")
        /\ bucketClosed => stop = "broadcast"

\* A session that was completed, canceled or timed out ends
\* (sessionCreationActivity).
SessionsEnd ==
    \A a \in Acts : At(a, "session") /\ (Unwanted(a) \/ a \in doneClosed) ~> At(a, "done")
=============================================================================
