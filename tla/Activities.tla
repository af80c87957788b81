----------------------------- MODULE Activities -----------------------------
(***************************************************************************)
(* Activity tasks on one activity worker: activityTaskHandlerImpl.Execute  *)
(* with the temporalInvoker that sends the activity's heartbeats, and the  *)
(* answer that ProcessTask sends.                                          *)
(*                                                                         *)
(* A heartbeat that is sent opens a batching window with a goroutine; what *)
(* the activity reports in the meantime waits in `last'.  Heartbeat and    *)
(* Close hold the invoker's mutex through their call, so each is one step. *)
(* The n-th heartbeat of an activity has details n, and a window has the   *)
(* number of the heartbeat that opened it.                                 *)
(***************************************************************************)
EXTENDS Integers, FiniteSets

CONSTANTS
    Acts,               \* activity tasks: attempts of activities
    MaxBeats,           \* bound on the heartbeats of an activity
    None

ASSUME ActivitiesAssumption ==
    /\ MaxBeats \in Nat
    /\ None \notin Acts \cup 1..MaxBeats

VARIABLES
    act,        \* Execute and ProcessTask of each task
    invoker,    \* temporalInvoker of each task
    window,     \* the goroutines of its batching windows
    ctx,        \* the cause of canCtx, and the error of the activity's context below it
    server,     \* what the server knows of the task
    stop        \* progress of the worker's Stop
actVars == <<act, invoker, window, ctx, server, stop>>

Beats == 1..MaxBeats
Errors == {"nil", "error", "canceled", "pending", "panic"}

At(a, pc) == act[a].pc = pc
Goto(a, pc) == act' = [act EXCEPT ![a].pc = pc]

\* context.WithCancelCause: the first cause stays, and cancels the context below.
Cancel(c, cause) ==
    [cause |-> IF c.cause = "none" THEN cause ELSE c.cause,
     err   |-> IF c.err = "none" THEN "canceled" ELSE c.err]

-----------------------------------------------------------------------------
(* Heartbeats.                                                             *)

\* How a call ends: recorded; recorded, with the news that cancellation was
\* requested; anything that cancels the context for another reason (paused,
\* reset, not found, retries exhausted); the payload visitor failed; any
\* other error.  A call under a context that is over is not made.
Outcomes(a, over) ==
    {"visitor", "refused"}
    \cup IF over THEN {} ELSE {"other"} \cup
         IF server[a].state # "open" THEN {} ELSE IF server[a].asked THEN {"canceled"} ELSE {"ok"}

\* internalHeartBeat: what it does to the server and to the context.  When the
\* visitor fails the task is answered at once, if that call succeeds.
Recorded(a, details, outcome) ==
    \E answered \in {FALSE, outcome = "visitor"} :
       server' = [server EXCEPT ![a].tried = @ \cup details,
                                ![a].state = IF answered /\ @ = "open" THEN "failed" ELSE @]

\* Fault: only a request for cancellation ends the context.
internalHeartBeatIfAsked(a, details, outcome) ==
    /\ Recorded(a, details, outcome)
    /\ ctx' = IF outcome # "canceled" THEN ctx
              ELSE [ctx EXCEPT ![a] = Cancel(@, outcome)]

internalHeartBeat(a, details, outcome) ==
    /\ Recorded(a, details, outcome)
    /\ ctx' = IF outcome \in {"ok", "refused"} THEN ctx
              ELSE [ctx EXCEPT ![a] = Cancel(@, outcome)]

\* err == nil || isActivityCanceled; of a visitor's error, if it has a code that is
\* retried, as an error without a code has.
OpensWindow(outcome) ==
    CASE outcome = "refused" -> {FALSE}
      [] outcome = "visitor" -> BOOLEAN
      [] OTHER               -> {TRUE}

Waiting == [pc |-> "waiting", details |-> None]

\* Heartbeat(ctx, n, false).  w is what the goroutines are but for the new one.
Heartbeat(a, n, w) ==
    IF invoker[a].window # None
    THEN /\ invoker' = [invoker EXCEPT ![a].last = n]
         /\ window' = [window EXCEPT ![a] = w]
         /\ UNCHANGED <<ctx, server>>
    ELSE \E outcome \in Outcomes(a, ctx[a].err # "none") :
         /\ internalHeartBeat(a, {n}, outcome)
         /\ \E opens \in OpensWindow(outcome) :
               IF opens
               THEN /\ invoker' = [invoker EXCEPT ![a].window = n, ![a].last = None]
                    /\ window' = [window EXCEPT ![a] = [w EXCEPT ![n] = Waiting]]
               ELSE /\ window' = [window EXCEPT ![a] = w]
                    /\ UNCHANGED invoker

\* RecordHeartbeat in the activity's code.  raced is history: a window's goroutine
\* had details in hand, outside the mutex.
RecordHeartbeat(a) ==
    /\ At(a, "body") /\ act[a].beats < MaxBeats
    /\ act' = [act EXCEPT ![a].beats = @ + 1,
                          ![a].raced = @ \/ \E n \in Beats : window[a][n].pc = "report"]
    /\ Heartbeat(a, act[a].beats + 1, window[a])
    /\ UNCHANGED stop

\* Heartbeat(ctx, nil, true): neither reads nor opens a window, and has no payload
\* to visit.
HeartbeatUnbatched(a) ==
    /\ \E outcome \in Outcomes(a, ctx[a].err # "none") \ {"visitor"} : internalHeartBeat(a, {}, outcome)
    /\ UNCHANGED <<act, invoker, window, stop>>

\* The goroutine of a window: the timer has fired or the worker stops.
WindowEnds(a, n) ==
    /\ window[a][n].pc = "waiting"
    /\ window' = [window EXCEPT ![a][n] =
                    IF invoker[a].last = None THEN [pc |-> "over", details |-> None]
                    ELSE [pc |-> "report", details |-> invoker[a].last]]
    /\ invoker' = [invoker EXCEPT ![a].window = None]
    /\ UNCHANGED <<act, ctx, server, stop>>

\* It calls Heartbeat again with the mutex released in between.
WindowReports(a, n) ==
    /\ window[a][n].pc = "report"
    /\ Heartbeat(a, window[a][n].details, [window[a] EXCEPT ![n] = [pc |-> "over", details |-> None]])
    /\ UNCHANGED <<act, stop>>

\* It finds closeCh closed.
WindowClosed(a, n) ==
    /\ window[a][n].pc = "waiting" /\ invoker[a].closed
    /\ window' = [window EXCEPT ![a][n].pc = "over"]
    /\ UNCHANGED <<act, invoker, ctx, server, stop>>

Window(a) == \E n \in Beats : WindowEnds(a, n) \/ WindowReports(a, n) \/ WindowClosed(a, n)

-----------------------------------------------------------------------------
(* Execute and ProcessTask.                                                *)

\* Up to the call of the implementation.  ProcessTask may find the worker stopping.
\* The inbound visitor fails with an answer, a context that cannot be built without
\* one; so do, with an invoker already there, an activity that is not registered
\* and headers that cannot be read.
Start(a, body) ==
    /\ At(a, "idle")
    /\ \/ Goto(a, body)
       \/ stop # "running" /\ Goto(a, "done")
       \/ \E pc \in {"close", "respond"}, r \in {"failed", "none"} :
             act' = [act EXCEPT ![a].pc = pc, ![a].response = r]
    /\ UNCHANGED <<invoker, window, ctx, server, stop>>

\* The activity's code returns or panics; the panic handler has the response at
\* once, and the deferred dlCancelFunc has run.
Return(a, err) ==
    /\ At(a, "body")
    /\ IF err = "panic"
       THEN /\ act' = [act EXCEPT ![a].pc = "close", ![a].response = "failed"]
            /\ ctx' = [ctx EXCEPT ![a].err = IF @ = "none" THEN "canceled" ELSE @]
       ELSE /\ act' = [act EXCEPT ![a].pc = "returned", ![a].err = err]
            /\ UNCHANGED ctx
    /\ UNCHANGED <<invoker, window, server, stop>>

\* Fault: any cancellation lets the activity answer that it was canceled.
cancelAllowedAlways(a) == ctx[a].err = "canceled"

\* ctx.Err() == context.Canceled && IsCanceledError(context.Cause(ctx))
cancelAllowed(a) == ctx[a].err = "canceled" /\ ctx[a].cause = "canceled"

convertActivityResultToRespondRequest(a) ==
    CASE act[a].err = "pending" -> "pending"
      [] act[a].err = "nil" -> "completed"
      [] act[a].err = "canceled" /\ cancelAllowed(a) -> "canceled"
      [] OTHER -> "failed"

\* After the implementation has returned.  A failed heartbeat visitor has answered
\* already, and after the deadline nobody waits; the outbound visitor turns a
\* response into a failure.
Conclude(a) ==
    /\ At(a, "returned")
    /\ \E r \in IF ctx[a].cause = "visitor" \/ ctx[a].err = "deadline" THEN {"none"}
                ELSE IF act[a].err = "pending" THEN {"pending"}
                ELSE {convertActivityResultToRespondRequest(a), "failed"} :
          act' = [act EXCEPT ![a].pc = "close", ![a].response = r]
    /\ ctx' = [ctx EXCEPT ![a].err = IF @ = "none" THEN "canceled" ELSE @]
    /\ UNCHANGED <<invoker, window, server, stop>>

\* Fault: nothing is flushed.
FlushNever(a) == FALSE

Flush(a) == act[a].response # "completed" /\ invoker[a].last # None

\* What Execute deferred: Close, whose context is not the one with the deadline, and
\* cancel(nil), after which only matters that the context is over.
Close(a) ==
    /\ At(a, "close")
    /\ Goto(a, "respond")
    /\ IF invoker[a].window # None /\ Flush(a)
       THEN /\ \E outcome \in Outcomes(a, ctx[a].cause # "none") :
                  Recorded(a, {invoker[a].last}, outcome)
            /\ invoker' = [invoker EXCEPT ![a].closed = TRUE, ![a].last = None]
       ELSE /\ invoker' = [invoker EXCEPT ![a].closed = TRUE]
            /\ UNCHANGED server
    /\ ctx' = [ctx EXCEPT ![a] = [cause |-> "other", err |-> "canceled"]]
    /\ UNCHANGED <<window, stop>>

\* reportActivityComplete; its call may fail.
Respond(a) ==
    /\ At(a, "respond")
    /\ Goto(a, "done")
    /\ \/ /\ server[a].state = "open" /\ act[a].response \notin {"none", "pending"}
          /\ server' = [server EXCEPT ![a].state = act[a].response]
       \/ UNCHANGED server
    /\ UNCHANGED <<invoker, window, ctx, stop>>

Finish(a) == Conclude(a) \/ Close(a) \/ Respond(a)

-----------------------------------------------------------------------------
(* From outside.                                                           *)

Running(a) == act[a].pc \notin {"idle", "respond", "done"}

\* The server is asked to cancel the activity.
CancelRequested(a) ==
    /\ Running(a) /\ ~server[a].asked
    /\ server' = [server EXCEPT ![a].asked = TRUE]
    /\ UNCHANGED <<act, invoker, window, ctx, stop>>

\* It may say so with a worker command (activityCancellationCallbacks).
WorkerCommand(a) ==
    /\ Running(a) /\ server[a].asked /\ ctx[a].cause = "none"
    /\ ctx' = [ctx EXCEPT ![a] = Cancel(@, "canceled")]
    /\ UNCHANGED <<act, invoker, window, server, stop>>

\* The server gives the task up: a timeout, or the workflow has closed.
TaskGone(a) ==
    /\ Running(a) /\ server[a].state = "open"
    /\ server' = [server EXCEPT ![a].state = "gone"]
    /\ UNCHANGED <<act, invoker, window, ctx, stop>>

DeadlineExceeded(a) ==
    /\ Running(a) /\ ctx[a].err = "none"
    /\ ctx' = [ctx EXCEPT ![a].err = "deadline"]
    /\ UNCHANGED <<act, invoker, window, server, stop>>

Outside(a) == CancelRequested(a) \/ WorkerCommand(a) \/ TaskGone(a) \/ DeadlineExceeded(a)

\* The activity's code, for an activity that is not the SDK's own.
UserCode(a) == RecordHeartbeat(a) \/ \E err \in Errors : Return(a, err)

ActInit ==
    /\ act = [a \in Acts |-> [pc |-> "idle", err |-> "nil", response |-> "none",
                           beats |-> 0, raced |-> FALSE]]
    /\ invoker = [a \in Acts |-> [window |-> None, last |-> None, closed |-> FALSE]]
    /\ window = [a \in Acts |-> [n \in Beats |-> [pc |-> "over", details |-> None]]]
    /\ ctx = [a \in Acts |-> [cause |-> "none", err |-> "none"]]
    /\ server = [a \in Acts |-> [asked |-> FALSE, state |-> "open", tried |-> {}]]
    /\ stop = "running"

-----------------------------------------------------------------------------
(* Properties.                                                             *)

\* What the activity reported last is not forgotten: it has been handed to
\* internalHeartBeat, or it waits in a window whose goroutine will see it, or a
\* goroutine has it in hand, or the activity completed and nobody needs it
\* (Heartbeat, Close).  An activity that reported while a goroutine had details in
\* hand may lose progress, as Heartbeat's comment says.
ProgressIsKept ==
    \A a \in Acts :
        LET latest == act[a].beats
        IN  \/ latest = 0 \/ act[a].raced \/ latest \in server[a].tried
            \/ \E n \in Beats : window[a][n] = [pc |-> "report", details |-> latest]
            \/ /\ invoker[a].last = latest
               /\ invoker[a].window \in Beats /\ window[a][invoker[a].window].pc = "waiting"
               /\ ~invoker[a].closed
            \/ invoker[a].closed /\ act[a].response = "completed"

\* An activity is answered as canceled only if the server asked for that: a
\* shutdown, a pause, a reset, or an activity that invents its cancellation is a
\* failure, which is retried (convertActivityResultToRespondRequest).
CanceledOnlyIfAsked ==
    \A a \in Acts : act[a].response = "canceled" => server[a].asked
=============================================================================
