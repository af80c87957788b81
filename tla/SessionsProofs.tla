--------------------------- MODULE SessionsProofs ---------------------------
(***************************************************************************)
(* Proofs about Activities and Sessions, for any number of tasks, sessions, *)
(* tokens and heartbeats: a heartbeat's progress is not forgotten, a task  *)
(* is answered as canceled only if that was asked, no token of the bucket  *)
(* is lost or returned twice, and the poller is always woken.              *)
(***************************************************************************)
EXTENDS Sessions, TLAPS

-----------------------------------------------------------------------------
(* Types.                                                                  *)

Pcs == {"idle", "body", "create", "register", "signal", "session", "token", "signalToken",
        "returned", "close", "respond", "done"}
ActType ==
    [pc : Pcs, err : Errors \cup {"shutdown"},
     response : {"none", "failed", "pending", "completed", "canceled"},
     beats : 0..MaxBeats, raced : BOOLEAN]
InvokerType == [window : Beats \cup {None}, last : Beats \cup {None}, closed : BOOLEAN]
EntryType == [pc : {"over", "waiting"}, details : {None}] \cup [pc : {"report"}, details : Beats]
CtxType ==
    [cause : {"none", "canceled", "other", "visitor"}, err : {"none", "canceled", "deadline"}]
ServerType ==
    [asked : BOOLEAN, state : {"open", "failed", "gone", "completed", "canceled"},
     tried : SUBSET Beats]

ActOK == act \in [Acts -> ActType]
InvokerOK == invoker \in [Acts -> InvokerType]
WindowOK == window \in [Acts -> [Beats -> EntryType]]
CtxOK == ctx \in [Acts -> CtxType]
ServerOK == server \in [Acts -> ServerType]
Typing == ActOK /\ InvokerOK /\ WindowOK /\ CtxOK /\ ServerOK

-----------------------------------------------------------------------------
(* The kinds of step, as the tasks see them.                               *)

\* A step that leaves every task as it was.
Elsewhere == UNCHANGED <<act, invoker, window, ctx, server>>

\* A step of task a's own code that neither sends a heartbeat nor concludes.
Moves(a) ==
    /\ \E r \in ActType :
          /\ act' = [act EXCEPT ![a] = r]
          /\ r.beats = act[a].beats /\ r.raced = act[a].raced
          /\ r.response = act[a].response \/ r.response \in {"none", "failed"}
    /\ act[a].pc \notin {"respond", "done"}
    /\ UNCHANGED <<invoker, window, ctx, server>>

\* The server is told that the tasks of a session are to be canceled.
Asks ==
    /\ \E S \in SUBSET Acts :
          server' = [a \in Acts |->
                       IF a \in S THEN [server[a] EXCEPT !.asked = TRUE] ELSE server[a]]
    /\ UNCHANGED <<act, invoker, window, ctx>>

LEMMA GotoMoves ==
  ASSUME ActOK, NEW a \in Acts, act[a].pc \notin {"respond", "done"}, NEW pc \in Pcs, Goto(a, pc),
         UNCHANGED <<invoker, window, ctx, server>>
  PROVE  Moves(a)
<1>1. [act[a] EXCEPT !.pc = pc] \in ActType /\ act' = [act EXCEPT ![a] = [act[a] EXCEPT !.pc = pc]]
  BY DEF ActOK, ActType, Goto
<1>. QED BY Zenon, <1>1 DEF Moves, ActOK, ActType

LEMMA GotoWithError ==
  ASSUME ActOK, NEW a \in Acts, act[a].pc \notin {"respond", "done"}, NEW pc \in Pcs,
         NEW err \in Errors \cup {"shutdown"},
         act' = [act EXCEPT ![a].pc = pc, ![a].err = err],
         UNCHANGED <<invoker, window, ctx, server>>
  PROVE  Moves(a)
<1>. DEFINE r == [act[a] EXCEPT !.pc = pc, !.err = err]
<1>1. r \in ActType /\ act' = [act EXCEPT ![a] = r]
  BY Zenon DEF ActOK, ActType
<1>. QED BY Zenon, <1>1 DEF Moves, ActOK, ActType

LEMMA StartMoves ==
  ASSUME ActOK, NEW a \in Acts, NEW body \in {"create", "body"}, Start(a, body)
  PROVE  Moves(a)
<1>1. CASE Goto(a, body) \/ Goto(a, "done")
  BY <1>1, GotoMoves DEF Start, At, Pcs
<1>2. ASSUME NEW pc \in {"close", "respond"}, NEW s \in {"failed", "none"},
             act' = [act EXCEPT ![a].pc = pc, ![a].response = s]
      PROVE  Moves(a)
  <2>. DEFINE r == [act[a] EXCEPT !.pc = pc, !.response = s]
  <2>1. r \in ActType /\ act' = [act EXCEPT ![a] = r]
    BY Zenon, <1>2 DEF ActOK, ActType, Pcs
  <2>. QED BY Zenon, <2>1 DEF Start, At, Moves, ActOK, ActType
<1>. QED BY <1>1, <1>2 DEF Start

LEMMA CreationMoves ==
  ASSUME ActOK, NEW a \in Acts, CreationActivity(a)
  PROVE  Moves(a)
<1>1. act[a].pc \notin {"respond", "done"} /\ UNCHANGED <<invoker, window, ctx, server>>
  BY DEF CreationActivity, getToken, Register, SignalCreationResponse, SessionCanceled, SessionDone,
     addToken, SignalToken, At
<1>2. \/ \E pc \in Pcs : Goto(a, pc)
      \/ \E pc \in Pcs, err \in Errors \cup {"shutdown"} :
            act' = [act EXCEPT ![a].pc = pc, ![a].err = err]
  <2>1. CASE getToken(a) \/ Register(a) \/ addToken(a) \/ SignalToken(a)
    BY Zenon, <2>1 DEF getToken, Register, addToken, SignalToken, Pcs, Errors
  <2>2. CASE SignalCreationResponse(a)
    BY Zenon, <2>2 DEF SignalCreationResponse, SignalErrorPc, Pcs, Errors
  <2>3. CASE SessionCanceled(a) \/ SessionDone(a)
    BY Zenon, <2>3 DEF SessionCanceled, SessionDone, Pcs, Errors
  <2>. QED BY Zenon, <2>1, <2>2, <2>3 DEF CreationActivity
<1>. QED BY Zenon, <1>1, <1>2, GotoMoves, GotoWithError

\* Every step is of one of these kinds.
StepKinds ==
    \/ Elsewhere \/ Asks \/ StopEnds
    \/ \E a \in Acts :
          \/ Moves(a) \/ UserCode(a) \/ Finish(a) \/ Window(a) \/ HeartbeatUnbatched(a)
          \/ Outside(a)

LEMMA StepIsOfAKind == ActOK /\ [Next]_vars => StepKinds
<1>. SUFFICES ASSUME ActOK, [Next]_vars PROVE StepKinds
  OBVIOUS
<1>1. CASE Poller
  <2>1. ASSUME NEW a \in Acts, Start(a, "create") PROVE StepKinds
    BY <2>1, StartMoves DEF StepKinds
  <2>2. Elsewhere \/ \E a \in Acts : Start(a, "create")
    BY Zenon, <1>1 DEF Poller, waitForAvailableToken, PollerLoops, Poll, Elsewhere, actVars
  <2>. QED BY <2>1, <2>2 DEF StepKinds
<1>2. CASE BeginStop \/ closeBucket \/ Broadcast \/ UNCHANGED vars
  <2>1. Elsewhere
    BY Zenon, <1>2 DEF BeginStop, closeBucket, Broadcast, vars, actVars, Elsewhere
  <2>. QED BY <2>1 DEF StepKinds
<1>3. ASSUME NEW a \in Acts, PollOther(a) PROVE StepKinds
  BY <1>3, StartMoves DEF StepKinds, PollOther
<1>4. ASSUME NEW a \in Acts, Code(a) \/ SessionHeartbeat(a) \/ Handler(a) PROVE StepKinds
  BY <1>4, CreationMoves DEF StepKinds, Code, SessionHeartbeat, Handler
<1>5. ASSUME NEW a \in Acts, Outside(a) PROVE StepKinds
  BY <1>5 DEF StepKinds
<1>6. ASSUME NEW s \in SessionIDs, createSessionFails(s) \/ sessionCompletionActivity(s)
      PROVE  StepKinds
  <2>1. Elsewhere
    BY Zenon, <1>6 DEF createSessionFails, sessionCompletionActivity, actVars, Elsewhere
  <2>. QED BY <2>1 DEF StepKinds
<1>7. ASSUME NEW s \in SessionIDs, WorkflowCompletes(s) PROVE StepKinds
  <2>1. server' = [a \in Acts |-> IF a \in {b \in Acts : Attempt(b, s) /\ Running(b)}
                                  THEN [server[a] EXCEPT !.asked = TRUE] ELSE server[a]]
    BY <1>7 DEF WorkflowCompletes
  <2>2. Asks
    BY Zenon, <1>7, <2>1 DEF WorkflowCompletes, Asks
  <2>. QED BY <2>2 DEF StepKinds
<1>. QED
  BY <1>1, <1>2, <1>3, <1>4, <1>5, <1>6, <1>7 DEF Next, Stop, StepKinds

\* internalHeartBeat, Heartbeat and Close respect the types.
LEMMA RecordedType ==
  ASSUME ServerOK, NEW a \in Acts, NEW details \in SUBSET Beats, NEW outcome,
         Recorded(a, details, outcome)
  PROVE  /\ ServerOK'
         /\ \A b \in Acts : server'[b].asked = server[b].asked
         /\ \A b \in Acts \ {a} : server'[b] = server[b]
         /\ server'[a].tried = server[a].tried \cup details
<1>1. PICK answered \in {FALSE, outcome = "visitor"} :
         server' = [server EXCEPT ![a].tried = @ \cup details,
                                  ![a].state = IF answered /\ @ = "open" THEN "failed" ELSE @]
  BY Zenon DEF Recorded
<1>. DEFINE s == IF answered /\ server[a].state = "open" THEN "failed" ELSE server[a].state
            r == [server[a] EXCEPT !.tried = server[a].tried \cup details, !.state = s]
<1>2. server[a] \in ServerType
  BY DEF ServerOK
<1>3. r \in ServerType /\ r.asked = server[a].asked /\ r.tried = server[a].tried \cup details
  BY Zenon, <1>2 DEF ServerType
<1>4. server' = [server EXCEPT ![a] = r]
  BY Zenon, <1>1 DEF ServerOK, ServerType
<1>. QED BY <1>3, <1>4 DEF ServerOK

LEMMA CancelType ==
  ASSUME NEW c \in CtxType, NEW cause \in {"canceled", "other", "visitor"}
  PROVE  Cancel(c, cause) \in CtxType
  BY DEF CtxType, Cancel

LEMMA InternalHeartBeatType ==
  ASSUME Typing, NEW a \in Acts, NEW details \in SUBSET Beats, NEW over,
         NEW outcome \in Outcomes(a, over), internalHeartBeat(a, details, outcome)
  PROVE  ServerOK' /\ CtxOK'
<1>1. ServerOK'
  BY RecordedType DEF internalHeartBeat, Typing
<1>2. CASE outcome \in {"ok", "refused"}
  BY <1>1, <1>2 DEF internalHeartBeat, Typing, CtxOK
<1>3. CASE outcome \in {"canceled", "other", "visitor"}
  <2>1. ctx' = [ctx EXCEPT ![a] = Cancel(ctx[a], outcome)]
    BY <1>3 DEF internalHeartBeat
  <2>2. Cancel(ctx[a], outcome) \in CtxType
    BY <1>3, CancelType DEF Typing, CtxOK
  <2>. QED BY <1>1, <2>1, <2>2 DEF Typing, CtxOK
<1>4. outcome \in {"ok", "refused", "canceled", "other", "visitor"}
  BY DEF Outcomes
<1>. QED BY <1>2, <1>3, <1>4

LEMMA HeartbeatType ==
  ASSUME Typing, NEW a \in Acts, NEW n \in Beats, NEW w \in [Beats -> EntryType], Heartbeat(a, n, w)
  PROVE  InvokerOK' /\ WindowOK' /\ CtxOK' /\ ServerOK'
<1>1. CASE invoker[a].window # None
  <2>1. InvokerOK'
    BY <1>1 DEF Heartbeat, Typing, InvokerOK, InvokerType
  <2>2. WindowOK'
    BY <1>1 DEF Heartbeat, Typing, WindowOK
  <2>. QED BY <1>1, <2>1, <2>2 DEF Heartbeat, Typing, CtxOK, ServerOK
<1>2. CASE invoker[a].window = None
  <2>1. PICK outcome \in Outcomes(a, ctx[a].err # "none") :
           /\ internalHeartBeat(a, {n}, outcome)
           /\ \E opens \in OpensWindow(outcome) :
                 IF opens
                 THEN /\ invoker' = [invoker EXCEPT ![a].window = n, ![a].last = None]
                      /\ window' = [window EXCEPT ![a] = [w EXCEPT ![n] = Waiting]]
                 ELSE /\ window' = [window EXCEPT ![a] = w]
                      /\ UNCHANGED invoker
    BY Zenon, <1>2 DEF Heartbeat
  <2>2. CtxOK' /\ ServerOK'
    BY <2>1, InternalHeartBeatType
  <2>3. [w EXCEPT ![n] = Waiting] \in [Beats -> EntryType]
    BY DEF Waiting, EntryType
  <2>4. WindowOK'
    BY Zenon, <2>1, <2>3 DEF Typing, WindowOK
  <2>5. InvokerOK'
    BY <2>1 DEF Typing, InvokerOK, InvokerType
  <2>. QED BY <2>2, <2>4, <2>5
<1>. QED BY <1>1, <1>2

LEMMA WindowType ==
  ASSUME Typing, NEW a \in Acts, Window(a)
  PROVE  Typing'
<1>1. PICK n \in Beats : WindowEnds(a, n) \/ WindowReports(a, n) \/ WindowClosed(a, n)
  BY DEF Window
<1>2. window[a] \in [Beats -> EntryType] /\ invoker[a] \in InvokerType
  BY DEF Typing, WindowOK, InvokerOK
<1>3. CASE WindowEnds(a, n)
  <2>. DEFINE e == IF invoker[a].last = None THEN [pc |-> "over", details |-> None]
                   ELSE [pc |-> "report", details |-> invoker[a].last]
  <2>1. e \in EntryType
    BY <1>2 DEF EntryType, InvokerType
  <2>2. WindowOK'
    BY <1>2, <1>3, <2>1 DEF WindowEnds, Typing, WindowOK
  <2>3. InvokerOK'
    BY <1>3 DEF WindowEnds, Typing, InvokerOK, InvokerType
  <2>. QED BY <1>3, <2>2, <2>3 DEF WindowEnds, Typing, ActOK, CtxOK, ServerOK
<1>4. CASE WindowReports(a, n)
  <2>1. window[a][n].details \in Beats
    BY <1>2, <1>4 DEF WindowReports, EntryType
  <2>2. [window[a] EXCEPT ![n] = [pc |-> "over", details |-> None]] \in [Beats -> EntryType]
    BY <1>2 DEF EntryType
  <2>. QED BY <1>4, <2>1, <2>2, HeartbeatType DEF WindowReports, Typing, ActOK
<1>5. CASE WindowClosed(a, n)
  <2>1. [window[a][n] EXCEPT !.pc = "over"] \in EntryType
    BY <1>2, <1>5 DEF WindowClosed, EntryType
  <2>2. window' = [window EXCEPT ![a] =
                     [window[a] EXCEPT ![n] = [window[a][n] EXCEPT !.pc = "over"]]]
    BY Zenon, <1>5 DEF WindowClosed
  <2>3. WindowOK'
    BY <1>2, <2>1, <2>2 DEF Typing, WindowOK
  <2>. QED BY <1>5, <2>3 DEF WindowClosed, Typing, ActOK, InvokerOK, CtxOK, ServerOK
<1>. QED BY <1>1, <1>3, <1>4, <1>5

LEMMA UserCodeType ==
  ASSUME Typing, NEW a \in Acts, UserCode(a)
  PROVE  Typing'
<1>1. CASE RecordHeartbeat(a)
  <2>1. act[a].beats + 1 \in Beats /\ window[a] \in [Beats -> EntryType]
    BY <1>1, ActivitiesAssumption
       DEF RecordHeartbeat, Beats, Typing, ActOK, ActType, WindowOK
  <2>2. \E t \in BOOLEAN :
           act' = [act EXCEPT ![a] = [act[a] EXCEPT !.beats = act[a].beats + 1, !.raced = t]]
    BY Zenon, <1>1 DEF RecordHeartbeat, Typing, ActOK, ActType
  <2>3. act[a].beats + 1 \in 0..MaxBeats
    BY <2>1, ActivitiesAssumption DEF Beats
  <2>4. \A t \in BOOLEAN : [act[a] EXCEPT !.beats = act[a].beats + 1, !.raced = t] \in ActType
    BY Zenon, <2>3 DEF Typing, ActOK, ActType
  <2>5. ActOK'
    BY Zenon, <2>2, <2>4 DEF Typing, ActOK
  <2>. QED BY <1>1, <2>1, <2>5, HeartbeatType DEF RecordHeartbeat, Typing
<1>2. ASSUME NEW err \in Errors, Return(a, err) PROVE Typing'
  <2>1. ActOK'
    BY <1>2 DEF Return, Typing, ActOK, ActType, Pcs
  <2>2. CtxOK'
    BY <1>2 DEF Return, Typing, CtxOK, CtxType
  <2>. QED BY <1>2, <2>1, <2>2 DEF Return, Typing, InvokerOK, WindowOK, ServerOK
<1>. QED BY <1>1, <1>2 DEF UserCode

LEMMA FinishType ==
  ASSUME Typing, NEW a \in Acts, Finish(a)
  PROVE  Typing'
<1>1. CASE Conclude(a)
  <2>1. PICK r \in {"none", "failed", "pending", "completed", "canceled"} :
           act' = [act EXCEPT ![a].pc = "close", ![a].response = r]
    BY Zenon, <1>1 DEF Conclude, convertActivityResultToRespondRequest
  <2>3. ActOK'
    <3>. DEFINE q == [act[a] EXCEPT !.pc = "close", !.response = r]
    <3>1. q \in ActType
      BY Zenon DEF Typing, ActOK, ActType, Pcs
    <3>2. act' = [act EXCEPT ![a] = q]
      BY Zenon, <2>1 DEF Typing, ActOK, ActType
    <3>. QED BY <3>1, <3>2 DEF Typing, ActOK
  <2>2. CtxOK'
    BY <1>1 DEF Conclude, Typing, CtxOK, CtxType
  <2>. QED BY <1>1, <2>2, <2>3 DEF Conclude, Typing, InvokerOK, WindowOK, ServerOK
<1>2. CASE Close(a)
  <2>1. ActOK'
    BY <1>2 DEF Close, Goto, Typing, ActOK, ActType, Pcs
  <2>2. CtxOK'
    BY <1>2 DEF Close, Typing, CtxOK, CtxType
  <2>3. InvokerOK'
    BY ZenonT(40), <1>2 DEF Close, Typing, InvokerOK, InvokerType
  <2>4. ServerOK'
    <3>1. CASE UNCHANGED server
      BY <3>1 DEF Typing, ServerOK
    <3>2. ASSUME invoker[a].last # None, NEW outcome, Recorded(a, {invoker[a].last}, outcome)
          PROVE  ServerOK'
      <4>1. {invoker[a].last} \in SUBSET Beats
        BY <3>2 DEF Typing, InvokerOK, InvokerType
      <4>. QED BY <3>2, <4>1, RecordedType DEF Typing
    <3>. QED BY <1>2, <3>1, <3>2 DEF Close, Flush
  <2>. QED BY <1>2, <2>1, <2>2, <2>3, <2>4 DEF Close, Typing, WindowOK
<1>3. CASE Respond(a)
  <2>1. ActOK'
    BY <1>3 DEF Respond, Goto, Typing, ActOK, ActType, Pcs
  <2>2. ServerOK'
    BY <1>3 DEF Respond, Typing, ActOK, ActType, ServerOK, ServerType
  <2>. QED BY <1>3, <2>1, <2>2 DEF Respond, Typing, InvokerOK, WindowOK, CtxOK
<1>. QED BY <1>1, <1>2, <1>3 DEF Finish

LEMMA OutsideType ==
  ASSUME Typing, NEW a \in Acts, Outside(a)
  PROVE  Typing'
<1>1. ServerOK'
  BY Zenon
     DEF Outside, CancelRequested, WorkerCommand, TaskGone, DeadlineExceeded, Typing, ServerOK,
     ServerType
<1>2. CtxOK'
  <2>1. CASE WorkerCommand(a)
    BY <2>1, CancelType DEF WorkerCommand, Typing, CtxOK
  <2>2. CASE ~WorkerCommand(a)
    BY <2>2 DEF Outside, CancelRequested, TaskGone, DeadlineExceeded, Typing, CtxOK, CtxType
  <2>. QED BY <2>1, <2>2
<1>3. UNCHANGED <<act, invoker, window>>
  BY Zenon DEF Outside, CancelRequested, WorkerCommand, TaskGone, DeadlineExceeded
<1>. QED BY <1>1, <1>2, <1>3 DEF Typing, ActOK, InvokerOK, WindowOK

LEMMA TypingInit == Init => Typing
<1>. SUFFICES ASSUME ActInit PROVE Typing
  BY DEF Init
<1>1. ActOK /\ InvokerOK
  BY ActivitiesAssumption
     DEF ActInit, ActOK, ActType, Pcs, Errors, InvokerOK, InvokerType
<1>2. WindowOK /\ CtxOK /\ ServerOK
  BY DEF ActInit, WindowOK, EntryType, CtxOK, CtxType, ServerOK, ServerType
<1>. QED BY <1>1, <1>2 DEF Typing

LEMMA TypingStep == Typing /\ [Next]_vars => Typing'
<1>. SUFFICES ASSUME Typing, StepKinds PROVE Typing'
  BY StepIsOfAKind DEF Typing
<1>1. CASE Elsewhere
  BY <1>1 DEF Elsewhere, Typing, ActOK, InvokerOK, WindowOK, CtxOK, ServerOK
<1>2. CASE Asks
  <2>1. \A r \in ServerType : [r EXCEPT !.asked = TRUE] \in ServerType
    BY Zenon DEF ServerType
  <2>2. ServerOK'
    BY <1>2, <2>1 DEF Asks, Typing, ServerOK
  <2>. QED BY <1>2, <2>2 DEF Asks, Typing, ActOK, InvokerOK, WindowOK, CtxOK
<1>3. CASE StopEnds
  <2>1. CtxOK'
    BY <1>3, CancelType DEF StopEnds, Typing, CtxOK
  <2>. QED BY <1>3, <2>1 DEF StopEnds, Typing, ActOK, InvokerOK, WindowOK, ServerOK
<1>4. ASSUME NEW a \in Acts, Moves(a) PROVE Typing'
  BY <1>4 DEF Moves, Typing, ActOK, InvokerOK, WindowOK, CtxOK, ServerOK
<1>5. ASSUME NEW a \in Acts, HeartbeatUnbatched(a) PROVE Typing'
  <2>1. ServerOK' /\ CtxOK'
    BY <1>5, InternalHeartBeatType DEF HeartbeatUnbatched
  <2>. QED BY <1>5, <2>1 DEF HeartbeatUnbatched, Typing, ActOK, InvokerOK, WindowOK
<1>. QED
  BY <1>1, <1>2, <1>3, <1>4, <1>5, UserCodeType, FinishType, WindowType, OutsideType DEF StepKinds

-----------------------------------------------------------------------------
(* A task is answered as canceled only if that was asked.  The invariant   *)
(* adds that the context has that cause only if it was asked.              *)

Asked ==
    \A a \in Acts : act[a].response = "canceled" \/ ctx[a].cause = "canceled" => server[a].asked

\* No step withdraws the request, or invents the cause or the response.
ServerAsked(b) ==
    /\ server[b].asked => server'[b].asked
    /\ ctx'[b].cause = "canceled" => ctx[b].cause = "canceled" \/ server[b].asked
NothingInvented(b) ==
    /\ ServerAsked(b)
    /\ act'[b].response = "canceled" => act[b].response = "canceled" \/ ctx[b].cause = "canceled"

LEMMA CallAsked ==
  ASSUME Typing, NEW a \in Acts, NEW details \in SUBSET Beats, NEW over,
         NEW outcome \in Outcomes(a, over), internalHeartBeat(a, details, outcome)
  PROVE  \A b \in Acts : ServerAsked(b)
<1>1. \A b \in Acts : server'[b].asked = server[b].asked
  BY RecordedType DEF internalHeartBeat, Typing
<1>2. outcome = "canceled" => server[a].asked
  BY DEF Outcomes
<1>3. CASE outcome \in {"ok", "refused"}
  BY <1>1, <1>3 DEF internalHeartBeat, ServerAsked
<1>4. CASE outcome \notin {"ok", "refused"}
  <2>1. ctx' = [ctx EXCEPT ![a] = Cancel(ctx[a], outcome)]
    BY <1>4 DEF internalHeartBeat
  <2>2. \A b \in Acts : ctx'[b].cause = ctx[b].cause \/ (b = a /\ ctx'[b].cause = outcome)
    BY <2>1 DEF Typing, CtxOK, Cancel
  <2>. QED BY <1>1, <1>2, <2>2 DEF ServerAsked
<1>. QED BY <1>3, <1>4

LEMMA HeartbeatAsked ==
  ASSUME Typing, NEW a \in Acts, NEW n \in Beats, NEW w, Heartbeat(a, n, w)
  PROVE  \A b \in Acts : ServerAsked(b)
<1>1. CASE UNCHANGED <<ctx, server>>
  BY <1>1 DEF ServerAsked
<1>2. ASSUME NEW outcome \in Outcomes(a, ctx[a].err # "none"), internalHeartBeat(a, {n}, outcome)
      PROVE  \A b \in Acts : ServerAsked(b)
  BY <1>2, CallAsked
<1>. QED BY <1>1, <1>2 DEF Heartbeat

LEMMA AskedStep == Typing /\ Asked /\ [Next]_vars => Asked'
<1>. SUFFICES ASSUME Typing, Asked, StepKinds PROVE \A b \in Acts : NothingInvented(b)
  BY StepIsOfAKind DEF Typing, Asked, NothingInvented, ServerAsked
<1>1. CASE Elsewhere
  BY <1>1 DEF Elsewhere, NothingInvented, ServerAsked
<1>2. CASE Asks
  BY <1>2 DEF Asks, NothingInvented, ServerAsked, Typing, ServerOK, ServerType
<1>3. CASE StopEnds
  BY <1>3 DEF StopEnds, Cancel, NothingInvented, ServerAsked, Typing, CtxOK
<1>4. ASSUME NEW a \in Acts, Moves(a) PROVE \A b \in Acts : NothingInvented(b)
  BY <1>4 DEF Moves, NothingInvented, ServerAsked, Typing, ActOK
<1>5. ASSUME NEW a \in Acts, HeartbeatUnbatched(a) PROVE \A b \in Acts : NothingInvented(b)
  <2>1. \A b \in Acts : ServerAsked(b)
    BY <1>5, CallAsked DEF HeartbeatUnbatched
  <2>. QED BY <1>5, <2>1 DEF HeartbeatUnbatched, NothingInvented
<1>6. ASSUME NEW a \in Acts, UserCode(a) PROVE \A b \in Acts : NothingInvented(b)
  <2>1. CASE RecordHeartbeat(a)
    <3>1. act[a].beats + 1 \in Beats
      BY <2>1, ActivitiesAssumption DEF RecordHeartbeat, Beats, Typing, ActOK, ActType
    <3>2. \A b \in Acts : ServerAsked(b)
      BY <2>1, <3>1, HeartbeatAsked DEF RecordHeartbeat
    <3>3. \A b \in Acts : act'[b].response = act[b].response
      BY <2>1 DEF RecordHeartbeat, Typing, ActOK, ActType
    <3>. QED BY <3>2, <3>3 DEF NothingInvented
  <2>2. ASSUME NEW err \in Errors, Return(a, err) PROVE \A b \in Acts : NothingInvented(b)
    <3>1. \A b \in Acts : act'[b].response \in {act[b].response, "failed"}
      BY <2>2 DEF Return, Typing, ActOK, ActType
    <3>2. \A b \in Acts : ctx'[b].cause = ctx[b].cause
      BY <2>2 DEF Return, Typing, CtxOK, CtxType
    <3>. QED BY <2>2, <3>1, <3>2 DEF Return, NothingInvented, ServerAsked
  <2>. QED BY <1>6, <2>1, <2>2 DEF UserCode
<1>7. ASSUME NEW a \in Acts, Finish(a) PROVE \A b \in Acts : NothingInvented(b)
  <2>1. CASE Conclude(a)
    <3>1. \A b \in Acts : act'[b].response = "canceled" =>
                             act[b].response = "canceled" \/ ctx[b].cause = "canceled"
      BY <2>1
         DEF Conclude, convertActivityResultToRespondRequest, cancelAllowed, Typing, ActOK, ActType
    <3>2. \A b \in Acts : ctx'[b].cause = ctx[b].cause
      BY <2>1 DEF Conclude, Typing, CtxOK, CtxType
    <3>. QED BY Zenon, <2>1, <3>1, <3>2 DEF Conclude, NothingInvented, ServerAsked
  <2>2. CASE Close(a)
    <3>1. \A b \in Acts : act'[b].response = act[b].response
      BY <2>2 DEF Close, Goto, Typing, ActOK, ActType
    <3>2. \A b \in Acts : ctx'[b].cause \in {ctx[b].cause, "other"}
      BY <2>2 DEF Close, Typing, CtxOK
    <3>3. \A b \in Acts : server'[b].asked = server[b].asked
      <4>1. ASSUME NEW outcome, Recorded(a, {invoker[a].last}, outcome), invoker[a].last # None
            PROVE  \A b \in Acts : server'[b].asked = server[b].asked
        <5>1. {invoker[a].last} \in SUBSET Beats
          BY <4>1 DEF Typing, InvokerOK, InvokerType
        <5>. QED BY <4>1, <5>1, RecordedType DEF Typing
      <4>. QED BY <2>2, <4>1 DEF Close, Flush
    <3>. QED BY <3>1, <3>2, <3>3 DEF NothingInvented, ServerAsked
  <2>3. CASE Respond(a)
    <3>1. \A b \in Acts : act'[b].response = act[b].response
      BY <2>3 DEF Respond, Goto, Typing, ActOK, ActType
    <3>2. \A b \in Acts : server'[b].asked = server[b].asked
      BY <2>3 DEF Respond, Typing, ServerOK, ServerType
    <3>. QED BY <2>3, <3>1, <3>2 DEF Respond, NothingInvented, ServerAsked
  <2>. QED BY <1>7, <2>1, <2>2, <2>3 DEF Finish
<1>8. ASSUME NEW a \in Acts, Window(a) PROVE \A b \in Acts : NothingInvented(b)
  <2>1. PICK n \in Beats : WindowEnds(a, n) \/ WindowReports(a, n) \/ WindowClosed(a, n)
    BY <1>8 DEF Window
  <2>2. CASE WindowReports(a, n)
    <3>1. window[a][n].details \in Beats
      BY <2>2 DEF WindowReports, Typing, WindowOK, EntryType
    <3>2. \A b \in Acts : ServerAsked(b)
      BY <2>2, <3>1, HeartbeatAsked DEF WindowReports
    <3>. QED BY <2>2, <3>2 DEF WindowReports, NothingInvented
  <2>3. CASE WindowEnds(a, n) \/ WindowClosed(a, n)
    BY <2>3 DEF WindowEnds, WindowClosed, NothingInvented, ServerAsked
  <2>. QED BY <2>1, <2>2, <2>3
<1>9. ASSUME NEW a \in Acts, Outside(a) PROVE \A b \in Acts : NothingInvented(b)
  <2>1. \A b \in Acts : server[b].asked => server'[b].asked
    BY <1>9
       DEF Outside, CancelRequested, WorkerCommand, TaskGone, DeadlineExceeded, Typing, ServerOK,
       ServerType
  <2>2. \A b \in Acts : ctx'[b].cause = "canceled" => ctx[b].cause = "canceled" \/ server[b].asked
    <3>1. CASE WorkerCommand(a)
      BY <3>1 DEF WorkerCommand, Cancel, Typing, CtxOK
    <3>2. CASE ~WorkerCommand(a)
      BY <1>9, <3>2 DEF Outside, CancelRequested, TaskGone, DeadlineExceeded, Typing, CtxOK, CtxType
    <3>. QED BY <3>1, <3>2
  <2>3. UNCHANGED act
    BY Zenon, <1>9 DEF Outside, CancelRequested, WorkerCommand, TaskGone, DeadlineExceeded
  <2>. QED BY <2>1, <2>2, <2>3 DEF NothingInvented, ServerAsked
<1>. QED BY <1>1, <1>2, <1>3, <1>4, <1>5, <1>6, <1>7, <1>8, <1>9 DEF StepKinds

\* An activity is answered as canceled only if the server asked for that
\* (convertActivityResultToRespondRequest, internalHeartBeat, the worker commands).
THEOREM CanceledIsAsked == Spec => []CanceledOnlyIfAsked
<1>1. Init => Asked
  BY DEF Init, ActInit, Asked
<1>2. Asked => CanceledOnlyIfAsked
  BY DEF Asked, CanceledOnlyIfAsked
<1>. QED BY <1>1, <1>2, TypingInit, TypingStep, AskedStep, PTL DEF Spec

-----------------------------------------------------------------------------
(* Progress is kept.  Until an activity has raced with a window's          *)
(* goroutine, the goroutines and the invoker agree: at most one goroutine  *)
(* has details in hand, and then no window is open; the open window is the *)
(* one whose goroutine waits.                                              *)

Agree(a) ==
    /\ \A n \in Beats : window[a][n].pc = "report" => invoker[a].window = None
    /\ \A n, m \in Beats : window[a][n].pc = "report" /\ window[a][m].pc = "report" => n = m
    /\ \A n \in Beats : window[a][n].pc = "waiting" => invoker[a].window = n
    /\ invoker[a].window # None /\ ~invoker[a].closed => window[a][invoker[a].window].pc = "waiting"

\* What ProgressIsKept says of a task that reported and did not race.
Kept(a) ==
    LET latest == act[a].beats
    IN  \/ latest \in server[a].tried
        \/ \E n \in Beats : window[a][n] = [pc |-> "report", details |-> latest]
        \/ invoker[a].last = latest /\ invoker[a].window # None /\ ~invoker[a].closed
        \/ invoker[a].closed /\ act[a].response = "completed"

Progress(a) ==
    /\ invoker[a].closed => act[a].pc \in {"respond", "done"}
    /\ act[a].raced \/ (Agree(a) /\ (act[a].beats # 0 => Kept(a)))

LEMMA ProgressSuffices == Typing /\ (\A a \in Acts : Progress(a)) => ProgressIsKept
<1>. SUFFICES ASSUME Typing, \A a \in Acts : Progress(a), NEW a \in Acts,
                     act[a].beats # 0, ~act[a].raced, act[a].beats \notin server[a].tried,
                     ~(invoker[a].closed /\ act[a].response = "completed"),
                     ~\E n \in Beats : window[a][n] = [pc |-> "report", details |-> act[a].beats]
              PROVE  /\ invoker[a].last = act[a].beats
                     /\ invoker[a].window \in Beats /\ window[a][invoker[a].window].pc = "waiting"
                     /\ ~invoker[a].closed
  BY Zenon DEF ProgressIsKept
<1>1. invoker[a].last = act[a].beats /\ invoker[a].window # None /\ ~invoker[a].closed
  BY Zenon DEF Progress, Kept
<1>. QED BY <1>1 DEF Progress, Agree, Typing, InvokerOK, InvokerType

\* What a step does not touch stays.
Same(b) ==
    /\ act'[b].beats = act[b].beats /\ act'[b].raced = act[b].raced
    /\ invoker'[b] = invoker[b] /\ window'[b] = window[b]
    /\ server[b].tried \subseteq server'[b].tried
    /\ invoker[b].closed => act'[b].pc \in {"respond", "done"} /\ act'[b].response = act[b].response

LEMMA SameKeeps ==
  ASSUME NEW b \in Acts, Progress(b), Same(b)
  PROVE  Progress(b)'
<1>1. Agree(b) => Agree(b)'
  BY DEF Same, Agree
<1>2. Kept(b) => Kept(b)'
  BY DEF Same, Kept
<1>. QED BY <1>1, <1>2 DEF Same, Progress

\* The effect of Heartbeat on its own task, and that it has none on the others.
Sends(a, n, w) ==
    /\ server'[a].tried = server[a].tried \cup {n}
    /\ \/ invoker'[a] = invoker[a] /\ window'[a] = w
       \/ /\ invoker'[a].window = n /\ invoker'[a].closed = invoker[a].closed
          /\ window'[a] = [w EXCEPT ![n] = Waiting]
Leaves(b) ==
    invoker'[b] = invoker[b] /\ window'[b] = window[b] /\ server'[b].tried = server[b].tried

LEMMA HeartbeatEffect ==
  ASSUME Typing, NEW a \in Acts, NEW n \in Beats, NEW w \in [Beats -> EntryType], Heartbeat(a, n, w)
  PROVE  /\ \A b \in Acts \ {a} : Leaves(b)
         /\ IF invoker[a].window # None
            THEN /\ invoker'[a] = [invoker[a] EXCEPT !.last = n]
                 /\ window'[a] = w /\ server'[a].tried = server[a].tried
            ELSE Sends(a, n, w)
<1>1. CASE invoker[a].window # None
  BY <1>1 DEF Heartbeat, Typing, InvokerOK, WindowOK, Leaves
<1>2. CASE invoker[a].window = None
  <2>1. PICK outcome \in Outcomes(a, ctx[a].err # "none") :
           /\ internalHeartBeat(a, {n}, outcome)
           /\ \E opens \in OpensWindow(outcome) :
                 IF opens
                 THEN /\ invoker' = [invoker EXCEPT ![a].window = n, ![a].last = None]
                      /\ window' = [window EXCEPT ![a] = [w EXCEPT ![n] = Waiting]]
                 ELSE /\ window' = [window EXCEPT ![a] = w]
                      /\ UNCHANGED invoker
    BY Zenon, <1>2 DEF Heartbeat
  <2>2. /\ \A b \in Acts \ {a} : server'[b] = server[b]
        /\ server'[a].tried = server[a].tried \cup {n}
    <3>1. Recorded(a, {n}, outcome) /\ {n} \in SUBSET Beats
      BY Zenon, <2>1 DEF internalHeartBeat
    <3>. QED BY <3>1, RecordedType DEF Typing
  <2>3. CASE window' = [window EXCEPT ![a] = w] /\ UNCHANGED invoker
    BY <1>2, <2>2, <2>3 DEF Typing, WindowOK, Leaves, Sends
  <2>4. CASE /\ invoker' = [invoker EXCEPT ![a].window = n, ![a].last = None]
             /\ window' = [window EXCEPT ![a] = [w EXCEPT ![n] = Waiting]]
    BY <1>2, <2>2, <2>4 DEF Typing, WindowOK, InvokerOK, InvokerType, Leaves, Sends
  <2>. QED BY <2>1, <2>3, <2>4
<1>. QED BY <1>1, <1>2

\* The goroutine of a window sees what was reported while it waited.
LEMMA WindowKeeps ==
  ASSUME Typing, \A b \in Acts : Progress(b), NEW a \in Acts, Window(a)
  PROVE  \A b \in Acts : Progress(b)'
<1>0. None \notin Beats
  BY ActivitiesAssumption DEF Beats
<1>1. PICK n \in Beats : WindowEnds(a, n) \/ WindowReports(a, n) \/ WindowClosed(a, n)
  BY DEF Window
<1>2. UNCHANGED act /\ window[a] \in [Beats -> EntryType] /\ invoker[a] \in InvokerType
  BY <1>1 DEF WindowEnds, WindowReports, WindowClosed, Typing, WindowOK, InvokerOK
<1>3. SUFFICES ASSUME \A b \in Acts \ {a} : Leaves(b) => Progress(b)'
               PROVE  (\A b \in Acts \ {a} : Leaves(b)) /\ Progress(a)'
  <2>1. \A b \in Acts : Leaves(b) => Same(b)
    BY <1>2 DEF Leaves, Same, Progress
  <2>. QED BY <2>1, SameKeeps
<1>4. ASSUME (~invoker'[a].closed) \/ invoker[a].closed,
             ~act[a].raced => Agree(a)' /\ (act[a].beats # 0 => Kept(a)')
      PROVE  Progress(a)'
  BY <1>2, <1>4 DEF Progress
<1>5. CASE WindowEnds(a, n)
  <2>. DEFINE e == IF invoker[a].last = None THEN [pc |-> "over", details |-> None]
                   ELSE [pc |-> "report", details |-> invoker[a].last]
  <2>1. /\ \A b \in Acts \ {a} : Leaves(b)
        /\ window'[a] = [window[a] EXCEPT ![n] = e]
        /\ invoker'[a].window = None /\ invoker'[a].closed = invoker[a].closed
        /\ server' = server
    BY <1>5 DEF WindowEnds, Leaves, Typing, WindowOK, InvokerOK, InvokerType
  <2>2. /\ window'[a][n] = e /\ e.pc # "waiting"
        /\ \A m \in Beats \ {n} : window'[a][m] = window[a][m]
    BY <1>2, <2>1
  <2>3. ASSUME ~act[a].raced PROVE Agree(a)'
    <3>1. \A m \in Beats \ {n} : window[a][m].pc \notin {"waiting", "report"}
      BY <1>5, <1>0, <2>3 DEF WindowEnds, Progress, Agree
    <3>. HIDE DEF e
    <3>. QED BY <2>1, <2>2, <3>1 DEF Agree
  <2>4. ASSUME ~act[a].raced, act[a].beats # 0 PROVE Kept(a)'
    <3>1. Kept(a) /\ invoker[a].window = n
      BY <1>5, <2>4 DEF WindowEnds, Progress, Agree
    <3>2. window[a][n].pc = "waiting" /\ act[a].beats \in Beats
      BY <1>5, <2>4, ActivitiesAssumption DEF WindowEnds, Typing, ActOK, ActType, Beats
    <3>3. CASE invoker[a].last = act[a].beats
      <4>1. e = [pc |-> "report", details |-> act'[a].beats]
        BY <1>2, <1>0, <3>2, <3>3
      <4>. QED BY <2>2, <4>1 DEF Kept
    <3>4. CASE invoker[a].last # act[a].beats
      BY <1>2, <2>1, <3>1, <3>2, <3>4 DEF Kept
    <3>. QED BY <3>3, <3>4
  <2>. QED BY <1>4, <2>1, <2>3, <2>4
<1>6. CASE WindowReports(a, n)
  <2>. DEFINE w == [window[a] EXCEPT ![n] = [pc |-> "over", details |-> None]]
              d == window[a][n].details
  <2>1. w \in [Beats -> EntryType] /\ d \in Beats /\ window[a][n].pc = "report"
    BY <1>2, <1>6 DEF WindowReports, EntryType
  <2>2. /\ \A b \in Acts \ {a} : Leaves(b)
        /\ IF invoker[a].window # None
           THEN /\ invoker'[a] = [invoker[a] EXCEPT !.last = d]
                /\ window'[a] = w /\ server'[a].tried = server[a].tried
           ELSE Sends(a, d, w)
    BY <1>6, <2>1, HeartbeatEffect DEF WindowReports
  <2>3. invoker'[a].closed = invoker[a].closed
    BY <1>2, <2>2 DEF Sends, InvokerType
  <2>4. ASSUME ~act[a].raced PROVE Agree(a)' /\ (act[a].beats # 0 => Kept(a)')
    <3>1. /\ invoker[a].window = None /\ Agree(a)
          /\ \A m \in Beats : window[a][m].pc = "report" => m = n
          /\ \A m \in Beats : window[a][m].pc # "waiting"
      BY <1>0, <2>1, <2>4 DEF Progress, Agree
    <3>2. Sends(a, d, w)
      BY <2>2, <3>1
    <3>3. \A m \in Beats : w[m].pc = "over"
      BY <1>2, <2>1, <3>1 DEF EntryType
    <3>4. \A latest : window[a][n] = [pc |-> "report", details |-> latest] => latest = d
      OBVIOUS
    <3>. HIDE DEF w, d
    <3>5. Agree(a)'
      <4>1. CASE invoker'[a] = invoker[a] /\ window'[a] = w
        BY <3>1, <3>3, <4>1 DEF Agree
      <4>2. CASE invoker'[a].window = d /\ window'[a] = [w EXCEPT ![d] = Waiting]
        <5>1. window'[a][d].pc = "waiting" /\ \A m \in Beats \ {d} : window'[a][m].pc = "over"
          BY <2>1, <3>3, <4>2 DEF Waiting
        <5>. QED BY <4>2, <5>1 DEF Agree
      <4>. QED BY <3>2, <4>1, <4>2 DEF Sends
    <3>6. ASSUME act[a].beats # 0
          PROVE  \/ act[a].beats \in server'[a].tried
                 \/ invoker[a].closed /\ act[a].response = "completed"
      <4>1. Kept(a)
        BY <2>4, <3>6 DEF Progress
      <4>2. server'[a].tried = server[a].tried \cup {d}
        BY <3>2 DEF Sends
      <4>. QED BY <3>1, <3>4, <4>1, <4>2 DEF Kept
    <3>7. act[a].beats # 0 => Kept(a)'
      BY <1>2, <2>3, <3>6 DEF Kept
    <3>. QED BY <3>5, <3>7
  <2>. QED BY <1>4, <2>2, <2>3, <2>4
<1>7. CASE WindowClosed(a, n)
  <2>1. /\ \A b \in Acts \ {a} : Leaves(b)
        /\ window'[a] = [window[a] EXCEPT ![n] = [window[a][n] EXCEPT !.pc = "over"]]
        /\ invoker' = invoker /\ server' = server
    BY <1>7 DEF WindowClosed, Leaves, Typing, WindowOK
  <2>2. window[a][n].pc = "waiting" /\ invoker[a].closed /\ window'[a][n].pc = "over"
        /\ \A m \in Beats \ {n} : window'[a][m] = window[a][m]
    BY <1>2, <1>7, <2>1 DEF WindowClosed, EntryType
  <2>3. ASSUME ~act[a].raced PROVE Agree(a)'
    BY <2>1, <2>2, <2>3 DEF Progress, Agree
  <2>4. ASSUME ~act[a].raced, act[a].beats # 0 PROVE Kept(a)'
    BY <1>2, <2>1, <2>2, <2>4 DEF Progress, Kept
  <2>. QED BY <1>4, <2>1, <2>2, <2>3, <2>4
<1>. QED BY <1>1, <1>5, <1>6, <1>7

\* What the activity reports is handed on, or waits in an open window.
LEMMA RecordKeeps ==
  ASSUME Typing, \A b \in Acts : Progress(b), NEW a \in Acts, RecordHeartbeat(a)
  PROVE  \A b \in Acts : Progress(b)'
<1>. DEFINE n == act[a].beats + 1
<1>0. None \notin Beats
  BY ActivitiesAssumption DEF Beats
<1>1. /\ n \in Beats /\ window[a] \in [Beats -> EntryType] /\ invoker[a] \in InvokerType
      /\ ~invoker[a].closed
  <2>1. n \in Beats
    BY ActivitiesAssumption DEF RecordHeartbeat, Beats, Typing, ActOK, ActType
  <2>. QED BY <2>1 DEF RecordHeartbeat, Progress, At, Typing, WindowOK, InvokerOK
<1>2. /\ \A b \in Acts \ {a} : Leaves(b)
      /\ IF invoker[a].window # None
         THEN /\ invoker'[a] = [invoker[a] EXCEPT !.last = n]
              /\ window'[a] = window[a] /\ server'[a].tried = server[a].tried
         ELSE Sends(a, n, window[a])
  BY <1>1, HeartbeatEffect DEF RecordHeartbeat
<1>3. /\ \A b \in Acts \ {a} : act'[b] = act[b]
      /\ act'[a].beats = n
      /\ ~act'[a].raced => ~act[a].raced /\ \A m \in Beats : window[a][m].pc # "report"
  <2>. DEFINE t == act[a].raced \/ \E m \in Beats : window[a][m].pc = "report"
  <2>1. act' = [act EXCEPT ![a] = [act[a] EXCEPT !.beats = n, !.raced = t]]
    BY Zenon DEF RecordHeartbeat, Typing, ActOK, ActType
  <2>2. \A u : act[a] \in ActType => [act[a] EXCEPT !.beats = n, !.raced = u].raced = u
    BY DEF ActType
  <2>3. act'[a].raced = t /\ act'[a].beats = n /\ \A b \in Acts \ {a} : act'[b] = act[b]
    <3>. HIDE DEF t
    <3>. QED BY <2>1, <2>2 DEF Typing, ActOK, ActType
  <2>. QED BY Zenon, <2>3
<1>4. \A b \in Acts \ {a} : Progress(b)'
  BY <1>2, <1>3, SameKeeps DEF Same, Leaves, Progress
<1>. HIDE DEF n
<1>5. ~invoker'[a].closed
  BY <1>1, <1>2 DEF Sends, InvokerType
<1>6. ASSUME ~act'[a].raced PROVE Agree(a)' /\ Kept(a)'
  <2>1. Agree(a)
    BY <1>3, <1>6 DEF Progress
  <2>2. CASE invoker[a].window # None
    <3>1. invoker'[a].window = invoker[a].window /\ invoker'[a].last = n
      BY <1>1, <1>2, <2>2 DEF InvokerType
    <3>2. Agree(a)'
      BY <1>1, <1>2, <1>5, <2>1, <2>2, <3>1 DEF Agree
    <3>. QED BY <1>3, <1>5, <2>2, <3>1, <3>2 DEF Kept
  <2>3. CASE invoker[a].window = None
    <3>1. Sends(a, n, window[a])
      BY <1>2, <2>3
    <3>2. \A m \in Beats : window[a][m].pc \notin {"report", "waiting"}
      BY <1>0, <1>3, <1>6, <2>1, <2>3 DEF Agree
    <3>3. Agree(a)'
      BY <1>1, <2>3, <3>1, <3>2 DEF Agree, Sends, Waiting
    <3>. QED BY <1>3, <3>1, <3>3 DEF Sends, Kept
  <2>. QED BY <2>2, <2>3
<1>7. Progress(a)'
  BY <1>5, <1>6 DEF Progress
<1>. QED BY <1>4, <1>7

\* Close hands on what waits, unless the activity completed.
LEMMA CloseKeeps ==
  ASSUME Typing, \A b \in Acts : Progress(b), NEW a \in Acts, Close(a)
  PROVE  \A b \in Acts : Progress(b)'
<1>1. /\ \A b \in Acts \ {a} : act'[b] = act[b] /\ invoker'[b] = invoker[b]
      /\ act'[a].pc = "respond" /\ act'[a].beats = act[a].beats /\ act'[a].raced = act[a].raced
      /\ act'[a].response = act[a].response
  BY DEF Close, Goto, Typing, ActOK, ActType, InvokerOK
<1>2. UNCHANGED window /\ invoker'[a].window = invoker[a].window /\ invoker'[a].closed
  BY DEF Close, Typing, InvokerOK, InvokerType
<1>3. ASSUME invoker[a].last # None, NEW outcome, Recorded(a, {invoker[a].last}, outcome)
      PROVE  /\ \A b \in Acts \ {a} : server'[b] = server[b]
             /\ server'[a].tried = server[a].tried \cup {invoker[a].last}
  <2>1. ServerOK /\ {invoker[a].last} \in SUBSET Beats
    BY <1>3 DEF Typing, InvokerOK, InvokerType
  <2>. QED BY Zenon, <1>3, <2>1, RecordedType
<1>4. /\ \A b \in Acts \ {a} : server'[b] = server[b]
      /\ server[a].tried \subseteq server'[a].tried
      /\ invoker[a].window # None /\ Flush(a) => invoker[a].last \in server'[a].tried
  BY <1>3 DEF Close, Flush
<1>5. \A b \in Acts \ {a} : Progress(b)'
  BY <1>1, <1>2, <1>4, SameKeeps DEF Same, Progress
<1>6. Agree(a) => Agree(a)'
  BY <1>2 DEF Agree
<1>7. ASSUME act[a].beats # 0, Kept(a) PROVE Kept(a)'
  <2>1. act[a].beats # None
    BY <1>7, ActivitiesAssumption DEF Typing, ActOK, ActType, Beats
  <2>. QED BY <1>1, <1>2, <1>4, <1>7, <2>1 DEF Kept, Flush
<1>8. Progress(a)'
  BY <1>1, <1>6, <1>7 DEF Progress
<1>. QED BY <1>5, <1>8

LEMMA ProgressStep ==
  Typing /\ (\A a \in Acts : Progress(a)) /\ [Next]_vars => (\A a \in Acts : Progress(a))'
<1>. SUFFICES ASSUME Typing, \A a \in Acts : Progress(a), StepKinds
              PROVE  \A b \in Acts : Progress(b)'
  BY StepIsOfAKind DEF Typing
<1>1. SUFFICES ASSUME ~\E a \in Acts : Window(a) \/ RecordHeartbeat(a) \/ Close(a)
               PROVE  \A b \in Acts : Same(b)
  BY SameKeeps, WindowKeeps, RecordKeeps, CloseKeeps
<1>2. CASE Elsewhere
  BY <1>2 DEF Elsewhere, Same, Progress
<1>3. CASE Asks
  BY <1>3 DEF Asks, Same, Progress, Typing, ServerOK, ServerType
<1>4. CASE StopEnds
  BY <1>4 DEF StopEnds, Same, Progress
<1>5. ASSUME NEW a \in Acts, Moves(a) PROVE \A b \in Acts : Same(b)
  BY <1>5 DEF Moves, Same, Progress, Typing, ActOK
<1>6. ASSUME NEW a \in Acts, HeartbeatUnbatched(a) PROVE \A b \in Acts : Same(b)
  <2>1. \A b \in Acts : server'[b].tried = server[b].tried
    <3>1. PICK outcome : Recorded(a, {}, outcome)
      BY Zenon, <1>6 DEF HeartbeatUnbatched, internalHeartBeat
    <3>2. {} \in SUBSET Beats
      OBVIOUS
    <3>3. server'[a].tried = server[a].tried \cup {}
      BY Zenon, <3>1, <3>2, RecordedType DEF Typing
    <3>4. \A b \in Acts \ {a} : server'[b] = server[b]
      BY Zenon, <3>1, <3>2, RecordedType DEF Typing
    <3>. QED BY <3>3, <3>4
  <2>. QED BY <1>6, <2>1 DEF HeartbeatUnbatched, Same, Progress
<1>7. ASSUME NEW a \in Acts, NEW err \in Errors, Return(a, err) PROVE \A b \in Acts : Same(b)
  BY <1>7 DEF Return, At, Same, Progress, Typing, ActOK, ActType
<1>8. ASSUME NEW a \in Acts, Conclude(a) PROVE \A b \in Acts : Same(b)
  BY <1>8 DEF Conclude, At, Same, Progress, Typing, ActOK, ActType
<1>9. ASSUME NEW a \in Acts, Respond(a) PROVE \A b \in Acts : Same(b)
  <2>1. \A b \in Acts : server'[b].tried = server[b].tried
    BY <1>9 DEF Respond, Typing, ServerOK, ServerType
  <2>2. /\ \A b \in Acts \ {a} : act'[b] = act[b]
        /\ act'[a].pc = "done" /\ act'[a].response = act[a].response
        /\ act'[a].beats = act[a].beats /\ act'[a].raced = act[a].raced
    BY <1>9 DEF Respond, Goto, Typing, ActOK, ActType
  <2>. QED BY <1>9, <2>1, <2>2 DEF Respond, Same, Progress
<1>10. ASSUME NEW a \in Acts, Outside(a) PROVE \A b \in Acts : Same(b)
  <2>1. \A b \in Acts : server'[b].tried = server[b].tried
    BY <1>10 DEF Outside, CancelRequested, WorkerCommand, TaskGone, DeadlineExceeded, Typing,
       ServerOK, ServerType
  <2>2. UNCHANGED <<act, invoker, window>>
    BY Zenon, <1>10 DEF Outside, CancelRequested, WorkerCommand, TaskGone, DeadlineExceeded
  <2>. QED BY <2>1, <2>2 DEF Same, Progress
<1>. QED
  BY <1>1, <1>2, <1>3, <1>4, <1>5, <1>6, <1>7, <1>8, <1>9, <1>10 DEF StepKinds, UserCode, Finish

\* What an activity reported last is with the server's client, with a goroutine, or
\* in an open window (Heartbeat, Close).
THEOREM ProgressAlwaysKept == Spec => []ProgressIsKept
<1>1. Init => \A a \in Acts : Progress(a)
  BY DEF Init, ActInit, Progress, Agree
<1>. QED BY <1>1, TypingInit, TypingStep, ProgressStep, ProgressSuffices, PTL DEF Spec

-----------------------------------------------------------------------------
(* The bucket.  The tokens that are out are with finitely many tasks: each *)
(* step lets at most one more have one.                                    *)

INSTANCE FiniteSetTheorems

Holders == {a \in Acts : HoldsToken(a)}
Tokens ==
    /\ availableToken \in Nat /\ IsFiniteSet(Holders)
    /\ availableToken + Cardinality(Holders) = Size

\* What a task's step does to the others, and to where it is itself.
From(a, before, after) ==
    /\ act[a].pc \in before /\ act'[a].pc \in after
    /\ \A b \in Acts \ {a} : act'[b].pc = act[b].pc

Holding == {"register", "signal", "session", "token"}
NotCreating == {"idle", "body", "returned", "close", "respond", "done"}

\* The steps that are not the creation activity's neither have a token nor signal.
LEMMA NotCreatingStep ==
  ASSUME ActOK, NEW a \in Acts, PollOther(a) \/ Start(a, "create") \/ UserCode(a) \/ Finish(a)
  PROVE  From(a, NotCreating, NotCreating \cup {"create"})
<1>1. ASSUME NEW body \in {"create", "body"}, Start(a, body)
      PROVE  From(a, NotCreating, NotCreating \cup {"create"})
  BY <1>1 DEF Start, At, Goto, From, NotCreating, ActOK, ActType
<1>2. CASE RecordHeartbeat(a)
  BY <1>2 DEF RecordHeartbeat, At, From, NotCreating, ActOK, ActType
<1>3. ASSUME NEW err \in Errors, Return(a, err)
      PROVE  From(a, NotCreating, NotCreating \cup {"create"})
  BY <1>3 DEF Return, At, From, NotCreating, ActOK, ActType
<1>4. CASE Conclude(a)
  BY <1>4 DEF Conclude, At, From, NotCreating, ActOK, ActType
<1>5. CASE Close(a) \/ Respond(a)
  BY <1>5 DEF Close, Respond, Goto, At, From, NotCreating, ActOK, ActType
<1>. QED BY Zenon, <1>1, <1>2, <1>3, <1>4, <1>5 DEF PollOther, UserCode, Finish

\* Where the creation activity holds its token.
LEMMA HoldingStep ==
  ASSUME ActOK, NEW a \in Acts,
         Register(a) \/ SignalCreationResponse(a) \/ SessionCanceled(a) \/ SessionDone(a)
  PROVE  From(a, Holding, Holding)
<1>1. CASE Register(a) \/ SessionCanceled(a) \/ SessionDone(a)
  BY <1>1 DEF Register, SessionCanceled, SessionDone, At, Goto, From, Holding, ActOK, ActType
<1>2. CASE SignalCreationResponse(a)
  BY <1>2 DEF SignalCreationResponse, SignalErrorPc, At, Goto, From, Holding, ActOK, ActType
<1>. QED BY <1>1, <1>2

LEMMA GetTokenStep ==
  ASSUME ActOK, NEW a \in Acts, getToken(a)
  PROVE  \/ /\ From(a, {"create"}, {"returned"})
            /\ UNCHANGED availableToken
         \/ /\ From(a, {"create"}, {"register"})
            /\ availableToken # 0 /\ availableToken' = availableToken - 1
  BY DEF getToken, At, Goto, From, ActOK, ActType

LEMMA AddTokenStep ==
  ASSUME ActOK, NEW a \in Acts
  PROVE  /\ addToken(a) => From(a, {"token"}, {"signalToken"})
         /\ SignalToken(a) => From(a, {"signalToken"}, {"returned"})
  BY DEF addToken, SignalToken, At, Goto, From, ActOK, ActType

\* Every step, as the bucket and the tasks' places see it.
Places == \A b \in Acts : act'[b].pc = act[b].pc
Untouched == UNCHANGED <<availableToken, bucketClosed, poller, stop>>
BucketKinds ==
    \/ Poller \/ BeginStop \/ Stop
    \/ Untouched /\ Places
    \/ \E a \in Acts :
          \/ Untouched /\ From(a, NotCreating, NotCreating \cup {"create"})
          \/ Untouched /\ From(a, Holding, Holding)
          \/ getToken(a) \/ addToken(a) \/ SignalToken(a)

LEMMA StepIsOfABucketKind == ActOK /\ [Next]_vars => BucketKinds
<1>. SUFFICES ASSUME ActOK, [Next]_vars PROVE BucketKinds
  OBVIOUS
<1>1. CASE UNCHANGED vars
  BY Zenon, <1>1 DEF vars, actVars, bucketVars, BucketKinds, Untouched, Places
<1>2. ASSUME NEW a \in Acts, PollOther(a) \/ Code(a) \/ Handler(a) PROVE BucketKinds
  <2>1. CASE CreationActivity(a)
    <3>1. ASSUME Register(a) \/ SignalCreationResponse(a) \/ SessionCanceled(a) \/ SessionDone(a)
          PROVE  Untouched
      BY Zenon, <3>1 DEF Register, SignalCreationResponse, SessionCanceled, SessionDone, bucketVars,
         Untouched
    <3>. QED BY <2>1, <3>1, HoldingStep DEF CreationActivity, BucketKinds
  <2>2. CASE ~CreationActivity(a)
    <3>1. Untouched
      BY Zenon, <1>2, <2>2
         DEF PollOther, Start, Code, Handler, UserCode, RecordHeartbeat, Return, Finish, Conclude,
             Close, Respond, Window, WindowEnds, WindowReports, WindowClosed, bucketVars, Untouched
    <3>2. CASE Window(a)
      BY <3>1, <3>2
         DEF Window, WindowEnds, WindowReports, WindowClosed, Untouched, BucketKinds, Places
    <3>. QED BY <1>2, <2>2, <3>1, <3>2, NotCreatingStep DEF Code, Handler, BucketKinds
  <2>. QED BY <2>1, <2>2
<1>3. ASSUME NEW a \in Acts,
             SessionHeartbeat(a) \/ (Outside(a) /\ UNCHANGED <<kind, bucketVars, envVars, wf>>)
      PROVE  BucketKinds
  BY Zenon, <1>3
     DEF SessionHeartbeat, HeartbeatUnbatched, Outside, CancelRequested, WorkerCommand, TaskGone,
         DeadlineExceeded, bucketVars, BucketKinds, Untouched, Places
<1>4. ASSUME NEW s \in SessionIDs,
             createSessionFails(s) \/ WorkflowCompletes(s) \/ sessionCompletionActivity(s)
      PROVE  BucketKinds
  BY Zenon, <1>4
     DEF createSessionFails, WorkflowCompletes, sessionCompletionActivity, actVars, bucketVars,
         BucketKinds, Untouched, Places
<1>5. CASE Poller \/ BeginStop \/ Stop
  BY Zenon, <1>5 DEF BucketKinds
<1>. QED BY <1>1, <1>2, <1>3, <1>4, <1>5 DEF Next

\* A token taken, a token returned, and everything else.
LEMMA HoldersStay ==
  ASSUME Tokens, UNCHANGED availableToken,
         \A b \in Acts : act'[b].pc \in Holding <=> act[b].pc \in Holding
  PROVE  Tokens'
<1>1. Holders' = Holders
  BY DEF Holders, HoldsToken, Holding
<1>. QED BY <1>1 DEF Tokens

LEMMA TokensStep == ActOK /\ Tokens /\ [Next]_vars => Tokens'
<1>. SUFFICES ASSUME ActOK, Tokens, BucketKinds PROVE Tokens'
  BY StepIsOfABucketKind
<1>1. ASSUME NEW a \in Acts, UNCHANGED availableToken,
             \/ From(a, NotCreating, NotCreating \cup {"create"}) \/ From(a, Holding, Holding)
             \/ From(a, {"create"}, {"returned"}) \/ From(a, {"signalToken"}, {"returned"})
      PROVE  Tokens'
  BY <1>1, HoldersStay DEF From, Holding, NotCreating
<1>2. ASSUME UNCHANGED availableToken, Places PROVE Tokens'
  BY <1>2, HoldersStay DEF Places
<1>3. CASE Poller
  <2>1. CASE UNCHANGED act
    <3>1. Places /\ UNCHANGED availableToken
      BY Zenon, <1>3, <2>1 DEF Poller, waitForAvailableToken, PollerLoops, Poll, Places
    <3>. QED BY <1>2, <3>1
  <2>2. CASE ~UNCHANGED act
    <3>1. UNCHANGED availableToken /\ \E a \in Acts : Start(a, "create")
      BY Zenon, <1>3, <2>2 DEF Poller, waitForAvailableToken, PollerLoops, Poll, actVars
    <3>. QED BY <1>1, <3>1, NotCreatingStep
  <2>. QED BY <2>1, <2>2
<1>4. CASE BeginStop \/ Stop
  <2>1. UNCHANGED availableToken /\ Places
    BY Zenon, <1>4 DEF BeginStop, Stop, closeBucket, Broadcast, StopEnds, bucketVars, Places
  <2>. QED BY <1>2, <2>1
<1>5. ASSUME NEW a \in Acts, From(a, {"create"}, {"register"}), availableToken # 0,
             availableToken' = availableToken - 1
      PROVE  Tokens'
  <2>1. Holders' = Holders \cup {a} /\ a \notin Holders
    BY <1>5 DEF From, Holders, HoldsToken
  <2>2. IsFiniteSet(Holders') /\ Cardinality(Holders') = Cardinality(Holders) + 1
    BY <2>1, FS_AddElement DEF Tokens
  <2>3. Cardinality(Holders) \in Nat /\ Size \in Nat
    BY FS_CardinalityType, SessionsAssumption DEF Tokens
  <2>. QED BY <1>5, <2>2, <2>3 DEF Tokens
<1>6. ASSUME NEW a \in Acts, addToken(a) PROVE Tokens'
  <2>1. From(a, {"token"}, {"signalToken"}) /\ availableToken' = availableToken + 1
    BY <1>6, AddTokenStep DEF addToken
  <2>2. Holders' = Holders \ {a} /\ a \in Holders
    BY <2>1 DEF From, Holders, HoldsToken
  <2>3. IsFiniteSet(Holders') /\ Cardinality(Holders') = Cardinality(Holders) - 1
    BY <2>2, FS_RemoveElement DEF Tokens
  <2>4. Cardinality(Holders) \in Nat /\ Size \in Nat
    BY FS_CardinalityType, SessionsAssumption DEF Tokens
  <2>. QED BY <2>1, <2>3, <2>4 DEF Tokens
<1>7. ASSUME NEW a \in Acts, getToken(a) \/ SignalToken(a) PROVE Tokens'
  BY <1>1, <1>5, <1>7, GetTokenStep, AddTokenStep DEF SignalToken
<1>. QED BY <1>1, <1>2, <1>3, <1>4, <1>6, <1>7 DEF BucketKinds, Untouched

LEMMA TokensInit == Init => Tokens
<1>. SUFFICES ASSUME Init PROVE Tokens
  OBVIOUS
<1>1. Holders = {}
  BY DEF Init, ActInit, Holders, HoldsToken
<1>. QED BY <1>1, FS_EmptySet, SessionsAssumption DEF Init, Tokens

LEMMA TokensAlways == Spec => [](Typing /\ Tokens)
BY TypingInit, TypingStep, TokensInit, TokensStep, PTL DEF Spec, Typing

\* Every token is in the bucket or with one creation activity, however that ends
\* (CreateSession, AddSessionToken).
THEOREM TokensAlwaysKept == Spec => []TokensAreKept
<1>1. Tokens => TokensAreKept
  BY DEF Tokens, TokensAreKept, Holders
<1>. QED BY <1>1, TokensAlways, PTL

\* Whoever closes the bucket or returns a token is still to wake the poller that
\* sleeps.
LEMMA WakesStep == ActOK /\ Tokens /\ PollerWakes /\ [Next]_vars => PollerWakes'
<1>. SUFFICES ASSUME ActOK, Tokens, PollerWakes, BucketKinds, poller' = "parked" PROVE PollerWakes'
  BY StepIsOfABucketKind DEF PollerWakes
<1>1. CASE Poller
  BY <1>1 DEF Poller, waitForAvailableToken, PollerLoops, Poll, PollerWakes, actVars
<1>2. CASE BeginStop \/ Stop
  BY <1>2 DEF BeginStop, Stop, closeBucket, Broadcast, StopEnds, Woken, bucketVars, PollerWakes, At
<1>3. CASE Untouched /\ Places
  BY <1>3 DEF Untouched, Places, PollerWakes, At
<1>4. ASSUME NEW a \in Acts, Untouched,
             From(a, NotCreating, NotCreating \cup {"create"}) \/ From(a, Holding, Holding)
      PROVE  PollerWakes'
  BY <1>4 DEF Untouched, From, NotCreating, Holding, PollerWakes, At
<1>5. ASSUME NEW a \in Acts, getToken(a) PROVE PollerWakes'
  BY <1>5, GetTokenStep DEF getToken, From, Tokens, PollerWakes, At
<1>6. ASSUME NEW a \in Acts, addToken(a) PROVE PollerWakes'
  BY <1>6, AddTokenStep DEF addToken, From, PollerWakes, At
<1>7. ASSUME NEW a \in Acts, SignalToken(a) PROVE PollerWakes'
  BY <1>7 DEF SignalToken, Woken
<1>. QED BY <1>1, <1>2, <1>3, <1>4, <1>5, <1>6, <1>7 DEF BucketKinds

\* The poller sleeps neither through a token nor through the worker's stop
\* (waitForAvailableToken, addToken, close).
THEOREM PollerAlwaysWakes == Spec => []PollerWakes
<1>1. Init => PollerWakes
  BY DEF Init, PollerWakes
<1>. QED BY <1>1, TokensAlways, WakesStep, PTL DEF Spec, Typing
=============================================================================
