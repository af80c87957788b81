---------------------------- MODULE WorkflowTasks ----------------------------
(***************************************************************************)
(* The workflow tasks and queries of one workflow run, processed by        *)
(* several goroutines over one sticky cache: which workflow context a task *)
(* gets (GetOrCreateWorkflowContext), which events of its history the      *)
(* context still has to apply (ResetIfStale, newHistory, prepareTask), how *)
(* it is answered, and when the context is cleared (Unlock, onEviction).   *)
(*                                                                         *)
(* A context's mutex covers all of the processing, so a processor takes a  *)
(* few steps: what it does between two points where the cache, the server  *)
(* or an eviction can interfere.  Events are their kinds; the ID of an     *)
(* event is its position.  The server is external.  Local activities are   *)
(* left to another module, so a task is always answered.                   *)
(***************************************************************************)
EXTENDS Naturals, Sequences, FiniteSets

CONSTANTS
    Procs,          \* goroutines of the task processor
    Ctxs,           \* workflow contexts, used again when nothing refers to them
    MaxEvents,      \* bound on what happens around the tasks: signals, updates, queries,
                    \*   timeouts, lost calls, failing code, other hosts' tasks, evictions
    None

ASSUME WorkflowTasksAssumption ==
    /\ MaxEvents \in Nat
    /\ None \notin Ctxs \cup Procs

VARIABLES
    srv,        \* the server's view of the run
    ctx,        \* workflowExecutionContextImpl
    proc,       \* the processors
    cache,      \* the context in the cache under this run's ID, or None
    evicting,   \* contexts whose onEviction has been started
    released,   \* the worker's cache handle is released
    left        \* how much may still happen around the tasks
vars == <<srv, ctx, proc, cache, evicting, released, left>>

-----------------------------------------------------------------------------
(* Events.                                                                 *)

\* What prepareTask makes of events with IDs from first on, handled up to last:
\* scheduled and timed out workflow tasks are skipped, and a started one that
\* failed or timed out.
Filtered(evs, i) ==
    \/ evs[i] \in {"scheduled", "timedout"}
    \/ evs[i] = "started" /\ i < Len(evs) /\ evs[i + 1] \in {"failed", "timedout"}

prepareTask(evs, first, last) ==
    LET New(i) == first + i - 1 > last /\ ~Filtered(evs, i)
        taken == SelectSeq([i \in DOMAIN evs |-> i], New)
    IN  [k \in DOMAIN taken |-> evs[taken[k]]]

\* What a history means to the workflow.
Meaning(evs) == prepareTask(evs, 1, 0)

isFullHistory(t) == t.evs # <<>> /\ t.first = 1

-----------------------------------------------------------------------------
(* The server.  A task that is not "normal" has its scheduled and started  *)
(* events in no history yet.                                               *)

Virtual(s) == IF s.wft = "started" /\ s.kind # "normal" THEN <<"scheduled", "started">>
                                                        ELSE <<>>
History(s) == s.events \o Virtual(s)

NewTask(s) ==
    [query |-> FALSE, first |-> IF s.sticky THEN s.prevStarted + 1 ELSE 1,
     evs |-> IF s.sticky THEN SubSeq(History(s), s.prevStarted + 1, Len(History(s)))
                         ELSE History(s),
     all |-> History(s), started |-> Len(History(s)),
     attempt |-> IF s.kind = "transient" THEN 2 ELSE 1]

Schedule(s) == [s EXCEPT !.wft = "scheduled", !.kind = "normal",
                         !.events = Append(@, "scheduled")]
Start(s, p) == [s EXCEPT !.wft = "started", !.holder = p,
                         !.events = IF s.kind = "normal" THEN Append(@, "started") ELSE @]

Signals(n) == [i \in 1..n |-> "signal"]

\* Signals that came during the task follow it and need another one.
Flush(s) ==
    IF s.buffered = 0 \/ s.closed THEN [s EXCEPT !.buffered = 0]
    ELSE Schedule([s EXCEPT !.events = @ \o Signals(s.buffered), !.buffered = 0])

\* The task's completion with the event of its command.
Complete(s, result) ==
    Flush([s EXCEPT !.events = History(s) \o <<"completed", result>>,
                    !.prevStarted = Len(History(s)), !.wft = "none", !.holder = None,
                    !.sticky = TRUE,
                    !.closed = result = "closed"])

\* The task has failed or timed out: the first attempt leaves an event, the
\* next one is transient unless signals were waiting.
Fail(s, event) ==
    LET f == [s EXCEPT !.events = IF s.kind = "transient" THEN @
                                  ELSE Append(History(s), event),
                       !.wft = "none", !.holder = None, !.sticky = FALSE]
    IN  IF s.buffered > 0 THEN Flush(f)
        ELSE [f EXCEPT !.wft = "scheduled", !.kind = "transient"]

\* Only rejected updates: the speculative task is dropped.
MayDrop(s) == s.kind = "speculative" /\ s.buffered = 0

\* A processor's task token is that of the started task.
Current(p) == srv.wft = "started" /\ srv.holder = p

-----------------------------------------------------------------------------
(* Contexts.                                                               *)

clearState(c) == [c EXCEPT !.alive = FALSE, !.prev = 0, !.last = 0, !.applied = <<>>,
                           !.unsent = FALSE]
createEventHandler(c) == [clearState(c) EXCEPT !.alive = TRUE]

Unused == {c \in Ctxs : /\ c # cache /\ c \notin evicting /\ ctx[c].applied = <<>>
                        /\ \A p \in Procs : proc[p].ctx # c}

removeWorkflowContext(c) ==
    IF cache = c THEN cache' = None /\ evicting' = evicting \cup {c}
                 ELSE UNCHANGED <<cache, evicting>>

\* The context's state after applying a task, and whether the history ended
\* before the started event (verifyAllEventsProcessed).
Apply(c, t) ==
    [c EXCEPT !.applied = @ \o prepareTask(t.evs, t.first, c.last),
              !.last = IF t.evs = <<>> THEN @
                       ELSE IF @ > t.first + Len(t.evs) - 1 THEN @
                       ELSE t.first + Len(t.evs) - 1,
              !.prev = IF t.query THEN @ ELSE t.started]
EndsTooSoon(t) == t.started > 0 /\ t.first + Len(t.evs) - 1 < t.started

\* Fault: only the started event is dropped.
SetPreviousStartedEventIDByOne(c, id) == [c EXCEPT !.last = @ - 1, !.prev = id]
SetPreviousStartedEventID(c, id) == [c EXCEPT !.last = @ - 2, !.prev = id]

-----------------------------------------------------------------------------
(* A processor.                                                            *)

At(p, pc) == proc[p].pc = pc
Goto(p, pc) == proc' = [proc EXCEPT ![p].pc = pc]
Idle == [pc |-> "idle", task |-> None, ctx |-> None, out |-> None, err |-> FALSE]

\* GetWorkflowExecutionHistory from the beginning; events past the task's
\* started event mean that the task is no longer valid.
TooFar(t)  == t.started > 0 /\ Len(History(srv)) > t.started
Fetched(t) == [t EXCEPT !.first = 1, !.evs = History(srv)]

\* The first part of GetOrCreateWorkflowContext: a query with its full history
\* does not look at the cache.
Lookup(p) ==
    LET t == proc[p].task
    IN  /\ At(p, "lookup")
        /\ IF (t.query /\ isFullHistory(t)) \/ cache = None
           THEN Goto(p, "create")
           ELSE proc' = [proc EXCEPT ![p].pc = "lock", ![p].ctx = cache]
        /\ UNCHANGED <<srv, ctx, cache, evicting, released, left>>

\* Does the locked context continue with this task's history?
IsValid(c, t) ==
    /\ c.alive
    /\ \/ t.query /\ ~isFullHistory(t)
       \/ t.evs # <<>> /\ t.first = c.prev + 1

\* Fault: a context that is discarded stays locked.
LockKept(p) ==
    LET c == proc[p].ctx
    IN  /\ At(p, "lock")
        /\ ctx[c].owner = None
        /\ IF IsValid(ctx[c], proc[p].task)
           THEN /\ ctx' = [ctx EXCEPT ![c].owner = p]
                /\ Goto(p, "process")
                /\ UNCHANGED <<cache, evicting>>
           ELSE /\ IF ctx[c].alive THEN removeWorkflowContext(c)
                                   ELSE UNCHANGED <<cache, evicting>>
                /\ ctx' = [ctx EXCEPT ![c] = [clearState(@) EXCEPT !.owner = p]]
                /\ proc' = [proc EXCEPT ![p].pc = "create", ![p].ctx = None]
        /\ UNCHANGED <<srv, released, left>>

\* The context found is locked and used, or discarded.
Lock(p) ==
    LET c == proc[p].ctx
    IN  /\ At(p, "lock")
        /\ ctx[c].owner = None
        /\ IF IsValid(ctx[c], proc[p].task)
           THEN /\ ctx' = [ctx EXCEPT ![c].owner = p]
                /\ Goto(p, "process")
                /\ UNCHANGED <<cache, evicting>>
           ELSE /\ IF ctx[c].alive THEN removeWorkflowContext(c)
                                   ELSE UNCHANGED <<cache, evicting>>
                /\ ctx' = [ctx EXCEPT ![c] = clearState(@)]
                /\ proc' = [proc EXCEPT ![p].pc = "create", ![p].ctx = None]
        /\ UNCHANGED <<srv, released, left>>

\* resetHistory when the task came with a part, then createWorkflowContext.
Create(p) ==
    LET t == proc[p].task
        c == CHOOSE d \in Unused : TRUE
    IN  /\ At(p, "create")
        /\ isFullHistory(t) \/ ~TooFar(t)
        /\ Unused # {}
        /\ ctx' = [ctx EXCEPT ![c] = [createEventHandler(@) EXCEPT !.cached = FALSE]]
        /\ proc' = [proc EXCEPT ![p].pc = IF t.query THEN "locknew" ELSE "put",
                                ![p].ctx = c,
                                ![p].task = IF isFullHistory(t) THEN t ELSE Fetched(t)]
        /\ UNCHANGED <<srv, cache, evicting, released, left>>

\* Without its history the task is given up and not answered.
CreateFails(p) ==
    LET t == proc[p].task
    IN  /\ At(p, "create")
        /\ ~isFullHistory(t)
        /\ IF TooFar(t) THEN UNCHANGED left
           ELSE left > 0 /\ left' = left - 1
        /\ proc' = [proc EXCEPT ![p] = Idle]
        /\ UNCHANGED <<srv, ctx, cache, evicting, released>>

\* putWorkflowContext: refused after the release, and another processor may
\* have put a context first.
Put(p) ==
    /\ At(p, "put")
    /\ IF released
       THEN Goto(p, "locknew") /\ UNCHANGED cache
       ELSE IF cache = None
       THEN Goto(p, "locknew") /\ cache' = proc[p].ctx
       ELSE proc' = [proc EXCEPT ![p].pc = "locknew", ![p].ctx = cache] /\ UNCHANGED cache
    /\ UNCHANGED <<srv, ctx, evicting, released, left>>

\* The context is locked, is marked as cached if it still is, and starts again
\* if it was destroyed in the meantime (resetStateIfDestroyed).
LockNew(p) ==
    LET c == proc[p].ctx
        d == IF ctx[c].alive THEN ctx[c] ELSE createEventHandler(ctx[c])
    IN  /\ At(p, "locknew")
        /\ ctx[c].owner = None
        /\ ctx' = [ctx EXCEPT ![c] = [d EXCEPT !.owner = p,
                                               !.cached = IF proc[p].task.query THEN @
                                                          ELSE cache = c]]
        /\ Goto(p, "process")
        /\ UNCHANGED <<srv, cache, evicting, released, left>>

\* workflowExecutionContextImpl.ProcessWorkflowTask: ResetIfStale, the events,
\* and the code, which may fail or complete the workflow.  A query of a context
\* that has applied no event calls a nil handler; the panic is recovered and the
\* query is not answered.
Stale(c, t) == t.evs # <<>> /\ t.first # c.prev + 1

Process(p) ==
    LET c == proc[p].ctx
        t == proc[p].task
        stale == Stale(ctx[c], t)
        fetch == stale /\ ~isFullHistory(t)
        u == IF fetch THEN Fetched(t) ELSE t
        start == IF stale THEN createEventHandler(ctx[c]) ELSE ctx[c]
        invalid == EndsTooSoon(u) \/ (fetch /\ TooFar(t))
        end == IF invalid THEN start ELSE Apply(start, u)
        Ends(pc, out, err) == proc' = [proc EXCEPT ![p].pc = pc, ![p].task = u,
                                                   ![p].out = out, ![p].err = err]
    IN  /\ At(p, "process")
        /\ ctx' = [ctx EXCEPT ![c] = end]
        /\ \/ /\ ~invalid /\ end.applied # <<>>
              /\ \E out \in {"ok"} \cup (IF t.query THEN {} ELSE {"closes"}) :
                    Ends("respond", out, FALSE)
              /\ UNCHANGED left
           \/ /\ ~invalid /\ end.applied = <<>>
              /\ Ends("unlock", "error", TRUE)
              /\ UNCHANGED left
           \/ /\ Ends("respond", "error", TRUE)
              /\ IF invalid THEN UNCHANGED left
                 ELSE left > 0 /\ left' = left - 1
        /\ UNCHANGED <<srv, cache, evicting, released>>

\* The call to the server has returned: err evicts the context.
Answered(p, err) == proc' = [proc EXCEPT ![p].pc = "unlock", ![p].err = err]

\* RespondQueryTaskCompleted.
RespondQuery(p) ==
    /\ At(p, "respond")
    /\ proc[p].task.query
    /\ Answered(p, proc[p].out = "error")
    /\ UNCHANGED <<srv, ctx, cache, evicting, released, left>>

\* RespondWorkflowTaskFailed, only for the first attempt.
RespondFailed(p) ==
    LET t == proc[p].task
    IN  /\ At(p, "respond")
        /\ ~t.query /\ proc[p].out = "error"
        /\ srv' = IF t.attempt = 1 /\ Current(p) THEN Fail(srv, "failed") ELSE srv
        /\ Answered(p, TRUE)
        /\ UNCHANGED <<ctx, cache, evicting, released, left>>

\* The completion cannot be encoded: the failure is reported in its place, and the
\* caller's taskErr stays nil.
RespondUnsent(p) ==
    LET t == proc[p].task
    IN  /\ At(p, "respond")
        /\ ~t.query /\ proc[p].out # "error" /\ left > 0
        /\ srv' = IF t.attempt = 1 /\ Current(p) THEN Fail(srv, "failed") ELSE srv
        /\ ctx' = [ctx EXCEPT ![proc[p].ctx].unsent = TRUE]
        /\ left' = left - 1
        /\ Answered(p, t.attempt = 1 /\ ~Current(p))
        /\ UNCHANGED <<cache, evicting, released>>

\* RespondWorkflowTaskCompleted: the server has given up on the task, or the
\* call is lost on its way.
RespondError(p) ==
    LET t == proc[p].task
    IN  /\ At(p, "respond")
        /\ ~t.query /\ proc[p].out # "error"
        /\ IF Current(p) THEN left > 0 /\ left' = left - 1
                         ELSE UNCHANGED left
        /\ Answered(p, TRUE)
        /\ UNCHANGED <<srv, ctx, cache, evicting, released>>

\* The server accepts the completion; the answer arrives or is lost.  It may
\* bring the next task, processed at once under the same lock.
RespondCompleted(p) ==
    LET t == proc[p].task
    IN  /\ At(p, "respond")
        /\ ~t.query /\ proc[p].out # "error" /\ Current(p)
        /\ LET s == Complete(srv, IF proc[p].out = "closes" THEN "closed" ELSE "command")
           IN    \/ /\ srv' = s
                    /\ Answered(p, FALSE)
                    /\ UNCHANGED left
                 \/ /\ left > 0
                    /\ srv' = s
                    /\ left' = left - 1
                    /\ Answered(p, TRUE)
                 \/ /\ s.wft = "scheduled"
                    /\ srv' = Start(s, p)
                    /\ proc' = [proc EXCEPT ![p].pc = "process", ![p].task = NewTask(Start(s, p))]
                    /\ UNCHANGED left
        /\ UNCHANGED <<ctx, cache, evicting, released>>

\* The server drops a speculative task whose updates were all rejected and tells
\* the worker to go back to the last completed one.  The code has run, and a
\* rejected update leaves no trace of that.
RespondDropped(p) ==
    LET t == proc[p].task
        c == proc[p].ctx
        d == SetPreviousStartedEventID(ctx[c], srv.prevStarted)
    IN  /\ At(p, "respond")
        /\ ~t.query /\ proc[p].out = "ok" /\ Current(p) /\ MayDrop(srv)
        /\ srv' = [srv EXCEPT !.wft = "none", !.holder = None]
        /\ ctx' = [ctx EXCEPT ![c] = [d EXCEPT !.applied = SubSeq(@, 1, Len(@) - 1)]]
        /\ Answered(p, FALSE)
        /\ UNCHANGED <<cache, evicting, released, left>>

\* Unlock, after which the context is removed from the cache or only cleared.
GiveBack(p, discard, clear) ==
    LET c == proc[p].ctx
        d == IF discard \/ clear THEN clearState(ctx[c]) ELSE ctx[c]
    IN  /\ At(p, "unlock")
        /\ IF discard THEN removeWorkflowContext(c) ELSE UNCHANGED <<cache, evicting>>
        /\ ctx' = [ctx EXCEPT ![c] = [d EXCEPT !.owner = None, !.cached = @ /\ ~discard]]
        /\ proc' = [proc EXCEPT ![p] = Idle]
        /\ UNCHANGED <<srv, released, left>>

\* Faults: an error does not discard the context; a context that was never
\* cached is not cleared.
UnlockIgnoringError(p) ==
    GiveBack(p, proc[p].out = "closes", ~ctx[proc[p].ctx].cached)
UnlockUncached(p) ==
    GiveBack(p, proc[p].err \/ proc[p].out = "closes", FALSE)

Unlock(p) ==
    GiveBack(p, proc[p].err \/ proc[p].out = "closes", ~ctx[proc[p].ctx].cached)

-----------------------------------------------------------------------------
(* The cache.                                                              *)

\* Contexts of other runs push this one out.
Evict ==
    /\ left > 0 /\ cache # None
    /\ left' = left - 1
    /\ removeWorkflowContext(cache)
    /\ UNCHANGED <<srv, ctx, proc, released>>

\* The last worker releases its lease, which clears the cache.
Release ==
    /\ left > 0 /\ ~released
    /\ left' = left - 1
    /\ released' = TRUE
    /\ IF cache = None THEN UNCHANGED <<cache, evicting>> ELSE removeWorkflowContext(cache)
    /\ UNCHANGED <<srv, ctx, proc>>

onEviction(c) ==
    /\ c \in evicting
    /\ ctx[c].owner = None
    /\ ctx' = [ctx EXCEPT ![c] = clearState(@)]
    /\ evicting' = evicting \ {c}
    /\ UNCHANGED <<srv, proc, cache, released, left>>

-----------------------------------------------------------------------------
(* The server's own steps.                                                 *)

PollTask(p) ==
    /\ At(p, "idle")
    /\ srv.wft = "scheduled"
    /\ srv' = Start(srv, p)
    /\ proc' = [proc EXCEPT ![p] = [Idle EXCEPT !.pc = "lookup", !.task = NewTask(Start(srv, p))]]
    /\ UNCHANGED <<ctx, cache, evicting, released, left>>

\* A query goes to the sticky queue without history, or to the normal queue with
\* all of it.
PollQuery(p) ==
    /\ At(p, "idle")
    /\ left > 0
    /\ srv.wft = "none" /\ srv.prevStarted > 0
    /\ left' = left - 1
    /\ proc' = [proc EXCEPT ![p] = [Idle EXCEPT !.pc = "lookup",
            !.task = [query |-> TRUE, first |-> 1, all |-> <<>>, started |-> 0, attempt |-> 0,
                      evs |-> IF srv.sticky THEN <<>> ELSE srv.events]]]
    /\ UNCHANGED <<srv, ctx, cache, evicting, released>>

Signal ==
    /\ left > 0 /\ ~srv.closed
    /\ left' = left - 1
    /\ srv' = CASE srv.wft = "none" -> Schedule([srv EXCEPT !.events = Append(@, "signal")])
                [] srv.wft = "scheduled" /\ srv.kind # "speculative" ->
                        [srv EXCEPT !.events = Append(@, "signal")]
                [] srv.wft = "started" \/ srv.kind = "speculative" ->
                        [srv EXCEPT !.buffered = @ + 1]
    /\ UNCHANGED <<ctx, proc, cache, evicting, released>>

\* An update without other work gets a speculative task.
Update ==
    /\ left > 0 /\ ~srv.closed
    /\ srv.wft = "none"
    /\ left' = left - 1
    /\ srv' = [srv EXCEPT !.wft = "scheduled", !.kind = "speculative"]
    /\ UNCHANGED <<ctx, proc, cache, evicting, released>>

\* The started task times out.
Timeout ==
    /\ srv.wft = "started"
    /\ IF \E p \in Procs : proc[p].pc # "idle" /\ ~proc[p].task.query /\ Current(p)
       THEN left > 0 /\ left' = left - 1
       ELSE UNCHANGED left
    /\ srv' = Fail(srv, "timedout")
    /\ UNCHANGED <<ctx, proc, cache, evicting, released>>

\* Nobody polls the sticky queue in time; the task goes to the normal one.
StickyTimeout ==
    /\ left > 0
    /\ srv.wft = "scheduled" /\ srv.sticky
    /\ left' = left - 1
    /\ srv' = IF srv.kind = "normal"
              THEN Schedule([srv EXCEPT !.events = Append(@, "timedout"), !.sticky = FALSE])
              ELSE [srv EXCEPT !.sticky = FALSE]
    /\ UNCHANGED <<ctx, proc, cache, evicting, released>>

\* Another host completes a task of the normal queue.
OtherHost ==
    /\ left > 0
    /\ srv.wft = "scheduled" /\ ~srv.sticky
    /\ left' = left - 1
    /\ srv' = [Complete(Start(srv, None), "command") EXCEPT !.sticky = FALSE]
    /\ UNCHANGED <<ctx, proc, cache, evicting, released>>

-----------------------------------------------------------------------------
Init ==
    /\ srv = [events |-> <<"begin", "scheduled">>, wft |-> "scheduled", kind |-> "normal",
              holder |-> None, prevStarted |-> 0, sticky |-> FALSE,
              buffered |-> 0, closed |-> FALSE]
    /\ ctx = [c \in Ctxs |-> [alive |-> FALSE, prev |-> 0, last |-> 0, applied |-> <<>>,
                              unsent |-> FALSE, owner |-> None, cached |-> FALSE]]
    /\ proc = [p \in Procs |-> Idle]
    /\ cache = None
    /\ evicting = {}
    /\ released = FALSE
    /\ left = MaxEvents

Handle(p) ==
    \/ Lookup(p) \/ Lock(p) \/ Create(p) \/ CreateFails(p) \/ Put(p) \/ LockNew(p) \/ Process(p)
    \/ RespondQuery(p) \/ RespondFailed(p) \/ RespondUnsent(p) \/ RespondError(p)
    \/ RespondCompleted(p) \/ RespondDropped(p) \/ Unlock(p)

Next ==
    \/ \E p \in Procs : Handle(p) \/ PollTask(p) \/ PollQuery(p)
    \/ \E c \in Ctxs : onEviction(c)
    \/ Evict \/ Release
    \/ Signal \/ Update \/ Timeout \/ StickyTimeout \/ OtherHost

Spec == Init /\ [][Next]_vars

\* Some goroutine that can run does (no fairness between them is needed): a
\* processor, a poller or an eviction; and the server times out a started task
\* that nobody answers.
Runs ==
    \/ \E p \in Procs : Handle(p) \/ PollTask(p)
    \/ \E c \in Ctxs : onEviction(c)
    \/ Timeout

FairSpec == Spec /\ WF_vars(Runs)

-----------------------------------------------------------------------------
(* Properties.                                                             *)

Responding(p) == At(p, "respond") /\ proc[p].out # "error"
State(p) == ctx[proc[p].ctx].applied

\* The context that completes a task has applied the run's history up to this
\* task, each event once and in order, whatever was cached, evicted, fetched
\* again, dropped or completed elsewhere before.
StateIsHistory ==
    \A p \in Procs : Responding(p) /\ ~proc[p].task.query
                        => State(p) = Meaning(proc[p].task.all)

\* A query answered from a cached context sees the state of a task that the
\* server has accepted (or, if its completion could not be encoded, has recorded
\* as failed); one answered from a rebuilt context sees the history it
\* was rebuilt from.
Accepted(n) ==
    \E k \in 1..n : /\ srv.events[k] = "started"
                    /\ k < Len(srv.events) /\ srv.events[k + 1] = "completed"
                    /\ \A i \in k+1..n : srv.events[i] \in {"completed", "command"}
QueriesSeeHistory ==
    \A p \in Procs : Responding(p) /\ proc[p].task.query =>
        IF proc[p].task.evs = <<>>
        THEN \/ ctx[proc[p].ctx].unsent
             \/ \E n \in DOMAIN srv.events : /\ Accepted(n)
                                             /\ State(p) = Meaning(SubSeq(srv.events, 1, n))
        ELSE State(p) = Meaning(proc[p].task.evs)

\* A context that is in no cache, is held or awaited by no processor and is not
\* being evicted is cleared: its coroutines do not stay behind.
NoContextLeaks ==
    \A c \in Ctxs : /\ c # cache /\ c \notin evicting
                    /\ \A p \in Procs : proc[p].ctx # c
                    => ctx[c].applied = <<>>

\* Once requests and faults end, every workflow task gets answered, and every
\* processor returns: no task is refused, fetched again or discarded for ever.
TasksAreAnswered == <>[](srv.wft = "none" /\ \A p \in Procs : At(p, "idle"))
=============================================================================
