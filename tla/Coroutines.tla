----------------------------- MODULE Coroutines -----------------------------
(***************************************************************************)
(* The coroutines of one workflow (internal_workflow.go): the dispatcher   *)
(* that runs them one at a time until all are blocked, channels, futures,  *)
(* selectors, mutexes, and the coroutines of update handlers               *)
(* (internal_update.go).                                                   *)
(*                                                                         *)
(* A coroutine runs until it yields, so an operation is one step, and      *)
(* between two operations nothing else runs.  Workflow code is any         *)
(* sequence of operations, at most MaxOps besides spawning.  A future is   *)
(* an unbuffered channel that is only closed.  A value is the serial       *)
(* number of the send that offers it.  The callback of a receive branch    *)
(* receives the value it is told of, as AddReceive asks, and does nothing  *)
(* when told that the channel is closed.                                   *)
(* SDKFlagBlockedSelectorSignalReceive,                                    *)
(* SDKFlagWorkflowNewChannelLostMessages and SDKPriorityUpdateHandling are *)
(* set, as they are for new workflows.                                     *)
(***************************************************************************)
EXTENDS Naturals, Sequences, FiniteSets, SequencesExt, TLC

CONSTANTS
    NumCoros,       \* bound on coroutines; the first is the root
    Chans,          \* channels
    Futures,        \* futures
    SignalChans,    \* the channels signals arrive on
    Size,           \* capacity of each channel
    Selectors,      \* selectors, each with
    Cases,          \*   its branches, on different channels,
    Default,        \*   and "none", "returns", or the channel its default receives
    Operations,     \* the kinds of operation the code uses
    MaxOps,         \* bound on the operations
    MaxSends,       \* bound on the values sent
    UpdateNames,    \* names of update handlers
    MaxUpdates,     \* bound on the updates
    CloseUnderSelect, \* may a channel be closed while a selector waits for it
    ShareDefault,   \* may others wait for a channel beside a selector in its default branch
    None

Coros  == 1..NumCoros
Vals   == 1..MaxSends
Nil    == 0         \* the nil value the close callback passes
AllChans == Chans \cup Futures

ASSUME CoroutinesAssumption ==
    /\ NumCoros \in Nat \ {0} /\ MaxOps \in Nat /\ MaxSends \in Nat /\ MaxUpdates \in Nat
    /\ Size \in [AllChans -> Nat]
    /\ \A f \in Futures : Size[f] = 0
    /\ SignalChans \subseteq Chans /\ \A ch \in SignalChans : Size[ch] >= MaxSends
    /\ {CloseUnderSelect, ShareDefault} \subseteq BOOLEAN
    /\ None \notin Nat \cup AllChans \cup Selectors

VARIABLES
    chans,      \* channelImpl: buffer, recValue, closed, blocked receives and sends
    coro,       \* coroutineState: the operation the coroutine is in, keptBlocked
    live,       \* selector -> branches whose function is not nil
    disp,       \* dispatcherImpl
    locked,     \* mutexImpl
    upd,        \* updates: registered handlers, queued requests
    left,       \* operations the code may still use
    hist        \* what the properties look back on
vars == <<chans, coro, live, disp, locked, upd, left, hist>>

-----------------------------------------------------------------------------
(* Channels.  The operators map a world, the record of all channels and    *)
(* coroutines, to the next one: a callback changes the coroutine that      *)
(* waits.  A callback is [co, case]; case 0 is a plain Receive or Send.    *)

\* Fault: a selector that has a ready branch takes another value.
WillingAlways(w, cb) == TRUE

\* A selector that has a ready branch refuses; Receive and Send never do.
Willing(w, cb) == cb.case = 0 \/ w.co[cb.co].ready = 0

FirstWilling(w, q) ==
    LET W == {i \in DOMAIN q : Willing(w, q[i])}
    IN  IF W = {} THEN 0 ELSE CHOOSE i \in W : \A j \in W : i <= j

AfterIndex(q, i) == SubSeq(q, i + 1, Len(q))

HasDefault(w, cb) ==
    w.co[cb.co].sel # None /\ Default[w.co[cb.co].sel] # "none"

\* Fault: the value is never stored before the branch runs.
ReceiveCallbackLate(w, c, cb, v, more) ==
    IF cb.case = 0
    THEN [w EXCEPT !.co[cb.co].has = TRUE, !.co[cb.co].val = v, !.co[cb.co].more = more]
    ELSE [w EXCEPT !.co[cb.co].ready = cb.case, !.co[cb.co].bval = v, !.co[cb.co].bmore = more]

\* The callback of a blocked receive.  With a default branch it stores the
\* value in the channel at once; without one the branch does when it runs.
ReceiveCallback(w, c, cb, v, more) ==
    IF cb.case = 0
    THEN [w EXCEPT !.co[cb.co].has = TRUE, !.co[cb.co].val = v, !.co[cb.co].more = more]
    ELSE [w EXCEPT !.co[cb.co].ready = cb.case, !.co[cb.co].bval = v,
                   !.co[cb.co].bmore = more,
                   !.ch[c].recValue = IF HasDefault(w, cb) /\ c \in Chans
                                      THEN v ELSE @]

\* The callback of a blocked send, whose value has been consumed.
SendCallback(w, cb) ==
    IF cb.case = 0 THEN [w EXCEPT !.co[cb.co].has = TRUE]
                   ELSE [w EXCEPT !.co[cb.co].ready = cb.case]

receiveAsyncImpl(w, c, cb) ==
    LET ch == w.ch[c]
        k  == FirstWilling(w, ch.sends)
        rest == IF k = 0 THEN <<>> ELSE AfterIndex(ch.sends, k)
        told == IF k = 0 THEN w ELSE SendCallback(w, ch.sends[k])
    IN  IF ch.recValue # None
        THEN [w |-> [w EXCEPT !.ch[c].recValue = None],
              v |-> ch.recValue, ok |-> TRUE, more |-> TRUE]
        ELSE IF ch.buffer # <<>>
        THEN [w |-> [told EXCEPT !.ch[c].sends = rest,
                                 !.ch[c].buffer = IF k = 0 THEN Tail(@)
                                                  ELSE Append(Tail(@), ch.sends[k].val)],
              v |-> Head(ch.buffer), ok |-> TRUE, more |-> TRUE]
        ELSE IF ch.closed
        THEN [w |-> w, v |-> Nil, ok |-> FALSE, more |-> FALSE]
        ELSE IF k # 0
        THEN [w |-> [told EXCEPT !.ch[c].sends = rest],
              v |-> ch.sends[k].val, ok |-> TRUE, more |-> TRUE]
        ELSE [w |-> [w EXCEPT !.ch[c].sends = <<>>,
                              !.ch[c].receives = IF cb = None THEN @ ELSE Append(@, cb)],
              v |-> Nil, ok |-> FALSE, more |-> TRUE]

\* The channel is open: a send on a closed one panics before this.
sendAsyncImpl(w, c, v, cb) ==
    LET ch == w.ch[c]
        k  == FirstWilling(w, ch.receives)
        shift == [w EXCEPT !.ch[c].receives = IF k = 0 THEN <<>> ELSE AfterIndex(@, k)]
    IN  IF k # 0
        THEN [w |-> ReceiveCallback(shift, c, ch.receives[k], v, TRUE), ok |-> TRUE]
        ELSE IF Len(ch.buffer) < Size[c]
        THEN [w |-> [shift EXCEPT !.ch[c].buffer = Append(@, v)], ok |-> TRUE]
        ELSE [w |-> [shift EXCEPT !.ch[c].sends =
                        IF cb = None THEN @
                        ELSE Append(@, [co |-> cb.co, case |-> cb.case, val |-> v])],
              ok |-> FALSE]

\* Close tells every callback that wants to know.  It leaves them in the list,
\* where only another Close could find them and tell them the same again.
CloseChan(w, c) ==
    FoldLeft(LAMBDA x, cb : IF Willing(x, cb) THEN ReceiveCallback(x, c, cb, Nil, FALSE)
                                              ELSE x,
             [w EXCEPT !.ch[c].closed = TRUE, !.ch[c].receives = <<>>], w.ch[c].receives)

\* The cleanups of Select: removeReceiveCallback and removeSendCallback.
Cleanup(w, co) ==
    [w EXCEPT !.ch = [c \in AllChans |->
        [@[c] EXCEPT !.receives = SelectSeq(@, LAMBDA cb : cb.co # co \/ cb.case = 0),
                     !.sends    = SelectSeq(@, LAMBDA cb : cb.co # co \/ cb.case = 0)]]]

World == [ch |-> chans, co |-> coro]

-----------------------------------------------------------------------------
(* The dispatcher.                                                         *)

\* The coroutine that was called has yielded or ended: closed ones leave the
\* list, coroutines spawned with high priority come next.
AfterCall(d, kept, closed) ==
    LET rest == IF closed THEN RemoveAt(d.list, d.i) ELSE d.list
        next == IF closed THEN d.i ELSE d.i + 1
    IN  [d EXCEPT !.list = SubSeq(rest, 1, next - 1) \o d.eager \o AfterIndex(rest, next - 1),
                  !.eager = <<>>, !.i = next, !.cur = None,
                  !.allBlocked = @ /\ ~closed /\ kept /\ d.eager = <<>>]

StartRound(d) ==
    [d EXCEPT !.st = "round", !.list = d.eager \o d.list, !.eager = <<>>,
              !.i = 1, !.allBlocked = TRUE, !.last = d.seq]

\* Fault: the priority of an update's coroutine is ignored.
newStateInOrder(d, eager) == [d EXCEPT !.seq = @ + 1, !.list = Append(@, d.seq + 1)]

newState(d, eager) ==
    [d EXCEPT !.seq = @ + 1,
              !.list = IF eager THEN @ ELSE Append(@, d.seq + 1),
              !.eager = IF eager THEN Append(@, d.seq + 1) ELSE @]

\* The update requests in names, spawned in that order.
SpawnUpdates(d, names) == FoldLeft(LAMBDA x, n : newState(x, TRUE), d, names)
WithUpdates(co, d, names) ==
    [c \in Coros |-> IF c \in (d.seq + 1)..(d.seq + Len(names))
                     THEN [co[c] EXCEPT !.st = "start", !.upd = names[c - d.seq]]
                     ELSE co[c]]
Room == disp.seq + Len(upd.queue) < NumCoros

\* ExecuteUntilAllBlocked is called when something has happened outside.
Execute ==
    /\ disp.st = "idle"
    /\ disp.woken
    /\ disp' = [StartRound(disp) EXCEPT !.woken = FALSE]
    /\ UNCHANGED <<chans, coro, live, locked, upd, left, hist>>

\* The end of a round: another one follows unless nothing moved and no update
\* waits for a handler (DrainUnhandledUpdates lets those run, to be rejected).
EndRound ==
    /\ disp.st = "round" /\ disp.cur = None /\ disp.i > Len(disp.list)
    /\ IF disp.allBlocked /\ disp.last = disp.seq
       THEN \E p \in Permutations(DOMAIN upd.queue) :
              LET names == [i \in DOMAIN upd.queue |-> upd.queue[p[i]]]
              IN  /\ coro' = WithUpdates(coro, disp, names)
                  /\ disp' = IF names = <<>> THEN [disp EXCEPT !.st = "idle"]
                             ELSE StartRound(SpawnUpdates(disp, names))
                  /\ upd' = [upd EXCEPT !.queue = <<>>]
       ELSE /\ disp' = StartRound(disp)
            /\ UNCHANGED <<coro, upd>>
    /\ UNCHANGED <<chans, live, locked, left, hist>>

Running(c) == disp.st = "round" /\ disp.cur = c /\ coro[c].st = "run"
Called(c)  == disp.st = "round" /\ disp.cur = None /\ disp.i <= Len(disp.list)
              /\ disp.list[disp.i] = c

\* A blocked coroutine is called and finds that it is still blocked.
StillBlocked(c) ==
    /\ Called(c)
    /\ \/ coro[c].st = "recv" /\ ~coro[c].has
       \/ coro[c].st = "send" /\ ~coro[c].has /\ ~chans[coro[c].ch].closed
       \/ coro[c].st = "select" /\ coro[c].ready = 0
       \/ coro[c].st = "lock" /\ locked
    /\ coro' = [coro EXCEPT ![c].kept = TRUE]
    /\ disp' = AfterCall(disp, TRUE, FALSE)
    /\ UNCHANGED <<chans, live, locked, upd, left, hist>>

\* The coroutine goes on running in world w, having completed an operation.
GoOn(w, c) ==
    /\ chans' = w.ch
    /\ coro' = [w.co EXCEPT ![c].st = "run", ![c].sel = None, ![c].ch = None,
                            ![c].has = FALSE, ![c].val = Nil, ![c].more = FALSE,
                            ![c].ready = 0, ![c].bval = Nil, ![c].bmore = FALSE]
\* Fault: the call to unblocked() is missing.
ResumeStillBlocked(w, c) ==
    /\ GoOn(w, c)
    /\ disp' = [disp EXCEPT !.cur = c]

Resume(w, c) ==
    /\ GoOn([w EXCEPT !.co[c].kept = FALSE], c)
    /\ disp' = [disp EXCEPT !.cur = c]

\* A panic ends ExecuteUntilAllBlocked and the workflow.
Panic == disp' = [disp EXCEPT !.st = "failed"]

Delivered(h, ch, v) ==
    IF v = Nil THEN h ELSE [h EXCEPT !.delivered[ch] = @ \cup {v}]

-----------------------------------------------------------------------------
(* Operations of the running coroutine.                                    *)

Uses(c, kind) ==
    /\ Running(c)
    /\ kind \in Operations
    /\ left > 0
    /\ left' = left - 1

\* A selector whose default branch blocks is among several that wait for ch.
SharesDefault(w, ch) ==
    LET q == w.ch[ch].receives
    IN  Len(q) > 1 /\ \E i \in DOMAIN q : q[i].case # 0 /\ HasDefault(w, q[i])

\* The operation in world w blocks: the coroutine yields.
Block(w, c) ==
    /\ ShareDefault \/ \A ch \in Chans : ~SharesDefault(w, ch)
    /\ chans' = w.ch
    /\ coro' = w.co
    /\ disp' = AfterCall(disp, coro[c].kept, FALSE)

Receive(c, ch) ==
    /\ Uses(c, "receive")
    /\ LET r == receiveAsyncImpl(World, ch, [co |-> c, case |-> 0])
       IN  IF r.ok \/ ~r.more
           THEN /\ GoOn(r.w, c)
                /\ hist' = Delivered(hist, ch, r.v)
                /\ UNCHANGED disp
           ELSE /\ Block([r.w EXCEPT !.co[c].st = "recv", !.co[c].ch = ch], c)
                /\ UNCHANGED hist
    /\ UNCHANGED <<live, locked, upd>>

ReceiveAsync(c, ch) ==
    /\ Uses(c, "receiveAsync")
    /\ LET r == receiveAsyncImpl(World, ch, None)
       IN  /\ GoOn(r.w, c)
           /\ hist' = Delivered(hist, ch, r.v)
    /\ UNCHANGED <<live, disp, locked, upd>>

Send(c, ch) ==
    /\ Uses(c, "send")
    /\ hist.next <= MaxSends
    /\ IF chans[ch].closed
       THEN Panic /\ UNCHANGED <<chans, coro, hist>>
       ELSE LET r == sendAsyncImpl(World, ch, hist.next, [co |-> c, case |-> 0])
            IN  IF r.ok
                THEN /\ GoOn(r.w, c)
                     /\ hist' = [hist EXCEPT !.next = @ + 1, !.sent[ch] = @ \cup {hist.next}]
                     /\ UNCHANGED disp
                ELSE /\ Block([r.w EXCEPT !.co[c].st = "send", !.co[c].ch = ch,
                                          !.co[c].val = hist.next], c)
                     /\ hist' = [hist EXCEPT !.next = @ + 1]
    /\ UNCHANGED <<live, locked, upd>>

\* The branches of a Select, tried in order: the first that is ready is hit,
\* the ones before it leave a callback in their channel.
TryCases(c, s, w0) ==
    LET Try(a, k) ==
            LET b  == Cases[s][k]
                cb == [co |-> c, case |-> k]
                r  == receiveAsyncImpl(a.w, b.ch, cb)
                t  == sendAsyncImpl(a.w, b.ch, hist.next, cb)
            IN  IF a.hit # 0 \/ k \notin live[s] THEN a
                ELSE CASE b.kind = "receive" ->
                            [a EXCEPT !.w = r.w, !.v = r.v, !.more = r.more,
                                      !.hit = IF r.ok \/ ~r.more THEN k ELSE 0]
                       [] b.kind = "future" ->
                            [a EXCEPT !.w = r.w, !.hit = IF r.more THEN 0 ELSE k]
                       [] b.kind = "send" ->
                            IF a.w.ch[b.ch].closed THEN [a EXCEPT !.hit = k, !.panic = TRUE]
                            ELSE [a EXCEPT !.w = t.w, !.hit = IF t.ok THEN k ELSE 0]
    IN  FoldLeft(Try, [w |-> w0, hit |-> 0, v |-> Nil, more |-> TRUE, panic |-> FALSE],
                 [k \in DOMAIN Cases[s] |-> k])

\* What the function of branch k of s does, called with more: bookkeeping of
\* what it was told, and the value it receives or has sent.
BranchHist(s, k, v, more) ==
    LET b == Cases[s][k]
        h == IF <<s, k>> \in hist.told THEN [hist EXCEPT !.again = TRUE] ELSE hist
    IN  CASE b.kind = "receive" /\ more  -> Delivered(h, b.ch, v)
          [] b.kind = "receive" /\ ~more -> [h EXCEPT !.told = @ \cup {<<s, k>>}]
          [] b.kind = "send"   -> [h EXCEPT !.sent[b.ch] = @ \cup {v}]
          [] b.kind = "future" -> h

HasSend(s) == \E k \in live[s] : Cases[s][k].kind = "send"

Select(c, s) ==
    /\ Uses(c, "select")
    /\ HasSend(s) => hist.next <= MaxSends
    /\ LET a == TryCases(c, s, [World EXCEPT !.co[c].sel = s])
           b == Cases[s][a.hit]
           d == receiveAsyncImpl(a.w, Default[s], [co |-> c, case |-> 0])
       IN  \/ /\ a.panic
              /\ Panic
              /\ UNCHANGED <<chans, coro, live, hist>>
           \/ /\ ~a.panic /\ a.hit # 0
              /\ GoOn(Cleanup(a.w, c), c)
              /\ hist' = IF b.kind = "send"
                         THEN [BranchHist(s, a.hit, hist.next, TRUE) EXCEPT !.next = @ + 1]
                         ELSE BranchHist(s, a.hit, a.v, a.more)
              /\ live' = IF b.kind = "future" \/ (b.kind = "receive" /\ ~a.more)
                         THEN [live EXCEPT ![s] = @ \ {a.hit}] ELSE live
              /\ UNCHANGED disp
           \/ /\ a.hit = 0 /\ Default[s] = "none"
              /\ Block([a.w EXCEPT !.co[c].st = "select", !.co[c].val = hist.next], c)
              /\ hist' = IF HasSend(s) THEN [hist EXCEPT !.next = @ + 1] ELSE hist
              /\ UNCHANGED live
           \/ /\ a.hit = 0 /\ Default[s] = "returns"
              /\ GoOn(Cleanup(a.w, c), c)
              /\ UNCHANGED <<live, disp, hist>>
           \/ /\ a.hit = 0 /\ Default[s] \in Chans
              /\ UNCHANGED live
              /\ IF d.ok \/ ~d.more
                 THEN /\ GoOn(Cleanup(d.w, c), c)
                      /\ hist' = Delivered(hist, Default[s], d.v)
                      /\ UNCHANGED disp
                 ELSE /\ Block([d.w EXCEPT !.co[c].st = "recv", !.co[c].ch = Default[s]], c)
                      /\ UNCHANGED hist
    /\ UNCHANGED <<locked, upd>>

\* A selector waits for this channel or future.
UnderSelect(c) == \E i \in DOMAIN chans[c].receives : chans[c].receives[i].case # 0

Close(c, ch) ==
    /\ Uses(c, "close")
    /\ ch \in Futures => ~chans[ch].closed      \* Set panics on a future that is set
    /\ CloseUnderSelect \/ ch \in Futures \/ ~UnderSelect(ch)
    /\ GoOn(CloseChan(World, ch), c)
    /\ UNCHANGED <<live, disp, locked, upd, hist>>

\* Mutex.Lock: Await returns at once or yields until the mutex is free.
Lock(c) ==
    /\ Uses(c, "lock")
    /\ ~coro[c].holds
    /\ IF locked
       THEN /\ Block([World EXCEPT !.co[c].st = "lock"], c)
            /\ UNCHANGED locked
       ELSE /\ GoOn([World EXCEPT !.co[c].holds = TRUE], c)
            /\ locked' = TRUE
            /\ UNCHANGED disp
    /\ UNCHANGED <<live, upd, hist>>

Unlock(c) ==
    /\ Running(c)
    /\ coro[c].holds
    /\ GoOn([World EXCEPT !.co[c].holds = FALSE], c)
    /\ locked' = FALSE
    /\ UNCHANGED <<live, disp, upd, left, hist>>

\* workflow.Go.
Spawn(c) ==
    /\ Running(c)
    /\ "spawn" \in Operations
    /\ Room
    /\ GoOn([World EXCEPT !.co[disp.seq + 1].st = "start"], c)
    /\ disp' = newState(disp, FALSE)
    /\ UNCHANGED <<live, locked, upd, left, hist>>

\* setUpdateHandler: the queued requests of this name are spawned, and the
\* coroutine yields for them to run.
SetUpdateHandler(c, n) ==
    /\ Uses(c, "update")
    /\ LET names == SelectSeq(upd.queue, LAMBDA m : m = n)
       IN  /\ coro' = WithUpdates([coro EXCEPT ![c].st = "yield"], disp, names)
           /\ disp' = AfterCall(SpawnUpdates(disp, names), coro[c].kept, FALSE)
    /\ upd' = [upd EXCEPT !.handlers = @ \cup {n},
                          !.queue = SelectSeq(@, LAMBDA m : m # n)]
    /\ UNCHANGED <<chans, live, locked, hist>>

\* The function returns.
Return(c) ==
    /\ Running(c)
    /\ coro' = [coro EXCEPT ![c].st = "done"]
    /\ disp' = AfterCall(disp, coro[c].kept, TRUE)
    /\ UNCHANGED <<chans, live, locked, upd, left, hist>>

-----------------------------------------------------------------------------
(* A coroutine is called and can go on.                                    *)

\* The first call.  The coroutine of an update runs updateRunner up to the
\* handler: the update is rejected if no handler is registered or its validator
\* refuses, and accepted otherwise.
Begin(c) ==
    /\ Called(c)
    /\ coro[c].st = "start"
    /\ \/ /\ coro[c].upd \in upd.handlers \cup {None}
          /\ coro' = [coro EXCEPT ![c].st = "run"]
          /\ disp' = [disp EXCEPT !.cur = c]
       \/ /\ coro[c].upd # None
          /\ coro' = [coro EXCEPT ![c].st = "done"]
          /\ disp' = AfterCall(disp, coro[c].kept, TRUE)
    /\ UNCHANGED <<chans, live, locked, upd, left, hist>>

ReceiveResumes(c) ==
    /\ Called(c)
    /\ coro[c].st = "recv" /\ coro[c].has
    /\ Resume(Cleanup(World, c), c)
    /\ hist' = Delivered(hist, coro[c].ch, coro[c].val)
    /\ UNCHANGED <<live, locked, upd, left>>

SendResumes(c) ==
    /\ Called(c)
    /\ coro[c].st = "send"
    /\ \/ /\ coro[c].has
          /\ Resume(World, c)
          /\ hist' = [hist EXCEPT !.sent[coro[c].ch] = @ \cup {coro[c].val}]
       \/ /\ ~coro[c].has /\ chans[coro[c].ch].closed
          /\ Panic
          /\ UNCHANGED <<chans, coro, hist>>
    /\ UNCHANGED <<live, locked, upd, left>>

\* readyBranch: a receive branch first puts the value into recValue, from
\* where its function receives it; told that the channel is closed, the
\* function leaves it there.
SelectResumes(c) ==
    /\ Called(c)
    /\ coro[c].st = "select" /\ coro[c].ready # 0
    /\ LET s == coro[c].sel
           k == coro[c].ready
           b == Cases[s][k]
           v == IF b.kind = "send" THEN coro[c].val ELSE coro[c].bval
           w == IF b.kind # "receive" THEN World
                ELSE [World EXCEPT !.ch[b.ch].recValue = IF coro[c].bmore THEN None ELSE v]
       IN  /\ Resume(Cleanup(w, c), c)
           /\ hist' = BranchHist(s, k, v, coro[c].bmore)
           /\ live' = IF b.kind = "future" THEN [live EXCEPT ![s] = @ \ {k}] ELSE live
    /\ UNCHANGED <<locked, upd, left>>

LockResumes(c) ==
    /\ Called(c)
    /\ coro[c].st = "lock" /\ ~locked
    /\ Resume([World EXCEPT !.co[c].holds = TRUE], c)
    /\ locked' = TRUE
    /\ UNCHANGED <<live, upd, left, hist>>

YieldResumes(c) ==
    /\ Called(c)
    /\ coro[c].st = "yield"
    /\ Resume(World, c)
    /\ UNCHANGED <<live, locked, upd, left, hist>>

-----------------------------------------------------------------------------
(* What happens outside, between two runs of the dispatcher.               *)

Outside == disp.st = "idle"
Wake(d) == [d EXCEPT !.woken = TRUE]

\* HandleSignal sends without blocking; the buffer is large enough.
Signal(ch) ==
    /\ Outside
    /\ hist.next <= MaxSends
    /\ LET r == sendAsyncImpl(World, ch, hist.next, None)
       IN  /\ chans' = r.w.ch
           /\ coro' = r.w.co
    /\ hist' = [hist EXCEPT !.next = @ + 1, !.sent[ch] = @ \cup {hist.next}]
    /\ disp' = Wake(disp)
    /\ UNCHANGED <<live, locked, upd, left>>

\* The result of an activity, timer or child settles its future.
SetFuture(f) ==
    /\ Outside
    /\ ~chans[f].closed
    /\ LET w == CloseChan(World, f)
       IN  /\ chans' = w.ch
           /\ coro' = w.co
    /\ disp' = Wake(disp)
    /\ UNCHANGED <<live, locked, upd, left, hist>>

\* defaultUpdateHandler: without any handler the request is queued.
ScheduleUpdate(n) ==
    /\ Outside
    /\ upd.requests < MaxUpdates
    /\ Room
    /\ IF upd.handlers = {}
       THEN /\ upd' = [upd EXCEPT !.requests = @ + 1, !.queue = Append(@, n)]
            /\ disp' = Wake(disp)
            /\ UNCHANGED coro
       ELSE /\ upd' = [upd EXCEPT !.requests = @ + 1]
            /\ coro' = WithUpdates(coro, disp, <<n>>)
            /\ disp' = Wake(SpawnUpdates(disp, <<n>>))
    /\ UNCHANGED <<chans, live, locked, left, hist>>

-----------------------------------------------------------------------------
Init ==
    /\ chans = [c \in AllChans |-> [buffer |-> <<>>, recValue |-> None, closed |-> FALSE,
                                    receives |-> <<>>, sends |-> <<>>]]
    /\ coro = [c \in Coros |->
                [st |-> IF c = 1 THEN "start" ELSE "none", ch |-> None, sel |-> None,
                 has |-> FALSE, val |-> Nil, more |-> FALSE,
                 ready |-> 0, bval |-> Nil, bmore |-> FALSE,
                 kept |-> FALSE, holds |-> FALSE,
                 upd |-> None]]
    /\ live = [s \in Selectors |-> DOMAIN Cases[s]]
    /\ disp = [st |-> "idle", list |-> <<1>>, eager |-> <<>>, seq |-> 1, i |-> 1,
               cur |-> None, allBlocked |-> FALSE, last |-> 0, woken |-> TRUE]
    /\ locked = FALSE
    /\ left = MaxOps
    /\ upd = [handlers |-> {}, queue |-> <<>>, requests |-> 0]
    /\ hist = [next |-> 1, sent |-> [c \in AllChans |-> {}],
               delivered |-> [c \in AllChans |-> {}], told |-> {}, again |-> FALSE]

Step(c) ==
    \/ StillBlocked(c) \/ Begin(c) \/ ReceiveResumes(c) \/ SendResumes(c)
    \/ SelectResumes(c) \/ LockResumes(c) \/ YieldResumes(c)
    \/ Lock(c) \/ Unlock(c) \/ Spawn(c) \/ Return(c)
    \/ \E ch \in AllChans : Receive(c, ch)
    \/ \E ch \in AllChans \ SignalChans : Close(c, ch)
    \/ \E ch \in Chans : ReceiveAsync(c, ch)
    \/ \E ch \in Chans \ SignalChans : Send(c, ch)
    \/ \E s \in Selectors : Select(c, s)
    \/ \E n \in UpdateNames : SetUpdateHandler(c, n)

Next ==
    \/ Execute \/ EndRound
    \/ \E c \in Coros : Step(c)
    \/ \E ch \in SignalChans : Signal(ch)
    \/ \E f \in Futures : SetFuture(f)
    \/ \E n \in UpdateNames : ScheduleUpdate(n)

Spec == Init /\ [][Next]_vars

-----------------------------------------------------------------------------
(* Properties.                                                             *)

\* Values a receiver has been given and has not returned with: the result of
\* a blocked Receive, the value of a selector's ready branch, recValue.
Hands(ch) ==
    {coro[c].val : c \in {d \in Coros : coro[d].st = "recv" /\ coro[d].ch = ch
                                        /\ coro[d].has /\ coro[d].more}}
    \cup {coro[c].bval : c \in {d \in Coros :
            /\ coro[d].st = "select" /\ coro[d].ready # 0 /\ coro[d].bmore
            /\ Cases[coro[d].sel][coro[d].ready] = [kind |-> "receive", ch |-> ch]}}
    \cup ({chans[ch].recValue} \ {None, Nil})

Queues == INSTANCE AbstractChannels
    WITH queue     <- [ch \in Chans |-> chans[ch].buffer],
         hands     <- [ch \in Chans |-> Hands(ch)],
         delivered <- [ch \in Chans |-> hist.delivered[ch]],
         closed    <- [ch \in Chans |-> chans[ch].closed]

\* Each channel, with all its blocked senders, receivers and selectors, is the
\* bounded queue of AbstractChannels: values are claimed in the order in which
\* they were accepted, none is lost, duplicated or invented.
ChannelsImplementQueues == Queues!Spec

\* A send that has returned had its value accepted: it is queued, in the hands
\* of a receiver, or delivered.
SentIsNotLost ==
    \A ch \in Chans :
        hist.sent[ch] \subseteq Range(chans[ch].buffer) \cup Hands(ch) \cup hist.delivered[ch]

WantsReceive(c, ch) ==
    \/ coro[c].st = "recv" /\ coro[c].ch = ch
    \/ /\ coro[c].st = "select"
       /\ \E k \in live[coro[c].sel] : /\ Cases[coro[c].sel][k].ch = ch
                                       /\ Cases[coro[c].sel][k].kind # "send"
WantsSend(c, ch) ==
    \/ coro[c].st = "send" /\ coro[c].ch = ch
    \/ /\ coro[c].st = "select"
       /\ \E k \in live[coro[c].sel] : Cases[coro[c].sel][k] = [kind |-> "send", ch |-> ch]

\* When ExecuteUntilAllBlocked returns, no coroutine waits for something that
\* is there: a value, a closed channel, room, a peer, a free mutex.  No update
\* is left waiting for a handler.
NoLostWakeup ==
    disp.st = "idle" /\ ~disp.woken =>
        /\ \A c \in Coros, ch \in AllChans :
            /\ WantsReceive(c, ch) => /\ chans[ch].buffer = <<>>
                                      /\ chans[ch].recValue = None
                                      /\ ~chans[ch].closed
                                      /\ \A d \in Coros : ~WantsSend(d, ch)
            /\ WantsSend(c, ch) => Len(chans[ch].buffer) = Size[ch]
            /\ coro[c].st = "send" /\ coro[c].ch = ch => ~chans[ch].closed
        /\ \A c \in Coros : /\ coro[c].st = "lock" => locked
                            /\ coro[c].st \notin {"run", "yield", "start"}
        /\ upd.queue = <<>>

\* While an update that has a coroutine waits for its first call, only other
\* updates run: it is handled before the workflow's own code, and at once when
\* its handler is registered (SDKPriorityUpdateHandling).
UpdatesRunFirst ==
    \A c, d \in Coros : Running(c) /\ coro[d].upd # None /\ coro[d].st = "start"
                           => coro[c].upd # None

\* Selector.AddReceive: "The branch is automatically removed after the channel
\* is closed and callback function is called once with more parameter set to
\* false."
ClosedBranchIsRemoved == ~hist.again
=============================================================================
