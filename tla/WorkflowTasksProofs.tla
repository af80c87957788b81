------------------------- MODULE WorkflowTasksProofs -------------------------
(***************************************************************************)
(* Proofs about WorkflowTasks, for any number of processors and contexts,  *)
(* requests, faults and evictions: a context is processed by one processor *)
(* at a time, and none that is in no cache and in nobody's hands keeps its *)
(* state.                                                                  *)
(*                                                                         *)
(* What events a context has applied is left open: it matters only whether *)
(* it has applied any.                                                     *)
(***************************************************************************)
EXTENDS WorkflowTasks, TLAPS

Pcs == {"idle", "lookup", "lock", "create", "put", "locknew", "process", "respond", "unlock"}
Unlocked == {"idle", "lookup", "create"}
Processing == {"process", "respond", "unlock"}

CtxFields == {"alive", "prev", "last", "applied", "unsent", "owner", "cached"}
ProcFields == {"pc", "task", "ctx", "out", "err"}

\* A processor has a context unless it still looks for one.
ProcAt(p) ==
    /\ DOMAIN proc[p] = ProcFields /\ proc[p].pc \in Pcs
    /\ IF proc[p].pc \in Unlocked THEN proc[p].ctx = None ELSE proc[p].ctx \in Ctxs
    /\ proc[p].pc \in {"lookup", "lock", "create"} => "query" \in DOMAIN proc[p].task
CtxsOK == ctx = [c \in Ctxs |-> ctx[c]] /\ \A c \in Ctxs : DOMAIN ctx[c] = CtxFields
ProcsOK == proc = [p \in Procs |-> proc[p]] /\ \A p \in Procs : ProcAt(p)
CacheOK == cache \in Ctxs \cup {None} /\ evicting \subseteq Ctxs
Shape == CtxsOK /\ ProcsOK /\ CacheOK

\* A processor has the lock of the context it processes, which nobody destroys.
LockedAt(p) ==
    proc[p].pc \in Processing => ctx[proc[p].ctx].owner = p /\ ctx[proc[p].ctx].alive

\* A context that its creator has not put yet, or does not put, is the creator's alone.
Own(p) == proc[p].pc = "put" \/ (proc[p].pc = "locknew" /\ proc[p].task.query)
PrivateAt(p) ==
    /\ Own(p) => /\ proc[p].ctx # cache /\ proc[p].ctx \notin evicting
                 /\ \A q \in Procs \ {p} : proc[q].ctx # proc[p].ctx
                 /\ ~ctx[proc[p].ctx].cached
    /\ proc[p].pc = "put" => ~proc[p].task.query /\ ctx[proc[p].ctx].applied = <<>>

\* A context marked as cached is in the cache, is being evicted, or is destroyed.
CachedAt(c) == ctx[c].alive /\ ctx[c].cached => c = cache \/ c \in evicting

\* A context that nobody knows is cleared.
ClearAt(c) ==
    c # cache /\ c \notin evicting /\ (\A p \in Procs : proc[p].ctx # c) => ctx[c].applied = <<>>

Inv == /\ Shape
       /\ \A p \in Procs : LockedAt(p) /\ PrivateAt(p)
       /\ \A c \in Ctxs : CachedAt(c) /\ ClearAt(c)

-----------------------------------------------------------------------------
(* A step is one of processor p, or of nobody in Procs, and changes at     *)
(* most context x, or none if x is not in Ctxs.                            *)

\* Processor p moves on with context c, the others stay.
Turn(p, pc, c) ==
    /\ proc' = [q \in Procs |-> proc'[q]]
    /\ \A q \in Procs \ {p} : proc'[q] = proc[q]
    /\ DOMAIN proc'[p] = ProcFields /\ proc'[p].pc = pc /\ proc'[p].ctx = c

\* Only context x changes.
Change(x) ==
    /\ ctx' = [d \in Ctxs |-> ctx'[d]]
    /\ x \in Ctxs => DOMAIN ctx'[x] = CtxFields
    /\ \A d \in Ctxs \ {x} : ctx'[d] = ctx[d]

\* x is not what another processor has for itself, nor is it taken from one that
\* processes it.
Others(p, x) ==
    \A q \in Procs \ {p} :
        /\ Own(q) => /\ proc[q].ctx # x /\ proc[q].ctx # cache' /\ proc[q].ctx \notin evicting'
                     /\ p \in Procs => proc[q].ctx # proc'[p].ctx
        /\ proc[q].pc \in Processing /\ proc[q].ctx = x => ctx'[x].owner = q /\ ctx'[x].alive

\* Other contexts stay known to those who know them.
Knows(p, x) ==
    /\ \A d \in Ctxs \ {x} : d = cache \/ d \in evicting => d = cache' \/ d \in evicting'
    /\ p \in Procs => proc[p].ctx \in {None, x, proc'[p].ctx}

LEMMA ShapeKeeps ==
  ASSUME Shape, NEW p \in Procs, NEW pc \in Pcs, NEW c, Turn(p, pc, c),
         IF pc \in Unlocked THEN c = None ELSE c \in Ctxs,
         pc \in {"lookup", "lock", "create"} => "query" \in DOMAIN proc'[p].task,
         NEW x, Change(x), CacheOK'
  PROVE  Shape'
<1>1. CtxsOK'
  BY Zenon DEF Change, Shape, CtxsOK
<1>2. \A q \in Procs : ProcAt(q)'
  <2>1. ProcAt(p)'
    BY Zenon DEF Turn, ProcAt
  <2>2. ASSUME NEW q \in Procs \ {p} PROVE ProcAt(q)'
    BY Zenon DEF Turn, ProcAt, Shape, ProcsOK
  <2>. QED BY Zenon, <2>1, <2>2
<1>. QED BY Zenon, <1>1, <1>2 DEF Shape, ProcsOK, Turn

LEMMA InvKeeps ==
  ASSUME Inv, Shape', NEW p, NEW x,
         \A q \in Procs \ {p} : proc'[q] = proc[q],
         \A d \in Ctxs \ {x} : ctx'[d] = ctx[d],
         Others(p, x), Knows(p, x),
         p \in Procs => LockedAt(p)' /\ PrivateAt(p)',
         x \in Ctxs => CachedAt(x)' /\ ClearAt(x)'
  PROVE  Inv'
<1>1. ASSUME NEW q \in Procs \ {p} PROVE LockedAt(q)'
  <2>. SUFFICES ASSUME proc[q].pc \in Processing
                PROVE  ctx'[proc[q].ctx].owner = q /\ ctx'[proc[q].ctx].alive
    BY Zenon, <1>1 DEF LockedAt
  <2>1. proc[q].ctx \in Ctxs
    BY <1>1 DEF Inv, Shape, ProcsOK, ProcAt, Processing, Unlocked
  <2>2. ctx[proc[q].ctx].owner = q /\ ctx[proc[q].ctx].alive
    BY Zenon, <1>1 DEF Inv, LockedAt
  <2>. QED BY Zenon, <1>1, <2>1, <2>2 DEF Others
<1>2. ASSUME NEW q \in Procs \ {p} PROVE PrivateAt(q)'
  <2>. SUFFICES ASSUME Own(q)
                PROVE  /\ proc[q].ctx # cache' /\ proc[q].ctx \notin evicting'
                       /\ \A r \in Procs \ {q} : proc'[r].ctx # proc[q].ctx
                       /\ ~ctx'[proc[q].ctx].cached
                       /\ proc[q].pc = "put" => ~proc[q].task.query
                                                /\ ctx'[proc[q].ctx].applied = <<>>
    BY Zenon, <1>2 DEF PrivateAt, Own
  <2>1. proc[q].ctx \in Ctxs
    BY <1>2 DEF Inv, Shape, ProcsOK, ProcAt, Own, Unlocked
  <2>2. ctx'[proc[q].ctx] = ctx[proc[q].ctx]
    BY Zenon, <1>2, <2>1 DEF Others
  <2>3. PrivateAt(q)
    BY Zenon, <1>2 DEF Inv
  <2>4. ASSUME NEW r \in Procs \ {q} PROVE proc'[r].ctx # proc[q].ctx
    <3>1. CASE r = p
      BY Zenon, <1>2, <2>4, <3>1 DEF Others
    <3>2. CASE r # p
      BY Zenon, <2>3, <2>4, <3>2 DEF PrivateAt
    <3>. QED BY Zenon, <3>1, <3>2
  <2>. QED BY Zenon, <1>2, <2>2, <2>3, <2>4 DEF Others, PrivateAt
<1>3. ASSUME NEW d \in Ctxs \ {x} PROVE CachedAt(d)'
  BY Zenon, <1>3 DEF Inv, CachedAt, Knows
<1>4. ASSUME NEW d \in Ctxs \ {x} PROVE ClearAt(d)'
  <2>. SUFFICES ASSUME d # cache', d \notin evicting', \A q \in Procs : proc'[q].ctx # d
                PROVE  ctx'[d].applied = <<>>
    BY Zenon DEF ClearAt
  <2>1. d # cache /\ d \notin evicting
    BY Zenon, <1>4 DEF Knows
  <2>2. ASSUME NEW q \in Procs PROVE proc[q].ctx # d
    <3>1. CASE q = p
      BY <1>4, <3>1, WorkflowTasksAssumption DEF Knows
    <3>2. CASE q # p
      BY Zenon, <3>2
    <3>. QED BY Zenon, <3>1, <3>2
  <2>. QED BY Zenon, <1>4, <2>1, <2>2 DEF Inv, ClearAt
<1>. QED BY Zenon, <1>1, <1>2, <1>3, <1>4 DEF Inv

-----------------------------------------------------------------------------
(* The steps of a processor.                                               *)

\* Where a processor is, as the provers need it.
LEMMA HasContext ==
  ASSUME Inv, NEW p \in Procs
  PROVE  /\ proc[p].pc \in Pcs
         /\ proc[p].pc \notin Unlocked => proc[p].ctx \in Ctxs
         /\ proc[p].pc \in Unlocked => proc[p].ctx = None
         /\ DOMAIN proc[p] = ProcFields
         /\ proc[p].pc \in Processing => proc[p].ctx \in Ctxs
         /\ None \notin Ctxs /\ None \notin Procs
BY WorkflowTasksAssumption DEF Inv, Shape, ProcsOK, ProcAt, Unlocked, Processing

\* Nobody has a context of its own that is in the cache, is being evicted, or is
\* another's.
LEMMA NotOwn ==
  ASSUME Inv, NEW p \in Procs, NEW q \in Procs \ {p}, Own(q)
  PROVE  /\ proc[q].ctx # cache /\ proc[q].ctx \notin evicting /\ proc[q].ctx # proc[p].ctx
         /\ proc[q].ctx # None
<1>1. proc[q].ctx \in Ctxs
  BY HasContext DEF Own, Unlocked
<1>. QED BY Zenon, <1>1, HasContext DEF Inv, PrivateAt

\* A context without owner is processed by nobody.
LEMMA NotProcessed ==
  ASSUME Inv, NEW q \in Procs, NEW x, ctx[x].owner \notin Procs \/ x = None
  PROVE  ~(proc[q].pc \in Processing /\ proc[q].ctx = x)
BY Zenon, HasContext DEF Inv, LockedAt

\* The processor goes on with its context, under its lock.
Works(p) ==
    /\ proc[p].pc \in {"process", "respond"}
    /\ \E pc \in Processing : Turn(p, pc, proc[p].ctx)
    /\ Change(proc[p].ctx)
    /\ ctx'[proc[p].ctx].owner = ctx[proc[p].ctx].owner
    /\ ctx'[proc[p].ctx].alive
    /\ ctx'[proc[p].ctx].cached <=> ctx[proc[p].ctx].cached
    /\ UNCHANGED <<cache, evicting>>

LEMMA WorksKeeps == ASSUME Inv, NEW p \in Procs, Works(p) PROVE Inv'
<1>1. PICK pc \in Processing : Turn(p, pc, proc[p].ctx)
  BY Zenon DEF Works
<1>2. PICK c : c = proc[p].ctx
  BY Zenon
<1>3. /\ c \in Ctxs /\ pc \in Pcs /\ pc \notin Unlocked /\ proc[p].pc \in Processing
      /\ pc \notin {"put", "locknew", "lookup", "lock", "create"}
  BY <1>2, HasContext DEF Works, Processing, Pcs, Unlocked
<1>4. /\ Change(c) /\ ctx'[c].owner = ctx[c].owner /\ ctx'[c].alive
      /\ (ctx'[c].cached <=> ctx[c].cached) /\ cache' = cache /\ evicting' = evicting
  BY Zenon, <1>2 DEF Works
<1>5. Turn(p, pc, c) /\ proc'[p].pc = pc /\ proc'[p].ctx = c
  BY Zenon, <1>1, <1>2 DEF Turn
<1>6. ctx[c].owner = p /\ ctx[c].alive
  BY Zenon, <1>2, <1>3 DEF Inv, LockedAt
<1>7. Shape'
  BY Zenon, <1>3, <1>4, <1>5, ShapeKeeps DEF Inv, Shape, CacheOK
<1>8. Others(p, c)
  <2>1. ASSUME NEW q \in Procs \ {p}, Own(q)
        PROVE  proc[q].ctx # c /\ proc[q].ctx # cache /\ proc[q].ctx \notin evicting
    BY Zenon, <1>2, <2>1, NotOwn
  <2>2. ASSUME NEW q \in Procs \ {p}, proc[q].pc \in Processing, proc[q].ctx = c PROVE FALSE
    BY Zenon, <1>6, <2>2 DEF Inv, LockedAt
  <2>. QED BY Zenon, <1>4, <1>5, <2>1, <2>2 DEF Others
<1>9. Knows(p, c)
  BY Zenon, <1>2, <1>4 DEF Knows
<1>10. LockedAt(p)' /\ PrivateAt(p)'
  BY Zenon, <1>3, <1>4, <1>5, <1>6 DEF LockedAt, PrivateAt, Own
<1>11. CachedAt(c)' /\ ClearAt(c)'
  BY Zenon, <1>3, <1>4, <1>5, <1>6 DEF Inv, CachedAt, ClearAt
<1>. QED BY Zenon, <1>4, <1>5, <1>7, <1>8, <1>9, <1>10, <1>11, InvKeeps DEF Turn, Change

\* The processor has no context, or takes the one of the cache to lock it.
Looks(p) ==
    /\ proc[p].pc \in Unlocked
    /\ \/ \E pc \in Unlocked : Turn(p, pc, None)
       \/ cache # None /\ Turn(p, "lock", cache)
    /\ proc'[p].pc # "idle" => "query" \in DOMAIN proc'[p].task
    /\ UNCHANGED <<ctx, cache, evicting>>

LEMMA LooksKeeps == ASSUME Inv, NEW p \in Procs, Looks(p) PROVE Inv'
<1>1. PICK pc, c : /\ pc \in Unlocked \cup {"lock"} /\ c \in {None, cache}
                   /\ IF pc \in Unlocked THEN c = None ELSE c \in Ctxs
                   /\ Turn(p, pc, c)
  <2>1. CASE \E pc \in Unlocked : Turn(p, pc, None)
    BY Zenon, <2>1
  <2>2. CASE cache # None /\ Turn(p, "lock", cache)
    BY <2>2 DEF Inv, Shape, CacheOK, Unlocked
  <2>. QED BY Zenon, <2>1, <2>2 DEF Looks
<1>2. proc'[p].pc = pc /\ proc'[p].ctx = c /\ proc[p].ctx = None
  BY Zenon, <1>1, HasContext DEF Turn, Looks
<1>3. pc \in Pcs /\ pc \notin Processing /\ pc \notin {"put", "locknew"}
  BY <1>1 DEF Unlocked, Pcs, Processing
<1>4. UNCHANGED <<ctx, cache, evicting>> /\ Change(None)
  BY Zenon, HasContext DEF Looks, Change, Inv, Shape, CtxsOK
<1>5. pc \in {"lookup", "lock", "create"} => "query" \in DOMAIN proc'[p].task
  BY <1>2 DEF Looks
<1>6. Shape'
  BY Zenon, <1>1, <1>3, <1>4, <1>5, ShapeKeeps DEF Inv, Shape, CacheOK
<1>7. Others(p, None)
  BY Zenon, <1>1, <1>2, <1>4, NotOwn, NotProcessed DEF Others
<1>8. Knows(p, None)
  BY Zenon, <1>2, <1>4 DEF Knows
<1>9. LockedAt(p)' /\ PrivateAt(p)'
  BY Zenon, <1>2, <1>3 DEF LockedAt, PrivateAt, Own
<1>. QED BY Zenon, <1>1, <1>4, <1>6, <1>7, <1>8, <1>9, HasContext, InvKeeps DEF Turn

\* The processor locks its context, which is marked as cached only if it is.
Locks(p) ==
    /\ proc[p].pc \in {"lock", "locknew"}
    /\ ctx[proc[p].ctx].owner = None
    /\ Turn(p, "process", proc[p].ctx)
    /\ Change(proc[p].ctx)
    /\ ctx'[proc[p].ctx].owner = p
    /\ ctx'[proc[p].ctx].alive
    /\ ctx'[proc[p].ctx].cached => proc[p].ctx = cache \/ proc[p].ctx \in evicting
    /\ UNCHANGED <<cache, evicting>>

LEMMA LocksKeeps == ASSUME Inv, NEW p \in Procs, Locks(p) PROVE Inv'
<1>1. PICK c : c = proc[p].ctx
  BY Zenon
<1>2. c \in Ctxs /\ "process" \in Pcs /\ "process" \notin Unlocked /\ None \notin Procs
  BY <1>1, HasContext DEF Locks, Unlocked, Pcs
<1>3. /\ Change(c) /\ ctx[c].owner = None /\ ctx'[c].owner = p /\ ctx'[c].alive
      /\ (ctx'[c].cached => c = cache \/ c \in evicting)
      /\ cache' = cache /\ evicting' = evicting
  BY Zenon, <1>1 DEF Locks
<1>4. Turn(p, "process", c) /\ proc'[p].pc = "process" /\ proc'[p].ctx = c
  BY Zenon, <1>1 DEF Turn, Locks
<1>5. Shape'
  BY Zenon, <1>2, <1>3, <1>4, ShapeKeeps DEF Inv, Shape, CacheOK
<1>6. Others(p, c)
  BY Zenon, <1>1, <1>2, <1>3, <1>4, NotOwn, NotProcessed DEF Others
<1>7. Knows(p, c)
  BY Zenon, <1>1, <1>3 DEF Knows
<1>8. LockedAt(p)' /\ PrivateAt(p)'
  BY Zenon, <1>3, <1>4 DEF LockedAt, PrivateAt, Own
<1>9. CachedAt(c)' /\ ClearAt(c)'
  BY Zenon, <1>3, <1>4 DEF CachedAt, ClearAt
<1>. QED BY Zenon, <1>3, <1>4, <1>5, <1>6, <1>7, <1>8, <1>9, InvKeeps DEF Turn, Change

\* What the cache holds stays there or is evicted.
Forgets ==
    \/ UNCHANGED <<cache, evicting>>
    \/ cache \in Ctxs /\ cache' = None /\ evicting' = evicting \cup {cache}

LEMMA ForgetsKnown ==
  ASSUME Inv, Forgets
  PROVE  /\ CacheOK'
         /\ \A d : d \in Ctxs /\ (d = cache \/ d \in evicting) => d = cache' \/ d \in evicting'
         /\ cache' \in {None, cache}
         /\ \A d : d \in evicting' => d = cache \/ d \in evicting
BY Zenon DEF Forgets, Inv, Shape, CacheOK

\* The processor leaves its context, cleared or known to the cache.
Leaves(p) ==
    /\ proc[p].pc \in {"lock", "unlock"}
    /\ ctx[proc[p].ctx].owner \in {None, p}
    /\ \E pc \in {"create", "idle"} : Turn(p, pc, None)
    /\ proc'[p].pc = "create" => "query" \in DOMAIN proc'[p].task
    /\ Change(proc[p].ctx)
    /\ \/ ~ctx'[proc[p].ctx].alive /\ ctx'[proc[p].ctx].applied = <<>>
       \/ proc[p].ctx = cache' \/ proc[p].ctx \in evicting'
    /\ Forgets

LEMMA LeavesKeeps == ASSUME Inv, NEW p \in Procs, Leaves(p) PROVE Inv'
<1>1. PICK pc \in {"create", "idle"} : Turn(p, pc, None)
  BY Zenon DEF Leaves
<1>2. PICK c : c = proc[p].ctx
  BY Zenon
<1>3. /\ c \in Ctxs /\ pc \in Pcs /\ pc \in Unlocked /\ None \notin Procs
      /\ pc \notin Processing /\ pc \notin {"put", "locknew", "lookup", "lock"}
  BY <1>1, <1>2, HasContext DEF Leaves, Unlocked, Pcs, Processing
<1>4. /\ Change(c) /\ ctx[c].owner \in {None, p} /\ Forgets
      /\ \/ ~ctx'[c].alive /\ ctx'[c].applied = <<>>
         \/ c = cache' \/ c \in evicting'
  BY Zenon, <1>2 DEF Leaves
<1>5. proc'[p].pc = pc /\ proc'[p].ctx = None
  BY Zenon, <1>1 DEF Turn
<1>6. Shape'
  BY Zenon, <1>1, <1>3, <1>4, <1>5, ForgetsKnown, ShapeKeeps DEF Inv, Leaves
<1>7. Others(p, c)
  <2>1. ASSUME NEW q \in Procs \ {p}, Own(q)
        PROVE  /\ proc[q].ctx # c /\ proc[q].ctx # cache' /\ proc[q].ctx \notin evicting'
               /\ proc[q].ctx # None
    BY Zenon, <1>2, <1>4, <2>1, NotOwn, ForgetsKnown
  <2>2. ASSUME NEW q \in Procs \ {p}, proc[q].pc \in Processing, proc[q].ctx = c PROVE FALSE
    BY Zenon, <1>3, <1>4, <2>2 DEF Inv, LockedAt
  <2>. QED BY Zenon, <1>5, <2>1, <2>2 DEF Others
<1>8. Knows(p, c)
  BY Zenon, <1>2, <1>4, ForgetsKnown DEF Knows
<1>9. LockedAt(p)' /\ PrivateAt(p)'
  BY Zenon, <1>3, <1>5 DEF LockedAt, PrivateAt, Own
<1>10. CachedAt(c)' /\ ClearAt(c)'
  BY Zenon, <1>4 DEF CachedAt, ClearAt
<1>. QED BY Zenon, <1>1, <1>4, <1>6, <1>7, <1>8, <1>9, <1>10, InvKeeps DEF Turn, Change

\* A context that nobody knows becomes the processor's own.
Creates(p, c) ==
    /\ proc[p].pc = "create" /\ c \in Unused
    /\ \E pc \in {"put", "locknew"} : Turn(p, pc, c)
    /\ proc'[p].pc = "put" => ~proc'[p].task.query
    /\ Change(c)
    /\ ~ctx'[c].cached /\ ctx'[c].applied = <<>>
    /\ UNCHANGED <<cache, evicting>>

LEMMA CreatesKeeps == ASSUME Inv, NEW p \in Procs, NEW c, Creates(p, c) PROVE Inv'
<1>1. PICK pc \in {"put", "locknew"} : Turn(p, pc, c)
  BY Zenon DEF Creates
<1>2. /\ pc \in Pcs /\ pc \notin Unlocked /\ pc \notin Processing
      /\ pc \notin {"lookup", "lock", "create"} /\ proc[p].ctx = None
  BY <1>1, HasContext DEF Creates, Pcs, Unlocked, Processing
<1>3. c \in Ctxs /\ c # cache /\ c \notin evicting /\ \A q \in Procs : proc[q].ctx # c
  BY Zenon DEF Creates, Unused
<1>4. /\ Change(c) /\ ~ctx'[c].cached /\ ctx'[c].applied = <<>>
      /\ cache' = cache /\ evicting' = evicting /\ (proc'[p].pc = "put" => ~proc'[p].task.query)
  BY Zenon DEF Creates
<1>5. /\ proc'[p].pc = pc /\ proc'[p].ctx = c /\ \A q \in Procs \ {p} : proc'[q] = proc[q]
  BY Zenon, <1>1 DEF Turn
<1>6. Shape'
  BY Zenon, <1>1, <1>2, <1>3, <1>4, ShapeKeeps DEF Inv, Shape, CacheOK
<1>7. Others(p, c)
  BY Zenon, <1>3, <1>4, <1>5, NotOwn DEF Others
<1>8. Knows(p, c)
  BY Zenon, <1>2, <1>4 DEF Knows
<1>9. LockedAt(p)' /\ PrivateAt(p)'
  BY Zenon, <1>2, <1>3, <1>4, <1>5 DEF LockedAt, PrivateAt
<1>10. CachedAt(c)' /\ ClearAt(c)'
  BY Zenon, <1>4 DEF CachedAt, ClearAt
<1>. QED BY Zenon, <1>4, <1>5, <1>6, <1>7, <1>8, <1>9, <1>10, InvKeeps DEF Change

\* The created context is put in the cache, or given up for the one that is there.
Puts(p) ==
    /\ proc[p].pc = "put" /\ proc'[p].task = proc[p].task
    /\ \/ Turn(p, "locknew", proc[p].ctx) /\ cache' = cache
       \/ Turn(p, "locknew", proc[p].ctx) /\ cache = None /\ cache' = proc[p].ctx
       \/ Turn(p, "locknew", cache) /\ cache # None /\ cache' = cache
    /\ UNCHANGED <<ctx, evicting>>

LEMMA PutsKeeps == ASSUME Inv, NEW p \in Procs, Puts(p) PROVE Inv'
<1>1. PICK x : x = proc[p].ctx
  BY Zenon
<1>2. /\ "locknew" \in Pcs /\ "locknew" \notin Unlocked /\ "locknew" \notin Processing
      /\ x \in Ctxs
  BY <1>1, HasContext DEF Puts, Pcs, Unlocked, Processing
<1>3. /\ x # cache /\ x \notin evicting /\ ~ctx[x].cached /\ ctx[x].applied = <<>>
      /\ ~proc[p].task.query
  BY Zenon, <1>1 DEF Puts, Inv, PrivateAt, Own
<1>4. PICK c \in Ctxs : /\ Turn(p, "locknew", c) /\ c \in {x, cache}
                        /\ cache' \in {x, cache} /\ (cache' = cache \/ cache = None)
  BY Zenon, <1>1, <1>2 DEF Puts, Inv, Shape, CacheOK
<1>5. /\ proc'[p].pc = "locknew" /\ proc'[p].ctx = c /\ \A q \in Procs \ {p} : proc'[q] = proc[q]
  BY Zenon, <1>4 DEF Turn
<1>6. UNCHANGED <<ctx, evicting>> /\ Change(x) /\ ~proc'[p].task.query
  BY Zenon, <1>3 DEF Puts, Change, Inv, Shape, CtxsOK
<1>7. CacheOK'
  BY Zenon, <1>2, <1>4, <1>6 DEF Inv, Shape, CacheOK
<1>8. Shape'
  BY Zenon, <1>2, <1>4, <1>6, <1>7, ShapeKeeps DEF Inv
<1>9. Others(p, x)
  <2>1. ASSUME NEW q \in Procs \ {p}, Own(q)
        PROVE  /\ proc[q].ctx # x /\ proc[q].ctx # cache' /\ proc[q].ctx \notin evicting'
               /\ proc[q].ctx # c
    BY Zenon, <1>1, <1>4, <1>6, <2>1, NotOwn
  <2>2. ASSUME NEW q \in Procs \ {p}, proc[q].ctx = x PROVE FALSE
    BY Zenon, <1>1, <2>2 DEF Puts, Inv, PrivateAt, Own
  <2>. QED BY Zenon, <1>5, <2>1, <2>2 DEF Others
<1>10. Knows(p, x)
  BY Zenon, <1>1, <1>4, <1>6, HasContext DEF Knows
<1>11. LockedAt(p)' /\ PrivateAt(p)'
  BY Zenon, <1>2, <1>5, <1>6 DEF LockedAt, PrivateAt, Own
<1>12. CachedAt(x)' /\ ClearAt(x)'
  BY Zenon, <1>3, <1>6 DEF CachedAt, ClearAt
<1>. QED BY Zenon, <1>5, <1>6, <1>8, <1>9, <1>10, <1>11, <1>12, InvKeeps DEF Change

-----------------------------------------------------------------------------
(* The steps of the cache.                                                 *)

LEMMA ForgetsKeeps == ASSUME Inv, Forgets, UNCHANGED <<ctx, proc>> PROVE Inv'
<1>1. Shape'
  BY Zenon, ForgetsKnown DEF Inv, Shape, CtxsOK, ProcsOK, ProcAt
<1>2. None \notin Procs /\ None \notin Ctxs
  BY WorkflowTasksAssumption
<1>3. ASSUME NEW q \in Procs, Own(q)
      PROVE  /\ proc[q].ctx # None /\ proc[q].ctx # cache' /\ proc[q].ctx \notin evicting'
  <2>1. proc[q].ctx \in Ctxs
    BY <1>3, HasContext DEF Own, Unlocked
  <2>2. proc[q].ctx # cache /\ proc[q].ctx \notin evicting
    BY Zenon, <1>3 DEF Inv, PrivateAt
  <2>. QED BY Zenon, <1>2, <2>1, <2>2, ForgetsKnown
<1>4. Others(None, None)
  BY Zenon, <1>2, <1>3, NotProcessed DEF Others
<1>5. Knows(None, None)
  BY Zenon, <1>2, ForgetsKnown DEF Knows
<1>. QED BY Zenon, <1>1, <1>2, <1>4, <1>5, InvKeeps

\* An evicted context is destroyed under its lock.
Destroys(c) ==
    /\ c \in evicting /\ ctx[c].owner = None
    /\ Change(c) /\ ~ctx'[c].alive /\ ctx'[c].applied = <<>>
    /\ evicting' = evicting \ {c} /\ UNCHANGED <<proc, cache>>

LEMMA DestroysKeeps == ASSUME Inv, NEW c \in Ctxs, Destroys(c) PROVE Inv'
<1>1. CtxsOK'
  BY Zenon DEF Destroys, Change, Inv, Shape, CtxsOK
<1>2. Shape'
  BY Zenon, <1>1 DEF Destroys, Inv, Shape, ProcsOK, ProcAt, CacheOK
<1>3. None \notin Procs
  BY WorkflowTasksAssumption
<1>4. ASSUME NEW q \in Procs, Own(q)
      PROVE  proc[q].ctx # c /\ proc[q].ctx # cache' /\ proc[q].ctx \notin evicting'
  BY Zenon, <1>4 DEF Destroys, Inv, PrivateAt
<1>5. Others(None, c)
  BY Zenon, <1>3, <1>4, NotProcessed DEF Others, Destroys
<1>6. Knows(None, c)
  BY Zenon, <1>3 DEF Knows, Destroys
<1>7. CachedAt(c)' /\ ClearAt(c)'
  BY Zenon DEF Destroys, CachedAt, ClearAt
<1>. QED BY Zenon, <1>2, <1>3, <1>5, <1>6, <1>7, InvKeeps DEF Destroys, Change

-----------------------------------------------------------------------------
(* Every step is one of these.                                             *)

LEMMA RowTurns ==
  ASSUME Inv, NEW p \in Procs, NEW r, DOMAIN r = ProcFields, proc' = [proc EXCEPT ![p] = r]
  PROVE  Turn(p, r.pc, r.ctx) /\ proc'[p] = r
BY Zenon DEF Turn, Inv, Shape, ProcsOK

LEMMA GotoTurns ==
  ASSUME Inv, NEW p \in Procs, NEW pc, Goto(p, pc)
  PROVE  Turn(p, pc, proc[p].ctx) /\ proc'[p].task = proc[p].task
<1>1. PICK r : r = [proc[p] EXCEPT !.pc = pc]
  BY Zenon
<1>2. proc' = [proc EXCEPT ![p] = r]
  BY Zenon, <1>1 DEF Goto
<1>3. DOMAIN r = ProcFields /\ r.pc = pc /\ r.ctx = proc[p].ctx /\ r.task = proc[p].task
  BY Zenon, <1>1, HasContext DEF ProcFields
<1>. QED BY Zenon, <1>2, <1>3, RowTurns

LEMMA TakesTurns ==
  ASSUME Inv, NEW p \in Procs, NEW pc, NEW c, proc' = [proc EXCEPT ![p].pc = pc, ![p].ctx = c]
  PROVE  Turn(p, pc, c) /\ proc'[p].task = proc[p].task
<1>1. PICK r : r = [proc[p] EXCEPT !.pc = pc, !.ctx = c]
  BY Zenon
<1>2. proc' = [proc EXCEPT ![p] = r]
  BY Zenon, <1>1 DEF Inv, Shape, ProcsOK
<1>3. DOMAIN r = ProcFields /\ r.pc = pc /\ r.ctx = c /\ r.task = proc[p].task
  BY Zenon, <1>1, HasContext DEF ProcFields
<1>. QED BY Zenon, <1>2, <1>3, RowTurns

LEMMA CreateTurns ==
  ASSUME Inv, NEW p \in Procs, NEW pc, NEW c, NEW t,
         proc' = [proc EXCEPT ![p].pc = pc, ![p].ctx = c, ![p].task = t]
  PROVE  Turn(p, pc, c) /\ proc'[p].task = t
<1>1. PICK r : r = [proc[p] EXCEPT !.pc = pc, !.ctx = c, !.task = t]
  BY Zenon
<1>2. proc' = [proc EXCEPT ![p] = r]
  BY Zenon, <1>1 DEF Inv, Shape, ProcsOK
<1>3. DOMAIN r = ProcFields /\ r.pc = pc /\ r.ctx = c /\ r.task = t
  BY Zenon, <1>1, HasContext DEF ProcFields
<1>. QED BY Zenon, <1>2, <1>3, RowTurns

LEMMA AnswerTurns ==
  ASSUME Inv, NEW p \in Procs, NEW err, Answered(p, err)
  PROVE  Turn(p, "unlock", proc[p].ctx)
<1>1. PICK r : r = [proc[p] EXCEPT !.pc = "unlock", !.err = err]
  BY Zenon
<1>2. proc' = [proc EXCEPT ![p] = r]
  BY Zenon, <1>1 DEF Inv, Shape, ProcsOK, Answered
<1>3. DOMAIN r = ProcFields /\ r.pc = "unlock" /\ r.ctx = proc[p].ctx
  BY Zenon, <1>1, HasContext DEF ProcFields
<1>. QED BY Zenon, <1>2, <1>3, RowTurns

LEMMA NextTaskTurns ==
  ASSUME Inv, NEW p \in Procs, NEW pc, NEW t, proc' = [proc EXCEPT ![p].pc = pc, ![p].task = t]
  PROVE  Turn(p, pc, proc[p].ctx)
<1>1. PICK r : r = [proc[p] EXCEPT !.pc = pc, !.task = t]
  BY Zenon
<1>2. proc' = [proc EXCEPT ![p] = r]
  BY Zenon, <1>1 DEF Inv, Shape, ProcsOK
<1>3. DOMAIN r = ProcFields /\ r.pc = pc /\ r.ctx = proc[p].ctx
  BY Zenon, <1>1, HasContext DEF ProcFields
<1>. QED BY Zenon, <1>2, <1>3, RowTurns

LEMMA ProcessTurns ==
  ASSUME Inv, NEW p \in Procs, NEW pc, NEW t, NEW out, NEW err,
         proc' = [proc EXCEPT ![p].pc = pc, ![p].task = t, ![p].out = out, ![p].err = err]
  PROVE  Turn(p, pc, proc[p].ctx)
<1>1. PICK r : r = [proc[p] EXCEPT !.pc = pc, !.task = t, !.out = out, !.err = err]
  BY Zenon
<1>2. proc' = [proc EXCEPT ![p] = r]
  BY Zenon, <1>1 DEF Inv, Shape, ProcsOK
<1>3. DOMAIN r = ProcFields /\ r.pc = pc /\ r.ctx = proc[p].ctx
  BY Zenon, <1>1, HasContext DEF ProcFields
<1>. QED BY Zenon, <1>2, <1>3, RowTurns

LEMMA IdleTurns ==
  ASSUME Inv, NEW p \in Procs, proc' = [proc EXCEPT ![p] = Idle]
  PROVE  Turn(p, "idle", None)
<1>1. DOMAIN Idle = ProcFields /\ Idle.pc = "idle" /\ Idle.ctx = None
  BY DEF Idle, ProcFields
<1>. QED BY Zenon, <1>1, RowTurns

LEMMA PollTurns ==
  ASSUME Inv, NEW p \in Procs, NEW t,
         proc' = [proc EXCEPT ![p] = [Idle EXCEPT !.pc = "lookup", !.task = t]]
  PROVE  Turn(p, "lookup", None) /\ proc'[p].task = t
<1>1. PICK r : r = [Idle EXCEPT !.pc = "lookup", !.task = t]
  BY Zenon
<1>2. DOMAIN r = ProcFields /\ r.pc = "lookup" /\ r.ctx = None /\ r.task = t
  BY <1>1 DEF Idle, ProcFields
<1>. QED BY Zenon, <1>1, <1>2, RowTurns

LEMMA RowChanges ==
  ASSUME Inv, NEW c, NEW r, DOMAIN r = CtxFields, ctx' = [ctx EXCEPT ![c] = r]
  PROVE  Change(c) /\ (c \in Ctxs => ctx'[c] = r)
BY Zenon DEF Change, Inv, Shape, CtxsOK

LEMMA NothingChanges == ASSUME Inv, UNCHANGED ctx, NEW c PROVE Change(c)
BY Zenon DEF Change, Inv, Shape, CtxsOK

LEMMA Cleared ==
  ASSUME NEW r, DOMAIN r = CtxFields
  PROVE  LET s == clearState(r)
         IN  /\ DOMAIN s = CtxFields /\ s.alive = FALSE /\ s.applied = <<>>
             /\ s.owner = r.owner /\ s.cached = r.cached
BY Zenon DEF clearState, CtxFields

LEMMA Restarted ==
  ASSUME NEW r, DOMAIN r = CtxFields
  PROVE  LET s == createEventHandler(r)
         IN  /\ DOMAIN s = CtxFields /\ s.alive = TRUE /\ s.applied = <<>>
             /\ s.owner = r.owner /\ s.cached = r.cached
<1>1. PICK t : t = clearState(r)
  BY Zenon
<1>2. /\ DOMAIN t = CtxFields /\ t.applied = <<>> /\ t.owner = r.owner /\ t.cached = r.cached
  BY Zenon, <1>1, Cleared
<1>3. PICK s : s = [t EXCEPT !.alive = TRUE]
  BY Zenon
<1>4. /\ DOMAIN s = CtxFields /\ s.alive = TRUE /\ s.applied = t.applied
      /\ s.owner = t.owner /\ s.cached = t.cached
  BY Zenon, <1>2, <1>3 DEF CtxFields
<1>. QED BY Zenon, <1>1, <1>2, <1>3, <1>4 DEF createEventHandler

LEMMA RemovalForgets == ASSUME NEW c \in Ctxs, removeWorkflowContext(c) PROVE Forgets
BY Zenon DEF removeWorkflowContext, Forgets

LEMMA LookupStep == ASSUME Inv, NEW p \in Procs, Lookup(p) PROVE Looks(p)
<1>1. /\ proc[p].pc = "lookup" /\ "query" \in DOMAIN proc[p].task /\ proc[p].ctx = None
      /\ proc[p].pc \in Unlocked /\ "create" \in Unlocked
      /\ UNCHANGED <<ctx, cache, evicting>>
  BY HasContext DEF Lookup, At, Unlocked, Inv, Shape, ProcsOK, ProcAt
<1>2. \/ Goto(p, "create")
      \/ cache # None /\ proc' = [proc EXCEPT ![p].pc = "lock", ![p].ctx = cache]
  BY Zenon DEF Lookup
<1>3. CASE Goto(p, "create")
  BY Zenon, <1>1, <1>3, GotoTurns DEF Looks
<1>4. CASE cache # None /\ proc' = [proc EXCEPT ![p].pc = "lock", ![p].ctx = cache]
  BY Zenon, <1>1, <1>4, TakesTurns DEF Looks
<1>. QED BY Zenon, <1>2, <1>3, <1>4

LEMMA PollStep == ASSUME Inv, NEW p \in Procs, PollTask(p) \/ PollQuery(p) PROVE Looks(p)
<1>1. proc[p].pc \in Unlocked /\ "lookup" \in Unlocked /\ UNCHANGED <<ctx, cache, evicting>>
  BY DEF PollTask, PollQuery, At, Unlocked
<1>2. PICK t : /\ "query" \in DOMAIN t
               /\ proc' = [proc EXCEPT ![p] = [Idle EXCEPT !.pc = "lookup", !.task = t]]
  <2>1. CASE PollTask(p)
    <3>1. "query" \in DOMAIN NewTask(Start(srv, p))
      BY DEF NewTask
    <3>. QED BY Zenon, <2>1, <3>1 DEF PollTask
  <2>2. CASE PollQuery(p)
    <3>1. PICK t : t = [query |-> TRUE, first |-> 1, all |-> <<>>, started |-> 0,
                        attempt |-> 0, evs |-> IF srv.sticky THEN <<>> ELSE srv.events]
      BY Zenon
    <3>2. "query" \in DOMAIN t
      BY <3>1
    <3>. QED BY Zenon, <2>2, <3>1, <3>2 DEF PollQuery
  <2>. QED BY Zenon, <2>1, <2>2
<1>. QED BY Zenon, <1>1, <1>2, PollTurns DEF Looks

LEMMA CreateFailsStep == ASSUME Inv, NEW p \in Procs, CreateFails(p) PROVE Looks(p)
<1>1. proc[p].pc \in Unlocked /\ "idle" \in Unlocked /\ UNCHANGED <<ctx, cache, evicting>>
  BY DEF CreateFails, At, Unlocked
<1>2. Turn(p, "idle", None)
  BY Zenon, IdleTurns DEF CreateFails
<1>3. proc'[p].pc = "idle"
  BY Zenon, <1>2 DEF Turn
<1>. QED BY Zenon, <1>1, <1>2, <1>3 DEF Looks

LEMMA LockStep == ASSUME Inv, NEW p \in Procs, Lock(p) PROVE Locks(p) \/ Leaves(p)
<1>1. PICK c : c = proc[p].ctx
  BY Zenon
<1>2. /\ proc[p].pc = "lock" /\ c \in Ctxs /\ DOMAIN ctx[c] = CtxFields /\ ctx[c].owner = None
      /\ "query" \in DOMAIN proc[p].task
  BY <1>1, HasContext DEF Lock, At, Unlocked, Inv, Shape, CtxsOK, ProcsOK, ProcAt
<1>3. CASE IsValid(ctx[c], proc[p].task)
  <2>1. /\ ctx' = [ctx EXCEPT ![c].owner = p] /\ Goto(p, "process")
        /\ UNCHANGED <<cache, evicting>> /\ ctx[c].alive
    BY Zenon, <1>1, <1>3 DEF Lock, IsValid
  <2>2. PICK r : r = [ctx[c] EXCEPT !.owner = p]
    BY Zenon
  <2>3. /\ DOMAIN r = CtxFields /\ r.owner = p /\ r.alive = ctx[c].alive
        /\ r.cached = ctx[c].cached
    BY Zenon, <1>2, <2>2 DEF CtxFields
  <2>4. Change(c) /\ ctx'[c] = r
    BY Zenon, <1>2, <2>1, <2>2, <2>3, RowChanges
  <2>5. ctx[c].cached => c = cache \/ c \in evicting
    BY Zenon, <1>2, <2>1 DEF Inv, CachedAt
  <2>. QED BY Zenon, <1>1, <1>2, <2>1, <2>3, <2>4, <2>5, GotoTurns DEF Locks
<1>4. CASE ~IsValid(ctx[c], proc[p].task)
  <2>1. /\ ctx' = [ctx EXCEPT ![c] = clearState(ctx[c])]
        /\ proc' = [proc EXCEPT ![p].pc = "create", ![p].ctx = None]
        /\ removeWorkflowContext(c) \/ UNCHANGED <<cache, evicting>>
    BY Zenon, <1>1, <1>4 DEF Lock
  <2>2. Forgets
    BY Zenon, <1>2, <2>1, RemovalForgets DEF Forgets
  <2>3. Change(c) /\ ~ctx'[c].alive /\ ctx'[c].applied = <<>>
    <3>1. PICK r : r = clearState(ctx[c])
      BY Zenon
    <3>2. DOMAIN r = CtxFields /\ ~r.alive /\ r.applied = <<>>
      BY Zenon, <1>2, <3>1, Cleared
    <3>3. ctx' = [ctx EXCEPT ![c] = r]
      BY Zenon, <2>1, <3>1
    <3>. QED BY Zenon, <1>2, <3>2, <3>3, RowChanges
  <2>4. Turn(p, "create", None) /\ proc'[p].task = proc[p].task
    BY Zenon, <2>1, TakesTurns
  <2>. QED BY Zenon, <1>1, <1>2, <2>2, <2>3, <2>4 DEF Leaves
<1>. QED BY Zenon, <1>3, <1>4

LEMMA CreateStep == ASSUME Inv, NEW p \in Procs, Create(p) PROVE \E c \in Ctxs : Creates(p, c)
<1>1. PICK c \in Unused : c = CHOOSE d \in Unused : TRUE
  BY Zenon DEF Create
<1>2. PICK t : t = proc[p].task
  BY Zenon
<1>3. PICK u : u = IF isFullHistory(t) THEN t ELSE Fetched(t)
  BY Zenon
<1>4. /\ proc[p].pc = "create" /\ c \in Ctxs /\ DOMAIN ctx[c] = CtxFields /\ "query" \in DOMAIN t
  BY Zenon, <1>1, <1>2 DEF Create, At, Unused, Inv, Shape, CtxsOK, ProcsOK, ProcAt
<1>5. u.query = t.query
  BY Zenon, <1>3, <1>4 DEF Fetched
<1>10. PICK pc : pc = IF t.query THEN "locknew" ELSE "put"
  BY Zenon
<1>6. /\ ctx' = [ctx EXCEPT ![c] = [createEventHandler(ctx[c]) EXCEPT !.cached = FALSE]]
      /\ proc' = [proc EXCEPT ![p].pc = pc, ![p].ctx = c, ![p].task = u]
      /\ UNCHANGED <<cache, evicting>>
  BY Zenon, <1>1, <1>2, <1>3, <1>10 DEF Create
<1>7. PICK r : r = [createEventHandler(ctx[c]) EXCEPT !.cached = FALSE]
  BY Zenon
<1>8. DOMAIN r = CtxFields /\ r.cached = FALSE /\ r.applied = <<>>
  BY Zenon, <1>4, <1>7, Restarted DEF CtxFields
<1>9. Change(c) /\ ~ctx'[c].cached /\ ctx'[c].applied = <<>>
  BY Zenon, <1>4, <1>6, <1>7, <1>8, RowChanges
<1>11. Turn(p, pc, c) /\ proc'[p].task = u /\ proc'[p].pc = pc
  <2>1. proc' = [proc EXCEPT ![p].pc = pc, ![p].ctx = c, ![p].task = u]
    BY Zenon, <1>6
  <2>2. Turn(p, pc, c) /\ proc'[p].task = u
    BY Zenon, <2>1, CreateTurns
  <2>. QED BY Zenon, <2>2 DEF Turn
<1>12. pc \in {"put", "locknew"} /\ (pc = "put" => ~u.query)
  BY <1>5, <1>10
<1>. QED BY Zenon, <1>1, <1>4, <1>6, <1>9, <1>11, <1>12 DEF Creates

LEMMA PutStep == ASSUME Inv, NEW p \in Procs, Put(p) PROVE Puts(p)
<1>1. proc[p].pc = "put" /\ UNCHANGED <<ctx, evicting>>
  BY Zenon DEF Put, At
<1>2. CASE released \/ cache = None
  <2>1. Goto(p, "locknew") /\ (cache' = cache \/ (cache = None /\ cache' = proc[p].ctx))
    BY Zenon, <1>2 DEF Put
  <2>. QED BY Zenon, <1>1, <2>1, GotoTurns DEF Puts
<1>3. CASE ~released /\ cache # None
  <2>1. proc' = [proc EXCEPT ![p].pc = "locknew", ![p].ctx = cache] /\ cache' = cache
    BY Zenon, <1>3 DEF Put
  <2>. QED BY Zenon, <1>1, <1>3, <2>1, TakesTurns DEF Puts
<1>. QED BY Zenon, <1>2, <1>3

LEMMA LockNewStep == ASSUME Inv, NEW p \in Procs, LockNew(p) PROVE Locks(p)
<1>1. PICK c : c = proc[p].ctx
  BY Zenon
<1>2. /\ proc[p].pc = "locknew" /\ c \in Ctxs /\ DOMAIN ctx[c] = CtxFields /\ ctx[c].owner = None
  BY <1>1, HasContext DEF LockNew, At, Unlocked, Inv, Shape, CtxsOK
<1>3. PICK s : s = IF ctx[c].alive THEN ctx[c] ELSE createEventHandler(ctx[c])
  BY Zenon
<1>4. DOMAIN s = CtxFields /\ s.alive /\ s.cached = ctx[c].cached
  BY Zenon, <1>2, <1>3, Restarted
<1>5. PICK r : r = [s EXCEPT !.owner = p,
                             !.cached = IF proc[p].task.query THEN @ ELSE cache = c]
  BY Zenon
<1>6. /\ DOMAIN r = CtxFields /\ r.owner = p /\ r.alive = s.alive
      /\ r.cached = IF proc[p].task.query THEN s.cached ELSE cache = c
  BY Zenon, <1>4, <1>5 DEF CtxFields
<1>7. ctx' = [ctx EXCEPT ![c] = r]
  BY Zenon, <1>1, <1>3, <1>5 DEF LockNew
<1>11. Goto(p, "process") /\ UNCHANGED <<cache, evicting>>
  BY Zenon DEF LockNew
<1>8. Change(c) /\ ctx'[c] = r
  BY Zenon, <1>2, <1>6, <1>7, RowChanges
<1>9. proc[p].task.query => ~ctx[c].cached
  BY Zenon, <1>1, <1>2 DEF Inv, PrivateAt, Own
<1>10. r.cached => c = cache
  BY Zenon, <1>4, <1>6, <1>9
<1>. QED BY Zenon, <1>1, <1>2, <1>4, <1>6, <1>8, <1>10, <1>11, GotoTurns DEF Locks

LEMMA ProcessStep == ASSUME Inv, NEW p \in Procs, Process(p) PROVE Works(p)
<1>1. PICK c : c = proc[p].ctx
  BY Zenon
<1>2. PICK t : t = proc[p].task
  BY Zenon
<1>3. PICK u : u = IF Stale(ctx[c], t) /\ ~isFullHistory(t) THEN Fetched(t) ELSE t
  BY Zenon
<1>4. PICK start : start = IF Stale(ctx[c], t) THEN createEventHandler(ctx[c]) ELSE ctx[c]
  BY Zenon
<1>5. PICK r : r = IF EndsTooSoon(u) \/ (Stale(ctx[c], t) /\ ~isFullHistory(t) /\ TooFar(t))
                   THEN start ELSE Apply(start, u)
  BY Zenon
<1>6. ctx' = [ctx EXCEPT ![c] = r] /\ UNCHANGED <<cache, evicting>>
  BY Zenon, <1>1, <1>2, <1>3, <1>4, <1>5 DEF Process
<1>7. /\ proc[p].pc = "process" /\ c \in Ctxs /\ DOMAIN ctx[c] = CtxFields /\ ctx[c].alive
  BY Zenon, <1>1, HasContext DEF Process, At, Processing, Inv, Shape, CtxsOK, LockedAt
<1>8. /\ DOMAIN start = CtxFields /\ start.alive /\ start.owner = ctx[c].owner
      /\ start.cached = ctx[c].cached
  BY Zenon, <1>4, <1>7, Restarted
<1>9. /\ DOMAIN r = CtxFields /\ r.alive /\ r.owner = ctx[c].owner /\ r.cached = ctx[c].cached
  BY Zenon, <1>5, <1>8 DEF Apply, CtxFields
<1>10. Change(c) /\ ctx'[c] = r
  BY Zenon, <1>6, <1>7, <1>9, RowChanges
<1>11. Turn(p, "respond", c) \/ Turn(p, "unlock", c)
  <2>. DEFINE Ends(pc, out, err) == proc' = [proc EXCEPT ![p].pc = pc, ![p].task = u,
                                                         ![p].out = out, ![p].err = err]
  <2>1. \/ \E out : Ends("respond", out, FALSE)
        \/ Ends("unlock", "error", TRUE)
        \/ Ends("respond", "error", TRUE)
    BY Zenon, <1>1, <1>2, <1>3 DEF Process
  <2>2. ASSUME NEW pc, NEW out, NEW err, Ends(pc, out, err) PROVE Turn(p, pc, c)
    BY Zenon, <1>1, <2>2, ProcessTurns
  <2>. HIDE DEF Ends
  <2>. QED BY Zenon, <2>1, <2>2
<1>12. {"respond", "unlock"} \subseteq Processing
  BY DEF Processing
<1>. QED BY Zenon, <1>1, <1>6, <1>7, <1>9, <1>10, <1>11, <1>12 DEF Works

\* An answer that leaves the context as it is.
LEMMA AnswerWorks ==
  ASSUME Inv, NEW p \in Procs, proc[p].pc = "respond", NEW pc \in Processing,
         Turn(p, pc, proc[p].ctx), UNCHANGED <<ctx, cache, evicting>>
  PROVE  Works(p)
<1>1. proc[p].pc \in Processing
  BY DEF Processing
<1>2. ctx[proc[p].ctx].alive
  BY Zenon, <1>1 DEF Inv, LockedAt
<1>. QED BY Zenon, <1>2, NothingChanges DEF Works

LEMMA RespondStep ==
  ASSUME Inv, NEW p \in Procs,
         RespondQuery(p) \/ RespondFailed(p) \/ RespondError(p) \/ RespondCompleted(p)
  PROVE  Works(p)
<1>1. proc[p].pc = "respond" /\ UNCHANGED <<ctx, cache, evicting>>
  BY Zenon DEF RespondQuery, RespondFailed, RespondError, RespondCompleted, At
<1>2. "unlock" \in Processing /\ "process" \in Processing
  BY DEF Processing
<1>3. CASE \E err : Answered(p, err)
  BY Zenon, <1>1, <1>2, <1>3, AnswerTurns, AnswerWorks
<1>4. CASE \E t : proc' = [proc EXCEPT ![p].pc = "process", ![p].task = t]
  BY Zenon, <1>1, <1>2, <1>4, NextTaskTurns, AnswerWorks
<1>5. CASE RespondQuery(p) \/ RespondFailed(p) \/ RespondError(p)
  BY Zenon, <1>3, <1>5 DEF RespondQuery, RespondFailed, RespondError
<1>6. CASE RespondCompleted(p)
  BY Zenon, <1>3, <1>4, <1>6 DEF RespondCompleted
<1>. QED BY Zenon, <1>5, <1>6

\* An answer that changes other fields of the context.
LEMMA MarkedStep ==
  ASSUME Inv, NEW p \in Procs, RespondUnsent(p) \/ RespondDropped(p)
  PROVE  Works(p)
<1>1. PICK c : c = proc[p].ctx
  BY Zenon
<1>2. /\ proc[p].pc = "respond" /\ c \in Ctxs /\ DOMAIN ctx[c] = CtxFields /\ ctx[c].alive
      /\ "unlock" \in Processing
  BY Zenon, <1>1, HasContext
     DEF RespondUnsent, RespondDropped, At, Processing, Inv, Shape, CtxsOK, LockedAt
<1>3. /\ UNCHANGED <<cache, evicting>> /\ \E err : Answered(p, err)
  BY Zenon DEF RespondUnsent, RespondDropped
<1>4. PICK r : /\ ctx' = [ctx EXCEPT ![c] = r] /\ DOMAIN r = CtxFields
               /\ r.alive = ctx[c].alive /\ r.owner = ctx[c].owner /\ r.cached = ctx[c].cached
  <2>1. CASE RespondUnsent(p)
    <3>1. PICK r : r = [ctx[c] EXCEPT !.unsent = TRUE]
      BY Zenon
    <3>2. ctx' = [ctx EXCEPT ![c] = r]
      BY Zenon, <1>1, <2>1, <3>1 DEF RespondUnsent
    <3>3. /\ DOMAIN r = CtxFields /\ r.alive = ctx[c].alive /\ r.owner = ctx[c].owner
          /\ r.cached = ctx[c].cached
      BY Zenon, <1>2, <3>1 DEF CtxFields
    <3>. QED BY Zenon, <3>2, <3>3
  <2>2. CASE RespondDropped(p)
    <3>1. PICK d : d = SetPreviousStartedEventID(ctx[c], srv.prevStarted)
      BY Zenon
    <3>2. /\ DOMAIN d = CtxFields /\ d.alive = ctx[c].alive /\ d.owner = ctx[c].owner
          /\ d.cached = ctx[c].cached
      BY Zenon, <1>2, <3>1 DEF SetPreviousStartedEventID, CtxFields
    <3>3. PICK r : r = [d EXCEPT !.applied = SubSeq(@, 1, Len(@) - 1)]
      BY Zenon
    <3>4. ctx' = [ctx EXCEPT ![c] = r]
      BY Zenon, <1>1, <2>2, <3>1, <3>3 DEF RespondDropped
    <3>5. /\ DOMAIN r = CtxFields /\ r.alive = d.alive /\ r.owner = d.owner
          /\ r.cached = d.cached
      BY Zenon, <3>2, <3>3 DEF CtxFields
    <3>. QED BY Zenon, <3>2, <3>4, <3>5
  <2>. QED BY Zenon, <2>1, <2>2
<1>5. Change(c) /\ ctx'[c] = r
  BY Zenon, <1>2, <1>4, RowChanges
<1>6. Turn(p, "unlock", c)
  BY Zenon, <1>1, <1>3, AnswerTurns
<1>. QED BY Zenon, <1>1, <1>2, <1>3, <1>4, <1>5, <1>6 DEF Works

LEMMA UnlockStep == ASSUME Inv, NEW p \in Procs, Unlock(p) PROVE Leaves(p)
<1>1. PICK c : c = proc[p].ctx
  BY Zenon
<1>2. PICK discard \in BOOLEAN : discard = (proc[p].err \/ proc[p].out = "closes")
  BY Zenon
<1>3. GiveBack(p, discard, ~ctx[c].cached)
  BY Zenon, <1>1, <1>2 DEF Unlock
<1>4. /\ proc[p].pc = "unlock" /\ c \in Ctxs /\ DOMAIN ctx[c] = CtxFields /\ ctx[c].alive
      /\ ctx[c].owner = p
  BY Zenon, <1>1, <1>3, HasContext DEF GiveBack, At, Processing, Inv, Shape, CtxsOK, LockedAt
<1>5. PICK d : d = IF discard \/ ~ctx[c].cached THEN clearState(ctx[c]) ELSE ctx[c]
  BY Zenon
<1>6. PICK r : r = [d EXCEPT !.owner = None, !.cached = @ /\ ~discard]
  BY Zenon
<1>7. /\ ctx' = [ctx EXCEPT ![c] = r] /\ proc' = [proc EXCEPT ![p] = Idle]
      /\ IF discard THEN removeWorkflowContext(c) ELSE UNCHANGED <<cache, evicting>>
  BY Zenon, <1>1, <1>3, <1>5, <1>6 DEF GiveBack
<1>8. DOMAIN d = CtxFields
  BY Zenon, <1>4, <1>5, Cleared
<1>9. DOMAIN r = CtxFields /\ r.alive = d.alive /\ r.applied = d.applied
  BY Zenon, <1>6, <1>8 DEF CtxFields
<1>10. Change(c) /\ ctx'[c] = r
  BY Zenon, <1>4, <1>7, <1>9, RowChanges
<1>11. Turn(p, "idle", None) /\ proc'[p].pc = "idle"
  BY Zenon, <1>7, IdleTurns DEF Turn
<1>12. Forgets
  BY Zenon, <1>4, <1>7, RemovalForgets DEF Forgets
<1>13. (~r.alive /\ r.applied = <<>>) \/ c = cache' \/ c \in evicting'
  <2>1. CASE discard \/ ~ctx[c].cached
    BY Zenon, <1>4, <1>5, <1>9, <2>1, Cleared
  <2>2. CASE ~discard /\ ctx[c].cached
    BY Zenon, <1>4, <1>7, <2>2 DEF Inv, CachedAt
  <2>. QED BY Zenon, <2>1, <2>2
<1>. QED BY Zenon, <1>1, <1>4, <1>10, <1>11, <1>12, <1>13 DEF Leaves

LEMMA CacheStep ==
  ASSUME Inv, Evict \/ Release \/ Signal \/ Update \/ Timeout \/ StickyTimeout \/ OtherHost
              \/ UNCHANGED vars
  PROVE  Forgets /\ UNCHANGED <<ctx, proc>>
<1>1. CASE Evict \/ Release
  <2>1. /\ UNCHANGED <<ctx, proc>>
        /\ UNCHANGED <<cache, evicting>> \/ (cache # None /\ removeWorkflowContext(cache))
    BY Zenon, <1>1 DEF Evict, Release
  <2>2. cache # None => cache \in Ctxs
    BY Zenon DEF Inv, Shape, CacheOK
  <2>. QED BY Zenon, <2>1, <2>2, RemovalForgets DEF Forgets
<1>2. CASE Signal \/ Update \/ Timeout \/ StickyTimeout \/ OtherHost \/ UNCHANGED vars
  BY Zenon, <1>2 DEF Signal, Update, Timeout, StickyTimeout, OtherHost, vars, Forgets
<1>. QED BY Zenon, <1>1, <1>2

LEMMA EvictionStep == ASSUME Inv, NEW c \in Ctxs, onEviction(c) PROVE Destroys(c)
<1>1. DOMAIN ctx[c] = CtxFields
  BY Zenon DEF Inv, Shape, CtxsOK
<1>2. /\ ctx' = [ctx EXCEPT ![c] = clearState(ctx[c])] /\ c \in evicting /\ ctx[c].owner = None
      /\ evicting' = evicting \ {c} /\ UNCHANGED <<proc, cache>>
  BY Zenon DEF onEviction
<1>3. PICK r : r = clearState(ctx[c])
  BY Zenon
<1>4. DOMAIN r = CtxFields /\ ~r.alive /\ r.applied = <<>>
  BY Zenon, <1>1, <1>3, Cleared
<1>5. ctx' = [ctx EXCEPT ![c] = r]
  BY Zenon, <1>2, <1>3
<1>6. Change(c) /\ ~ctx'[c].alive /\ ctx'[c].applied = <<>>
  BY Zenon, <1>4, <1>5, RowChanges
<1>. QED BY Zenon, <1>2, <1>6 DEF Destroys

-----------------------------------------------------------------------------
LEMMA InvInit == Init => Inv
<1>. SUFFICES ASSUME Init PROVE Inv
  OBVIOUS
<1>1. DOMAIN Idle = ProcFields /\ Idle.pc = "idle" /\ Idle.ctx = None
  BY DEF Idle, ProcFields
<1>2. /\ "idle" \in Pcs /\ "idle" \in Unlocked /\ "idle" \notin Processing
      /\ "idle" \notin {"lookup", "lock", "create", "put", "locknew"}
  BY DEF Pcs, Unlocked, Processing
<1>3. /\ proc = [p \in Procs |-> Idle] /\ cache = None /\ evicting = {}
  BY Zenon DEF Init
<1>4. PICK r : r = [alive |-> FALSE, prev |-> 0, last |-> 0, applied |-> <<>>,
                    unsent |-> FALSE, owner |-> None, cached |-> FALSE]
  BY Zenon
<1>5. DOMAIN r = CtxFields /\ r.alive = FALSE /\ r.applied = <<>>
  BY <1>4 DEF CtxFields
<1>6. ctx = [c \in Ctxs |-> r]
  BY Zenon, <1>4 DEF Init
<1>7. Shape
  BY Zenon, <1>1, <1>2, <1>3, <1>5, <1>6 DEF Shape, CtxsOK, ProcsOK, ProcAt, CacheOK
<1>8. \A p \in Procs : LockedAt(p) /\ PrivateAt(p)
  BY Zenon, <1>1, <1>2, <1>3 DEF LockedAt, PrivateAt, Own
<1>9. \A c \in Ctxs : CachedAt(c) /\ ClearAt(c)
  BY Zenon, <1>5, <1>6 DEF CachedAt, ClearAt
<1>. QED BY Zenon, <1>7, <1>8, <1>9 DEF Inv

LEMMA InvStep == Inv /\ [Next]_vars => Inv'
<1>. SUFFICES ASSUME Inv, [Next]_vars PROVE Inv'
  OBVIOUS
<1>1. ASSUME NEW p \in Procs, Lookup(p) \/ PollTask(p) \/ PollQuery(p) \/ CreateFails(p)
      PROVE  Inv'
  BY Zenon, <1>1, LookupStep, PollStep, CreateFailsStep, LooksKeeps
<1>2. ASSUME NEW p \in Procs, Lock(p) \/ LockNew(p) \/ Unlock(p) PROVE Inv'
  BY Zenon, <1>2, LockStep, LockNewStep, UnlockStep, LocksKeeps, LeavesKeeps
<1>3. ASSUME NEW p \in Procs, Create(p) \/ Put(p) PROVE Inv'
  BY Zenon, <1>3, CreateStep, PutStep, CreatesKeeps, PutsKeeps
<1>4. ASSUME NEW p \in Procs,
             \/ Process(p) \/ RespondQuery(p) \/ RespondFailed(p) \/ RespondUnsent(p)
             \/ RespondError(p) \/ RespondCompleted(p) \/ RespondDropped(p)
      PROVE  Inv'
  BY Zenon, <1>4, ProcessStep, RespondStep, MarkedStep, WorksKeeps
<1>5. ASSUME NEW c \in Ctxs, onEviction(c) PROVE Inv'
  BY Zenon, <1>5, EvictionStep, DestroysKeeps
<1>6. CASE Evict \/ Release \/ Signal \/ Update \/ Timeout \/ StickyTimeout \/ OtherHost
           \/ UNCHANGED vars
  BY Zenon, <1>6, CacheStep, ForgetsKeeps
<1>. QED BY Zenon, <1>1, <1>2, <1>3, <1>4, <1>5, <1>6 DEF Next, Handle

LEMMA InvAlways == Spec => []Inv
BY InvInit, InvStep, PTL DEF Spec

\* A context that is in no cache, is held or awaited by no processor and is not
\* being evicted is cleared, whatever the order of evictions, discards and tasks
\* (putWorkflowContext, Unlock, onEviction, removeWorkflowContext).
THEOREM NoContextEverLeaks == Spec => []NoContextLeaks
<1>1. Inv => NoContextLeaks
  BY Zenon DEF Inv, ClearAt, NoContextLeaks
<1>. QED BY <1>1, InvAlways, PTL

\* No two processors are between Lock and Unlock of the same context, and the one
\* that is there has a context whose coroutines nobody destroys under it.
ProcessedByOne ==
    \A p \in Procs : proc[p].pc \in Processing =>
        /\ ctx[proc[p].ctx].alive
        /\ \A q \in Procs \ {p} : proc[q].pc \in Processing => proc[q].ctx # proc[p].ctx

\* The mutex of a workflow context covers its processing (Lock, Unlock, clearState,
\* resetStateIfDestroyed).
THEOREM AlwaysProcessedByOne == Spec => []ProcessedByOne
<1>1. ASSUME Inv PROVE ProcessedByOne
  <2>1. ASSUME NEW p \in Procs, proc[p].pc \in Processing
        PROVE  ctx[proc[p].ctx].owner = p /\ ctx[proc[p].ctx].alive
    BY Zenon, <1>1, <2>1 DEF Inv, LockedAt
  <2>2. ASSUME NEW p \in Procs, proc[p].pc \in Processing,
               NEW q \in Procs \ {p}, proc[q].pc \in Processing
        PROVE  proc[q].ctx # proc[p].ctx
    <3>1. ctx[proc[p].ctx].owner = p /\ ctx[proc[q].ctx].owner = q
      BY Zenon, <2>1, <2>2
    <3>. QED BY Zenon, <2>2, <3>1
  <2>. QED BY Zenon, <2>1, <2>2 DEF ProcessedByOne
<1>. QED BY <1>1, InvAlways, PTL
=============================================================================
