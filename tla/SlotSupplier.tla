---------------------------- MODULE SlotSupplier ----------------------------
(***************************************************************************)
(* The tracking slot supplier (internal/tuning.go) over a fixed-size       *)
(* supplier, and the eager activity executor's count of the permits it     *)
(* holds (internal/internal_eager_activity.go), step by step: each atomic  *)
(* operation, each critical section and each gauge update of the threads   *)
(* that reserve, mark and release slots is an action of its own.           *)
(* BaseWorker takes a reservation or a release as one step; this module    *)
(* looks inside them.                                                      *)
(*                                                                         *)
(* A thread has at most one permit at a time, which is named after it.     *)
(***************************************************************************)
EXTENDS Integers, FiniteSets

CONSTANTS
    Threads,        \* goroutines that use slots
    MaxSlots,       \* size of the inner supplier's semaphore
    MaxConcurrent,  \* eager permits held at a time, 0 for no limit
    MaxVersion,     \* bound on the changes of usedSlots that are explored
    NoThread

ASSUME SlotSupplierAssumption ==
    /\ IsFiniteSet(Threads)
    /\ NoThread \notin Threads
    /\ MaxSlots \in Nat \ {0}
    /\ MaxConcurrent \in Nat
    /\ MaxVersion \in Nat

VARIABLES
    pc,          \* where a thread is
    after,       \* where it goes when publishMetrics returns
    sem,         \* slots left in the inner supplier
    issued,      \* issuedSlotsAtomic
    used,        \* usedSlots
    version,     \* usedSlotsVersion
    snapUsed,    \* publishMetrics' local usedSlots
    snapVersion, \* publishMetrics' local version
    availGauge,  \* taskSlotsAvailableGauge
    usedGauge,   \* taskSlotsUsedGauge
    countLock,   \* the holder of the executor's countLock
    heldCount,   \* heldSlotCount
    callback     \* threads whose permit has the extraReleaseCallback

slots == <<sem, issued>>
table == <<used, version>>
snaps == <<snapUsed, snapVersion>>
gauges == <<availGauge, usedGauge>>
eager == <<countLock, heldCount, callback>>
vars == <<pc, after, slots, table, snaps, gauges, eager>>

Publishing == {"pubRead", "pubAvail", "pubUsed", "pubCheck"}
Resting == {"idle", "held", "using"}
Between == {"count", "eagerCheck", "eagerCount", "eagerHold", "innerRelease", "uncount",
            "callback"}

\* The type of every variable: in particular the inner semaphore is never released
\* beyond its size and neither issuedSlotsAtomic nor heldSlotCount goes negative.
TypeOK ==
    /\ pc \in [Threads -> Publishing \cup Resting \cup Between]
    /\ after \in [Threads -> {"idle", "held", "eagerHold", "using", "innerRelease"}]
    /\ sem \in 0..MaxSlots
    /\ issued \in Nat
    /\ used \subseteq Threads
    /\ version \in Nat
    /\ snapUsed \in [Threads -> Nat]
    /\ snapVersion \in [Threads -> Nat]
    /\ availGauge \in Int
    /\ usedGauge \in Nat
    /\ countLock \in Threads \cup {NoThread}
    /\ heldCount \in Nat
    /\ callback \subseteq Threads

Init ==
    /\ pc = [t \in Threads |-> "idle"]
    /\ after = [t \in Threads |-> "idle"]
    /\ sem = MaxSlots /\ issued = 0
    /\ used = {} /\ version = 0
    /\ snapUsed = [t \in Threads |-> 0] /\ snapVersion = [t \in Threads |-> 0]
    /\ availGauge = 0 /\ usedGauge = 0
    /\ countLock = NoThread /\ heldCount = 0 /\ callback = {}

Goto(t, l) == pc' = [pc EXCEPT ![t] = l]

\* publishMetrics is called and will return to l.
Publish(t, l) ==
    /\ Goto(t, "pubRead")
    /\ after' = [after EXCEPT ![t] = l]

-----------------------------------------------------------------------------
(***************************************************************************)
(* ReserveSlot, by a poller.                                               *)
(***************************************************************************)
Acquire(t) ==
    /\ pc[t] = "idle"
    /\ sem > 0 /\ version < MaxVersion
    /\ sem' = sem - 1
    /\ Goto(t, "count")
    /\ UNCHANGED <<after, issued, table, snaps, gauges, eager>>

CountIssued(t) ==
    /\ pc[t] = "count"
    /\ issued' = issued + 1
    /\ Publish(t, "held")
    /\ UNCHANGED <<sem, table, snaps, gauges, eager>>

(***************************************************************************)
(* reserveOnePendingSlot, which holds countLock across TryReserveSlot.     *)
(***************************************************************************)
LockCount(t) ==
    /\ pc[t] = "idle"
    /\ countLock = NoThread /\ version < MaxVersion
    /\ countLock' = t
    /\ Goto(t, "eagerCheck")
    /\ UNCHANGED <<after, slots, table, snaps, gauges, heldCount, callback>>

\* Room for one more eager permit; 0 means no limit.  Fault: one too many.
RoomForEagerOffByOne == MaxConcurrent = 0 \/ heldCount <= MaxConcurrent
RoomForEager == MaxConcurrent = 0 \/ heldCount < MaxConcurrent

TryAcquire(t) ==
    /\ pc[t] = "eagerCheck"
    /\ RoomForEager /\ sem > 0
    /\ sem' = sem - 1
    /\ Goto(t, "eagerCount")
    /\ UNCHANGED <<after, issued, table, snaps, gauges, eager>>

\* There is no room, no slot, or the worker is stopping.
NoEagerSlot(t) ==
    /\ pc[t] = "eagerCheck"
    /\ countLock' = NoThread
    /\ Goto(t, "idle")
    /\ UNCHANGED <<after, slots, table, snaps, gauges, heldCount, callback>>

EagerCountIssued(t) ==
    /\ pc[t] = "eagerCount"
    /\ issued' = issued + 1
    /\ Publish(t, "eagerHold")
    /\ UNCHANGED <<sem, table, snaps, gauges, eager>>

\* Fault: the permit is counted and nothing will uncount it.
HoldWithoutCallback(t) ==
    /\ pc[t] = "eagerHold"
    /\ heldCount' = heldCount + 1
    /\ countLock' = NoThread
    /\ Goto(t, "held")
    /\ UNCHANGED <<after, slots, table, snaps, gauges, callback>>

Hold(t) ==
    /\ pc[t] = "eagerHold"
    /\ callback' = callback \cup {t}
    /\ heldCount' = heldCount + 1
    /\ countLock' = NoThread
    /\ Goto(t, "held")
    /\ UNCHANGED <<after, slots, table, snaps, gauges>>

-----------------------------------------------------------------------------
(***************************************************************************)
(* MarkSlotUsed and ReleaseSlot.  A slot may be released without use.      *)
(***************************************************************************)
MarkSlotUsed(t) ==
    /\ pc[t] = "held"
    /\ used' = used \cup {t}
    /\ version' = version + 1
    /\ Publish(t, "using")
    /\ UNCHANGED <<slots, snaps, gauges, eager>>

ReleaseSlot(t) ==
    /\ pc[t] \in {"held", "using"}
    /\ used' = used \ {t}
    /\ version' = version + 1
    /\ Publish(t, "innerRelease")
    /\ UNCHANGED <<slots, snaps, gauges, eager>>

InnerRelease(t) ==
    /\ pc[t] = "innerRelease"
    /\ sem' = sem + 1
    /\ Goto(t, "uncount")
    /\ UNCHANGED <<after, issued, table, snaps, gauges, eager>>

Uncount(t) ==
    /\ pc[t] = "uncount"
    /\ issued' = issued - 1
    /\ Goto(t, IF t \in callback THEN "callback" ELSE "idle")
    /\ UNCHANGED <<after, sem, table, snaps, gauges, eager>>

\* extraReleaseCallback takes countLock.
Callback(t) ==
    /\ pc[t] = "callback"
    /\ countLock = NoThread
    /\ heldCount' = heldCount - 1
    /\ callback' = callback \ {t}
    /\ Goto(t, "idle")
    /\ UNCHANGED <<after, slots, table, snaps, gauges, countLock>>

-----------------------------------------------------------------------------
(***************************************************************************)
(* publishMetrics: read under the lock, update the gauges without it, and  *)
(* start over if the table has changed meanwhile.                          *)
(***************************************************************************)
PubRead(t) ==
    /\ pc[t] = "pubRead"
    /\ snapUsed' = [snapUsed EXCEPT ![t] = Cardinality(used)]
    /\ snapVersion' = [snapVersion EXCEPT ![t] = version]
    /\ Goto(t, "pubAvail")
    /\ UNCHANGED <<after, slots, table, gauges, eager>>

PubAvail(t) ==
    /\ pc[t] = "pubAvail"
    /\ availGauge' = MaxSlots - snapUsed[t]
    /\ Goto(t, "pubUsed")
    /\ UNCHANGED <<after, slots, table, snaps, usedGauge, eager>>

PubUsed(t) ==
    /\ pc[t] = "pubUsed"
    /\ usedGauge' = snapUsed[t]
    /\ Goto(t, "pubCheck")
    /\ UNCHANGED <<after, slots, table, snaps, availGauge, eager>>

\* The version read with the snapshot is still current.  Fault: not checked.
UpToDateAssumed(t) == TRUE
UpToDate(t) == snapVersion[t] = version

PubCheck(t) ==
    /\ pc[t] = "pubCheck"
    /\ Goto(t, IF UpToDate(t) THEN after[t] ELSE "pubRead")
    /\ UNCHANGED <<after, slots, table, snaps, gauges, eager>>

-----------------------------------------------------------------------------
Step(t) ==
    \/ Acquire(t) \/ CountIssued(t)
    \/ LockCount(t) \/ TryAcquire(t) \/ NoEagerSlot(t) \/ EagerCountIssued(t) \/ Hold(t)
    \/ MarkSlotUsed(t) \/ ReleaseSlot(t) \/ InnerRelease(t) \/ Uncount(t) \/ Callback(t)
    \/ PubRead(t) \/ PubAvail(t) \/ PubUsed(t) \/ PubCheck(t)

\* The bound on versions is reached and every thread is done.
Finished ==
    /\ \A t \in Threads : pc[t] = "idle"
    /\ version >= MaxVersion
    /\ UNCHANGED vars

Next == (\E t \in Threads : Step(t)) \/ Finished

Spec == Init /\ [][Next]_vars

-----------------------------------------------------------------------------
\* Threads whose permit the inner supplier counts, and those issuedSlotsAtomic
\* counts: the one is entered before and left before the other.
At(t, ls) == pc[t] \in ls \/ (pc[t] \in Publishing /\ after[t] \in ls)
InnerHolds == {t \in Threads :
    At(t, {"count", "eagerCount", "eagerHold", "held", "using", "innerRelease"})}
Issued == {t \in Threads : At(t, {"eagerHold", "held", "using", "innerRelease", "uncount"})}

\* No slot is created or lost by the three counts the code keeps apart: the
\* semaphore, issuedSlotsAtomic and heldSlotCount each agree with the threads
\* between their own increment and decrement, whatever the interleaving.
CountsAgree ==
    /\ sem + Cardinality(InnerHolds) = MaxSlots
    /\ issued = Cardinality(Issued)
    /\ heldCount = Cardinality(callback)

\* The executor never holds more eager permits than maxConcurrent: the check in
\* reserveOnePendingSlot is made under the lock that the callback takes too.
EagerWithinLimit == MaxConcurrent > 0 => heldCount <= MaxConcurrent

\* When no thread is inside publishMetrics the gauges show the table: an update
\* from an old snapshot that overwrote a newer one is always repaired.  Before
\* the first change of the table the gauges may not have been set at all.
GaugesConverge ==
    version > 0 /\ (\A t \in Threads : pc[t] \notin Publishing) =>
        /\ usedGauge = Cardinality(used)
        /\ availGauge = MaxSlots - Cardinality(used)
=============================================================================
