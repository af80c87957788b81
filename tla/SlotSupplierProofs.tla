------------------------- MODULE SlotSupplierProofs -------------------------
(***************************************************************************)
(* Proofs about SlotSupplier, for any number of threads and slots.         *)
(*                                                                         *)
(* Shape is where threads can be with what they hold; the three counts,    *)
(* the eager limit and the gauges are each inductive on top of it.         *)
(***************************************************************************)
EXTENDS SlotSupplier, FiniteSetTheorems, TLAPS

\* The types with the counters not yet known to be bounded.
Typing ==
    /\ pc \in [Threads -> Publishing \cup Resting \cup Between]
    /\ after \in [Threads -> {"idle", "held", "eagerHold", "using", "innerRelease"}]
    /\ sem \in Nat /\ issued \in Int /\ heldCount \in Int
    /\ used \subseteq Threads /\ version \in Nat
    /\ snapUsed \in [Threads -> Nat] /\ snapVersion \in [Threads -> Nat]
    /\ availGauge \in Int /\ usedGauge \in Nat
    /\ countLock \in Threads \cup {NoThread}
    /\ callback \subseteq Threads

\* reserveOnePendingSlot is a critical section of countLock.
LockInv == \A t \in Threads : At(t, {"eagerCheck", "eagerCount", "eagerHold"}) => countLock = t

\* A permit has the callback from Hold until the callback has run.
CallbackInv ==
    \A t \in Threads :
        /\ t \in callback => At(t, {"held", "using", "innerRelease", "uncount", "callback"})
        /\ pc[t] = "callback" => t \in callback

Shape == Typing /\ LockInv /\ CallbackInv

USE DEF Publishing, Resting, Between

\* The initial state, newTrackingSlotSupplier's, has the shape.
LEMMA ShapeInit == Init => Shape
  BY SlotSupplierAssumption DEF Init, Shape, Typing, LockInv, CallbackInv, At

\* A set of threads is finite and counted by a natural number.
LEMMA ThreadSets ==
  ASSUME NEW S \in SUBSET Threads
  PROVE  IsFiniteSet(S) /\ Cardinality(S) \in Nat
  BY SlotSupplierAssumption, FS_Subset, FS_CardinalityType

\* Every step of reserving, marking, releasing and publishing keeps the shape.
LEMMA ShapeStep == Shape /\ [Next]_vars => Shape'
<1> SUFFICES ASSUME Shape, [Next]_vars PROVE Shape'
  OBVIOUS
<1> USE SlotSupplierAssumption DEF Shape, Typing, LockInv, CallbackInv, At, Goto, Publish,
        slots, table, snaps, gauges, eager
<1>1. CASE UNCHANGED vars
  BY <1>1 DEF vars
<1>2. CASE Finished
  BY SMTT(30), <1>2 DEF Finished, vars
<1>3. ASSUME NEW t \in Threads, Step(t) PROVE Shape'
  <2>1. CASE Acquire(t)
    BY <2>1 DEF Acquire
  <2>2. CASE CountIssued(t)
    BY <2>2 DEF CountIssued
  <2>3. CASE LockCount(t)
    BY <2>3 DEF LockCount
  <2>4. CASE TryAcquire(t)
    BY <2>4 DEF TryAcquire
  <2>5. CASE NoEagerSlot(t)
    BY <2>5 DEF NoEagerSlot
  <2>6. CASE EagerCountIssued(t)
    BY <2>6 DEF EagerCountIssued
  <2>7. CASE Hold(t)
    BY <2>7 DEF Hold
  <2>8. CASE MarkSlotUsed(t)
    BY <2>8 DEF MarkSlotUsed
  <2>9. CASE ReleaseSlot(t)
    BY <2>9 DEF ReleaseSlot
  <2>10. CASE InnerRelease(t)
    BY <2>10 DEF InnerRelease
  <2>11. CASE Uncount(t)
    BY <2>11 DEF Uncount
  <2>12. CASE Callback(t)
    BY <2>12 DEF Callback
  <2>13. CASE PubRead(t)
    BY <2>13, ThreadSets DEF PubRead
  <2>14. CASE PubAvail(t)
    BY <2>14 DEF PubAvail
  <2>15. CASE PubUsed(t)
    BY <2>15 DEF PubUsed
  <2>16. CASE PubCheck(t)
    BY <2>16 DEF PubCheck
  <2> QED
    BY <1>3, <2>1, <2>2, <2>3, <2>4, <2>5, <2>6, <2>7, <2>8, <2>9, <2>10, <2>11, <2>12,
       <2>13, <2>14, <2>15, <2>16 DEF Step
<1> QED
  BY <1>1, <1>2, <1>3 DEF Next

-----------------------------------------------------------------------------
\* A set of threads with one thread added, as when a reservation counts its slot.
LEMMA OneMore ==
  ASSUME NEW S \in SUBSET Threads, NEW t \in Threads \ S
  PROVE  Cardinality(S \cup {t}) = Cardinality(S) + 1
  BY ThreadSets, FS_AddElement

\* A set of threads with one thread taken away, as when a release uncounts its slot.
LEMMA OneLess ==
  ASSUME NEW S \in SUBSET Threads, NEW t \in S
  PROVE  Cardinality(S \ {t}) = Cardinality(S) - 1
  BY ThreadSets, FS_RemoveElement

\* Initially nothing is held and every count is that of the empty set.
LEMMA CountsInit == Init => CountsAgree
<1> SUFFICES ASSUME Init PROVE CountsAgree
  OBVIOUS
<1>1. InnerHolds = {} /\ Issued = {} /\ callback = {}
  BY DEF Init, InnerHolds, Issued, At
<1> QED
  BY <1>1, FS_EmptySet, SlotSupplierAssumption DEF Init, CountsAgree

\* The increments and decrements of the semaphore, of issuedSlotsAtomic and of
\* heldSlotCount are made where a thread enters and leaves the set each counts.
LEMMA CountsStep == Shape /\ CountsAgree /\ [Next]_vars => CountsAgree'
<1> SUFFICES ASSUME Shape, CountsAgree, [Next]_vars PROVE CountsAgree'
  OBVIOUS
<1> USE DEF Shape, Typing, CountsAgree, slots, table, snaps, gauges, eager
<1>0. /\ InnerHolds \in SUBSET Threads /\ Issued \in SUBSET Threads
      /\ callback \in SUBSET Threads
      /\ Cardinality(InnerHolds) \in Nat /\ Cardinality(Issued) \in Nat
      /\ Cardinality(callback) \in Nat
  BY ThreadSets DEF InnerHolds, Issued
<1>1. CASE UNCHANGED vars
  BY <1>1 DEF vars, InnerHolds, Issued, At
<1>2. CASE Finished
  BY <1>2 DEF Finished, vars, InnerHolds, Issued, At
<1>3. ASSUME NEW t \in Threads, Step(t) PROVE CountsAgree'
  <2>1. CASE Acquire(t) \/ TryAcquire(t)
    <3>1. /\ t \notin InnerHolds /\ InnerHolds' = InnerHolds \cup {t}
          /\ Issued' = Issued
      BY <2>1 DEF Acquire, TryAcquire, Goto, InnerHolds, Issued, At
    <3>2. sem' = sem - 1 /\ UNCHANGED <<issued, heldCount, callback>>
      BY <2>1 DEF Acquire, TryAcquire
    <3>3. Cardinality(InnerHolds') = Cardinality(InnerHolds) + 1
      BY <1>0, <3>1, OneMore
    <3> QED
      BY <1>0, <3>1, <3>2, <3>3, SlotSupplierAssumption
  <2>2. CASE CountIssued(t) \/ EagerCountIssued(t)
    <3>1. /\ t \notin Issued /\ Issued' = Issued \cup {t}
          /\ InnerHolds' = InnerHolds
      BY <2>2 DEF CountIssued, EagerCountIssued, Goto, Publish, InnerHolds, Issued, At
    <3>2. issued' = issued + 1 /\ UNCHANGED <<sem, heldCount, callback>>
      BY <2>2 DEF CountIssued, EagerCountIssued
    <3>3. Cardinality(Issued') = Cardinality(Issued) + 1
      BY <1>0, <3>1, OneMore
    <3> QED
      BY <1>0, <3>1, <3>2, <3>3, SlotSupplierAssumption
  <2>3. CASE InnerRelease(t)
    <3>1. /\ t \in InnerHolds /\ InnerHolds' = InnerHolds \ {t}
          /\ Issued' = Issued
      BY <2>3 DEF InnerRelease, Goto, InnerHolds, Issued, At
    <3>2. sem' = sem + 1 /\ UNCHANGED <<issued, heldCount, callback>>
      BY <2>3 DEF InnerRelease
    <3>3. Cardinality(InnerHolds') = Cardinality(InnerHolds) - 1
      BY <1>0, <3>1, OneLess
    <3> QED
      BY <1>0, <3>1, <3>2, <3>3, SlotSupplierAssumption
  <2>4. CASE Uncount(t)
    <3>1. /\ t \in Issued /\ Issued' = Issued \ {t}
          /\ InnerHolds' = InnerHolds
      BY <2>4 DEF Uncount, Goto, InnerHolds, Issued, At
    <3>2. issued' = issued - 1 /\ UNCHANGED <<sem, heldCount, callback>>
      BY <2>4 DEF Uncount
    <3>3. Cardinality(Issued') = Cardinality(Issued) - 1
      BY <1>0, <3>1, OneLess
    <3> QED
      BY <1>0, <3>1, <3>2, <3>3, SlotSupplierAssumption
  <2>5. CASE Hold(t)
    <3>1. t \notin callback /\ InnerHolds' = InnerHolds /\ Issued' = Issued
      BY <2>5 DEF Hold, Goto, InnerHolds, Issued, At, CallbackInv
    <3>2. /\ callback' = callback \cup {t} /\ heldCount' = heldCount + 1
          /\ UNCHANGED <<sem, issued>>
      BY <2>5 DEF Hold
    <3>3. Cardinality(callback') = Cardinality(callback) + 1
      BY <1>0, <3>1, <3>2, OneMore
    <3> QED
      BY <1>0, <3>1, <3>2, <3>3, SlotSupplierAssumption
  <2>6. CASE Callback(t)
    <3>1. t \in callback /\ InnerHolds' = InnerHolds /\ Issued' = Issued
      BY <2>6 DEF Callback, Goto, InnerHolds, Issued, At, CallbackInv
    <3>2. /\ callback' = callback \ {t} /\ heldCount' = heldCount - 1
          /\ UNCHANGED <<sem, issued>>
      BY <2>6 DEF Callback
    <3>3. Cardinality(callback') = Cardinality(callback) - 1
      BY <1>0, <3>1, <3>2, OneLess
    <3> QED
      BY <1>0, <3>1, <3>2, <3>3, SlotSupplierAssumption
  <2>7. CASE LockCount(t) \/ NoEagerSlot(t)
    BY ZenonT(60), <2>7 DEF LockCount, NoEagerSlot, Goto, InnerHolds, Issued, At
  <2>8. CASE MarkSlotUsed(t) \/ ReleaseSlot(t)
    BY SMTT(30), <2>8 DEF MarkSlotUsed, ReleaseSlot, Goto, Publish, InnerHolds, Issued, At
  <2>9. CASE PubRead(t) \/ PubAvail(t) \/ PubUsed(t) \/ PubCheck(t)
    <3>1. InnerHolds' = InnerHolds /\ Issued' = Issued
      BY <2>9 DEF PubRead, PubAvail, PubUsed, PubCheck, Goto, InnerHolds, Issued, At
    <3>2. UNCHANGED <<sem, issued, heldCount, callback>>
      BY <2>9 DEF PubRead, PubAvail, PubUsed, PubCheck
    <3> QED
      BY <3>1, <3>2
  <2> QED
    BY <1>3, <2>1, <2>2, <2>3, <2>4, <2>5, <2>6, <2>7, <2>8, <2>9 DEF Step
<1> QED
  BY <1>1, <1>2, <1>3 DEF Next

\* The three counts of slots agree with who holds what, for any interleaving.
THEOREM CountsCorrect == Spec => []CountsAgree
<1>1. Init => Shape /\ CountsAgree
  BY ShapeInit, CountsInit
<1>2. Shape /\ CountsAgree /\ [Next]_vars => (Shape /\ CountsAgree)'
  BY ShapeStep, CountsStep
<1> QED
  BY <1>1, <1>2, PTL DEF Spec

\* Every variable keeps its type; in particular the semaphore is never released
\* beyond its size and no counter goes below zero.
THEOREM TypeCorrect == Spec => []TypeOK
<1>1. Shape /\ CountsAgree => TypeOK
  <2> SUFFICES ASSUME Shape, CountsAgree PROVE TypeOK
    OBVIOUS
  <2>1. /\ Cardinality(InnerHolds) \in Nat /\ Cardinality(Issued) \in Nat
        /\ Cardinality(callback) \in Nat
    BY ThreadSets DEF InnerHolds, Issued, Shape, Typing
  <2>2. sem \in 0..MaxSlots
    <3>1. sem = MaxSlots - Cardinality(InnerHolds) /\ sem \in Nat
      BY <2>1, SlotSupplierAssumption DEF Shape, Typing, CountsAgree
    <3> QED
      BY <2>1, <3>1, SlotSupplierAssumption
  <2> QED
    BY <2>1, <2>2 DEF Shape, Typing, CountsAgree, TypeOK
<1>2. Init => Shape
  BY ShapeInit
<1>3. Shape /\ [Next]_vars => Shape'
  BY ShapeStep
<1> QED
  BY <1>1, <1>2, <1>3, CountsCorrect, PTL DEF Spec

-----------------------------------------------------------------------------
\* While a thread is between the check and the count of an eager permit, which it
\* is under countLock, there is room for that permit.
LimitInv ==
    MaxConcurrent > 0 =>
        /\ heldCount <= MaxConcurrent
        /\ \A t \in Threads : At(t, {"eagerCount", "eagerHold"}) => heldCount < MaxConcurrent

\* Only TryAcquire promises room and only Hold uses it up; nobody else can be
\* between the two.
LEMMA LimitStep == Shape /\ LimitInv /\ [Next]_vars => LimitInv'
<1> SUFFICES ASSUME Shape, LimitInv, [Next]_vars PROVE LimitInv'
  OBVIOUS
<1> USE SlotSupplierAssumption DEF Shape, Typing, LimitInv, At, slots, table, snaps, gauges, eager
<1>1. CASE UNCHANGED vars
  BY <1>1 DEF vars
<1>2. CASE Finished
  BY SMTT(30), <1>2 DEF Finished, vars
<1>3. ASSUME NEW t \in Threads, Step(t) PROVE LimitInv'
  <2>1. CASE TryAcquire(t)
    BY <2>1 DEF TryAcquire, RoomForEager, Goto, LockInv
  <2>2. CASE Hold(t)
    BY <2>2 DEF Hold, Goto, LockInv
  <2>3. CASE Callback(t)
    BY <2>3 DEF Callback, Goto
  <2>4. CASE Acquire(t) \/ LockCount(t) \/ NoEagerSlot(t) \/ InnerRelease(t) \/ Uncount(t)
    BY <2>4 DEF Acquire, LockCount, NoEagerSlot, InnerRelease, Uncount, Goto
  <2>5. CASE CountIssued(t) \/ EagerCountIssued(t)
    BY <2>5 DEF CountIssued, EagerCountIssued, Goto, Publish
  <2>6. CASE MarkSlotUsed(t) \/ ReleaseSlot(t)
    BY <2>6 DEF MarkSlotUsed, ReleaseSlot, Goto, Publish
  <2>7. CASE PubRead(t) \/ PubAvail(t) \/ PubUsed(t) \/ PubCheck(t)
    BY <2>7 DEF PubRead, PubAvail, PubUsed, PubCheck, Goto
  <2> QED
    BY <1>3, <2>1, <2>2, <2>3, <2>4, <2>5, <2>6, <2>7 DEF Step
<1> QED
  BY <1>1, <1>2, <1>3 DEF Next

\* The eager executor never holds more permits than maxConcurrent, although the
\* release callbacks run concurrently with reserveOnePendingSlot.
THEOREM EagerLimitCorrect == Spec => []EagerWithinLimit
<1>1. Init => Shape /\ LimitInv
  BY ShapeInit, SlotSupplierAssumption DEF Init, LimitInv, At
<1>2. Shape /\ LimitInv /\ [Next]_vars => (Shape /\ LimitInv)'
  BY ShapeStep, LimitStep
<1>3. LimitInv => EagerWithinLimit
  BY DEF LimitInv, EagerWithinLimit
<1> QED
  BY <1>1, <1>2, <1>3, PTL DEF Spec

-----------------------------------------------------------------------------
\* A snapshot is not from the future, and one with the current version is right.
SnapInv ==
    \A t \in Threads : pc[t] \in {"pubAvail", "pubUsed", "pubCheck"} =>
        /\ snapVersion[t] <= version
        /\ snapVersion[t] = version => snapUsed[t] = Cardinality(used)

\* A gauge that is wrong will be written again: some thread has yet to write it, or
\* has written it from an old snapshot and will find that out.
UsedPending ==
    version > 0 /\ usedGauge # Cardinality(used) =>
        \E t \in Threads :
            \/ pc[t] \in {"pubRead", "pubAvail", "pubUsed"}
            \/ pc[t] = "pubCheck" /\ snapVersion[t] # version

AvailPending ==
    version > 0 /\ availGauge # MaxSlots - Cardinality(used) =>
        \E t \in Threads :
            \/ pc[t] \in {"pubRead", "pubAvail"}
            \/ pc[t] \in {"pubUsed", "pubCheck"} /\ snapVersion[t] # version

GaugeInv == SnapInv /\ UsedPending /\ AvailPending

\* Every change of the table is followed by a publication of its own, and a
\* publication ends only with the version it has read.
LEMMA GaugeStep == Shape /\ GaugeInv /\ [Next]_vars => GaugeInv'
<1> SUFFICES ASSUME Shape, GaugeInv, [Next]_vars PROVE GaugeInv'
  OBVIOUS
<1> USE SlotSupplierAssumption DEF Shape, Typing, GaugeInv, SnapInv, UsedPending, AvailPending,
        slots, table, snaps, gauges, eager
<1>0. Cardinality(used) \in Nat
  BY ThreadSets
<1>1. CASE UNCHANGED vars
  BY <1>1 DEF vars
<1>2. CASE Finished
  BY SMTT(30), <1>2 DEF Finished, vars
<1>3. ASSUME NEW t \in Threads, Step(t) PROVE GaugeInv'
  <2>1. CASE Acquire(t)
    BY <1>0, <2>1 DEF Acquire, Goto
  <2>2. CASE CountIssued(t)
    BY <1>0, <2>2 DEF CountIssued, Publish, Goto
  <2>3. CASE LockCount(t)
    BY <1>0, <2>3 DEF LockCount, Goto
  <2>4. CASE TryAcquire(t)
    BY <1>0, <2>4 DEF TryAcquire, Goto
  <2>5. CASE NoEagerSlot(t)
    BY <1>0, <2>5 DEF NoEagerSlot, Goto
  <2>6. CASE EagerCountIssued(t)
    BY <1>0, <2>6 DEF EagerCountIssued, Publish, Goto
  <2>7. CASE Hold(t)
    BY <1>0, <2>7 DEF Hold, Goto
  <2>8. CASE MarkSlotUsed(t)
    BY <1>0, <2>8 DEF MarkSlotUsed, Publish, Goto
  <2>9. CASE ReleaseSlot(t)
    BY <1>0, <2>9 DEF ReleaseSlot, Publish, Goto
  <2>10. CASE InnerRelease(t)
    BY <1>0, <2>10 DEF InnerRelease, Goto
  <2>11. CASE Uncount(t)
    BY <1>0, <2>11 DEF Uncount, Goto
  <2>12. CASE Callback(t)
    BY <1>0, <2>12 DEF Callback, Goto
  <2>13. CASE PubRead(t)
    BY <1>0, <2>13 DEF PubRead, Goto
  <2>14. CASE PubAvail(t)
    BY <1>0, <2>14 DEF PubAvail, Goto
  <2>15. CASE PubUsed(t)
    BY <1>0, <2>15 DEF PubUsed, Goto
  <2>16. CASE PubCheck(t)
    BY <1>0, <2>16 DEF PubCheck, Goto, UpToDate
  <2> QED
    BY ZenonT(60), <1>3, <2>1, <2>2, <2>3, <2>4, <2>5, <2>6, <2>7, <2>8, <2>9, <2>10, <2>11, <2>12,
       <2>13, <2>14, <2>15, <2>16 DEF Step
<1> QED
  BY <1>1, <1>2, <1>3 DEF Next

\* The slot gauges of publishMetrics are right whenever no thread is publishing,
\* for any number of concurrent reservations and releases.
THEOREM GaugesCorrect == Spec => []GaugesConverge
<1>1. Init => Shape /\ GaugeInv
  BY ShapeInit DEF Init, GaugeInv, SnapInv, UsedPending, AvailPending
<1>2. Shape /\ GaugeInv /\ [Next]_vars => (Shape /\ GaugeInv)'
  BY ShapeStep, GaugeStep
<1>3. GaugeInv => GaugesConverge
  BY DEF GaugeInv, UsedPending, AvailPending, GaugesConverge
<1> QED
  BY <1>1, <1>2, <1>3, PTL DEF Spec
=============================================================================
