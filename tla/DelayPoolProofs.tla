--------------------------- MODULE DelayPoolProofs ---------------------------
(***************************************************************************)
(* Proofs about DelayPool, for any finite set of items and delays, any      *)
(* capacity, and both ways to close the pool.                               *)
(***************************************************************************)
EXTENDS DelayPool, FiniteSetTheorems, TLAPS

USE DelayPoolAssumption

\* How far a close is tells what is closed, and who still has an item.
Stages ==
    /\ closed <=> closer # "open"
    /\ done <=> closer \notin {"open", "cancelling"}
    /\ mode = "none" <=> closer = "open"
    /\ closer \in {"drain", "send", "closed"} => proc = "stopped"
    /\ closer = "closed" => heap = {}
    /\ proc # "send" => hand["proc"] = {}
    /\ closer # "send" => hand["closer"] = {}
    /\ hand["proc"] = {} \/ \E i \in Items : hand["proc"] = {i}
    /\ hand["closer"] = {} \/ \E i \in Items : hand["closer"] = {i}

\* Items are in the pool only once they were added; what the processor holds is
\* ready, and so is what a graceful close holds.
Ready ==
    /\ proc \in {"ready", "send"} => readyBy <= clock
    /\ \A i \in heap \cup hand["proc"] \cup hand["closer"] : adder[i] = "added"
    /\ \A i \in hand["proc"] : due[i] <= clock
    /\ \A i \in hand["closer"] : mode = "immediate" \/ due[i] <= clock

\* No item that is not ready goes astray.
Located ==
    \A i \in Items : adder[i] = "added" /\ due[i] > clock =>
        i \in heap \cup hand["closer"] \cup delivered \cup returned

\* Why NoLostWakeup is inductive: only a limited pool makes an Add wait, and
\* the processor of a limited pool notifies whenever it has popped an item.
Waiting == \A i \in Items : adder[i] = "waiting" => Capacity > 0

Inv == TypeOK /\ Stages /\ Ready /\ Located /\ Waiting /\ NoLostWakeup

\* The types, without the bounds on how many items are held where.
BasicType ==
    /\ clock \in 0 .. MaxClock
    /\ adder \in [Items -> {"idle", "trying", "waiting", "added", "failed"}]
    /\ due \in [Items -> Nat]
    /\ heap \subseteq Items
    /\ proc \in {"look", "empty", "timer", "ready", "send", "stopped"}
    /\ readyBy \in Nat
    /\ closer \in {"open", "cancelling", "waiting", "drain", "send", "closed"}
    /\ mode \in {"none", "graceful", "immediate"}
    /\ newItem \in BOOLEAN /\ spaceAvailable \in BOOLEAN
    /\ processed \in BOOLEAN /\ closed \in BOOLEAN /\ done \in BOOLEAN
    /\ hand \in [{"proc", "closer"} -> SUBSET Items]
    /\ delivered \subseteq Items
    /\ returned \subseteq Items

\* The heap is finite, and a full one is not empty.
LEMMA HeapFinite ==
    ASSUME heap \subseteq Items
    PROVE  /\ IsFiniteSet(heap) /\ Cardinality(heap) \in Nat
           /\ \A i \in Items : Cardinality(heap \cup {i}) \in {Cardinality(heap), Cardinality(heap) + 1}
           /\ \A i \in heap : Cardinality(heap \ {i}) = Cardinality(heap) - 1
           /\ Full => heap # {}
<1>1. IsFiniteSet(heap) /\ Cardinality(heap) \in Nat
  BY FS_Subset, FS_CardinalityType
<1>2. ASSUME NEW i \in Items
      PROVE  Cardinality(heap \cup {i}) \in {Cardinality(heap), Cardinality(heap) + 1}
  BY <1>1, FS_AddElement
<1>3. ASSUME NEW i \in heap PROVE Cardinality(heap \ {i}) = Cardinality(heap) - 1
  BY <1>1, FS_RemoveElement
<1>4. Full => heap # {}
  BY <1>1, FS_EmptySet DEF Full
<1> QED
  BY <1>1, <1>2, <1>3, <1>4

\* The parts of TypeOK, and how they make it up: at most one item is in a hand.
LEMMA TypeParts ==
    /\ TypeOK => BasicType /\ (Capacity > 0 => Cardinality(heap) <= Capacity)
    /\ BasicType /\ Stages /\ (Capacity > 0 => Cardinality(heap) <= Capacity) => TypeOK
<1>1. TypeOK => BasicType /\ (Capacity > 0 => Cardinality(heap) <= Capacity)
  BY DEF TypeOK, BasicType
<1>2. ASSUME BasicType, Stages, NEW a \in DOMAIN hand PROVE Cardinality(hand[a]) <= 1
  <2>1. hand[a] = {} \/ \E i \in Items : hand[a] = {i}
    BY <1>2 DEF BasicType, Stages
  <2>2. Cardinality({}) = 0 /\ \A i \in Items : Cardinality({i}) = 1
    BY FS_EmptySet, FS_Singleton
  <2> QED
    BY <2>1, <2>2
<1> QED
  BY <1>1, <1>2 DEF TypeOK, BasicType

\* The pool starts empty and open.
LEMMA InitInv == Init => Inv
<1> SUFFICES ASSUME Init PROVE Inv
  OBVIOUS
<1> USE DEF Init
<1>1. BasicType
  <2>1. hand \in [{"proc", "closer"} -> SUBSET Items]
    OBVIOUS
  <2>2. /\ clock \in 0 .. MaxClock
        /\ adder \in [Items -> {"idle", "trying", "waiting", "added", "failed"}]
        /\ due \in [Items -> Nat]
    OBVIOUS
  <2>3. newItem \in BOOLEAN /\ spaceAvailable \in BOOLEAN /\ processed \in BOOLEAN
        /\ closed \in BOOLEAN /\ done \in BOOLEAN
    OBVIOUS
  <2> QED
    BY <2>1, <2>2, <2>3 DEF BasicType
<1>2. Stages /\ Ready /\ Located /\ Waiting /\ NoLostWakeup
  BY DEF Stages, Ready, Located, Waiting, NoLostWakeup
<1>3. Cardinality(heap) = 0
  BY FS_EmptySet
<1> QED
  BY <1>1, <1>2, <1>3, TypeParts DEF Inv
-----------------------------------------------------------------------------
\* Every action keeps the types.
LEMMA NextBasic ==
    ASSUME BasicType, Next
    PROVE  BasicType'
<1> USE DEF BasicType, poolVars
<1>1. CASE Tick
  BY <1>1 DEF Tick
<1>2. ASSUME NEW i \in Items, AddStart(i) PROVE BasicType'
  BY <1>2 DEF AddStart
<1>3. ASSUME NEW i \in Items, AddWakes(i) PROVE BasicType'
  <2>1. adder' \in [Items -> {"idle", "trying", "waiting", "added", "failed"}]
    BY <1>3 DEF AddWakes
  <2>2. spaceAvailable' \in BOOLEAN
    BY <1>3 DEF AddWakes
  <2> QED
    BY <1>3, <2>1, <2>2 DEF AddWakes
<1>4. ASSUME NEW i \in Items, TryAdd(i) PROVE BasicType'
  <2>1. adder' \in [Items -> {"idle", "trying", "waiting", "added", "failed"}]
    BY <1>4 DEF TryAdd
  <2>2. heap' \subseteq Items
    BY <1>4 DEF TryAdd
  <2>3. newItem' \in BOOLEAN
    BY <1>4 DEF TryAdd
  <2> QED
    BY <1>4, <2>1, <2>2, <2>3 DEF TryAdd
<1>5. CASE Look
  <2>1. \A i \in Earliest : due[i] \in Nat
    BY DEF Earliest
  <2>2. readyBy' \in Nat
    BY <1>5, <2>1 DEF Look
  <2>3. processed' \in BOOLEAN
    BY <1>5 DEF Look
  <2>4. proc' \in {"empty", "ready", "timer"} /\ UNCHANGED <<clock, adder, due, closed, done, closer, mode, delivered, returned>>
    BY <1>5 DEF Look, ProcessorStep
  <2> QED
    BY <1>5, <2>2, <2>3, <2>4 DEF Look
<1>6. CASE ProcessorWakes
  <2>1. readyBy' \in Nat
    BY <1>6 DEF ProcessorWakes
  <2>2. processed' \in BOOLEAN /\ newItem' \in BOOLEAN
    BY <1>6 DEF ProcessorWakes
  <2>3. proc' \in {"stopped", "look", "ready"} /\ UNCHANGED <<clock, adder, due, closed, done, closer, mode, delivered, returned>>
    BY <1>6 DEF ProcessorWakes, ProcessorStep
  <2> QED
    BY <1>6, <2>1, <2>2, <2>3 DEF ProcessorWakes
<1>7. CASE PopReady
  <2>1. heap' \subseteq Items /\ hand' \in [{"proc", "closer"} -> SUBSET Items]
    BY <1>7 DEF PopReady, Earliest
  <2>2. processed' \in BOOLEAN /\ spaceAvailable' \in BOOLEAN
    BY <1>7 DEF PopReady
  <2>3. proc' \in {"send", "look"} /\ UNCHANGED <<clock, adder, due, closed, done, closer, mode, delivered, returned>>
    BY <1>7 DEF PopReady, ProcessorStep
  <2> QED
    BY <1>7, <2>1, <2>2, <2>3 DEF PopReady
<1>8. CASE DropOnClose
  BY <1>8 DEF DropOnClose, ProcessorStep
<1>9. CASE Receive
  BY <1>9 DEF Receive, ReceiveFromProcessor, ReceiveFromCloser, Received
<1>10. CASE DrainHeap
  BY <1>10 DEF DrainHeap, CloserStep, Earliest
<1>11. CASE CancelContext \/ StartDrain
  BY <1>11 DEF CancelContext, StartDrain, CloserStep
<1>12. ASSUME NEW m \in CloseModes, FirstClose(m) PROVE BasicType'
  BY <1>12 DEF FirstClose, CloserStep
<1>13. CASE Rest
  BY <1>13 DEF Rest, vars
<1> QED
  BY <1>1, <1>2, <1>3, <1>4, <1>5, <1>6, <1>7, <1>8, <1>9, <1>10, <1>11, <1>12, <1>13
     DEF Next, Adder, Processor, Closer

\* The heap grows in tryAdd alone, and only when there is room.
LEMMA NextRoom ==
    ASSUME BasicType, Capacity > 0 => Cardinality(heap) <= Capacity, Next
    PROVE  Capacity > 0 => Cardinality(heap') <= Capacity
<1> SUFFICES ASSUME Capacity > 0, Cardinality(heap) <= Capacity
             PROVE  Cardinality(heap') <= Capacity
  OBVIOUS
<1>1. heap \subseteq Items
  BY DEF BasicType
<1>2. \/ heap' = heap
      \/ \E i \in heap : heap' = heap \ {i}
      \/ ~Full /\ \E i \in Items : heap' = heap \cup {i}
  BY DEF Next, Tick, Adder, AddStart, AddWakes, TryAdd, Processor, Look, ProcessorWakes, PopReady,
         DropOnClose, ProcessorStep, Receive, ReceiveFromProcessor, ReceiveFromCloser,
         FirstClose, Closer, CancelContext, StartDrain, DrainHeap, CloserStep, Earliest,
         Rest, vars, poolVars
<1>3. CASE ~Full /\ \E i \in Items : heap' = heap \cup {i}
  <2>1. Cardinality(heap) < Capacity
    BY <1>1, <1>3, HeapFinite DEF Full
  <2>2. PICK i \in Items : heap' = heap \cup {i}
    BY <1>3
  <2>3. Cardinality(heap \cup {i}) \in {Cardinality(heap), Cardinality(heap) + 1}
    BY <1>1, HeapFinite
  <2> QED
    BY <1>1, <2>1, <2>2, <2>3, HeapFinite
<1>4. CASE \E i \in heap : heap' = heap \ {i}
  <2>1. PICK i \in heap : heap' = heap \ {i}
    BY <1>4
  <2>2. Cardinality(heap \ {i}) = Cardinality(heap) - 1
    BY <1>1, HeapFinite
  <2> QED
    BY <1>1, <2>1, <2>2, HeapFinite
<1> QED
  BY <1>2, <1>3, <1>4

\* A close goes through its stages while the processor comes to an end.
LEMMA NextStages ==
    ASSUME BasicType, Stages, Next
    PROVE  Stages'
<1> USE DEF BasicType, Stages, poolVars
<1>1. CASE Tick
  BY <1>1 DEF Tick
<1>2. ASSUME NEW i \in Items, AddStart(i) PROVE Stages'
  BY <1>2 DEF AddStart
<1>3. ASSUME NEW i \in Items, AddWakes(i) PROVE Stages'
  BY <1>3 DEF AddWakes
<1>4. ASSUME NEW i \in Items, TryAdd(i) PROVE Stages'
  BY <1>4 DEF TryAdd
<1>5. CASE Look
  BY <1>5 DEF Look, ProcessorStep, Earliest
<1>6. CASE ProcessorWakes
  BY <1>6 DEF ProcessorWakes, ProcessorStep
<1>7. CASE PopReady
  BY <1>7 DEF PopReady, ProcessorStep, Earliest
<1>8. CASE DropOnClose
  BY <1>8 DEF DropOnClose, ProcessorStep
<1>9. CASE Receive
  BY <1>9 DEF Receive, ReceiveFromProcessor, ReceiveFromCloser
<1>10. CASE DrainHeap
  BY <1>10 DEF DrainHeap, CloserStep, Earliest
<1>11. CASE CancelContext \/ StartDrain
  BY <1>11 DEF CancelContext, StartDrain, CloserStep
<1>12. ASSUME NEW m \in CloseModes, FirstClose(m) PROVE Stages'
  BY <1>12 DEF FirstClose, CloserStep
<1>13. CASE Rest
  BY <1>13 DEF Rest, vars
<1> QED
  BY <1>1, <1>2, <1>3, <1>4, <1>5, <1>6, <1>7, <1>8, <1>9, <1>10, <1>11, <1>12, <1>13
     DEF Next, Adder, Processor, Closer

\* The processor pops only what is ready, and an item keeps its time.
LEMMA NextReady ==
    ASSUME BasicType, Stages, Ready, Next
    PROVE  Ready'
<1> USE DEF BasicType, Ready, poolVars
<1>1. CASE Tick
  BY <1>1 DEF Tick
<1>2. ASSUME NEW i \in Items, AddStart(i) PROVE Ready'
  BY <1>2 DEF AddStart
<1>3. ASSUME NEW i \in Items, AddWakes(i) PROVE Ready'
  BY <1>3 DEF AddWakes
<1>4. ASSUME NEW i \in Items, TryAdd(i) PROVE Ready'
  BY <1>4 DEF TryAdd
<1>5. CASE Look
  BY <1>5 DEF Look, ProcessorStep, Earliest
<1>6. CASE ProcessorWakes
  BY <1>6 DEF ProcessorWakes, ProcessorStep
<1>7. CASE PopReady
  BY <1>7 DEF PopReady, ProcessorStep, Earliest
<1>8. CASE DropOnClose
  BY <1>8 DEF DropOnClose, ProcessorStep
<1>9. CASE Receive
  BY <1>9 DEF Receive, ReceiveFromProcessor, ReceiveFromCloser
<1>10. CASE DrainHeap
  BY <1>10 DEF DrainHeap, CloserStep, Earliest, Stages
<1>11. CASE CancelContext \/ StartDrain
  BY <1>11 DEF CancelContext, StartDrain, CloserStep
<1>12. ASSUME NEW m \in CloseModes, FirstClose(m) PROVE Ready'
  BY <1>12 DEF FirstClose, CloserStep, Stages
<1>13. CASE Rest
  BY <1>13 DEF Rest, vars
<1> QED
  BY <1>1, <1>2, <1>3, <1>4, <1>5, <1>6, <1>7, <1>8, <1>9, <1>10, <1>11, <1>12, <1>13
     DEF Next, Adder, Processor, Closer

\* What leaves the heap or a hand and is not ready was received by somebody.
LEMMA NextLocated ==
    ASSUME BasicType, Stages, Ready, Located, Next
    PROVE  Located'
<1> USE DEF BasicType, Located, poolVars
<1>1. CASE Tick
  BY <1>1 DEF Tick
<1>2. ASSUME NEW i \in Items, AddStart(i) PROVE Located'
  BY <1>2 DEF AddStart
<1>3. ASSUME NEW i \in Items, AddWakes(i) PROVE Located'
  BY <1>3 DEF AddWakes
<1>4. ASSUME NEW i \in Items, TryAdd(i) PROVE Located'
  BY <1>4 DEF TryAdd
<1>5. CASE Look
  BY <1>5 DEF Look, ProcessorStep
<1>6. CASE ProcessorWakes
  BY <1>6 DEF ProcessorWakes, ProcessorStep
<1>7. CASE PopReady
  BY <1>7 DEF PopReady, ProcessorStep, Earliest, Ready
<1>8. CASE DropOnClose
  BY <1>8 DEF DropOnClose, ProcessorStep
<1>9. CASE Receive
  BY <1>9 DEF Receive, ReceiveFromProcessor, ReceiveFromCloser, Received
<1>10. CASE DrainHeap
  BY <1>10 DEF DrainHeap, CloserStep, Earliest, Stages
<1>11. CASE CancelContext \/ StartDrain
  BY <1>11 DEF CancelContext, StartDrain, CloserStep
<1>12. ASSUME NEW m \in CloseModes, FirstClose(m) PROVE Located'
  BY <1>12 DEF FirstClose, CloserStep
<1>13. CASE Rest
  BY <1>13 DEF Rest, vars
<1> QED
  BY <1>1, <1>2, <1>3, <1>4, <1>5, <1>6, <1>7, <1>8, <1>9, <1>10, <1>11, <1>12, <1>13
     DEF Next, Adder, Processor, Closer

\* Whoever frees a place leaves a notification, or is still to leave one; whoever
\* takes the notification goes on to try.
LEMMA NextWaiting ==
    ASSUME BasicType, Stages, Waiting, NoLostWakeup, Next
    PROVE  Waiting' /\ NoLostWakeup'
<1> USE DEF BasicType, Waiting, NoLostWakeup, poolVars
<1>1. CASE Tick
  BY <1>1 DEF Tick
<1>2. ASSUME NEW i \in Items, AddStart(i) PROVE Waiting' /\ NoLostWakeup'
  BY <1>2 DEF AddStart
<1>3. ASSUME NEW i \in Items, AddWakes(i) PROVE Waiting' /\ NoLostWakeup'
  BY <1>3 DEF AddWakes, Stages
<1>4. ASSUME NEW i \in Items, TryAdd(i) PROVE Waiting' /\ NoLostWakeup'
  <2>1. Full => heap # {}
    BY HeapFinite
  <2> QED
    BY <1>4, <2>1 DEF TryAdd, Full
<1>5. CASE Look
  BY <1>5 DEF Look, ProcessorStep
<1>6. CASE ProcessorWakes
  BY <1>6 DEF ProcessorWakes, ProcessorStep
<1>7. CASE PopReady
  BY <1>7 DEF PopReady, ProcessorStep
<1>8. CASE DropOnClose
  BY <1>8 DEF DropOnClose, ProcessorStep, Stages
<1>9. CASE Receive
  BY <1>9 DEF Receive, ReceiveFromProcessor, ReceiveFromCloser
<1>10. CASE DrainHeap
  BY <1>10 DEF DrainHeap, CloserStep, Stages
<1>11. CASE CancelContext \/ StartDrain
  BY <1>11 DEF CancelContext, StartDrain, CloserStep
<1>12. ASSUME NEW m \in CloseModes, FirstClose(m) PROVE Waiting' /\ NoLostWakeup'
  BY <1>12 DEF FirstClose, CloserStep
<1>13. CASE Rest
  BY <1>13 DEF Rest, vars
<1> QED
  BY <1>1, <1>2, <1>3, <1>4, <1>5, <1>6, <1>7, <1>8, <1>9, <1>10, <1>11, <1>12, <1>13
     DEF Next, Adder, Processor, Closer

\* Every step of the pool keeps the whole invariant.
LEMMA NextInv == Inv /\ [Next]_vars => Inv'
<1> SUFFICES ASSUME Inv, [Next]_vars PROVE Inv'
  OBVIOUS
<1> DEFINE Room == Capacity > 0 => Cardinality(heap) <= Capacity
<1>1. BasicType /\ Room
  BY TypeParts DEF Inv
<1>2. CASE Next
  <2>1. BasicType' /\ Stages' /\ Ready' /\ Located' /\ Waiting' /\ NoLostWakeup'
    BY <1>1, <1>2, NextBasic, NextStages, NextReady, NextLocated, NextWaiting DEF Inv
  <2>2. Room'
    BY <1>1, <1>2, NextRoom
  <2>3. TypeOK'
    <3>1. \A a \in DOMAIN hand' : Cardinality(hand'[a]) <= 1
      <4>1. \A a \in DOMAIN hand' : hand'[a] = {} \/ \E i \in Items : hand'[a] = {i}
        BY <2>1 DEF BasicType, Stages
      <4>2. Cardinality({}) = 0 /\ \A i \in Items : Cardinality({i}) = 1
        BY FS_EmptySet, FS_Singleton
      <4> QED
        BY <4>1, <4>2
    <3> QED
      BY <2>1, <2>2, <3>1 DEF TypeOK, BasicType
  <2> QED
    BY <2>1, <2>3 DEF Inv
<1>3. CASE UNCHANGED vars
  BY <1>3 DEF Inv, TypeOK, Stages, Ready, Located, Waiting, NoLostWakeup, vars
<1> QED
  BY <1>2, <1>3

\* The invariant holds in every state the pool reaches.
THEOREM PoolInvariance == Spec => []Inv
<1> QED
  BY InitInv, NextInv, PTL DEF Spec
-----------------------------------------------------------------------------
\* CapacityShared for every number of items and every capacity (tryAdd,
\* processReadyItems): the heap never outgrows the capacity, and an Add blocked
\* on an empty pool always has somebody left to wake it, although one
\* notification stands for any number of freed places.
THEOREM CapacityIsShared == Spec => []CapacityShared
<1>1. Inv => CapacityShared
  BY DEF Inv, CapacityShared
<1> QED
  BY <1>1, PoolInvariance, PTL

\* CloseIsClean (drainAndClose): when Close or CloseImmediate has closed the
\* output nobody is left to send on it, and every item whose delay was not over
\* was received by a reader or returned to the caller.
THEOREM ClosesCleanly == Spec => []CloseIsClean
<1>1. Inv => ClosedIsQuiet
  BY DEF Inv, Stages, ClosedIsQuiet
<1>2. Inv => LosesOnlyReady
  BY DEF Inv, Stages, Located, LosesOnlyReady
<1>3. Inv => CloseIsClean
  BY <1>1, <1>2 DEF CloseIsClean
<1> QED
  BY <1>3, PoolInvariance, PTL

\* NeverEarly (Add, processReadyItems, drainHeap): no step hands the reader an
\* item before its delay is over, unless CloseImmediate was called.
THEOREM NothingIsEarly == Spec => NeverEarly
<1> DEFINE Early == \A i \in delivered' \ delivered : mode = "immediate" \/ due[i] <= clock
<1>1. ASSUME Inv, Next PROVE Early
  <2>1. CASE Receive
    BY <1>1, <2>1 DEF Inv, Ready, Receive, ReceiveFromProcessor, ReceiveFromCloser, Received
  <2>2. CASE ~Receive
    <3>1. delivered' = delivered
      BY <1>1, <2>2 DEF Next, Tick, Adder, AddStart, AddWakes, TryAdd, Processor, Look,
         ProcessorWakes, PopReady, DropOnClose, ProcessorStep, FirstClose, Closer, CancelContext,
         StartDrain, DrainHeap, CloserStep, Rest, vars
    <3> QED
      BY <3>1
  <2> QED
    BY <2>1, <2>2
<1>2. Inv /\ [Next]_vars => [Early]_vars
  BY <1>1
<1> QED
  BY <1>2, PoolInvariance, PTL DEF Spec, NeverEarly
=============================================================================
