----------------------------- MODULE DelayPool -----------------------------
(***************************************************************************)
(* delay/pool.go: a pool that hands out items once their delay is over.     *)
(*                                                                         *)
(* Actors: one goroutine in Add per item, the background processor, one     *)
(* caller of Close or CloseImmediate, and the reader of Output().  The      *)
(* mutex makes tryAdd, firstClose and each turn of the pop loops atomic;    *)
(* waiting on a channel is a state of its own.  The two notification        *)
(* channels have room for one value: a Boolean each.                        *)
(***************************************************************************)
EXTENDS Naturals, FiniteSets

CONSTANTS Items,      \* the values added, each by a goroutine of its own
          DelayOf,    \* Items -> Nat: the delay passed to Add
          Capacity,   \* 0 is unlimited
          MaxClock,   \* bound: the last instant, and the last an item becomes ready
          CloseModes, \* which of Close ("graceful"), CloseImmediate may be called
          MayCancel   \* the items whose Add may be cancelled by its caller

ASSUME DelayPoolAssumption ==
    /\ IsFiniteSet(Items)
    /\ DelayOf \in [Items -> Nat]
    /\ Capacity \in Nat
    /\ MaxClock \in Nat
    /\ CloseModes \subseteq {"graceful", "immediate"}
    /\ MayCancel \subseteq Items

VARIABLES clock,
          adder,         \* Items -> state of the goroutine in Add
          due,           \* Items -> poolItem.availableAfter
          heap,          \* the items in p.heap
          newItem,       \* a value is in notifyNewItem
          spaceAvailable,\* a value is in notifySpaceAvailable
          proc,          \* the processor: where it is
          readyBy,       \* its local "now", or the instant its timer fires
          processed,     \* whether processReadyItems has popped an item
          closer,        \* the goroutine in Close or CloseImmediate
          mode,          \* which of the two it is
          closed,        \* p.closed
          done,          \* closeCtx is cancelled
          hand,          \* [proc, closer] -> items popped, not yet sent
          delivered,     \* items received by the reader of Output()
          returned       \* items returned by CloseImmediate

poolVars == <<heap, newItem, spaceAvailable, closed, done>>
vars == <<clock, adder, due, heap, newItem, spaceAvailable, proc, readyBy,
          processed, closer, mode, closed, done, hand, delivered, returned>>

TypeOK ==
    /\ clock \in 0 .. MaxClock
    /\ adder \in [Items -> {"idle", "trying", "waiting", "added", "failed"}]
    /\ due \in [Items -> Nat]
    /\ heap \subseteq Items
    /\ Capacity > 0 => Cardinality(heap) <= Capacity
    /\ proc \in {"look", "empty", "timer", "ready", "send", "stopped"}
    /\ readyBy \in Nat
    /\ closer \in {"open", "cancelling", "waiting", "drain", "send", "closed"}
    /\ mode \in {"none", "graceful", "immediate"}
    /\ newItem \in BOOLEAN /\ spaceAvailable \in BOOLEAN
    /\ processed \in BOOLEAN /\ closed \in BOOLEAN /\ done \in BOOLEAN
    /\ hand \in [{"proc", "closer"} -> SUBSET Items]
    /\ \A a \in DOMAIN hand : Cardinality(hand[a]) <= 1
    /\ delivered \subseteq Items
    /\ returned \subseteq Items

Init ==
    /\ clock = 0
    /\ adder = [i \in Items |-> "idle"]
    /\ due = [i \in Items |-> 0]
    /\ heap = {} /\ newItem = FALSE /\ spaceAvailable = FALSE
    /\ proc = "look" /\ readyBy = 0 /\ processed = FALSE
    /\ closer = "open" /\ mode = "none" /\ closed = FALSE /\ done = FALSE
    /\ hand = [a \in {"proc", "closer"} |-> {}]
    /\ delivered = {} /\ returned = {}

\* The root of the heap: any item that no other one precedes.
Earliest == {i \in heap : \A k \in heap : due[i] <= due[k]}

Tick ==
    /\ clock < MaxClock
    /\ clock' = clock + 1
    /\ UNCHANGED <<adder, due, poolVars, proc, readyBy, processed, closer, mode,
                   hand, delivered, returned>>
-----------------------------------------------------------------------------
(* Add *)

AddStart(i) ==
    /\ adder[i] = "idle"
    /\ clock + DelayOf[i] <= MaxClock
    /\ adder' = [adder EXCEPT ![i] = "trying"]
    /\ due' = [due EXCEPT ![i] = clock + DelayOf[i]]
    /\ UNCHANGED <<clock, poolVars, proc, readyBy, processed, closer, mode, hand,
                   delivered, returned>>

\* Mutated form: one place too many.
FullOffByOne == Capacity > 0 /\ Cardinality(heap) > Capacity

Full == Capacity > 0 /\ Cardinality(heap) >= Capacity

\* Mutated form: the processor is not told of the new item.
TryAddSilently(i) ==
    /\ adder[i] = "trying"
    /\ adder' = [adder EXCEPT ![i] = IF closed THEN "failed" ELSE IF Full THEN "waiting" ELSE "added"]
    /\ heap' = IF closed \/ Full THEN heap ELSE heap \cup {i}
    /\ UNCHANGED <<clock, due, newItem, spaceAvailable, closed, done, proc, readyBy, processed,
                   closer, mode, hand, delivered, returned>>

\* A push that becomes the root (or the only item) wakes the processor.
TryAdd(i) ==
    /\ adder[i] = "trying"
    /\ \/ /\ closed
          /\ adder' = [adder EXCEPT ![i] = "failed"]
          /\ UNCHANGED <<heap, newItem>>
       \/ /\ ~closed /\ Full
          /\ adder' = [adder EXCEPT ![i] = "waiting"]
          /\ UNCHANGED <<heap, newItem>>
       \/ /\ ~closed /\ ~Full
          /\ adder' = [adder EXCEPT ![i] = "added"]
          /\ heap' = heap \cup {i}
          /\ newItem' = (newItem \/ \A k \in heap : due[i] < due[k])
    /\ UNCHANGED <<clock, due, spaceAvailable, closed, done, proc, readyBy, processed,
                   closer, mode, hand, delivered, returned>>

\* Mutated form: a blocked Add only waits for space.
AddWakesOnSpace(i) ==
    /\ adder[i] = "waiting"
    /\ spaceAvailable
    /\ spaceAvailable' = FALSE
    /\ adder' = [adder EXCEPT ![i] = "trying"]
    /\ UNCHANGED <<clock, due, heap, newItem, closed, done, proc, readyBy, processed,
                   closer, mode, hand, delivered, returned>>

\* The select of a blocked Add: space, pool closed, or caller cancelled.
AddWakes(i) ==
    /\ adder[i] = "waiting"
    /\ \/ /\ spaceAvailable
          /\ spaceAvailable' = FALSE
          /\ adder' = [adder EXCEPT ![i] = "trying"]
       \/ /\ done \/ i \in MayCancel
          /\ adder' = [adder EXCEPT ![i] = "failed"]
          /\ UNCHANGED spaceAvailable
    /\ UNCHANGED <<clock, due, heap, newItem, closed, done, proc, readyBy, processed,
                   closer, mode, hand, delivered, returned>>
-----------------------------------------------------------------------------
(* The processor *)

ProcessorStep(label) ==
    /\ proc' = label
    /\ UNCHANGED <<clock, adder, due, closed, done, closer, mode, delivered, returned>>

\* The head of the loop: is there an item, and is it ready?
Look ==
    /\ proc = "look"
    /\ \/ /\ heap = {}
          /\ ProcessorStep("empty")
          /\ UNCHANGED <<readyBy, processed>>
       \/ \E i \in Earliest :
             /\ due[i] <= clock
             /\ ProcessorStep("ready")
             /\ readyBy' = clock /\ processed' = FALSE
       \/ \E i \in Earliest :
             /\ due[i] > clock
             /\ ProcessorStep("timer")
             /\ readyBy' = due[i] /\ UNCHANGED processed
    /\ UNCHANGED <<heap, newItem, spaceAvailable, hand>>

\* Mutated form: a processor with an empty heap is not told of the close.
ProcessorWakesOnItem ==
    /\ proc \in {"empty", "timer"}
    /\ \/ /\ done /\ proc = "timer"
          /\ ProcessorStep("stopped")
          /\ UNCHANGED <<newItem, readyBy, processed>>
       \/ /\ newItem
          /\ newItem' = FALSE
          /\ ProcessorStep("look")
          /\ UNCHANGED <<readyBy, processed>>
       \/ /\ proc = "timer" /\ readyBy <= clock
          /\ ProcessorStep("ready")
          /\ readyBy' = clock /\ processed' = FALSE
          /\ UNCHANGED newItem
    /\ UNCHANGED <<heap, spaceAvailable, hand>>

\* The two selects: closed, notified, or (with an item) the timer fires.
ProcessorWakes ==
    /\ proc \in {"empty", "timer"}
    /\ \/ /\ done
          /\ ProcessorStep("stopped")
          /\ UNCHANGED <<newItem, readyBy, processed>>
       \/ /\ newItem
          /\ newItem' = FALSE
          /\ ProcessorStep("look")
          /\ UNCHANGED <<readyBy, processed>>
       \/ /\ proc = "timer" /\ readyBy <= clock
          /\ ProcessorStep("ready")
          /\ readyBy' = clock /\ processed' = FALSE
          /\ UNCHANGED newItem
    /\ UNCHANGED <<heap, spaceAvailable, hand>>

\* Mutated form: no blocked Add is told of the space.
PopReadySilently ==
    /\ proc = "ready"
    /\ \/ \E i \in Earliest :
             /\ due[i] <= readyBy
             /\ heap' = heap \ {i} /\ hand' = [hand EXCEPT !["proc"] = {i}]
             /\ processed' = TRUE
             /\ ProcessorStep("send")
       \/ /\ \A i \in Earliest : due[i] > readyBy
          /\ ProcessorStep("look")
          /\ UNCHANGED <<heap, hand, processed>>
    /\ UNCHANGED <<newItem, spaceAvailable, readyBy>>

\* Mutated form: the item's time is not looked at.
PopReadyEarly ==
    /\ proc = "ready"
    /\ \/ \E i \in Earliest :
             /\ heap' = heap \ {i} /\ hand' = [hand EXCEPT !["proc"] = {i}]
             /\ processed' = TRUE
             /\ ProcessorStep("send")
             /\ UNCHANGED spaceAvailable
       \/ /\ heap = {}
          /\ spaceAvailable' = (spaceAvailable \/ (Capacity > 0 /\ processed))
          /\ ProcessorStep("look")
          /\ UNCHANGED <<heap, hand, processed>>
    /\ UNCHANGED <<newItem, readyBy>>

\* One turn of processReadyItems: pop an item that is ready by "now", or stop
\* and tell one blocked Add that there is space.
PopReady ==
    /\ proc = "ready"
    /\ \/ \E i \in Earliest :
             /\ due[i] <= readyBy
             /\ heap' = heap \ {i} /\ hand' = [hand EXCEPT !["proc"] = {i}]
             /\ processed' = TRUE
             /\ ProcessorStep("send")
             /\ UNCHANGED spaceAvailable
       \/ /\ \A i \in Earliest : due[i] > readyBy
          /\ spaceAvailable' = (spaceAvailable \/ (Capacity > 0 /\ processed))
          /\ ProcessorStep("look")
          /\ UNCHANGED <<heap, hand, processed>>
    /\ UNCHANGED <<newItem, readyBy>>

\* The pool is closing: processReadyItems returns with the item in its hand
\* (and without the notification), and the processor looks at the heap again.
DropOnClose ==
    /\ proc = "send" /\ done
    /\ hand' = [hand EXCEPT !["proc"] = {}]
    /\ ProcessorStep("look")
    /\ UNCHANGED <<heap, newItem, spaceAvailable, readyBy, processed>>
-----------------------------------------------------------------------------
(* Output: an unbuffered channel, so a receive is one step with its send. *)

Received(items) ==
    \/ delivered' = delivered \cup items /\ UNCHANGED returned
    \/ mode = "immediate" /\ returned' = returned \cup items /\ UNCHANGED delivered

ReceiveFromProcessor ==
    /\ proc = "send"
    /\ Received(hand["proc"])
    /\ hand' = [hand EXCEPT !["proc"] = {}]
    /\ proc' = "ready"
    /\ UNCHANGED <<clock, adder, due, poolVars, readyBy, processed, closer, mode>>

ReceiveFromCloser ==
    /\ closer = "send"
    /\ Received(hand["closer"])
    /\ hand' = [hand EXCEPT !["closer"] = {}]
    /\ closer' = "drain"
    /\ UNCHANGED <<clock, adder, due, poolVars, proc, readyBy, processed, mode>>
-----------------------------------------------------------------------------
(* Close and CloseImmediate; all calls but the first return at once. *)

CloserStep(label) ==
    /\ closer' = label
    /\ UNCHANGED <<clock, adder, due, newItem, spaceAvailable, proc, readyBy,
                   processed, delivered, returned>>

FirstClose(m) ==
    /\ closer = "open" /\ ~closed
    /\ closed' = TRUE /\ mode' = m
    /\ CloserStep("cancelling")
    /\ UNCHANGED <<heap, done, hand>>

CancelContext ==
    /\ closer = "cancelling"
    /\ done' = TRUE
    /\ CloserStep("waiting")
    /\ UNCHANGED <<heap, mode, closed, hand>>

\* Mutated form: drainAndClose does not wait for the processor.
StartDrainAtOnce ==
    /\ closer = "waiting"
    /\ CloserStep("drain")
    /\ UNCHANGED <<heap, mode, closed, done, hand>>

\* p.wg.Wait() returns once the processor has stopped.
StartDrain ==
    /\ closer = "waiting" /\ proc = "stopped"
    /\ CloserStep("drain")
    /\ UNCHANGED <<heap, mode, closed, done, hand>>

\* Mutated form: the output is closed over what is left in the heap.
DrainHeapCloses ==
    /\ closer = "drain" /\ CloserStep("closed")
    /\ UNCHANGED <<heap, hand, mode, closed, done>>

DrainHeap ==
    /\ closer = "drain"
    /\ \/ \E i \in Earliest :
             /\ mode = "graceful" => due[i] <= clock
             /\ heap' = heap \ {i} /\ hand' = [hand EXCEPT !["closer"] = {i}]
             /\ CloserStep("send")
       \/ /\ heap = {}
          /\ CloserStep("closed")
          /\ UNCHANGED <<heap, hand>>
    /\ UNCHANGED <<mode, closed, done>>
-----------------------------------------------------------------------------
Processor == Look \/ ProcessorWakes \/ PopReady \/ DropOnClose
Closer    == CancelContext \/ StartDrain \/ DrainHeap
Receive   == ReceiveFromProcessor \/ ReceiveFromCloser
Adder(i)  == AddStart(i) \/ TryAdd(i) \/ AddWakes(i)

\* The model rests: the pool is shut, or its processor waits for a new item.
Rest ==
    /\ closer = "closed" \/ proc = "empty"
    /\ UNCHANGED vars

Next ==
    \/ Tick
    \/ \E i \in Items : Adder(i)
    \/ Processor
    \/ Receive
    \/ \E m \in CloseModes : FirstClose(m)
    \/ Closer
    \/ Rest

\* Go schedules every runnable goroutine, time passes, and the reader of
\* Output keeps reading (Close is documented to block until it has).
Fairness ==
    /\ WF_vars(Tick)
    /\ \A i \in Items : WF_vars(TryAdd(i)) /\ WF_vars(AddWakes(i))
    /\ WF_vars(Processor)
    /\ WF_vars(Receive)
    /\ WF_vars(Closer)

Spec == Init /\ [][Next]_vars
FairSpec == Spec /\ Fairness
-----------------------------------------------------------------------------
\* An item is never handed to the reader before its delay is over, unless
\* CloseImmediate was called (Add, processReadyItems, drainHeap).
NeverEarly ==
    [][\A i \in delivered' \ delivered : mode = "immediate" \/ due[i] <= clock]_vars

\* Once the output channel is closed nobody is left who could still send on
\* it: the processor has stopped and no Add can slip an item in.
ClosedIsQuiet ==
    closer = "closed" => heap = {} /\ proc = "stopped" /\ hand["proc"] = {}

\* An Add that waits on an empty pool has somebody to wake it: a value in
\* notifySpaceAvailable, a running Add, or a processor that has yet to notify
\* (one notification stands for any number of freed places).
NoLostWakeup ==
    (\E i \in Items : adder[i] = "waiting") /\ heap = {} /\ ~closed =>
        \/ spaceAvailable
        \/ \E i \in Items : adder[i] = "trying"
        \/ proc \in {"ready", "send"} /\ processed

\* A blocked Add returns: it gets its place, or the pool is closed.
BlockedAddReturns ==
    \A i \in Items : adder[i] = "waiting" ~> adder[i] \in {"added", "failed"}

\* Close and CloseImmediate return, whatever the processor is doing.
CloseReturns == closer = "cancelling" ~> closer = "closed"

\* An item that was added to a pool that stays open comes out.
ItemComesOut ==
    \A i \in Items : adder[i] = "added" ~> i \in delivered \/ closed

\* A close that returns has given every item to a reader or to its caller, but
\* for items that were ready: the processor may pop them one after the other
\* and, the context being cancelled, forget each (processReadyItems).
LosesOnlyReady ==
    closer = "closed" =>
        \A i \in Items : adder[i] = "added" /\ due[i] > clock => i \in delivered \cup returned

\* The pool keeps its capacity and wakes an Add when there is space (tryAdd,
\* processReadyItems).
CapacityShared == TypeOK /\ NoLostWakeup

\* A close leaves nothing behind: no sender on the closed output, and of the
\* items only those that were ready (drainAndClose).
CloseIsClean == ClosedIsQuiet /\ LosesOnlyReady

\* Whoever waits in Add gets in, and what got in comes out, or the pool is
\* closed (Add, processor).
ItemsPass == BlockedAddReturns /\ ItemComesOut
=============================================================================
