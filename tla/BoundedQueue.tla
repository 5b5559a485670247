---------------------------- MODULE BoundedQueue ----------------------------
(***************************************************************************)
(* What a buffer between producers and consumers promises: a queue that    *)
(* never holds more than its capacity.                                     *)
(***************************************************************************)
EXTENDS Naturals, Sequences

CONSTANT Value

VARIABLES
  items,     \* the values in the queue, oldest first
  capacity   \* the most it may hold

Init == items = <<>> /\ capacity \in Nat

Put(v) ==
  /\ Len(items) < capacity
  /\ items' = Append(items, v)

Take == items # <<>> /\ items' = Tail(items)

Next == (Take \/ \E v \in Value : Put(v)) /\ UNCHANGED capacity

Spec == Init /\ [][Next]_<<items, capacity>>
=============================================================================
