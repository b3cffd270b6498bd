---------------------------- MODULE BoundedFifo ----------------------------
(***************************************************************************)
(* What circ_queue.h promises its callers: a first-in first-out queue of   *)
(* at most Capacity items.  tryPush fails exactly when it is full, tryPop  *)
(* exactly when it is empty, and both at once, without waiting.            *)
(***************************************************************************)
EXTENDS Naturals, Sequences

CONSTANTS Items, Capacity

VARIABLES
    queue,   \* the items, oldest first
    answer   \* what the last call returned: 0, 1 or the popped item

vars == <<queue, answer>>

Init == queue = << >> /\ answer = 0

Push(x) ==
    \/ Len(queue) < Capacity /\ queue' = Append(queue, x) /\ answer' = 1
    \/ Len(queue) = Capacity /\ answer' = 0 /\ UNCHANGED queue

Pop ==
    \/ queue # << >> /\ answer' = Head(queue) /\ queue' = Tail(queue)
    \/ queue = << >> /\ answer' = 0 /\ UNCHANGED queue

Next == Pop \/ \E x \in Items : Push(x)

Spec == Init /\ [][Next]_vars
=============================================================================
