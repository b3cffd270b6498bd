----------------------------- MODULE CircQueue -----------------------------
(***************************************************************************)
(* The ring buffer of progetto-finale/server/src/circ_queue.c, which keeps *)
(* the readable descriptors for the workers (gWorkQueue), the              *)
(* notifications for the lock thread (gLockQueue) and the clients waiting  *)
(* for a file's lock (waitingLockQueue).  Each call holds the queue's      *)
(* mutex from its first to its last line, so each call is one step of      *)
(* whatever thread makes it.                                               *)
(*                                                                         *)
(* A popped item stays in its slot; only the indices and the size say      *)
(* which slots count.                                                      *)
(***************************************************************************)
EXTENDS Integers, Sequences

CONSTANTS
    Items,      \* what is queued (pointers, never NULL)
    Null,       \* calloc's content of a slot
    Capacity

ASSUME CapacityAssumption == Capacity \in Nat \ {0}

VARIABLES
    data,     \* the slots
    head,     \* where the next item is written
    tail,     \* where the next item is read
    size,
    answer    \* what the last call returned: 0, 1 or the popped item

vars == <<data, head, tail, size, answer>>

Slots == 0 .. Capacity - 1

\* createQueue
Init ==
    /\ data = [s \in Slots |-> Null]
    /\ head = 0 /\ tail = 0 /\ size = 0
    /\ answer = 0

\* (faults: the index leaves the array; one slot too many is filled; the
\* size is not counted down)
Advance_PastEnd(i) == i + 1
Full_Late(n) == n > Capacity
Shrink_Forgotten(n) == n

Advance(i) == (i + 1) % Capacity
Full(n) == n >= Capacity
Shrink(n) == n - 1

tryPush(item) ==
    IF Full(size)
    THEN answer' = 0 /\ UNCHANGED <<data, head, tail, size>>
    ELSE /\ data' = [data EXCEPT ![head] = item]
         /\ head' = Advance(head)
         /\ size' = size + 1
         /\ answer' = 1
         /\ UNCHANGED tail

tryPop ==
    IF size > 0
    THEN /\ answer' = data[tail]
         /\ tail' = Advance(tail)
         /\ size' = Shrink(size)
         /\ UNCHANGED <<data, head>>
    ELSE answer' = 0 /\ UNCHANGED <<data, head, tail, size>>

Next == tryPop \/ \E item \in Items : tryPush(item)

Spec == Init /\ [][Next]_vars

-----------------------------------------------------------------------------
(* Every variable has its type. *)
TypeOK ==
    /\ data \in [Slots -> Items \cup {Null}]
    /\ head \in Slots /\ tail \in Slots
    /\ size \in 0..Capacity
    /\ answer \in Items \cup {0, 1}

(* The three fields describe one run of slots: size slots from tail on, up *)
(* to the one before head, around the end of the array, all of them        *)
(* holding items.  head = tail alone would not tell full from empty.       *)
RunOfItems ==
    /\ head = (tail + size) % Capacity
    /\ \A i \in 0 .. size - 1 : data[(tail + i) % Capacity] \in Items

\* The queued items, oldest first.
Contents == [i \in 1..size |-> data[(tail + (i - 1)) % Capacity]]

Fifo == INSTANCE BoundedFifo WITH queue <- Contents

(* The ring buffer is a bounded first-in first-out queue: no item is lost, *)
(* doubled, overtaken or read before it was written, and a call fails only *)
(* on a full or an empty queue.                                            *)
ImplementsFifo == Fifo!Spec
=============================================================================
