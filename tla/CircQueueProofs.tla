-------------------------- MODULE CircQueueProofs --------------------------
(***************************************************************************)
(* The ring buffer implements the bounded queue, for every capacity and    *)
(* every set of items.  The inductive invariant is TypeOK and RunOfItems:  *)
(* a pop reads an item only because the run from tail holds nothing else,  *)
(* and a push misses the run only because it ends right before head.       *)
(***************************************************************************)
EXTENDS CircQueue, SequenceTheorems, TLAPS

IInv == TypeOK /\ RunOfItems

\* The slot i places after tail t.
At(t, i) == (t + i) % Capacity

LEMMA Wrap ==
    ASSUME NEW x \in 0 .. 2 * Capacity - 1
    PROVE  x % Capacity = IF x < Capacity THEN x ELSE x - Capacity
<1>1. CASE x < Capacity
    BY <1>1, CapacityAssumption
<1>2. CASE x >= Capacity
    BY <1>2, CapacityAssumption
<1> QED
    BY <1>1, <1>2, CapacityAssumption

(* Slots of a run that is not longer than the array are different. *)
LEMMA Slot ==
    ASSUME NEW t \in Slots, NEW i \in 0..Capacity
    PROVE  /\ At(t, i) = IF t + i < Capacity THEN t + i ELSE t + i - Capacity
           /\ At(t, i) \in Slots
<1>1. /\ t + i \in 0 .. 2 * Capacity - 1 /\ Capacity \in Nat /\ Capacity > 0
      /\ t \in Int /\ i \in Int
    BY CapacityAssumption DEF Slots
<1>2. At(t, i) = IF t + i < Capacity THEN t + i ELSE t + i - Capacity
  <2>1. PICK x \in 0 .. 2 * Capacity - 1 : x = t + i
      BY <1>1
  <2>2. x % Capacity = IF x < Capacity THEN x ELSE x - Capacity
      BY Wrap
  <2> QED
      BY <1>1, <2>1, <2>2 DEF At
<1> QED
    BY <1>1, <1>2 DEF Slots

LEMMA Distinct ==
    ASSUME NEW t \in Slots, NEW i \in 0 .. Capacity - 1, NEW j \in 0 .. Capacity - 1,
           At(t, i) = At(t, j)
    PROVE  i = j
<1>1. Capacity \in Nat /\ i \in 0..Capacity /\ j \in 0..Capacity
    BY CapacityAssumption
<1>2. /\ At(t, i) = IF t + i < Capacity THEN t + i ELSE t + i - Capacity
      /\ At(t, j) = IF t + j < Capacity THEN t + j ELSE t + j - Capacity
    BY <1>1, Slot
<1>3. t \in Int /\ i \in Int /\ j \in Int
      /\ 0 <= i /\ i < Capacity /\ 0 <= j /\ j < Capacity
    BY <1>1 DEF Slots
<1>4. PICK a \in Int : a = At(t, i) /\ a = IF t + i < Capacity THEN t + i
                                           ELSE t + i - Capacity
    BY <1>1, <1>2, <1>3
<1>5. a = IF t + j < Capacity THEN t + j ELSE t + j - Capacity
    BY <1>2, <1>4
<1>6. CASE t + i < Capacity
    BY <1>1, <1>3, <1>4, <1>5, <1>6
<1>7. CASE ~(t + i < Capacity)
    BY <1>1, <1>3, <1>4, <1>5, <1>7
<1> QED
    BY <1>6, <1>7

(* Moving tail one on and looking one place less far is the same slot. *)
LEMMA Shift ==
    ASSUME NEW t \in Slots, NEW i \in 0 .. Capacity - 1
    PROVE  /\ Advance(t) = At(t, 1) /\ Advance(t) \in Slots
           /\ At(Advance(t), i) = At(t, i + 1)
<1>0. Capacity \in Nat /\ Capacity > 0
    BY CapacityAssumption
<1>1. 1 \in 0..Capacity /\ i \in 0..Capacity /\ i + 1 \in 0..Capacity
    BY <1>0
<1>2. Advance(t) = At(t, 1)
    BY DEF Advance, At
<1>3. /\ At(t, 1) = IF t + 1 < Capacity THEN t + 1 ELSE t + 1 - Capacity
      /\ At(t, 1) \in Slots
    BY <1>1, Slot
<1>4. At(t, i + 1) = IF t + (i + 1) < Capacity THEN t + (i + 1) ELSE t + (i + 1) - Capacity
    BY <1>1, Slot
<1> DEFINE u == Advance(t)
<1>5. u \in Slots
    BY <1>2, <1>3
<1>6. u = IF t + 1 < Capacity THEN t + 1 ELSE t + 1 - Capacity
    BY <1>2, <1>3
<1> HIDE DEF u
<1>7. At(u, i) = IF u + i < Capacity THEN u + i ELSE u + i - Capacity
    BY <1>1, <1>5, Slot
<1>8. At(u, i) = At(t, i + 1)
    BY <1>0, <1>4, <1>6, <1>7 DEF Slots
<1> QED
    BY <1>2, <1>5, <1>8 DEF u

(* What IInv says, in terms of At. *)
LEMMA Run ==
    ASSUME IInv
    PROVE  /\ Capacity \in Nat /\ Capacity > 0 /\ size \in 0..Capacity
           /\ tail \in Slots /\ head \in Slots /\ head = At(tail, size)
           /\ data \in [Slots -> Items \cup {Null}]
           /\ \A i \in 0 .. size - 1 : At(tail, i) \in Slots /\ data[At(tail, i)] \in Items
<1>1. \A i \in 0 .. size - 1 : At(tail, i) \in Slots
  <2>1. \A i \in 0 .. size - 1 : i \in 0..Capacity
      BY CapacityAssumption DEF IInv, TypeOK
  <2> QED
      BY <2>1, Slot DEF IInv, TypeOK
<1>2. Capacity \in Nat /\ Capacity > 0
    BY CapacityAssumption
<1>3. /\ size \in 0..Capacity /\ tail \in Slots /\ head \in Slots
      /\ data \in [Slots -> Items \cup {Null}]
    BY DEF IInv, TypeOK
<1>4. head = At(tail, size) /\ \A i \in 0 .. size - 1 : data[At(tail, i)] \in Items
    BY DEF IInv, RunOfItems, At
<1> QED
    BY <1>1, <1>2, <1>3, <1>4

LEMMA ContentsSeq ==
    ASSUME IInv
    PROVE  /\ Contents \in Seq(Items) /\ Len(Contents) = size /\ DOMAIN Contents = 1..size
           /\ \A i \in 1..size : Contents[i] = data[At(tail, i - 1)]
<1>1. size \in Nat
    BY Run
<1>2. \A i \in 1..size : Contents[i] = data[At(tail, i - 1)]
    BY DEF Contents, At
<1>3. \A i \in 1..size : i - 1 \in 0 .. size - 1
    BY <1>1
<1>4. Contents \in [1..size -> Items]
  <2>1. \A i \in 1..size : Contents[i] \in Items
      BY <1>2, <1>3, Run
  <2>2. Contents = [i \in 1..size |-> Contents[i]]
      BY DEF Contents
  <2> HIDE DEF Contents
  <2> QED
      BY <2>1, <2>2
<1> HIDE DEF Contents
<1>5. Contents \in Seq(Items)
    BY <1>1, <1>4, IsASeq
<1> QED
    BY <1>1, <1>2, <1>4, <1>5

-----------------------------------------------------------------------------
LEMMA PushStep ==
    ASSUME IInv, NEW item \in Items, tryPush(item)
    PROVE  IInv' /\ Fifo!Push(item)
<1>1. CASE Full(size)
  <2>1. answer' = 0 /\ UNCHANGED <<data, head, tail, size>>
      BY <1>1 DEF tryPush
  <2>2. IInv'
      BY <2>1 DEF IInv, TypeOK, RunOfItems
  <2>3. size = Capacity
      BY <1>1, Run DEF Full
  <2>4. Contents' = Contents
      BY <2>1 DEF Contents
  <2> QED
      BY <2>1, <2>2, <2>3, <2>4, ContentsSeq DEF Fifo!Push
<1>2. CASE ~Full(size)
  <2>1. /\ data' = [data EXCEPT ![head] = item]
        /\ head' = Advance(head)
        /\ size' = size + 1
        /\ answer' = 1 /\ tail' = tail
      BY <1>2 DEF tryPush
  <2>2. size \in 0 .. Capacity - 1 /\ size + 1 \in 0..Capacity /\ Capacity \in Nat
      BY <1>2, Run DEF Full
  <2>3. /\ tail \in Slots /\ head \in Slots /\ head = At(tail, size)
        /\ data \in [Slots -> Items \cup {Null}]
      BY Run
  <2>4. Advance(head) = At(tail, size + 1) /\ Advance(head) \in Slots
    <3>1. 1 \in 0..Capacity /\ size \in 0..Capacity /\ Capacity \in Nat
        BY Run, <2>2
    <3>2. Advance(head) = At(head, 1)
        BY DEF Advance, At
    <3>3. /\ At(head, 1) = IF head + 1 < Capacity THEN head + 1 ELSE head + 1 - Capacity
          /\ At(head, 1) \in Slots
        BY <2>3, <3>1, Slot
    <3>4. /\ At(tail, size) = IF tail + size < Capacity THEN tail + size
                              ELSE tail + size - Capacity
          /\ At(tail, size + 1) = IF tail + (size + 1) < Capacity THEN tail + (size + 1)
                                  ELSE tail + (size + 1) - Capacity
        BY <2>2, <2>3, <3>1, Slot
    <3> QED
        BY <2>2, <2>3, <3>1, <3>2, <3>3, <3>4 DEF Slots
  <2>5. \A i \in 0 .. size - 1 : data'[At(tail, i)] = data[At(tail, i)]
    <3> SUFFICES ASSUME NEW i \in 0 .. size - 1 PROVE At(tail, i) # head
        BY <2>1, <2>3
    <3>1. i \in 0 .. Capacity - 1 /\ i # size
        BY <2>2
    <3> QED
        BY <2>2, <2>3, <3>1, Distinct
  <2>6. data'[At(tail, size)] = item
      BY <2>1, <2>3
  <2>7. TypeOK'
      BY <2>1, <2>2, <2>3, <2>4 DEF TypeOK
  <2>8. RunOfItems'
    <3>1. head' = At(tail, size')
        BY <2>1, <2>4
    <3>2. ASSUME NEW i \in 0 .. size PROVE data'[At(tail, i)] \in Items
      <4>1. CASE i = size
          BY <2>6, <4>1
      <4>2. CASE i # size
        <5>1. i \in 0 .. size - 1
            BY <2>2, <4>2
        <5> QED
            BY <2>5, <5>1, Run
      <4> QED
          BY <4>1, <4>2
    <3>3. size' - 1 = size
        BY <2>1, <2>2
    <3> QED
        BY <2>1, <3>1, <3>2, <3>3 DEF RunOfItems, At
  <2>9. IInv'
      BY <2>7, <2>8 DEF IInv
  <2>10. Contents' = Append(Contents, item)
    <3>1. /\ Contents \in Seq(Items) /\ Len(Contents) = size /\ DOMAIN Contents = 1..size
          /\ \A i \in 1..size : Contents[i] = data[At(tail, i - 1)]
        BY ContentsSeq
    <3>2. Contents' = [i \in 1..(size + 1) |-> data'[At(tail, i - 1)]]
        BY <2>1 DEF Contents, At
    <3>3. \A i \in 1..size : data'[At(tail, i - 1)] = Contents[i]
      <4> SUFFICES ASSUME NEW i \in 1..size PROVE data'[At(tail, i - 1)] = Contents[i]
          OBVIOUS
      <4>1. i - 1 \in 0 .. size - 1
          BY <2>2
      <4> QED
          BY <2>5, <3>1, <4>1
    <3>4. data'[At(tail, (size + 1) - 1)] = item
      <4>1. (size + 1) - 1 = size
          BY <2>2
      <4> QED
          BY <2>6, <4>1
    <3> HIDE DEF Contents
    <3>5. Append(Contents, item) = [i \in 1..(size + 1) |->
                                       IF i = size + 1 THEN item ELSE Contents[i]]
      <4>1. /\ Append(Contents, item) \in Seq(Items)
            /\ Len(Append(Contents, item)) = size + 1
            /\ \A i \in 1..size : Append(Contents, item)[i] = Contents[i]
            /\ Append(Contents, item)[size + 1] = item
          BY <3>1, AppendProperties
      <4>2. PICK s \in Seq(Items) : s = Append(Contents, item)
          BY <4>1
      <4>3. s = [i \in 1..(size + 1) |-> s[i]]
        <5>1. s \in [1..Len(s) -> Items]
            OBVIOUS
        <5>2. Len(s) = size + 1
            BY <4>1, <4>2
        <5> QED
            BY <5>1, <5>2
      <4>4. \A i \in 1..(size + 1) : i \in 1..size \/ i = size + 1
          BY <2>2
      <4>5. \A i \in 1..(size + 1) : s[i] = IF i = size + 1 THEN item ELSE Contents[i]
          BY <4>1, <4>2, <4>4
      <4> QED
          BY <4>2, <4>3, <4>5
    <3>6. \A i \in 1..(size + 1) :
             data'[At(tail, i - 1)] = IF i = size + 1 THEN item ELSE Contents[i]
      <4> SUFFICES ASSUME NEW i \in 1..(size + 1), i # size + 1
                   PROVE  data'[At(tail, i - 1)] = Contents[i]
          BY <3>4
      <4>1. i \in 1..size
          BY <2>2
      <4> QED
          BY <3>3, <4>1
    <3> QED
        BY <3>2, <3>5, <3>6
  <2>11. Len(Contents) < Capacity
      BY <2>2, ContentsSeq
  <2> QED
      BY <2>1, <2>9, <2>10, <2>11 DEF Fifo!Push
<1> QED
    BY <1>1, <1>2

LEMMA PopStep ==
    ASSUME IInv, tryPop
    PROVE  IInv' /\ Fifo!Pop
<1>1. CASE ~(size > 0)
  <2>1. answer' = 0 /\ UNCHANGED <<data, head, tail, size>>
      BY <1>1 DEF tryPop
  <2>2. IInv'
      BY <2>1 DEF IInv, TypeOK, RunOfItems
  <2>3. size = 0
      BY <1>1, Run
  <2>4. Contents' = Contents
      BY <2>1 DEF Contents
  <2>5. Contents = << >>
      BY <2>3, ContentsSeq
  <2> QED
      BY <2>1, <2>2, <2>4, <2>5 DEF Fifo!Pop
<1>2. CASE size > 0
  <2>1. /\ answer' = data[tail]
        /\ tail' = Advance(tail)
        /\ size' = size - 1
        /\ UNCHANGED <<data, head>>
      BY <1>2 DEF tryPop, Shrink
  <2>2. size \in 1..Capacity /\ Capacity \in Nat /\ tail \in Slots
      BY <1>2, Run
  <2>3. /\ Contents \in Seq(Items) /\ Len(Contents) = size /\ DOMAIN Contents = 1..size
        /\ \A i \in 1..size : Contents[i] = data[At(tail, i - 1)]
      BY ContentsSeq
  <2>4. \A i \in 0 .. size - 1 : At(tail', i) = At(tail, i + 1) /\ tail' \in Slots
    <3>1. \A i \in 0 .. size - 1 : i \in 0 .. Capacity - 1
        BY <2>2
    <3> QED
        BY <2>1, <2>2, <3>1, Shift
  <2>5. 0 \in 0 .. size - 1 /\ 1 \in 1..size /\ 1 - 1 = 0
      BY <2>2
  <2>6. At(tail, 0) = tail
    <3>1. 0 \in 0..Capacity
        BY <2>2
    <3>2. At(tail, 0) = IF tail + 0 < Capacity THEN tail + 0 ELSE tail + 0 - Capacity
        BY <2>2, <3>1, Slot
    <3> QED
        BY <2>2, <3>2 DEF Slots
  <2>7. data[tail] \in Items /\ data[tail] = Contents[1]
      BY <2>3, <2>5, <2>6, Run
  <2>8. TypeOK'
    <3>1. tail' \in Slots /\ size' \in 0..Capacity
        BY <2>1, <2>2, <2>4, <2>5
    <3> QED
        BY <2>1, <2>7, <3>1 DEF IInv, TypeOK
  <2>9. RunOfItems'
    <3>1. head' = At(tail', size')
      <4>1. size - 1 \in 0 .. size - 1 /\ (size - 1) + 1 = size
          BY <2>2
      <4>2. At(tail', size - 1) = At(tail, size)
          BY <2>4, <4>1
      <4> QED
          BY <2>1, <4>2, Run
    <3>2. ASSUME NEW i \in 0 .. size' - 1 PROVE data'[At(tail', i)] \in Items
      <4>1. i \in 0 .. size - 1 /\ i + 1 \in 0 .. size - 1
          BY <2>1, <2>2
      <4> QED
          BY <2>1, <2>4, <4>1, Run
    <3> QED
        BY <3>1, <3>2 DEF RunOfItems, At
  <2>10. Contents' = Tail(Contents)
    <3>1. Contents' = [i \in 1..(size - 1) |-> data[At(tail', i - 1)]]
        BY <2>1 DEF Contents, At
    <3>2. \A i \in 1..(size - 1) : data[At(tail', i - 1)] = Contents[i + 1]
      <4> SUFFICES ASSUME NEW i \in 1..(size - 1)
                   PROVE  data[At(tail', i - 1)] = Contents[i + 1]
          OBVIOUS
      <4>1. /\ i - 1 \in 0 .. size - 1 /\ (i - 1) + 1 = i
            /\ i + 1 \in 1..size /\ (i + 1) - 1 = i
          BY <2>2
      <4>2. At(tail', i - 1) = At(tail, i)
          BY <2>4, <4>1
      <4> QED
          BY <2>3, <4>1, <4>2
    <3> HIDE DEF Contents
    <3>3. Tail(Contents) = [i \in 1..(size - 1) |-> Contents[i + 1]]
      <4>1. Contents # << >>
          BY <2>2, <2>3
      <4>2. /\ Tail(Contents) \in Seq(Items)
            /\ Len(Tail(Contents)) = size - 1
            /\ \A i \in 1..(size - 1) : Tail(Contents)[i] = Contents[i + 1]
          BY <2>3, <4>1, HeadTailProperties
      <4>3. PICK s \in Seq(Items) : s = Tail(Contents)
          BY <4>2
      <4>4. s = [i \in 1..(size - 1) |-> s[i]]
        <5>1. s \in [1..Len(s) -> Items]
            OBVIOUS
        <5>2. Len(s) = size - 1
            BY <4>2, <4>3
        <5> QED
            BY <5>1, <5>2
      <4> QED
          BY <4>2, <4>3, <4>4
    <3> QED
        BY <3>1, <3>2, <3>3
  <2>11. Contents # << >> /\ Head(Contents) = Contents[1]
    <3> HIDE DEF Contents
    <3> QED
        BY <2>2, <2>3
  <2> QED
      BY <2>1, <2>7, <2>8, <2>9, <2>10, <2>11 DEF IInv, Fifo!Pop
<1> QED
    BY <1>1, <1>2

LEMMA InitStep == Init => IInv /\ Fifo!Init
<1> SUFFICES ASSUME Init PROVE IInv /\ Fifo!Init
    OBVIOUS
<1>1. TypeOK
    BY CapacityAssumption DEF Init, TypeOK, Slots
<1>2. RunOfItems
  <2>1. 0 \in 0 .. 2 * Capacity - 1 /\ Capacity \in Nat /\ 0 < Capacity
      BY CapacityAssumption
  <2>2. 0 % Capacity = 0
      BY <2>1, Wrap
  <2> QED
      BY <2>2 DEF Init, RunOfItems
<1>3. IInv
    BY <1>1, <1>2 DEF IInv
<1>4. Contents = << >>
    BY <1>3, ContentsSeq DEF Init
<1> QED
    BY <1>3, <1>4 DEF Init, Fifo!Init

LEMMA NextStep == IInv /\ [Next]_vars => IInv' /\ [Fifo!Next]_(Fifo!vars)
<1> SUFFICES ASSUME IInv, [Next]_vars PROVE IInv' /\ [Fifo!Next]_(Fifo!vars)
    OBVIOUS
<1>1. CASE tryPop
    BY <1>1, PopStep DEF Fifo!Next
<1>2. ASSUME NEW item \in Items, tryPush(item) PROVE IInv' /\ Fifo!Next
    BY <1>2, PushStep DEF Fifo!Next
<1>3. CASE UNCHANGED vars
  <2>1. UNCHANGED <<data, head, tail, size, answer>>
      BY <1>3 DEF vars
  <2> QED
      BY <2>1 DEF IInv, TypeOK, RunOfItems, Contents, Fifo!vars
<1> QED
    BY <1>1, <1>2, <1>3 DEF Next

(* Head and tail stay inside the array, and the size inside the capacity,   *)
(* though tryPush and tryPop only add one and take the remainder.           *)
THEOREM TypeCorrect == Spec => []TypeOK
<1>1. IInv => TypeOK
    BY DEF IInv
<1> QED
    BY <1>1, InitStep, NextStep, PTL DEF Spec

(* The slots between tail and head hold the queued items, whatever the     *)
(* order of the calls.                                                     *)
THEOREM RunHolds == Spec => [](TypeOK /\ RunOfItems)
<1>1. IInv => TypeOK /\ RunOfItems
    BY DEF IInv
<1> QED
    BY <1>1, InitStep, NextStep, PTL DEF Spec

(* tryPush and tryPop behave as a bounded first-in first-out queue: the    *)
(* callers, and the other modules, may see a sequence instead of the ring. *)
THEOREM QueueIsFifo == Spec => ImplementsFifo
<1>1. Spec => Fifo!Init /\ [][Fifo!Next]_(Fifo!vars)
    BY InitStep, NextStep, PTL DEF Spec
<1> QED
    BY <1>1 DEF ImplementsFifo, Fifo!Spec
=============================================================================
