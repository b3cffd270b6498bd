-------------------------- MODULE LockOrderProofs ---------------------------
(***************************************************************************)
(* What it takes for the server's threads to wait for each other in a      *)
(* circle, at every log level and for any number of workers: a line logged *)
(* while gFSMutex is held (from level 3) or gLockMutex (at level 5), or a  *)
(* notification pushed while the lock queue is full.  All else is taken in *)
(* one order.                                                              *)
(*                                                                         *)
(* That a list of steps keeps the order (Fine) is put together from its    *)
(* parts: lists that have nothing at first may follow each other           *)
(* (BalancedConcat), and a list that takes only what may be taken under m  *)
(* may be made under m (UnderAbove).  A step of a thread leaves the rest   *)
(* of a fine list, and what the thread has is what the rest gives back     *)
(* (LInv).  So along a chain of threads that wait neither for the log with *)
(* such a mutex nor for room, the ranks of the mutexes they wait for       *)
(* increase, and there are only four (NoRing).                             *)
(***************************************************************************)
EXTENDS LockOrder, SequenceLemmas

\* The order: gLogMutex is taken before gFSMutex, and that before gLockMutex.
Rank == [m \in Mutexes |-> IF m = "gNumClientMutex" THEN 0
                           ELSE IF m = "gLogMutex" THEN 1
                           ELSE IF m = "gFSMutex" THEN 2 ELSE 3]

\* The mutexes a line is logged under: fs_insert warns under gFSMutex, the lock
\* thread notes under gLockMutex that it waits.
LogsUnder == IF LogLevel >= 5 THEN {"gFSMutex", "gLockMutex"}
             ELSE IF LogLevel >= 3 THEN {"gFSMutex"} ELSE {}

\* m may be taken by a thread that has n.
TakenUnder(m, n) == Rank[n] < Rank[m] \/ (m = "gLogMutex" /\ n \in LogsUnder)

StepSet == [op : {"lock", "unlock"}, mutex : Mutexes] \cup {Push, Pop, Wait}

\* m is given back in s, from step i on, before it is taken: the thread has it.
HeldAt(s, i, m) ==
    \E j \in i .. Len(s) : s[j] = Unlock(m) /\ \A k \in i .. j - 1 : s[k] # Lock(m)

\* At step i the thread has only mutexes it may have, and gives the one it takes
\* back later; around the queue it has gLockMutex alone.
StepFine(s, i) ==
    /\ \A m \in Mutexes : s[i] = Lock(m) =>
          /\ HeldAt(s, i + 1, m)
          /\ \A n \in Mutexes : HeldAt(s, i, n) => TakenUnder(m, n)
    /\ s[i] \in {Pop, Wait} =>
          /\ HeldAt(s, i + 1, "gLockMutex")
          /\ \A n \in Mutexes : HeldAt(s, i, n) => n = "gLockMutex"

Fine(s) == s \in Seq(StepSet) /\ \A i \in 1 .. Len(s) : StepFine(s, i)

\* A program: it has nothing at first, and gives back all it takes.
Balanced(s) == Fine(s) /\ \A m \in Mutexes : ~ HeldAt(s, 1, m)

\* It takes only what may be taken under each of these, and leaves the lock queue alone.
Above(s, under) ==
    /\ Balanced(s)
    /\ \A i \in 1 .. Len(s) : /\ s[i] \notin {Pop, Wait}
                              /\ \A m \in Mutexes : s[i] = Lock(m) =>
                                    \A n \in under : TakenUnder(m, n)

\* What is given back by steps with others behind them is given back by the ones
\* or by the others.
LEMMA HeldFront ==
    ASSUME NEW a \in Seq(StepSet), NEW b \in Seq(StepSet),
           NEW i \in 1 .. Len(a) + 1, NEW m \in Mutexes, HeldAt(a \o b, i, m)
    PROVE  HeldAt(a, i, m) \/ HeldAt(b, 1, m)
<1>1. PICK k \in Nat, l \in Nat : k = Len(a) /\ l = Len(b)
    OBVIOUS
<1>2. Len(a \o b) = k + l
    BY <1>1
<1>3. /\ \A x \in 1 .. k : (a \o b)[x] = a[x]
      /\ \A x \in 1 .. l : (a \o b)[k + x] = b[x]
    BY <1>1
<1>4. PICK j \in i .. k + l : /\ (a \o b)[j] = Unlock(m)
                              /\ \A x \in i .. j - 1 : (a \o b)[x] # Lock(m)
    BY <1>2 DEF HeldAt
<1>5. CASE j <= k
  <2>1. j \in i .. k /\ a[j] = Unlock(m) /\ \A x \in i .. j - 1 : a[x] # Lock(m)
      BY <1>1, <1>3, <1>4, <1>5
  <2> QED
      BY <1>1, <2>1 DEF HeldAt
<1>6. CASE j > k
  <2>1. PICK h \in 1 .. l : j = k + h
    <3>1. j - k \in 1 .. l /\ j = k + (j - k)
        BY <1>1, <1>4, <1>6
    <3> QED
        BY <3>1
  <2>2. b[h] = Unlock(m)
      BY <1>3, <1>4, <2>1
  <2>3. ASSUME NEW x \in 1 .. h - 1 PROVE b[x] # Lock(m)
    <3>1. k + x \in i .. j - 1 /\ x \in 1 .. l
        BY <1>1, <2>1
    <3> QED
        BY <1>3, <1>4, <3>1
  <2>4. HeldAt(b, 1, m)
      BY <1>1, <2>2, <2>3 DEF HeldAt
  <2> QED
      BY <2>4
<1> QED
    BY <1>4, <1>5, <1>6

LEMMA HeldBack ==
    ASSUME NEW a \in Seq(StepSet), NEW b \in Seq(StepSet), NEW i \in 1 .. Len(b) + 1, NEW m \in Mutexes
    PROVE  HeldAt(a \o b, Len(a) + i, m) <=> HeldAt(b, i, m)
<1>1. PICK k \in Nat, l \in Nat : k = Len(a) /\ l = Len(b)
    OBVIOUS
<1>2. Len(a \o b) = k + l
    BY <1>1
<1>3. \A x \in 1 .. l : (a \o b)[k + x] = b[x]
    BY <1>1
<1>i. i \in 1 .. l + 1
    BY <1>1
<1>4. ASSUME HeldAt(a \o b, k + i, m) PROVE HeldAt(b, i, m)
  <2>1. PICK j \in k + i .. k + l : /\ (a \o b)[j] = Unlock(m)
                                    /\ \A x \in k + i .. j - 1 : (a \o b)[x] # Lock(m)
      BY <1>2, <1>4 DEF HeldAt
  <2>2. PICK h \in i .. l : j = k + h /\ h \in 1 .. l
    <3>1. j - k \in i .. l /\ j = k + (j - k) /\ j - k \in 1 .. l
        BY <1>i, <2>1
    <3> QED
        BY <3>1
  <2>3. b[h] = Unlock(m)
      BY <1>3, <2>1, <2>2
  <2>4. ASSUME NEW x \in i .. h - 1 PROVE b[x] # Lock(m)
    <3>1. k + x \in k + i .. j - 1 /\ x \in 1 .. l
        BY <1>i, <2>2
    <3> QED
        BY <1>3, <2>1, <3>1
  <2> QED
      BY <1>1, <2>2, <2>3, <2>4 DEF HeldAt
<1>5. ASSUME HeldAt(b, i, m) PROVE HeldAt(a \o b, k + i, m)
  <2>1. PICK j \in i .. l : b[j] = Unlock(m) /\ \A x \in i .. j - 1 : b[x] # Lock(m)
      BY <1>1, <1>5 DEF HeldAt
  <2>2. k + j \in k + i .. k + l /\ j \in 1 .. l
      BY <1>i, <2>1
  <2>3. (a \o b)[k + j] = Unlock(m)
      BY <1>3, <2>1, <2>2
  <2>4. ASSUME NEW x \in k + i .. (k + j) - 1 PROVE (a \o b)[x] # Lock(m)
    <3>1. PICK h \in i .. j - 1 : x = k + h /\ h \in 1 .. l
      <4>1. x - k \in i .. j - 1 /\ x = k + (x - k) /\ x - k \in 1 .. l
          BY <1>i, <2>1, <2>4
      <4> QED
          BY <4>1
    <3> QED
        BY <1>3, <2>1, <3>1
  <2> QED
      BY <1>2, <2>2, <2>3, <2>4 DEF HeldAt
<1> QED
    BY <1>1, <1>4, <1>5


LEMMA HeldMore ==
    ASSUME NEW a \in Seq(StepSet), NEW b \in Seq(StepSet),
           NEW i \in 1 .. Len(a) + 1, NEW m \in Mutexes, HeldAt(a, i, m)
    PROVE  HeldAt(a \o b, i, m)
<1>1. PICK k \in Nat, l \in Nat : k = Len(a) /\ l = Len(b)
    OBVIOUS
<1>2. Len(a \o b) = k + l /\ \A x \in 1 .. k : (a \o b)[x] = a[x]
    BY <1>1
<1>3. PICK j \in i .. k : a[j] = Unlock(m) /\ \A x \in i .. j - 1 : a[x] # Lock(m)
    BY <1>1 DEF HeldAt
<1>4. j \in i .. k + l /\ j \in 1 .. k /\ \A x \in i .. j - 1 : x \in 1 .. k
    BY <1>1, <1>3
<1>5. (a \o b)[j] = Unlock(m) /\ \A x \in i .. j - 1 : (a \o b)[x] # Lock(m)
    BY <1>2, <1>3, <1>4
<1> QED
    BY <1>2, <1>4, <1>5 DEF HeldAt

\* A step is fine as it was where more is given back later, if it may be taken under that.
LEMMA FineFront ==
    ASSUME NEW a \in Seq(StepSet), NEW b \in Seq(StepSet), NEW i \in 1 .. Len(a),
           StepFine(a, i),
           \A n \in Mutexes : HeldAt(b, 1, n) =>
              /\ a[i] \notin {Pop, Wait}
              /\ \A m \in Mutexes : a[i] = Lock(m) => TakenUnder(m, n)
    PROVE  StepFine(a \o b, i)
<1>1. (a \o b)[i] = a[i] /\ i \in 1 .. Len(a) + 1 /\ i + 1 \in 1 .. Len(a) + 1
    OBVIOUS
<1>2. ASSUME NEW n \in Mutexes, HeldAt(a \o b, i, n)
      PROVE  HeldAt(a, i, n) \/ HeldAt(b, 1, n)
    BY <1>1, <1>2, HeldFront
<1>3. ASSUME NEW n \in Mutexes, HeldAt(a, i + 1, n)
      PROVE  HeldAt(a \o b, i + 1, n)
    BY <1>1, <1>3, HeldMore
<1>4. ASSUME NEW m \in Mutexes, a[i] = Lock(m)
      PROVE  /\ HeldAt(a \o b, i + 1, m)
             /\ \A n \in Mutexes : HeldAt(a \o b, i, n) => TakenUnder(m, n)
    BY <1>2, <1>3, <1>4, Zenon DEF StepFine
<1>5. ASSUME a[i] \in {Pop, Wait}
      PROVE  /\ HeldAt(a \o b, i + 1, "gLockMutex")
             /\ \A n \in Mutexes : HeldAt(a \o b, i, n) => n = "gLockMutex"
  <2>1. "gLockMutex" \in Mutexes
      BY DEF Mutexes
  <2> QED
      BY <1>2, <1>3, <1>5, <2>1, Zenon DEF StepFine
<1> QED
    BY <1>1, <1>4, <1>5, Zenon DEF StepFine

LEMMA FineBack ==
    ASSUME NEW a \in Seq(StepSet), NEW b \in Seq(StepSet), NEW i \in 1 .. Len(b)
    PROVE  StepFine(a \o b, Len(a) + i) <=> StepFine(b, i)
<1>1. (a \o b)[Len(a) + i] = b[i] /\ i \in 1 .. Len(b) + 1 /\ i + 1 \in 1 .. Len(b) + 1
      /\ (Len(a) + i) + 1 = Len(a) + (i + 1)
    OBVIOUS
<1>2. \A n \in Mutexes : /\ HeldAt(a \o b, Len(a) + i, n) <=> HeldAt(b, i, n)
                         /\ HeldAt(a \o b, (Len(a) + i) + 1, n) <=> HeldAt(b, i + 1, n)
    BY <1>1, HeldBack
<1>3. "gLockMutex" \in Mutexes
    BY DEF Mutexes
<1> QED
    BY <1>1, <1>2, <1>3, Zenon DEF StepFine

LEMMA FineConcat ==
    ASSUME NEW a, NEW b, Fine(b), a \in Seq(StepSet),
           \A i \in 1 .. Len(a) : StepFine(a \o b, i)
    PROVE  Fine(a \o b)
<1>1. b \in Seq(StepSet) /\ a \o b \in Seq(StepSet)
    BY DEF Fine
<1>2. ASSUME NEW i \in 1 .. Len(a \o b) PROVE StepFine(a \o b, i)
  <2>1. CASE i \in 1 .. Len(a)
      BY <2>1
  <2>2. CASE i \notin 1 .. Len(a)
    <3>1. PICK h \in 1 .. Len(b) : i = Len(a) + h
      <4>1. i - Len(a) \in 1 .. Len(b) /\ i = Len(a) + (i - Len(a))
          BY <1>1, <2>2
      <4> QED
          BY <4>1
    <3>2. StepFine(b, h)
        BY DEF Fine
    <3> QED
        BY <1>1, <3>1, <3>2, FineBack
  <2> QED
      BY <2>1, <2>2
<1> QED
    BY <1>1, <1>2 DEF Fine

LEMMA BalancedConcat ==
    ASSUME NEW a, NEW b, Balanced(a), Balanced(b)
    PROVE  Balanced(a \o b)
<1>1. a \in Seq(StepSet) /\ b \in Seq(StepSet) /\ Fine(b)
    BY DEF Balanced, Fine
<1>2. \A i \in 1 .. Len(a) : StepFine(a \o b, i)
    BY <1>1, FineFront DEF Balanced, Fine
<1>3. Fine(a \o b)
    BY <1>1, <1>2, FineConcat
<1>4. ASSUME NEW m \in Mutexes, HeldAt(a \o b, 1, m) PROVE FALSE
  <2>1. 1 \in 1 .. Len(a) + 1
      BY <1>1
  <2>2. HeldAt(a, 1, m) \/ HeldAt(b, 1, m)
      BY <1>1, <1>4, <2>1, HeldFront
  <2> QED
      BY <2>2 DEF Balanced
<1> QED
    BY <1>3, <1>4 DEF Balanced

LEMMA AboveConcat ==
    ASSUME NEW a, NEW b, NEW under, Above(a, under), Above(b, under)
    PROVE  Above(a \o b, under)
<1>1. a \in Seq(StepSet) /\ b \in Seq(StepSet) /\ Balanced(a \o b)
    BY BalancedConcat DEF Above, Balanced, Fine
<1>2. ASSUME NEW i \in 1 .. Len(a \o b)
      PROVE  /\ (a \o b)[i] \notin {Pop, Wait}
             /\ \A m \in Mutexes : (a \o b)[i] = Lock(m) => \A n \in under : TakenUnder(m, n)
  <2>1. \/ i \in 1 .. Len(a) /\ (a \o b)[i] = a[i]
        \/ i - Len(a) \in 1 .. Len(b) /\ (a \o b)[i] = b[i - Len(a)]
      BY <1>1
  <2> QED
      BY <2>1, Zenon DEF Above
<1> QED
    BY <1>1, <1>2 DEF Above

LEMMA RankIs == \A m \in Mutexes : Rank[m] \in 0 .. 3
BY DEF Rank, Mutexes

LEMMA LogsUnderAre == LogsUnder \subseteq Mutexes /\ "gLogMutex" \notin LogsUnder
BY DEF LogsUnder, Mutexes

LEMMA NotUnderItself ==
    ASSUME NEW m \in Mutexes
    PROVE  ~ TakenUnder(m, m)
<1>1. Rank[m] \in Int
    BY RankIs
<1> QED
    BY <1>1, LogsUnderAre DEF TakenUnder

\* The elements of a concatenation.
LEMMA JoinedAt ==
    ASSUME NEW S, NEW a \in Seq(S), NEW b \in Seq(S)
    PROVE  /\ a \o b \in Seq(S) /\ Len(a \o b) = Len(a) + Len(b)
           /\ \A i \in 1 .. Len(a) : (a \o b)[i] = a[i]
           /\ \A i \in 1 .. Len(b) : (a \o b)[Len(a) + i] = b[i]
OBVIOUS

\* Steps of one of a call: that m is taken, and that it is given back.
LEMMA TakeAndGive ==
    ASSUME NEW m \in Mutexes
    PROVE  /\ <<Lock(m)>> \in Seq(StepSet) /\ <<Unlock(m)>> \in Seq(StepSet)
           /\ Fine(<<Unlock(m)>>)
           /\ HeldAt(<<Unlock(m)>>, 1, m)
           /\ \A n \in Mutexes : HeldAt(<<Unlock(m)>>, 1, n) => n = m
           /\ \A n \in Mutexes : ~ HeldAt(<<Lock(m)>>, 1, n)
<1>1. PICK a, b : a = <<Lock(m)>> /\ b = <<Unlock(m)>>
    OBVIOUS
<1>2. a \in Seq(StepSet) /\ b \in Seq(StepSet) /\ Len(a) = 1 /\ Len(b) = 1
    BY <1>1 DEF StepSet, Lock, Unlock
<1>3. a[1] = Lock(m) /\ b[1] = Unlock(m)
    BY <1>1
<1>4. \A n \in Mutexes : b[1] # Lock(n) /\ a[1] # Unlock(n) /\ (b[1] = Unlock(n) => n = m)
    BY <1>3 DEF Lock, Unlock
<1>5. b[1] \notin {Pop, Wait}
    BY <1>3 DEF Unlock, Pop, Wait
<1>6. StepFine(b, 1)
    BY <1>4, <1>5 DEF StepFine
<1>7. HeldAt(b, 1, m) /\ (\A n \in Mutexes : HeldAt(b, 1, n) => n = m)
      /\ \A n \in Mutexes : ~ HeldAt(a, 1, n)
    BY <1>2, <1>3, <1>4 DEF HeldAt
<1> QED
    BY <1>1, <1>2, <1>6, <1>7 DEF Fine

\* Steps that may be made under m, too, are made under m.
LEMMA UnderAbove ==
    ASSUME NEW s, NEW m \in Mutexes, NEW under, Above(s, under \cup {m}),
           \A n \in under : TakenUnder(m, n)
    PROVE  Above(Under(m, s), under)
<1>1. PICK l, u : l = <<Lock(m)>> /\ u = <<Unlock(m)>>
    OBVIOUS
<1>2. /\ l \in Seq(StepSet) /\ u \in Seq(StepSet) /\ Fine(u) /\ HeldAt(u, 1, m)
      /\ \A n \in Mutexes : HeldAt(u, 1, n) => n = m
      /\ \A n \in Mutexes : ~ HeldAt(l, 1, n)
      /\ Len(l) = 1 /\ l[1] = Lock(m) /\ Len(u) = 1 /\ u[1] = Unlock(m)
    BY <1>1, TakeAndGive
<1>3. s \in Seq(StepSet) /\ s \o u \in Seq(StepSet) /\ Len(s) \in Nat
    BY <1>2 DEF Above, Balanced, Fine
<1>j. /\ Len(s \o u) = Len(s) + Len(u)
      /\ \A i \in 1 .. Len(s) : (s \o u)[i] = s[i]
      /\ \A i \in 1 .. Len(u) : (s \o u)[Len(s) + i] = u[i]
  <2>1. s \in Seq(StepSet) /\ u \in Seq(StepSet)
      BY <1>2, <1>3
  <2> QED
      BY <2>1, JoinedAt
<1>4. ASSUME NEW i \in 1 .. Len(s) PROVE StepFine(s \o u, i)
    BY <1>2, <1>3, <1>4, FineFront DEF Above, Balanced, Fine
<1>5. Fine(s \o u)
    BY <1>2, <1>3, <1>4, FineConcat
<1>6. ASSUME NEW n \in Mutexes PROVE HeldAt(s \o u, 1, n) <=> n = m
  <2>1. 1 \in 1 .. Len(s) + 1
      BY <1>3
  <2>2. HeldAt(s \o u, 1, n) => n = m
      BY <1>2, <1>3, <2>1, HeldFront DEF Above, Balanced
  <2>3. HeldAt(s \o u, 1, m)
    <3>1. /\ (s \o u)[Len(s) + 1] = Unlock(m) /\ Len(s \o u) = Len(s) + 1
          /\ \A j \in 1 .. Len(s) : (s \o u)[j] = s[j]
        BY <1>2, <1>j
    <3>2. ASSUME NEW j \in 1 .. Len(s), s[j] = Lock(m) PROVE FALSE
      <4>1. TakenUnder(m, m)
          BY <3>2 DEF Above
      <4> QED
          BY <4>1, NotUnderItself
    <3>3. \A j \in 1 .. (Len(s) + 1) - 1 : (s \o u)[j] # Lock(m)
        BY <1>3, <3>1, <3>2
    <3> QED
        BY <1>3, <3>1, <3>3 DEF HeldAt
  <2> QED
      BY <2>2, <2>3
<1>7. PICK p : p = l \o (s \o u)
    OBVIOUS
<1>8. /\ p \in Seq(StepSet) /\ Len(p) = Len(s) + 2 /\ p[1] = Lock(m)
      /\ \A i \in 1 .. Len(s) : p[1 + i] = s[i]
      /\ p[Len(s) + 2] = Unlock(m)
  <2>1. /\ Len(s \o u) = Len(s) + 1 /\ (s \o u)[Len(s) + 1] = Unlock(m)
        /\ \A i \in 1 .. Len(s) : (s \o u)[i] = s[i]
      BY <1>2, <1>j
  <2>2. PICK v \in Seq(StepSet) : v = s \o u
      BY <1>3
  <2>3. /\ p \in Seq(StepSet) /\ Len(p) = 1 + Len(v) /\ p[1] = Lock(m)
        /\ \A i \in 1 .. Len(v) : p[1 + i] = v[i]
    <3>1. /\ l \o v \in Seq(StepSet) /\ Len(l \o v) = Len(l) + Len(v)
          /\ \A i \in 1 .. Len(l) : (l \o v)[i] = l[i]
          /\ \A i \in 1 .. Len(v) : (l \o v)[Len(l) + i] = v[i]
      <4>1. l \in Seq(StepSet) /\ v \in Seq(StepSet)
          BY <1>2
      <4> QED
          BY <4>1, JoinedAt
    <3>2. p = l \o v
        BY <1>7, <2>2
    <3> QED
        BY <1>2, <3>1, <3>2
  <2>4. \A i \in 1 .. Len(s) : p[1 + i] = s[i]
      BY <1>3, <2>1, <2>2, <2>3
  <2>5. p[1 + (Len(s) + 1)] = Unlock(m)
      BY <1>3, <2>1, <2>2, <2>3
  <2> QED
      BY <1>3, <2>1, <2>2, <2>3, <2>4, <2>5
<1>9. ASSUME NEW n \in Mutexes PROVE ~ HeldAt(p, 1, n)
  <2> SUFFICES ASSUME NEW j \in 1 .. Len(p), p[j] = Unlock(n),
                      \A k \in 1 .. j - 1 : p[k] # Lock(n)
               PROVE  FALSE
      BY DEF HeldAt
  <2>1. j # 1
      BY <1>8 DEF Lock, Unlock
  <2>2. n # m
      BY <1>8, <2>1
  <2>3. HeldAt(p, 1, n)
      BY <1>8 DEF HeldAt
  <2>4. HeldAt(l, 1, n) \/ HeldAt(s \o u, 1, n)
    <3>1. PICK v \in Seq(StepSet) : v = s \o u
        BY <1>3
    <3>2. 1 \in 1 .. Len(l) + 1 /\ HeldAt(l \o v, 1, n)
        BY <1>2, <1>7, <2>3, <3>1
    <3> QED
        BY <1>2, <3>1, <3>2, HeldFront
  <2> QED
      BY <1>2, <1>6, <2>2, <2>4
<1>10. StepFine(p, 1)
  <2>1. HeldAt(p, 2, m)
    <3>1. PICK v \in Seq(StepSet) : v = s \o u
        BY <1>3
    <3>2. 1 \in 1 .. Len(v) + 1 /\ HeldAt(v, 1, m)
        BY <1>6, <3>1
    <3>3. HeldAt(l \o v, Len(l) + 1, m)
        BY <1>2, <3>2, HeldBack
    <3> QED
        BY <1>2, <1>7, <3>1, <3>3
  <2>2. p[1] \notin {Pop, Wait} /\ \A n \in Mutexes : p[1] = Lock(n) => n = m
      BY <1>8 DEF Lock, Pop, Wait
  <2> QED
      BY <1>9, <2>1, <2>2 DEF StepFine
<1>11. Fine(p)
  <2>1. \A i \in 1 .. Len(l) : StepFine(l \o (s \o u), i)
      BY <1>2, <1>7, <1>10
  <2> QED
      BY <1>2, <1>5, <1>7, <2>1, FineConcat
<1>12. ASSUME NEW i \in 1 .. Len(p)
       PROVE  /\ p[i] \notin {Pop, Wait}
              /\ \A n \in Mutexes : p[i] = Lock(n) => \A h \in under : TakenUnder(n, h)
  <2>1. CASE i = 1
      BY <1>8, <2>1 DEF Lock, Pop, Wait
  <2>2. CASE i = Len(s) + 2
      BY <1>8, <2>2 DEF Lock, Unlock, Pop, Wait
  <2>3. CASE i \in 2 .. Len(s) + 1
    <3>1. PICK h \in 1 .. Len(s) : i = 1 + h
      <4>1. i - 1 \in 1 .. Len(s) /\ i = 1 + (i - 1)
          BY <1>3, <2>3
      <4> QED
          BY <4>1
    <3>2. p[i] = s[h]
        BY <1>8, <3>1
    <3>3. /\ s[h] \notin {Pop, Wait}
          /\ \A n \in Mutexes : s[h] = Lock(n) => \A x \in under : TakenUnder(n, x)
        BY DEF Above
    <3> QED
        BY <3>2, <3>3
  <2> QED
      BY <1>3, <1>8, <2>1, <2>2, <2>3
<1>13. Under(m, s) = p
    BY <1>1, <1>2, <1>3, <1>7 DEF Under
<1> QED
    BY <1>9, <1>11, <1>12, <1>13 DEF Above, Balanced

-----------------------------------------------------------------------------
(* The programs. *)

LEMMA EmptyAbove == \A under : Above(<< >>, under)
BY DEF Above, Balanced, Fine, HeldAt

LEMMA MutexAlone ==
    ASSUME NEW m \in Mutexes, NEW under, \A n \in under : TakenUnder(m, n)
    PROVE  Above(Under(m, << >>), under)
BY EmptyAbove, UnderAbove

LEMMA RanksAre ==
    /\ Rank["gNumClientMutex"] = 0 /\ Rank["gLogMutex"] = 1
    /\ Rank["gFSMutex"] = 2 /\ Rank["gLockMutex"] = 3
    /\ {"gNumClientMutex", "gLogMutex", "gFSMutex", "gLockMutex"} \subseteq Mutexes
BY DEF Rank, Mutexes

\* Lines are logged under no mutex, under gFSMutex, and the details under gLockMutex.
LEMMA LogsAbove ==
    ASSUME LogLevel \in Int
    PROVE  /\ Above(LOG_WARN, {"gFSMutex"}) /\ Above(LOG_VERB, {"gFSMutex"})
           /\ Above(LOG_VERB, {"gLockMutex"}) /\ Above(LOG_VERB, {})
<1>1. ASSUME NEW under, \A n \in under : TakenUnder("gLogMutex", n)
      PROVE  Above(Under("gLogMutex", << >>), under)
    BY <1>1, MutexAlone, RanksAre
<1>2. /\ LogLevel >= 3 => TakenUnder("gLogMutex", "gFSMutex")
      /\ LogLevel >= 5 => TakenUnder("gLogMutex", "gFSMutex") /\ TakenUnder("gLogMutex", "gLockMutex")
    BY DEF TakenUnder, LogsUnder
<1>3. Above(LOG_WARN, {"gFSMutex"})
    BY <1>1, <1>2, EmptyAbove DEF LOG_WARN, LOG
<1>4. Above(LOG_VERB, {"gFSMutex"}) /\ Above(LOG_VERB, {"gLockMutex"}) /\ Above(LOG_VERB, {})
    BY <1>1, <1>2, EmptyAbove DEF LOG_VERB, LOG
<1> QED
    BY <1>3, <1>4

LEMMA PushAbove ==
    ASSUME NEW under
    PROVE  Above(<<Push>>, under)
<1>1. PICK p : p = <<Push>>
    OBVIOUS
<1>2. p \in Seq(StepSet) /\ Len(p) = 1 /\ p[1] = Push
    BY <1>1 DEF StepSet
<1>3. Push \notin {Pop, Wait} /\ \A m \in Mutexes : Push # Lock(m) /\ Push # Unlock(m)
    BY DEF Push, Pop, Wait, Lock, Unlock
<1>4. \A m \in Mutexes : ~ HeldAt(p, 1, m)
    BY <1>2, <1>3 DEF HeldAt
<1>5. StepFine(p, 1)
    BY <1>2, <1>3 DEF StepFine
<1> QED
    BY <1>1, <1>2, <1>3, <1>4, <1>5 DEF Above, Balanced, Fine

LEMMA NotifyAbove ==
    ASSUME LogLevel \in Int
    PROVE  Above(Notify, {"gFSMutex"})
<1>1. TakenUnder("gLockMutex", "gFSMutex")
    BY RanksAre DEF TakenUnder
<1>2. /\ Above(<<Push>>, {"gFSMutex"}) /\ Above(LOG_VERB, {"gFSMutex"})
      /\ Above(Under("gLockMutex", << >>), {"gFSMutex"})
    BY <1>1, LogsAbove, PushAbove, MutexAlone, RanksAre
<1> QED
    BY <1>2, AboveConcat DEF Notify

LEMMA CallsAbove ==
    ASSUME LogLevel \in Int, NEW call \in Calls
    PROVE  Above(call, {})
<1>1. ASSUME NEW s, Above(s, {"gFSMutex"}) PROVE Above(Called(s), {})
  <2>1. Above(s \o log_cache_entirely, {"gFSMutex"})
      BY <1>1, LogsAbove, AboveConcat DEF log_cache_entirely
  <2>2. {} \cup {"gFSMutex"} = {"gFSMutex"}
      OBVIOUS
  <2> QED
      BY <2>1, <2>2, UnderAbove, RanksAre DEF Called
<1>2. /\ Above(<< >>, {"gFSMutex"}) /\ Above(LOG_WARN, {"gFSMutex"}) /\ Above(LOG_VERB, {"gFSMutex"})
      /\ Above(Notify, {"gFSMutex"}) /\ Above(Notify \o Notify, {"gFSMutex"})
    BY LogsAbove, EmptyAbove, NotifyAbove, AboveConcat
<1> QED
    BY <1>1, <1>2 DEF Calls, PlainCall, fs_insert_exists, fs_unlock_waiting, fs_unlock_nobody,
                      fs_remove_waiting

LEMMA LineAbove == Above(log_into_file, {})
<1>1. TakenUnder("gFSMutex", "gLogMutex")
    BY RanksAre DEF TakenUnder
<1>2. Above(fs_get_infos, {"gLogMutex"})
    BY <1>1, MutexAlone, RanksAre DEF fs_get_infos
<1>3. {} \cup {"gLogMutex"} = {"gLogMutex"}
    OBVIOUS
<1>4. Above(Under("gLogMutex", fs_get_infos), {})
    BY <1>2, <1>3, UnderAbove, RanksAre
<1>5. Above(Under("gNumClientMutex", << >>), {})
    BY MutexAlone, RanksAre
<1> QED
    BY <1>4, <1>5, AboveConcat DEF log_into_file

\* The lock thread pops under gLockMutex alone.
LEMMA PopBalanced == Balanced(Under("gLockMutex", <<Pop>>))
<1>1. PICK p, m : p = Under("gLockMutex", <<Pop>>) /\ m = "gLockMutex"
    OBVIOUS
<1>2. m \in Mutexes
    BY <1>1 DEF Mutexes
<1>3. p \in Seq(StepSet) /\ Len(p) = 3 /\ p[1] = Lock(m) /\ p[2] = Pop /\ p[3] = Unlock(m)
  <2>1. PICK a \in StepSet, b \in StepSet, c \in StepSet :
          a = Lock(m) /\ b = Pop /\ c = Unlock(m)
      BY <1>2 DEF StepSet, Lock, Unlock
  <2>2. p = <<a>> \o <<b>> \o <<c>>
      BY <1>1, <2>1, Zenon DEF Under
  <2>3. PICK ab \in Seq(StepSet) : ab = <<a>> \o <<b>> /\ Len(ab) = 2 /\ ab[1] = a /\ ab[2] = b
    <3>1. /\ <<a>> \o <<b>> \in Seq(StepSet) /\ Len(<<a>> \o <<b>>) = 2
          /\ (<<a>> \o <<b>>)[1] = a /\ (<<a>> \o <<b>>)[2] = b
        OBVIOUS
    <3> QED
        BY <3>1, Zenon
  <2>4. <<c>> \in Seq(StepSet) /\ Len(<<c>>) = 1 /\ <<c>>[1] = c
      OBVIOUS
  <2>5. p \in Seq(StepSet) /\ Len(p) = 3 /\ p[1] = a /\ p[2] = b /\ p[3] = c
    <3>1. p = ab \o <<c>>
        BY <2>2, <2>3, Zenon
    <3> QED
        BY <2>3, <2>4, <3>1
  <2> QED
      BY <2>1, <2>5
<1>4. /\ \A n \in Mutexes : /\ Pop # Lock(n) /\ Pop # Unlock(n) /\ Lock(n) \notin {Pop, Wait}
                            /\ Unlock(n) \notin {Pop, Wait}
      /\ \A n, k \in Mutexes : /\ Lock(n) # Unlock(k) /\ (Lock(n) = Lock(k) => n = k)
                               /\ (Unlock(n) = Unlock(k) => n = k)
    BY DEF Lock, Unlock, Pop, Wait
<1>5. HeldAt(p, 3, m) /\ HeldAt(p, 2, m)
    BY <1>2, <1>3, <1>4 DEF HeldAt
<1>6. \A n \in Mutexes : HeldAt(p, 2, n) => n = m
    BY <1>2, <1>3, <1>4 DEF HeldAt
<1>7. \A n \in Mutexes : ~ HeldAt(p, 1, n)
    BY <1>2, <1>3, <1>4 DEF HeldAt
<1>8. StepFine(p, 1)
    BY <1>2, <1>3, <1>4, <1>5, <1>7 DEF StepFine
<1>9. StepFine(p, 2)
    BY <1>1, <1>3, <1>4, <1>5, <1>6 DEF StepFine
<1>10. StepFine(p, 3)
    BY <1>2, <1>3, <1>4 DEF StepFine
<1>11. \A i \in 1 .. Len(p) : i = 1 \/ i = 2 \/ i = 3
    BY <1>3
<1>12. Balanced(p)
    BY <1>3, <1>7, <1>8, <1>9, <1>10, <1>11 DEF Balanced, Fine
<1> QED
    BY <1>1, <1>12

LEMMA ProgramsBalanced ==
    ASSUME LogLevel \in Int
    PROVE  Balanced(lockThreadFun) /\ \A s \in Worker : Balanced(s)
<1>1. Balanced(log_into_file) /\ Balanced(LOG_VERB) /\ \A call \in Calls : Balanced(call)
    BY CallsAbove, LineAbove, LogsAbove DEF Above
<1>2. Balanced(lockThreadFun)
    BY <1>1, PopBalanced, BalancedConcat DEF lockThreadFun
<1>3. \A s \in Worker : Balanced(s)
    BY <1>1, BalancedConcat DEF Worker
<1> QED
    BY <1>2, <1>3

-----------------------------------------------------------------------------
(* The invariant. *)

\* Whoever has a mutex gives it back before taking it again.
LInv ==
    /\ DOMAIN todo = Threads /\ \A t \in Threads : Fine(todo[t])
    /\ DOMAIN holder = Mutexes
    /\ \A t \in Threads, m \in Mutexes : holder[m] = t => HeldAt(todo[t], 1, m)

\* What is held after the first step, and what was before it.
LEMMA AfterFirst ==
    ASSUME NEW s, Fine(s), s # << >>
    PROVE  /\ Fine(Tail(s)) /\ Head(s) \in StepSet /\ StepFine(s, 1)
           /\ s = <<Head(s)>> \o Tail(s)
           /\ \A m \in Mutexes : /\ HeldAt(Tail(s), 1, m) <=> HeldAt(s, 2, m)
                                 /\ HeldAt(s, 1, m) /\ Head(s) # Unlock(m) => HeldAt(Tail(s), 1, m)
                                 /\ HeldAt(Tail(s), 1, m) /\ Head(s) # Lock(m) => HeldAt(s, 1, m)
           /\ s[1] = Head(s)
<1>1. s \in Seq(StepSet) /\ Len(s) \in Nat /\ Len(s) >= 1
    BY DEF Fine
<1>2. PICK a \in Seq(StepSet), b \in Seq(StepSet) :
         a = <<Head(s)>> /\ b = Tail(s) /\ Len(a) = 1 /\ Len(b) = Len(s) - 1 /\ a[1] = s[1]
  <2>1. <<Head(s)>> \in Seq(StepSet) /\ Tail(s) \in Seq(StepSet) /\ Len(<<Head(s)>>) = 1
        /\ Len(Tail(s)) = Len(s) - 1 /\ <<Head(s)>>[1] = s[1]
      BY <1>1
  <2> QED
      BY <2>1, Zenon
<1>3. s = <<Head(s)>> \o Tail(s)
    BY <1>1
<1>4. s = a \o b
    BY <1>2, <1>3, Zenon
<1>l. Len(a) = 1
    BY <1>2
<1>5. ASSUME NEW i \in 1 .. Len(b) + 1, NEW m \in Mutexes
      PROVE  HeldAt(s, 1 + i, m) <=> HeldAt(b, i, m)
  <2>1. HeldAt(a \o b, Len(a) + i, m) <=> HeldAt(b, i, m)
      BY HeldBack
  <2> QED
      BY <1>4, <1>l, <2>1, Zenon
<1>6. ASSUME NEW i \in 1 .. Len(b)
      PROVE  StepFine(s, 1 + i) <=> StepFine(b, i)
  <2>1. StepFine(a \o b, Len(a) + i) <=> StepFine(b, i)
      BY FineBack
  <2> QED
      BY <1>4, <1>l, <2>1, Zenon
<1>7. Fine(b)
  <2>1. ASSUME NEW i \in 1 .. Len(b) PROVE StepFine(b, i)
    <3>1. 1 + i \in 1 .. Len(s)
        BY <1>1, <1>2
    <3> QED
        BY <1>6, <3>1 DEF Fine
  <2> QED
      BY <2>1 DEF Fine
<1>8. Head(s) \in StepSet /\ s[1] = Head(s)
    BY <1>1
<1>9. StepFine(s, 1)
    BY <1>1 DEF Fine
<1>10. ASSUME NEW m \in Mutexes PROVE HeldAt(b, 1, m) <=> HeldAt(s, 2, m)
  <2>1. 1 \in 1 .. Len(b) + 1 /\ 1 + 1 = 2
      OBVIOUS
  <2> QED
      BY <1>5, <2>1
<1>11. ASSUME NEW m \in Mutexes, HeldAt(s, 1, m), s[1] # Unlock(m) PROVE HeldAt(s, 2, m)
    BY <1>1, <1>11 DEF HeldAt
<1>12. ASSUME NEW m \in Mutexes, HeldAt(s, 2, m), s[1] # Lock(m) PROVE HeldAt(s, 1, m)
  <2>1. PICK j \in 2 .. Len(s) : s[j] = Unlock(m) /\ \A k \in 2 .. j - 1 : s[k] # Lock(m)
      BY <1>12 DEF HeldAt
  <2>2. \A k \in 1 .. j - 1 : s[k] # Lock(m)
      BY <1>12, <2>1
  <2> QED
      BY <1>1, <2>1, <2>2 DEF HeldAt
<1> QED
    BY <1>2, <1>3, <1>7, <1>8, <1>9, <1>10, <1>11, <1>12

\* A step in front of fine steps.
LEMMA FineBefore ==
    ASSUME NEW s, Fine(s), NEW x \in StepSet, StepFine(<<x>> \o s, 1)
    PROVE  /\ Fine(<<x>> \o s)
           /\ \A m \in Mutexes : HeldAt(<<x>> \o s, 2, m) <=> HeldAt(s, 1, m)
<1>1. PICK a \in Seq(StepSet) : a = <<x>> /\ Len(a) = 1
  <2>1. <<x>> \in Seq(StepSet) /\ Len(<<x>>) = 1
      OBVIOUS
  <2> QED
      BY <2>1, Zenon
<1>2. s \in Seq(StepSet) /\ Len(s) \in Nat
    BY DEF Fine
<1>3. \A i \in 1 .. Len(a) : i = 1
    BY <1>1
<1>4. Fine(a \o s)
    BY <1>1, <1>3, FineConcat
<1>5. ASSUME NEW m \in Mutexes PROVE HeldAt(a \o s, 2, m) <=> HeldAt(s, 1, m)
  <2>1. 1 \in 1 .. Len(s) + 1 /\ Len(a) + 1 = 2
      BY <1>1, <1>2
  <2>2. HeldAt(a \o s, Len(a) + 1, m) <=> HeldAt(s, 1, m)
      BY <1>2, <2>1, HeldBack
  <2> QED
      BY <2>1, <2>2
<1> QED
    BY <1>1, <1>4, <1>5

LEMMA LInvInit ==
    ASSUME Init, Nobody \notin Threads
    PROVE  LInv
<1>1. Fine(<< >>) /\ \A m \in Mutexes : ~ HeldAt(<< >>, 1, m)
    BY EmptyAbove DEF Above, Balanced
<1> QED
    BY <1>1 DEF Init, LInv

\* A thread that begins had nothing, and its program has nothing at first.
LEMMA BeginKeeps ==
    ASSUME LInv, NEW t \in Threads, Begin(t), LogLevel \in Int
    PROVE  LInv'
<1>1. PICK steps : Balanced(steps) /\ todo' = [todo EXCEPT ![t] = steps]
    BY ProgramsBalanced DEF Begin
<1>2. /\ DOMAIN todo' = Threads /\ todo'[t] = steps
      /\ \A u \in Threads : u # t => todo'[u] = todo[u]
    BY <1>1 DEF LInv
<1>3. holder' = holder /\ todo[t] = << >>
    BY DEF Begin
<1>4. \A m \in Mutexes : holder[m] # t
  <2>1. \A m \in Mutexes : ~ HeldAt(<< >>, 1, m)
      BY EmptyAbove DEF Above, Balanced
  <2> QED
      BY <1>3, <2>1 DEF LInv
<1>5. \A u \in Threads : Fine(todo'[u])
    BY <1>1, <1>2 DEF LInv, Balanced
<1>6. \A u \in Threads, m \in Mutexes : holder'[m] = u => HeldAt(todo'[u], 1, m)
    BY <1>2, <1>3, <1>4 DEF LInv
<1> QED
    BY <1>2, <1>3, <1>5, <1>6 DEF LInv

\* A step is made: what is left is fine.
LEMMA DoesIs ==
    ASSUME LInv, NEW t \in Threads, NEW op, Does(t, op)
    PROVE  /\ DOMAIN todo' = Threads /\ \A u \in Threads : Fine(todo'[u])
           /\ Fine(todo[t]) /\ todo[t] # << >> /\ Step(t).op = op /\ Step(t) \in StepSet
           /\ todo'[t] = Tail(todo[t]) /\ Step(t) = Head(todo[t])
           /\ \A u \in Threads : u # t => todo'[u] = todo[u]
<1>1. /\ DOMAIN todo' = Threads /\ todo'[t] = Tail(todo[t])
      /\ \A u \in Threads : u # t => todo'[u] = todo[u]
    BY DEF LInv, Does
<1>2. Fine(todo[t]) /\ todo[t] # << >> /\ Step(t).op = op /\ Step(t) = Head(todo[t])
    BY DEF LInv, Does, Step
<1>3. Fine(Tail(todo[t])) /\ Head(todo[t]) \in StepSet
    BY <1>2, AfterFirst
<1> QED
    BY <1>1, <1>2, <1>3 DEF LInv

LEMMA StepKinds ==
    ASSUME NEW x \in StepSet
    PROVE  /\ x.op = "lock" => x.mutex \in Mutexes /\ x = Lock(x.mutex)
           /\ x.op = "unlock" => x.mutex \in Mutexes /\ x = Unlock(x.mutex)
           /\ x.op = "push" => x = Push
           /\ x.op = "pop" => x = Pop
           /\ x.op = "wait" => x = Wait
BY DEF StepSet, Lock, Unlock, Push, Pop, Wait

LEMMA StepsDiffer ==
    /\ \A m, n \in Mutexes : Lock(m) # Unlock(n) /\ (Lock(m) = Lock(n) => m = n)
                             /\ (Unlock(m) = Unlock(n) => m = n)
    /\ \A m \in Mutexes : /\ Lock(m) \notin {Push, Pop, Wait}
                          /\ Unlock(m) \notin {Push, Pop, Wait}
BY DEF Lock, Unlock, Push, Pop, Wait

LEMMA LockKeeps ==
    ASSUME LInv, NEW t \in Threads, lock_mutex(t)
    PROVE  LInv'
<1>1. PICK x \in StepSet, m \in Mutexes : x = Lock(m) /\ x = Head(todo[t]) /\ x = Step(t) /\ m = x.mutex
    BY DoesIs, StepKinds DEF lock_mutex
<1>2. /\ DOMAIN holder' = Mutexes /\ holder'[m] = t
      /\ \A n \in Mutexes : n # m => holder'[n] = holder[n]
    BY <1>1 DEF LInv, lock_mutex
<1>3. /\ DOMAIN todo' = Threads /\ \A u \in Threads : Fine(todo'[u])
      /\ Fine(todo[t]) /\ todo[t] # << >> /\ todo'[t] = Tail(todo[t])
      /\ \A u \in Threads : u # t => todo'[u] = todo[u]
    BY DoesIs DEF lock_mutex
<1>4. HeldAt(todo'[t], 1, m)
  <2>1. StepFine(todo[t], 1) /\ todo[t][1] = Lock(m)
        /\ (HeldAt(Tail(todo[t]), 1, m) <=> HeldAt(todo[t], 2, m))
      BY <1>1, <1>3, AfterFirst
  <2>2. 1 + 1 = 2
      OBVIOUS
  <2>3. HeldAt(todo[t], 2, m)
      BY <2>1, <2>2, Zenon DEF StepFine
  <2> QED
      BY <1>3, <2>1, <2>3
<1>5. ASSUME NEW u \in Threads, NEW n \in Mutexes, holder'[n] = u
      PROVE  HeldAt(todo'[u], 1, n)
  <2>1. CASE n = m
      BY <1>2, <1>4, <1>5, <2>1
  <2>2. CASE n # m
    <3>1. HeldAt(todo[u], 1, n)
        BY <1>2, <1>5, <2>2 DEF LInv
    <3>2. CASE u = t
      <4>1. Head(todo[t]) # Unlock(n)
          BY <1>1, StepsDiffer
      <4> QED
          BY <1>3, <3>1, <3>2, <4>1, AfterFirst
    <3> QED
        BY <1>3, <3>1, <3>2
  <2> QED
      BY <2>1, <2>2
<1> QED
    BY <1>2, <1>3, <1>5 DEF LInv

LEMMA UnlockKeeps ==
    ASSUME LInv, NEW t \in Threads, unlock_mutex(t), Nobody \notin Threads
    PROVE  LInv'
<1>1. PICK x \in StepSet, m \in Mutexes : x = Unlock(m) /\ x = Head(todo[t]) /\ x = Step(t) /\ m = x.mutex
    BY DoesIs, StepKinds DEF unlock_mutex
<1>2. /\ DOMAIN holder' = Mutexes /\ holder'[m] = Nobody
      /\ \A n \in Mutexes : n # m => holder'[n] = holder[n]
    BY <1>1 DEF LInv, unlock_mutex
<1>3. /\ DOMAIN todo' = Threads /\ \A u \in Threads : Fine(todo'[u])
      /\ Fine(todo[t]) /\ todo[t] # << >> /\ todo'[t] = Tail(todo[t])
      /\ \A u \in Threads : u # t => todo'[u] = todo[u]
    BY DoesIs DEF unlock_mutex
<1>4. ASSUME NEW u \in Threads, NEW n \in Mutexes, holder'[n] = u
      PROVE  HeldAt(todo'[u], 1, n)
  <2>1. n # m
      BY <1>2, <1>4
  <2>2. HeldAt(todo[u], 1, n)
      BY <1>2, <1>4, <2>1 DEF LInv
  <2>3. CASE u = t
    <3>1. Head(todo[t]) # Unlock(n)
        BY <1>1, <2>1, StepsDiffer
    <3> QED
        BY <1>3, <2>2, <2>3, <3>1, AfterFirst
  <2> QED
      BY <1>3, <2>2, <2>3
<1> QED
    BY <1>2, <1>3, <1>4 DEF LInv

LEMMA QueueKeeps ==
    ASSUME LInv, NEW t \in Threads, tryPush(t) \/ tryPop(t)
    PROVE  LInv'
<1>1. PICK op : op \in {"push", "pop"} /\ Does(t, op) /\ holder' = holder
    BY DEF tryPush, tryPop
<1>2. /\ DOMAIN todo' = Threads /\ \A u \in Threads : Fine(todo'[u])
      /\ Fine(todo[t]) /\ todo[t] # << >> /\ todo'[t] = Tail(todo[t])
      /\ \A u \in Threads : u # t => todo'[u] = todo[u]
      /\ Step(t) = Head(todo[t]) /\ Step(t) \in StepSet /\ Step(t).op = op
    BY <1>1, DoesIs
<1>3. Head(todo[t]) \in {Push, Pop}
    BY <1>1, <1>2, StepKinds
<1>4. ASSUME NEW u \in Threads, NEW n \in Mutexes, holder'[n] = u
      PROVE  HeldAt(todo'[u], 1, n)
  <2>1. HeldAt(todo[u], 1, n)
      BY <1>1, <1>4 DEF LInv
  <2>2. CASE u = t
    <3>1. Head(todo[t]) # Unlock(n)
        BY <1>3, StepsDiffer
    <3> QED
        BY <1>2, <2>1, <2>2, <3>1, AfterFirst
  <2> QED
      BY <1>2, <2>1, <2>2
<1> QED
    BY <1>1, <1>2, <1>4 DEF LInv

\* What is held when s comes behind a step that is no mutex's.
LEMMA BehindWait ==
    ASSUME NEW s, Fine(s), NEW m \in Mutexes
    PROVE  HeldAt(<<Wait>> \o s, 1, m) <=> HeldAt(s, 1, m)
<1>1. Wait \in StepSet /\ Wait # Lock(m) /\ Wait # Unlock(m)
    BY StepsDiffer DEF StepSet
<1>2. PICK a \in Seq(StepSet) : a = <<Wait>> /\ Len(a) = 1 /\ a[1] = Wait
  <2>1. <<Wait>> \in Seq(StepSet) /\ Len(<<Wait>>) = 1 /\ <<Wait>>[1] = Wait
      BY <1>1
  <2> QED
      BY <2>1, Zenon
<1>3. s \in Seq(StepSet) /\ Len(s) \in Nat
    BY DEF Fine
<1>4. 1 \in 1 .. Len(a) + 1
    BY <1>2
<1>5. ~ HeldAt(a, 1, m)
    BY <1>1, <1>2 DEF HeldAt
<1>6. HeldAt(a \o s, 1, m) => HeldAt(s, 1, m)
    BY <1>3, <1>4, <1>5, HeldFront
<1>7. ASSUME HeldAt(s, 1, m) PROVE HeldAt(a \o s, 1, m)
  <2>1. 1 \in 1 .. Len(s) + 1
      BY <1>3
  <2>2. HeldAt(a \o s, Len(a) + 1, m)
      BY <1>3, <1>7, <2>1, HeldBack
  <2>3. Len(a \o s) \in Nat /\ (a \o s)[1] = Wait
      BY <1>2, <1>3
  <2>4. PICK j \in 2 .. Len(a \o s) : /\ (a \o s)[j] = Unlock(m)
                                      /\ \A k \in 2 .. j - 1 : (a \o s)[k] # Lock(m)
      BY <1>2, <2>2 DEF HeldAt
  <2>5. \A k \in 1 .. j - 1 : (a \o s)[k] # Lock(m)
    <3>1. \A k \in 1 .. j - 1 : k = 1 \/ k \in 2 .. j - 1
        OBVIOUS
    <3> QED
        BY <1>1, <2>3, <2>4, <3>1
  <2>6. j \in 1 .. Len(a \o s) /\ (a \o s)[j] = Unlock(m)
      BY <2>3, <2>4
  <2> QED
      BY <2>5, <2>6, Zenon DEF HeldAt
<1> QED
    BY <1>2, <1>6, <1>7

\* What is held when s comes behind the line that is logged before waiting.
LEMMA BehindLine ==
    ASSUME LogLevel \in Int, NEW s, Fine(s), \A n \in Mutexes : HeldAt(s, 1, n) => n = "gLockMutex"
    PROVE  /\ Fine(LOG_VERB \o s)
           /\ \A n \in Mutexes : HeldAt(s, 1, n) => HeldAt(LOG_VERB \o s, 1, n)
<1>1. PICK a \in Seq(StepSet), m \in Mutexes : a = LOG_VERB /\ Above(a, {m}) /\ m = "gLockMutex"
    BY LogsAbove, RanksAre DEF Above, Balanced, Fine
<1>2. s \in Seq(StepSet) /\ Len(s) \in Nat /\ Len(a) \in Nat
    BY DEF Fine
<1>3. \A i \in 1 .. Len(a) : StepFine(a \o s, i)
    BY <1>1, <1>2, FineFront DEF Above, Balanced, Fine
<1>4. Fine(a \o s)
    BY <1>3, FineConcat
<1>5. ASSUME HeldAt(s, 1, m) PROVE HeldAt(a \o s, 1, m)
  <2>1. 1 \in 1 .. Len(s) + 1
      BY <1>2
  <2>2. HeldAt(a \o s, Len(a) + 1, m)
      BY <1>2, <1>5, <2>1, HeldBack
  <2>3. PICK j \in Len(a) + 1 .. Len(a \o s) : /\ (a \o s)[j] = Unlock(m)
                                               /\ \A k \in Len(a) + 1 .. j - 1 : (a \o s)[k] # Lock(m)
      BY <2>2 DEF HeldAt
  <2>4. ASSUME NEW k \in 1 .. Len(a), (a \o s)[k] = Lock(m) PROVE FALSE
    <3>1. a[k] = Lock(m)
        BY <1>2, <2>4, JoinedAt
    <3>2. TakenUnder(m, m)
        BY <1>1, <3>1 DEF Above
    <3> QED
        BY <3>2, NotUnderItself
  <2>5. ASSUME NEW k \in 1 .. j - 1 PROVE (a \o s)[k] # Lock(m)
    <3>1. k \in 1 .. Len(a) \/ k \in Len(a) + 1 .. j - 1
        BY <1>2
    <3> QED
        BY <2>3, <2>4, <3>1
  <2>6. j \in 1 .. Len(a \o s)
      BY <1>2, <2>3
  <2> QED
      BY <2>3, <2>5, <2>6 DEF HeldAt
<1> QED
    BY <1>1, <1>4, <1>5

LEMMA PopFailsKeeps ==
    ASSUME LInv, NEW t \in Threads, popFails(t), LogLevel \in Int
    PROVE  LInv'
<1>1. PICK s : s = todo[t] /\ Fine(s) /\ s # << >>
    BY DEF LInv, popFails
<1>2. todo' = [todo EXCEPT ![t] = LOG_VERB \o (<<Wait>> \o s)] /\ holder' = holder
    BY <1>1 DEF popFails
<1>4. /\ DOMAIN todo' = Threads /\ todo'[t] = LOG_VERB \o (<<Wait>> \o s)
      /\ \A u \in Threads : u # t => todo'[u] = todo[u]
    BY <1>1, <1>2 DEF LInv
<1>5. Head(s) = Pop /\ StepFine(s, 1) /\ s[1] = Pop
    BY <1>1, AfterFirst, StepKinds DEF popFails, Step
<1>6. PICK m \in Mutexes : m = "gLockMutex"
    BY DEF Mutexes
<1>7. /\ HeldAt(s, 2, m) /\ \A n \in Mutexes : HeldAt(s, 1, n) => n = m
  <2>1. 1 + 1 = 2
      OBVIOUS
  <2> QED
      BY <1>5, <1>6, <2>1, Zenon DEF StepFine
<1>8. HeldAt(s, 1, m)
    BY <1>1, <1>5, <1>7, AfterFirst, StepsDiffer
<1>9. PICK w : w = <<Wait>> \o s
    OBVIOUS
<1>10. /\ \A n \in Mutexes : HeldAt(w, 1, n) <=> HeldAt(s, 1, n)
    BY <1>1, <1>9, BehindWait
<1>11. HeldAt(w, 2, m) /\ w[1] = Wait /\ Wait \in StepSet
  <2>1. PICK a \in Seq(StepSet) : a = <<Wait>> /\ Len(a) = 1 /\ a[1] = Wait
    <3>1. <<Wait>> \in Seq(StepSet) /\ Len(<<Wait>>) = 1 /\ <<Wait>>[1] = Wait
        BY DEF StepSet
    <3> QED
        BY <3>1, Zenon
  <2>2. s \in Seq(StepSet) /\ 1 \in 1 .. Len(s) + 1
      BY <1>1 DEF Fine
  <2>3. HeldAt(a \o s, Len(a) + 1, m)
      BY <1>8, <2>2, HeldBack
  <2> QED
      BY <1>9, <2>1, <2>2, <2>3 DEF StepSet
<1>12. StepFine(w, 1)
  <2>1. 1 + 1 = 2
      OBVIOUS
  <2>2. \A n \in Mutexes : w[1] # Lock(n)
      BY <1>11, StepsDiffer
  <2> QED
      BY <1>6, <1>7, <1>10, <1>11, <2>1, <2>2, Zenon DEF StepFine
<1>13. Fine(w)
    BY <1>1, <1>9, <1>11, <1>12, FineBefore
<1>14. \A n \in Mutexes : HeldAt(w, 1, n) => n = "gLockMutex"
    BY <1>6, <1>7, <1>10
<1>15. /\ Fine(LOG_VERB \o w)
       /\ \A n \in Mutexes : HeldAt(w, 1, n) => HeldAt(LOG_VERB \o w, 1, n)
    BY <1>13, <1>14, BehindLine
<1>16. ASSUME NEW u \in Threads, NEW n \in Mutexes, holder'[n] = u
       PROVE  HeldAt(todo'[u], 1, n)
  <2>1. HeldAt(todo[u], 1, n)
      BY <1>2, <1>16 DEF LInv
  <2> QED
      BY <1>1, <1>4, <1>9, <1>10, <1>15, <2>1
<1>17. \A u \in Threads : Fine(todo'[u])
    BY <1>4, <1>9, <1>15 DEF LInv
<1> QED
    BY <1>2, <1>4, <1>16, <1>17 DEF LInv

LEMMA WaitKeeps ==
    ASSUME LInv, NEW t \in Threads, cond_wait(t), Nobody \notin Threads
    PROVE  LInv'
<1>1. PICK s, m, b : /\ s = todo[t] /\ Fine(s) /\ s # << >> /\ m = "gLockMutex" /\ b = Tail(s)
    BY DEF LInv, cond_wait
<1>2. todo' = [todo EXCEPT ![t] = <<Lock(m)>> \o b] /\ holder' = [holder EXCEPT ![m] = Nobody]
    BY <1>1 DEF cond_wait
<1>3. m \in Mutexes
    BY <1>1 DEF Mutexes
<1>4. /\ DOMAIN todo' = Threads /\ todo'[t] = <<Lock(m)>> \o b
      /\ \A u \in Threads : u # t => todo'[u] = todo[u]
      /\ DOMAIN holder' = Mutexes /\ holder'[m] = Nobody
      /\ \A n \in Mutexes : n # m => holder'[n] = holder[n]
    BY <1>2, <1>3 DEF LInv
<1>5. Head(s) = Wait /\ StepFine(s, 1) /\ s[1] = Wait /\ Fine(b)
    BY <1>1, AfterFirst, StepKinds DEF cond_wait, Step
<1>6. \A n \in Mutexes : (HeldAt(b, 1, n) <=> HeldAt(s, 2, n)) /\ (HeldAt(b, 1, n) => HeldAt(s, 1, n))
                         /\ (HeldAt(s, 1, n) => HeldAt(b, 1, n))
    BY <1>1, <1>5, AfterFirst, StepsDiffer
<1>7. /\ HeldAt(s, 2, m) /\ \A n \in Mutexes : HeldAt(s, 1, n) => n = m
  <2>1. 1 + 1 = 2
      OBVIOUS
  <2> QED
      BY <1>1, <1>5, <2>1, Zenon DEF StepFine
<1>8. PICK w : w = <<Lock(m)>> \o b
    OBVIOUS
<1>9. PICK a \in Seq(StepSet) : a = <<Lock(m)>> /\ Len(a) = 1 /\ a[1] = Lock(m)
  <2>1. <<Lock(m)>> \in Seq(StepSet) /\ Len(<<Lock(m)>>) = 1 /\ <<Lock(m)>>[1] = Lock(m)
      BY <1>3 DEF StepSet, Lock
  <2> QED
      BY <2>1, Zenon
<1>10. b \in Seq(StepSet) /\ Len(b) \in Nat /\ w = a \o b
    BY <1>5, <1>8, <1>9 DEF Fine
<1>11. w \in Seq(StepSet) /\ Len(w) \in Nat /\ w[1] = Lock(m)
    BY <1>9, <1>10
<1>12. HeldAt(w, 2, m)
  <2>1. 1 \in 1 .. Len(b) + 1 /\ Len(a) + 1 = 2
      BY <1>9, <1>10
  <2>2. HeldAt(a \o b, Len(a) + 1, m)
      BY <1>3, <1>6, <1>7, <1>10, <2>1, HeldBack
  <2> QED
      BY <1>10, <2>1, <2>2
<1>13. \A n \in Mutexes : ~ HeldAt(w, 1, n)
  <2>1. ASSUME NEW n \in Mutexes, HeldAt(w, 1, n) PROVE FALSE
    <3>1. 1 \in 1 .. Len(a) + 1
        BY <1>9
    <3>2. ~ HeldAt(a, 1, n)
        BY <1>3, <1>9, StepsDiffer DEF HeldAt
    <3>3. HeldAt(b, 1, n)
        BY <1>10, <2>1, <3>1, <3>2, HeldFront
    <3>4. n = m
        BY <1>6, <1>7, <3>3
    <3>5. PICK j \in 1 .. Len(w) : w[j] = Unlock(m) /\ \A k \in 1 .. j - 1 : w[k] # Lock(m)
        BY <2>1, <3>4 DEF HeldAt
    <3>6. j # 1
        BY <1>3, <1>11, <3>5, StepsDiffer
    <3> QED
        BY <1>11, <3>5, <3>6
  <2> QED
      BY <2>1
<1>14. StepFine(w, 1)
  <2>1. w[1] \notin {Pop, Wait} /\ \A n \in Mutexes : w[1] = Lock(n) => n = m
      BY <1>3, <1>11, StepsDiffer
  <2>2. 1 + 1 = 2
      OBVIOUS
  <2> QED
      BY <1>12, <1>13, <2>1, <2>2, Zenon DEF StepFine
<1>15. Fine(w)
  <2>1. Lock(m) \in StepSet
      BY <1>3 DEF StepSet, Lock
  <2> QED
      BY <1>5, <1>8, <1>14, <2>1, FineBefore
<1>16. ASSUME NEW u \in Threads, NEW n \in Mutexes, holder'[n] = u
       PROVE  HeldAt(todo'[u], 1, n)
  <2>1. n # m /\ HeldAt(todo[u], 1, n)
      BY <1>4, <1>16 DEF LInv
  <2>2. u # t
      BY <1>1, <1>7, <2>1
  <2> QED
      BY <1>4, <2>1, <2>2
<1>17. \A u \in Threads : Fine(todo'[u])
    BY <1>4, <1>8, <1>15 DEF LInv
<1> QED
    BY <1>4, <1>16, <1>17 DEF LInv

-----------------------------------------------------------------------------
(* The circles. *)

\* t has a mutex and waits for the log's; t waits for room in the full queue.
LogsHolding(t) ==
    todo[t] # << >> /\ Step(t) = Lock("gLogMutex") /\ \E m \in LogsUnder : holder[m] = t
AwaitsRoom(t) ==
    todo[t] # << >> /\ Step(t).op = "push" /\ queued = QueueRoom

\* Threads that wait for each other in a circle have one of those two among them.
OnlyTheseCloseACircle ==
    \A ring \in (SUBSET Threads) \ {{}} :
        (\A t \in ring : \E u \in ring : WaitsFor(t, u)) =>
            \E t \in ring : LogsHolding(t) \/ AwaitsRoom(t)

\* A thread that another one waits for has a mutex, and waits for one of a
\* higher rank if it waits at all.
LEMMA WaitsUpwards ==
    ASSUME LInv, NEW t \in Threads, NEW u \in Threads, NEW v \in Threads,
           WaitsFor(t, u), WaitsFor(u, v),
           ~ AwaitsRoom(t), ~ AwaitsRoom(u), ~ LogsHolding(u)
    PROVE  /\ Step(t).mutex \in Mutexes /\ Step(u).mutex \in Mutexes
           /\ Rank[Step(t).mutex] < Rank[Step(u).mutex]
<1>1. ASSUME NEW x \in {t, u}, NEW y \in Threads, WaitsFor(x, y)
      PROVE  /\ Step(x).mutex \in Mutexes /\ todo[x] # << >> /\ Fine(todo[x])
             /\ Head(todo[x]) = Lock(Step(x).mutex) /\ holder[Step(x).mutex] = y
  <2>1. todo[x] # << >> /\ Fine(todo[x]) /\ Step(x) = Head(todo[x])
        /\ Step(x).op = "lock" /\ holder[Step(x).mutex] = y
      BY <1>1 DEF WaitsFor, AwaitsRoom, LInv, Step
  <2> QED
      BY <2>1, AfterFirst, StepKinds
<1>2. PICK m \in Mutexes, n \in Mutexes : m = Step(t).mutex /\ n = Step(u).mutex
    BY <1>1
<1>3. HeldAt(todo[u], 1, m)
    BY <1>1, <1>2 DEF LInv
<1>4. StepFine(todo[u], 1) /\ todo[u][1] = Lock(n)
    BY <1>1, <1>2, AfterFirst
<1>5. Rank[m] < Rank[n] \/ (n = "gLogMutex" /\ m \in LogsUnder)
    BY <1>2, <1>3, <1>4 DEF StepFine, TakenUnder
<1>6. ~ (n = "gLogMutex" /\ m \in LogsUnder)
    BY <1>1, <1>2 DEF LogsHolding, Step
<1> QED
    BY <1>2, <1>5, <1>6

LEMMA NoRing ==
    ASSUME LInv
    PROVE  OnlyTheseCloseACircle
<1> SUFFICES ASSUME NEW ring \in SUBSET Threads, ring # {},
                    \A t \in ring : \E u \in ring : WaitsFor(t, u),
                    \A t \in ring : ~ LogsHolding(t) /\ ~ AwaitsRoom(t)
             PROVE  FALSE
    BY DEF OnlyTheseCloseACircle
<1>1. PICK t1 \in ring : TRUE
    OBVIOUS
<1>2. PICK t2 \in ring : WaitsFor(t1, t2)
    OBVIOUS
<1>3. PICK t3 \in ring : WaitsFor(t2, t3)
    OBVIOUS
<1>4. PICK t4 \in ring : WaitsFor(t3, t4)
    OBVIOUS
<1>5. PICK t5 \in ring : WaitsFor(t4, t5)
    OBVIOUS
<1>6. PICK t6 \in ring : WaitsFor(t5, t6)
    OBVIOUS
<1>7. /\ {Step(t1).mutex, Step(t2).mutex, Step(t3).mutex, Step(t4).mutex, Step(t5).mutex}
           \subseteq Mutexes
      /\ Rank[Step(t1).mutex] < Rank[Step(t2).mutex] /\ Rank[Step(t2).mutex] < Rank[Step(t3).mutex]
      /\ Rank[Step(t3).mutex] < Rank[Step(t4).mutex] /\ Rank[Step(t4).mutex] < Rank[Step(t5).mutex]
    BY <1>2, <1>3, <1>4, <1>5, <1>6, WaitsUpwards
<1> QED
    BY <1>7, RankIs

\* At every log level, when threads wait for each other in a circle one of them
\* waits for the log with a mutex in hand (gFSMutex from level 3 on, as fs_insert
\* does at file_system.c:155, and at level 5 also gLockMutex, server.c:610), or for
\* room in the full lock queue; all other mutexes are taken in one order.
THEOREM CirclesCloseAtALogOrAPush ==
    ASSUME LogLevel \in Int, Nobody \notin Threads
    PROVE  Spec => []OnlyTheseCloseACircle
<1>1. Init => LInv
    BY LInvInit
<1>2. LInv /\ [Next]_vars => LInv'
  <2> SUFFICES ASSUME LInv, [Next]_vars PROVE LInv'
      OBVIOUS
  <2>1. CASE UNCHANGED vars
      BY <2>1 DEF vars, LInv
  <2>2. ASSUME NEW t \in Threads, Begin(t) PROVE LInv'
      BY <2>2, BeginKeeps
  <2>3. ASSUME NEW t \in Threads, lock_mutex(t) PROVE LInv'
      BY <2>3, LockKeeps
  <2>4. ASSUME NEW t \in Threads, unlock_mutex(t) PROVE LInv'
      BY <2>4, UnlockKeeps
  <2>5. ASSUME NEW t \in Threads, tryPush(t) \/ tryPop(t) PROVE LInv'
      BY <2>5, QueueKeeps
  <2>6. ASSUME NEW t \in Threads, popFails(t) PROVE LInv'
      BY <2>6, PopFailsKeeps
  <2>7. ASSUME NEW t \in Threads, cond_wait(t) PROVE LInv'
      BY <2>7, WaitKeeps
  <2> QED
      BY <2>1, <2>2, <2>3, <2>4, <2>5, <2>6, <2>7 DEF Next
<1>3. LInv => OnlyTheseCloseACircle
    BY NoRing
<1> QED
    BY <1>1, <1>2, <1>3, PTL DEF Spec
=============================================================================
