---------------------------- MODULE ServerProofs ----------------------------
(***************************************************************************)
(* Proofs for FileSystem, for the LockService it implements, and for       *)
(* Server, which is built on it.                                           *)
(*                                                                         *)
(* Of the file system: the types, the agreement of the list with the hash  *)
(* table, the limits, and the discipline of the locks; that the byte       *)
(* counter is exact without appends, that ejection follows use, and what   *)
(* fs_obtain_n returns.                                                    *)
(*                                                                         *)
(* The inductive invariant is the conjunction of the first five: CanCall   *)
(* keeps a client from waiting twice only while BlockedOnce holds, the     *)
(* limits need the list to be as long as the slot counter says, and        *)
(* handing a lock over keeps its discipline only because a waiter waits in *)
(* one place.  The byte counter has an invariant of its own on top of that *)
(* one: it is the sum of the sizes along the list.                         *)
(*                                                                         *)
(* The file system implements LockService: every step from a state with    *)
(* IInv is a step of the lock service, or one it does not see (reading,    *)
(* using and changing contents).  IInv is needed three times: the ejected  *)
(* files' waiters are all told because the slot limit and the byte limit   *)
(* never eject in one step; a new owner is a client because the queues     *)
(* hold clients; an answer that is taken is gone because each client has   *)
(* at most one.                                                            *)
(*                                                                         *)
(* Of the requests as the workers handle them, for any clients, files and  *)
(* limits: locks are recorded in the sessions of their owners, and a       *)
(* client that waits is served by nobody else.  A request is two steps     *)
(* with other clients' requests between them, and a lock changes hands in  *)
(* a step of its former owner.  So the invariant speaks of waiters as      *)
(* well: who waits has what it takes to own the lock (a record, or an      *)
(* exception noted), is not in the middle of a request, and has its        *)
(* session.  What a step of one client leaves to the others follows from   *)
(* the abstract lock service (OnlyGains).                                  *)
(***************************************************************************)
EXTENDS Server, SequenceLemmas

IInv ==
    /\ TypeOK
    /\ ListMatchesTable
    /\ CountedWithinLimits
    /\ WaitersHaveOwner
    /\ BlockedOnce

-----------------------------------------------------------------------------
(* The parts of IInv as facts of a table t, a list l and a queue q, to     *)
(* speak of the values updateCacheSize starts from.                        *)
TableOK(t) ==
    /\ DOMAIN t \subseteq Keys
    /\ t \in [DOMAIN t -> Entry]
    /\ \A k \in DOMAIN t : KeyOf[t[k].name] = k

ListOK(t, l) ==
    /\ l \in Seq(Keys)
    /\ IsInjective(l)
    /\ Range(l) = DOMAIN t

InQueue(q, c) == \E i \in DOMAIN q : q[i].fd = c
OneNoticeEach(q) == \A i, j \in DOMAIN q : q[i].fd = q[j].fd => i = j

WaitersOK(t) ==
    /\ \A k \in DOMAIN t : t[k].waiting # << >> => t[k].owner # EmptyOwner
    /\ \A k, l \in DOMAIN t : \A i \in DOMAIN t[k].waiting :
         \A j \in DOMAIN t[l].waiting :
            t[k].waiting[i] = t[l].waiting[j] => k = l /\ i = j
    /\ \A k \in DOMAIN t : \A i \in DOMAIN t[k].waiting :
            t[k].owner # t[k].waiting[i]

NoneNotified(t, q) ==
    \A k \in DOMAIN t : \A i \in DOMAIN t[k].waiting : ~InQueue(q, t[k].waiting[i])

LocksOK(t, q) == WaitersOK(t) /\ OneNoticeEach(q) /\ NoneNotified(t, q)

Parts ==
    /\ TableOK(table) /\ ListOK(table, lru) /\ LocksOK(table, lockQueue)
    /\ slotUsed = Len(lru)
    /\ CountedWithinLimits
    /\ bytesUsed \in Int
    /\ lockQueue \in Seq(Notice)
    /\ toClean \in Seq([client : Clients, key : Keys])
    /\ appends \in 0..MaxAppends

LEMMA IInvParts == IInv <=> Parts
<1>1. BlockedOnce /\ WaitersHaveOwner <=> LocksOK(table, lockQueue)
    BY DEF BlockedOnce, WaitersHaveOwner, LocksOK, WaitersOK, OneNoticeEach,
           NoneNotified, InQueue, Notified
<1>2. TypeOK /\ ListMatchesTable <=>
             /\ TableOK(table) /\ ListOK(table, lru)
             /\ slotUsed = Len(lru)
             /\ bytesUsed \in Int
             /\ lockQueue \in Seq(Notice)
             /\ toClean \in Seq([client : Clients, key : Keys])
             /\ appends \in 0..MaxAppends
  <2>1. lru \in Seq(Keys) => Len(lru) \in Int
      OBVIOUS
  <2> QED
      BY <2>1 DEF TypeOK, ListMatchesTable, TableOK, ListOK
<1> QED
    BY <1>1, <1>2 DEF IInv, Parts

-----------------------------------------------------------------------------
(* Notifications for clients that have none, each for one, keep a queue    *)
(* without duplicates.                                                     *)
LEMMA QueueMore ==
    ASSUME NEW q \in Seq(Notice), NEW r \in Seq(Notice),
           OneNoticeEach(q), OneNoticeEach(r),
           \A i \in DOMAIN r : ~InQueue(q, r[i].fd)
    PROVE  /\ q \o r \in Seq(Notice)
           /\ OneNoticeEach(q \o r)
           /\ \A c : InQueue(q \o r, c) => InQueue(q, c) \/ InQueue(r, c)
<1> DEFINE s == q \o r
           InQ(p) == p \in DOMAIN q /\ s[p] = q[p]
           InR(p) == p - Len(q) \in DOMAIN r /\ s[p] = r[p - Len(q)] /\ p \in Int
<1>1. \A p \in DOMAIN s : InQ(p) \/ InR(p)
    BY ConcatElements
<1>2. s \in Seq(Notice)
    BY ConcatProperties
<1> HIDE DEF s
<1>3. ASSUME NEW i \in DOMAIN s, NEW j \in DOMAIN s, s[i].fd = s[j].fd
      PROVE  i = j
  <2>1. CASE InQ(i) /\ InQ(j)
      BY <1>3, <2>1 DEF OneNoticeEach
  <2>2. CASE InR(i) /\ InR(j)
    <3>1. i - Len(q) = j - Len(q)
        BY <1>3, <2>2 DEF OneNoticeEach
    <3> QED
        BY <2>2, <3>1, SeqIsFunction
  <2>3. ~(InQ(i) /\ InR(j)) /\ ~(InR(i) /\ InQ(j))
      BY <1>3 DEF InQueue
  <2> QED
      BY <1>1, <2>1, <2>2, <2>3
<1>4. \A c : InQueue(s, c) => InQueue(q, c) \/ InQueue(r, c)
    BY <1>1 DEF InQueue
<1> QED
    BY <1>2, <1>3, <1>4 DEF OneNoticeEach, s

(* The notifications of a file's waiters are one for each. *)
LEMMA NoticesToType ==
    ASSUME NEW w \in Seq(Clients), NEW status \in {OK, NOT_EXISTS}
    PROVE  /\ NoticesTo(w, status) \in Seq(Notice)
           /\ DOMAIN NoticesTo(w, status) = DOMAIN w
           /\ \A i \in DOMAIN w :
                 NoticesTo(w, status)[i] = [fd |-> w[i], status |-> status]
<1>1. PICK n \in Nat : DOMAIN w = 1..n /\ w \in [1..n -> Clients]
    BY SeqIsFunction
<1>2. NoticesTo(w, status) \in [1..n -> Notice]
    BY <1>1 DEF NoticesTo, Notice
<1>3. NoticesTo(w, status) \in Seq(Notice)
    BY <1>2, IsASeq
<1> QED
    BY <1>1, <1>3 DEF NoticesTo

(* Linking a file in at the head keeps the list free of duplicates. *)
LEMMA MoveToTopList ==
    ASSUME lru \in Seq(Keys), IsInjective(lru), NEW k \in Keys
    PROVE  /\ moveToTop(k) \in Seq(Keys)
           /\ IsInjective(moveToTop(k))
           /\ Range(moveToTop(k)) = Range(lru) \cup {k}
           /\ Len(moveToTop(k)) = IF k \in Range(lru) THEN Len(lru) ELSE Len(lru) + 1
<1>1. CASE k \notin Range(lru)
  <2>1. moveToTop(k) = Append(lru, k)
      BY <1>1 DEF moveToTop, Range
  <2> QED
      BY <1>1, <2>1, AppendInjective2
<1>2. CASE k \in Range(lru)
  <2> DEFINE i == CHOOSE j \in DOMAIN lru : lru[j] = k
             rest == SubSeq(lru, 1, i - 1) \o SubSeq(lru, i + 1, Len(lru))
  <2>1. i \in 1..Len(lru) /\ lru[i] = k
    <3>1. \E j \in DOMAIN lru : lru[j] = k
        BY <1>2 DEF Range
    <3>2. i \in DOMAIN lru /\ lru[i] = k
        BY <3>1
    <3> QED
        BY <3>2, SeqIsFunction
  <2>2. moveToTop(k) = Append(rest, k)
      BY <1>2 DEF moveToTop, Range
  <2> HIDE DEF i
  <2>3. /\ rest \in Seq(Keys) /\ Len(rest) = Len(lru) - 1
        /\ IsInjective(rest)
        /\ Range(rest) = Range(lru) \ {k}
      BY <2>1, RemoveAtInjective
  <2> HIDE DEF rest
  <2>4. k \notin Range(rest)
      BY <2>3
  <2>5. /\ Append(rest, k) \in Seq(Keys) /\ Len(Append(rest, k)) = Len(rest) + 1
        /\ IsInjective(Append(rest, k))
        /\ Range(Append(rest, k)) = Range(rest) \cup {k}
      BY <2>3, <2>4, AppendInjective2
  <2>6. Len(lru) \in Nat
      OBVIOUS
  <2> QED
      BY <1>2, <2>2, <2>3, <2>5, <2>6
<1> QED
    BY <1>1, <1>2

(* What is left of the list when its first m files go, and the table       *)
(* without them.                                                           *)
LEMMA DropFirst ==
    ASSUME NEW t, NEW l, TableOK(t), ListOK(t, l), NEW m \in 0..Len(l)
    PROVE  LET gone == {l[i] : i \in 1..m}
               rest == SubSeq(l, m + 1, Len(l))
               left == [k \in DOMAIN t \ gone |-> t[k]]
           IN  TableOK(left) /\ ListOK(left, rest) /\ Len(rest) = Len(l) - m
<1> DEFINE gone == {l[i] : i \in 1..m}
           rest == SubSeq(l, m + 1, Len(l))
           left == [k \in DOMAIN t \ gone |-> t[k]]
<1>1. PICK n \in Nat : n = Len(l) /\ DOMAIN l = 1..n /\ l \in [1..n -> Keys]
    BY SeqIsFunction DEF ListOK
<1>2. TableOK(left)
    BY DEF TableOK
<1>3. /\ rest \in Seq(Keys) /\ Len(rest) = n - m
      /\ \A i \in 1..(n-m) : rest[i] = l[m+i]
  <2>1. m + 1 \in Int /\ n \in Int /\ \A x \in (m+1)..n : l[x] \in Keys
      BY <1>1
  <2>2. rest = SubSeq(l, m + 1, n)
      BY <1>1
  <2> HIDE DEF rest
  <2>3. rest \in Seq(Keys)
      BY <2>1, <2>2, SubSeqProperties
  <2>4. Len(rest) = IF m + 1 <= n THEN n - (m + 1) + 1 ELSE 0
      BY <2>1, <2>2, SubSeqProperties
  <2>5. \A i \in 1..(n-(m+1)+1) : rest[i] = l[(m+1)+i-1]
      BY <2>1, <2>2, SubSeqProperties
  <2>6. n - (m + 1) + 1 = n - m /\ \A i \in 1..(n-m) : (m+1)+i-1 = m + i
      BY <1>1
  <2>7. Len(rest) = n - m
    <3>1. m \in 0..n /\ Len(rest) \in Nat
        BY <1>1, <2>3
    <3> QED
        BY <2>4, <2>6, <3>1
  <2>8. ASSUME NEW i \in 1..(n-m) PROVE rest[i] = l[m+i]
      BY <2>5, <2>6
  <2> QED
      BY <2>3, <2>7, <2>8
<1> HIDE DEF rest
<1>4. DOMAIN rest = 1..(n-m)
    BY <1>3, SeqIsFunction
<1>5. \A i \in 1..(n-m) : m + i \in DOMAIN l /\ m + i \notin 1..m
    BY <1>1
<1>6. IsInjective(rest)
  <2> SUFFICES ASSUME NEW i \in 1..(n-m), NEW k \in 1..(n-m), rest[i] = rest[k]
               PROVE  i = k
      BY <1>4 DEF IsInjective
  <2>1. m + i = m + k
      BY <1>3, <1>5 DEF ListOK, IsInjective
  <2> QED
      BY <2>1
<1>7. Range(rest) \subseteq DOMAIN left
  <2> SUFFICES ASSUME NEW i \in 1..(n-m) PROVE rest[i] \in DOMAIN t /\ rest[i] \notin gone
      BY <1>4 DEF Range
  <2>1. rest[i] = l[m+i] /\ m + i \in DOMAIN l /\ m + i \notin 1..m
      BY <1>3, <1>5
  <2>2. rest[i] \in DOMAIN t
      BY <2>1 DEF ListOK, Range
  <2>3. \A x \in 1..m : x \in DOMAIN l
      BY <1>1
  <2>4. rest[i] \notin gone
      BY <2>1, <2>3 DEF ListOK, IsInjective
  <2> QED
      BY <2>2, <2>4
<1>8. DOMAIN left \subseteq Range(rest)
  <2> SUFFICES ASSUME NEW k \in DOMAIN t, k \notin gone PROVE k \in Range(rest)
      OBVIOUS
  <2>1. PICK x \in 1..n : l[x] = k
      BY <1>1 DEF ListOK, Range
  <2>2. x \notin 1..m
      BY <2>1
  <2>3. x - m \in 1..(n-m) /\ m + (x - m) = x
      BY <2>2
  <2>4. rest[x-m] = k
      BY <1>3, <2>1, <2>3
  <2> QED
      BY <1>4, <2>3, <2>4 DEF Range
<1> QED
    BY <1>1, <1>2, <1>3, <1>6, <1>7, <1>8 DEF ListOK, rest

-----------------------------------------------------------------------------
(* Telling the waiters of ejected files keeps the lock discipline of the   *)
(* files that stay.                                                        *)
LEMMA EjectNotices ==
    ASSUME NEW tbl, NEW gone, NEW told \in Seq(Keys), NEW q \in Seq(Notice),
           IsInjective(told), Range(told) \subseteq gone,
           Range(told) \subseteq DOMAIN tbl, TableOK(tbl), LocksOK(tbl, q)
    PROVE  LET more == FlattenSeq([i \in DOMAIN told |->
                           NoticesTo(tbl[told[i]].waiting, NOT_EXISTS)])
               left == [k \in DOMAIN tbl \ gone |-> tbl[k]]
           IN  q \o more \in Seq(Notice) /\ LocksOK(left, q \o more)
<1> DEFINE ss == [i \in DOMAIN told |-> NoticesTo(tbl[told[i]].waiting, NOT_EXISTS)]
           left == [k \in DOMAIN tbl \ gone |-> tbl[k]]
           W(i) == tbl[told[i]].waiting
<1>0. PICK n \in Nat : n = Len(told) /\ DOMAIN told = 1..n
    BY SeqIsFunction
<1>1. ASSUME NEW i \in DOMAIN told
      PROVE  told[i] \in gone /\ told[i] \in DOMAIN tbl /\ W(i) \in Seq(Clients)
    BY DEF TableOK, Range, Entry
<1>2. ASSUME NEW i \in DOMAIN told
      PROVE  /\ ss[i] \in Seq(Notice) /\ DOMAIN ss[i] = DOMAIN W(i)
             /\ \A j \in DOMAIN W(i) : ss[i][j] = [fd |-> W(i)[j], status |-> NOT_EXISTS]
  <2>1. ss[i] = NoticesTo(W(i), NOT_EXISTS)
      OBVIOUS
  <2> HIDE DEF ss, W
  <2> QED
      BY <1>1, <2>1, NoticesToType
<1>3. ss \in Seq(Seq(Notice)) /\ Len(ss) = n /\ DOMAIN ss = DOMAIN told
  <2>1. ss \in [1..n -> Seq(Notice)]
      BY <1>0, <1>2
  <2>2. DOMAIN ss = DOMAIN told
      OBVIOUS
  <2> HIDE DEF ss
  <2>3. ss \in Seq(Seq(Notice))
      BY <2>1, IsASeq
  <2> QED
      BY <1>0, <2>1, <2>2, <2>3
<1> HIDE DEF ss
<1>4. ASSUME NEW i \in DOMAIN told, NEW k \in DOMAIN told,
             NEW j \in DOMAIN ss[i], NEW h \in DOMAIN ss[k],
             ss[i][j].fd = ss[k][h].fd
      PROVE  i = k /\ j = h
  <2>1. W(i)[j] = W(k)[h] /\ j \in DOMAIN W(i) /\ h \in DOMAIN W(k)
    <3> HIDE DEF W
    <3>1. j \in DOMAIN W(i) /\ ss[i][j] = [fd |-> W(i)[j], status |-> NOT_EXISTS]
        BY <1>2
    <3>2. h \in DOMAIN W(k) /\ ss[k][h] = [fd |-> W(k)[h], status |-> NOT_EXISTS]
        BY <1>2
    <3> QED
        BY <1>4, <3>1, <3>2
  <2>2. told[i] = told[k] /\ j = h
      BY <1>1, <2>1 DEF LocksOK, WaitersOK
  <2> QED
      BY <2>2 DEF IsInjective
<1>5. PICK more : more = FlattenSeq(ss)
    OBVIOUS
<1>6. more \in Seq(Notice) /\ ComesFrom(more, ss, n) /\ IsInjective(more)
  <2>1. \A i, k \in DOMAIN ss : \A j \in DOMAIN ss[i], h \in DOMAIN ss[k] :
           ss[i][j] = ss[k][h] => i = k /\ j = h
      BY <1>3, <1>4
  <2> QED
      BY <1>3, <1>5, <2>1, FlattenSeqDistinct
<1>7. ASSUME NEW p \in DOMAIN more
      PROVE  \E i \in DOMAIN told : \E j \in DOMAIN W(i) :
                more[p] = [fd |-> W(i)[j], status |-> NOT_EXISTS]
  <2> HIDE DEF W
  <2>1. PICK i \in 1..n : \E j \in DOMAIN ss[i] : more[p] = ss[i][j]
      BY <1>6 DEF ComesFrom
  <2> QED
      BY <1>0, <1>2, <2>1
<1>8. OneNoticeEach(more)
  <2> SUFFICES ASSUME NEW p \in DOMAIN more, NEW r \in DOMAIN more, more[p].fd = more[r].fd
               PROVE  p = r
      BY DEF OneNoticeEach
  <2>1. more[p] = more[r]
      BY <1>7
  <2> QED
      BY <1>6, <2>1 DEF IsInjective
<1>9. ASSUME NEW p \in DOMAIN more PROVE ~InQueue(q, more[p].fd)
  <2>1. PICK i \in DOMAIN told : \E j \in DOMAIN W(i) : more[p].fd = W(i)[j]
      BY <1>7
  <2> QED
      BY <1>1, <2>1 DEF LocksOK, NoneNotified
<1>10. /\ q \o more \in Seq(Notice) /\ OneNoticeEach(q \o more)
       /\ \A c : InQueue(q \o more, c) => InQueue(q, c) \/ InQueue(more, c)
    BY <1>6, <1>8, <1>9, QueueMore DEF LocksOK
<1>11. NoneNotified(left, q \o more)
  <2> SUFFICES ASSUME NEW k \in DOMAIN tbl \ gone, NEW h \in DOMAIN tbl[k].waiting,
                      InQueue(q \o more, tbl[k].waiting[h])
               PROVE  FALSE
      BY DEF NoneNotified
  <2>1. InQueue(more, tbl[k].waiting[h])
      BY <1>10 DEF LocksOK, NoneNotified
  <2>2. PICK p \in DOMAIN more : more[p].fd = tbl[k].waiting[h]
      BY <2>1 DEF InQueue
  <2>3. PICK i \in DOMAIN told : \E j \in DOMAIN W(i) : more[p].fd = W(i)[j]
      BY <1>7
  <2>4. k = told[i]
      BY <1>1, <2>2, <2>3 DEF LocksOK, WaitersOK
  <2> QED
      BY <1>1, <2>4
<1>12. WaitersOK(left)
    BY DEF LocksOK, WaitersOK
<1> HIDE DEF left
<1> QED
    BY <1>5, <1>10, <1>11, <1>12 DEF LocksOK, ss, left

\* What the clients are told who wait for the files gone of a table t.
Refusals(t, gone) ==
    UNION {{[fd |-> c, status |-> NOT_EXISTS] : c \in Range(t[k].waiting)} : k \in gone}

\* The files gone leave the table t, and their waiters will be told.
Leave(t, gone) ==
    /\ gone \subseteq DOMAIN t
    /\ table' = [k \in DOMAIN t \ gone |-> t[k]]
    /\ Range(lockQueue') = Range(lockQueue) \cup Refusals(t, gone)
    /\ \E more \in Seq(Notice) : lockQueue' = lockQueue \o more

\* The call may change the file of slot k, but not its lock, and then some
\* files leave.
LockStays(k) ==
    \E e : /\ e.owner = table[k].owner /\ e.waiting = table[k].waiting
           /\ \E gone : Leave([table EXCEPT ![k] = e], gone)

(* Nobody who waits for an ejected file is left out, nobody else is told. *)
LEMMA EjectTellsAll ==
    ASSUME NEW tbl, NEW told \in Seq(Keys), NEW q \in Seq(Notice),
           Range(told) \subseteq DOMAIN tbl, TableOK(tbl)
    PROVE  LET more == FlattenSeq([i \in DOMAIN told |->
                           NoticesTo(tbl[told[i]].waiting, NOT_EXISTS)])
           IN  /\ Range(q \o more) = Range(q) \cup Refusals(tbl, Range(told))
               /\ more \in Seq(Notice)
<1> DEFINE ss == [i \in DOMAIN told |-> NoticesTo(tbl[told[i]].waiting, NOT_EXISTS)]
           W(i) == tbl[told[i]].waiting
           R(i) == {[fd |-> c, status |-> NOT_EXISTS] : c \in Range(W(i))}
<1>0. PICK n \in Nat : n = Len(told) /\ DOMAIN told = 1..n
    BY SeqIsFunction
<1>1. ASSUME NEW i \in DOMAIN told PROVE W(i) \in Seq(Clients)
    BY DEF TableOK, Range, Entry
<1>2. ASSUME NEW i \in DOMAIN told
      PROVE  ss[i] \in Seq(Notice) /\ Range(ss[i]) = R(i)
  <2>1. ss[i] = NoticesTo(W(i), NOT_EXISTS)
      OBVIOUS
  <2> HIDE DEF ss, W
  <2>2. /\ ss[i] \in Seq(Notice) /\ DOMAIN ss[i] = DOMAIN W(i)
        /\ \A j \in DOMAIN W(i) : ss[i][j] = [fd |-> W(i)[j], status |-> NOT_EXISTS]
      BY <1>1, <2>1, NoticesToType
  <2> QED
      BY <2>2 DEF Range
<1>3. ss \in Seq(Seq(Notice)) /\ Len(ss) = n
  <2>1. ss \in [1..n -> Seq(Notice)]
      BY <1>0, <1>2
  <2> HIDE DEF ss
  <2>2. ss \in Seq(Seq(Notice))
      BY <2>1, IsASeq
  <2> QED
      BY <2>1, <2>2
<1> HIDE DEF ss
<1>4. PICK more : more = FlattenSeq(ss)
    OBVIOUS
<1>5. more \in Seq(Notice) /\ HasAllOf(more, ss, n)
  <2>1. PICK f \in [0..Len(ss) -> Seq(Notice)] : FlattenSeq(ss) = f[Len(ss)]
      BY <1>3, FlattenSeqDef
  <2>2. Len(ss) \in 0..Len(ss)
      BY <1>3
  <2>3. HasAllOf(FlattenSeq(ss), ss, Len(ss))
      BY <1>3, FlattenSeqRange
  <2> QED
      BY <1>3, <1>4, <2>1, <2>2, <2>3
<1>6. Range(more) = Refusals(tbl, Range(told))
  <2>1. ASSUME NEW x, x \in Range(more) PROVE x \in Refusals(tbl, Range(told))
    <3>1. PICK i \in DOMAIN told : x \in R(i)
        BY <1>0, <1>2, <1>5, <2>1 DEF HasAllOf
    <3> QED
        BY <3>1 DEF Refusals, Range
  <2>2. ASSUME NEW x, x \in Refusals(tbl, Range(told)) PROVE x \in Range(more)
    <3>1. PICK k \in Range(told) :
             x \in {[fd |-> c, status |-> NOT_EXISTS] : c \in Range(tbl[k].waiting)}
        BY <2>2 DEF Refusals
    <3>2. PICK i \in DOMAIN told : told[i] = k
        BY DEF Range
    <3>3. x \in R(i)
        BY <3>1, <3>2
    <3> QED
        BY <1>0, <1>2, <1>5, <3>3 DEF HasAllOf
  <2> QED
      BY <2>1, <2>2
<1>7. Range(q \o more) = Range(q) \cup Range(more)
    BY <1>5, ConcatRange
<1> QED
    BY <1>4, <1>5, <1>6, <1>7 DEF ss

(* The first m elements of a sequence. *)
LEMMA FirstOf ==
    ASSUME NEW S, NEW l \in Seq(S), IsInjective(l), NEW m \in 0..Len(l)
    PROVE  LET s == SubSeq(l, 1, m)
           IN  /\ s \in Seq(S) /\ IsInjective(s)
               /\ Range(s) = {l[i] : i \in 1..m}
<1>1. PICK n \in Nat : n = Len(l) /\ DOMAIN l = 1..n /\ l \in [1..n -> S]
    BY SeqIsFunction
<1>2. PICK s : s = SubSeq(l, 1, m)
    OBVIOUS
<1>3. s \in Seq(S) /\ Len(s) = m /\ \A i \in 1..m : s[i] = l[i]
  <2>1. 1 \in 1..(Len(l) + 1) /\ m \in (1 - 1)..Len(l)
      BY <1>1
  <2> QED
      BY <1>1, <1>2, <2>1, SubSeqProperties
<1>4. DOMAIN s = 1..m
    BY <1>3, SeqIsFunction
<1>5. \A i \in 1..m : i \in DOMAIN l
    BY <1>1
<1>6. IsInjective(s)
    BY <1>3, <1>4, <1>5 DEF IsInjective
<1>7. Range(s) = {l[i] : i \in 1..m}
    BY <1>3, <1>4 DEF Range
<1> QED
    BY <1>2, <1>3, <1>6, <1>7

(* updateCacheSize keeps all of it, started with at most one slot too many. *)
LEMMA EjectKeeps ==
    ASSUME NEW tbl, NEW order, NEW bytes \in Int,
           TableOK(tbl), ListOK(tbl, order), LocksOK(tbl, lockQueue),
           lockQueue \in Seq(Notice), Len(order) <= MaxSlots + 1,
           updateCacheSize(tbl, order, bytes, Len(order))
    PROVE  /\ TableOK(table') /\ ListOK(table', lru') /\ LocksOK(table', lockQueue')
           /\ slotUsed' = Len(lru')
           /\ CountedWithinLimits'
           /\ bytesUsed' \in Int
           /\ lockQueue' \in Seq(Notice)
           /\ \E gone : Leave(tbl, gone)
<1> DEFINE w == [i \in DOMAIN order |-> SizeOf(tbl[order[i]])]
           dropped == PrefixSums(w)
           over(i) == bytes - dropped[i] > MaxBytes
<1>0. PICK len \in Nat : /\ len = Len(order) /\ DOMAIN order = 1..len
                         /\ order \in [1..len -> Keys]
    BY SeqIsFunction DEF ListOK
<1>1. w \in [1..len -> Nat]
  <2> SUFFICES ASSUME NEW i \in 1..len PROVE SizeOf(tbl[order[i]]) \in Nat
      BY <1>0
  <2>1. order[i] \in DOMAIN tbl
      BY <1>0 DEF ListOK, Range
  <2>2. tbl[order[i]] \in Entry
      BY <2>1 DEF TableOK
  <2>3. NameLen \in [Names -> Nat]
      BY ConstantsAssumption
  <2> QED
      BY <2>2, <2>3 DEF SizeOf, Entry
<1>2. w \in Seq(Int) /\ Len(w) = len
  <2> HIDE DEF w
  <2>1. w \in [1..len -> Int]
      BY <1>1
  <2> QED
      BY <2>1, IsASeq
<1> HIDE DEF w
<1>3. /\ dropped \in [0..len -> Int]
      /\ dropped[0] = 0
      /\ \A i \in 1..len : dropped[i] = dropped[i-1] + w[i]
    BY <1>2, PrefixSumsDef, Zenon
<1>4. PICK n \in 0..len :
          /\ n = len \/ ~over(n)
          /\ LET tooMany == TooManySlots(len - n)
                 m == IF tooMany THEN n + 1 ELSE n
                 gone == {order[i] : i \in 1..m}
                 told == IF tooMany THEN <<order[m]>> ELSE SubSeq(order, 1, m)
             IN  /\ table' = [k \in DOMAIN tbl \ gone |-> tbl[k]]
                 /\ lru' = SubSeq(order, m + 1, Len(order))
                 /\ bytesUsed' = bytes - dropped[m]
                 /\ slotUsed' = len - m
                 /\ lockQueue' = lockQueue \o FlattenSeq(
                        [i \in DOMAIN told |->
                            NoticesTo(tbl[told[i]].waiting, NOT_EXISTS)])
    BY <1>0, Zenon DEF updateCacheSize, w
<1> DEFINE tooMany == TooManySlots(len - n)
           m == IF tooMany THEN n + 1 ELSE n
           gone == {order[i] : i \in 1..m}
           told == IF tooMany THEN <<order[m]>> ELSE SubSeq(order, 1, m)
<1>5. MaxSlots \in Nat /\ MaxSlots # 0 /\ MaxBytes \in Nat
    BY ConstantsAssumption
<1>6. tooMany => n = 0 /\ len > 1
    BY <1>0, <1>5 DEF TooManySlots
<1>7. m \in 0..len
    BY <1>6
<1>8. /\ told \in Seq(Keys) /\ IsInjective(told)
      /\ Range(told) = gone /\ Range(told) \subseteq DOMAIN tbl
  <2>1. CASE tooMany
    <3>1. m = 1 /\ order[1] \in Keys /\ order[1] \in DOMAIN tbl
        BY <1>0, <1>6, <2>1 DEF ListOK, Range
    <3>2. told = <<order[1]>>
        BY <2>1, <3>1
    <3>3. told \in Seq(Keys) /\ DOMAIN told = {1} /\ told[1] = order[1]
        BY <3>1, <3>2
    <3>4. gone = {order[1]}
        BY <3>1
    <3> HIDE DEF told, gone
    <3> QED
        BY <3>1, <3>3, <3>4 DEF IsInjective, Range
  <2>2. CASE ~tooMany
    <3> DEFINE s == SubSeq(order, 1, m)
    <3>1. told = s
        BY <2>2
    <3>2. gone \subseteq Range(order)
        BY <1>0, <1>7 DEF Range
    <3> HIDE DEF told, m, tooMany
    <3>3. m \in 0..Len(order)
        BY <1>0, <1>7
    <3>4. s \in Seq(Keys) /\ IsInjective(s) /\ Range(s) = {order[i] : i \in 1..m}
        BY <3>3, FirstOf DEF ListOK
    <3> QED
        BY <3>1, <3>2, <3>4 DEF ListOK
  <2> QED
      BY <2>1, <2>2
<1>9. /\ table' = [k \in DOMAIN tbl \ gone |-> tbl[k]]
      /\ lru' = SubSeq(order, m + 1, Len(order))
      /\ bytesUsed' = bytes - dropped[m]
      /\ slotUsed' = len - m
      /\ lockQueue' = lockQueue \o FlattenSeq(
             [i \in DOMAIN told |-> NoticesTo(tbl[told[i]].waiting, NOT_EXISTS)])
    BY <1>4
<1>10. /\ lockQueue' \in Seq(Notice) /\ LocksOK(table', lockQueue')
       /\ Leave(tbl, gone)
  <2> HIDE DEF told, gone
  <2>1. lockQueue' \in Seq(Notice) /\ LocksOK(table', lockQueue')
      BY <1>8, <1>9, EjectNotices
  <2>2. /\ Range(lockQueue') = Range(lockQueue) \cup Refusals(tbl, Range(told))
        /\ \E more \in Seq(Notice) : lockQueue' = lockQueue \o more
      BY <1>8, <1>9, EjectTellsAll, Zenon
  <2> QED
      BY <1>8, <1>9, <2>1, <2>2 DEF Leave
<1>11. TableOK(table') /\ ListOK(table', lru') /\ Len(lru') = len - m
  <2>1. m \in 0..Len(order)
      BY <1>0, <1>7
  <2> HIDE DEF m
  <2> QED
      BY <1>0, <1>9, <2>1, DropFirst, Zenon
<1> HIDE DEF told, gone, dropped
<1>12. bytesUsed' \in Int
    BY <1>3, <1>7, <1>9
<1>13. slotUsed' <= MaxSlots
    BY <1>0, <1>5, <1>6, <1>9 DEF TooManySlots
<1>14. lru' # << >> => bytesUsed' <= MaxBytes
  <2>0. m = len => lru' = << >>
    <3>1. lru' \in Seq(Keys) /\ (m = len => Len(lru') = 0)
        BY <1>11 DEF ListOK
    <3> QED
        BY <3>1
  <2> SUFFICES ASSUME m # len PROVE bytes - dropped[m] <= MaxBytes
      BY <1>9, <2>0
  <2>1. CASE ~tooMany
    <3>1. m = n /\ dropped[n] \in Int
        BY <1>3, <2>1
    <3>2. ~over(n)
        BY <1>4, <3>1
    <3> QED
        BY <1>5, <3>1, <3>2
  <2>2. CASE tooMany
    <3>1. n = 0 /\ m = 1 /\ 1 \in 1..len
        BY <1>6, <2>2
    <3>2. ~over(0)
        BY <1>4, <1>6, <2>2
    <3>3. dropped[1] = dropped[0] + w[1] /\ 1 - 1 = 0
        BY <1>3, <3>1
    <3>4. w[1] \in Nat
        BY <1>1, <3>1
    <3> QED
        BY <1>3, <1>5, <3>1, <3>2, <3>3, <3>4
  <2> QED
      BY <2>1, <2>2
<1> QED
    BY <1>9, <1>10, <1>11, <1>12, <1>13, <1>14 DEF CountedWithinLimits

-----------------------------------------------------------------------------
(* The calls that go through updateCacheSize.                              *)
LEMMA IInvPartsNext == IInv' <=> Parts'
BY IInvParts, PTL

LEMMA KeyOfType == \A n \in Names : KeyOf[n] \in Keys
BY ConstantsAssumption DEF Keys, Range

LEMMA InsertKeeps ==
    ASSUME IInv, NEW c \in Clients, NEW n \in Names, NEW acquireLock \in BOOLEAN,
           fs_insert(c, n, acquireLock)
    PROVE  /\ IInv'
           /\ KeyOf[n] \notin DOMAIN table
           /\ LET e == [name |-> n, contentLen |-> 0, waiting |-> << >>,
                        owner |-> IF acquireLock THEN c ELSE EmptyOwner]
                  tbl == [k \in DOMAIN table \cup {KeyOf[n]} |->
                             IF k = KeyOf[n] THEN e ELSE table[k]]
              IN  \E gone : Leave(tbl, gone)
<1> DEFINE k == KeyOf[n]
           e == [name |-> n, contentLen |-> 0, waiting |-> << >>,
                 owner |-> IF acquireLock THEN c ELSE EmptyOwner]
           tbl == [x \in DOMAIN table \cup {k} |-> IF x = k THEN e ELSE table[x]]
           order == moveToTop(k)
<1>1. k \in Keys /\ k \notin DOMAIN table
    BY KeyOfType DEF fs_insert, InsertResult, Stored, OK, ALREADY_EXISTS
<1>2. e \in Entry
    BY DEF Entry
<1>3. updateCacheSize(tbl, order, bytesUsed + SizeOf(e), slotUsed + 1)
    BY DEF fs_insert
<1>4. SizeOf(e) \in Nat
    BY <1>2, ConstantsAssumption DEF SizeOf, Entry
<1>5. e.waiting = << >> /\ e.name = n
    OBVIOUS
<1> HIDE DEF e
<1>6. TableOK(tbl)
    BY <1>1, <1>2, <1>5, IInvParts DEF TableOK, Parts
<1>7. LocksOK(tbl, lockQueue)
  <2>1. LocksOK(table, lockQueue)
      BY IInvParts DEF Parts
  <2>2. \A x \in DOMAIN tbl : \A i \in DOMAIN tbl[x].waiting :
           x \in DOMAIN table /\ tbl[x] = table[x]
      BY <1>5
  <2>3. \A x \in DOMAIN tbl : tbl[x].waiting # << >> => x \in DOMAIN table /\ tbl[x] = table[x]
      BY <1>5
  <2> HIDE DEF tbl
  <2> QED
      BY <2>1, <2>2, <2>3 DEF LocksOK, WaitersOK, NoneNotified
<1>8. ListOK(tbl, order) /\ Len(order) = Len(lru) + 1
    BY <1>1, IInvParts, MoveToTopList DEF ListOK, Parts
<1>9. Len(order) <= MaxSlots + 1 /\ slotUsed + 1 = Len(order) /\ bytesUsed + SizeOf(e) \in Int
    BY <1>4, <1>8, IInvParts, ConstantsAssumption, SMTT(30) DEF CountedWithinLimits, Parts
<1> HIDE DEF tbl, order
<1>10. /\ TableOK(table') /\ ListOK(table', lru') /\ LocksOK(table', lockQueue')
       /\ slotUsed' = Len(lru')
       /\ CountedWithinLimits'
       /\ bytesUsed' \in Int
       /\ lockQueue' \in Seq(Notice)
       /\ \E gone : Leave(tbl, gone)
    BY <1>3, <1>6, <1>7, <1>8, <1>9, IInvParts, EjectKeeps DEF Parts
<1>11. IInv'
    BY <1>10, IInvParts, IInvPartsNext DEF fs_insert, Parts
<1> QED
    BY <1>1, <1>10, <1>11 DEF tbl, e

(* A file whose lock stays as it is gets a new size, and maybe name.       *)
LEMMA ResizeKeeps ==
    ASSUME IInv, NEW n \in Names, Stored(n), NEW e \in Entry, NEW bytes \in Int,
           KeyOf[e.name] = KeyOf[n],
           e.owner = File(n).owner, e.waiting = File(n).waiting,
           updateCacheSize([table EXCEPT ![KeyOf[n]] = e], moveToTop(KeyOf[n]),
                           bytes, slotUsed),
           UNCHANGED toClean, appends' \in 0..MaxAppends
    PROVE  /\ IInv'
           /\ \E gone : Leave([table EXCEPT ![KeyOf[n]] = e], gone)
<1> DEFINE k == KeyOf[n]
           tbl == [table EXCEPT ![k] = e]
           order == moveToTop(k)
<1>1. k \in Keys /\ k \in DOMAIN table
    BY KeyOfType DEF Stored
<1>2. DOMAIN tbl = DOMAIN table /\ \A x \in DOMAIN table : tbl[x] = IF x = k THEN e ELSE table[x]
    OBVIOUS
<1> HIDE DEF tbl
<1>3. TableOK(tbl)
  <2>1. TableOK(table)
      BY IInvParts DEF Parts
  <2>2. tbl \in [DOMAIN tbl -> Entry]
      BY <1>2, <2>1 DEF TableOK, tbl
  <2> QED
      BY <1>1, <1>2, <2>1, <2>2 DEF TableOK
<1>4. LocksOK(tbl, lockQueue)
  <2>1. LocksOK(table, lockQueue)
      BY IInvParts DEF Parts
  <2>2. \A x \in DOMAIN table : tbl[x].waiting = table[x].waiting /\ tbl[x].owner = table[x].owner
      BY <1>1, <1>2 DEF File
  <2> QED
      BY <1>2, <2>1, <2>2 DEF LocksOK, WaitersOK, NoneNotified
<1>5. ListOK(tbl, order) /\ Len(order) = Len(lru)
    BY <1>1, <1>2, IInvParts, MoveToTopList DEF ListOK, Parts
<1>6. Len(order) <= MaxSlots + 1 /\ slotUsed = Len(order)
    BY <1>5, IInvParts, ConstantsAssumption DEF CountedWithinLimits, Parts
<1>7. updateCacheSize(tbl, order, bytes, slotUsed)
    BY DEF tbl
<1> HIDE DEF order
<1>8. /\ TableOK(table') /\ ListOK(table', lru') /\ LocksOK(table', lockQueue')
      /\ slotUsed' = Len(lru')
      /\ CountedWithinLimits'
      /\ bytesUsed' \in Int
      /\ lockQueue' \in Seq(Notice)
      /\ \E gone : Leave(tbl, gone)
    BY <1>3, <1>4, <1>5, <1>6, <1>7, IInvParts, EjectKeeps DEF Parts
<1>9. IInv'
    BY <1>8, IInvParts, IInvPartsNext DEF Parts
<1> QED
    BY <1>8, <1>9 DEF tbl

LEMMA StoredEntry ==
    ASSUME IInv, NEW n \in Names, Stored(n)
    PROVE  /\ File(n) \in Entry
           /\ KeyOf[File(n).name] = KeyOf[n]
           /\ SizeOf(File(n)) \in Nat
<1>1. File(n) \in Entry /\ KeyOf[File(n).name] = KeyOf[n]
    BY IInvParts DEF TableOK, Stored, File, Parts
<1> QED
    BY <1>1, ConstantsAssumption DEF SizeOf, Entry

LEMMA ModifyKeeps ==
    ASSUME IInv, NEW c \in Clients, NEW n \in Names, NEW len \in WriteLens,
           fs_modify(c, n, len)
    PROVE  IInv' /\ Stored(n) /\ LockStays(KeyOf[n])
<1> DEFINE e == [File(n) EXCEPT !.name = n, !.contentLen = len]
           bytes == bytesUsed + SizeOf(e) - SizeOf(File(n))
<1>1. Stored(n)
    BY DEF fs_modify, ModifyResult, OK, NOT_EXISTS
<1>2. File(n) \in Entry /\ SizeOf(File(n)) \in Nat
    BY <1>1, StoredEntry
<1>3. len \in Nat
    BY ConstantsAssumption
<1>4. e \in Entry /\ e.name = n /\ e.owner = File(n).owner /\ e.waiting = File(n).waiting
    BY <1>2, <1>3 DEF Entry
<1> HIDE DEF e
<1>5. bytes \in Int
    BY <1>2, <1>4, IInvParts, ConstantsAssumption, SMTT(30) DEF SizeOf, Entry, Parts
<1>6. /\ updateCacheSize([table EXCEPT ![KeyOf[n]] = e], moveToTop(KeyOf[n]), bytes, slotUsed)
      /\ UNCHANGED <<toClean, appends>>
    BY DEF fs_modify, e
<1> HIDE DEF bytes
<1>7. IInv' /\ \E gone : Leave([table EXCEPT ![KeyOf[n]] = e], gone)
    BY <1>1, <1>4, <1>5, <1>6, IInvParts, ResizeKeeps DEF Parts
<1> QED
    BY <1>1, <1>4, <1>7 DEF LockStays, File

LEMMA AppendKeeps ==
    ASSUME IInv, NEW c \in Clients, NEW n \in Names, NEW len \in AppendLens,
           fs_append(c, n, len)
    PROVE  IInv' /\ Stored(n) /\ LockStays(KeyOf[n])
<1> DEFINE e == [File(n) EXCEPT !.contentLen = @ + len]
           bytes == bytesUsed + (len + NameLen[n]) - e.contentLen
<1>1. Stored(n)
    BY DEF fs_append, AppendResult, OK, NOT_EXISTS
<1>2. File(n) \in Entry /\ KeyOf[File(n).name] = KeyOf[n]
    BY <1>1, StoredEntry
<1>3. len \in Nat /\ NameLen[n] \in Nat /\ MaxAppends \in Nat
    BY ConstantsAssumption
<1>4. e \in Entry /\ e.name = File(n).name /\ e.owner = File(n).owner /\ e.waiting = File(n).waiting
    BY <1>2, <1>3 DEF Entry
<1>6. /\ updateCacheSize([table EXCEPT ![KeyOf[n]] = e], moveToTop(KeyOf[n]), bytes, slotUsed)
      /\ UNCHANGED toClean
    BY DEF fs_append
<1> HIDE DEF e
<1>5. bytes \in Int
    BY <1>3, <1>4, IInvParts DEF Entry, Parts
<1>7. appends' \in 0..MaxAppends
    BY <1>3, IInvParts DEF fs_append, Parts
<1> HIDE DEF bytes
<1>8. IInv' /\ \E gone : Leave([table EXCEPT ![KeyOf[n]] = e], gone)
    BY <1>1, <1>2, <1>4, <1>5, <1>6, <1>7, ResizeKeeps
<1> QED
    BY <1>1, <1>4, <1>8 DEF LockStays, File

-----------------------------------------------------------------------------
(* The calls that eject nothing.                                           *)
LEMMA HeadTail ==
    ASSUME NEW S, NEW w \in Seq(S), w # << >>
    PROVE  /\ 1 \in DOMAIN w /\ Head(w) = w[1] /\ w[1] \in S
           /\ Tail(w) \in Seq(S)
           /\ \A i \in DOMAIN Tail(w) :
                 i \in Int /\ i >= 1 /\ i + 1 \in DOMAIN w /\ Tail(w)[i] = w[i+1]
<1>1. PICK n \in Nat : n = Len(w) /\ DOMAIN w = 1..n /\ n # 0 /\ w \in [1..n -> S]
  <2>1. Len(w) # 0
      OBVIOUS
  <2> QED
      BY <2>1, SeqIsFunction
<1>2. Tail(w) \in Seq(S) /\ Len(Tail(w)) = n - 1 /\ \A i \in 1..(n-1) : Tail(w)[i] = w[i+1]
    BY <1>1, HeadTailProperties
<1>3. DOMAIN Tail(w) = 1..(n-1)
    BY <1>2, SeqIsFunction
<1> QED
    BY <1>1, <1>2, <1>3

LEMMA QueueAppend ==
    ASSUME NEW q \in Seq(Notice), NEW e \in Notice, OneNoticeEach(q), ~InQueue(q, e.fd)
    PROVE  /\ Append(q, e) \in Seq(Notice)
           /\ OneNoticeEach(Append(q, e))
           /\ \A c : InQueue(Append(q, e), c) => InQueue(q, c) \/ c = e.fd
<1> DEFINE r == <<e>>
<1>1. r \in Seq(Notice) /\ DOMAIN r = {1} /\ r[1] = e /\ Append(q, e) = q \o r
    OBVIOUS
<1> HIDE DEF r
<1>2. OneNoticeEach(r) /\ \A i \in DOMAIN r : ~InQueue(q, r[i].fd)
    BY <1>1 DEF OneNoticeEach
<1>3. /\ q \o r \in Seq(Notice) /\ OneNoticeEach(q \o r)
      /\ \A c : InQueue(q \o r, c) => InQueue(q, c) \/ InQueue(r, c)
    BY <1>1, <1>2, QueueMore
<1> QED
    BY <1>1, <1>3 DEF InQueue

(* A file stays in the table and its lock, waiters or place in the list    *)
(* change; the counters do not.                                            *)
LEMMA EntryKeeps ==
    ASSUME IInv, NEW k \in DOMAIN table, NEW e \in Entry, KeyOf[e.name] = k,
           table' = [table EXCEPT ![k] = e],
           lru' \in {lru, moveToTop(k)},
           LocksOK(table', lockQueue'), lockQueue' \in Seq(Notice),
           toClean' \in Seq([client : Clients, key : Keys]),
           UNCHANGED <<bytesUsed, slotUsed, appends>>
    PROVE  IInv'
<1>1. TableOK(table) /\ ListOK(table, lru) /\ k \in Keys
    BY IInvParts DEF Parts, TableOK
<1>2. DOMAIN table' = DOMAIN table
    OBVIOUS
<1>3. TableOK(table')
  <2>1. table' \in [DOMAIN table' -> Entry]
      BY <1>1 DEF TableOK
  <2> QED
      BY <1>1, <1>2, <2>1 DEF TableOK
<1>4. ListOK(table', lru') /\ Len(lru') = Len(lru)
  <2>1. /\ moveToTop(k) \in Seq(Keys) /\ IsInjective(moveToTop(k))
        /\ Range(moveToTop(k)) = Range(lru) /\ Len(moveToTop(k)) = Len(lru)
    <3>1. k \in Range(lru) /\ lru \in Seq(Keys) /\ IsInjective(lru)
        BY <1>1 DEF ListOK
    <3>2. /\ moveToTop(k) \in Seq(Keys) /\ IsInjective(moveToTop(k))
          /\ Range(moveToTop(k)) = Range(lru) \cup {k}
          /\ Len(moveToTop(k)) = IF k \in Range(lru) THEN Len(lru) ELSE Len(lru) + 1
        BY <1>1, <3>1, MoveToTopList
    <3> QED
        BY <3>1, <3>2
  <2> QED
      BY <1>1, <1>2, <2>1 DEF ListOK
<1>5. CountedWithinLimits'
  <2>1. lru \in Seq(Keys) /\ lru' \in Seq(Keys)
      BY <1>1, <1>4 DEF ListOK
  <2>2. lru' # << >> => lru # << >>
      BY <1>4, <2>1
  <2> QED
      BY <2>2, IInvParts DEF Parts, CountedWithinLimits
<1> QED
    BY <1>3, <1>4, <1>5, IInvParts, IInvPartsNext DEF Parts

LEMMA TableEntry ==
    ASSUME IInv, NEW k \in DOMAIN table
    PROVE  /\ table[k] \in Entry /\ KeyOf[table[k].name] = k /\ k \in Keys
           /\ table[k].waiting \in Seq(Clients)
           /\ table[k].owner \in Clients \cup {EmptyOwner}
BY IInvParts DEF Parts, TableOK, Entry

LEMMA ObtainKeeps ==
    ASSUME IInv, NEW c \in Clients, NEW n \in Names, fs_obtain(c, n)
    PROVE  IInv'
<1> DEFINE k == KeyOf[n]
<1>1. k \in DOMAIN table
    BY DEF fs_obtain, ObtainResult, Stored, OK, NOT_EXISTS
<1>2. /\ lru' = moveToTop(k)
      /\ UNCHANGED <<table, bytesUsed, slotUsed, lockQueue, toClean, appends>>
    BY DEF fs_obtain
<1> HIDE DEF k
<1>3. table \in [DOMAIN table -> Entry]
    BY IInvParts DEF Parts, TableOK
<1>4. table' = [table EXCEPT ![k] = table[k]]
    BY <1>1, <1>2, <1>3
<1>5. LocksOK(table', lockQueue') /\ lockQueue' \in Seq(Notice)
    BY <1>2, IInvParts DEF Parts
<1>6. toClean' \in Seq([client : Clients, key : Keys])
    BY <1>2, IInvParts DEF Parts
<1> QED
    BY <1>1, <1>2, <1>4, <1>5, <1>6, TableEntry, EntryKeeps

LEMMA TryLockKeeps ==
    ASSUME IInv, NEW c \in Clients, NEW n \in Names, fs_trylock(c, n)
    PROVE  IInv'
<1> DEFINE k == KeyOf[n]
<1>0. TryLockResult(c, n) = OK \/ TryLockResult(c, n) = WAITING_ON_LOCK
    BY DEF fs_trylock
<1>1. k \in DOMAIN table
    BY <1>0 DEF TryLockResult, Stored, OK, NOT_EXISTS, WAITING_ON_LOCK
<1>2. LocksOK(table, lockQueue) /\ lockQueue \in Seq(Notice)
    BY IInvParts DEF Parts
<1>3. /\ \A x \in DOMAIN table : \A i \in DOMAIN table[x].waiting : table[x].waiting[i] # c
      /\ ~InQueue(lockQueue, c)
    BY DEF fs_trylock, CanCall, Waits, Notified, InQueue, Range
<1>4. UNCHANGED <<bytesUsed, slotUsed, lockQueue, toClean, appends>>
    BY DEF fs_trylock
<1>5. toClean' \in Seq([client : Clients, key : Keys])
    BY <1>4, IInvParts DEF Parts
<1>6. c # EmptyOwner
    BY ConstantsAssumption
<1>7. CASE /\ TryLockResult(c, n) = OK
           /\ table' = [table EXCEPT ![k].owner = c]
           /\ lru' = moveToTop(k)
  <2> DEFINE e == [table[k] EXCEPT !.owner = c]
  <2>1. e \in Entry /\ KeyOf[e.name] = k /\ e.waiting = table[k].waiting /\ e.owner = c
      BY <1>1, TableEntry DEF Entry
  <2>2. table' = [table EXCEPT ![k] = e]
      BY <1>7
  <2>3. /\ DOMAIN table' = DOMAIN table
        /\ \A x \in DOMAIN table : table'[x] = IF x = k THEN e ELSE table[x]
      BY <2>2
  <2> HIDE DEF e, k
  <2>4. \A x \in DOMAIN table : table'[x].waiting = table[x].waiting
      BY <2>1, <2>3
  <2>5. WaitersOK(table')
    <3>1. \A x \in DOMAIN table : table'[x].owner \in {table[x].owner, c}
        BY <2>1, <2>3
    <3> QED
        BY <1>2, <1>3, <1>6, <2>3, <2>4, <3>1 DEF LocksOK, WaitersOK
  <2>6. NoneNotified(table', lockQueue)
      BY <1>2, <2>3, <2>4 DEF LocksOK, NoneNotified
  <2>7. LocksOK(table', lockQueue') /\ lockQueue' \in Seq(Notice)
      BY <1>2, <1>4, <2>5, <2>6 DEF LocksOK
  <2>8. lru' = moveToTop(k)
      BY <1>7
  <2> QED
      BY <1>1, <1>4, <1>5, <2>1, <2>2, <2>7, <2>8, EntryKeeps
<1>8. CASE /\ TryLockResult(c, n) = WAITING_ON_LOCK
           /\ table' = [table EXCEPT ![k].waiting = Append(@, c)]
           /\ UNCHANGED lru
  <2> DEFINE w == table[k].waiting
             e == [table[k] EXCEPT !.waiting = Append(w, c)]
  <2>0. w \in Seq(Clients)
      BY <1>1, TableEntry
  <2>1. /\ e \in Entry /\ KeyOf[e.name] = k
        /\ e.waiting = Append(w, c) /\ e.owner = table[k].owner
    <3>1. Append(w, c) \in Seq(Clients)
        BY <2>0, AppendProperties
    <3>2. table[k] \in Entry /\ KeyOf[table[k].name] = k
        BY <1>1, TableEntry
    <3> HIDE DEF w, k
    <3> QED
        BY <3>1, <3>2 DEF Entry
  <2>2. table' = [table EXCEPT ![k] = e]
      BY <1>8
  <2>3. /\ DOMAIN table' = DOMAIN table
        /\ \A x \in DOMAIN table : table'[x] = IF x = k THEN e ELSE table[x]
      BY <2>2
  <2>4. table[k].owner \notin {c, EmptyOwner}
      BY <1>8 DEF TryLockResult, File, OK, NOT_EXISTS, WAITING_ON_LOCK
  <2>5. PICK m \in Nat : /\ DOMAIN w = 1..m /\ DOMAIN Append(w, c) = 1..(m+1)
                         /\ \A i \in 1..m : Append(w, c)[i] = w[i]
                         /\ Append(w, c)[m+1] = c
    <3> HIDE DEF w
    <3> QED
        BY <2>0, AppendProperties, SeqIsFunction
  <2> HIDE DEF e, k
  <2> DEFINE Old(x, i) == i \in DOMAIN table[x].waiting /\ table'[x].waiting[i] = table[x].waiting[i]
             New(x, i) == x = k /\ i = m + 1 /\ table'[x].waiting[i] = c
  <2>6. \A x \in DOMAIN table : \A i \in DOMAIN table'[x].waiting : Old(x, i) \/ New(x, i)
    <3> SUFFICES ASSUME NEW x \in DOMAIN table, NEW i \in DOMAIN table'[x].waiting
                 PROVE  Old(x, i) \/ New(x, i)
        OBVIOUS
    <3>1. CASE x # k
        BY <2>3, <3>1
    <3>2. CASE x = k
      <4>1. table'[x].waiting = Append(w, c) /\ i \in 1..(m+1)
          BY <2>1, <2>3, <2>5, <3>2
      <4> QED
          BY <2>5, <3>2, <4>1
    <3> QED
        BY <3>1, <3>2
  <2>7. \A x \in DOMAIN table : table'[x].owner = table[x].owner
      BY <2>1, <2>3
  <2>8. WaitersOK(table')
    <3>1. ASSUME NEW x \in DOMAIN table, table'[x].waiting # << >>
          PROVE  table'[x].owner # EmptyOwner
      <4>1. CASE x = k
          BY <2>4, <2>7, <4>1
      <4>2. CASE x # k
          BY <1>2, <2>3, <3>1, <4>2 DEF LocksOK, WaitersOK
      <4> QED
          BY <4>1, <4>2
    <3>2. ASSUME NEW x \in DOMAIN table, NEW y \in DOMAIN table,
                 NEW i \in DOMAIN table'[x].waiting, NEW j \in DOMAIN table'[y].waiting,
                 table'[x].waiting[i] = table'[y].waiting[j]
          PROVE  x = y /\ i = j
      <4>1. CASE Old(x, i) /\ Old(y, j)
        <5>1. /\ i \in DOMAIN table[x].waiting /\ j \in DOMAIN table[y].waiting
              /\ table[x].waiting[i] = table[y].waiting[j]
            BY <3>2, <4>1
        <5> QED
            BY <1>2, <5>1 DEF LocksOK, WaitersOK
      <4>2. CASE New(x, i) /\ New(y, j)
          BY <4>2
      <4>3. ~(Old(x, i) /\ New(y, j)) /\ ~(New(x, i) /\ Old(y, j))
          BY <1>3, <3>2
      <4> QED
          BY <2>6, <4>1, <4>2, <4>3
    <3>3. ASSUME NEW x \in DOMAIN table, NEW i \in DOMAIN table'[x].waiting
          PROVE  table'[x].owner # table'[x].waiting[i]
      <4>1. CASE Old(x, i)
          BY <1>2, <2>7, <4>1 DEF LocksOK, WaitersOK
      <4>2. CASE New(x, i)
          BY <2>4, <2>7, <4>2
      <4> QED
          BY <2>6, <4>1, <4>2
    <3> QED
        BY <2>3, <3>1, <3>2, <3>3 DEF WaitersOK
  <2>9. NoneNotified(table', lockQueue)
    <3> SUFFICES ASSUME NEW x \in DOMAIN table, NEW i \in DOMAIN table'[x].waiting
                 PROVE  ~InQueue(lockQueue, table'[x].waiting[i])
        BY <2>3 DEF NoneNotified
    <3> QED
        BY <1>2, <1>3, <2>6 DEF LocksOK, NoneNotified
  <2>10. LocksOK(table', lockQueue') /\ lockQueue' \in Seq(Notice)
      BY <1>2, <1>4, <2>8, <2>9 DEF LocksOK
  <2>11. lru' = lru
      BY <1>8
  <2> QED
      BY <1>1, <1>4, <1>5, <2>1, <2>2, <2>10, <2>11, EntryKeeps
<1> QED
    BY <1>7, <1>8 DEF fs_trylock

(* Passing the lock of k on, or doing nothing at all.                      *)
LEMMA InnerUnlockKeeps ==
    ASSUME IInv, NEW c \in Clients, NEW k \in Keys, inner_unlock(c, k),
           toClean' \in Seq([client : Clients, key : Keys]),
           UNCHANGED <<bytesUsed, slotUsed, appends>>
    PROVE  IInv'
<1>0. LocksOK(table, lockQueue) /\ lockQueue \in Seq(Notice)
    BY IInvParts DEF Parts
<1>1. CASE UnlockResult(c, k) # OK
  <2>1. UNCHANGED <<table, lockQueue, lru>>
      BY <1>1 DEF inner_unlock
  <2> QED
      BY <2>1, IInvParts, IInvPartsNext DEF Parts, CountedWithinLimits
<1>2. CASE UnlockResult(c, k) = OK
  <2> DEFINE e == PassLock(table[k])
             w == table[k].waiting
  <2>1. k \in DOMAIN table /\ w \in Seq(Clients)
      BY <1>2, TableEntry DEF UnlockResult, OK, NOT_EXISTS
  <2>2. /\ table' = [table EXCEPT ![k] = e]
        /\ lru' = moveToTop(k)
        /\ lockQueue' = IF w = << >> THEN lockQueue
                        ELSE Append(lockQueue, [fd |-> e.owner, status |-> OK])
      BY <1>2 DEF inner_unlock
  <2>3. /\ DOMAIN table' = DOMAIN table
        /\ \A x \in DOMAIN table : table'[x] = IF x = k THEN e ELSE table[x]
      BY <2>2
  <2>4. table[k] \in Entry /\ KeyOf[table[k].name] = k
      BY <2>1, TableEntry
  <2>5. CASE w = << >>
    <3>1. e = [table[k] EXCEPT !.owner = EmptyOwner]
        BY <2>5 DEF PassLock
    <3>2. e \in Entry /\ KeyOf[e.name] = k /\ e.waiting = << >>
        BY <2>4, <2>5, <3>1 DEF Entry
    <3> HIDE DEF e
    <3>3. \A x \in DOMAIN table : \A i \in DOMAIN table'[x].waiting : table'[x] = table[x]
        BY <2>3, <3>2
    <3>4. \A x \in DOMAIN table : table'[x].waiting # << >> => table'[x] = table[x]
        BY <2>3, <3>2
    <3>5. LocksOK(table', lockQueue)
        BY <1>0, <2>3, <3>3, <3>4 DEF LocksOK, WaitersOK, NoneNotified
    <3>6. lockQueue' = lockQueue
        BY <2>2, <2>5
    <3> QED
        BY <1>0, <2>1, <2>2, <3>2, <3>5, <3>6, EntryKeeps
  <2>6. CASE w # << >>
    <3>1. /\ 1 \in DOMAIN w /\ Head(w) = w[1] /\ w[1] \in Clients
          /\ Tail(w) \in Seq(Clients)
          /\ \A i \in DOMAIN Tail(w) :
                i \in Int /\ i >= 1 /\ i + 1 \in DOMAIN w /\ Tail(w)[i] = w[i+1]
      <4> HIDE DEF w
      <4> QED
          BY <2>1, <2>6, HeadTail
    <3>2. e = [table[k] EXCEPT !.owner = Head(w), !.waiting = Tail(w)]
        BY <2>6 DEF PassLock
    <3>3. e \in Entry /\ KeyOf[e.name] = k /\ e.waiting = Tail(w) /\ e.owner = w[1]
      <4>1. Head(w) \in Clients /\ Tail(w) \in Seq(Clients)
          BY <3>1
      <4> HIDE DEF w
      <4> QED
          BY <2>4, <3>1, <3>2, <4>1 DEF Entry
    <3> DEFINE note == [fd |-> w[1], status |-> OK]
    <3>4. note \in Notice /\ note.fd = w[1] /\ lockQueue' = Append(lockQueue, note)
        BY <2>2, <2>6, <3>1, <3>3 DEF Notice
    <3>5. ~InQueue(lockQueue, w[1])
        BY <1>0, <2>1, <3>1 DEF LocksOK, NoneNotified
    <3> HIDE DEF e, note
    <3>6. /\ lockQueue' \in Seq(Notice) /\ OneNoticeEach(lockQueue')
          /\ \A x : InQueue(lockQueue', x) => InQueue(lockQueue, x) \/ x = w[1]
        BY <1>0, <3>4, <3>5, QueueAppend DEF LocksOK
    <3> DEFINE at(x, i) == IF x = k THEN i + 1 ELSE i
    <3>7. ASSUME NEW x \in DOMAIN table, NEW i \in DOMAIN table'[x].waiting
          PROVE  /\ at(x, i) \in DOMAIN table[x].waiting
                 /\ table'[x].waiting[i] = table[x].waiting[at(x, i)]
                 /\ x = k => i \in Int /\ at(x, i) # 1
      <4>1. CASE x = k
        <5>1. table'[x].waiting = Tail(w) /\ i \in DOMAIN Tail(w)
            BY <2>3, <3>3, <4>1
        <5>2. i \in Int /\ i >= 1 /\ i + 1 \in DOMAIN w /\ Tail(w)[i] = w[i+1]
            BY <3>1, <5>1
        <5> HIDE DEF w
        <5>3. i + 1 # 1
            BY <5>2
        <5> QED
            BY <4>1, <5>1, <5>2, <5>3 DEF w
      <4>2. CASE x # k
          BY <2>3, <4>2
      <4> QED
          BY <4>1, <4>2
    <3>8. ASSUME NEW x \in DOMAIN table, NEW y \in DOMAIN table,
                 NEW i \in DOMAIN table'[x].waiting, NEW j \in DOMAIN table'[y].waiting,
                 table'[x].waiting[i] = table'[y].waiting[j]
          PROVE  x = y /\ i = j
      <4>1. /\ at(x, i) \in DOMAIN table[x].waiting
            /\ table'[x].waiting[i] = table[x].waiting[at(x, i)]
            /\ x = k => i \in Int
          BY <3>7
      <4>2. /\ at(y, j) \in DOMAIN table[y].waiting
            /\ table'[y].waiting[j] = table[y].waiting[at(y, j)]
            /\ y = k => j \in Int
          BY <3>7
      <4>3. x = y /\ at(x, i) = at(y, j)
        <5> HIDE DEF at
        <5>1. table[x].waiting[at(x, i)] = table[y].waiting[at(y, j)]
            BY <3>8, <4>1, <4>2
        <5> QED
            BY <1>0, <4>1, <4>2, <5>1 DEF LocksOK, WaitersOK
      <4> QED
          BY <4>1, <4>2, <4>3
    <3>9. ASSUME NEW x \in DOMAIN table, NEW i \in DOMAIN table'[x].waiting
          PROVE  /\ table'[x].owner # table'[x].waiting[i]
                 /\ table'[x].waiting[i] # w[1]
                 /\ table'[x].owner # EmptyOwner
      <4>1. /\ at(x, i) \in DOMAIN table[x].waiting
            /\ table'[x].waiting[i] = table[x].waiting[at(x, i)]
            /\ x = k => at(x, i) # 1
          BY <3>7
      <4>2. table[x].waiting # << >>
        <5>1. table[x].waiting \in Seq(Clients)
            BY TableEntry
        <5> QED
            BY <4>1, <5>1
      <4>3. table'[x].owner = IF x = k THEN w[1] ELSE table[x].owner
          BY <2>3, <3>3
      <4> HIDE DEF at
      <4>4. table'[x].waiting[i] # w[1]
          BY <1>0, <2>1, <3>1, <4>1 DEF LocksOK, WaitersOK
      <4>5. w[1] # EmptyOwner
          BY <3>1, ConstantsAssumption
      <4> QED
          BY <1>0, <4>1, <4>2, <4>3, <4>4, <4>5 DEF LocksOK, WaitersOK
    <3>10. WaitersOK(table')
      <4>1. ASSUME NEW x \in DOMAIN table, table'[x].waiting # << >>
            PROVE  table'[x].owner # EmptyOwner
        <5>1. table'[x].waiting \in Seq(Clients)
            BY <2>3, <3>1, <3>3, TableEntry
        <5>2. 1 \in DOMAIN table'[x].waiting
            BY <4>1, <5>1, HeadTail
        <5> QED
            BY <3>9, <5>2
      <4> QED
          BY <2>3, <3>8, <3>9, <4>1 DEF WaitersOK
    <3>11. NoneNotified(table', lockQueue')
      <4> SUFFICES ASSUME NEW x \in DOMAIN table, NEW i \in DOMAIN table'[x].waiting
                   PROVE  ~InQueue(lockQueue', table'[x].waiting[i])
          BY <2>3 DEF NoneNotified
      <4>1. ~InQueue(lockQueue, table'[x].waiting[i])
        <5>1. /\ at(x, i) \in DOMAIN table[x].waiting
              /\ table'[x].waiting[i] = table[x].waiting[at(x, i)]
            BY <3>7
        <5> HIDE DEF at
        <5> QED
            BY <1>0, <5>1 DEF LocksOK, NoneNotified
      <4> QED
          BY <3>6, <3>9, <4>1
    <3>12. LocksOK(table', lockQueue')
        BY <3>6, <3>10, <3>11 DEF LocksOK
    <3> QED
        BY <2>1, <2>2, <3>3, <3>6, <3>12, EntryKeeps
  <2> QED
      BY <2>5, <2>6
<1> QED
    BY <1>1, <1>2

LEMMA UnlockKeeps ==
    ASSUME IInv, NEW c \in Clients, NEW n \in Names, fs_unlock(c, n)
    PROVE  IInv'
<1>1. /\ inner_unlock(c, KeyOf[n])
      /\ UNCHANGED <<bytesUsed, slotUsed, toClean, appends>>
    BY DEF fs_unlock
<1>2. toClean' \in Seq([client : Clients, key : Keys])
    BY <1>1, IInvParts DEF Parts
<1> QED
    BY <1>1, <1>2, KeyOfType, InnerUnlockKeeps

LEMMA CleanNextKeeps ==
    ASSUME IInv, fs_clean_next
    PROVE  IInv'
<1>1. /\ toClean \in Seq([client : Clients, key : Keys]) /\ toClean # << >>
      /\ inner_unlock(Head(toClean).client, Head(toClean).key)
      /\ toClean' = Tail(toClean)
      /\ UNCHANGED <<bytesUsed, slotUsed, appends>>
    BY IInvParts DEF Parts, fs_clean_next
<1>2. /\ Head(toClean) \in [client : Clients, key : Keys]
      /\ toClean' \in Seq([client : Clients, key : Keys])
    BY <1>1, HeadTail
<1> QED
    BY <1>1, <1>2, InnerUnlockKeeps

LEMMA CleanKeeps ==
    ASSUME IInv, NEW c \in Clients, NEW keys \in Sessions, fs_clean(c, keys)
    PROVE  IInv'
<1>1. PICK m \in Nat : keys \in [1..m -> Keys]
  <2>1. MaxOpened \in Nat
      BY ConstantsAssumption
  <2> QED
      BY <2>1 DEF Sessions
<1>2. toClean' = [i \in 1..m |-> [client |-> c, key |-> keys[i]]]
    BY <1>1 DEF fs_clean
<1>3. toClean' \in [1..m -> [client : Clients, key : Keys]]
    BY <1>1, <1>2
<1>4. toClean' \in Seq([client : Clients, key : Keys])
  <2> DEFINE S == [client : Clients, key : Keys]
  <2>1. PICK s \in [1..m -> S] : s = toClean'
      BY <1>3
  <2> HIDE DEF S
  <2>2. s \in Seq(S)
      BY IsASeq
  <2> QED
      BY <2>1, <2>2 DEF S
<1>5. UNCHANGED <<table, lru, bytesUsed, slotUsed, lockQueue, appends>>
    BY DEF fs_clean
<1> QED
    BY <1>4, <1>5, IInvParts, IInvPartsNext DEF Parts, CountedWithinLimits

LEMMA LockThreadTakeKeeps ==
    ASSUME IInv, lockThreadTake
    PROVE  IInv'
<1>1. /\ lockQueue \in Seq(Notice) /\ lockQueue # << >>
      /\ lockQueue' = Tail(lockQueue)
      /\ UNCHANGED <<table, lru, bytesUsed, slotUsed, toClean, appends>>
      /\ LocksOK(table, lockQueue)
    BY IInvParts DEF Parts, lockThreadTake
<1>2. /\ lockQueue' \in Seq(Notice)
      /\ \A i \in DOMAIN lockQueue' :
            i \in Int /\ i + 1 \in DOMAIN lockQueue /\ lockQueue'[i] = lockQueue[i+1]
    BY <1>1, HeadTail
<1>3. OneNoticeEach(lockQueue')
  <2> SUFFICES ASSUME NEW i \in DOMAIN lockQueue', NEW j \in DOMAIN lockQueue',
                      lockQueue'[i].fd = lockQueue'[j].fd
               PROVE  i = j
      BY DEF OneNoticeEach
  <2>1. i \in Int /\ i + 1 \in DOMAIN lockQueue /\ lockQueue'[i] = lockQueue[i+1]
      BY <1>2
  <2>2. j \in Int /\ j + 1 \in DOMAIN lockQueue /\ lockQueue'[j] = lockQueue[j+1]
      BY <1>2
  <2>3. i + 1 = j + 1
      BY <1>1, <2>1, <2>2 DEF LocksOK, OneNoticeEach
  <2> QED
      BY <2>1, <2>2, <2>3
<1>4. \A c : InQueue(lockQueue', c) => InQueue(lockQueue, c)
    BY <1>2 DEF InQueue
<1>5. LocksOK(table', lockQueue')
  <2>1. table' = table
      BY <1>1
  <2> QED
      BY <1>1, <1>3, <1>4, <2>1 DEF LocksOK, NoneNotified
<1> QED
    BY <1>1, <1>2, <1>5, IInvParts, IInvPartsNext DEF Parts, CountedWithinLimits

(* Only the owner removes a file: its waiters get their notices.           *)
LEMMA RemoveKeeps ==
    ASSUME IInv, NEW c \in Clients, NEW n \in Names, fs_remove(c, n)
    PROVE  IInv' /\ Leave(table, {KeyOf[n]})
<1> DEFINE k == KeyOf[n]
           i == CHOOSE j \in DOMAIN lru : lru[j] = k
           w == table[k].waiting
           more == NoticesTo(w, NOT_EXISTS)
<1>0. k \in DOMAIN table
    BY DEF fs_remove, RemoveResult, Stored, OK, NOT_EXISTS
<1>1. /\ table' = [x \in DOMAIN table \ {k} |-> table[x]]
      /\ lru' = SubSeq(lru, 1, i - 1) \o SubSeq(lru, i + 1, Len(lru))
      /\ lockQueue' = lockQueue \o more
      /\ bytesUsed' = bytesUsed - SizeOf(table[k])
      /\ slotUsed' = slotUsed - 1
      /\ UNCHANGED <<toClean, appends>>
    BY DEF fs_remove
<1>2. /\ TableOK(table) /\ ListOK(table, lru) /\ LocksOK(table, lockQueue)
      /\ slotUsed = Len(lru) /\ bytesUsed \in Int /\ lockQueue \in Seq(Notice)
      /\ CountedWithinLimits
    BY IInvParts DEF Parts
<1>3. i \in 1..Len(lru) /\ lru[i] = k
  <2>1. \E j \in DOMAIN lru : lru[j] = k
      BY <1>0, <1>2 DEF ListOK, Range
  <2>2. DOMAIN lru = 1..Len(lru)
      BY <1>2, SeqIsFunction DEF ListOK
  <2> QED
      BY <2>1, <2>2
<1> HIDE DEF i, k
<1>4. /\ lru' \in Seq(Keys) /\ Len(lru') = Len(lru) - 1 /\ IsInjective(lru')
      /\ Range(lru') = Range(lru) \ {k}
    BY <1>1, <1>2, <1>3, RemoveAtInjective DEF ListOK
<1>5. TableOK(table') /\ ListOK(table', lru')
    BY <1>1, <1>2, <1>4 DEF TableOK, ListOK
<1>6. SizeOf(table[k]) \in Nat /\ w \in Seq(Clients)
  <2>1. table[k] \in Entry
      BY <1>0, TableEntry
  <2> QED
      BY <2>1, ConstantsAssumption DEF SizeOf, Entry
<1>7. slotUsed' = Len(lru') /\ bytesUsed' \in Int
    BY <1>1, <1>2, <1>4, <1>6
<1>8. CountedWithinLimits'
  <2>1. Len(lru) \in Nat /\ MaxSlots \in Nat /\ MaxBytes \in Nat
      BY <1>2, ConstantsAssumption DEF ListOK
  <2>2. lru # << >>
      BY <1>3
  <2>3. slotUsed' <= MaxSlots
      BY <1>1, <1>2, <2>1 DEF CountedWithinLimits
  <2>4. bytesUsed <= MaxBytes
      BY <1>2, <2>2 DEF CountedWithinLimits
  <2>5. bytesUsed' <= MaxBytes
      BY <1>1, <1>2, <1>6, <2>1, <2>4
  <2> QED
      BY <2>3, <2>5 DEF CountedWithinLimits
<1>9. /\ more \in Seq(Notice) /\ DOMAIN more = DOMAIN w
      /\ \A j \in DOMAIN w : more[j] = [fd |-> w[j], status |-> NOT_EXISTS]
  <2> HIDE DEF w
  <2> QED
      BY <1>6, NoticesToType
<1> HIDE DEF more
<1>10. OneNoticeEach(more)
  <2> SUFFICES ASSUME NEW x \in DOMAIN w, NEW y \in DOMAIN w, more[x].fd = more[y].fd
               PROVE  x = y
      BY <1>9 DEF OneNoticeEach
  <2>1. w[x] = w[y]
    <3> HIDE DEF w
    <3>1. more[x].fd = w[x] /\ more[y].fd = w[y]
        BY <1>9
    <3> QED
        BY <3>1
  <2> QED
      BY <1>0, <1>2, <2>1 DEF LocksOK, WaitersOK
<1>11. \A c1 : InQueue(more, c1) => \E x \in DOMAIN w : c1 = w[x]
  <2> HIDE DEF w
  <2> QED
      BY <1>9 DEF InQueue
<1>12. ASSUME NEW x \in DOMAIN more PROVE ~InQueue(lockQueue, more[x].fd)
  <2>1. x \in DOMAIN w /\ more[x].fd = w[x]
    <3> HIDE DEF w
    <3> QED
        BY <1>9
  <2> QED
      BY <1>0, <1>2, <2>1 DEF LocksOK, NoneNotified
<1>13. /\ lockQueue' \in Seq(Notice) /\ OneNoticeEach(lockQueue')
       /\ \A c1 : InQueue(lockQueue', c1) => InQueue(lockQueue, c1) \/ InQueue(more, c1)
    BY <1>1, <1>2, <1>9, <1>10, <1>12, QueueMore DEF LocksOK
<1>14. WaitersOK(table')
    BY <1>1, <1>2 DEF LocksOK, WaitersOK
<1>15. NoneNotified(table', lockQueue')
  <2> SUFFICES ASSUME NEW x \in DOMAIN table \ {k}, NEW y \in DOMAIN table[x].waiting,
                      InQueue(lockQueue', table[x].waiting[y])
               PROVE  FALSE
      BY <1>1 DEF NoneNotified
  <2>1. InQueue(more, table[x].waiting[y])
      BY <1>2, <1>13 DEF LocksOK, NoneNotified
  <2>2. \E z \in DOMAIN table[k].waiting : table[x].waiting[y] = table[k].waiting[z]
      BY <1>11, <2>1
  <2> QED
      BY <1>0, <1>2, <2>2 DEF LocksOK, WaitersOK
<1>16. LocksOK(table', lockQueue')
    BY <1>13, <1>14, <1>15 DEF LocksOK
<1>17. Range(lockQueue') = Range(lockQueue) \cup Range(more)
    BY <1>1, <1>2, <1>9, ConcatRange
<1>18. Range(more) = Refusals(table, {k})
  <2>1. Range(more) = {[fd |-> x, status |-> NOT_EXISTS] : x \in Range(w)}
    <3> HIDE DEF w
    <3> QED
        BY <1>9 DEF Range
  <2> QED
      BY <2>1 DEF Refusals
<1>19. Leave(table, {k})
    BY <1>0, <1>1, <1>9, <1>17, <1>18 DEF Leave
<1>20. IInv'
    BY <1>1, <1>5, <1>7, <1>8, <1>13, <1>16, IInvParts, IInvPartsNext DEF Parts
<1> QED
    BY <1>19, <1>20 DEF k

-----------------------------------------------------------------------------
LEMMA InitIInv == Init => IInv
<1> SUFFICES ASSUME Init PROVE IInv
    OBVIOUS
<1>1. table = << >> /\ lru = << >> /\ lockQueue = << >> /\ toClean = << >>
    BY DEF Init
<1>2. DOMAIN table = {} /\ DOMAIN lru = {} /\ DOMAIN lockQueue = {}
    BY <1>1
<1>3. TypeOK
  <2>1. table \in [{} -> Entry]
      BY <1>1
  <2> QED
      BY <1>1, <1>2, <2>1, ConstantsAssumption DEF Init, TypeOK
<1>4. ListMatchesTable
    BY <1>1, <1>2 DEF Init, ListMatchesTable, IsInjective, Range
<1>5. CountedWithinLimits
    BY <1>1, ConstantsAssumption DEF Init, CountedWithinLimits
<1>6. WaitersHaveOwner /\ BlockedOnce
    BY <1>2 DEF WaitersHaveOwner, BlockedOnce
<1> QED
    BY <1>3, <1>4, <1>5, <1>6 DEF IInv

LEMMA NextIInv == IInv /\ [Next]_vars => IInv'
<1> SUFFICES ASSUME IInv, [Next]_vars PROVE IInv'
    OBVIOUS
<1>1. ASSUME NEW c \in Clients, NEW n \in Names, ClientCall(c, n) PROVE IInv'
    BY <1>1, InsertKeeps, RemoveKeeps, ObtainKeeps, ModifyKeeps, AppendKeeps,
       TryLockKeeps, UnlockKeeps DEF ClientCall
<1>2. ASSUME NEW c \in Clients, NEW keys \in Sessions, fs_clean(c, keys) PROVE IInv'
    BY <1>2, CleanKeeps
<1>3. CASE fs_clean_next
    BY <1>3, CleanNextKeeps
<1>4. CASE lockThreadTake
    BY <1>4, LockThreadTakeKeeps
<1>5. CASE UNCHANGED vars
    BY <1>5, IInvParts, IInvPartsNext DEF vars, Parts, CountedWithinLimits
<1> QED
    BY <1>1, <1>2, <1>3, <1>4, <1>5 DEF Next

(* In every reachable state, for every value of the constants.             *)
THEOREM IInvHolds == Spec => []IInv
<1> QED
    BY InitIInv, NextIInv, PTL DEF Spec

(* The variables of the file system keep their types.                      *)
THEOREM TypeCorrect == Spec => []TypeOK
<1>1. IInv => TypeOK
    BY DEF IInv
<1> QED
    BY <1>1, IInvHolds, PTL

(* moveToTop, fs_remove, fs_insert and the two eviction loops of           *)
(* updateCacheSize leave the list and the hash table with the same files,  *)
(* each linked once, and slotUsed with their number.                       *)
THEOREM ListAgreesWithTable == Spec => []ListMatchesTable
<1>1. IInv => ListMatchesTable
    BY DEF IInv
<1> QED
    BY <1>1, IInvHolds, PTL

(* One slot is enough to eject: the branch (not a loop) of updateCacheSize *)
(* brings the slots within the limit, and fs_remove, whose call passes no  *)
(* buffers, never reaches an ejection.                                     *)
THEOREM LimitsKept == Spec => []CountedWithinLimits
<1>1. IInv => CountedWithinLimits
    BY DEF IInv
<1> QED
    BY <1>1, IInvHolds, PTL

(* A queue of waiters always hangs on a held lock: _inner_unlock passes it *)
(* on until the queue is empty, and fs_trylock queues only behind a holder. *)
THEOREM NoOrphanWaiters == Spec => []WaitersHaveOwner
<1>1. IInv => WaitersHaveOwner
    BY DEF IInv
<1> QED
    BY <1>1, IInvHolds, PTL

(* A blocked client is in one waiting queue once or in one notification,   *)
(* and never waits for itself: the lock thread answers it exactly once.    *)
THEOREM BlockedInOnePlace == Spec => []BlockedOnce
<1>1. IInv => BlockedOnce
    BY DEF IInv
<1> QED
    BY <1>1, IInvHolds, PTL

(* The bytes stored in a table, and the sizes along a list.                *)
StoredOf(t) ==
    FoldFunction(LAMBDA e, sum : NameLen[e.name] + e.contentLen + sum, 0, t)
Sizes(t, l) == [i \in DOMAIN l |-> SizeOf(t[l[i]])]

LEMMA SizesAre ==
    ASSUME NEW t, NEW l, TableOK(t), ListOK(t, l)
    PROVE  /\ Sizes(t, l) \in Seq(Nat) /\ Sizes(t, l) \in Seq(Int)
           /\ Len(Sizes(t, l)) = Len(l)
           /\ \A i \in 1..Len(l) : Sizes(t, l)[i] = SizeOf(t[l[i]])
           /\ \A k \in DOMAIN t : SizeOf(t[k]) \in Nat
<1>1. PICK n \in Nat : n = Len(l) /\ DOMAIN l = 1..n /\ l \in [1..n -> Keys]
    BY SeqIsFunction DEF ListOK
<1>2. \A k \in DOMAIN t : SizeOf(t[k]) \in Nat
  <2> SUFFICES ASSUME NEW k \in DOMAIN t PROVE SizeOf(t[k]) \in Nat
      OBVIOUS
  <2>1. t[k] \in Entry /\ NameLen \in [Names -> Nat]
      BY ConstantsAssumption DEF TableOK
  <2> QED
      BY <2>1 DEF SizeOf, Entry
<1>3. \A i \in 1..n : l[i] \in DOMAIN t
    BY <1>1 DEF ListOK, Range
<1>4. Sizes(t, l) \in [1..n -> Nat] /\ Sizes(t, l) \in [1..n -> Int]
    BY <1>1, <1>2, <1>3 DEF Sizes
<1>5. Sizes(t, l) \in Seq(Nat) /\ Sizes(t, l) \in Seq(Int) /\ Len(Sizes(t, l)) = n
    BY <1>4, IsASeq
<1> QED
    BY <1>1, <1>2, <1>5 DEF Sizes

(* The fold over the table is the sum along the list.                      *)
LEMMA StoredIs ==
    ASSUME NEW t, NEW l, TableOK(t), ListOK(t, l)
    PROVE  StoredOf(t) = TotalOf(Sizes(t, l))
<1>1. PICK size : size = [k \in DOMAIN t |-> SizeOf(t[k])]
    OBVIOUS
<1>2. size \in [Range(l) -> Int] /\ DOMAIN size = DOMAIN t /\ Range(l) = DOMAIN t
  <2>1. \A k \in DOMAIN t : SizeOf(t[k]) \in Int
      BY SizesAre
  <2>2. Range(l) = DOMAIN t
      BY DEF ListOK
  <2>3. size \in [DOMAIN t -> Int]
      BY <1>1, <2>1
  <2> QED
      BY <2>2, <2>3
<1>3. l \in Seq(Keys) /\ IsInjective(l)
    BY DEF ListOK
<1> DEFINE Body(it) == [s \in SUBSET DOMAIN t |->
                IF s = {} THEN 0
                ELSE LET x == CHOOSE y \in s : TRUE
                     IN  NameLen[t[x].name] + t[x].contentLen + it[s \ {x}]]
           it == CHOOSE f : f = Body(f)
<1>4. StoredOf(t) = it[DOMAIN t]
    BY DEF StoredOf, FoldFunction, FoldFunctionOnSet, MapThenFoldSet
<1>5. ASSUME NEW f PROVE AddsUp(size, f) <=> f = Body(f)
  <2>1. ASSUME NEW s \in SUBSET DOMAIN t, s # {}
        PROVE  LET x == CHOOSE y \in s : TRUE
               IN  size[x] + f[s \ {x}]
                      = NameLen[t[x].name] + t[x].contentLen + f[s \ {x}]
    <3>1. PICK x \in s : x = CHOOSE y \in s : TRUE
        BY <2>1
    <3>2. size[x] = NameLen[t[x].name] + t[x].contentLen
        BY <1>1 DEF SizeOf
    <3>3. size[x] + f[s \ {x}] = NameLen[t[x].name] + t[x].contentLen + f[s \ {x}]
        BY <3>2
    <3> QED
        BY <3>1, <3>3
  <2>2. [s \in SUBSET DOMAIN size |->
             IF s = {} THEN 0
             ELSE LET x == CHOOSE y \in s : TRUE IN size[x] + f[s \ {x}]] = Body(f)
      BY <1>2, <2>1
  <2> QED
      BY <2>2 DEF AddsUp
<1>6. AddsUp(size, it)
  <2>1. PICK f : AddsUp(size, f)
      BY <1>2, <1>3, FoldExists
  <2>2. f = Body(f)
      BY <1>5, <2>1
  <2>3. it = Body(it)
      BY <2>2
  <2> QED
      BY <1>5, <2>3
<1> HIDE DEF it
<1>7. it[DOMAIN size] = TotalOf([i \in DOMAIN l |-> size[l[i]]])
    BY <1>2, <1>3, <1>6, FoldIs
<1>8. [i \in DOMAIN l |-> size[l[i]]] = Sizes(t, l)
    BY <1>1, <1>2 DEF Sizes, Range
<1> QED
    BY <1>2, <1>4, <1>7, <1>8

(* One entry changed, ...                                                  *)
LEMMA StoredChange ==
    ASSUME NEW t, NEW u, NEW l, TableOK(t), TableOK(u), ListOK(t, l), NEW k \in DOMAIN t,
           DOMAIN u = DOMAIN t, \A x \in DOMAIN t : x # k => u[x] = t[x]
    PROVE  StoredOf(u) = StoredOf(t) + SizeOf(u[k]) - SizeOf(t[k])
<1>1. ListOK(u, l)
    BY DEF ListOK
<1>2. PICK n \in Nat : n = Len(l) /\ DOMAIN l = 1..n
    BY SeqIsFunction DEF ListOK
<1>3. PICK j \in 1..n : l[j] = k
    BY <1>2 DEF ListOK, Range
<1>4. PICK v : /\ v = Sizes(t, l) /\ v \in Seq(Int) /\ Len(v) = n
               /\ \A i \in 1..n : v[i] = SizeOf(t[l[i]])
    BY <1>2, SizesAre
<1>5. PICK w : /\ w = Sizes(u, l) /\ w \in Seq(Int) /\ Len(w) = n
               /\ \A i \in 1..n : w[i] = SizeOf(u[l[i]])
    BY <1>1, <1>2, SizesAre
<1>6. \A i \in 1..n : i # j => w[i] = v[i]
  <2>1. \A i \in 1..n : l[i] \in DOMAIN t /\ (i # j => l[i] # k)
      BY <1>2, <1>3 DEF ListOK, IsInjective, Range
  <2> QED
      BY <1>4, <1>5, <2>1
<1>7. TotalOf(w) = TotalOf(v) + w[j] - v[j]
  <2>1. Len(w) = Len(v) /\ j \in 1..Len(w) /\ \A i \in 1..Len(w) : i # j => w[i] = v[i]
      BY <1>3, <1>4, <1>5, <1>6
  <2> QED
      BY <1>4, <1>5, <2>1, TotalChange
<1>8. StoredOf(t) = TotalOf(v) /\ StoredOf(u) = TotalOf(w)
    BY <1>1, <1>4, <1>5, StoredIs
<1> QED
    BY <1>3, <1>4, <1>5, <1>7, <1>8

(* ... no size changed, ...                                                *)
LEMMA StoredSame ==
    ASSUME NEW t, NEW u, NEW l, TableOK(t), TableOK(u), ListOK(t, l),
           DOMAIN u = DOMAIN t, \A k \in DOMAIN t : SizeOf(u[k]) = SizeOf(t[k])
    PROVE  StoredOf(u) = StoredOf(t)
<1>1. ListOK(u, l)
    BY DEF ListOK
<1>2. Sizes(u, l) = Sizes(t, l)
    BY DEF Sizes, ListOK, Range
<1> QED
    BY <1>1, <1>2, StoredIs

(* ... or one entry more.                                                  *)
LEMMA StoredMore ==
    ASSUME NEW t, NEW u, NEW l, TableOK(t), TableOK(u), ListOK(t, l),
           NEW k \in Keys, k \notin DOMAIN t,
           DOMAIN u = DOMAIN t \cup {k}, \A x \in DOMAIN t : u[x] = t[x]
    PROVE  StoredOf(u) = StoredOf(t) + SizeOf(u[k])
<1>1. PICK p : /\ p = Append(l, k) /\ p \in Seq(Keys) /\ Len(p) = Len(l) + 1
               /\ IsInjective(p) /\ Range(p) = Range(l) \cup {k}
  <2>1. l \in Seq(Keys) /\ IsInjective(l) /\ k \notin Range(l)
      BY DEF ListOK
  <2>2. /\ Append(l, k) \in Seq(Keys) /\ Len(Append(l, k)) = Len(l) + 1
        /\ IsInjective(Append(l, k)) /\ Range(Append(l, k)) = Range(l) \cup {k}
      BY <2>1, AppendInjective2
  <2> QED
      BY <2>2
<1>2. ListOK(u, p)
    BY <1>1 DEF ListOK
<1>3. PICK n \in Nat : n = Len(l) /\ DOMAIN l = 1..n /\ l \in [1..n -> Keys]
    BY SeqIsFunction DEF ListOK
<1>4. p[n + 1] = k /\ \A i \in 1..n : p[i] = l[i]
    BY <1>1, <1>3, AppendProperties DEF ListOK
<1>5. PICK v : /\ v = Sizes(t, l) /\ v \in Seq(Int) /\ Len(v) = n
               /\ \A i \in 1..n : v[i] = SizeOf(t[l[i]])
    BY <1>3, SizesAre
<1>6. PICK w : /\ w = Sizes(u, p) /\ w \in Seq(Int) /\ Len(w) = n + 1
               /\ \A i \in 1..(n + 1) : w[i] = SizeOf(u[p[i]])
  <2>1. Len(p) = n + 1
      BY <1>1, <1>3
  <2>2. PICK w : w = Sizes(u, p)
      OBVIOUS
  <2>3. w \in Seq(Int) /\ Len(w) = Len(p) /\ \A i \in 1..Len(p) : w[i] = SizeOf(u[p[i]])
      BY <1>2, <2>2, SizesAre
  <2> QED
      BY <2>1, <2>2, <2>3
<1>7. PICK x \in Int : x = SizeOf(u[k])
    BY <1>2, SizesAre
<1>8. w = Append(v, x)
  <2>1. PICK a : /\ a = Append(v, x) /\ a \in Seq(Int) /\ Len(a) = n + 1
                 /\ a[n + 1] = x /\ \A i \in 1..n : a[i] = v[i]
    <3>1. PICK a : a = Append(v, x)
        OBVIOUS
    <3>2. /\ a \in Seq(Int) /\ Len(a) = Len(v) + 1
          /\ a[Len(v) + 1] = x /\ \A i \in 1..Len(v) : a[i] = v[i]
        BY <1>5, <3>1, AppendProperties
    <3> QED
        BY <1>5, <3>1, <3>2
  <2>2. \A i \in 1..n : w[i] = v[i]
    <3> SUFFICES ASSUME NEW i \in 1..n PROVE w[i] = v[i]
        OBVIOUS
    <3>1. l[i] \in DOMAIN t /\ i \in 1..(n + 1)
        BY <1>3 DEF ListOK, Range
    <3> QED
        BY <1>4, <1>5, <1>6, <3>1
  <2>3. n + 1 \in 1..(n + 1) /\ \A i \in 1..(n + 1) : i \in 1..n \/ i = n + 1
      OBVIOUS
  <2>4. w[n + 1] = x
      BY <1>4, <1>6, <1>7, <2>3
  <2>5. \A i \in 1..(n + 1) : w[i] = a[i]
      BY <2>1, <2>2, <2>3, <2>4
  <2>6. w = a
    <3>1. DOMAIN w = 1..(n + 1) /\ DOMAIN a = 1..(n + 1)
        BY <1>6, <2>1, SeqIsFunction
    <3>2. w \in [1..(n+1) -> Int] /\ a \in [1..(n+1) -> Int]
        BY <1>6, <2>1, SeqIsFunction
    <3> QED
        BY <2>5, <3>2
  <2> QED
      BY <2>1, <2>6
<1>9. TotalOf(w) = TotalOf(v) + x
    BY <1>5, <1>8, TotalAppend
<1> QED
    BY <1>2, <1>5, <1>6, <1>7, <1>9, StoredIs

(* What an ejection leaves: the list without its first m files, counted    *)
(* off.  It takes the last one only if that alone is beyond the limit.     *)
LEMMA EjectedFirst ==
    ASSUME NEW tbl, NEW order, NEW bytes \in Int, TableOK(tbl), ListOK(tbl, order),
           Len(order) <= MaxSlots + 1, updateCacheSize(tbl, order, bytes, Len(order))
    PROVE  \E m \in 0..Len(order) :
              /\ table' = [k \in DOMAIN tbl \ {order[i] : i \in 1..m} |-> tbl[k]]
              /\ lru' = SubSeq(order, m + 1, Len(order))
              /\ bytesUsed' = bytes - PrefixSums(Sizes(tbl, order))[m]
              /\ m = Len(order) /\ m # 0 =>
                    bytes - PrefixSums(Sizes(tbl, order))[m - 1] > MaxBytes
<1>0. PICK len \in Nat : len = Len(order)
    BY SeqIsFunction DEF ListOK
<1>1. PICK dropped : dropped = PrefixSums(Sizes(tbl, order))
    OBVIOUS
<1>2. PICK n \in 0..len :
          /\ \A i \in 0..(n-1) : bytes - dropped[i] > MaxBytes
          /\ LET tooMany == TooManySlots(len - n)
                 m == IF tooMany THEN n + 1 ELSE n
             IN  /\ table' = [k \in DOMAIN tbl \ {order[i] : i \in 1..m} |-> tbl[k]]
                 /\ lru' = SubSeq(order, m + 1, Len(order))
                 /\ bytesUsed' = bytes - dropped[m]
    BY <1>0, <1>1 DEF updateCacheSize, Sizes
<1>3. MaxSlots \in Nat /\ MaxSlots # 0
    BY ConstantsAssumption
<1>4. CASE TooManySlots(len - n)
  <2>1. n = 0 /\ len > 1
      BY <1>0, <1>3, <1>4 DEF TooManySlots
  <2>2. /\ table' = [k \in DOMAIN tbl \ {order[i] : i \in 1..1} |-> tbl[k]]
        /\ lru' = SubSeq(order, 1 + 1, Len(order))
        /\ bytesUsed' = bytes - dropped[1]
    <3>1. 0 + 1 = 1
        OBVIOUS
    <3> QED
        BY <1>2, <1>4, <2>1, <3>1
  <2>3. 1 \in 0..Len(order) /\ 1 # Len(order)
      BY <1>0, <2>1
  <2> QED
      BY <1>1, <2>2, <2>3
<1>5. CASE ~TooManySlots(len - n)
  <2>1. /\ table' = [k \in DOMAIN tbl \ {order[i] : i \in 1..n} |-> tbl[k]]
        /\ lru' = SubSeq(order, n + 1, Len(order))
        /\ bytesUsed' = bytes - dropped[n]
      BY <1>2, <1>5
  <2>2. n # 0 => n - 1 \in 0..(n-1)
      OBVIOUS
  <2>3. n # 0 => bytes - dropped[n-1] > MaxBytes
      BY <1>2, <2>2
  <2>4. n \in 0..Len(order)
      BY <1>0
  <2> QED
      BY <1>1, <2>1, <2>3, <2>4
<1> QED
    BY <1>4, <1>5

\* The byte counter is exact while nothing was appended.
Exact == appends = 0 => bytesUsed = StoredOf(table)

(* An exact counter stays exact when files are ejected.                    *)
LEMMA EjectExact ==
    ASSUME NEW tbl, NEW order, TableOK(tbl), ListOK(tbl, order),
           Len(order) <= MaxSlots + 1,
           updateCacheSize(tbl, order, StoredOf(tbl), Len(order)),
           TableOK(table'), ListOK(table', lru')
    PROVE  bytesUsed' = StoredOf(table')
<1>1. PICK v : /\ v = Sizes(tbl, order) /\ v \in Seq(Int) /\ Len(v) = Len(order)
               /\ \A i \in 1..Len(order) : v[i] = SizeOf(tbl[order[i]])
    BY SizesAre
<1>2. PICK n \in Nat : n = Len(order) /\ n = Len(v) /\ DOMAIN order = 1..n
                       /\ order \in [1..n -> Keys]
    BY <1>1, SeqIsFunction DEF ListOK
<1>3. StoredOf(tbl) = TotalOf(v) /\ TotalOf(v) \in Int
  <2>1. n \in 0..n
      OBVIOUS
  <2> QED
      BY <1>1, <1>2, <2>1, StoredIs, PrefixSumsDef DEF TotalOf
<1>4. PICK m \in 0..n :
          /\ table' = [k \in DOMAIN tbl \ {order[i] : i \in 1..m} |-> tbl[k]]
          /\ lru' = SubSeq(order, m + 1, n)
          /\ bytesUsed' = StoredOf(tbl) - PrefixSums(v)[m]
  <2>1. PICK bytes \in Int : bytes = StoredOf(tbl)
      BY <1>3
  <2>2. updateCacheSize(tbl, order, bytes, Len(order))
      BY <2>1
  <2>3. \E m \in 0..Len(order) :
              /\ table' = [k \in DOMAIN tbl \ {order[i] : i \in 1..m} |-> tbl[k]]
              /\ lru' = SubSeq(order, m + 1, Len(order))
              /\ bytesUsed' = bytes - PrefixSums(Sizes(tbl, order))[m]
              /\ m = Len(order) /\ m # 0 =>
                    bytes - PrefixSums(Sizes(tbl, order))[m - 1] > MaxBytes
      BY <2>2, EjectedFirst
  <2> QED
      BY <1>1, <1>2, <2>1, <2>3
<1>5. TotalOf(SubSeq(v, m + 1, n)) = TotalOf(v) - PrefixSums(v)[m]
    BY <1>1, <1>2, TotalAfter
<1>6. Sizes(table', lru') = SubSeq(v, m + 1, n)
  <2>1. PICK r : r = SubSeq(v, m + 1, n)
      OBVIOUS
  <2>2. PICK k \in Nat : k = n - m
    <3>1. n - m \in Nat
        OBVIOUS
    <3> QED
        BY <3>1
  <2>3. r \in Seq(Int) /\ Len(r) = k /\ \A i \in 1..k : r[i] = v[m + i]
    <3>1. \A i \in (m + 1)..n : v[i] \in Int
        BY <1>1, <1>2, SeqIsFunction
    <3>2. /\ r \in Seq(Int)
          /\ Len(r) = IF m + 1 <= n THEN n - (m + 1) + 1 ELSE 0
          /\ \A i \in 1..(n - (m + 1) + 1) : r[i] = v[(m + 1) + i - 1]
        BY <2>1, <3>1, SubSeqProperties
    <3>3. n - (m + 1) + 1 = k /\ Len(r) = k
        BY <2>2, <3>2
    <3>4. \A i \in 1..k : (m + 1) + i - 1 = m + i
        OBVIOUS
    <3> QED
        BY <3>2, <3>3, <3>4
  <2>4. Len(lru') = k /\ \A i \in 1..k : lru'[i] = order[m + i]
    <3>1. \A i \in (m + 1)..n : order[i] \in Keys
        BY <1>2
    <3>2. /\ lru' \in Seq(Keys)
          /\ Len(lru') = IF m + 1 <= n THEN n - (m + 1) + 1 ELSE 0
          /\ \A i \in 1..(n - (m + 1) + 1) : lru'[i] = order[(m + 1) + i - 1]
        BY <1>4, <3>1, SubSeqProperties
    <3>3. n - (m + 1) + 1 = k /\ Len(lru') = k
        BY <2>2, <3>2
    <3>4. \A i \in 1..k : (m + 1) + i - 1 = m + i
        OBVIOUS
    <3> QED
        BY <3>2, <3>3, <3>4
  <2>5. PICK u : /\ u = Sizes(table', lru') /\ u \in Seq(Int) /\ Len(u) = k
                 /\ \A i \in 1..k : u[i] = SizeOf(table'[lru'[i]])
    <3>1. PICK u : u = Sizes(table', lru')
        OBVIOUS
    <3>2. /\ u \in Seq(Int) /\ Len(u) = Len(lru')
          /\ \A i \in 1..Len(lru') : u[i] = SizeOf(table'[lru'[i]])
        BY <3>1, SizesAre
    <3> QED
        BY <2>4, <3>1, <3>2
  <2>6. ASSUME NEW i \in 1..k PROVE u[i] = r[i]
    <3>1. m + i \in 1..n
        BY <2>2
    <3>2. lru'[i] \in DOMAIN table'
      <4>1. DOMAIN lru' = 1..k
          BY <2>4, SeqIsFunction DEF ListOK
      <4> QED
          BY <4>1 DEF ListOK, Range
    <3>3. table'[lru'[i]] = tbl[order[m + i]]
        BY <1>4, <2>4, <3>2
    <3>4. v[m + i] = SizeOf(tbl[order[m + i]])
        BY <1>1, <1>2, <3>1
    <3> QED
        BY <2>3, <2>5, <3>3, <3>4
  <2>7. u = r
    <3>1. u \in [1..k -> Int] /\ r \in [1..k -> Int]
        BY <2>3, <2>5, SeqIsFunction
    <3> QED
        BY <2>6, <3>1
  <2> QED
      BY <2>1, <2>5, <2>7
<1> QED
    BY <1>3, <1>4, <1>5, <1>6, StoredIs

\* The limit is at least a megabyte and a name is a path.
NamesFit == \A n \in Names : NameLen[n] <= MaxBytes

\* A call on file n that may eject starts from the table tbl, with bytes counted
\* and the file at the head of the list.
Starts(tbl, n, bytes) ==
    /\ TableOK(tbl) /\ ListOK(tbl, moveToTop(KeyOf[n]))
    /\ Len(moveToTop(KeyOf[n])) <= MaxSlots + 1
    /\ bytes \in Int
    /\ updateCacheSize(tbl, moveToTop(KeyOf[n]), bytes, Len(moveToTop(KeyOf[n])))
    /\ DOMAIN tbl = DOMAIN table \cup {KeyOf[n]}
    /\ appends' = 0 => appends = 0
    /\ Exact /\ appends' = 0 => bytes = StoredOf(tbl)
    /\ NamesFit /\ appends' = 0 => SizeOf(tbl[KeyOf[n]]) <= MaxBytes

LEMMA StoredType == ASSUME IInv PROVE StoredOf(table) \in Int
<1>1. PICK v : v = Sizes(table, lru) /\ v \in Seq(Int)
    BY IInvParts, SizesAre DEF Parts
<1>2. PICK n \in Nat : n = Len(v) /\ n \in 0..n
    BY <1>1, SeqIsFunction
<1>3. TotalOf(v) \in Int
    BY <1>1, <1>2, PrefixSumsDef DEF TotalOf
<1> QED
    BY <1>1, <1>3, StoredIs, IInvParts DEF Parts

LEMMA InsertStarts ==
    ASSUME IInv, NEW c \in Clients, NEW n \in Names, NEW acquireLock \in BOOLEAN,
           fs_insert(c, n, acquireLock)
    PROVE  \E tbl, bytes : Starts(tbl, n, bytes)
<1>1. PICK k \in Keys : k = KeyOf[n] /\ k \notin DOMAIN table
    BY KeyOfType DEF fs_insert, InsertResult, Stored, OK, ALREADY_EXISTS
<1>2. PICK e : e = [name |-> n, contentLen |-> 0, waiting |-> << >>,
                    owner |-> IF acquireLock THEN c ELSE EmptyOwner]
    OBVIOUS
<1>3. PICK tbl : tbl = [x \in DOMAIN table \cup {k} |-> IF x = k THEN e ELSE table[x]]
    OBVIOUS
<1>4. PICK order : order = moveToTop(k)
    OBVIOUS
<1>5. updateCacheSize(tbl, order, bytesUsed + SizeOf(e), slotUsed + 1) /\ UNCHANGED appends
    BY <1>1, <1>2, <1>3, <1>4 DEF fs_insert
<1>6. e \in Entry /\ e.name = n
    BY <1>2 DEF Entry
<1>7. SizeOf(e) \in Nat /\ SizeOf(e) = NameLen[n]
    BY <1>2, ConstantsAssumption DEF SizeOf
<1>8. TableOK(tbl)
    BY <1>1, <1>3, <1>6, IInvParts DEF TableOK, Parts
<1>9. ListOK(tbl, order) /\ Len(order) = Len(lru) + 1
    BY <1>1, <1>3, <1>4, IInvParts, MoveToTopList DEF ListOK, Parts
<1>10. /\ Len(order) <= MaxSlots + 1 /\ slotUsed + 1 = Len(order)
       /\ bytesUsed + SizeOf(e) \in Int
    BY <1>7, <1>9, IInvParts, ConstantsAssumption DEF CountedWithinLimits, Parts
<1>11. /\ DOMAIN tbl = DOMAIN table \cup {k} /\ tbl[k] = e
       /\ \A x \in DOMAIN table : tbl[x] = table[x]
    BY <1>1, <1>3
<1>12. StoredOf(tbl) = StoredOf(table) + SizeOf(e)
    BY <1>1, <1>8, <1>11, StoredMore, IInvParts DEF Parts
<1>13. Starts(tbl, n, bytesUsed + SizeOf(e))
  <2>1. Exact /\ appends' = 0 => bytesUsed + SizeOf(e) = StoredOf(tbl)
      BY <1>5, <1>12 DEF Exact
  <2>2. NamesFit => SizeOf(tbl[k]) <= MaxBytes
      BY <1>7, <1>11 DEF NamesFit
  <2> QED
      BY <1>1, <1>4, <1>5, <1>8, <1>9, <1>10, <1>11, <2>1, <2>2 DEF Starts
<1> QED
    BY <1>13

\* A file that is stored gets entry e.
LEMMA ResizeStarts ==
    ASSUME IInv, NEW n \in Names, Stored(n), NEW e \in Entry, NEW bytes \in Int,
           KeyOf[e.name] = KeyOf[n],
           updateCacheSize([table EXCEPT ![KeyOf[n]] = e], moveToTop(KeyOf[n]),
                           bytes, slotUsed),
           appends' = 0 => /\ appends = 0
                           /\ bytes = bytesUsed + SizeOf(e) - SizeOf(File(n))
                           /\ SizeOf(e) <= MaxBytes
    PROVE  \E tbl : Starts(tbl, n, bytes)
<1>1. PICK k \in Keys : k = KeyOf[n] /\ k \in DOMAIN table
    BY KeyOfType DEF Stored
<1>2. PICK tbl : tbl = [table EXCEPT ![k] = e]
    OBVIOUS
<1>3. PICK order : order = moveToTop(k)
    OBVIOUS
<1>4. /\ DOMAIN tbl = DOMAIN table
      /\ \A x \in DOMAIN table : tbl[x] = IF x = k THEN e ELSE table[x]
    BY <1>2
<1>5. TableOK(tbl)
  <2>1. TableOK(table)
      BY IInvParts DEF Parts
  <2>2. tbl \in [DOMAIN tbl -> Entry]
      BY <1>2, <1>4, <2>1 DEF TableOK
  <2> QED
      BY <1>1, <1>4, <2>1, <2>2 DEF TableOK
<1>6. ListOK(tbl, order) /\ Len(order) = Len(lru)
    BY <1>1, <1>3, <1>4, IInvParts, MoveToTopList DEF ListOK, Parts
<1>7. Len(order) <= MaxSlots + 1 /\ slotUsed = Len(order)
    BY <1>6, IInvParts, ConstantsAssumption DEF CountedWithinLimits, Parts
<1>8. updateCacheSize(tbl, order, bytes, slotUsed)
    BY <1>1, <1>2, <1>3
<1>9. StoredOf(tbl) = StoredOf(table) + SizeOf(e) - SizeOf(table[k])
  <2>1. tbl[k] = e /\ \A x \in DOMAIN table : x # k => tbl[x] = table[x]
      BY <1>1, <1>4
  <2> QED
      BY <1>1, <1>4, <1>5, <2>1, StoredChange, IInvParts DEF Parts
<1>10. Exact /\ appends' = 0 => bytes = StoredOf(tbl)
    BY <1>1, <1>9 DEF Exact, File
<1>11. appends' = 0 => SizeOf(tbl[k]) <= MaxBytes
    BY <1>1, <1>4
<1>12. DOMAIN tbl = DOMAIN table \cup {k}
    BY <1>1, <1>4
<1> QED
    BY <1>1, <1>3, <1>5, <1>6, <1>7, <1>8, <1>10, <1>11, <1>12 DEF Starts

LEMMA ModifyStarts ==
    ASSUME IInv, NEW c \in Clients, NEW n \in Names, NEW len \in WriteLens,
           fs_modify(c, n, len)
    PROVE  \E tbl, bytes : Starts(tbl, n, bytes)
<1>1. Stored(n) /\ ~(len + NameLen[n] > MaxBytes)
    BY DEF fs_modify, ModifyResult, OK, NOT_EXISTS, NOT_ALLOWED, TOO_BIG
<1>2. PICK e : e = [File(n) EXCEPT !.name = n, !.contentLen = len]
    OBVIOUS
<1>3. File(n) \in Entry /\ SizeOf(File(n)) \in Nat
    BY <1>1, StoredEntry
<1>4. len \in Nat /\ NameLen[n] \in Nat /\ MaxBytes \in Nat
    BY ConstantsAssumption
<1>5. e \in Entry /\ e.name = n /\ e.contentLen = len
    BY <1>2, <1>3, <1>4 DEF Entry
<1>6. SizeOf(e) \in Nat /\ SizeOf(e) <= MaxBytes
    BY <1>1, <1>4, <1>5 DEF SizeOf
<1>7. PICK bytes : bytes = bytesUsed + SizeOf(e) - SizeOf(File(n))
    OBVIOUS
<1>8. bytes \in Int
    BY <1>3, <1>6, <1>7, IInvParts DEF Parts
<1>9. /\ updateCacheSize([table EXCEPT ![KeyOf[n]] = e], moveToTop(KeyOf[n]), bytes, slotUsed)
      /\ UNCHANGED <<toClean, appends>>
    BY <1>2, <1>7 DEF fs_modify
<1>10. \E tbl : Starts(tbl, n, bytes)
    BY <1>1, <1>5, <1>6, <1>7, <1>8, <1>9, ResizeStarts
<1> QED
    BY <1>10

LEMMA AppendStarts ==
    ASSUME IInv, NEW c \in Clients, NEW n \in Names, NEW len \in AppendLens,
           fs_append(c, n, len)
    PROVE  \E tbl, bytes : Starts(tbl, n, bytes)
<1>1. Stored(n)
    BY DEF fs_append, AppendResult, OK, NOT_EXISTS
<1>2. PICK e : e = [File(n) EXCEPT !.contentLen = @ + len]
    OBVIOUS
<1>3. File(n) \in Entry /\ KeyOf[File(n).name] = KeyOf[n]
    BY <1>1, StoredEntry
<1>4. len \in Nat /\ NameLen[n] \in Nat
    BY ConstantsAssumption
<1>5. e \in Entry /\ e.name = File(n).name
    BY <1>2, <1>3, <1>4 DEF Entry
<1>6. PICK bytes : bytes = bytesUsed + (len + NameLen[n]) - e.contentLen
    OBVIOUS
<1>7. bytes \in Int
    BY <1>4, <1>5, <1>6, IInvParts DEF Entry, Parts
<1>8. /\ updateCacheSize([table EXCEPT ![KeyOf[n]] = e], moveToTop(KeyOf[n]), bytes, slotUsed)
      /\ appends' = appends + 1
    BY <1>2, <1>6 DEF fs_append
<1>9. appends' # 0
    BY <1>8, IInvParts, ConstantsAssumption DEF Parts
<1>10. \E tbl : Starts(tbl, n, bytes)
    BY <1>1, <1>3, <1>5, <1>7, <1>8, <1>9, ResizeStarts
<1> QED
    BY <1>10

LEMMA MayEjectStarts ==
    ASSUME IInv, NEW c \in Clients, NEW n \in Names, MayEject(c, n)
    PROVE  \E tbl, bytes : Starts(tbl, n, bytes)
BY InsertStarts, ModifyStarts, AppendStarts DEF MayEject

(* The counter stays exact through every step.                             *)
LEMMA StartsExact ==
    ASSUME IInv, IInv', Exact, NEW n \in Names, NEW tbl, NEW bytes, Starts(tbl, n, bytes)
    PROVE  Exact'
<1> SUFFICES ASSUME appends' = 0 PROVE bytesUsed' = StoredOf(table')
    BY DEF Exact
<1>1. PICK order : order = moveToTop(KeyOf[n])
    OBVIOUS
<1>2. /\ TableOK(tbl) /\ ListOK(tbl, order) /\ Len(order) <= MaxSlots + 1
      /\ updateCacheSize(tbl, order, StoredOf(tbl), Len(order))
    BY <1>1 DEF Starts
<1>3. TableOK(table') /\ ListOK(table', lru')
    BY IInvPartsNext DEF Parts
<1> QED
    BY <1>2, <1>3, EjectExact

LEMMA RemoveExact ==
    ASSUME IInv, Exact, NEW c \in Clients, NEW n \in Names, fs_remove(c, n)
    PROVE  Exact'
<1>1. IInv'
    BY RemoveKeeps
<1>2. PICK k \in Keys : k = KeyOf[n] /\ k \in DOMAIN table
    BY KeyOfType DEF fs_remove, RemoveResult, Stored, OK, NOT_EXISTS
<1>3. PICK t : t = [x \in DOMAIN table \ {k} |-> table[x]]
    OBVIOUS
<1>4. table' = t /\ bytesUsed' = bytesUsed - SizeOf(table[k]) /\ UNCHANGED appends
    BY <1>2, <1>3 DEF fs_remove
<1>5. PICK l : l = lru' /\ TableOK(t) /\ ListOK(t, l)
    BY <1>1, <1>4, IInvPartsNext DEF Parts
<1>6. /\ k \notin DOMAIN t /\ DOMAIN table = DOMAIN t \cup {k}
      /\ \A x \in DOMAIN t : table[x] = t[x]
    BY <1>2, <1>3
<1>7. TableOK(table) /\ SizeOf(table[k]) \in Int
    BY <1>2, IInvParts, SizesAre DEF Parts
<1>8. StoredOf(table) = StoredOf(t) + SizeOf(table[k])
    BY <1>2, <1>5, <1>6, <1>7, StoredMore
<1>9. StoredOf(t) \in Int
  <2>1. PICK v : v = Sizes(t, l) /\ v \in Seq(Int)
      BY <1>5, SizesAre
  <2>2. PICK m \in Nat : m = Len(v) /\ m \in 0..m
      BY <2>1, SeqIsFunction
  <2>3. TotalOf(v) \in Int
      BY <2>1, <2>2, PrefixSumsDef DEF TotalOf
  <2> QED
      BY <1>5, <2>1, <2>3, StoredIs
<1> QED
    BY <1>4, <1>7, <1>8, <1>9 DEF Exact

\* The files and their sizes stay as they are.
SizesStay ==
    /\ DOMAIN table' = DOMAIN table
    /\ \A k \in DOMAIN table : SizeOf(table'[k]) = SizeOf(table[k])
    /\ UNCHANGED <<bytesUsed, appends>>

LEMMA SizesStayExact ==
    ASSUME IInv, IInv', Exact, SizesStay PROVE Exact'
<1>1. TableOK(table) /\ ListOK(table, lru)
    BY IInvParts DEF Parts
<1>2. TableOK(table')
    BY IInvPartsNext DEF Parts
<1>3. PICK t : t = table'
    OBVIOUS
<1>4. StoredOf(t) = StoredOf(table)
    BY <1>1, <1>2, <1>3, StoredSame DEF SizesStay
<1> QED
    BY <1>3, <1>4 DEF SizesStay, Exact

LEMMA InnerUnlockSizes ==
    ASSUME IInv, NEW c, NEW k, inner_unlock(c, k), UNCHANGED <<bytesUsed, appends>>
    PROVE  SizesStay
<1>1. CASE UnlockResult(c, k) = OK
  <2>1. k \in DOMAIN table
      BY <1>1 DEF UnlockResult, OK, NOT_EXISTS
  <2>2. table' = [table EXCEPT ![k] = PassLock(table[k])]
      BY <1>1 DEF inner_unlock
  <2>3. table[k] \in Entry
      BY <2>1, TableEntry
  <2>4. /\ PassLock(table[k]).name = table[k].name
        /\ PassLock(table[k]).contentLen = table[k].contentLen
      BY <2>3 DEF PassLock, Entry
  <2>5. /\ DOMAIN table' = DOMAIN table
        /\ \A x \in DOMAIN table : table'[x] = IF x = k THEN PassLock(table[k]) ELSE table[x]
      BY <2>2
  <2> QED
      BY <2>4, <2>5 DEF SizesStay, SizeOf
<1>2. CASE UnlockResult(c, k) # OK
    BY <1>2 DEF inner_unlock, SizesStay
<1> QED
    BY <1>1, <1>2

LEMMA TryLockSizes ==
    ASSUME IInv, NEW c \in Clients, NEW n \in Names, fs_trylock(c, n)
    PROVE  SizesStay
<1>1. PICK k : k = KeyOf[n] /\ k \in DOMAIN table
    BY DEF fs_trylock, TryLockResult, Stored, OK, NOT_EXISTS, WAITING_ON_LOCK
<1>2. table[k] \in Entry
    BY <1>1, TableEntry
<1>3. PICK e : /\ table' = [table EXCEPT ![k] = e]
               /\ e.name = table[k].name /\ e.contentLen = table[k].contentLen
  <2>1. CASE table' = [table EXCEPT ![k].owner = c]
    <3>1. PICK e : e = [table[k] EXCEPT !.owner = c]
        OBVIOUS
    <3>2. e.name = table[k].name /\ e.contentLen = table[k].contentLen
        BY <1>2, <3>1 DEF Entry
    <3> QED
        BY <2>1, <3>1, <3>2
  <2>2. CASE table' = [table EXCEPT ![k].waiting = Append(@, c)]
    <3>1. PICK e : e = [table[k] EXCEPT !.waiting = Append(table[k].waiting, c)]
        OBVIOUS
    <3>2. e.name = table[k].name /\ e.contentLen = table[k].contentLen
        BY <1>2, <3>1 DEF Entry
    <3> QED
        BY <2>2, <3>1, <3>2
  <2> QED
      BY <1>1, <2>1, <2>2 DEF fs_trylock
<1>4. /\ DOMAIN table' = DOMAIN table
      /\ \A x \in DOMAIN table : table'[x] = IF x = k THEN e ELSE table[x]
    BY <1>3
<1>5. UNCHANGED <<bytesUsed, appends>>
    BY DEF fs_trylock
<1> QED
    BY <1>3, <1>4, <1>5 DEF SizesStay, SizeOf

LEMMA NextExact == IInv /\ Exact /\ [Next]_vars => Exact'
<1> SUFFICES ASSUME IInv, Exact, [Next]_vars PROVE Exact'
    OBVIOUS
<1>0. IInv'
    BY NextIInv
<1>1. ASSUME NEW c \in Clients, NEW n \in Names, ClientCall(c, n) PROVE Exact'
  <2>1. CASE MayEject(c, n)
      BY <1>0, <2>1, MayEjectStarts, StartsExact
  <2>2. CASE fs_remove(c, n)
      BY <2>2, RemoveExact
  <2>3. CASE fs_obtain(c, n)
    <3>1. SizesStay
        BY <2>3 DEF fs_obtain, SizesStay
    <3> QED
        BY <1>0, <3>1, SizesStayExact
  <2>4. CASE fs_trylock(c, n)
      BY <1>0, <2>4, TryLockSizes, SizesStayExact
  <2>5. CASE fs_unlock(c, n)
    <3>1. SizesStay
        BY <2>5, InnerUnlockSizes DEF fs_unlock
    <3> QED
        BY <1>0, <3>1, SizesStayExact
  <2> QED
      BY <1>1, <2>1, <2>2, <2>3, <2>4, <2>5 DEF ClientCall, MayEject
<1>2. CASE fs_clean_next
  <2>1. SizesStay
      BY <1>2, InnerUnlockSizes DEF fs_clean_next
  <2> QED
      BY <1>0, <2>1, SizesStayExact
<1>3. ASSUME NEW c \in Clients, NEW keys \in Sessions, fs_clean(c, keys) PROVE Exact'
    BY <1>3 DEF fs_clean, Exact
<1>4. CASE lockThreadTake \/ UNCHANGED vars
    BY <1>4 DEF lockThreadTake, vars, Exact
<1> QED
    BY <1>1, <1>2, <1>3, <1>4 DEF Next

LEMMA InitExact == Init => Exact
<1> SUFFICES ASSUME Init PROVE Exact
    OBVIOUS
<1>1. TableOK(table) /\ ListOK(table, lru) /\ lru = << >>
    BY InitIInv, IInvParts DEF Parts, Init
<1>2. Sizes(table, lru) = << >>
    BY <1>1 DEF Sizes
<1> QED
    BY <1>1, <1>2, StoredIs, TotalEmpty DEF Exact, Init

LEMMA ExactHolds == Spec => [](IInv /\ Exact)
<1>1. IInv /\ Exact /\ [Next]_vars => (IInv /\ Exact)'
    BY NextIInv, NextExact
<1> QED
    BY InitIInv, InitExact, <1>1, PTL DEF Spec

(* fs_insert, fs_modify, fs_remove and the loops of updateCacheSize add    *)
(* and subtract the very sizes of the files that come and go: bytesUsed is *)
(* the sum of the stored sizes, and those are within the limit, until      *)
(* fs_append counts its request differently.                               *)
THEOREM CounterExactUntilAppend == Spec => []ExactUntilAppend
<1>1. ASSUME IInv, Exact PROVE ExactUntilAppend
  <2>1. StoredBytes = StoredOf(table)
      BY DEF StoredBytes, StoredOf
  <2>2. lru = << >> => StoredOf(table) = 0
    <3>1. lru = << >> => Sizes(table, lru) = << >>
        BY DEF Sizes
    <3> QED
        BY <1>1, <3>1, IInvParts, StoredIs, TotalEmpty DEF Parts
  <2>3. lru # << >> => bytesUsed <= MaxBytes
      BY <1>1, IInvParts DEF Parts, CountedWithinLimits
  <2> QED
      BY <1>1, <2>1, <2>2, <2>3, ConstantsAssumption DEF ExactUntilAppend, Exact, ByteAccounting
<1> QED
    BY <1>1, ExactHolds, PTL

(* Linking a file in at the head keeps the order of the others.            *)
LEMMA MoveToTopOrder ==
    ASSUME IInv, NEW k \in Keys, NEW i \in DOMAIN lru, NEW j \in DOMAIN lru, i < j,
           lru[i] # k
    PROVE  \E p \in DOMAIN moveToTop(k), q \in DOMAIN moveToTop(k) :
              p < q /\ moveToTop(k)[p] = lru[i] /\ moveToTop(k)[q] = lru[j]
<1>1. PICK n \in Nat : /\ n = Len(lru) /\ DOMAIN lru = 1..n /\ lru \in [1..n -> Keys]
                       /\ lru \in Seq(Keys) /\ IsInjective(lru)
    BY IInvParts, SeqIsFunction DEF Parts, ListOK
<1>2. CASE k \notin Range(lru)
  <2>1. moveToTop(k) = Append(lru, k)
      BY <1>2 DEF moveToTop, Range
  <2>2. PICK o : o = Append(lru, k)
      OBVIOUS
  <2>3. o \in Seq(Keys) /\ Len(o) = n + 1 /\ \A x \in 1..n : o[x] = lru[x]
      BY <1>1, <2>2, AppendProperties
  <2>4. DOMAIN o = 1..(n + 1) /\ i \in 1..(n + 1) /\ j \in 1..(n + 1)
      BY <1>1, <2>3, SeqIsFunction
  <2> QED
      BY <1>1, <2>1, <2>2, <2>3, <2>4
<1>3. CASE k \in Range(lru)
  <2> DEFINE h == CHOOSE x \in DOMAIN lru : lru[x] = k
  <2>1. h \in 1..n /\ lru[h] = k
    <3>1. \E x \in DOMAIN lru : lru[x] = k
        BY <1>3 DEF Range
    <3> QED
        BY <1>1, <3>1
  <2>2. moveToTop(k) = Append(SubSeq(lru, 1, h - 1) \o SubSeq(lru, h + 1, Len(lru)), k)
      BY <1>3 DEF moveToTop, Range
  <2> HIDE DEF h
  <2>3. PICK r : r = SubSeq(lru, 1, h - 1) \o SubSeq(lru, h + 1, Len(lru))
      OBVIOUS
  <2>4. r \in Seq(Keys) /\ Len(r) = n - 1 /\ Without(lru, r, n, h)
      BY <1>1, <2>1, <2>3, RemoveAtIs, Zenon
  <2>5. PICK o : o = Append(r, k)
      OBVIOUS
  <2>6. o \in Seq(Keys) /\ Len(o) = n /\ o[n] = k /\ \A x \in 1..(n - 1) : o[x] = r[x]
    <3>1. /\ o \in Seq(Keys) /\ Len(o) = Len(r) + 1
          /\ o[Len(r) + 1] = k /\ \A x \in 1..Len(r) : o[x] = r[x]
        BY <2>4, <2>5, AppendProperties
    <3>2. Len(r) + 1 = n
        BY <2>4
    <3> QED
        BY <2>4, <3>1, <3>2
  <2>7. DOMAIN o = 1..n /\ o = moveToTop(k)
      BY <2>2, <2>3, <2>5, <2>6, SeqIsFunction
  <2>8. i # h /\ i \in 1..n /\ j \in 1..n
      BY <1>1, <2>1
  <2>9. PICK p \in 1..(n - 1) : o[p] = lru[i] /\ p = IF i < h THEN i ELSE i - 1
    <3>1. PICK p \in Int : p = IF i < h THEN i ELSE i - 1
        BY <2>8
    <3>2. p \in 1..(n - 1) /\ (IF p < h THEN p ELSE p + 1) = i
        BY <2>1, <2>8, <3>1
    <3>3. r[p] = lru[i]
        BY <2>4, <3>2 DEF Without
    <3> QED
        BY <2>6, <3>1, <3>2, <3>3
  <2>10. CASE j = h
    <3>1. p < n /\ n \in 1..n /\ p \in 1..n
        BY <2>8
    <3> QED
        BY <2>1, <2>6, <2>7, <2>9, <2>10, <3>1
  <2>11. CASE j # h
    <3>1. PICK q \in Int : q = IF j < h THEN j ELSE j - 1
        BY <2>8
    <3>2. q \in 1..(n - 1) /\ (IF q < h THEN q ELSE q + 1) = j
        BY <2>1, <2>8, <2>11, <3>1
    <3>3. r[q] = lru[j]
        BY <2>4, <3>2 DEF Without
    <3>4. p < q
        BY <2>1, <2>8, <2>9, <2>11, <3>1
    <3>5. p \in 1..n /\ q \in 1..n /\ o[q] = lru[j]
        BY <2>6, <2>8, <3>2, <3>3
    <3> QED
        BY <2>7, <2>9, <3>4, <3>5
  <2> QED
      BY <2>10, <2>11
<1> QED
    BY <1>2, <1>3

LEMMA MoveToTopLast ==
    ASSUME IInv, NEW k \in Keys
    PROVE  Len(moveToTop(k)) # 0 /\ moveToTop(k)[Len(moveToTop(k))] = k
<1>1. lru \in Seq(Keys)
    BY IInvParts DEF Parts, ListOK
<1>2. \A l \in Seq(Keys) : Len(Append(l, k)) # 0 /\ Append(l, k)[Len(Append(l, k))] = k
  <2> SUFFICES ASSUME NEW l \in Seq(Keys)
               PROVE  Len(Append(l, k)) # 0 /\ Append(l, k)[Len(Append(l, k))] = k
      OBVIOUS
  <2>1. PICK o : o = Append(l, k)
      OBVIOUS
  <2>2. Len(l) \in Nat /\ Len(o) = Len(l) + 1 /\ o[Len(l) + 1] = k
      BY <2>1, AppendProperties
  <2> QED
      BY <2>1, <2>2
<1>3. CASE \E i \in DOMAIN lru : lru[i] = k
  <2> DEFINE h == CHOOSE x \in DOMAIN lru : lru[x] = k
  <2>1. h \in 1..Len(lru)
      BY <1>1, <1>3, SeqIsFunction
  <2>2. moveToTop(k) = Append(SubSeq(lru, 1, h - 1) \o SubSeq(lru, h + 1, Len(lru)), k)
      BY <1>3 DEF moveToTop
  <2> HIDE DEF h
  <2>3. SubSeq(lru, 1, h - 1) \o SubSeq(lru, h + 1, Len(lru)) \in Seq(Keys)
      BY <1>1, <2>1, RemoveAtIs
  <2> QED
      BY <1>2, <2>2, <2>3
<1>4. CASE ~(\E i \in DOMAIN lru : lru[i] = k)
    BY <1>1, <1>2, <1>4 DEF moveToTop
<1> QED
    BY <1>3, <1>4

(* What a call may eject follows the order of use.                         *)
LEMMA StartsEjects ==
    ASSUME IInv, IInv', Exact, NamesFit, NEW n \in Names, NEW tbl, NEW bytes,
           Starts(tbl, n, bytes)
    PROVE  /\ \A i, j \in DOMAIN lru :
                 i < j /\ lru[j] \notin DOMAIN table' /\ lru[i] # KeyOf[n]
                    => lru[i] \notin DOMAIN table'
           /\ appends' = 0 => KeyOf[n] \in DOMAIN table'
<1>1. PICK k \in Keys : k = KeyOf[n]
    BY KeyOfType
<1>2. PICK order : order = moveToTop(k)
    OBVIOUS
<1>3. /\ TableOK(tbl) /\ ListOK(tbl, order) /\ Len(order) <= MaxSlots + 1
      /\ bytes \in Int /\ updateCacheSize(tbl, order, bytes, Len(order))
      /\ DOMAIN tbl = DOMAIN table \cup {k}
    BY <1>1, <1>2 DEF Starts
<1>4. PICK len \in Nat : len = Len(order) /\ DOMAIN order = 1..len /\ order \in Seq(Keys)
                         /\ IsInjective(order) /\ Range(order) = DOMAIN tbl
    BY <1>3, SeqIsFunction DEF ListOK
<1>5. PICK m \in 0..len :
          /\ table' = [x \in DOMAIN tbl \ {order[i] : i \in 1..m} |-> tbl[x]]
          /\ m = len /\ m # 0 => bytes - PrefixSums(Sizes(tbl, order))[m - 1] > MaxBytes
  <2>1. \E m \in 0..Len(order) :
              /\ table' = [x \in DOMAIN tbl \ {order[i] : i \in 1..m} |-> tbl[x]]
              /\ lru' = SubSeq(order, m + 1, Len(order))
              /\ bytesUsed' = bytes - PrefixSums(Sizes(tbl, order))[m]
              /\ m = Len(order) /\ m # 0 =>
                    bytes - PrefixSums(Sizes(tbl, order))[m - 1] > MaxBytes
      BY <1>3, EjectedFirst
  <2> QED
      BY <1>4, <2>1
<1>6. \A p \in 1..len : order[p] \in DOMAIN table' <=> p > m
  <2> SUFFICES ASSUME NEW p \in 1..len PROVE order[p] \in DOMAIN table' <=> p > m
      OBVIOUS
  <2>1. DOMAIN table' = DOMAIN tbl \ {order[i] : i \in 1..m}
      BY <1>5
  <2>2. order[p] \in DOMAIN tbl
      BY <1>4 DEF Range
  <2>3. p > m => \A i \in 1..m : order[i] # order[p]
      BY <1>4 DEF IsInjective
  <2>4. ~(p > m) => p \in 1..m
      OBVIOUS
  <2> QED
      BY <2>1, <2>2, <2>3, <2>4
<1>7. ASSUME NEW i \in DOMAIN lru, NEW j \in DOMAIN lru,
             i < j, lru[j] \notin DOMAIN table', lru[i] # k
      PROVE  lru[i] \notin DOMAIN table'
  <2>1. PICK p \in DOMAIN order, q \in DOMAIN order :
            p < q /\ order[p] = lru[i] /\ order[q] = lru[j]
      BY <1>2, <1>7, MoveToTopOrder
  <2>2. ~(q > m)
      BY <1>4, <1>6, <1>7, <2>1
  <2>3. ~(p > m)
      BY <1>4, <2>1, <2>2
  <2> QED
      BY <1>4, <1>6, <2>1, <2>3
<1>8. ASSUME appends' = 0 PROVE k \in DOMAIN table'
  <2>1. len # 0 /\ order[len] = k
      BY <1>1, <1>2, <1>4, MoveToTopLast
  <2>2. bytes = StoredOf(tbl) /\ SizeOf(tbl[k]) <= MaxBytes
      BY <1>1, <1>8 DEF Starts
  <2>3. PICK v : /\ v = Sizes(tbl, order) /\ v \in Seq(Int) /\ Len(v) = len
                 /\ v[len] = SizeOf(tbl[k])
    <3>1. PICK v : /\ v = Sizes(tbl, order) /\ v \in Seq(Int) /\ Len(v) = Len(order)
                   /\ \A i \in 1..Len(order) : v[i] = SizeOf(tbl[order[i]])
        BY <1>3, SizesAre
    <3>2. len \in 1..len
        BY <2>1
    <3> QED
        BY <1>4, <2>1, <3>1, <3>2
  <2>4. bytes = PrefixSums(v)[len]
      BY <1>3, <2>2, <2>3, StoredIs DEF TotalOf
  <2>5. /\ PrefixSums(v)[len] = PrefixSums(v)[len - 1] + v[len]
        /\ PrefixSums(v)[len - 1] \in Int /\ v[len] \in Int
    <3>1. len \in 1..Len(v) /\ len - 1 \in 0..Len(v)
        BY <2>1, <2>3
    <3> QED
        BY <2>3, <3>1, PrefixSumsDef, SeqIsFunction
  <2>6. ~(bytes - PrefixSums(v)[len - 1] > MaxBytes)
      BY <2>2, <2>3, <2>4, <2>5, ConstantsAssumption
  <2>7. m # len
      BY <1>5, <2>1, <2>3, <2>6
  <2>8. len \in 1..len /\ len > m
      BY <2>1, <2>7
  <2> QED
      BY <1>6, <2>1, <2>8
<1> QED
    BY <1>1, <1>7, <1>8

(* updateCacheSize ejects from the tail of the list that moveToTop has     *)
(* just put the file of the call at the head of, and stops in time while   *)
(* the counter is exact: fs_modify refuses what is too big by itself, and  *)
(* fs_insert, which does not, adds a name only.                            *)
THEOREM EjectionFollowsUse == ASSUME NamesFit PROVE Spec => EjectsLeastRecent
<1>1. ASSUME IInv, Exact, IInv', NEW c \in Clients, NEW n \in Names, MayEject(c, n)
      PROVE  /\ \A i, j \in DOMAIN lru :
                   i < j /\ lru[j] \notin DOMAIN table' /\ lru[i] # KeyOf[n]
                      => lru[i] \notin DOMAIN table'
             /\ appends' = 0 => KeyOf[n] \in DOMAIN table'
    BY <1>1, MayEjectStarts, StartsEjects
<1>2. IInv /\ Exact /\ IInv' /\ [Next]_vars =>
         [ ~(DOMAIN table \subseteq DOMAIN table') =>
           \A c \in Clients, n \in Names :
             MayEject(c, n) =>
                /\ \A i, j \in DOMAIN lru :
                      i < j /\ lru[j] \notin DOMAIN table' /\ lru[i] # KeyOf[n]
                         => lru[i] \notin DOMAIN table'
                /\ appends' = 0 => KeyOf[n] \in DOMAIN table' ]_vars
    BY <1>1
<1> QED
    BY <1>2, ExactHolds, PTL DEF Spec, EjectsLeastRecent

-----------------------------------------------------------------------------
(* Sorting different numbers puts all of them in ascending order.          *)
LEMMA QsortIs ==
    ASSUME NEW k \in Nat, NEW x \in [1..k -> Int], IsInjective(x)
    PROVE  /\ qsort(x) \in [1..k -> Range(x)]
           /\ \A i, j \in 1..k : i < j => qsort(x)[i] < qsort(x)[j]
<1> DEFINE Below(i) == {h \in 1..k : x[h] < x[i] \/ (x[h] = x[i] /\ h <= i)}
<1>1. PICK r : r = [i \in 1..k |-> Cardinality(Below(i))]
    OBVIOUS
<1>2. \A i \in 1..k : IsFiniteSet(Below(i)) /\ Cardinality(Below(i)) \in Nat
  <2>1. IsFiniteSet(1..k)
      BY FS_Interval
  <2>2. ASSUME NEW i \in 1..k PROVE IsFiniteSet(Below(i)) /\ Cardinality(Below(i)) \in Nat
    <3>1. Below(i) \in SUBSET (1..k)
        OBVIOUS
    <3> HIDE DEF Below
    <3> QED
        BY <2>1, <3>1, FS_Subset, FS_CardinalityType
  <2> QED
      BY <2>2
<1>3. \A i \in 1..k : r[i] \in 1..k
  <2> SUFFICES ASSUME NEW i \in 1..k PROVE r[i] \in 1..k
      OBVIOUS
  <2>1. IsFiniteSet(1..k) /\ Cardinality(1..k) = k
      BY FS_Interval
  <2>2. Below(i) \in SUBSET (1..k) /\ Below(i) # {}
    <3>1. i \in Below(i)
        OBVIOUS
    <3> QED
        BY <3>1
  <2> HIDE DEF Below
  <2>3. Cardinality(Below(i)) <= k
      BY <2>1, <2>2, FS_Subset
  <2>4. Cardinality(Below(i)) # 0
      BY <1>2, <2>2, FS_EmptySet
  <2> QED
      BY <1>1, <1>2, <2>3, <2>4
<1>4. \A i, j \in 1..k : x[i] < x[j] => r[i] < r[j]
  <2> SUFFICES ASSUME NEW i \in 1..k, NEW j \in 1..k, x[i] < x[j] PROVE r[i] < r[j]
      OBVIOUS
  <2>1. x[i] \in Int /\ x[j] \in Int /\ \A h \in 1..k : x[h] \in Int
      OBVIOUS
  <2>2. Below(i) \in SUBSET Below(j)
      BY <2>1
  <2>3. j \in Below(j) /\ j \notin Below(i)
      BY <2>1
  <2> HIDE DEF Below
  <2>4. /\ Cardinality(Below(i)) <= Cardinality(Below(j))
        /\ Cardinality(Below(i)) # Cardinality(Below(j))
      BY <1>2, <2>2, <2>3, FS_Subset
  <2> QED
      BY <1>1, <1>2, <2>4
<1>5. \A i, j \in 1..k : r[i] = r[j] => i = j
  <2> SUFFICES ASSUME NEW i \in 1..k, NEW j \in 1..k, r[i] = r[j] PROVE i = j
      OBVIOUS
  <2>1. r[i] \in Int /\ x[i] \in Int /\ x[j] \in Int
      BY <1>3
  <2>2. ~(x[i] < x[j]) /\ ~(x[j] < x[i])
      BY <1>4, <2>1
  <2>3. x[i] = x[j]
      BY <2>1, <2>2
  <2> QED
      BY <2>3 DEF IsInjective
<1>6. \A j \in 1..k : \E i \in 1..k : r[i] = j
  <2>1. r \in [1..k -> 1..k]
      BY <1>1, <1>3
  <2>2. r \in Injection(1..k, 1..k)
      BY <1>5, <2>1 DEF Injection, IsInjective
  <2>3. r \in Surjection(1..k, 1..k)
      BY <2>2, FS_Interval, FS_Injection
  <2> QED
      BY <2>3 DEF Surjection
<1>7. PICK at : at = [j \in 1..k |-> CHOOSE i \in 1..k : r[i] = j]
    OBVIOUS
<1>8. \A j \in 1..k : at[j] \in 1..k /\ r[at[j]] = j
    BY <1>6, <1>7
<1>9. qsort(x) = [j \in 1..k |-> x[at[j]]]
  <2>1. qsort(x) = [j \in 1..k |-> x[CHOOSE i \in 1..k : Cardinality(Below(i)) = j]]
      BY DEF qsort
  <2>2. ASSUME NEW j \in 1..k
        PROVE  (CHOOSE i \in 1..k : Cardinality(Below(i)) = j) = at[j]
    <3>1. \A i \in 1..k : Cardinality(Below(i)) = r[i]
        BY <1>1
    <3> HIDE DEF Below
    <3>2. at[j] = CHOOSE i \in 1..k : r[i] = j
        BY <1>7
    <3> QED
        BY <3>1, <3>2
  <2> HIDE DEF Below
  <2> QED
      BY <2>1, <2>2
<1>10. \A i, j \in 1..k : i < j => x[at[i]] < x[at[j]]
  <2> SUFFICES ASSUME NEW i \in 1..k, NEW j \in 1..k, i < j PROVE x[at[i]] < x[at[j]]
      OBVIOUS
  <2>1. at[i] \in 1..k /\ at[j] \in 1..k /\ r[at[i]] = i /\ r[at[j]] = j
      BY <1>8
  <2>2. x[at[i]] \in Int /\ x[at[j]] \in Int
      BY <2>1
  <2>3. ~(x[at[j]] < x[at[i]])
      BY <1>4, <2>1
  <2>4. x[at[i]] # x[at[j]]
    <3>1. at[i] # at[j]
        BY <2>1
    <3> QED
        BY <2>1, <3>1 DEF IsInjective
  <2> QED
      BY <2>2, <2>3, <2>4
<1> QED
    BY <1>8, <1>9, <1>10 DEF Range

-----------------------------------------------------------------------------
(* The positions that fs_obtain_n draws: each draw puts a position that is  *)
(* larger than all before it, so none is drawn twice.                       *)

\* A step of the sampling, on the sets of positions drawn so far.
Draw(drawn, i) == UNION {{Replaced(x, i, m) : m \in 0..i} : x \in drawn}

\* it is the fold of Reservoirs, over the parts of its sequence.
Draws(k, it) ==
    it = [s \in SUBSET (DOMAIN LeftOut(k)) |->
             IF s = {} THEN {[j \in 1..k |-> j - 1]}
             ELSE LET x == Max(s) IN Draw(it[s \ {x}], LeftOut(k)[x])]

LEMMA ReservoirsFold ==
    ASSUME NEW k
    PROVE  Reservoirs(k) = (CHOOSE it : Draws(k, it))[DOMAIN LeftOut(k)]
BY DEF Reservoirs, FoldLeft, MapThenFoldSet, Draws, Draw

LEMMA ReplacedIs ==
    ASSUME NEW k \in Nat, NEW b \in Nat, NEW x \in [1..k -> 0..(b-1)], IsInjective(x), NEW m \in Nat
    PROVE  /\ Replaced(x, b, m) \in [1..k -> 0..b]
           /\ IsInjective(Replaced(x, b, m))
<1>1. x \in Seq(0..(b-1)) /\ Len(x) = k /\ DOMAIN x = 1..k
    OBVIOUS
<1>2. \A j \in 1..k : x[j] \in Int /\ 0 <= x[j] /\ x[j] < b
    OBVIOUS
<1>3. CASE m < k
  <2>1. PICK p \in 1..k : p = m + 1
      BY <1>3
  <2>2. PICK y : y = [x EXCEPT ![p] = b]
      OBVIOUS
  <2>3. Replaced(x, b, m) = y
      BY <1>1, <1>3, <2>1, <2>2 DEF Replaced
  <2>4. DOMAIN y = 1..k /\ y[p] = b /\ \A j \in 1..k : j # p => y[j] = x[j]
      BY <1>1, <2>2
  <2>5. y \in [1..k -> 0..b]
    <3>1. \A j \in 1..k : y[j] \in 0..b
        BY <1>2, <2>4
    <3>2. y = [j \in 1..k |-> y[j]]
        BY <1>1, <2>2
    <3> QED
        BY <3>1, <3>2
  <2>6. ASSUME NEW i \in 1..k, NEW j \in 1..k, y[i] = y[j] PROVE i = j
    <3>1. CASE i = p \/ j = p
        BY <1>2, <2>4, <2>6, <3>1
    <3>2. CASE i # p /\ j # p
      <4>1. x[i] = x[j]
          BY <2>4, <2>6, <3>2
      <4> QED
          BY <1>1, <4>1 DEF IsInjective
    <3> QED
        BY <3>1, <3>2
  <2>7. IsInjective(y)
      BY <2>4, <2>6 DEF IsInjective
  <2> QED
      BY <2>3, <2>5, <2>7
<1>4. CASE ~(m < k)
  <2>1. Replaced(x, b, m) = x
      BY <1>1, <1>4 DEF Replaced
  <2>2. \A j \in 1..k : x[j] \in 0..b
      BY <1>2
  <2> QED
      BY <1>1, <2>1, <2>2
<1> QED
    BY <1>3, <1>4

LEMMA DrawsExist ==
    ASSUME NEW k \in Nat, slotUsed \in Int, slotUsed - k \in Nat
    PROVE  \E it : Draws(k, it)
<1>1. PICK n \in Nat : n = slotUsed - k
    OBVIOUS
<1>2. PICK l : l = LeftOut(k) /\ l = [j \in 1..n |-> k + j - 1] /\ DOMAIN l = 1..n
  <2>1. LeftOut(k) = [j \in 1..n |-> k + j - 1]
      BY <1>1 DEF LeftOut
  <2> QED
      BY <2>1
<1>3. \A i \in 1..n : l[i] \in Nat
    BY <1>2
<1>4. PICK D : D = SUBSET [1..k -> Nat]
    OBVIOUS
<1>5. PICK base : base = {[j \in 1..k |-> j - 1]}
    OBVIOUS
<1>6. base \in D
  <2>1. [j \in 1..k |-> j - 1] \in [1..k -> Nat]
      OBVIOUS
  <2> QED
      BY <1>4, <1>5, <2>1
<1>7. PICK step : step = [p \in (1..n) \X D |-> Draw(p[2], l[p[1]])]
    OBVIOUS
<1>8. ASSUME NEW d \in D, NEW i \in Nat PROVE Draw(d, i) \in D
  <2>1. ASSUME NEW x \in d, NEW m \in 0..i PROVE Replaced(x, i, m) \in [1..k -> Nat]
    <3>1. x \in [1..k -> Nat] /\ Len(x) = k
        BY <1>4, <1>8
    <3>2. m < k => [x EXCEPT ![m+1] = i] \in [1..k -> Nat]
        BY <3>1
    <3> QED
        BY <3>1, <3>2 DEF Replaced
  <2> QED
      BY <1>4, <2>1 DEF Draw
<1>9. step \in [(1..n) \X D -> D]
  <2>1. \A p \in (1..n) \X D : Draw(p[2], l[p[1]]) \in D
      BY <1>3, <1>8
  <2> QED
      BY <1>7, <2>1
<1>10. PICK it \in [SUBSET (1..n) -> D] : FoldsLeft(n, base, step, it)
    BY <1>6, <1>9, FoldLeftExists
<1>11. ASSUME NEW s \in SUBSET (1..n), s # {}
       PROVE  step[<<Max(s), it[s \ {Max(s)}]>>] = Draw(it[s \ {Max(s)}], l[Max(s)])
  <2>1. PICK x : x = Max(s)
      OBVIOUS
  <2>2. x \in 1..n
      BY <1>11, <2>1, MaxUpTo
  <2>3. PICK q : q = <<x, it[s \ {x}]>>
      OBVIOUS
  <2>4. q \in (1..n) \X D /\ q[1] = x /\ q[2] = it[s \ {x}]
      BY <2>2, <2>3
  <2>5. step[q] = Draw(it[s \ {x}], l[x])
      BY <1>7, <2>4
  <2> QED
      BY <2>1, <2>3, <2>5
<1>12. it = [s \in SUBSET (1..n) |->
                IF s = {} THEN base ELSE LET x == Max(s) IN step[<<x, it[s \ {x}]>>]]
    BY <1>10 DEF FoldsLeft
<1>13. ASSUME NEW s \in SUBSET (1..n)
       PROVE  (IF s = {} THEN base ELSE LET x == Max(s) IN step[<<x, it[s \ {x}]>>])
               = IF s = {} THEN base ELSE LET x == Max(s) IN Draw(it[s \ {x}], l[x])
    BY <1>11
<1>14. it = [s \in SUBSET (1..n) |->
                IF s = {} THEN base ELSE LET x == Max(s) IN Draw(it[s \ {x}], l[x])]
    BY <1>12, <1>13, Zenon
<1>15. DOMAIN LeftOut(k) = 1..n
    BY <1>2
<1>16. Draws(k, it)
  <2>1. Draws(k, it) <=> it = [s \in SUBSET (1..n) |->
                IF s = {} THEN base ELSE LET x == Max(s) IN Draw(it[s \ {x}], l[x])]
      BY <1>2, <1>5, <1>15 DEF Draws
  <2> QED
      BY <1>14, <2>1
<1> QED
    BY <1>16

LEMMA ReservoirsAre ==
    ASSUME NEW k \in Nat, slotUsed \in Int, slotUsed - k \in Nat
    PROVE  \A x \in Reservoirs(k) : x \in [1..k -> 0..(slotUsed-1)] /\ IsInjective(x)
<1>1. PICK it : Draws(k, it) /\ Reservoirs(k) = it[DOMAIN LeftOut(k)]
    BY DrawsExist, ReservoirsFold
<1>2. PICK n \in Nat : n = slotUsed - k /\ slotUsed = k + n
  <2>1. slotUsed = k + (slotUsed - k)
      OBVIOUS
  <2> QED
      BY <2>1
<1>3. PICK l : l = LeftOut(k) /\ DOMAIN l = 1..n /\ \A i \in 1..n : l[i] = k + i - 1
  <2>1. LeftOut(k) = [j \in 1..n |-> k + j - 1]
      BY <1>2 DEF LeftOut
  <2> QED
      BY <2>1
<1>4. it = [s \in SUBSET (1..n) |->
                IF s = {} THEN {[j \in 1..k |-> j - 1]}
                ELSE LET x == Max(s) IN Draw(it[s \ {x}], l[x])]
    BY <1>1, <1>3 DEF Draws
<1>5. \A s \in SUBSET (1..n) :
          it[s] = IF s = {} THEN {[j \in 1..k |-> j - 1]}
                  ELSE LET x == Max(s) IN Draw(it[s \ {x}], l[x])
    BY <1>4, Zenon
<1> DEFINE Drawn(j) == \A x \in it[1..j] : x \in [1..k -> 0..(k+j-1)] /\ IsInjective(x)
           T == {j \in Nat : j <= n => Drawn(j)}
<1>6. Drawn(0)
  <2>0. {} \in SUBSET (1..n) /\ 1..0 = {}
      OBVIOUS
  <2>1. it[{}] = {[j \in 1..k |-> j - 1]} /\ 1..0 = {}
    <3> HIDE DEF T
    <3> QED
        BY <1>5, <2>0
  <2>2. PICK x : x = [j \in 1..k |-> j - 1]
      OBVIOUS
  <2>3. x \in [1..k -> 0..(k+0-1)] /\ IsInjective(x)
      BY <2>2 DEF IsInjective
  <2> QED
      BY <2>1, <2>2, <2>3
<1>7. ASSUME NEW j \in Nat, j \in T PROVE j + 1 \in T
  <2> SUFFICES ASSUME j + 1 <= n PROVE Drawn(j + 1)
      OBVIOUS
  <2>1. PICK i \in 1..n : i = j + 1 /\ i - 1 = j
      BY <1>2
  <2>2. Drawn(j)
      BY <1>7, <2>1
  <2>3. it[1..i] = Draw(it[1..j], l[i])
    <3>1. 1..i \in SUBSET (1..n) /\ 1..i # {} /\ Max(1..i) = i /\ (1..i) \ {i} = 1..j
        BY <2>1, PrefixSets
    <3> QED
        BY <1>5, <3>1
  <2>4. PICK b \in Nat : b = k + j /\ l[i] = b
      BY <1>3, <2>1
  <2>5. ASSUME NEW y \in it[1..i] PROVE y \in [1..k -> 0..(k+i-1)] /\ IsInjective(y)
    <3>1. PICK x \in it[1..j], m \in 0..b : y = Replaced(x, b, m)
        BY <2>3, <2>4, <2>5 DEF Draw
    <3>2. x \in [1..k -> 0..(b-1)] /\ IsInjective(x)
        BY <2>2, <2>4, <3>1
    <3>3. m \in Nat
        BY <3>1
    <3>4. y \in [1..k -> 0..b] /\ IsInjective(y)
        BY <3>1, <3>2, <3>3, ReplacedIs
    <3>5. k + i - 1 = b
        BY <2>1, <2>4
    <3> QED
        BY <3>4, <3>5
  <2> QED
      BY <2>1, <2>5
<1>8. n \in T
  <2> HIDE DEF T
  <2>1. 0 \in T
      BY <1>6 DEF T
  <2> QED
      BY <1>2, <1>7, <2>1, SetInduction
<1>9. Drawn(n)
    BY <1>2, <1>8
<1> QED
    BY <1>1, <1>2, <1>3, <1>9

-----------------------------------------------------------------------------
(* The files at sorted positions: the walk along the list finds each of     *)
(* them.                                                                    *)

\* A step of the walk: the i-th file of the list is taken if it is the next.
PickUp(pos, files, i) ==
    IF Len(files) < Len(pos) /\ pos[Len(files) + 1] = i - 1
    THEN Append(files, lru[i]) ELSE files

\* it is the fold of FilesAt, over the parts of the list.
Walks(pos, it) ==
    it = [s \in SUBSET (DOMAIN [i \in DOMAIN lru |-> i]) |->
             IF s = {} THEN << >>
             ELSE LET x == Max(s)
                  IN  PickUp(pos, it[s \ {x}], [i \in DOMAIN lru |-> i][x])]

LEMMA FilesAtFold ==
    ASSUME NEW pos
    PROVE  FilesAt(pos) = (CHOOSE it : Walks(pos, it))[DOMAIN [i \in DOMAIN lru |-> i]]
BY DEF FilesAt, FoldLeft, MapThenFoldSet, Walks, PickUp

LEMMA WalkIs ==
    ASSUME NEW S, lru \in Seq(S), NEW pos
    PROVE  \A it : Walks(pos, it) <=>
                   it = [s \in SUBSET (1..Len(lru)) |->
                            IF s = {} THEN << >>
                            ELSE LET x == Max(s) IN PickUp(pos, it[s \ {x}], x)]
<1>1. PICK n \in Nat : n = Len(lru) /\ DOMAIN lru = 1..n
    OBVIOUS
<1>2. PICK e : e = [i \in 1..n |-> i]
    OBVIOUS
<1> SUFFICES ASSUME NEW it
             PROVE  Walks(pos, it) <=>
                   it = [s \in SUBSET (1..n) |->
                            IF s = {} THEN << >>
                            ELSE LET x == Max(s) IN PickUp(pos, it[s \ {x}], x)]
    BY <1>1
<1>3. Walks(pos, it) <=>
          it = [s \in SUBSET (1..n) |->
                  IF s = {} THEN << >>
                  ELSE LET x == Max(s) IN PickUp(pos, it[s \ {x}], e[x])]
    BY <1>1, <1>2 DEF Walks
<1>4. ASSUME NEW s \in SUBSET (1..n)
      PROVE  (IF s = {} THEN << >>
              ELSE LET x == Max(s) IN PickUp(pos, it[s \ {x}], e[x]))
             = IF s = {} THEN << >>
               ELSE LET x == Max(s) IN PickUp(pos, it[s \ {x}], x)
  <2>1. s # {} => e[Max(s)] = Max(s)
      BY <1>2, MaxUpTo
  <2> QED
      BY <2>1
<1>5. [s \in SUBSET (1..n) |->
                  IF s = {} THEN << >>
                  ELSE LET x == Max(s) IN PickUp(pos, it[s \ {x}], e[x])]
      = [s \in SUBSET (1..n) |->
                  IF s = {} THEN << >>
                  ELSE LET x == Max(s) IN PickUp(pos, it[s \ {x}], x)]
    BY <1>4, Zenon
<1> QED
    BY <1>3, <1>5, Zenon

LEMMA WalksExist ==
    ASSUME NEW S, lru \in Seq(S), NEW pos
    PROVE  \E it : Walks(pos, it)
<1>1. PICK n \in Nat : n = Len(lru) /\ DOMAIN lru = 1..n
    OBVIOUS
<1>2. \A i \in 1..n : lru[i] \in S
    BY <1>1
<1>3. PICK D : D = Seq(S)
    OBVIOUS
<1>4. << >> \in D
    BY <1>3
<1>5. PICK step : step = [p \in (1..n) \X D |-> PickUp(pos, p[2], p[1])]
    OBVIOUS
<1>6. step \in [(1..n) \X D -> D]
  <2>1. ASSUME NEW i \in 1..n, NEW d \in D PROVE PickUp(pos, d, i) \in D
      BY <1>2, <1>3 DEF PickUp
  <2>2. \A p \in (1..n) \X D : PickUp(pos, p[2], p[1]) \in D
      BY <2>1
  <2> QED
      BY <1>5, <2>2
<1>7. PICK it \in [SUBSET (1..n) -> D] : FoldsLeft(n, << >>, step, it)
    BY <1>4, <1>6, FoldLeftExists
<1>8. ASSUME NEW s \in SUBSET (1..n), s # {}
      PROVE  step[<<Max(s), it[s \ {Max(s)}]>>] = PickUp(pos, it[s \ {Max(s)}], Max(s))
  <2>1. PICK x : x = Max(s)
      OBVIOUS
  <2>2. x \in 1..n
      BY <1>8, <2>1, MaxUpTo
  <2>3. PICK q : q = <<x, it[s \ {x}]>>
      OBVIOUS
  <2>4. q \in (1..n) \X D /\ q[1] = x /\ q[2] = it[s \ {x}]
      BY <2>2, <2>3
  <2>5. step[q] = PickUp(pos, it[s \ {x}], x)
      BY <1>5, <2>4
  <2> QED
      BY <2>1, <2>3, <2>5
<1>9. it = [s \in SUBSET (1..n) |->
               IF s = {} THEN << >> ELSE LET x == Max(s) IN step[<<x, it[s \ {x}]>>]]
    BY <1>7 DEF FoldsLeft
<1>10. ASSUME NEW s \in SUBSET (1..n)
       PROVE  (IF s = {} THEN << >> ELSE LET x == Max(s) IN step[<<x, it[s \ {x}]>>])
               = IF s = {} THEN << >> ELSE LET x == Max(s) IN PickUp(pos, it[s \ {x}], x)
    BY <1>8
<1>11. it = [s \in SUBSET (1..n) |->
                IF s = {} THEN << >> ELSE LET x == Max(s) IN PickUp(pos, it[s \ {x}], x)]
    BY <1>9, <1>10, Zenon
<1> QED
    BY <1>1, <1>11, WalkIs

LEMMA FilesAtIs ==
    ASSUME NEW S, lru \in Seq(S), NEW k \in Nat,
           NEW pos \in [1..k -> 0..(Len(lru)-1)],
           \A i, j \in 1..k : i < j => pos[i] < pos[j]
    PROVE  /\ FilesAt(pos) \in Seq(S) /\ Len(FilesAt(pos)) = k
           /\ \A j \in 1..k : FilesAt(pos)[j] = lru[pos[j] + 1]
<1>1. PICK n \in Nat : n = Len(lru) /\ DOMAIN lru = 1..n
    OBVIOUS
<1>2. PICK it : Walks(pos, it) /\ FilesAt(pos) = it[DOMAIN [i \in DOMAIN lru |-> i]]
    BY WalksExist, FilesAtFold
<1>3. FilesAt(pos) = it[1..n]
    BY <1>1, <1>2
<1>4. it = [s \in SUBSET (1..n) |->
               IF s = {} THEN << >> ELSE LET x == Max(s) IN PickUp(pos, it[s \ {x}], x)]
    BY <1>1, <1>2, WalkIs
<1>5. \A s \in SUBSET (1..n) :
          it[s] = IF s = {} THEN << >> ELSE LET x == Max(s) IN PickUp(pos, it[s \ {x}], x)
    BY <1>4, Zenon
<1>6. Len(pos) = k /\ \A j \in 1..k : pos[j] \in Int /\ pos[j] < n
    BY <1>1
<1> DEFINE Walked(f, i) ==
               /\ f \in Seq(S) /\ Len(f) <= k
               /\ \A j \in 1..Len(f) : f[j] = lru[pos[j] + 1]
               /\ \A j \in 1..k : j > Len(f) => pos[j] >= i
           T == {i \in Nat : i <= n => Walked(it[1..i], i)}
<1>7. 0 \in T
  <2>0. {} \in SUBSET (1..n) /\ 1..0 = {}
      OBVIOUS
  <2>1. it[1..0] = << >>
    <3> HIDE DEF T
    <3> QED
        BY <1>5, <2>0
  <2>2. \A j \in 1..k : pos[j] >= 0
      OBVIOUS
  <2>3. PICK f : f = it[1..0] /\ f = << >>
      BY <2>1
  <2>4. f \in Seq(S) /\ Len(f) = 0 /\ 1..0 = {}
      BY <2>3
  <2>5. Walked(f, 0)
      BY <2>2, <2>4
  <2>6. Walked(it[1..0], 0)
      BY <2>3, <2>5
  <2> QED
      BY <2>6
<1>8. ASSUME NEW h \in Nat, h \in T PROVE h + 1 \in T
  <2> SUFFICES ASSUME h + 1 <= n PROVE Walked(it[1..(h+1)], h + 1)
      OBVIOUS
  <2>1. PICK i \in 1..n : i = h + 1 /\ i - 1 = h
      BY <1>1
  <2>2. PICK f : f = it[1..h] /\ Walked(f, h)
      BY <1>8, <2>1
  <2>3. PICK g : g = it[1..i] /\ g = PickUp(pos, f, i)
    <3>1. 1..i \in SUBSET (1..n) /\ 1..i # {} /\ Max(1..i) = i /\ (1..i) \ {i} = 1..h
        BY <2>1, PrefixSets
    <3>2. it[1..i] = PickUp(pos, it[1..h], i)
        BY <1>5, <3>1
    <3> QED
        BY <2>2, <3>2
  <2>4. PICK c \in Nat : c = Len(f) /\ c <= k
      BY <2>2
  <2>5. CASE c < k /\ pos[c + 1] = h
    <3>1. g = Append(f, lru[i])
        BY <1>6, <2>1, <2>3, <2>4, <2>5 DEF PickUp
    <3>2. lru[i] \in S
        BY <1>1
    <3>3. g \in Seq(S) /\ Len(g) = c + 1 /\ g[c+1] = lru[i] /\ \A j \in 1..c : g[j] = f[j]
        BY <2>2, <2>4, <3>1, <3>2
    <3>4. ASSUME NEW j \in 1..Len(g) PROVE g[j] = lru[pos[j] + 1]
      <4>1. CASE j = c + 1
          BY <2>1, <2>5, <3>3, <4>1
      <4>2. CASE j \in 1..c
          BY <2>2, <2>4, <3>3, <4>2
      <4> QED
          BY <2>4, <3>3, <4>1, <4>2
    <3>5. ASSUME NEW j \in 1..k, j > Len(g) PROVE pos[j] >= i
      <4>1. c + 1 \in 1..k /\ c + 1 < j
          BY <2>4, <2>5, <3>3, <3>5
      <4>2. pos[c + 1] < pos[j]
          BY <4>1
      <4> QED
          BY <1>6, <2>1, <2>5, <4>2
    <3>6. Len(g) <= k
        BY <2>4, <2>5, <3>3
    <3> QED
        BY <2>1, <2>3, <3>3, <3>4, <3>5, <3>6
  <2>6. CASE ~(c < k /\ pos[c + 1] = h)
    <3>1. g = f
        BY <1>6, <2>1, <2>3, <2>4, <2>6 DEF PickUp
    <3>2. ASSUME NEW j \in 1..k, j > c PROVE pos[j] >= i
      <4>1. c + 1 \in 1..k /\ c + 1 <= j /\ c < k
          BY <2>4, <3>2
      <4>2. pos[c + 1] >= h
          BY <2>2, <2>4, <4>1
      <4>3. pos[c + 1] # h
          BY <2>6, <4>1
      <4>4. PICK z \in Int : z = pos[c + 1] /\ z >= i
          BY <1>6, <2>1, <4>1, <4>2, <4>3
      <4>5. CASE j = c + 1
          BY <4>4, <4>5
      <4>6. CASE c + 1 < j
        <5>1. z < pos[j]
            BY <4>1, <4>4, <4>6
        <5> QED
            BY <1>6, <4>4, <5>1
      <4> QED
          BY <4>1, <4>5, <4>6
    <3> QED
        BY <2>1, <2>2, <2>3, <2>4, <3>1, <3>2
  <2> QED
      BY <2>5, <2>6
<1>9. Walked(it[1..n], n)
  <2>1. n \in T
    <3> HIDE DEF T
    <3> QED
        BY <1>7, <1>8, SetInduction
  <2> QED
      BY <2>1
<1>10. PICK f : f = FilesAt(pos) /\ Walked(f, n)
    BY <1>3, <1>9
<1>11. PICK c \in Nat : c = Len(f) /\ c <= k
    BY <1>10
<1>12. c = k
  <2> SUFFICES ASSUME c # k PROVE FALSE
      OBVIOUS
  <2>1. c + 1 \in 1..k /\ c + 1 > Len(f)
      BY <1>11
  <2>2. pos[c + 1] >= n
      BY <1>10, <2>1
  <2> QED
      BY <1>6, <2>1, <2>2
<1> QED
    BY <1>10, <1>11, <1>12

-----------------------------------------------------------------------------
(* The list has as many files as the table.                                *)
LEMMA ListCounts ==
    ASSUME ListMatchesTable, NEW S, lru \in Seq(S)
    PROVE  Cardinality(DOMAIN table) = Len(lru)
<1>1. PICK n \in Nat : n = Len(lru) /\ DOMAIN lru = 1..n
    OBVIOUS
<1>2. Range(lru) = DOMAIN table /\ IsInjective(lru)
    BY DEF ListMatchesTable
<1>3. lru \in Injection(1..n, DOMAIN table)
  <2>1. \A i \in 1..n : lru[i] \in DOMAIN table
      BY <1>1, <1>2 DEF Range
  <2>2. lru \in [1..n -> DOMAIN table]
      BY <1>1, <2>1
  <2> QED
      BY <1>2, <2>2 DEF Injection, IsInjective
<1>4. lru \in Surjection(1..n, DOMAIN table)
  <2>1. \A k \in DOMAIN table : \E i \in 1..n : lru[i] = k
      BY <1>1, <1>2 DEF Range
  <2>2. lru \in [1..n -> DOMAIN table]
      BY <1>3 DEF Injection
  <2> QED
      BY <2>1, <2>2 DEF Surjection
<1>5. ExistsBijection(1..n, DOMAIN table)
    BY <1>3, <1>4 DEF ExistsBijection, Bijection
<1> QED
    BY <1>1, <1>5, FS_CountingElements

LEMMA ObtainAll ==
    ASSUME TypeOK, ListMatchesTable, NEW files \in fs_obtain_n(0)
    PROVE  /\ IsInjective(files) /\ Range(files) \subseteq DOMAIN table
           /\ Len(files) = Cardinality(DOMAIN table)
<1>1. lru \in Seq(Keys)
    BY DEF TypeOK
<1>2. PICK n \in Nat : n = Len(lru) /\ DOMAIN lru = 1..n /\ slotUsed = n
    BY <1>1 DEF ListMatchesTable
<1>3. Range(lru) = DOMAIN table /\ IsInjective(lru)
    BY DEF ListMatchesTable
<1>4. Min({slotUsed, Len(lru)}) = n
    BY <1>2, MinOfTwo
<1>5. PICK r : r = Reverse(lru)
    OBVIOUS
<1>6. r = [i \in 1..n |-> lru[(n - i) + 1]]
    BY <1>2, <1>5 DEF Reverse
<1>7. r \in Seq(Keys) /\ Len(r) = n /\ DOMAIN r = 1..n
    BY <1>1, <1>2, <1>6
<1>8. files = SubSeq(r, 1, n)
    BY <1>4, <1>5 DEF fs_obtain_n
<1>9. files = r
  <2>1. files \in Seq(Keys) /\ Len(files) = n /\ \A i \in 1..n : files[i] = r[i]
      BY <1>7, <1>8
  <2> QED
      BY <1>7, <2>1
<1>10. \A i \in 1..n : (n - i) + 1 \in 1..n /\ r[i] = lru[(n - i) + 1]
    BY <1>6
<1>11. ASSUME NEW i \in 1..n, NEW j \in 1..n, r[i] = r[j] PROVE i = j
  <2>1. PICK u \in 1..n, v \in 1..n : u = (n - i) + 1 /\ v = (n - j) + 1
      BY <1>10
  <2>2. lru[u] = lru[v]
      BY <1>10, <1>11, <2>1
  <2>3. u = v
      BY <1>2, <1>3, <2>2 DEF IsInjective
  <2> QED
      BY <2>1, <2>3
<1>12. IsInjective(r)
    BY <1>7, <1>11 DEF IsInjective
<1>13. Range(r) \subseteq DOMAIN table
    BY <1>2, <1>3, <1>7, <1>10 DEF Range
<1> QED
    BY <1>1, <1>2, <1>7, <1>9, <1>12, <1>13, ListCounts

LEMMA ObtainSome ==
    ASSUME TypeOK, ListMatchesTable, NEW n \in Nat, n # 0, NEW files \in fs_obtain_n(n)
    PROVE  /\ IsInjective(files) /\ Range(files) \subseteq DOMAIN table
           /\ Len(files) = Min({n, Cardinality(DOMAIN table)})
<1>1. lru \in Seq(Keys)
    BY DEF TypeOK
<1>2. PICK l \in Nat : l = Len(lru) /\ DOMAIN lru = 1..l /\ slotUsed = l
    BY <1>1 DEF ListMatchesTable
<1>3. Range(lru) = DOMAIN table /\ IsInjective(lru)
    BY DEF ListMatchesTable
<1>4. PICK k \in Nat : k = Min({n, l}) /\ k <= l
    BY MinOfTwo
<1>5. PICK x \in Reservoirs(k) : files = FilesAt(qsort(x))
    BY <1>2, <1>4 DEF fs_obtain_n
<1>6. x \in [1..k -> 0..(l-1)] /\ IsInjective(x)
  <2>1. slotUsed \in Int /\ slotUsed - k \in Nat
      BY <1>2, <1>4
  <2> QED
      BY <1>2, <2>1, ReservoirsAre
<1>7. PICK pos : pos = qsort(x)
    OBVIOUS
<1>8. /\ pos \in [1..k -> Range(x)]
      /\ \A i, j \in 1..k : i < j => pos[i] < pos[j]
  <2>1. x \in [1..k -> Int]
      BY <1>6
  <2> QED
      BY <1>6, <1>7, <2>1, QsortIs
<1>9. pos \in [1..k -> 0..(l-1)]
  <2>1. Range(x) \in SUBSET (0..(l-1))
      BY <1>6 DEF Range
  <2> QED
      BY <1>8, <2>1
<1>10. /\ files \in Seq(Keys) /\ Len(files) = k
       /\ \A j \in 1..k : files[j] = lru[pos[j] + 1]
  <2>1. /\ FilesAt(pos) \in Seq(Keys) /\ Len(FilesAt(pos)) = k
        /\ \A j \in 1..k : FilesAt(pos)[j] = lru[pos[j] + 1]
      BY <1>1, <1>2, <1>8, <1>9, FilesAtIs
  <2> QED
      BY <1>5, <1>7, <2>1
<1>11. \A j \in 1..k : pos[j] \in Int /\ pos[j] + 1 \in 1..l
    BY <1>9
<1>12. DOMAIN files = 1..k
    BY <1>10
<1>13. ASSUME NEW i \in 1..k, NEW j \in 1..k, files[i] = files[j] PROVE i = j
  <2>1. pos[i] + 1 = pos[j] + 1
      BY <1>2, <1>3, <1>10, <1>11, <1>13, SMTT(30) DEF IsInjective
  <2>2. PICK y, z \in Int : y = pos[i] /\ z = pos[j] /\ y = z
      BY <1>11, <2>1
  <2>3. i < j => pos[i] < pos[j]
      BY <1>8
  <2>4. j < i => pos[j] < pos[i]
      BY <1>8
  <2> QED
      BY <2>2, <2>3, <2>4
<1>14. IsInjective(files)
    BY <1>12, <1>13 DEF IsInjective
<1>15. Range(files) \subseteq DOMAIN table
    BY <1>2, <1>3, <1>10, <1>11, <1>12 DEF Range
<1>16. Cardinality(DOMAIN table) = l
    BY <1>1, <1>2, ListCounts
<1> QED
    BY <1>4, <1>10, <1>14, <1>15, <1>16

(* What is read is what is asked for, whatever the random numbers are:      *)
(* fs_obtain_n returns n different stored files, or all of them for 0 and   *)
(* for more than there are.                                                 *)
THEOREM ReadsWhatIsAsked == Spec => []ReadsAsManyAsAsked
<1>1. IInv => ReadsAsManyAsAsked
  <2> SUFFICES ASSUME IInv, NEW n \in 0..(MaxSlots + 1), NEW files \in fs_obtain_n(n)
               PROVE  /\ IsInjective(files)
                      /\ Range(files) \subseteq DOMAIN table
                      /\ Len(files) = IF n = 0 THEN Cardinality(DOMAIN table)
                                      ELSE Min({n, Cardinality(DOMAIN table)})
      BY DEF ReadsAsManyAsAsked
  <2>1. TypeOK /\ ListMatchesTable
      BY DEF IInv
  <2>2. CASE n = 0
      BY <2>1, <2>2, ObtainAll
  <2>3. CASE n # 0
      BY <2>1, <2>3, ObtainSome
  <2> QED
      BY <2>2, <2>3
<1> QED
    BY <1>1, IInvHolds, PTL

-----------------------------------------------------------------------------
(* The lock service. *)

Seen == LockTable!vars
ServiceStep == [LockTable!Next]_Seen

LEMMA LocksOf ==
    /\ DOMAIN Locks = DOMAIN table
    /\ \A k \in DOMAIN table :
          Locks[k] = [owner |-> table[k].owner, waiting |-> table[k].waiting]
BY DEF Locks

LEMMA LocksNext ==
    Locks' = [k \in DOMAIN table' |->
                 [owner |-> table'[k].owner, waiting |-> table'[k].waiting]]
BY DEF Locks

LEMMA HeadAndTail ==
    ASSUME NEW S, NEW w \in Seq(S), w # << >>
    PROVE  Range(w) = {Head(w)} \cup Range(Tail(w))
<1>1. PICK m \in Nat : m = Len(w) /\ DOMAIN w = 1..m /\ m >= 1
    BY SeqIsFunction
<1>2. PICK t \in Seq(S) : t = Tail(w)
    BY HeadTail
<1>3. /\ Head(w) = w[1] /\ DOMAIN t = 1..(m - 1)
      /\ \A i \in 1..(m - 1) : t[i] = w[i + 1]
    BY <1>1, <1>2, HeadTailProperties, SeqIsFunction
<1>4. \A i \in 1..(m - 1) : i + 1 \in 1..m
    BY <1>1
<1>5. \A i \in 1..m : i = 1 \/ (i - 1 \in 1..(m - 1) /\ (i - 1) + 1 = i)
    BY <1>1
<1>6. ASSUME NEW x \in Range(w) PROVE x = w[1] \/ x \in Range(t)
  <2>1. PICK i \in 1..m : x = w[i]
      BY <1>1, <1>6 DEF Range
  <2>2. CASE i # 1
    <3>1. i - 1 \in DOMAIN t /\ t[i - 1] = w[i]
        BY <1>3, <1>5, <2>2
    <3> QED
        BY <2>1, <3>1 DEF Range
  <2> QED
      BY <2>1, <2>2
<1>7. ASSUME NEW x \in Range(t) PROVE x \in Range(w)
    BY <1>1, <1>3, <1>4, <1>7, SMTT(30) DEF Range
<1>8. w[1] \in Range(w)
    BY <1>1 DEF Range
<1> QED
    BY <1>2, <1>3, <1>6, <1>7, <1>8

\* The same operator, as the two modules know it.
LEMMA SameRange == \A f : LockTable!Range(f) = Range(f)
BY DEF LockTable!Range, Range

(* One file is changed, or is another one in the same slot. *)
LEMMA OneLockChanges ==
    ASSUME NEW k \in DOMAIN table, NEW e, table' = [table EXCEPT ![k] = e]
    PROVE  Locks' = [Locks EXCEPT ![k] = [owner |-> e.owner, waiting |-> e.waiting]]
<1>1. DOMAIN table' = DOMAIN table /\ \A x \in DOMAIN table : table'[x] = IF x = k THEN e ELSE table[x]
    OBVIOUS
<1> QED
    BY <1>1, LocksNext, LocksOf

LEMMA EntryExcept ==
    ASSUME NEW owner, NEW waiting, NEW x
    PROVE  LET r == [owner |-> owner, waiting |-> waiting]
           IN  /\ [r EXCEPT !.owner = x] = [owner |-> x, waiting |-> waiting]
               /\ [r EXCEPT !.waiting = x] = [owner |-> owner, waiting |-> x]
               /\ r.owner = owner /\ r.waiting = waiting
OBVIOUS

(* Who can call is not blocked. *)
LEMMA CallerIsFree ==
    ASSUME NEW c \in Clients, CanCall(c)
    PROVE  ~LockTable!Blocked(c)
<1>1. ASSUME NEW k \in DOMAIN table, c \in Range(table[k].waiting) PROVE FALSE
    BY <1>1 DEF CanCall, Waits
<1>2. ASSUME NEW x \in Range(lockQueue), x.fd = c PROVE FALSE
    BY <1>2 DEF CanCall, Notified, Range
<1> QED
    BY <1>1, <1>2, LocksOf, SameRange DEF LockTable!Blocked

-----------------------------------------------------------------------------
(* Files leave the table, whose locks were not touched before.             *)
LEMMA DropStep ==
    ASSUME NEW t, NEW gone, Leave(t, gone), DOMAIN t = DOMAIN table,
           \A k \in DOMAIN table :
              t[k].owner = table[k].owner /\ t[k].waiting = table[k].waiting
    PROVE  \E going \in SUBSET DOMAIN Locks : LockTable!Drop(going)
<1>1. gone \in SUBSET DOMAIN Locks
    BY LocksOf DEF Leave
<1>2. Locks' = [f \in DOMAIN Locks \ gone |-> Locks[f]]
    BY LocksNext, LocksOf DEF Leave
<1>3. Refusals(t, gone) = LockTable!Refused(gone)
  <2>1. \A k \in gone : Range(t[k].waiting) = Range(Locks[k].waiting)
      BY <1>1, LocksOf
  <2> QED
      BY <2>1, SameRange DEF Refusals, LockTable!Refused
<1> QED
    BY <1>1, <1>2, <1>3 DEF Leave, LockTable!Drop

LEMMA InsertStep ==
    ASSUME IInv, NEW c \in Clients, NEW n \in Names, NEW acquireLock \in BOOLEAN,
           fs_insert(c, n, acquireLock)
    PROVE  \E gone \in SUBSET (DOMAIN Locks \cup {KeyOf[n]}) :
              LockTable!Create(KeyOf[n], IF acquireLock THEN c ELSE EmptyOwner, gone)
<1> DEFINE f == KeyOf[n]
           owner == IF acquireLock THEN c ELSE EmptyOwner
           e == [name |-> n, contentLen |-> 0, waiting |-> << >>, owner |-> owner]
           tbl == [k \in DOMAIN table \cup {f} |-> IF k = f THEN e ELSE table[k]]
<1>1. f \notin DOMAIN table /\ \E gone : Leave(tbl, gone)
    BY InsertKeeps
<1>2. PICK gone : Leave(tbl, gone)
    BY <1>1
<1>3. /\ DOMAIN tbl = DOMAIN table \cup {f}
      /\ tbl[f].owner = owner /\ tbl[f].waiting = << >>
      /\ \A k \in DOMAIN table : tbl[k] = table[k]
    BY <1>1
<1>4. f \in Keys /\ owner \in Clients \cup {EmptyOwner}
    BY KeyOfType
<1> SUFFICES \E g \in SUBSET (DOMAIN Locks \cup {f}) : LockTable!Create(f, owner, g)
    OBVIOUS
<1> HIDE DEF f, owner, tbl
<1>5. gone \in SUBSET (DOMAIN Locks \cup {f}) /\ f \notin DOMAIN Locks
    BY <1>1, <1>2, <1>3, LocksOf DEF Leave
<1>6. Locks' = [k \in (DOMAIN Locks \cup {f}) \ gone |->
                   IF k = f THEN [owner |-> owner, waiting |-> << >>] ELSE Locks[k]]
    BY <1>1, <1>2, <1>3, LocksNext, LocksOf DEF Leave
<1>7. Refusals(tbl, gone) = LockTable!Refused(gone \ {f})
  <2>1. \A k \in gone \ {f} : Range(tbl[k].waiting) = Range(Locks[k].waiting)
      BY <1>3, <1>5, LocksOf
  <2>2. Range(tbl[f].waiting) = {}
      BY <1>3 DEF Range
  <2> QED
      BY <2>1, <2>2, SameRange DEF Refusals, LockTable!Refused
<1>8. Range(lockQueue') = Range(lockQueue) \cup LockTable!Refused(gone \ {f})
    BY <1>2, <1>7 DEF Leave
<1> QED
    BY <1>5, <1>6, <1>8 DEF LockTable!Create

LEMMA StaysStep ==
    ASSUME NEW k \in DOMAIN table, LockStays(k)
    PROVE  \E gone \in SUBSET DOMAIN Locks : LockTable!Drop(gone)
<1>1. PICK e : /\ e.owner = table[k].owner /\ e.waiting = table[k].waiting
               /\ \E gone : Leave([table EXCEPT ![k] = e], gone)
    BY DEF LockStays
<1> DEFINE t == [table EXCEPT ![k] = e]
<1>2. /\ DOMAIN t = DOMAIN table
      /\ \A x \in DOMAIN table :
            t[x].owner = table[x].owner /\ t[x].waiting = table[x].waiting
    BY <1>1
<1> HIDE DEF t
<1>3. \E gone : Leave(t, gone)
    BY <1>1 DEF t
<1> QED
    BY <1>2, <1>3, DropStep

-----------------------------------------------------------------------------
(* A lock is taken, waited for or released.                                *)
LEMMA TryLockStep ==
    ASSUME IInv, NEW c \in Clients, NEW n \in Names, fs_trylock(c, n)
    PROVE  /\ KeyOf[n] \in DOMAIN Locks
           /\ \/ TryLockResult(c, n) = WAITING_ON_LOCK /\ LockTable!Wait(c, KeyOf[n])
              \/ TryLockResult(c, n) = OK /\ LockTable!Take(c, KeyOf[n])
              \/ TryLockResult(c, n) = OK /\ UNCHANGED Seen
<1> DEFINE k == KeyOf[n]
<1>1. k \in DOMAIN table /\ ~LockTable!Blocked(c) /\ UNCHANGED lockQueue
    BY CallerIsFree DEF fs_trylock, TryLockResult, Stored, OK, NOT_EXISTS, WAITING_ON_LOCK
<1>2. UNCHANGED Range(lockQueue)
    BY <1>1
<1>3. /\ table[k] \in Entry /\ k \in DOMAIN Locks
      /\ Locks[k] = [owner |-> table[k].owner, waiting |-> table[k].waiting]
    BY <1>1, LocksOf, TableEntry
<1>4. CASE TryLockResult(c, n) = OK
  <2> DEFINE e == [table[k] EXCEPT !.owner = c]
  <2>1. table' = [table EXCEPT ![k] = e]
      BY <1>4 DEF fs_trylock, OK, WAITING_ON_LOCK
  <2>2. table[k].owner \in {c, EmptyOwner}
      BY <1>1, <1>4 DEF TryLockResult, File, Stored, OK, NOT_EXISTS, WAITING_ON_LOCK, NOT_ALLOWED
  <2>3. e.owner = c /\ e.waiting = table[k].waiting
      BY <1>3 DEF Entry
  <2> HIDE DEF e, k
  <2>4. Locks' = [Locks EXCEPT ![k] = [owner |-> c, waiting |-> table[k].waiting]]
      BY <1>1, <2>1, <2>3, OneLockChanges
  <2>5. Locks' = [Locks EXCEPT ![k].owner = c]
    <3>1. [Locks[k] EXCEPT !.owner = c] = [owner |-> c, waiting |-> table[k].waiting]
        BY <1>3, EntryExcept
    <3> QED
        BY <2>4, <3>1
  <2>6. CASE table[k].owner = EmptyOwner
    <3>1. LockTable!Take(c, k)
        BY <1>1, <1>2, <1>3, <2>5, <2>6 DEF LockTable!Take
    <3> QED
        BY <1>3, <1>4, <3>1 DEF k
  <2>7. CASE table[k].owner = c
    <3>1. Locks' = Locks
        BY <1>3, <2>4, <2>7 DEF Locks
    <3> QED
        BY <1>2, <1>3, <1>4, <3>1 DEF k, Seen, LockTable!vars
  <2> QED
      BY <2>2, <2>6, <2>7
<1>5. CASE TryLockResult(c, n) = WAITING_ON_LOCK
  <2> DEFINE e == [table[k] EXCEPT !.waiting = Append(@, c)]
  <2>1. table' = [table EXCEPT ![k] = e]
      BY <1>5 DEF fs_trylock, OK, WAITING_ON_LOCK
  <2>2. table[k].owner \notin {c, EmptyOwner}
      BY <1>1, <1>5 DEF TryLockResult, File, Stored, OK, NOT_EXISTS, WAITING_ON_LOCK, NOT_ALLOWED
  <2>3. e.owner = table[k].owner /\ e.waiting = Append(table[k].waiting, c)
      BY <1>3 DEF Entry
  <2> HIDE DEF e, k
  <2>4. Locks' = [Locks EXCEPT ![k] = [owner |-> table[k].owner,
                                       waiting |-> Append(table[k].waiting, c)]]
      BY <1>1, <2>1, <2>3, OneLockChanges
  <2>5. Locks' = [Locks EXCEPT ![k].waiting = Append(@, c)]
    <3>1. Locks[k].waiting = table[k].waiting
        BY <1>3
    <3>2. PICK longer : longer = Append(table[k].waiting, c)
        OBVIOUS
    <3>3. [Locks[k] EXCEPT !.waiting = longer]
             = [owner |-> table[k].owner, waiting |-> longer]
        BY <1>3, EntryExcept
    <3> QED
        BY <2>4, <3>1, <3>2, <3>3
  <2>6. LockTable!Wait(c, k)
      BY <1>1, <1>2, <1>3, <2>2, <2>5 DEF LockTable!Wait
  <2> QED
      BY <1>3, <1>5, <2>6 DEF k
<1> QED
    BY <1>4, <1>5 DEF fs_trylock

LEMMA InnerUnlockStep ==
    ASSUME IInv, NEW c \in Clients, NEW k \in Keys, inner_unlock(c, k)
    PROVE  \/ UnlockResult(c, k) = OK /\ k \in DOMAIN Locks /\ LockTable!Release(k)
           \/ UnlockResult(c, k) # OK /\ UNCHANGED Seen
<1>1. CASE UnlockResult(c, k) # OK
  <2>1. table' = table /\ lockQueue' = lockQueue
      BY <1>1 DEF inner_unlock
  <2> QED
      BY <1>1, <2>1 DEF Seen, LockTable!vars, Locks
<1>2. CASE UnlockResult(c, k) = OK
  <2>1. k \in DOMAIN table /\ table[k].owner = c
      BY <1>2 DEF UnlockResult, OK, NOT_EXISTS, NOT_ALLOWED
  <2>2. table[k] \in Entry /\ table[k].waiting \in Seq(Clients) /\ c # EmptyOwner
      BY <2>1, TableEntry, ConstantsAssumption
  <2>3. /\ table' = [table EXCEPT ![k] = PassLock(table[k])]
        /\ lockQueue' = IF table[k].waiting = << >> THEN lockQueue
                        ELSE Append(lockQueue, [fd |-> PassLock(table[k]).owner,
                                                status |-> OK])
      BY <1>2 DEF inner_unlock
  <2>4. Locks[k].owner # EmptyOwner /\ Locks[k].waiting = table[k].waiting /\ k \in DOMAIN Locks
      BY <2>1, <2>2, LocksOf
  <2>5. Locks' = [Locks EXCEPT ![k] = [owner |-> PassLock(table[k]).owner,
                                       waiting |-> PassLock(table[k]).waiting]]
      BY <2>1, <2>3, OneLockChanges
  <2>6. CASE table[k].waiting = << >>
    <3>1. PassLock(table[k]).owner = EmptyOwner /\ PassLock(table[k]).waiting = << >>
        BY <2>2, <2>6 DEF PassLock, Entry
    <3>2. Locks' = [Locks EXCEPT ![k].owner = EmptyOwner]
      <4>1. Locks[k] = [owner |-> table[k].owner, waiting |-> << >>]
          BY <2>1, <2>6, LocksOf
      <4>2. [Locks[k] EXCEPT !.owner = EmptyOwner] = [owner |-> EmptyOwner, waiting |-> << >>]
          BY <4>1, EntryExcept
      <4> QED
          BY <2>5, <3>1, <4>2
    <3>3. Range(lockQueue') = Range(lockQueue)
        BY <2>3, <2>6
    <3> QED
        BY <1>2, <2>4, <2>6, <3>2, <3>3 DEF LockTable!Release
  <2>7. CASE table[k].waiting # << >>
    <3> DEFINE next == Head(table[k].waiting)
    <3>1. next \in Clients /\ lockQueue \in Seq(Notice)
        BY <2>2, <2>7, HeadTail, IInvParts DEF Parts
    <3>2. PassLock(table[k]).owner = next /\ PassLock(table[k]).waiting = Tail(table[k].waiting)
        BY <2>2, <2>7 DEF PassLock, Entry
    <3>3. Locks' = [Locks EXCEPT ![k] = [owner |-> next, waiting |-> Tail(@.waiting)]]
        BY <2>1, <2>4, <2>5, <3>2, LocksOf
    <3>4. Range(lockQueue') = Range(lockQueue) \cup {[fd |-> next, status |-> OK]}
      <4>1. lockQueue' = Append(lockQueue, [fd |-> next, status |-> OK])
          BY <2>3, <2>7, <3>2
      <4> HIDE DEF next
      <4>2. [fd |-> next, status |-> OK] \in Notice
          BY <3>1 DEF Notice
      <4> QED
          BY <3>1, <4>1, <4>2, AppendRange
    <3> QED
        BY <1>2, <2>4, <2>7, <3>3, <3>4 DEF LockTable!Release
  <2> QED
      BY <2>6, <2>7
<1> QED
    BY <1>1, <1>2

LEMMA LockThreadTakeStep ==
    ASSUME IInv, lockThreadTake
    PROVE  \E a \in Range(lockQueue) : LockTable!Answer(a)
<1>1. /\ lockQueue \in Seq(Notice) /\ lockQueue # << >> /\ OneNoticeEach(lockQueue)
      /\ lockQueue' = Tail(lockQueue) /\ table' = table
    BY IInvParts DEF Parts, LocksOK, lockThreadTake
<1> DEFINE a == Head(lockQueue)
<1>2. PICK m \in Nat : m = Len(lockQueue) /\ DOMAIN lockQueue = 1..m /\ m >= 1
    BY <1>1, SeqIsFunction
<1>3. /\ a = lockQueue[1] /\ DOMAIN lockQueue' = 1..(m - 1)
      /\ \A i \in 1..(m - 1) : lockQueue'[i] = lockQueue[i + 1]
    BY <1>1, <1>2, HeadTailProperties, SeqIsFunction
<1>4. \A i \in 1..m : lockQueue[i] = a => i = 1
    BY <1>1, <1>2, <1>3 DEF OneNoticeEach
<1>5. Range(lockQueue') = Range(lockQueue) \ {a}
  <2> HIDE DEF a
  <2>1. \A i \in 1..(m - 1) : i + 1 \in 1..m /\ i + 1 # 1
      BY <1>2
  <2>2. \A i \in 1..m : i = 1 \/ (i - 1 \in 1..(m - 1) /\ (i - 1) + 1 = i)
      BY <1>2
  <2>3. ASSUME NEW x \in Range(lockQueue') PROVE x \in Range(lockQueue) \ {a}
    <3>1. PICK i \in 1..(m - 1) : x = lockQueue[i + 1]
        BY <1>3, <2>3 DEF Range
    <3> QED
        BY <1>2, <1>4, <2>1, <3>1 DEF Range
  <2>4. ASSUME NEW x \in Range(lockQueue) \ {a} PROVE x \in Range(lockQueue')
    <3>1. PICK i \in 1..m : x = lockQueue[i]
        BY <1>2, <2>4 DEF Range
    <3>2. i # 1
        BY <1>3, <2>4, <3>1
    <3>3. i - 1 \in DOMAIN lockQueue' /\ lockQueue'[i - 1] = lockQueue[i]
        BY <1>3, <2>2, <3>2
    <3> QED
        BY <3>1, <3>3 DEF Range
  <2> QED
      BY <2>3, <2>4
<1>6. a \in Range(lockQueue)
    BY <1>2, <1>3 DEF Range
<1>7. Locks' = Locks
    BY <1>1 DEF Locks
<1> QED
    BY <1>5, <1>6, <1>7 DEF LockTable!Answer

-----------------------------------------------------------------------------
LEMMA InitService == Init => LockTable!Init
<1> SUFFICES ASSUME Init PROVE LockTable!Init
    OBVIOUS
<1>1. table = << >> /\ lockQueue = << >>
    BY DEF Init
<1>2. DOMAIN table = {} /\ Range(lockQueue) = {}
    BY <1>1 DEF Range
<1>3. Locks = << >>
    BY <1>2 DEF Locks
<1> QED
    BY <1>2, <1>3 DEF LockTable!Init

(* What the service does not see. *)
LEMMA UnseenStep ==
    ASSUME UNCHANGED <<table, lockQueue>>
    PROVE  ServiceStep
BY DEF ServiceStep, Seen, LockTable!vars, Locks

LEMMA NextService == IInv /\ [Next]_vars => ServiceStep
<1> SUFFICES ASSUME IInv, [Next]_vars PROVE ServiceStep
    OBVIOUS
<1>1. ASSUME NEW c \in Clients, NEW n \in Names, ClientCall(c, n) PROVE ServiceStep
  <2>1. ASSUME NEW acquireLock \in BOOLEAN, fs_insert(c, n, acquireLock)
        PROVE  ServiceStep
    <3>1. KeyOf[n] \in Keys /\ (IF acquireLock THEN c ELSE EmptyOwner) \in Clients \cup {EmptyOwner}
        BY KeyOfType
    <3> QED
        BY <2>1, <3>1, InsertStep DEF ServiceStep, LockTable!Next
  <2>2. CASE fs_remove(c, n)
      BY <2>2, RemoveKeeps, DropStep DEF ServiceStep, LockTable!Next
  <2>3. CASE fs_obtain(c, n)
      BY <2>3, UnseenStep DEF fs_obtain
  <2>4. ASSUME NEW len \in WriteLens, fs_modify(c, n, len) PROVE ServiceStep
      BY <2>4, ModifyKeeps, StaysStep DEF ServiceStep, LockTable!Next, Stored
  <2>5. ASSUME NEW len \in AppendLens, fs_append(c, n, len) PROVE ServiceStep
      BY <2>5, AppendKeeps, StaysStep DEF ServiceStep, LockTable!Next, Stored
  <2>6. CASE fs_trylock(c, n)
      BY <2>6, TryLockStep DEF ServiceStep, LockTable!Next
  <2>7. CASE fs_unlock(c, n)
      BY <2>7, InnerUnlockStep, KeyOfType DEF fs_unlock, ServiceStep, LockTable!Next
  <2> QED
      BY <1>1, <2>1, <2>2, <2>3, <2>4, <2>5, <2>6, <2>7 DEF ClientCall
<1>2. ASSUME NEW c \in Clients, NEW keys \in Sessions, fs_clean(c, keys) PROVE ServiceStep
    BY <1>2, UnseenStep DEF fs_clean
<1>3. CASE fs_clean_next
  <2>1. /\ toClean \in Seq([client : Clients, key : Keys]) /\ toClean # << >>
        /\ inner_unlock(Head(toClean).client, Head(toClean).key)
      BY <1>3, IInvParts DEF fs_clean_next, Parts
  <2>2. Head(toClean) \in [client : Clients, key : Keys]
      BY <2>1, HeadTail
  <2> QED
      BY <2>1, <2>2, InnerUnlockStep DEF ServiceStep, LockTable!Next
<1>4. CASE lockThreadTake
    BY <1>4, LockThreadTakeStep DEF ServiceStep, LockTable!Next
<1>5. CASE UNCHANGED vars
    BY <1>5, UnseenStep DEF vars
<1> QED
    BY <1>1, <1>2, <1>3, <1>4, <1>5 DEF Next

(* For any clients, files, hash function and limits, the file system keeps *)
(* the promise of the lock service: locks pass in the order of arrival,    *)
(* and who waited gets the answer that is true, whatever is created,       *)
(* written, ejected or removed meanwhile.                                  *)
THEOREM LocksAreServed == Spec => ImplementsLockService
<1>1. Spec => LockTable!Init /\ [][LockTable!Next]_(LockTable!vars)
    BY IInvHolds, InitService, NextService, PTL DEF Spec, ServiceStep, Seen
<1> QED
    BY <1>1 DEF ImplementsLockService, LockTable!Spec

-----------------------------------------------------------------------------
(* What a step of the service means for a file that stays, and for those   *)
(* who wait.                                                               *)
InOrder ==
    \A k \in DOMAIN Locks \cap DOMAIN Locks' :
        Locks[k].owner # Locks'[k].owner /\ Locks[k].owner # EmptyOwner =>
            IF Locks[k].waiting = << >> THEN Locks'[k].owner = EmptyOwner
            ELSE /\ Locks'[k].owner = Head(Locks[k].waiting)
                 /\ Locks'[k].waiting = Tail(Locks[k].waiting)

Told(k, c) ==
    IF k \notin DOMAIN Locks' THEN [fd |-> c, status |-> NOT_EXISTS] \in Range(lockQueue')
    ELSE \/ c \in Range(Locks'[k].waiting)
         \/ /\ Locks'[k].owner = c
            /\ [fd |-> c, status |-> OK] \in Range(lockQueue')

EveryoneTold == \A k \in DOMAIN Locks : \A c \in Range(Locks[k].waiting) : Told(k, c)

LEMMA LockTypes ==
    ASSUME IInv, NEW k \in DOMAIN Locks
    PROVE  /\ Locks[k] = [owner |-> Locks[k].owner, waiting |-> Locks[k].waiting]
           /\ Locks[k].waiting \in Seq(Clients)
BY LocksOf, TableEntry

LEMMA RefusedHas ==
    ASSUME NEW gone, NEW k \in gone, NEW c \in Range(Locks[k].waiting)
    PROVE  [fd |-> c, status |-> NOT_EXISTS] \in LockTable!Refused(gone)
<1> DEFINE to(f) == {[fd |-> x, status |-> NOT_EXISTS] : x \in LockTable!Range(Locks[f].waiting)}
<1>1. c \in LockTable!Range(Locks[k].waiting)
    BY SameRange
<1>2. [fd |-> c, status |-> NOT_EXISTS] \in to(k)
    BY <1>1
<1>3. to(k) \in {to(f) : f \in gone}
    OBVIOUS
<1>4. LockTable!Refused(gone) = UNION {to(f) : f \in gone}
    BY DEF LockTable!Refused
<1> HIDE DEF to
<1> QED
    BY <1>2, <1>3, <1>4

LEMMA DropMeans ==
    ASSUME IInv, NEW gone \in SUBSET DOMAIN Locks, LockTable!Drop(gone)
    PROVE  InOrder /\ EveryoneTold
<1>1. /\ Locks' = [f \in DOMAIN Locks \ gone |-> Locks[f]]
      /\ Range(lockQueue') = Range(lockQueue) \cup LockTable!Refused(gone)
    BY DEF LockTable!Drop
<1>2. \A k \in gone : \A c \in Range(Locks[k].waiting) :
         [fd |-> c, status |-> NOT_EXISTS] \in Range(lockQueue')
    BY <1>1, RefusedHas
<1> QED
    BY <1>1, <1>2 DEF InOrder, EveryoneTold, Told

LEMMA CreateMeans ==
    ASSUME IInv, NEW f, NEW owner, NEW gone \in SUBSET (DOMAIN Locks \cup {f}),
           LockTable!Create(f, owner, gone)
    PROVE  InOrder /\ EveryoneTold
<1>1. /\ f \notin DOMAIN Locks
      /\ Locks' = [g \in (DOMAIN Locks \cup {f}) \ gone |->
                      IF g = f THEN [owner |-> owner, waiting |-> << >>] ELSE Locks[g]]
      /\ Range(lockQueue') = Range(lockQueue) \cup LockTable!Refused(gone \ {f})
    BY DEF LockTable!Create
<1>2. \A k \in gone \ {f} : \A c \in Range(Locks[k].waiting) :
         [fd |-> c, status |-> NOT_EXISTS] \in Range(lockQueue')
    BY <1>1, RefusedHas
<1>3. \A k \in DOMAIN Locks \ gone : k \in DOMAIN Locks' /\ Locks'[k] = Locks[k]
    BY <1>1
<1>4. \A k \in DOMAIN Locks : k \in gone => k \in gone \ {f} /\ k \notin DOMAIN Locks'
    BY <1>1
<1> QED
    BY <1>2, <1>3, <1>4 DEF InOrder, EveryoneTold, Told

\* One lock changes, to a new owner and queue.
LEMMA OnlyLock ==
    ASSUME NEW f \in DOMAIN Locks, NEW owner, NEW waiting,
           Locks' = [Locks EXCEPT ![f] = [owner |-> owner, waiting |-> waiting]]
    PROVE  /\ DOMAIN Locks' = DOMAIN Locks
           /\ Locks'[f].owner = owner /\ Locks'[f].waiting = waiting
           /\ \A k \in DOMAIN Locks : k # f => Locks'[k] = Locks[k]
OBVIOUS

LEMMA TakeMeans ==
    ASSUME IInv, NEW c \in Clients, NEW f \in DOMAIN Locks, LockTable!Take(c, f)
    PROVE  InOrder /\ EveryoneTold
<1>1. [Locks[f] EXCEPT !.owner = c] = [owner |-> c, waiting |-> Locks[f].waiting]
    BY LockTypes, EntryExcept
<1>2. Locks' = [Locks EXCEPT ![f] = [owner |-> c, waiting |-> Locks[f].waiting]]
    BY <1>1 DEF LockTable!Take
<1>3. Locks[f].owner = EmptyOwner
    BY DEF LockTable!Take
<1> QED
    BY <1>2, <1>3, OnlyLock DEF InOrder, EveryoneTold, Told

LEMMA WaitMeans ==
    ASSUME IInv, NEW c \in Clients, NEW f \in DOMAIN Locks, LockTable!Wait(c, f)
    PROVE  InOrder /\ EveryoneTold
<1>1. PICK longer : longer = Append(Locks[f].waiting, c)
    OBVIOUS
<1>2. [Locks[f] EXCEPT !.waiting = longer] = [owner |-> Locks[f].owner, waiting |-> longer]
    BY LockTypes, EntryExcept
<1>3. Locks' = [Locks EXCEPT ![f] = [owner |-> Locks[f].owner, waiting |-> longer]]
    BY <1>1, <1>2 DEF LockTable!Wait
<1>4. Range(longer) = Range(Locks[f].waiting) \cup {c}
    BY <1>1, LockTypes, AppendRange
<1> QED
    BY <1>3, <1>4, OnlyLock DEF InOrder, EveryoneTold, Told

LEMMA ReleaseMeans ==
    ASSUME IInv, NEW f \in DOMAIN Locks, LockTable!Release(f)
    PROVE  InOrder /\ EveryoneTold
<1> DEFINE w == Locks[f].waiting
<1>1. CASE w = << >>
  <2>1. [Locks[f] EXCEPT !.owner = EmptyOwner] = [owner |-> EmptyOwner, waiting |-> w]
      BY LockTypes, EntryExcept
  <2>2. Locks' = [Locks EXCEPT ![f] = [owner |-> EmptyOwner, waiting |-> w]]
      BY <1>1, <2>1 DEF LockTable!Release
  <2> QED
      BY <1>1, <2>2, OnlyLock DEF InOrder, EveryoneTold, Told
<1>2. CASE w # << >>
  <2>1. /\ Locks' = [Locks EXCEPT ![f] = [owner |-> Head(w), waiting |-> Tail(w)]]
        /\ Range(lockQueue') = Range(lockQueue) \cup {[fd |-> Head(w), status |-> OK]}
      BY <1>2 DEF LockTable!Release
  <2>2. Range(w) = {Head(w)} \cup Range(Tail(w))
      BY <1>2, LockTypes, HeadAndTail
  <2>3. PICK head, tail : head = Head(w) /\ tail = Tail(w)
      OBVIOUS
  <2>4. /\ DOMAIN Locks' = DOMAIN Locks
        /\ Locks'[f].owner = head /\ Locks'[f].waiting = tail
        /\ \A k \in DOMAIN Locks : k # f => Locks'[k] = Locks[k]
      BY <2>1, <2>3, OnlyLock
  <2>5. InOrder
      BY <1>2, <2>3, <2>4 DEF InOrder
  <2>6. EveryoneTold
      BY <2>1, <2>2, <2>3, <2>4 DEF EveryoneTold, Told
  <2> QED
      BY <2>5, <2>6
<1> QED
    BY <1>1, <1>2

LEMMA StepMeans ==
    ASSUME IInv, ServiceStep
    PROVE  InOrder /\ EveryoneTold
<1>1. CASE Locks' = Locks
    BY <1>1 DEF InOrder, EveryoneTold, Told
<1>2. CASE LockTable!Next
  <2>1. ASSUME NEW a \in Range(lockQueue), LockTable!Answer(a) PROVE Locks' = Locks
      BY <2>1 DEF LockTable!Answer
  <2> QED
      BY <1>1, <1>2, <2>1, DropMeans, CreateMeans, TakeMeans, WaitMeans, ReleaseMeans
         DEF LockTable!Next
<1> QED
    BY <1>1, <1>2 DEF ServiceStep, Seen, LockTable!vars

-----------------------------------------------------------------------------
(* A notification that keeps its place in the queue, or gets an older      *)
(* one's, was there before.                                                *)
QueueKept == \A i \in DOMAIN lockQueue \cap DOMAIN lockQueue' : lockQueue'[i] \in Range(lockQueue)

LEMMA LongerQueue ==
    ASSUME lockQueue \in Seq(Notice), NEW more \in Seq(Notice), lockQueue' = lockQueue \o more
    PROVE  QueueKept
<1>1. PICK m \in Nat, l \in Nat : /\ m = Len(lockQueue) /\ DOMAIN lockQueue = 1..m
                                 /\ l = Len(more)
    BY SeqIsFunction
<1>2. \A i \in 1..(m + l) : lockQueue'[i] = IF i <= m THEN lockQueue[i] ELSE more[i - m]
    BY <1>1, ConcatProperties
<1>3. \A i \in 1..m : i \in 1..(m + l) /\ i <= m
    OBVIOUS
<1> QED
    BY <1>1, <1>2, <1>3 DEF QueueKept, Range

LEMMA NextQueueKept ==
    ASSUME IInv, [Next]_vars
    PROVE  QueueKept
<1>0. lockQueue \in Seq(Notice)
    BY IInvParts DEF Parts
<1>1. ASSUME NEW t, NEW gone, Leave(t, gone) PROVE QueueKept
    BY <1>0, <1>1, LongerQueue DEF Leave
<1>2. CASE UNCHANGED lockQueue
    BY <1>2 DEF QueueKept, Range
<1>3. ASSUME NEW c \in Clients, NEW k \in Keys, inner_unlock(c, k) PROVE QueueKept
  <2>1. CASE UNCHANGED lockQueue
      BY <1>2, <2>1
  <2>2. CASE /\ UnlockResult(c, k) = OK /\ table[k].waiting # << >>
             /\ lockQueue' = Append(lockQueue, [fd |-> PassLock(table[k]).owner, status |-> OK])
    <3>1. k \in DOMAIN table
        BY <2>2 DEF UnlockResult, OK, NOT_EXISTS
    <3>2. PassLock(table[k]).owner \in Clients
        BY <2>2, <3>1, TableEntry, HeadTail DEF PassLock, Entry
    <3>3. PICK a \in Notice : lockQueue' = Append(lockQueue, a)
        BY <2>2, <3>2 DEF Notice
    <3>4. PICK m \in Nat : m = Len(lockQueue) /\ DOMAIN lockQueue = 1..m
        BY <1>0, SeqIsFunction
    <3>5. \A i \in 1..m : lockQueue'[i] = lockQueue[i]
        BY <1>0, <3>3, <3>4, AppendProperties
    <3> QED
        BY <3>4, <3>5 DEF QueueKept, Range
  <2> QED
      BY <1>3, <2>1, <2>2 DEF inner_unlock
<1>4. ASSUME NEW c \in Clients, NEW n \in Names, ClientCall(c, n) PROVE QueueKept
  <2>1. ASSUME NEW acquireLock \in BOOLEAN, fs_insert(c, n, acquireLock) PROVE QueueKept
      BY <1>1, <2>1, InsertKeeps
  <2>2. CASE fs_remove(c, n)
      BY <1>1, <2>2, RemoveKeeps
  <2>3. CASE fs_obtain(c, n)
      BY <1>2, <2>3 DEF fs_obtain
  <2>4. ASSUME NEW len \in WriteLens, fs_modify(c, n, len) PROVE QueueKept
      BY <1>1, <2>4, ModifyKeeps DEF LockStays
  <2>5. ASSUME NEW len \in AppendLens, fs_append(c, n, len) PROVE QueueKept
      BY <1>1, <2>5, AppendKeeps DEF LockStays
  <2>6. CASE fs_trylock(c, n)
      BY <1>2, <2>6 DEF fs_trylock
  <2>7. CASE fs_unlock(c, n)
      BY <1>3, <2>7, KeyOfType DEF fs_unlock
  <2> QED
      BY <1>4, <2>1, <2>2, <2>3, <2>4, <2>5, <2>6, <2>7 DEF ClientCall
<1>5. ASSUME NEW c \in Clients, NEW keys \in Sessions, fs_clean(c, keys) PROVE QueueKept
    BY <1>2, <1>5 DEF fs_clean
<1>6. CASE fs_clean_next
  <2>1. /\ toClean \in Seq([client : Clients, key : Keys]) /\ toClean # << >>
        /\ inner_unlock(Head(toClean).client, Head(toClean).key)
      BY <1>6, IInvParts DEF fs_clean_next, Parts
  <2>2. Head(toClean) \in [client : Clients, key : Keys]
      BY <2>1, HeadTail
  <2> QED
      BY <1>3, <2>1, <2>2
<1>7. CASE lockThreadTake
  <2>1. /\ lockQueue # << >> /\ lockQueue' = Tail(lockQueue)
      BY <1>7 DEF lockThreadTake
  <2>2. \A i \in DOMAIN lockQueue' :
           i \in Int /\ i + 1 \in DOMAIN lockQueue /\ lockQueue'[i] = lockQueue[i + 1]
      BY <1>0, <2>1, HeadTail
  <2> QED
      BY <2>2 DEF QueueKept, Range
<1>8. CASE UNCHANGED vars
    BY <1>2, <1>8 DEF vars
<1> QED
    BY <1>4, <1>5, <1>6, <1>7, <1>8 DEF Next

(* A lock passes from its owner to the client that came first.             *)
THEOREM LocksPassInOrder == Spec => HandOffInOrder
<1> DEFINE A == \A k \in DOMAIN table \cap DOMAIN table' :
                  LET old == table[k]
                      new == table'[k]
                  IN  old.owner # new.owner /\ old.owner # EmptyOwner =>
                         IF old.waiting = << >> THEN new.owner = EmptyOwner
                         ELSE new.owner = old.waiting[1] /\ new.waiting = Tail(old.waiting)
<1>1. ASSUME IInv, [Next]_vars PROVE A
  <2>1. InOrder
      BY <1>1, NextService, StepMeans
  <2>2. ASSUME NEW k \in DOMAIN table \cap DOMAIN table'
        PROVE  /\ Locks[k].owner = table[k].owner /\ Locks[k].waiting = table[k].waiting
               /\ Locks'[k].owner = table'[k].owner /\ Locks'[k].waiting = table'[k].waiting
               /\ k \in DOMAIN Locks \cap DOMAIN Locks'
      BY LocksOf, LocksNext
  <2>3. ASSUME NEW k \in DOMAIN table, table[k].waiting # << >>
        PROVE  Head(table[k].waiting) = table[k].waiting[1]
      BY <1>1, <2>3, TableEntry, HeadTail
  <2> QED
      BY <2>1, <2>2, <2>3 DEF InOrder
<1>2. IInv /\ [Next]_vars => [A]_vars
    BY <1>1
<1> QED
    BY <1>2, IInvHolds, PTL DEF Spec, HandOffInOrder

(* Who stops waiting gets exactly one answer for it, in that step, and it  *)
(* says what happened.                                                     *)
THEOREM WaitersAreAnswered == Spec => WaitersAnswered
<1> DEFINE News(c) == {i \in DOMAIN lockQueue' \ DOMAIN lockQueue : lockQueue'[i].fd = c}
           A == \A k \in DOMAIN table : \A c \in Range(table[k].waiting) :
                  LET gone == k \notin DOMAIN table'
                      news == {i \in DOMAIN lockQueue' \ DOMAIN lockQueue :
                                  lockQueue'[i].fd = c}
                  IN  IF ~gone /\ c \in Range(table'[k].waiting) THEN news = {}
                      ELSE \E i \in news :
                              /\ news = {i}
                              /\ lockQueue'[i].status = IF gone THEN NOT_EXISTS ELSE OK
                              /\ gone \/ table'[k].owner = c
<1>1. ASSUME IInv, IInv', [Next]_vars PROVE A
  <2> SUFFICES ASSUME NEW k \in DOMAIN table, NEW c \in Range(table[k].waiting)
               PROVE  IF k \in DOMAIN table' /\ c \in Range(table'[k].waiting) THEN News(c) = {}
                      ELSE \E i \in News(c) :
                              /\ News(c) = {i}
                              /\ lockQueue'[i].status =
                                    IF k \notin DOMAIN table' THEN NOT_EXISTS ELSE OK
                              /\ k \notin DOMAIN table' \/ table'[k].owner = c
      OBVIOUS
  <2>1. /\ QueueKept
        /\ NoneNotified(table, lockQueue)
        /\ NoneNotified(table', lockQueue') /\ OneNoticeEach(lockQueue')
      BY <1>1, NextQueueKept, IInvParts, IInvPartsNext DEF Parts, LocksOK
  <2>2. ~InQueue(lockQueue, c)
      BY <2>1 DEF NoneNotified, Range
  <2>3. ASSUME NEW i \in DOMAIN lockQueue', lockQueue'[i].fd = c PROVE i \in News(c)
      BY <2>1, <2>2, <2>3 DEF QueueKept, InQueue, Range
  <2>4. Told(k, c)
    <3>1. EveryoneTold
        BY <1>1, NextService, StepMeans
    <3>2. k \in DOMAIN Locks /\ Locks[k].waiting = table[k].waiting
        BY LocksOf
    <3> QED
        BY <3>1, <3>2 DEF EveryoneTold
  <2>5. /\ DOMAIN Locks' = DOMAIN table'
        /\ k \in DOMAIN table' => /\ Locks'[k].owner = table'[k].owner
                                  /\ Locks'[k].waiting = table'[k].waiting
      BY LocksNext
  <2>6. CASE k \in DOMAIN table' /\ c \in Range(table'[k].waiting)
    <3>1. ~InQueue(lockQueue', c)
        BY <2>1, <2>6 DEF NoneNotified, Range
    <3> QED
        BY <2>6, <3>1 DEF InQueue
  <2>7. CASE ~(k \in DOMAIN table' /\ c \in Range(table'[k].waiting))
    <3>1. PICK i \in DOMAIN lockQueue' :
             /\ lockQueue'[i] = [fd |-> c, status |-> IF k \notin DOMAIN table'
                                                     THEN NOT_EXISTS ELSE OK]
             /\ k \notin DOMAIN table' \/ table'[k].owner = c
        BY <2>4, <2>5, <2>7 DEF Told, Range
    <3>2. i \in News(c) /\ lockQueue'[i].fd = c
        BY <2>3, <3>1
    <3>3. \A j \in News(c) : j = i
        BY <2>1, <3>2 DEF OneNoticeEach
    <3> QED
        BY <2>7, <3>1, <3>2, <3>3
  <2> QED
      BY <2>6, <2>7
<1>2. IInv /\ IInv' /\ [Next]_vars => [A]_vars
    BY <1>1
<1> QED
    BY <1>2, IInvHolds, PTL DEF Spec, WaitersAnswered

-----------------------------------------------------------------------------
(* The sessions and the requests. *)

Holds(c, k) == k \in DOMAIN Locks /\ Locks[k].owner = c
Awaits(c, k) == k \in DOMAIN Locks /\ c \in Range(Locks[k].waiting)
Blocked(c) == Waits(c) \/ Notified(c)

\* The session of c lists slot k; a worker is about to list it for the lock.
Listed(c, k) == \E i \in DOMAIN sessions[c].files : KeyOf[sessions[c].files[i].name] = k
AboutToList(c, k) ==
    /\ handling[c].todo = "addFileOpened"
    /\ KeyOf[handling[c].file.name] = k /\ LOCK \in handling[c].file.flags
Known(c, k) == Listed(c, k) \/ <<c, k>> \in unrecorded

BeingCleaned(c, k) == \E i \in DOMAIN toClean : toClean[i] = [client |-> c, key |-> k]

ClientOK(c) ==
    /\ Blocked(c) \/ c \in abandoned => handling[c] = Nothing /\ sessions[c].isValid
    /\ handling[c] # Nothing => sessions[c].isValid
    /\ ~sessions[c].isValid => sessions[c].files = << >>
    /\ \A k \in Keys : Awaits(c, k) => Known(c, k)
    /\ \A k \in Keys : Holds(c, k) => Known(c, k) \/ AboutToList(c, k)
    /\ handling[c].todo = "remFileOpened" => ~Holds(c, KeyOf[handling[c].name])
    /\ handling[c].todo = "destroySession" =>
          \A k \in Keys : Holds(c, k) => <<c, k>> \in unrecorded \/ BeingCleaned(c, k)

SessionsOK ==
    /\ sessions \in [Clients -> Session]
    /\ handling \in [Clients -> Step]
    /\ \A c \in Clients : Len(sessions[c].files) <= MaxOpened
    /\ abandoned \subseteq Losable
    /\ unrecorded \subseteq Clients \X Keys

SrvInv == IInv /\ SessionsOK /\ \A c \in Clients : ClientOK(c)

-----------------------------------------------------------------------------
(* What a step of the lock service gives to whom: nobody but the clients of *)
(* H comes to hold a lock without having waited, nobody but those of W      *)
(* begins to wait.                                                          *)
OnlyGains(H, W) ==
    /\ \A d \in Clients, k \in Keys : Holds(d, k)' => Holds(d, k) \/ Awaits(d, k) \/ <<d, k>> \in H
    /\ \A d \in Clients, k \in Keys : Awaits(d, k)' => Awaits(d, k) \/ <<d, k>> \in W
    /\ \A d \in Clients : Blocked(d)' => Blocked(d) \/ \E k \in Keys : <<d, k>> \in W

HasNews(d) == \E x \in Range(lockQueue) : x.fd = d

LEMMA BlockedIs ==
    /\ \A d : Blocked(d) <=> HasNews(d) \/ \E k \in DOMAIN Locks : Awaits(d, k)
    /\ \A d : Blocked(d)' <=> HasNews(d)' \/ \E k \in DOMAIN Locks' : Awaits(d, k)'
<1>1. DOMAIN Locks = DOMAIN table /\ DOMAIN Locks' = DOMAIN table'
    BY LocksOf, LocksNext
<1>2. \A d : (Waits(d) <=> \E k \in DOMAIN Locks : Awaits(d, k))
    BY <1>1, LocksOf DEF Waits, Awaits
<1>3. \A d : (Waits(d)' <=> \E k \in DOMAIN Locks' : Awaits(d, k)')
    BY <1>1, LocksNext DEF Waits, Awaits
<1>4. \A d : (Notified(d) <=> HasNews(d)) /\ (Notified(d)' <=> HasNews(d)')
    BY DEF Notified, HasNews, Range
<1> QED
    BY <1>2, <1>3, <1>4 DEF Blocked

\* Holding and waiting, told of the locks alone.
LEMMA GainsByParts ==
    ASSUME NEW H, NEW W,
           IInv, DOMAIN Locks' \subseteq Keys,
           \A d \in Clients, k \in DOMAIN Locks' :
              Locks'[k].owner = d => Holds(d, k) \/ Awaits(d, k) \/ <<d, k>> \in H,
           \A d \in Clients, k \in DOMAIN Locks' :
              d \in Range(Locks'[k].waiting) => Awaits(d, k) \/ <<d, k>> \in W,
           \A d \in Clients : HasNews(d)' => Blocked(d)
    PROVE  OnlyGains(H, W)
<1>1. \A d, k : (Holds(d, k)' <=> k \in DOMAIN Locks' /\ Locks'[k].owner = d)
    BY DEF Holds
<1>2. \A d, k : (Awaits(d, k)' <=> k \in DOMAIN Locks' /\ d \in Range(Locks'[k].waiting))
    BY DEF Awaits
<1>3. \A d, k : Awaits(d, k) => k \in DOMAIN Locks
    BY DEF Awaits
<1> QED
    BY <1>1, <1>2, <1>3, BlockedIs DEF OnlyGains

LEMMA LocksInKeys == ASSUME IInv PROVE DOMAIN Locks \subseteq Keys
BY LocksOf, IInvParts DEF Parts, TableOK

\* Who waits for a file that goes was blocked before.
LEMMA RefusedWaited ==
    ASSUME NEW gone \in SUBSET DOMAIN Locks, NEW x \in LockTable!Refused(gone)
    PROVE  Blocked(x.fd)
<1>1. PICK f \in gone : x \in {[fd |-> c, status |-> NOT_EXISTS] : c \in LockTable!Range(Locks[f].waiting)}
    BY DEF LockTable!Refused
<1>2. PICK c : c \in Range(Locks[f].waiting) /\ x = [fd |-> c, status |-> NOT_EXISTS]
    BY <1>1, SameRange
<1>3. x.fd = c
    BY <1>2
<1> QED
    BY <1>2, <1>3, BlockedIs DEF Awaits

LEMMA DropGains ==
    ASSUME IInv, NEW gone \in SUBSET DOMAIN Locks, LockTable!Drop(gone)
    PROVE  OnlyGains({}, {})
<1>1. /\ Locks' = [f \in DOMAIN Locks \ gone |-> Locks[f]]
      /\ Range(lockQueue)' = Range(lockQueue) \cup LockTable!Refused(gone)
    BY DEF LockTable!Drop
<1>2. \A d \in Clients : HasNews(d)' => Blocked(d)
    BY <1>1, RefusedWaited, BlockedIs DEF HasNews
<1> QED
    BY <1>1, <1>2, GainsByParts, LocksInKeys DEF Holds, Awaits

LEMMA CreateGains ==
    ASSUME IInv, NEW f \in Keys, NEW owner, NEW gone \in SUBSET (DOMAIN Locks \cup {f}),
           LockTable!Create(f, owner, gone)
    PROVE  OnlyGains({<<owner, f>>}, {})
<1>1. /\ f \notin DOMAIN Locks
      /\ Locks' = [g \in (DOMAIN Locks \cup {f}) \ gone |->
                      IF g = f THEN [owner |-> owner, waiting |-> << >>] ELSE Locks[g]]
      /\ Range(lockQueue)' = Range(lockQueue) \cup LockTable!Refused(gone \ {f})
    BY DEF LockTable!Create
<1>2. \A d \in Clients : HasNews(d)' => Blocked(d)
  <2>1. gone \ {f} \in SUBSET DOMAIN Locks
      OBVIOUS
  <2> QED
      BY <1>1, <2>1, RefusedWaited, BlockedIs DEF HasNews
<1>3. Range(<< >>) = {}
    BY DEF Range
<1> QED
    BY <1>1, <1>2, <1>3, GainsByParts, LocksInKeys DEF Holds, Awaits

LEMMA TakeGains ==
    ASSUME IInv, NEW c \in Clients, NEW f \in DOMAIN Locks, LockTable!Take(c, f)
    PROVE  OnlyGains({<<c, f>>}, {})
<1>1. [Locks[f] EXCEPT !.owner = c] = [owner |-> c, waiting |-> Locks[f].waiting]
    BY LockTypes, EntryExcept
<1>2. /\ Locks' = [Locks EXCEPT ![f] = [owner |-> c, waiting |-> Locks[f].waiting]]
      /\ Range(lockQueue)' = Range(lockQueue)
    BY <1>1 DEF LockTable!Take
<1>3. \A d \in Clients : HasNews(d)' => Blocked(d)
    BY <1>2, BlockedIs DEF HasNews
<1> QED
    BY <1>2, <1>3, OnlyLock, GainsByParts, LocksInKeys DEF Holds, Awaits

LEMMA WaitGains ==
    ASSUME IInv, NEW c \in Clients, NEW f \in DOMAIN Locks, LockTable!Wait(c, f)
    PROVE  OnlyGains({}, {<<c, f>>})
<1>1. PICK longer : longer = Append(Locks[f].waiting, c)
    OBVIOUS
<1>2. [Locks[f] EXCEPT !.waiting = longer] = [owner |-> Locks[f].owner, waiting |-> longer]
    BY LockTypes, EntryExcept
<1>3. /\ Locks' = [Locks EXCEPT ![f] = [owner |-> Locks[f].owner, waiting |-> longer]]
      /\ Range(lockQueue)' = Range(lockQueue)
    BY <1>1, <1>2 DEF LockTable!Wait
<1>4. Range(longer) = Range(Locks[f].waiting) \cup {c}
    BY <1>1, LockTypes, AppendRange
<1>5. \A d \in Clients : HasNews(d)' => Blocked(d)
    BY <1>3, BlockedIs DEF HasNews
<1> QED
    BY <1>3, <1>4, <1>5, OnlyLock, GainsByParts, LocksInKeys DEF Holds, Awaits

LEMMA ReleaseGains ==
    ASSUME IInv, NEW f \in DOMAIN Locks, LockTable!Release(f)
    PROVE  OnlyGains({}, {}) /\ \A d \in Clients : Holds(d, f) => ~Holds(d, f)'
<1> DEFINE w == Locks[f].waiting
<1>0. EmptyOwner \notin Clients
    BY ConstantsAssumption
<1>1. CASE w = << >>
  <2>1. [Locks[f] EXCEPT !.owner = EmptyOwner] = [owner |-> EmptyOwner, waiting |-> w]
      BY LockTypes, EntryExcept
  <2>2. /\ Locks' = [Locks EXCEPT ![f] = [owner |-> EmptyOwner, waiting |-> w]]
        /\ Range(lockQueue)' = Range(lockQueue)
      BY <1>1, <2>1 DEF LockTable!Release
  <2> HIDE DEF w
  <2>3. \A d \in Clients : HasNews(d)' => Blocked(d)
      BY <2>2, BlockedIs DEF HasNews
  <2>4. OnlyGains({}, {})
      BY <1>0, <2>2, <2>3, OnlyLock, GainsByParts, LocksInKeys DEF Holds, Awaits, w
  <2>5. \A d \in Clients : ~Holds(d, f)'
      BY <1>0, <2>2, OnlyLock DEF Holds
  <2> QED
      BY <2>4, <2>5
<1>2. CASE w # << >>
  <2>1. PICK next : next = Head(w)
      OBVIOUS
  <2>2. PICK rest : rest = Tail(w)
      OBVIOUS
  <2>3. /\ Locks' = [Locks EXCEPT ![f] = [owner |-> next, waiting |-> rest]]
        /\ Range(lockQueue)' = Range(lockQueue) \cup {[fd |-> next, status |-> OK]}
      BY <1>2, <2>1, <2>2, LockTypes DEF LockTable!Release
  <2>4. Range(w) = {next} \cup Range(rest)
      BY <1>2, <2>1, <2>2, LockTypes, HeadAndTail
  <2>5. Awaits(next, f)
      BY <2>4 DEF Awaits
  <2>6. \A d \in Clients : HasNews(d)' => Blocked(d)
      BY <2>3, <2>5, BlockedIs DEF HasNews
  <2>7. OnlyGains({}, {})
      BY <2>3, <2>4, <2>5, <2>6, OnlyLock, GainsByParts, LocksInKeys DEF Holds, Awaits
  <2>8. \A d \in Clients : Holds(d, f) => d # next
    <3>1. f \in DOMAIN table /\ Locks[f] = [owner |-> table[f].owner, waiting |-> table[f].waiting]
        BY LocksOf
    <3>2. \A i \in DOMAIN table[f].waiting : table[f].owner # table[f].waiting[i]
        BY <3>1, IInvParts DEF Parts, LocksOK, WaitersOK
    <3> QED
        BY <2>4, <3>1, <3>2 DEF Holds, Range
  <2>9. \A d \in Clients : Holds(d, f) => ~Holds(d, f)'
      BY <2>3, <2>8, OnlyLock DEF Holds
  <2> QED
      BY <2>7, <2>9
<1> QED
    BY <1>1, <1>2

LEMMA AnswerGains ==
    ASSUME IInv, NEW a, LockTable!Answer(a)
    PROVE  OnlyGains({}, {})
<1>1. Locks' = Locks /\ Range(lockQueue)' \subseteq Range(lockQueue)
    BY DEF LockTable!Answer
<1>2. \A d \in Clients : HasNews(d)' => Blocked(d)
    BY <1>1, BlockedIs DEF HasNews
<1> QED
    BY <1>1, <1>2, GainsByParts, LocksInKeys DEF Holds, Awaits

LEMMA UnseenGains ==
    ASSUME IInv, UNCHANGED Seen
    PROVE  OnlyGains({}, {})
<1>1. Locks' = Locks /\ Range(lockQueue)' = Range(lockQueue)
    BY DEF Seen, LockTable!vars
<1>2. \A d \in Clients : HasNews(d)' => Blocked(d)
    BY <1>1, BlockedIs DEF HasNews
<1> QED
    BY <1>1, <1>2, GainsByParts, LocksInKeys DEF Holds, Awaits

-----------------------------------------------------------------------------
(* The calls of the file system. *)

LEMMA CallerFree ==
    ASSUME NEW c \in Clients, CanCall(c)
    PROVE  ~Blocked(c)
BY DEF CanCall, Blocked

LEMMA InsertGains ==
    ASSUME IInv, NEW c \in Clients, NEW n \in Names, NEW acquireLock \in BOOLEAN,
           fs_insert(c, n, acquireLock)
    PROVE  OnlyGains(IF acquireLock THEN {<<c, KeyOf[n]>>} ELSE {}, {})
<1> DEFINE owner == IF acquireLock THEN c ELSE EmptyOwner
<1>1. OnlyGains({<<owner, KeyOf[n]>>}, {})
    BY InsertStep, CreateGains, KeyOfType
<1> QED
    BY <1>1, ConstantsAssumption DEF OnlyGains

LEMMA RemoveGains ==
    ASSUME IInv, NEW c \in Clients, NEW n \in Names, fs_remove(c, n)
    PROVE  OnlyGains({}, {}) /\ ~Holds(c, KeyOf[n])'
<1>1. Leave(table, {KeyOf[n]})
    BY RemoveKeeps
<1>2. OnlyGains({}, {})
    BY <1>1, DropStep, DropGains
<1>3. KeyOf[n] \notin DOMAIN Locks'
    BY <1>1, LocksNext DEF Leave
<1> QED
    BY <1>2, <1>3 DEF Holds

LEMMA WriteGains ==
    ASSUME IInv, NEW c \in Clients, NEW n \in Names,
           \/ \E len \in WriteLens : fs_modify(c, n, len)
           \/ \E len \in AppendLens : fs_append(c, n, len)
    PROVE  OnlyGains({}, {})
<1>1. Stored(n) /\ LockStays(KeyOf[n])
    BY ModifyKeeps, AppendKeeps
<1> QED
    BY <1>1, StaysStep, DropGains DEF Stored

LEMMA ObtainGains ==
    ASSUME IInv, NEW c \in Clients, NEW n \in Names, fs_obtain(c, n)
    PROVE  OnlyGains({}, {})
<1>1. UNCHANGED Seen
    BY DEF fs_obtain, Seen, LockTable!vars, Locks
<1> QED
    BY <1>1, UnseenGains

LEMMA TryLockGains ==
    ASSUME IInv, NEW c \in Clients, NEW n \in Names, fs_trylock(c, n)
    PROVE  IF TryLockResult(c, n) = WAITING_ON_LOCK
           THEN OnlyGains({}, {<<c, KeyOf[n]>>})
           ELSE OnlyGains({<<c, KeyOf[n]>>}, {})
<1>1. CASE TryLockResult(c, n) = WAITING_ON_LOCK
    BY <1>1, TryLockStep, WaitGains DEF OK, WAITING_ON_LOCK
<1>2. CASE TryLockResult(c, n) = OK /\ LockTable!Take(c, KeyOf[n])
    BY <1>2, TryLockStep, TakeGains DEF OK, WAITING_ON_LOCK
<1>3. CASE TryLockResult(c, n) = OK /\ UNCHANGED Seen
  <2>1. OnlyGains({}, {})
      BY <1>3, UnseenGains
  <2> QED
      BY <1>3, <2>1 DEF OnlyGains, OK, WAITING_ON_LOCK
<1> QED
    BY <1>1, <1>2, <1>3, TryLockStep

\* After it the client does not hold the lock, whether it did or not.
LEMMA InnerUnlockGains ==
    ASSUME IInv, NEW c \in Clients, NEW k \in Keys, inner_unlock(c, k)
    PROVE  OnlyGains({}, {}) /\ ~Holds(c, k)'
<1>1. CASE UnlockResult(c, k) = OK
  <2>1. Holds(c, k)
      BY <1>1, LocksOf DEF UnlockResult, Holds, OK, NOT_EXISTS, NOT_ALLOWED
  <2> QED
      BY <1>1, <2>1, InnerUnlockStep, ReleaseGains
<1>2. CASE UnlockResult(c, k) # OK
  <2>1. ~Holds(c, k)
      BY <1>2, LocksOf DEF UnlockResult, Holds, OK, NOT_EXISTS, NOT_ALLOWED
  <2>2. UNCHANGED Seen
      BY <1>2, InnerUnlockStep
  <2>3. ~Holds(c, k)'
      BY <2>1, <2>2 DEF Holds, Seen, LockTable!vars
  <2> QED
      BY <2>2, <2>3, UnseenGains
<1> QED
    BY <1>1, <1>2

LEMMA UnlockGains ==
    ASSUME IInv, NEW c \in Clients, NEW n \in Names, fs_unlock(c, n)
    PROVE  OnlyGains({}, {}) /\ ~Holds(c, KeyOf[n])'
BY InnerUnlockGains, KeyOfType DEF fs_unlock

LEMMA LockThreadGains ==
    ASSUME IInv, lockThreadTake
    PROVE  OnlyGains({}, {})
BY LockThreadTakeStep, AnswerGains

-----------------------------------------------------------------------------
(* What a step that is not about client d leaves to d. *)
LEMMA OthersKeep ==
    ASSUME IInv, SessionsOK, NEW d \in Clients, ClientOK(d), NEW H, NEW W, OnlyGains(H, W),
           \A k : <<d, k>> \notin H /\ <<d, k>> \notin W,
           sessions'[d] = sessions[d], handling'[d] = handling[d],
           d \in abandoned' => d \in abandoned,
           \A k \in Keys : <<d, k>> \in unrecorded => <<d, k>> \in unrecorded',
           \A k \in Keys : Holds(d, k)' /\ BeingCleaned(d, k) => BeingCleaned(d, k)'
    PROVE  ClientOK(d)'
<1>1. \A k \in Keys : /\ Holds(d, k)' => Holds(d, k) \/ Awaits(d, k)
                      /\ Awaits(d, k)' => Awaits(d, k)
    BY DEF OnlyGains
<1>2. Blocked(d)' => Blocked(d)
    BY DEF OnlyGains
<1>3. \A k \in Keys : Awaits(d, k) => Blocked(d)
    BY BlockedIs DEF Awaits
<1>4. \A k \in Keys : /\ Known(d, k) => Known(d, k)'
                      /\ AboutToList(d, k) => AboutToList(d, k)'
    BY DEF Known, Listed, AboutToList
<1>5. handling[d] = Nothing =>
        handling[d].todo # "remFileOpened" /\ handling[d].todo # "destroySession"
    BY DEF Nothing
<1>6. handling[d].todo = "remFileOpened" => KeyOf[handling[d].name] \in Keys
    BY KeyOfType DEF SessionsOK, Step, Nothing
<1> QED
    BY <1>1, <1>2, <1>3, <1>4, <1>5, <1>6 DEF ClientOK

-----------------------------------------------------------------------------
(* Every request uses the file system by its calls, one at a time. *)

LEMMA CleanIsCall ==
    ASSUME SessionsOK, NEW c \in Clients, fs_clean(c, FilesToClean(c))
    PROVE  [Next]_vars
<1>1. PICK n \in Nat : n = Len(sessions[c].files) /\ DOMAIN sessions[c].files = 1..n /\ n <= MaxOpened
    BY ConstantsAssumption DEF SessionsOK, Session
<1>2. sessions[c].files \in [1..n -> Opened]
    BY <1>1 DEF SessionsOK, Session
<1>3. FilesToClean(c) \in [1..n -> Keys]
    BY <1>1, <1>2, KeyOfType DEF FilesToClean, Opened
<1>4. CASE n = 0
  <2>1. DOMAIN FilesToClean(c) = {}
      BY <1>3, <1>4
  <2>2. toClean' = << >> /\ toClean = << >>
      BY <2>1 DEF fs_clean, CanCall, MutexFree
  <2> QED
      BY <2>2 DEF fs_clean, vars
<1>5. CASE n # 0
  <2>1. n \in 1..MaxOpened
      BY <1>1, <1>5, ConstantsAssumption
  <2>2. FilesToClean(c) \in Sessions
      BY <1>3, <2>1 DEF Sessions
  <2> QED
      BY <2>2 DEF Next
<1> QED
    BY <1>4, <1>5

LEMMA CallsOnly == SessionsOK /\ [ServerNext]_allVars => [Next]_vars
<1> SUFFICES ASSUME SessionsOK, [ServerNext]_allVars PROVE [Next]_vars
    OBVIOUS
<1>1. ASSUME NEW c \in Clients, openSession(c) \/ readFails(c) \/ Continue(c)
      PROVE  [Next]_vars
    BY <1>1 DEF openSession, readFails, Continue, destroySession, addFileOpened, remFileOpened
<1>2. ASSUME NEW c \in Clients, closeSession(c) \/ reuse(c) PROVE [Next]_vars
    BY <1>2, CleanIsCall DEF closeSession, reuse
<1>3. ASSUME NEW c \in Clients, NEW n \in Names, NEW flags \in SUBSET {CREATE, LOCK}, openFile(c, n, flags)
      PROVE  [Next]_vars
  <2>1. (LOCK \in flags) \in BOOLEAN
      OBVIOUS
  <2>2. ClientCall(c, n)
      BY <1>3, <2>1 DEF openFile, ClientCall
  <2> QED
      BY <2>2 DEF Next
<1>4. ASSUME NEW c \in Clients, NEW n \in Names, closeFile(c, n) \/ removeFile(c, n) \/ fileRequest(c, n)
      PROVE  [Next]_vars
  <2>1. ClientCall(c, n) \/ UNCHANGED vars
      BY <1>4 DEF closeFile, removeFile, fileRequest, ClientCall
  <2> QED
      BY <2>1 DEF Next
<1>5. CASE Cleaning \/ LockThread
    BY <1>5 DEF Cleaning, LockThread, Next
<1>6. CASE UNCHANGED allVars
    BY <1>6 DEF allVars
<1> QED
    BY <1>1, <1>2, <1>3, <1>4, <1>5, <1>6 DEF ServerNext

-----------------------------------------------------------------------------
(* The requests. *)

\* What a caller knows of itself.
LEMMA ReadyKnows ==
    ASSUME SrvInv, NEW c \in Clients, Ready(c)
    PROVE  /\ handling[c] = Nothing /\ ~Blocked(c) /\ c \notin abandoned
           /\ \A k \in Keys : ~Awaits(c, k) /\ (Holds(c, k) => Known(c, k))
<1>1. handling[c] = Nothing /\ ~Blocked(c) /\ c \notin abandoned
    BY DEF Ready, Blocked
<1>2. \A k \in Keys : ~AboutToList(c, k)
    BY <1>1 DEF AboutToList, Nothing
<1> QED
    BY <1>1, <1>2, BlockedIs DEF SrvInv, ClientOK, Awaits

\* A step between two requests, or the first or second of a request, of
\* client c: the others keep what they have.
LEMMA OneClientMoves ==
    ASSUME SrvInv, NEW c \in Clients, NEW H, NEW W, OnlyGains(H, W),
           H \subseteq {<<c, k>> : k \in Keys}, W \subseteq {<<c, k>> : k \in Keys},
           NEW s \in Session, NEW h \in Step,
           sessions' = [sessions EXCEPT ![c] = s], handling' = [handling EXCEPT ![c] = h],
           Len(s.files) <= MaxOpened,
           abandoned' \subseteq Losable, abandoned' \subseteq abandoned \cup {c},
           unrecorded' \subseteq Clients \X Keys,
           \A d \in Clients \ {c} : \A k \in Keys : <<d, k>> \in unrecorded => <<d, k>> \in unrecorded',
           \A d \in Clients \ {c} : \A k \in Keys : BeingCleaned(d, k) => BeingCleaned(d, k)',
           ClientOK(c)', [Next]_vars
    PROVE  SrvInv'
<1>1. /\ sessions'[c] = s /\ handling'[c] = h
      /\ \A d \in Clients \ {c} : sessions'[d] = sessions[d] /\ handling'[d] = handling[d]
    BY DEF SrvInv, SessionsOK
<1>2. SessionsOK'
    BY <1>1 DEF SrvInv, SessionsOK
<1>3. ASSUME NEW d \in Clients \ {c} PROVE ClientOK(d)'
  <2>1. \A k : <<d, k>> \notin H /\ <<d, k>> \notin W
      OBVIOUS
  <2>2. d \in abandoned' => d \in abandoned
      OBVIOUS
  <2> QED
      BY <1>1, <2>1, <2>2, OthersKeep DEF SrvInv
<1>4. IInv'
    BY NextIInv DEF SrvInv
<1> QED
    BY <1>2, <1>3, <1>4 DEF SrvInv

LEMMA SameRecord ==
    ASSUME SessionsOK, NEW c \in Clients
    PROVE  /\ sessions[c] \in Session /\ Len(sessions[c].files) <= MaxOpened
           /\ handling[c] \in Step
           /\ sessions = [sessions EXCEPT ![c] = sessions[c]]
           /\ handling = [handling EXCEPT ![c] = handling[c]]
BY DEF SessionsOK

LEMMA NothingGained ==
    ASSUME SrvInv, UNCHANGED vars
    PROVE  /\ OnlyGains({}, {})
           /\ \A d, k : (Holds(d, k)' <=> Holds(d, k)) /\ (Awaits(d, k)' <=> Awaits(d, k))
           /\ \A d : Blocked(d)' <=> Blocked(d)
           /\ \A d, k : BeingCleaned(d, k)' <=> BeingCleaned(d, k)
<1>1. UNCHANGED Seen /\ Locks' = Locks
    BY DEF vars, Seen, LockTable!vars, Locks
<1>2. OnlyGains({}, {})
    BY <1>1, UnseenGains DEF SrvInv
<1>3. \A d : Blocked(d)' <=> Blocked(d)
    BY DEF vars, Blocked, Waits, Notified
<1> QED
    BY <1>1, <1>2, <1>3 DEF Holds, Awaits, BeingCleaned, vars

LEMMA OpenSessionStep ==
    ASSUME SrvInv, NEW c \in Clients, openSession(c)
    PROVE  SrvInv'
<1> DEFINE s == [isValid |-> TRUE, files |-> << >>]
<1>1. /\ sessions' = [sessions EXCEPT ![c] = s] /\ s \in Session /\ Len(s.files) <= MaxOpened
      /\ UNCHANGED <<vars, handling, abandoned, unrecorded>>
    BY ConstantsAssumption DEF openSession, Session
<1>2. sessions'[c].isValid /\ sessions[c].files = << >> /\ sessions'[c].files = << >>
    BY <1>1 DEF SrvInv, SessionsOK, ClientOK, openSession
<1>3. ClientOK(c)'
  <2>1. \A k : Known(c, k)' <=> Known(c, k)
      BY <1>1, <1>2 DEF Known, Listed
  <2>2. /\ \A k : Holds(c, k)' <=> Holds(c, k)
        /\ \A k : Awaits(c, k)' <=> Awaits(c, k)
        /\ Blocked(c)' <=> Blocked(c)
      BY <1>1, NothingGained
  <2> QED
      BY <1>1, <1>2, <2>1, <2>2, ReadyKnows DEF openSession, ClientOK, Nothing
<1>4. handling' = [handling EXCEPT ![c] = handling[c]] /\ handling[c] \in Step
    BY <1>1, SameRecord DEF SrvInv
<1>5. \A d, k : BeingCleaned(d, k)' <=> BeingCleaned(d, k)
    BY <1>1, NothingGained
<1>6. abandoned' \subseteq Losable /\ unrecorded' \subseteq Clients \X Keys
    BY <1>1 DEF SrvInv, SessionsOK
<1> HIDE DEF s
<1> QED
    BY <1>1, <1>3, <1>4, <1>5, <1>6, NothingGained, OneClientMoves

LEMMA LocksSame ==
    ASSUME IInv, UNCHANGED <<table, lockQueue>>
    PROVE  /\ OnlyGains({}, {})
           /\ \A d, k : (Holds(d, k)' <=> Holds(d, k)) /\ (Awaits(d, k)' <=> Awaits(d, k))
           /\ \A d : Blocked(d)' <=> Blocked(d)
<1>1. UNCHANGED Seen /\ Locks' = Locks
    BY DEF Seen, LockTable!vars, Locks
<1>2. \A d : Blocked(d)' <=> Blocked(d)
    BY DEF Blocked, Waits, Notified
<1> QED
    BY <1>1, <1>2, UnseenGains DEF Holds, Awaits

\* The locks of c are in its session, and all that is in it is to be unlocked.
LEMMA EndSessionStep ==
    ASSUME SrvInv, NEW c \in Clients, fs_clean(c, FilesToClean(c)),
           handling[c] = Nothing, sessions[c].isValid,
           handling' = [handling EXCEPT ![c] = [todo |-> "destroySession"]],
           abandoned' \subseteq abandoned, c \notin abandoned',
           UNCHANGED <<sessions, unrecorded>>
    PROVE  SrvInv'
<1> DEFINE h == [todo |-> "destroySession"]
<1>1. /\ h \in Step /\ h # Nothing
      /\ handling' = [handling EXCEPT ![c] = h] /\ handling'[c] = h
      /\ sessions' = [sessions EXCEPT ![c] = sessions[c]] /\ sessions'[c] = sessions[c]
      /\ sessions[c] \in Session /\ Len(sessions[c].files) <= MaxOpened
    BY SameRecord DEF SrvInv, SessionsOK, Step, Nothing
<1>2. UNCHANGED <<table, lockQueue>> /\ toClean = << >> /\ ~Blocked(c)
    BY CallerFree DEF fs_clean, CanCall, MutexFree
<1>3. /\ OnlyGains({}, {})
      /\ \A d, k : (Holds(d, k)' <=> Holds(d, k)) /\ (Awaits(d, k)' <=> Awaits(d, k))
      /\ \A d : Blocked(d)' <=> Blocked(d)
    BY <1>2, LocksSame DEF SrvInv
<1>4. \A d, k : ~BeingCleaned(d, k)
    BY <1>2 DEF BeingCleaned
<1>5. ASSUME NEW k \in Keys, Holds(c, k) PROVE Known(c, k)
  <2>1. Known(c, k) \/ AboutToList(c, k)
      BY <1>5 DEF SrvInv, ClientOK
  <2> QED
      BY <2>1 DEF AboutToList, Nothing
<1>6. ASSUME NEW k \in Keys, Listed(c, k) PROVE BeingCleaned(c, k)'
  <2>1. PICK i \in DOMAIN sessions[c].files : KeyOf[sessions[c].files[i].name] = k
      BY <1>6 DEF Listed
  <2>2. i \in DOMAIN toClean' /\ toClean'[i] = [client |-> c, key |-> k]
      BY <2>1 DEF fs_clean, FilesToClean
  <2> QED
      BY <2>2 DEF BeingCleaned
<1>7. \A k : Known(c, k)' <=> Known(c, k)
    BY DEF Known, Listed
<1> HIDE DEF h
<1>8. ClientOK(c)'
  <2>1. \A k \in Keys : Holds(c, k)' => <<c, k>> \in unrecorded' \/ BeingCleaned(c, k)'
      BY <1>3, <1>5, <1>6 DEF Known
  <2>2. \A k \in Keys : ~Awaits(c, k)'
      BY <1>2, <1>3, BlockedIs DEF Awaits
  <2>3. ~Blocked(c)' /\ c \notin abandoned' /\ sessions'[c].isValid
      BY <1>1, <1>2, <1>3
  <2>4. handling'[c].todo # "remFileOpened"
      BY <1>1 DEF h
  <2> QED
      BY <1>3, <1>5, <1>7, <2>1, <2>2, <2>3, <2>4 DEF ClientOK
<1>9. [Next]_vars
    BY CleanIsCall DEF SrvInv
<1>10. abandoned' \subseteq Losable /\ unrecorded' \subseteq Clients \X Keys
    BY DEF SrvInv, SessionsOK
<1> QED
    BY <1>1, <1>3, <1>4, <1>8, <1>9, <1>10, OneClientMoves

LEMMA CloseSessionStep ==
    ASSUME SrvInv, NEW c \in Clients, closeSession(c)
    PROVE  SrvInv'
BY EndSessionStep DEF closeSession, InSession, Ready, Then

LEMMA ReuseStep ==
    ASSUME SrvInv, NEW c \in Clients, reuse(c)
    PROVE  SrvInv'
<1>1. handling[c] = Nothing /\ sessions[c].isValid
    BY DEF reuse, SrvInv, ClientOK
<1> QED
    BY <1>1, EndSessionStep DEF reuse

LEMMA DestroySessionStep ==
    ASSUME SrvInv, NEW c \in Clients, destroySession(c)
    PROVE  SrvInv'
<1>1. /\ sessions' = [sessions EXCEPT ![c] = NoSession] /\ sessions'[c] = NoSession
      /\ handling' = [handling EXCEPT ![c] = Nothing] /\ handling'[c] = Nothing
      /\ NoSession \in Session /\ Len(NoSession.files) <= MaxOpened /\ Nothing \in Step
      /\ UNCHANGED <<vars, abandoned, unrecorded>>
    BY ConstantsAssumption DEF destroySession, SrvInv, SessionsOK, NoSession, Session, Step
<1>2. handling[c] # Nothing /\ handling[c].todo = "destroySession"
    BY DEF destroySession, Nothing
<1>3. ~Blocked(c) /\ c \notin abandoned
    BY <1>2 DEF SrvInv, ClientOK
<1>4. \A k : ~BeingCleaned(c, k)
    BY DEF destroySession, BeingCleaned
<1>5. \A k \in Keys : Holds(c, k) => <<c, k>> \in unrecorded
    BY <1>2, <1>4 DEF SrvInv, ClientOK
<1>6. /\ OnlyGains({}, {})
      /\ \A d, k : (Holds(d, k)' <=> Holds(d, k)) /\ (Awaits(d, k)' <=> Awaits(d, k))
      /\ \A d : Blocked(d)' <=> Blocked(d)
      /\ \A d, k : BeingCleaned(d, k)' <=> BeingCleaned(d, k)
    BY <1>1, NothingGained
<1>7. ClientOK(c)'
  <2>1. \A k \in Keys : ~Awaits(c, k)'
      BY <1>3, <1>6, BlockedIs DEF Awaits
  <2>2. \A k \in Keys : Holds(c, k)' => Known(c, k)'
      BY <1>1, <1>5, <1>6 DEF Known
  <2>3. ~sessions'[c].isValid /\ sessions'[c].files = << >>
      BY <1>1 DEF NoSession
  <2>4. handling'[c].todo # "remFileOpened" /\ handling'[c].todo # "destroySession"
      BY <1>1 DEF Nothing
  <2>5. ~Blocked(c)' /\ c \notin abandoned'
      BY <1>1, <1>3, <1>6
  <2> QED
      BY <1>1, <2>1, <2>2, <2>3, <2>4, <2>5 DEF ClientOK
<1>8. [Next]_vars
    BY <1>1 DEF vars
<1>9. abandoned' \subseteq Losable /\ unrecorded' \subseteq Clients \X Keys
    BY <1>1 DEF SrvInv, SessionsOK
<1> QED
    BY <1>1, <1>6, <1>7, <1>8, <1>9, OneClientMoves

LEMMA ReadFailsStep ==
    ASSUME SrvInv, NEW c \in Clients, readFails(c)
    PROVE  SrvInv'
<1>1. /\ abandoned' = abandoned \cup {c} /\ c \in Losable
      /\ UNCHANGED <<vars, sessions, handling, unrecorded>>
      /\ Ready(c) /\ sessions[c].isValid
    BY DEF readFails, InSession
<1>2. /\ sessions[c] \in Session /\ Len(sessions[c].files) <= MaxOpened /\ handling[c] \in Step
      /\ sessions' = [sessions EXCEPT ![c] = sessions[c]]
      /\ handling' = [handling EXCEPT ![c] = handling[c]]
    BY <1>1, SameRecord DEF SrvInv
<1>3. /\ OnlyGains({}, {})
      /\ \A d, k : (Holds(d, k)' <=> Holds(d, k)) /\ (Awaits(d, k)' <=> Awaits(d, k))
      /\ \A d : Blocked(d)' <=> Blocked(d)
      /\ \A d, k : BeingCleaned(d, k)' <=> BeingCleaned(d, k)
    BY <1>1, NothingGained
<1>4. \A k : Known(c, k)' <=> Known(c, k)
    BY <1>1 DEF Known, Listed
<1>5. ClientOK(c)'
  <2>1. handling'[c] = Nothing /\ handling[c] = Nothing
      BY <1>1, ReadyKnows
  <2>2. handling'[c].todo # "remFileOpened" /\ handling'[c].todo # "destroySession"
      BY <2>1 DEF Nothing
  <2>3. \A k \in Keys : ~Awaits(c, k) /\ (Holds(c, k) => Known(c, k))
      BY <1>1, ReadyKnows
  <2> QED
      BY <1>1, <1>3, <1>4, <2>1, <2>2, <2>3 DEF ClientOK
<1>6. [Next]_vars
    BY <1>1 DEF vars
<1>7. abandoned' \subseteq Losable /\ unrecorded' \subseteq Clients \X Keys
    BY <1>1 DEF SrvInv, SessionsOK
<1> QED
    BY <1>1, <1>2, <1>3, <1>5, <1>6, <1>7, OneClientMoves

\* What c is given (H) or begins to wait for (W) in a step is on record.
OnRecord(c, H, W) ==
    /\ \A k \in Keys : <<c, k>> \in H => Known(c, k) \/ AboutToList(c, k)'
    /\ \A k \in Keys : <<c, k>> \in W => Known(c, k)'

\* A request of c makes its call of the file system, and leaves h to be done.
LEMMA RequestStep ==
    ASSUME SrvInv, NEW c \in Clients, InSession(c), NEW H, NEW W, OnlyGains(H, W),
           H \subseteq {<<c, k>> : k \in Keys}, W \subseteq {<<c, k>> : k \in Keys},
           NEW h \in Step, handling' = [handling EXCEPT ![c] = h],
           UNCHANGED <<sessions, abandoned, toClean>>,
           unrecorded \subseteq unrecorded', unrecorded' \subseteq Clients \X Keys,
           OnRecord(c, H, W), W # {} => h = Nothing,
           \/ h = Nothing \/ h.todo = "addFileOpened"
           \/ h.todo = "remFileOpened" /\ ~Holds(c, KeyOf[h.name])',
           [Next]_vars
    PROVE  SrvInv'
<1>1. /\ handling'[c] = h
      /\ sessions' = [sessions EXCEPT ![c] = sessions[c]] /\ sessions'[c] = sessions[c]
      /\ sessions[c] \in Session /\ Len(sessions[c].files) <= MaxOpened
      /\ Ready(c) /\ sessions[c].isValid
    BY SameRecord DEF SrvInv, SessionsOK, InSession
<1>2. /\ handling[c] = Nothing /\ ~Blocked(c) /\ c \notin abandoned
      /\ \A k \in Keys : ~Awaits(c, k) /\ (Holds(c, k) => Known(c, k))
    BY <1>1, ReadyKnows
<1>3. \A k : Known(c, k) => Known(c, k)'
    BY DEF Known, Listed
<1>4. \A d, k : BeingCleaned(d, k)' <=> BeingCleaned(d, k)
    BY DEF BeingCleaned
<1>5. ClientOK(c)'
  <2>1. \A k \in Keys : Awaits(c, k)' => Known(c, k)'
      BY <1>2 DEF OnlyGains, OnRecord
  <2>2. \A k \in Keys : Holds(c, k)' => Known(c, k)' \/ AboutToList(c, k)'
      BY <1>2, <1>3 DEF OnlyGains, OnRecord
  <2>3. Blocked(c)' => handling'[c] = Nothing
      BY <1>1, <1>2 DEF OnlyGains
  <2>4. handling'[c].todo # "destroySession"
      BY <1>1 DEF Nothing
  <2>5. (handling[c].todo = "remFileOpened" => ~Holds(c, KeyOf[handling[c].name]))'
      BY <1>1 DEF Nothing
  <2> QED
      BY <1>1, <1>2, <2>1, <2>2, <2>3, <2>4, <2>5 DEF ClientOK
<1>6. abandoned' \subseteq Losable
    BY DEF SrvInv, SessionsOK
<1> QED
    BY <1>1, <1>4, <1>5, <1>6, OneClientMoves

LEMMA Calls ==
    ASSUME SrvInv, NEW c \in Clients, NEW n \in Names,
           \/ closeFile(c, n) \/ removeFile(c, n) \/ fileRequest(c, n)
           \/ \E flags \in SUBSET {CREATE, LOCK} : openFile(c, n, flags)
    PROVE  [Next]_vars
<1>1. ServerNext
    BY DEF ServerNext
<1> QED
    BY <1>1, CallsOnly DEF SrvInv

LEMMA OpenFileStep ==
    ASSUME SrvInv, NEW c \in Clients, NEW n \in Names, NEW flags \in SUBSET {CREATE, LOCK},
           openFile(c, n, flags)
    PROVE  SrvInv'
<1> DEFINE k == KeyOf[n]
           h == [todo |-> "addFileOpened", file |-> [name |-> n, flags |-> flags]]
<1>1. k \in Keys /\ InSession(c) /\ [Next]_vars /\ CREATE # LOCK
    BY KeyOfType, Calls DEF openFile, CREATE, LOCK
<1>2. h \in Step /\ Nothing \in Step /\ unrecorded \subseteq Clients \X Keys
    BY DEF Step, Opened, SrvInv, SessionsOK
<1>3. UNCHANGED toClean
    BY DEF openFile, fs_insert, fs_trylock, fs_obtain
<1>4. ASSUME MustWait(c, n, flags) PROVE SrvInv'
  <2>1. fs_trylock(c, n) /\ TryLockResult(c, n) = WAITING_ON_LOCK
      BY <1>1, <1>4 DEF openFile, MustWait
  <2>2. OnlyGains({}, {<<c, k>>})
      BY <2>1, TryLockGains DEF SrvInv
  <2>3. /\ unrecorded' = unrecorded \cup {<<c, k>>}
        /\ UNCHANGED <<sessions, handling, abandoned>>
      BY <1>4 DEF openFile
  <2>4. handling[c] = Nothing /\ handling' = [handling EXCEPT ![c] = Nothing]
      BY <1>1, <2>3 DEF InSession, Ready, SrvInv, SessionsOK
  <2>5. OnRecord(c, {}, {<<c, k>>})
      BY <2>3 DEF OnRecord, Known
  <2>6. unrecorded \subseteq unrecorded' /\ unrecorded' \subseteq Clients \X Keys
      BY <1>1, <1>2, <2>3
  <2> DEFINE own == {<<c, k>>}
  <2>7. own \subseteq {<<c, x>> : x \in Keys}
      BY <1>1
  <2> HIDE DEF own, k
  <2>8. OnlyGains({}, own) /\ OnRecord(c, {}, own)
      BY <2>2, <2>5 DEF own
  <2>9. UNCHANGED <<sessions, abandoned, toClean>>
      BY <1>3, <2>3
  <2> QED
      BY <1>1, <1>2, <2>4, <2>6, <2>7, <2>8, <2>9, RequestStep
<1>5. ASSUME ~MustWait(c, n, flags) PROVE SrvInv'
  <2>1. /\ handling' = [handling EXCEPT ![c] = h]
        /\ UNCHANGED <<sessions, abandoned, unrecorded>>
      BY <1>5 DEF openFile, Then
  <2>2. OnlyGains(IF LOCK \in flags THEN {<<c, k>>} ELSE {}, {})
    <3>1. CASE CREATE \in flags /\ fs_insert(c, n, LOCK \in flags)
      <4>1. CASE LOCK \in flags
        <5>1. fs_insert(c, n, TRUE)
            BY <3>1, <4>1 DEF fs_insert
        <5> QED
            BY <4>1, <5>1, InsertGains DEF SrvInv
      <4>2. CASE LOCK \notin flags
        <5>1. fs_insert(c, n, FALSE)
            BY <3>1, <4>2 DEF fs_insert
        <5> QED
            BY <4>2, <5>1, InsertGains DEF SrvInv
      <4> QED
          BY <4>1, <4>2
    <3>2. CASE CREATE \notin flags /\ LOCK \in flags /\ fs_trylock(c, n)
      <4>1. flags = {LOCK}
          BY <3>2
      <4> QED
          BY <1>5, <3>2, <4>1, TryLockGains DEF SrvInv, MustWait
    <3>3. CASE flags = {} /\ fs_obtain(c, n)
        BY <3>3, ObtainGains DEF SrvInv
    <3> QED
        BY <3>1, <3>2, <3>3 DEF openFile
  <2>3. LOCK \in flags => AboutToList(c, k)'
    <3>1. handling'[c] = h
        BY <2>1 DEF SrvInv, SessionsOK
    <3> QED
        BY <3>1 DEF AboutToList
  <2>4. h.todo = "addFileOpened"
      OBVIOUS
  <2> HIDE DEF k, h
  <2> DEFINE H == IF LOCK \in flags THEN {<<c, k>>} ELSE {}
  <2>5. H \subseteq {<<c, x>> : x \in Keys} /\ \A x \in Keys : <<c, x>> \in H => LOCK \in flags /\ x = k
      BY <1>1
  <2> HIDE DEF H
  <2>6. OnlyGains(H, {}) /\ OnRecord(c, H, {})
      BY <2>2, <2>3 DEF H, OnRecord
  <2> QED
      BY <1>1, <1>2, <1>3, <2>1, <2>4, <2>5, <2>6, RequestStep
<1> QED
    BY <1>4, <1>5

\* The two requests that go on to take the file from the session.
LEMMA CloseOrRemoveStep ==
    ASSUME SrvInv, NEW c \in Clients, NEW n \in Names, closeFile(c, n) \/ removeFile(c, n)
    PROVE  SrvInv'
<1> DEFINE h == [todo |-> "remFileOpened", name |-> n]
<1>1. /\ InSession(c) /\ [Next]_vars /\ KeyOf[n] \in Keys
      /\ handling' = [handling EXCEPT ![c] = h]
      /\ UNCHANGED <<sessions, abandoned, unrecorded, toClean>>
    BY KeyOfType, Calls DEF closeFile, removeFile, Then, fs_unlock, fs_remove, vars
<1>2. h \in Step /\ h.todo = "remFileOpened" /\ h.name = n /\ unrecorded' \subseteq Clients \X Keys
    BY <1>1 DEF Step, SrvInv, SessionsOK
<1>3. OnlyGains({}, {}) /\ ~Holds(c, KeyOf[n])'
  <2>1. CASE fs_unlock(c, n)
      BY <2>1, UnlockGains DEF SrvInv
  <2>2. CASE fs_remove(c, n)
      BY <2>2, RemoveGains DEF SrvInv
  <2>3. CASE (UnlockResult(c, KeyOf[n]) # OK \/ RemoveResult(c, n) # OK) /\ UNCHANGED vars
    <3>1. ~Holds(c, KeyOf[n])
        BY <2>3, LocksOf DEF UnlockResult, RemoveResult, Stored, File, Holds, OK, NOT_EXISTS, NOT_ALLOWED
    <3> QED
        BY <2>3, <3>1, NothingGained
  <2> QED
      BY <2>1, <2>2, <2>3 DEF closeFile, removeFile
<1>4. OnRecord(c, {}, {})
    BY DEF OnRecord
<1> HIDE DEF h
<1> QED
    BY <1>1, <1>2, <1>3, <1>4, RequestStep

LEMMA FileRequestStep ==
    ASSUME SrvInv, NEW c \in Clients, NEW n \in Names, fileRequest(c, n)
    PROVE  SrvInv'
<1> DEFINE k == KeyOf[n]
           own == {<<c, k>>}
<1>1. /\ InSession(c) /\ [Next]_vars /\ k \in Keys
      /\ UNCHANGED <<sessions, handling, abandoned, unrecorded>>
    BY KeyOfType, Calls DEF fileRequest, serverVars
<1>2. UNCHANGED toClean
    BY DEF fileRequest, fs_modify, fs_append, fs_obtain, fs_trylock, fs_unlock
<1>3. handling[c] = Nothing /\ handling' = [handling EXCEPT ![c] = Nothing] /\ Nothing \in Step
    BY <1>1 DEF InSession, Ready, SrvInv, SessionsOK, Step
<1>4. \/ OnlyGains({}, {})
      \/ Listed(c, k) /\ (OnlyGains({}, own) \/ OnlyGains(own, {}))
  <2>1. CASE \/ \E len \in WriteLens : fs_modify(c, n, len)
             \/ \E len \in AppendLens : fs_append(c, n, len)
      BY <2>1, WriteGains DEF SrvInv
  <2>2. CASE fs_obtain(c, n)
      BY <2>2, ObtainGains DEF SrvInv
  <2>3. CASE HasOpened(c, n) /\ fs_trylock(c, n)
    <3>1. Listed(c, k)
        BY <2>3 DEF HasOpened, Listed
    <3> QED
        BY <2>3, <3>1, TryLockGains DEF SrvInv
  <2>4. CASE fs_unlock(c, n)
      BY <2>4, UnlockGains DEF SrvInv
  <2> QED
      BY <2>1, <2>2, <2>3, <2>4 DEF fileRequest
<1>5. OnRecord(c, {}, {}) /\ (Listed(c, k) => OnRecord(c, own, {}) /\ OnRecord(c, {}, own))
    BY <1>1 DEF OnRecord, Known, Listed
<1>6. unrecorded' \subseteq Clients \X Keys
    BY <1>1 DEF SrvInv, SessionsOK
<1>7. own \subseteq {<<c, x>> : x \in Keys}
    BY <1>1
<1> HIDE DEF k, own
<1>8. CASE OnlyGains({}, {})
    BY <1>1, <1>2, <1>3, <1>5, <1>6, <1>8, RequestStep
<1>9. CASE Listed(c, k) /\ OnlyGains({}, own)
    BY <1>1, <1>2, <1>3, <1>5, <1>6, <1>7, <1>9, RequestStep
<1>10. CASE Listed(c, k) /\ OnlyGains(own, {})
    BY <1>1, <1>2, <1>3, <1>5, <1>6, <1>7, <1>10, RequestStep
<1> QED
    BY <1>4, <1>8, <1>9, <1>10

\* A worker goes on with a request of c: only the session of c changes.
LEMMA ContinueStep ==
    ASSUME SrvInv, NEW c \in Clients, handling[c].todo \in {"addFileOpened", "remFileOpened"},
           NEW files \in Seq(Opened), Len(files) <= MaxOpened,
           sessions' = [sessions EXCEPT ![c] = [isValid |-> TRUE, files |-> files]],
           handling' = [handling EXCEPT ![c] = Nothing],
           UNCHANGED <<vars, abandoned>>, unrecorded' \subseteq Clients \X Keys,
           \A d \in Clients \ {c} : \A k \in Keys : <<d, k>> \in unrecorded => <<d, k>> \in unrecorded',
           \A k \in Keys : Holds(c, k) => Known(c, k)'
    PROVE  SrvInv'
<1> DEFINE s == [isValid |-> TRUE, files |-> files]
<1>1. s \in Session /\ Len(s.files) <= MaxOpened /\ Nothing \in Step
    BY DEF Session, Step
<1>2. /\ sessions' = [sessions EXCEPT ![c] = s]
      /\ sessions'[c].isValid /\ handling'[c] = Nothing
    BY DEF SrvInv, SessionsOK
<1>3. ~Blocked(c) /\ c \notin abandoned
  <2>1. handling[c] # Nothing
      BY DEF Nothing
  <2> QED
      BY <2>1 DEF SrvInv, ClientOK
<1>4. /\ OnlyGains({}, {})
      /\ \A d, k : (Holds(d, k)' <=> Holds(d, k)) /\ (Awaits(d, k)' <=> Awaits(d, k))
      /\ \A d : Blocked(d)' <=> Blocked(d)
      /\ \A d, k : BeingCleaned(d, k)' <=> BeingCleaned(d, k)
    BY NothingGained
<1>5. ClientOK(c)'
  <2>1. \A k \in Keys : ~Awaits(c, k)'
      BY <1>3, <1>4, BlockedIs DEF Awaits
  <2>2. handling'[c].todo # "remFileOpened" /\ handling'[c].todo # "destroySession"
      BY <1>2 DEF Nothing
  <2> QED
      BY <1>2, <1>4, <2>1, <2>2 DEF ClientOK
<1>6. [Next]_vars
    BY DEF vars
<1>7. abandoned' \subseteq Losable
    BY DEF SrvInv, SessionsOK
<1> HIDE DEF s
<1> QED
    BY <1>1, <1>2, <1>4, <1>5, <1>6, <1>7, OneClientMoves

\* The session of a client whose request goes on.
LEMMA SessionOf ==
    ASSUME SrvInv, NEW c \in Clients, handling[c] # Nothing
    PROVE  /\ sessions[c] = [isValid |-> TRUE, files |-> sessions[c].files]
           /\ sessions[c].files \in Seq(Opened) /\ Len(sessions[c].files) <= MaxOpened
<1>1. sessions[c] \in Session /\ sessions[c].isValid
    BY DEF SrvInv, SessionsOK, ClientOK
<1>2. sessions[c].isValid = TRUE
    BY <1>1 DEF Session
<1> QED
    BY <1>1, <1>2 DEF Session, SrvInv, SessionsOK

LEMMA SessionExcept ==
    ASSUME NEW valid, NEW files, NEW others
    PROVE  [[isValid |-> valid, files |-> files] EXCEPT !.files = others]
             = [isValid |-> valid, files |-> others]
OBVIOUS

LEMMA AddFileOpenedStep ==
    ASSUME SrvInv, NEW c \in Clients, addFileOpened(c)
    PROVE  SrvInv'
<1> DEFINE files == sessions[c].files
<1>0. PICK file, k : file = handling[c].file /\ k = KeyOf[file.name]
    OBVIOUS
<1>1. /\ handling[c].todo = "addFileOpened" /\ handling[c] # Nothing
      /\ file \in Opened /\ k \in Keys
  <2>1. handling[c].todo = "addFileOpened" /\ handling[c] \in Step
      BY DEF addFileOpened, SrvInv, SessionsOK
  <2>2. handling[c] # Nothing
      BY <2>1 DEF Nothing
  <2>3. file \in Opened
      BY <1>0, <2>1 DEF Step, Nothing
  <2>4. file.name \in Names
      BY <2>3 DEF Opened
  <2> QED
      BY <1>0, <2>1, <2>2, <2>3, <2>4, KeyOfType
<1>2. /\ sessions[c] = [isValid |-> TRUE, files |-> files]
      /\ files \in Seq(Opened) /\ Len(files) <= MaxOpened
    BY <1>1, SessionOf
<1>3. handling' = [handling EXCEPT ![c] = Nothing] /\ UNCHANGED <<vars, abandoned>>
    BY DEF addFileOpened
<1>4. \A x \in Keys : Holds(c, x) => \/ Listed(c, x)
                                     \/ <<c, x>> \in unrecorded
                                     \/ x = k /\ LOCK \in file.flags
  <2>1. \A x \in Keys : Holds(c, x) => Known(c, x) \/ AboutToList(c, x)
      BY DEF SrvInv, ClientOK
  <2> QED
      BY <1>0, <2>1 DEF Known, AboutToList
<1>5. unrecorded \subseteq Clients \X Keys
    BY DEF SrvInv, SessionsOK
<1>6. CASE SessionFull(c)
  <2>1. /\ unrecorded' = IF LOCK \in file.flags THEN unrecorded \cup {<<c, k>>} ELSE unrecorded
        /\ sessions' = sessions
      BY <1>0, <1>6 DEF addFileOpened
  <2>2. sessions' = [sessions EXCEPT ![c] = [isValid |-> TRUE, files |-> files]]
      BY <1>2, <2>1 DEF SrvInv, SessionsOK
  <2>3. \A x \in Keys : Holds(c, x) => Known(c, x)'
      BY <1>4, <2>1 DEF Known, Listed
  <2>4. unrecorded' \subseteq Clients \X Keys /\ unrecorded \subseteq unrecorded'
      BY <1>1, <1>5, <2>1
  <2> HIDE DEF files
  <2> QED
      BY <1>1, <1>2, <1>3, <2>2, <2>3, <2>4, ContinueStep
<1>7. CASE ~SessionFull(c)
  <2>1. /\ sessions' = [sessions EXCEPT ![c].files = Append(@, file)]
        /\ unrecorded' = unrecorded \ {<<c, k>>}
      BY <1>0, <1>7 DEF addFileOpened
  <2>2. PICK longer : longer = Append(files, file)
      OBVIOUS
  <2>3. PICK n \in Nat : n = Len(files) /\ DOMAIN files = 1..n /\ n < MaxOpened
      BY <1>2, <1>7, ConstantsAssumption, SeqIsFunction DEF SessionFull
  <2>4. /\ longer \in Seq(Opened) /\ Len(longer) = n + 1 /\ DOMAIN longer = 1..(n + 1)
        /\ \A i \in 1..n : longer[i] = files[i]
        /\ longer[n + 1] = file
      BY <1>1, <1>2, <2>2, <2>3, AppendProperties, SeqIsFunction
  <2>5. Len(longer) <= MaxOpened
      BY <2>3, <2>4, ConstantsAssumption
  <2>6. sessions' = [sessions EXCEPT ![c] = [isValid |-> TRUE, files |-> longer]]
    <3>1. [sessions[c] EXCEPT !.files = longer] = [isValid |-> TRUE, files |-> longer]
      <4>1. PICK valid, old : sessions[c] = [isValid |-> valid, files |-> old] /\ valid = TRUE
          BY <1>2
      <4>2. sessions[c] = [isValid |-> valid, files |-> old]
          BY <4>1
      <4>3. [sessions[c] EXCEPT !.files = longer] = [isValid |-> valid, files |-> longer]
          BY <4>2, SessionExcept
      <4> QED
          BY <4>1, <4>3
    <3> QED
        BY <2>1, <2>2, <3>1
  <2>7. sessions'[c].files = longer
      BY <2>6 DEF SrvInv, SessionsOK
  <2>8. \A x : Listed(c, x) => Listed(c, x)'
    <3>1. \A i \in 1..n : i \in 1..(n + 1)
        OBVIOUS
    <3> QED
        BY <2>3, <2>4, <2>7, <3>1 DEF Listed
  <2>9. Listed(c, k)'
    <3>1. n + 1 \in DOMAIN longer
        BY <2>4
    <3> QED
        BY <1>0, <2>4, <2>7, <3>1 DEF Listed
  <2>10. \A x \in Keys : Holds(c, x) => Known(c, x)'
      BY <1>4, <2>1, <2>8, <2>9 DEF Known
  <2>11. /\ unrecorded' \subseteq Clients \X Keys
         /\ \A d \in Clients \ {c} : \A x \in Keys : <<d, x>> \in unrecorded => <<d, x>> \in unrecorded'
      BY <1>5, <2>1
  <2> HIDE DEF files
  <2> QED
      BY <1>1, <1>3, <2>4, <2>5, <2>6, <2>10, <2>11, ContinueStep
<1> QED
    BY <1>6, <1>7

\* The session keeps the files of the other names.
LEMMA WithoutFileKeeps ==
    ASSUME NEW files \in Seq(Opened), NEW n
    PROVE  /\ WithoutFile(files, n) \in Seq(Opened)
           /\ Len(WithoutFile(files, n)) <= Len(files)
           /\ \A p \in DOMAIN files : files[p].name # n =>
                 \E q \in DOMAIN WithoutFile(files, n) : WithoutFile(files, n)[q] = files[p]
<1> DEFINE Named == {i \in 1..Len(files) : files[i].name = n}
<1>1. Len(files) \in Nat /\ DOMAIN files = 1..Len(files)
    BY SeqIsFunction
<1>2. CASE Named = {}
  <2>1. WithoutFile(files, n) = files
      BY <1>2 DEF WithoutFile, RemoveFirstMatch
  <2> QED
      BY <1>1, <2>1
<1>3. CASE Named # {}
  <2>1. PICK i \in Named : i = Min(Named)
    <3>1. Named \in SUBSET Nat
        BY <1>1
    <3> HIDE DEF Named
    <3> QED
        BY <1>3, <3>1, MinOf
  <2>2. WithoutFile(files, n) = SubSeq(files, 1, i - 1) \o SubSeq(files, i + 1, Len(files))
      BY <2>1 DEF WithoutFile, RemoveFirstMatch, SelectInSeq, RemoveAt
  <2>3. PICK t : t = SubSeq(files, 1, i - 1) \o SubSeq(files, i + 1, Len(files))
      OBVIOUS
  <2>4. /\ t \in Seq(Opened) /\ Len(t) = Len(files) - 1
        /\ \A p \in DOMAIN files : p # i => \E q \in DOMAIN t : t[q] = files[p]
      BY <2>3, RemoveAtKeeps
  <2>5. \A p \in DOMAIN files : files[p].name # n => p # i
      OBVIOUS
  <2>6. WithoutFile(files, n) = t
      BY <2>2, <2>3
  <2> HIDE DEF Named
  <2>7. Len(t) <= Len(files)
      BY <1>1, <2>4
  <2> QED
      BY <2>4, <2>5, <2>6, <2>7
<1> QED
    BY <1>2, <1>3

LEMMA RemFileOpenedStep ==
    ASSUME SrvInv, NEW c \in Clients, remFileOpened(c)
    PROVE  SrvInv'
<1> DEFINE files == sessions[c].files
<1>0. PICK n : n = handling[c].name
    OBVIOUS
<1>1. handling[c].todo = "remFileOpened" /\ handling[c] # Nothing
    BY DEF remFileOpened, Nothing
<1>2. /\ sessions[c] = [isValid |-> TRUE, files |-> files]
      /\ files \in Seq(Opened) /\ Len(files) <= MaxOpened
    BY <1>1, SessionOf
<1>3. PICK left : left = WithoutFile(files, n)
    OBVIOUS
<1>4. /\ left \in Seq(Opened) /\ Len(left) <= Len(files)
      /\ \A p \in DOMAIN files : files[p].name # n => \E q \in DOMAIN left : left[q] = files[p]
    BY <1>2, <1>3, WithoutFileKeeps
<1>5. Len(left) <= MaxOpened
  <2>1. Len(left) \in Nat /\ Len(files) \in Nat /\ MaxOpened \in Nat
      BY <1>2, <1>4, SeqIsFunction, ConstantsAssumption
  <2> QED
      BY <1>2, <1>4, <2>1
<1>6. sessions' = [sessions EXCEPT ![c] = [isValid |-> TRUE, files |-> left]]
  <2>1. sessions' = [sessions EXCEPT ![c].files = WithoutFile(@, n)]
      BY <1>0 DEF remFileOpened
  <2>2. [sessions[c] EXCEPT !.files = left] = [isValid |-> TRUE, files |-> left]
    <3>1. PICK valid, old : sessions[c] = [isValid |-> valid, files |-> old] /\ valid = TRUE
        BY <1>2
    <3>2. sessions[c] = [isValid |-> valid, files |-> old]
        BY <3>1
    <3>3. [sessions[c] EXCEPT !.files = left] = [isValid |-> valid, files |-> left]
        BY <3>2, SessionExcept
    <3> QED
        BY <3>1, <3>3
  <2> QED
      BY <1>3, <2>1, <2>2
<1>7. sessions'[c].files = left
    BY <1>6 DEF SrvInv, SessionsOK
<1>8. /\ handling' = [handling EXCEPT ![c] = Nothing]
      /\ UNCHANGED <<vars, abandoned, unrecorded>>
    BY DEF remFileOpened
<1>9. ASSUME NEW k \in Keys, Holds(c, k) PROVE Known(c, k)'
  <2>1. k # KeyOf[n] /\ Known(c, k)
      BY <1>0, <1>1, <1>9 DEF SrvInv, ClientOK, AboutToList
  <2>2. ASSUME NEW p \in DOMAIN files, KeyOf[files[p].name] = k
        PROVE  \E q \in DOMAIN left : KeyOf[left[q].name] = k
    <3>1. files[p].name # n
        BY <2>1, <2>2
    <3> QED
        BY <1>4, <2>2, <3>1
  <2> QED
      BY <1>7, <1>8, <2>1, <2>2 DEF Known, Listed
<1>10. unrecorded' \subseteq Clients \X Keys
    BY <1>8 DEF SrvInv, SessionsOK
<1> HIDE DEF files
<1> QED
    BY <1>1, <1>4, <1>5, <1>6, <1>8, <1>9, <1>10, ContinueStep

\* The locks that a step leaves to their owner are still being cleaned.
CleaningGoesOn ==
    \A d \in Clients, k \in Keys : Holds(d, k)' /\ BeingCleaned(d, k) => BeingCleaned(d, k)'

\* A step of the file system that no request asked for.
LEMMA UnaskedStep ==
    ASSUME SrvInv, OnlyGains({}, {}), UNCHANGED serverVars, [Next]_vars, CleaningGoesOn
    PROVE  SrvInv'
<1>1. SessionsOK'
    BY DEF SrvInv, SessionsOK, serverVars
<1>2. ASSUME NEW d \in Clients PROVE ClientOK(d)'
  <2>1. \A k : <<d, k>> \notin {}
      OBVIOUS
  <2>2. /\ sessions'[d] = sessions[d] /\ handling'[d] = handling[d]
        /\ UNCHANGED <<abandoned, unrecorded>>
      BY DEF serverVars
  <2> QED
      BY <2>1, <2>2, OthersKeep DEF SrvInv, CleaningGoesOn
<1>3. IInv'
    BY NextIInv DEF SrvInv
<1> QED
    BY <1>1, <1>2, <1>3 DEF SrvInv

LEMMA CleaningStep ==
    ASSUME SrvInv, Cleaning
    PROVE  SrvInv'
<1>1. /\ toClean # << >> /\ toClean \in Seq([client : Clients, key : Keys])
      /\ inner_unlock(Head(toClean).client, Head(toClean).key)
      /\ toClean' = Tail(toClean) /\ UNCHANGED serverVars
    BY IInvParts DEF SrvInv, Parts, Cleaning, fs_clean_next
<1>2. PICK c \in Clients, k \in Keys : Head(toClean) = [client |-> c, key |-> k]
  <2>1. Head(toClean) \in [client : Clients, key : Keys]
      BY <1>1, HeadTail
  <2> QED
      BY <2>1
<1>3. OnlyGains({}, {}) /\ ~Holds(c, k)'
    BY <1>1, <1>2, InnerUnlockGains DEF SrvInv
<1>4. PICK m \in Nat : m = Len(toClean) /\ DOMAIN toClean = 1..m /\ m >= 1
    BY <1>1, SeqIsFunction
<1>5. /\ Head(toClean) = toClean[1] /\ DOMAIN toClean' = 1..(m - 1)
      /\ \A i \in 1..(m - 1) : toClean'[i] = toClean[i + 1]
    BY <1>1, <1>4, HeadTailProperties, SeqIsFunction
<1>6. ASSUME NEW d \in Clients, NEW x \in Keys, Holds(d, x)', BeingCleaned(d, x)
      PROVE  BeingCleaned(d, x)'
  <2>1. PICK i \in 1..m : toClean[i] = [client |-> d, key |-> x]
      BY <1>4, <1>6 DEF BeingCleaned
  <2>2. i # 1
    <3>1. ~(d = c /\ x = k)
        BY <1>3, <1>6
    <3> QED
        BY <1>2, <1>5, <2>1, <3>1
  <2>3. i - 1 \in 1..(m - 1) /\ (i - 1) + 1 = i
      BY <2>2
  <2>4. i - 1 \in DOMAIN toClean' /\ toClean'[i - 1] = [client |-> d, key |-> x]
      BY <1>5, <2>1, <2>3
  <2> QED
      BY <2>4 DEF BeingCleaned
<1>7. [Next]_vars
    BY DEF Cleaning, Next
<1>8. CleaningGoesOn
    BY <1>6 DEF CleaningGoesOn
<1> QED
    BY <1>1, <1>3, <1>7, <1>8, UnaskedStep

LEMMA LockThreadStep ==
    ASSUME SrvInv, LockThread
    PROVE  SrvInv'
<1>1. lockThreadTake /\ UNCHANGED serverVars /\ UNCHANGED toClean
    BY DEF LockThread, lockThreadTake
<1>2. OnlyGains({}, {})
    BY <1>1, LockThreadGains DEF SrvInv
<1>3. CleaningGoesOn
    BY <1>1 DEF CleaningGoesOn, BeingCleaned
<1>4. [Next]_vars
    BY <1>1 DEF Next
<1> QED
    BY <1>1, <1>2, <1>3, <1>4, UnaskedStep

-----------------------------------------------------------------------------
LEMMA ServerInitInv == ServerInit => SrvInv
<1> SUFFICES ASSUME ServerInit PROVE SrvInv
    OBVIOUS
<1>1. IInv /\ table = << >> /\ lockQueue = << >>
    BY InitIInv DEF ServerInit, Init
<1>2. /\ sessions = [c \in Clients |-> NoSession] /\ handling = [c \in Clients |-> Nothing]
      /\ abandoned = {} /\ unrecorded = {}
    BY DEF ServerInit
<1>3. SessionsOK
    BY <1>2, ConstantsAssumption DEF SessionsOK, Session, NoSession, Step
<1>4. DOMAIN Locks = {} /\ Range(lockQueue) = {}
    BY <1>1, LocksOf DEF Range
<1>5. ASSUME NEW c \in Clients PROVE ClientOK(c)
  <2>1. /\ \A k : ~Holds(c, k) /\ ~Awaits(c, k)
        /\ ~Blocked(c)
      BY <1>4, BlockedIs DEF Holds, Awaits, HasNews
  <2>2. handling[c].todo # "remFileOpened" /\ handling[c].todo # "destroySession"
      BY <1>2 DEF Nothing
  <2> QED
      BY <1>2, <2>1, <2>2 DEF ClientOK, NoSession
<1> QED
    BY <1>1, <1>3, <1>5 DEF SrvInv

LEMMA ServerNextInv == SrvInv /\ [ServerNext]_allVars => SrvInv'
<1> SUFFICES ASSUME SrvInv, [ServerNext]_allVars PROVE SrvInv'
    OBVIOUS
<1>1. ASSUME NEW c \in Clients,
             openSession(c) \/ closeSession(c) \/ readFails(c) \/ reuse(c) \/ Continue(c)
      PROVE  SrvInv'
    BY <1>1, OpenSessionStep, CloseSessionStep, ReadFailsStep, ReuseStep,
       DestroySessionStep, AddFileOpenedStep, RemFileOpenedStep DEF Continue
<1>2. ASSUME NEW c \in Clients, NEW n \in Names,
             \/ \E flags \in SUBSET {CREATE, LOCK} : openFile(c, n, flags)
             \/ closeFile(c, n) \/ removeFile(c, n) \/ fileRequest(c, n)
      PROVE  SrvInv'
    BY <1>2, OpenFileStep, CloseOrRemoveStep, FileRequestStep
<1>3. CASE Cleaning \/ LockThread
    BY <1>3, CleaningStep, LockThreadStep
<1>4. CASE UNCHANGED allVars
  <2>1. UNCHANGED vars /\ UNCHANGED serverVars
      BY <1>4 DEF allVars
  <2>2. OnlyGains({}, {}) /\ CleaningGoesOn
      BY <2>1, NothingGained DEF CleaningGoesOn
  <2>3. [Next]_vars
      BY <2>1
  <2> QED
      BY <2>1, <2>2, <2>3, UnaskedStep
<1> QED
    BY <1>1, <1>2, <1>3, <1>4 DEF ServerNext

(* The invariant holds in every state of the server.                       *)
THEOREM SrvInvHolds == ServerSpec => []SrvInv
<1> QED
    BY ServerInitInv, ServerNextInv, PTL DEF ServerSpec

(* The workers and the lock thread use the file system only by its calls,  *)
(* one at a time: what is proved of the file system for any callers holds  *)
(* of it in the server.  Every handler of handleWork makes at most one     *)
(* call that changes it before it returns or goes on with the session, and *)
(* fs_clean runs its loop under the mutex.                                 *)
THEOREM ServerUsesFileSystem == ServerSpec => Spec
<1>1. ServerInit => Init
    BY DEF ServerInit
<1>2. SrvInv /\ [ServerNext]_allVars => [Next]_vars
    BY CallsOnly DEF SrvInv
<1> QED
    BY <1>1, <1>2, SrvInvHolds, PTL DEF ServerSpec, Spec

(* Every variable of the server keeps its type.  In particular no session  *)
(* ever lists more files than its arrays have room for, whatever requests  *)
(* come and in whatever order the second steps of them are made.           *)
THEOREM ServerTypes == ServerSpec => []ServerTypeOK
<1>1. SrvInv => SessionsOK
    BY DEF SrvInv
<1>2. SessionsOK /\ TypeOK => ServerTypeOK
    BY SMTT(30) DEF SessionsOK, ServerTypeOK
<1> QED
    BY <1>1, <1>2, SrvInvHolds, ServerUsesFileSystem, TypeCorrect, PTL

(* Whoever owns the lock of a file has the file in its session, or a       *)
(* worker is about to enter it there, unless openFile left no record of    *)
(* the lock: the end of a session releases every other lock of the client. *)
THEOREM LocksAreRecorded == ServerSpec => []OwnerRecorded
<1>1. SrvInv => OwnerRecorded
  <2> SUFFICES ASSUME SrvInv, NEW k \in DOMAIN table, table[k].owner # EmptyOwner
               PROVE  Records(table[k].owner, k) \/ <<table[k].owner, k>> \in unrecorded
      BY DEF OwnerRecorded
  <2>1. k \in Keys /\ table[k].owner \in Clients
      BY IInvParts, TableEntry DEF SrvInv, Parts, TableOK, Entry
  <2>2. PICK c \in Clients : c = table[k].owner
      BY <2>1
  <2>3. Holds(c, k)
      BY <2>2, LocksOf DEF Holds
  <2>4. Known(c, k) \/ AboutToList(c, k)
      BY <2>1, <2>3 DEF SrvInv, ClientOK
  <2> QED
      BY <2>2, <2>4 DEF Known, Listed, AboutToList, Records
<1> QED
    BY <1>1, SrvInvHolds, PTL

(* No worker is in the middle of a request of a client that waits for a    *)
(* lock or is about to be told of one, and the session of such a client    *)
(* exists: the answer of the lock thread is the only one it gets.          *)
THEOREM WaitersServedOnce == ServerSpec => []WaiterServedOnce
<1>1. SrvInv => WaiterServedOnce
    BY DEF SrvInv, ClientOK, WaiterServedOnce, Blocked
<1> QED
    BY <1>1, SrvInvHolds, PTL

(* With all its workers the server still implements the lock service: the  *)
(* locks go to the clients in the order they came, and all who waited for  *)
(* a file that goes are told so.                                           *)
THEOREM ServerServesLocks == ServerSpec => ImplementsLockService
<1> QED
    BY ServerUsesFileSystem, LocksAreServed, PTL
=============================================================================
