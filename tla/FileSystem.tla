---------------------------- MODULE FileSystem ----------------------------
(***************************************************************************)
(* The in-memory "file system" of the server                               *)
(* (progetto-finale/server/src/file_system.c): a hash table of files, the  *)
(* LRU list over them, the byte and slot counters, the advisory lock of    *)
(* each file with its queue of waiting clients, and the queue of           *)
(* notifications read by the lock thread.                                  *)
(*                                                                         *)
(* Every fs_* function runs under gFSMutex, so each one is one atomic      *)
(* action here.  fs_clean is the exception: it is one step for each        *)
(* iteration of its loop, with the mutex held in between, because the lock *)
(* thread takes notifications without that mutex.                          *)
(*                                                                         *)
(* A file is its name and the length of its content: no property tells     *)
(* contents apart.  A connected client is the descriptor the server knows  *)
(* it by.                                                                  *)
(***************************************************************************)
EXTENDS Integers, Sequences, FiniteSets, Functions, SequencesExt, Sums

CONSTANTS
    Clients,      \* descriptors of the connected clients
    EmptyOwner,   \* EMPTY_OWNER: nobody holds the lock
    Names,        \* file names clients use
    KeyOf,        \* [Names -> keys], hash_string(name) % tableSize: may collide
    NameLen,      \* [Names -> Nat], the length of a name
    MaxSlots,     \* maxFileCapacitySlot
    MaxBytes,     \* maxFileCapacityMB, in the unit of the lengths
    MaxWaiting,   \* MAX_CLIENT_WAITING_ON_LOCK
    WriteLens,    \* lengths of the contents clients write
    AppendLens,   \* lengths of the contents clients append
    MaxAppends,   \* bound on the number of appends of a behaviour
    MaxOpened     \* bound on the files a session leaves open

Keys == Range(KeyOf)

ASSUME ConstantsAssumption ==
    /\ EmptyOwner \notin Clients
    /\ DOMAIN KeyOf = Names
    /\ NameLen \in [Names -> Nat]
    /\ MaxSlots \in Nat \ {0}
    /\ MaxBytes \in Nat /\ MaxWaiting \in Nat
    /\ WriteLens \subseteq Nat /\ AppendLens \subseteq Nat
    /\ MaxAppends \in Nat /\ MaxOpened \in Nat

VARIABLES
    table,      \* gHashmap: the stored files, by key
    lru,        \* the list from gCache.tail (oldest) to gCache.head (newest)
    bytesUsed,  \* gCache.bytesUsed
    slotUsed,   \* gCache.slotUsed
    lockQueue,  \* gLockQueue: notifications for the lock thread
    toClean,    \* what is left of the loop of a running fs_clean
    appends     \* how many appends succeeded (bound only)

vars == <<table, lru, bytesUsed, slotUsed, lockQueue, toClean, appends>>

\* The error codes of file_system.h; the notifications carry the first two.
OK == "OK"
ALREADY_EXISTS == "FS_FILE_ALREADY_EXISTS"
NOT_EXISTS == "FS_FILE_NOT_EXISTS"
NOT_ALLOWED == "FS_CLIENT_NOT_ALLOWED"
WAITING_ON_LOCK == "FS_CLIENT_WAITING_ON_LOCK"
TOO_BIG == "FS_FILE_TOO_BIG"

Entry == [name : Names, contentLen : Nat,
          owner : Clients \cup {EmptyOwner}, waiting : Seq(Clients)]
Notice == [fd : Clients, status : {OK, NOT_EXISTS}]

Stored(n) == KeyOf[n] \in DOMAIN table
File(n) == table[KeyOf[n]]
\* (fault: the name is forgotten)
SizeOf_NoName(e) == e.contentLen

SizeOf(e) == NameLen[e.name] + e.contentLen

Init ==
    /\ table = << >>
    /\ lru = << >>
    /\ bytesUsed = 0
    /\ slotUsed = 0
    /\ lockQueue = << >>
    /\ toClean = << >>
    /\ appends = 0

-----------------------------------------------------------------------------
\* gFSMutex is free: no fs_clean is in the middle of its loop.
MutexFree == toClean = << >>

\* A client that waits for a lock, or whose notification is not sent yet, is
\* blocked in its call and the server does not read from it.
Waits(c) == \E k \in DOMAIN table : c \in Range(table[k].waiting)
Notified(c) == \E i \in DOMAIN lockQueue : lockQueue[i].fd = c
CanCall(c) == MutexFree /\ ~Waits(c) /\ ~Notified(c)

\* (faults: a file already in the list is not unlinked; is not moved)
moveToTop_StillLinked(k) == Append(lru, k)
moveToTop_OnlyNew(k) == IF k \in Range(lru) THEN lru ELSE Append(lru, k)

\* The list with key k linked in at the head, wherever it was before.
moveToTop(k) ==
    IF \E i \in DOMAIN lru : lru[i] = k
    THEN LET i == CHOOSE j \in DOMAIN lru : lru[j] = k
         IN  Append(SubSeq(lru, 1, i - 1) \o SubSeq(lru, i + 1, Len(lru)), k)
    ELSE Append(lru, k)

\* (faults: the wrong code is sent; only the first waiter is told)
NoticesTo_WrongCode(waiting, status) ==
    [i \in DOMAIN waiting |-> [fd |-> waiting[i], status |-> WAITING_ON_LOCK]]
NoticesTo_First(waiting, status) ==
    IF waiting = << >> THEN << >> ELSE <<[fd |-> Head(waiting), status |-> status]>>

\* One notification for each waiting client, first come first.
NoticesTo(waiting, status) ==
    [i \in DOMAIN waiting |-> [fd |-> waiting[i], status |-> status]]

\* (fault: one slot too many is used)
TooManySlots_Late(slots) == slots > MaxSlots + 1

TooManySlots(slots) == slots > MaxSlots

(***************************************************************************)
(* updateCacheSize: the counters are already adjusted to bytes and slots,  *)
(* the table and the list to tbl and order.  Files go from the tail while  *)
(* the bytes exceed their limit, then one more if the slots still do; that *)
(* one restarts the buffer of ejected files, whose waiters are the only    *)
(* ones told that their file is gone.                                      *)
(***************************************************************************)
updateCacheSize(tbl, order, bytes, slots) ==
    LET dropped == PrefixSums([i \in DOMAIN order |-> SizeOf(tbl[order[i]])])
        over(i) == bytes - dropped[i] > MaxBytes
    IN  \E n \in 0..Len(order) :
          /\ \A i \in 0..(n-1) : over(i)
          /\ n = Len(order) \/ ~over(n)
          /\ LET tooMany == TooManySlots(slots - n)
                 m == IF tooMany THEN n + 1 ELSE n
                 gone == {order[i] : i \in 1..m}
                 told == IF tooMany THEN <<order[m]>> ELSE SubSeq(order, 1, m)
             IN  /\ table' = [k \in DOMAIN tbl \ gone |-> tbl[k]]
                 /\ lru' = SubSeq(order, m + 1, Len(order))
                 /\ bytesUsed' = bytes - dropped[m]
                 /\ slotUsed' = slots - m
                 /\ lockQueue' = lockQueue \o FlattenSeq(
                        [i \in DOMAIN told |->
                            NoticesTo(tbl[told[i]].waiting, NOT_EXISTS)])

-----------------------------------------------------------------------------
(* fs_insert: an empty file, locked by its creator on request. *)
InsertResult(n) == IF Stored(n) THEN ALREADY_EXISTS ELSE OK

fs_insert(c, n, acquireLock) ==
    /\ CanCall(c)
    /\ InsertResult(n) = OK
    /\ LET e == [name |-> n, contentLen |-> 0, waiting |-> << >>,
                 owner |-> IF acquireLock THEN c ELSE EmptyOwner]
           tbl == [k \in DOMAIN table \cup {KeyOf[n]} |->
                      IF k = KeyOf[n] THEN e ELSE table[k]]
       IN  updateCacheSize(tbl, moveToTop(KeyOf[n]),
                           bytesUsed + SizeOf(e), slotUsed + 1)
    /\ UNCHANGED <<toClean, appends>>

(* fs_remove: only the owner may; whoever waits is told the file is gone.  *)
(* Its call of updateCacheSize passes no place to return ejected files in, *)
(* so it must never eject (CountedWithinLimits).                           *)
RemoveResult(c, n) ==
    IF ~Stored(n) THEN NOT_EXISTS
    ELSE IF File(n).owner # c THEN NOT_ALLOWED ELSE OK

fs_remove(c, n) ==
    /\ CanCall(c)
    /\ RemoveResult(c, n) = OK
    /\ LET k == KeyOf[n]
           i == CHOOSE j \in DOMAIN lru : lru[j] = k
       IN  /\ table' = [x \in DOMAIN table \ {k} |-> table[x]]
           /\ lru' = SubSeq(lru, 1, i - 1) \o SubSeq(lru, i + 1, Len(lru))
           /\ lockQueue' = lockQueue \o NoticesTo(table[k].waiting, NOT_EXISTS)
           /\ bytesUsed' = bytesUsed - SizeOf(table[k])
           /\ slotUsed' = slotUsed - 1
    /\ UNCHANGED <<toClean, appends>>

(* fs_obtain and fs_exists: the file becomes the most recently used. *)
ObtainResult(n) == IF Stored(n) THEN OK ELSE NOT_EXISTS

fs_obtain(c, n) ==
    /\ CanCall(c)
    /\ ObtainResult(n) = OK
    /\ lru' = moveToTop(KeyOf[n])
    /\ UNCHANGED <<table, bytesUsed, slotUsed, lockQueue, toClean, appends>>

(* fs_obtain_n: copies of n files, of all of them for 0; nothing changes.    *)
(* The n positions are drawn from the first slotUsed by reservoir sampling,  *)
(* with random numbers m.  The cap on the size of a reply is out of reach.   *)
Replaced(indexes, i, m) ==
    IF m < Len(indexes) THEN [indexes EXCEPT ![m + 1] = i] ELSE indexes

\* (fault: the sampling starts one position early)
LeftOut_TooMany(n) == [j \in 1..(slotUsed - n + 1) |-> n + j - 2]

\* The positions that the first n are replaced by.
LeftOut(n) == [j \in 1..(slotUsed - n) |-> n + j - 1]

Reservoirs(n) ==
    FoldLeft(LAMBDA drawn, i : UNION {{Replaced(x, i, m) : m \in 0..i} : x \in drawn},
             {[j \in 1..n |-> j - 1]}, LeftOut(n))

\* The positions in ascending order.
qsort(x) ==
    LET rank(i) == Cardinality({h \in DOMAIN x : \/ x[h] < x[i]
                                                 \/ x[h] = x[i] /\ h <= i})
    IN  [j \in DOMAIN x |-> x[CHOOSE i \in DOMAIN x : rank(i) = j]]

\* The list is walked from the tail with the sorted positions, next to next.
FilesAt(positions) ==
    FoldLeft(LAMBDA files, i : IF /\ Len(files) < Len(positions)
                                  /\ positions[Len(files) + 1] = i - 1
                               THEN Append(files, lru[i]) ELSE files,
             << >>, [i \in DOMAIN lru |-> i])

fs_obtain_n(n) ==
    IF n = 0 THEN {SubSeq(Reverse(lru), 1, Min({slotUsed, Len(lru)}))}
    ELSE {FilesAt(qsort(x)) : x \in Reservoirs(Min({n, slotUsed}))}

(* fs_modify: the new content replaces the old one, and the name too: under *)
(* a collision of keys the file takes the name of the request.              *)
ModifyResult(c, n, len) ==
    IF ~Stored(n) THEN NOT_EXISTS
    ELSE IF File(n).owner # c THEN NOT_ALLOWED
    ELSE IF len + NameLen[n] > MaxBytes THEN TOO_BIG ELSE OK

fs_modify(c, n, len) ==
    /\ CanCall(c)
    /\ ModifyResult(c, n, len) = OK
    /\ LET e == [File(n) EXCEPT !.name = n, !.contentLen = len]
       IN  updateCacheSize([table EXCEPT ![KeyOf[n]] = e], moveToTop(KeyOf[n]),
                           bytesUsed + SizeOf(e) - SizeOf(File(n)), slotUsed)
    /\ UNCHANGED <<toClean, appends>>

(* fs_append: allowed on an unlocked file as well.  The counter gains the  *)
(* size of the request and loses the content the file has AFTER the append *)
(* (the dummy file is copied from the grown entry).                        *)
AppendResult(c, n, len) ==
    IF ~Stored(n) THEN NOT_EXISTS
    ELSE IF File(n).owner \notin {c, EmptyOwner} THEN NOT_ALLOWED
    ELSE IF len + NameLen[n] + File(n).contentLen > MaxBytes THEN TOO_BIG
    ELSE OK

fs_append(c, n, len) ==
    /\ CanCall(c)
    /\ appends < MaxAppends
    /\ AppendResult(c, n, len) = OK
    /\ LET e == [File(n) EXCEPT !.contentLen = @ + len]
       IN  updateCacheSize([table EXCEPT ![KeyOf[n]] = e], moveToTop(KeyOf[n]),
                           bytesUsed + (len + NameLen[n]) - e.contentLen, slotUsed)
    /\ appends' = appends + 1
    /\ UNCHANGED toClean

(* fs_trylock: takes a free lock, again if it is already the client's; on  *)
(* a lock held by another the client waits, if there is room in the queue. *)
\* (fault: the owner, too, is sent to wait)
TryLockResult_OwnerWaits(c, n) ==
    IF ~Stored(n) THEN NOT_EXISTS
    ELSE IF File(n).owner = EmptyOwner THEN OK
    ELSE IF Len(File(n).waiting) < MaxWaiting THEN WAITING_ON_LOCK
    ELSE NOT_ALLOWED

TryLockResult(c, n) ==
    IF ~Stored(n) THEN NOT_EXISTS
    ELSE IF File(n).owner \in {c, EmptyOwner} THEN OK
    ELSE IF Len(File(n).waiting) < MaxWaiting THEN WAITING_ON_LOCK
    ELSE NOT_ALLOWED

fs_trylock(c, n) ==
    /\ CanCall(c)
    /\ \/ /\ TryLockResult(c, n) = OK
          /\ table' = [table EXCEPT ![KeyOf[n]].owner = c]
          /\ lru' = moveToTop(KeyOf[n])
       \/ /\ TryLockResult(c, n) = WAITING_ON_LOCK
          /\ table' = [table EXCEPT ![KeyOf[n]].waiting = Append(@, c)]
          /\ UNCHANGED lru
    /\ UNCHANGED <<bytesUsed, slotUsed, lockQueue, toClean, appends>>

(* _inner_unlock: the lock passes to the first waiting client, which the   *)
(* lock thread will tell, or becomes free.                                 *)
UnlockResult(c, k) ==
    IF k \notin DOMAIN table THEN NOT_EXISTS
    ELSE IF table[k].owner # c THEN NOT_ALLOWED ELSE OK

\* (faults: the new owner is not recorded; the last to come is served first)
PassLock_Unrecorded(e) ==
    IF e.waiting = << >> THEN [e EXCEPT !.owner = EmptyOwner]
    ELSE [e EXCEPT !.owner = EmptyOwner, !.waiting = Tail(e.waiting)]
PassLock_LastFirst(e) ==
    IF e.waiting = << >> THEN [e EXCEPT !.owner = EmptyOwner]
    ELSE [e EXCEPT !.owner = Last(e.waiting), !.waiting = Front(e.waiting)]

PassLock(e) ==
    IF e.waiting = << >> THEN [e EXCEPT !.owner = EmptyOwner]
    ELSE [e EXCEPT !.owner = Head(e.waiting), !.waiting = Tail(e.waiting)]

inner_unlock(c, k) ==
    IF UnlockResult(c, k) = OK
    THEN /\ table' = [table EXCEPT ![k] = PassLock(@)]
         /\ lockQueue' = IF table[k].waiting = << >> THEN lockQueue
                         ELSE Append(lockQueue, [fd |-> PassLock(table[k]).owner,
                                                 status |-> OK])
         /\ lru' = moveToTop(k)
    ELSE UNCHANGED <<table, lockQueue, lru>>

(* fs_unlock: what only the owner may do. *)
fs_unlock(c, n) ==
    /\ CanCall(c)
    /\ UnlockResult(c, KeyOf[n]) = OK
    /\ inner_unlock(c, KeyOf[n])
    /\ UNCHANGED <<bytesUsed, slotUsed, toClean, appends>>

(* fs_clean, at the end of a session: unlock every file it left opened.    *)
(* The session may hold files that were ejected or are locked by others.   *)
fs_clean(c, keys) ==
    /\ CanCall(c)
    /\ toClean' = [i \in DOMAIN keys |-> [client |-> c, key |-> keys[i]]]
    /\ UNCHANGED <<table, lru, bytesUsed, slotUsed, lockQueue, appends>>

fs_clean_next ==
    /\ toClean # << >>
    /\ inner_unlock(Head(toClean).client, Head(toClean).key)
    /\ toClean' = Tail(toClean)
    /\ UNCHANGED <<bytesUsed, slotUsed, appends>>

(* lockThreadFun takes the next notification and answers its client. *)
lockThreadTake ==
    /\ lockQueue # << >>
    /\ lockQueue' = Tail(lockQueue)
    /\ UNCHANGED <<table, lru, bytesUsed, slotUsed, toClean, appends>>

\* What a session can leave opened: some files, in any order; names that
\* collide give a slot twice.
Sessions == UNION {[1..n -> Keys] : n \in 1..MaxOpened}

ClientCall(c, n) ==
    \/ \E acquireLock \in BOOLEAN : fs_insert(c, n, acquireLock)
    \/ fs_remove(c, n)
    \/ fs_obtain(c, n)
    \/ \E len \in WriteLens : fs_modify(c, n, len)
    \/ \E len \in AppendLens : fs_append(c, n, len)
    \/ fs_trylock(c, n)
    \/ fs_unlock(c, n)

Next ==
    \/ \E c \in Clients, n \in Names : ClientCall(c, n)
    \/ \E c \in Clients, keys \in Sessions : fs_clean(c, keys)
    \/ fs_clean_next
    \/ lockThreadTake

Spec == Init /\ [][Next]_vars

-----------------------------------------------------------------------------
(* Every variable has its type. *)
TypeOK ==
    /\ DOMAIN table \subseteq Keys
    /\ table \in [DOMAIN table -> Entry]
    /\ lru \in Seq(Keys)
    /\ bytesUsed \in Int
    /\ slotUsed \in Int
    /\ lockQueue \in Seq(Notice)
    /\ toClean \in Seq([client : Clients, key : Keys])
    /\ appends \in 0..MaxAppends

(* The list links exactly the files of the hash table, each once, a file's *)
(* name leads back to its slot of the table, and the slot counter is their *)
(* number, whatever was ejected, removed and re-inserted.                  *)
ListMatchesTable ==
    /\ IsInjective(lru)
    /\ Range(lru) = DOMAIN table
    /\ slotUsed = Len(lru)
    /\ \A k \in DOMAIN table : KeyOf[table[k].name] = k

(* Between two calls the slots are within their limit, and so are the      *)
(* counted bytes unless nothing is stored at all.  fs_remove depends on it: *)
(* it gives updateCacheSize nowhere to put ejected files.                  *)
CountedWithinLimits ==
    /\ slotUsed <= MaxSlots
    /\ lru # << >> => bytesUsed <= MaxBytes

(* Nobody waits for a lock that nobody holds, so that the next unlock,     *)
(* removal or ejection answers every waiter.                               *)
WaitersHaveOwner ==
    \A k \in DOMAIN table :
        table[k].waiting # << >> => table[k].owner # EmptyOwner

(* A client is blocked in one place at most: one position of one waiting   *)
(* queue, or one notification, and it never waits for its own lock.  Two   *)
(* places would put its descriptor into the hands of two threads.          *)
BlockedOnce ==
    /\ \A k, l \in DOMAIN table : \A i \in DOMAIN table[k].waiting :
         \A j \in DOMAIN table[l].waiting :
            table[k].waiting[i] = table[l].waiting[j] => k = l /\ i = j
    /\ \A i, j \in DOMAIN lockQueue : lockQueue[i].fd = lockQueue[j].fd => i = j
    /\ \A k \in DOMAIN table : \A i \in DOMAIN table[k].waiting :
          /\ table[k].owner # table[k].waiting[i]
          /\ ~Notified(table[k].waiting[i])

\* The bytes of the stored files.
StoredBytes ==
    FoldFunction(LAMBDA e, sum : NameLen[e.name] + e.contentLen + sum, 0, table)

(* bytesUsed counts the bytes that are stored. *)
ByteAccounting == bytesUsed = StoredBytes

(* Inserting, writing, removing and ejecting keep the byte counter exact   *)
(* and the stored bytes within the limit; only an append disturbs them.    *)
ExactUntilAppend == appends = 0 => ByteAccounting /\ StoredBytes <= MaxBytes

(* Whatever the random numbers, a request for n files gets n different     *)
(* stored files, or all of them if there are fewer or n is 0.              *)
ReadsAsManyAsAsked ==
    \A n \in 0..(MaxSlots + 1) : \A files \in fs_obtain_n(n) :
        /\ IsInjective(files)
        /\ Range(files) \subseteq DOMAIN table
        /\ Len(files) = IF n = 0 THEN Cardinality(DOMAIN table)
                        ELSE Min({n, Cardinality(DOMAIN table)})

(* A client that stops waiting is told so, once, in the step that decides  *)
(* it: that the lock is its own now, or else that the file is gone.        *)
WaitersAnswered ==
    [][ \A k \in DOMAIN table : \A c \in Range(table[k].waiting) :
           LET gone == k \notin DOMAIN table'
               news == {i \in DOMAIN lockQueue' \ DOMAIN lockQueue :
                           lockQueue'[i].fd = c}
           IN  IF ~gone /\ c \in Range(table'[k].waiting) THEN news = {}
               ELSE \E i \in news :
                       /\ news = {i}
                       /\ lockQueue'[i].status = IF gone THEN NOT_EXISTS ELSE OK
                       /\ gone \/ table'[k].owner = c ]_vars

(* A held lock changes hands only by its owner's release, to the client    *)
(* that has waited longest; the others keep their order.                   *)
HandOffInOrder ==
    [][ \A k \in DOMAIN table \cap DOMAIN table' :
          LET old == table[k]
              new == table'[k]
          IN  old.owner # new.owner /\ old.owner # EmptyOwner =>
                 IF old.waiting = << >> THEN new.owner = EmptyOwner
                 ELSE new.owner = old.waiting[1] /\ new.waiting = Tail(old.waiting)
      ]_vars

\* Of the stored files, who owns them and who waits for them.
Locks == [k \in DOMAIN table |->
             [owner |-> table[k].owner, waiting |-> table[k].waiting]]

LockTable == INSTANCE LockService
    WITH lock <- Locks, answers <- Range(lockQueue), Files <- Keys,
         NoOwner <- EmptyOwner, Granted <- OK, Gone <- NOT_EXISTS

(* The file system is a lock service: whatever is created, written,        *)
(* ejected or removed in between, a lock passes from owner to waiter in    *)
(* order, and everybody who waited gets one answer, which is the true one. *)
ImplementsLockService == LockTable!Spec

\* The calls on file n of client c that may eject files.
MayEject(c, n) ==
    \/ \E acquireLock \in BOOLEAN : fs_insert(c, n, acquireLock)
    \/ \E len \in WriteLens : fs_modify(c, n, len)
    \/ \E len \in AppendLens : fs_append(c, n, len)

(* Ejection follows use: a call on file n ejects only files used less      *)
(* recently than all the others it leaves, and, as long as the byte        *)
(* counter is exact, never file n itself.                                  *)
EjectsLeastRecent ==
    [][ ~(DOMAIN table \subseteq DOMAIN table') =>
        \A c \in Clients, n \in Names :
          MayEject(c, n) =>
             /\ \A i, j \in DOMAIN lru :
                   i < j /\ lru[j] \notin DOMAIN table' /\ lru[i] # KeyOf[n]
                      => lru[i] \notin DOMAIN table'
             /\ appends' = 0 => KeyOf[n] \in DOMAIN table'
      ]_vars
=============================================================================
