----------------------------- MODULE LockOrder ------------------------------
(***************************************************************************)
(* The order in which the server's threads take the mutexes gFSMutex,      *)
(* gLockMutex, gLogMutex and gNumClientMutex (server.c, file_system.c,     *)
(* logger.h).  A thread is the list of what it still has to do: the        *)
(* mutexes a call of the file system takes and gives back, the             *)
(* notifications it pushes, and the line log_into_file writes after it.    *)
(* What is done under the mutexes is FileSystem's and Server's subject.    *)
(***************************************************************************)
EXTENDS Integers, Sequences, FiniteSets, SequencesExt

CONSTANTS
    Workers, LockThread, Nobody,
    LogLevel,       \* set_log_level: 4 is INFO, the default, 5 VERBOSE
    QueueRoom       \* the capacity of gLockQueue

VARIABLES
    todo,       \* the steps each thread still has to make
    holder,     \* who has each mutex
    queued      \* the notifications in gLockQueue

vars == <<todo, holder, queued>>

Threads == Workers \cup {LockThread}
Mutexes == {"gFSMutex", "gLockMutex", "gLogMutex", "gNumClientMutex"}

Lock(m) == [op |-> "lock", mutex |-> m]
Unlock(m) == [op |-> "unlock", mutex |-> m]
Push == [op |-> "push", mutex |-> "none"]
Pop == [op |-> "pop", mutex |-> "none"]
Wait == [op |-> "wait", mutex |-> "none"]

Under(m, steps) == <<Lock(m)>> \o steps \o <<Unlock(m)>>

\* custom_formatted_log: nothing is locked for a line the level leaves out.
LOG(level) == IF LogLevel < level THEN << >> ELSE Under("gLogMutex", << >>)
LOG_WARN == LOG(3)
LOG_VERB == LOG(5)

fs_get_infos == Under("gFSMutex", << >>)

\* numClientConnected's copy first, then the line with the file system's counters.
log_into_file == Under("gNumClientMutex", << >>) \o Under("gLogMutex", fs_get_infos)

\* A notification: pushed by trying until there is room, then signalled.
Notify == <<Push>> \o LOG_VERB \o Under("gLockMutex", << >>)

\* DEBUG_LOG is defined: a call describes the cache before it gives the mutex back.
log_cache_entirely == LOG_VERB
Called(steps) == Under("gFSMutex", steps \o log_cache_entirely)

\* The calls: nothing but the mutex (fs_obtain, fs_modify, fs_trylock, ...), the
\* insertion of a name whose slot is taken, a release with a client waiting and
\* with none, a removal that several clients wait for.
PlainCall == Called(<< >>)
fs_insert_exists == Called(LOG_WARN)
fs_unlock_waiting == Called(Notify)
fs_unlock_nobody == Called(LOG_VERB)
fs_remove_waiting == Called(Notify \o Notify)

Calls == {PlainCall, fs_insert_exists, fs_unlock_waiting, fs_unlock_nobody, fs_remove_waiting}

\* workerThreadFun and lockThreadFun, from one request or notification to the next.
Worker == {call \o log_into_file : call \in Calls}
lockThreadFun == Under("gLockMutex", <<Pop>>) \o LOG_VERB \o log_into_file

Init ==
    /\ todo = [t \in Threads |-> << >>]
    /\ holder = [m \in Mutexes |-> Nobody]
    /\ queued = 0

Begin(t) ==
    /\ todo[t] = << >>
    /\ IF t = LockThread THEN todo' = [todo EXCEPT ![t] = lockThreadFun]
       ELSE \E steps \in Worker : todo' = [todo EXCEPT ![t] = steps]
    /\ UNCHANGED <<holder, queued>>

Step(t) == Head(todo[t])
Does(t, op) ==
    /\ todo[t] # << >> /\ Step(t).op = op
    /\ todo' = [todo EXCEPT ![t] = Tail(@)]

lock_mutex(t) ==
    /\ Does(t, "lock") /\ holder[Step(t).mutex] = Nobody
    /\ holder' = [holder EXCEPT ![Step(t).mutex] = t]
    /\ UNCHANGED queued

unlock_mutex(t) ==
    /\ Does(t, "unlock")
    /\ holder' = [holder EXCEPT ![Step(t).mutex] = Nobody]
    /\ UNCHANGED queued

tryPush(t) ==
    /\ Does(t, "push") /\ queued < QueueRoom /\ queued' = queued + 1
    /\ UNCHANGED holder

tryPop(t) ==
    /\ Does(t, "pop") /\ queued > 0 /\ queued' = queued - 1
    /\ UNCHANGED holder

\* The queue is empty: it is looked at again after the wait.
popFails(t) ==
    /\ todo[t] # << >> /\ Step(t).op = "pop" /\ queued = 0
    /\ todo' = [todo EXCEPT ![t] = LOG_VERB \o (<<Wait>> \o @)]
    /\ UNCHANGED <<holder, queued>>

\* pthread_cond_wait gives the mutex back and takes it again.
cond_wait(t) ==
    /\ todo[t] # << >> /\ Step(t).op = "wait"
    /\ holder' = [holder EXCEPT !["gLockMutex"] = Nobody]
    /\ todo' = [todo EXCEPT ![t] = <<Lock("gLockMutex")>> \o Tail(@)]
    /\ UNCHANGED queued

Next == \E t \in Threads :
    \/ Begin(t) \/ lock_mutex(t) \/ unlock_mutex(t)
    \/ tryPush(t) \/ tryPop(t) \/ popFails(t) \/ cond_wait(t)

Spec == Init /\ [][Next]_vars

----------------------------------------------------------------------------

\* t needs a mutex that u has, or room in the queue that only u makes.
WaitsFor(t, u) ==
    /\ todo[t] # << >>
    /\ \/ Step(t).op = "lock" /\ holder[Step(t).mutex] = u
       \/ Step(t).op = "push" /\ queued = QueueRoom /\ u = LockThread

\* Every call returns (file_system.h documents the results of each of them, of
\* fs_insert FS_FILE_ALREADY_EXISTS): no threads wait for each other in a circle.
NoCircularWait ==
    ~ \E ring \in (SUBSET Threads) \ {{}} : \A t \in ring : \E u \in ring : WaitsFor(t, u)
=============================================================================
