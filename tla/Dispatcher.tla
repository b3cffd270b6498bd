---------------------------- MODULE Dispatcher ----------------------------
(***************************************************************************)
(* The threads of the server (progetto-finale/server/src/server.c): the    *)
(* main thread accepts connections and shuts the server down on a signal,  *)
(* the select thread waits for readable descriptors, the workers serve     *)
(* them, the lock thread answers the clients that waited for a lock.       *)
(*                                                                         *)
(* A connection travels: main announces it through the pipe, the select    *)
(* thread monitors it, moves it into the work queue when it is readable, a *)
(* worker serves it and hands it back through the pipe.                    *)
(*                                                                         *)
(* A step of a thread ends where another thread can tell the difference:   *)
(* at a mutex, a wait, a queue or the pipe.  gWorkMutex and gLockMutex are *)
(* only ever held across steps by a thread that found its queue empty and  *)
(* has not begun to wait.  What requests do is reduced to one file's lock  *)
(* (FileSystem has the rest); SIGQUIT is handled as SIGINT.                *)
(***************************************************************************)
EXTENDS Integers, Sequences, FiniteSets, Functions, SequencesExt, FiniteSetsExt

CONSTANTS
    Workers,     \* the worker threads
    Fds,         \* descriptors accept can return
    NoFd,        \* no descriptor (-1)
    PipeRead,    \* the ends of mainToSelectPipe
    PipeWrite,
    RingSize,    \* RING_BUFFER_SIZE
    SignalSets,  \* bound: the sets of signals that may arrive
    Resets       \* may a client be gone before it reads a reply?

\* The pipe is created before the first connection is accepted, and the
\* system hands out the lowest descriptor that is free.  The configuration
\* refuses a server without workers.
ASSUME DescriptorsAssumption ==
    /\ PipeRead \in Nat /\ PipeWrite \in Nat /\ PipeRead < PipeWrite
    /\ Fds \subseteq Nat /\ \A fd \in Fds : PipeWrite < fd
    /\ NoFd \notin Fds
    /\ RingSize \in Nat \ {0}
    /\ Workers # {}
    /\ {} \in SignalSets /\ SignalSets \subseteq SUBSET {"SIGINT", "SIGHUP"}
    /\ Resets \in BOOLEAN

VARIABLES
    signals,    \* gSigIntReceived, gSigHupReceived
    mainPc, newConnFd,       \* main thread
    pipe,                    \* messages in mainToSelectPipe
    selectPc, gFdSet, gMaxFd, ready,          \* select thread
    gNumClientConnected,
    gWorkQueue, pc, client,  \* workers: where each is, the fd it serves
    gLockQueue, lockPc, lockFd,               \* lock thread
    holder, waiting,         \* the lock of the file and its queue
    socket      \* what goes on on each connection

mainVars == <<mainPc, newConnFd>>
selectVars == <<selectPc, gFdSet, gMaxFd, ready>>
workVars == <<gWorkQueue, pc, client>>
lockVars == <<gLockQueue, lockPc, lockFd>>
fileVars == <<holder, waiting>>
vars == <<signals, mainVars, pipe, selectVars, gNumClientConnected, workVars,
          lockVars, fileVars, socket>>

\* A connection: closed on the server's side; quiet; a request to read; a
\* request being served; a reply the client has to read; the client gone,
\* leaving nothing, a request, or a reply it did not read.
SocketStates == {"closed", "quiet", "request", "serving", "reply",
                 "gone", "goneRequest", "goneReply"}
Open(fd) == socket[fd] # "closed"
Readable(fd) == socket[fd] \in {"request", "gone", "goneRequest", "goneReply"}

Message == [type : {"NEW_CONNECTION", "REM_CONNECTION", "SET_CONNECTION"}, fd : Fds]
           \cup [type : {"EXIT_REQUESTED"}, fd : {NoFd}]
Msg(type, fd) == [type |-> type, fd |-> fd]

Init ==
    /\ signals = {}
    /\ mainPc = "check" /\ newConnFd = NoFd
    /\ pipe = << >>
    /\ selectPc = "scan" /\ gFdSet = {PipeRead} /\ gMaxFd = PipeRead /\ ready = {}
    /\ gNumClientConnected = 0
    /\ gWorkQueue = << >>
    /\ pc = [w \in Workers |-> "loop"] /\ client = [w \in Workers |-> NoFd]
    /\ gLockQueue = << >> /\ lockPc = "loop" /\ lockFd = NoFd
    /\ holder = NoFd /\ waiting = << >>
    /\ socket = [fd \in Fds |-> "closed"]

-----------------------------------------------------------------------------
SigInt == "SIGINT" \in signals
SigHup == "SIGHUP" \in signals

\* (fault: after SIGHUP nobody is served any more)
WorkersStop_AtOnce == SigInt \/ SigHup

\* What ends the loop of a worker, and the one of the lock thread, which
\* main stops (gShouldStopWorking) after it has joined the workers.
WorkersStop == SigInt \/ (SigHup /\ gNumClientConnected = 0)
LockStops == SigInt \/ mainPc \in {"stopLock", "joinLock", "joinSelect", "done"}

\* (fault: notifying does not take the mutex)
WorkMutexFree_NotTaken == TRUE

\* A worker that is about to wait holds gWorkMutex, the lock thread gLockMutex.
WorkMutexFree == \A w \in Workers : pc[w] # "beforeWait"
LockMutexFree == lockPc # "beforeWait"

Asleep == {w \in Workers : pc[w] = "asleep"}
Wake(ws) == pc' = [w \in Workers |-> IF w \in ws THEN "loop" ELSE pc[w]]

\* (fault: notify_one where all have to be told)
notify_all_JustOne == IF Asleep = {} THEN Wake({}) ELSE \E w \in Asleep : Wake({w})

\* On gWorkCond; only the lock thread ever waits on gLockCond.
notify_all == Wake(Asleep)
notify_one == IF Asleep = {} THEN Wake({}) ELSE \E w \in Asleep : Wake({w})
notifyLockThread == lockPc' = IF lockPc = "asleep" THEN "loop" ELSE lockPc

-----------------------------------------------------------------------------
(* The main thread: runServer, then terminateSever, which wakes the workers *)
(* and joins them, then does the same with the lock thread, then tells the  *)
(* select thread to exit.                                                   *)

mainCheck ==
    /\ mainPc = "check"
    /\ mainPc' = IF signals = {} THEN "accept" ELSE "closing"
    /\ UNCHANGED <<newConnFd, pipe, pc, lockPc, socket>>

\* A client connects; accept returns the lowest free descriptor.
mainAccept ==
    /\ mainPc = "accept"
    /\ \E fd \in Fds :
          /\ ~Open(fd)
          /\ \A other \in Fds : ~Open(other) => fd <= other
          /\ newConnFd' = fd
          /\ socket' = [socket EXCEPT ![fd] = "quiet"]
    /\ mainPc' = "announce"
    /\ UNCHANGED <<pipe, pc, lockPc>>

mainAnnounce ==
    /\ mainPc = "announce"
    /\ pipe' = Append(pipe, Msg("NEW_CONNECTION", newConnFd))
    /\ mainPc' = "check" /\ newConnFd' = NoFd
    /\ UNCHANGED <<pc, lockPc, socket>>

mainClose ==
    /\ mainPc = "closing" /\ WorkMutexFree
    /\ notify_all
    /\ mainPc' = "joinWorkers"
    /\ UNCHANGED <<newConnFd, pipe, lockPc, socket>>

mainJoinWorkers ==
    /\ mainPc = "joinWorkers" /\ \A w \in Workers : pc[w] = "done"
    /\ mainPc' = "stopLock"
    /\ UNCHANGED <<newConnFd, pipe, pc, lockPc, socket>>

mainStopLock ==
    /\ mainPc = "stopLock" /\ LockMutexFree
    /\ notifyLockThread
    /\ mainPc' = "joinLock"
    /\ UNCHANGED <<newConnFd, pipe, pc, socket>>

mainJoinLock ==
    /\ mainPc = "joinLock" /\ lockPc = "done"
    /\ pipe' = Append(pipe, Msg("EXIT_REQUESTED", NoFd))
    /\ mainPc' = "joinSelect"
    /\ UNCHANGED <<newConnFd, pc, lockPc, socket>>

mainJoinSelect ==
    /\ mainPc = "joinSelect" /\ selectPc = "done"
    /\ mainPc' = "done"
    /\ UNCHANGED <<newConnFd, pipe, pc, lockPc, socket>>

notMain == <<signals, selectVars, gNumClientConnected, gWorkQueue, client,
             gLockQueue, lockFd, fileVars>>

Main ==
    /\ \/ mainCheck \/ mainAnnounce \/ mainClose \/ mainJoinWorkers
       \/ mainStopLock \/ mainJoinLock \/ mainJoinSelect
    /\ UNCHANGED notMain

-----------------------------------------------------------------------------
(* The select thread: selectThreadFun. *)

\* The ready descriptors are through; the head of the loop.
selectLoop ==
    /\ selectPc = "scan" /\ ready = {}
    /\ selectPc' = IF SigInt THEN "done" ELSE "select"
    /\ UNCHANGED <<pipe, gFdSet, gMaxFd, ready, gNumClientConnected, gWorkQueue, pc, socket>>

\* (fault: a descriptor above the highest one stays out of reach)
Raised_Kept(fd) == gMaxFd

\* gMaxFd when fd joins the set.
Raised(fd) == Max({gMaxFd, fd})

\* (fault: the counter is left alone)
countGone_Forgotten == UNCHANGED gNumClientConnected

countGone == gNumClientConnected' = gNumClientConnected - 1

(* select returns: one message of the pipe is handled first.  gMaxFd becomes *)
(* the highest descriptor below it that was not ready; the code finds it     *)
(* while it goes through the ready ones and nobody else reads it.            *)
selectReturns ==
    /\ selectPc = "select"
    /\ LET inSet == {fd \in gFdSet : fd <= gMaxFd /\
                        IF fd = PipeRead THEN pipe # << >> ELSE Readable(fd)}
           message == Head(pipe)
           Rescan(top) == gMaxFd' = Max({0} \cup (0..top \ inSet))
       IN  /\ inSet # {}
           /\ ready' = inSet \ {PipeRead}
           /\ IF PipeRead \notin inSet
              THEN /\ Rescan(gMaxFd) /\ selectPc' = "scan"
                   /\ UNCHANGED <<pipe, gFdSet, gNumClientConnected, socket>>
              ELSE /\ pipe' = Tail(pipe)
                   /\ \/ /\ message.type = "EXIT_REQUESTED"
                         /\ selectPc' = "done"
                         /\ UNCHANGED <<gFdSet, gMaxFd, gNumClientConnected, socket>>
                      \/ /\ message.type = "NEW_CONNECTION"
                         /\ gFdSet' = gFdSet \cup {message.fd}
                         /\ Rescan(Raised(message.fd)) /\ selectPc' = "scan"
                         /\ gNumClientConnected' = gNumClientConnected + 1
                         /\ UNCHANGED socket
                      \/ /\ message.type = "SET_CONNECTION"
                         /\ gFdSet' = gFdSet \cup {message.fd}
                         /\ Rescan(Raised(message.fd)) /\ selectPc' = "scan"
                         /\ UNCHANGED <<gNumClientConnected, socket>>
                      \/ /\ message.type = "REM_CONNECTION"
                         /\ socket' = [socket EXCEPT ![message.fd] = "closed"]
                         /\ countGone
                         /\ Rescan(gMaxFd) /\ selectPc' = "notifyAll"
                         /\ UNCHANGED gFdSet
    /\ UNCHANGED <<gWorkQueue, pc>>

\* After a disconnection the workers look at the counter again.
selectNotifyAll ==
    /\ selectPc = "notifyAll" /\ WorkMutexFree
    /\ notify_all
    /\ selectPc' = "scan"
    /\ UNCHANGED <<pipe, gFdSet, gMaxFd, ready, gNumClientConnected, gWorkQueue, socket>>

\* (fault: the descriptor stays in the set while it is served)
Unmonitored_Kept(fd) == gFdSet

Unmonitored(fd) == gFdSet \ {fd}

(* The ready descriptors in order: into the work queue, or closed when it   *)
(* is full.                                                                 *)
selectScan ==
    /\ selectPc = "scan" /\ ready # {}
    /\ LET fd == Min(ready)
       IN  /\ ready' = ready \ {fd}
           /\ gFdSet' = Unmonitored(fd)
           /\ IF Len(gWorkQueue) < RingSize
              THEN gWorkQueue' = Append(gWorkQueue, fd) /\ UNCHANGED socket
              ELSE socket' = [socket EXCEPT ![fd] = "closed"] /\ UNCHANGED gWorkQueue
    /\ selectPc' = "notify"
    /\ UNCHANGED <<pipe, gMaxFd, gNumClientConnected, pc>>

selectNotify ==
    /\ selectPc = "notify" /\ WorkMutexFree
    /\ notify_one
    /\ selectPc' = "scan"
    /\ UNCHANGED <<pipe, gFdSet, gMaxFd, ready, gNumClientConnected, gWorkQueue, socket>>

Select ==
    /\ selectLoop \/ selectReturns \/ selectNotifyAll \/ selectScan \/ selectNotify
    /\ UNCHANGED <<signals, mainVars, client, lockVars, fileVars>>

-----------------------------------------------------------------------------
(* The workers: workerThreadFun. *)

At(w, here, there) == pc[w] = here /\ pc' = [pc EXCEPT ![w] = there]

\* The loop ends, or the worker takes a descriptor under gWorkMutex, or finds
\* that there is none.
workerLoop(w) ==
    /\ \/ WorkersStop /\ At(w, "loop", "done") /\ UNCHANGED <<gWorkQueue, client>>
       \/ /\ ~WorkersStop /\ WorkMutexFree /\ gWorkQueue # << >>
          /\ At(w, "loop", "work")
          /\ client' = [client EXCEPT ![w] = Head(gWorkQueue)]
          /\ gWorkQueue' = Tail(gWorkQueue)
       \/ /\ ~WorkersStop /\ WorkMutexFree /\ gWorkQueue = << >>
          /\ At(w, "loop", "beforeWait") /\ UNCHANGED <<gWorkQueue, client>>
    /\ UNCHANGED <<pipe, lockVars, fileVars, socket>>

workerWait(w) ==
    /\ At(w, "beforeWait", "asleep")
    /\ UNCHANGED <<gWorkQueue, client, pipe, lockVars, fileVars, socket>>

\* fd is told that the lock is its own: tryPush, and notify_one as soon as
\* gLockMutex is free.
pushNotification(fd) ==
    /\ LockMutexFree
    /\ gLockQueue' = Append(gLockQueue, fd)
    /\ notifyLockThread
    /\ UNCHANGED lockFd

unlock(fd) ==
    IF holder = fd /\ waiting # << >>
    THEN holder' = Head(waiting) /\ waiting' = Tail(waiting) /\ pushNotification(Head(waiting))
    ELSE /\ holder' = IF holder = fd THEN NoFd ELSE holder
         /\ UNCHANGED <<waiting, lockVars>>

\* The request is read and handled; it has to do with the lock, or not.
workerHandle(w) ==
    LET fd == client[w]
        served == socket' = [socket EXCEPT ![fd] =
                                IF @ = "request" THEN "serving" ELSE "gone"]
    IN  /\ pc[w] = "work" /\ socket[fd] \in {"request", "goneRequest"}
        /\ served
        /\ \/ /\ At(w, "work", "respond")
              /\ \/ UNCHANGED <<fileVars, lockVars>>
                 \/ unlock(fd)
                 \/ /\ holder = NoFd /\ holder' = fd
                    /\ UNCHANGED <<waiting, lockVars>>
              /\ UNCHANGED client
           \/ /\ holder \notin {fd, NoFd}
              /\ waiting' = Append(waiting, fd)
              /\ At(w, "work", "loop") /\ client' = [client EXCEPT ![w] = NoFd]
              /\ UNCHANGED <<holder, lockVars>>
    /\ UNCHANGED <<gWorkQueue, pipe>>

\* (fault: the descriptor is lost on the way)
SetConnection_NoFd(fd) == Msg("SET_CONNECTION", NoFd)

SetConnection(fd) == Msg("SET_CONNECTION", fd)

\* What writing a reply to fd does; a client that is gone does not get it.
replyTo(fd) ==
    /\ socket' = [socket EXCEPT ![fd] = IF @ = "serving" THEN "reply" ELSE @]
    /\ pipe' = Append(pipe, SetConnection(fd))

workerRespond(w) ==
    /\ At(w, "respond", "loop")
    /\ replyTo(client[w])
    /\ client' = [client EXCEPT ![w] = NoFd]
    /\ UNCHANGED <<gWorkQueue, lockVars, fileVars>>

\* End of file: fs_clean unlocks what the session has opened.  A read error
\* (the client left a reply unread: ECONNRESET) cleans nothing.
workerReadNothing(w) ==
    LET fd == client[w]
    IN  /\ At(w, "work", "remove")
        /\ \/ socket[fd] = "gone" /\ unlock(fd)
           \/ socket[fd] = "goneReply" /\ UNCHANGED <<fileVars, lockVars>>
        /\ UNCHANGED <<gWorkQueue, client, pipe, socket>>

workerRemove(w) ==
    /\ At(w, "remove", "loop")
    /\ pipe' = Append(pipe, Msg("REM_CONNECTION", client[w]))
    /\ client' = [client EXCEPT ![w] = NoFd]
    /\ UNCHANGED <<gWorkQueue, lockVars, fileVars, socket>>

Worker(w) ==
    /\ \/ workerLoop(w) \/ workerWait(w) \/ workerHandle(w)
       \/ workerRespond(w) \/ workerReadNothing(w) \/ workerRemove(w)
    /\ UNCHANGED <<signals, mainVars, selectVars, gNumClientConnected>>

-----------------------------------------------------------------------------
(* The lock thread: lockThreadFun. *)

lockThreadLoop ==
    /\ lockPc = "loop"
    /\ \/ LockStops /\ lockPc' = "done" /\ UNCHANGED <<gLockQueue, lockFd>>
       \/ /\ ~LockStops /\ gLockQueue # << >>
          /\ lockPc' = "answer"
          /\ lockFd' = Head(gLockQueue) /\ gLockQueue' = Tail(gLockQueue)
       \/ /\ ~LockStops /\ gLockQueue = << >>
          /\ lockPc' = "beforeWait" /\ UNCHANGED <<gLockQueue, lockFd>>
    /\ UNCHANGED <<pipe, socket>>

lockThreadWait ==
    /\ lockPc = "beforeWait" /\ lockPc' = "asleep"
    /\ UNCHANGED <<gLockQueue, lockFd, pipe, socket>>

lockThreadAnswer ==
    /\ lockPc = "answer" /\ lockPc' = "loop"
    /\ replyTo(lockFd)
    /\ lockFd' = NoFd
    /\ UNCHANGED gLockQueue

LockThread ==
    /\ lockThreadLoop \/ lockThreadWait \/ lockThreadAnswer
    /\ UNCHANGED <<signals, mainVars, selectVars, gNumClientConnected, workVars, fileVars>>

-----------------------------------------------------------------------------
(* The clients and the one who sends the signals. *)

\* A signal reaches the main thread, the others mask it.  The flag is set; if
\* accept is blocked it fails with EINTR, but the signal may also come after
\* the flags were checked and before accept blocks.
signalHandlerCallback ==
    /\ mainPc # "done"
    /\ \E sig \in {"SIGINT", "SIGHUP"} \ signals :
          signals' = signals \cup {sig} /\ signals' \in SignalSets
    /\ \/ mainPc = "accept" /\ mainPc' = "check"
       \/ UNCHANGED mainPc
    /\ UNCHANGED <<newConnFd, pipe, selectVars, gNumClientConnected, workVars,
                   lockVars, fileVars, socket>>

notClient == <<signals, mainVars, pipe, selectVars, gNumClientConnected, workVars,
               lockVars, fileVars>>

Becomes(fd, from, to) == socket[fd] = from /\ socket' = [socket EXCEPT ![fd] = to]

clientSend(fd) == Becomes(fd, "quiet", "request") /\ UNCHANGED notClient
clientRead(fd) == Becomes(fd, "reply", "quiet") /\ UNCHANGED notClient

clientLeave(fd) ==
    /\ \/ Becomes(fd, "quiet", "gone")
       \/ Becomes(fd, "request", "goneRequest")
       \/ Becomes(fd, "serving", "gone")
       \/ Resets /\ Becomes(fd, "reply", "goneReply")
    /\ UNCHANGED notClient

Next ==
    \/ Main
    \/ mainAccept /\ UNCHANGED notMain
    \/ Select
    \/ \E w \in Workers : Worker(w)
    \/ LockThread
    \/ signalHandlerCallback
    \/ \E fd \in Fds : clientSend(fd) \/ clientRead(fd) \/ clientLeave(fd)

(* Every thread goes on while it can.  Clients read the replies to their    *)
(* requests, and disconnect sooner or later: the client program works       *)
(* through the options of one command line.                                 *)
Fairness ==
    /\ WF_vars(Main) /\ WF_vars(Select) /\ WF_vars(LockThread)
    /\ \A w \in Workers : WF_vars(Worker(w))
    /\ \A fd \in Fds : WF_vars(clientRead(fd)) /\ SF_vars(clientLeave(fd))

Spec == Init /\ [][Next]_vars /\ Fairness

-----------------------------------------------------------------------------
(* Every variable has its type. *)
TypeOK ==
    /\ signals \in SignalSets
    /\ mainPc \in {"check", "accept", "announce", "closing", "joinWorkers",
                   "stopLock", "joinLock", "joinSelect", "done"}
    /\ newConnFd \in Fds \cup {NoFd}
    /\ pipe \in Seq(Message)
    /\ selectPc \in {"select", "notifyAll", "scan", "notify", "done"}
    /\ gFdSet \subseteq Fds \cup {PipeRead} /\ gMaxFd \in Nat /\ ready \subseteq Fds
    /\ gNumClientConnected \in Int
    /\ gWorkQueue \in Seq(Fds) /\ Len(gWorkQueue) <= RingSize
    /\ pc \in [Workers -> {"loop", "beforeWait", "asleep", "work", "respond", "remove",
                           "done"}]
    /\ client \in [Workers -> Fds \cup {NoFd}]
    /\ gLockQueue \in Seq(Fds)
    /\ lockPc \in {"loop", "beforeWait", "asleep", "answer", "done"}
    /\ lockFd \in Fds \cup {NoFd}
    /\ holder \in Fds \cup {NoFd} /\ waiting \in Seq(Fds)
    /\ socket \in [Fds -> SocketStates]

\* Where the server keeps descriptor fd.
Places(fd) ==
    {<<"main", 1>> : x \in {y \in {newConnFd} : y = fd}}
    \cup {<<"pipe", i>> : i \in {j \in DOMAIN pipe : pipe[j].fd = fd}}
    \cup {<<"set", 1>> : x \in gFdSet \cap {fd}}
    \cup {<<"queue", i>> : i \in {j \in DOMAIN gWorkQueue : gWorkQueue[j] = fd}}
    \cup {<<"worker", w>> : w \in {v \in Workers : client[v] = fd}}
    \cup {<<"waiting", i>> : i \in {j \in DOMAIN waiting : waiting[j] = fd}}
    \cup {<<"notified", i>> : i \in {j \in DOMAIN gLockQueue : gLockQueue[j] = fd}}
    \cup {<<"lock", 1>> : x \in {y \in {lockFd} : y = fd}}

(* Each open connection is in the hands of exactly one thread or queue, and *)
(* a closed one in nobody's: two workers never serve a client at once, none *)
(* is forgotten, and none is served after its descriptor was closed or      *)
(* given to someone else.                                                   *)
OnePlace == \A fd \in Fds : Cardinality(Places(fd)) = IF Open(fd) THEN 1 ELSE 0

(* select looks at every descriptor of the set, and at the pipe, although   *)
(* gMaxFd shrinks past the descriptors that were ready.                     *)
MonitoredInRange ==
    selectPc # "done" => gFdSet \ ready \subseteq 0..gMaxFd

\* Connections the select thread has not heard of yet.
Announced ==
    {newConnFd} \cup {pipe[i].fd : i \in {j \in DOMAIN pipe : pipe[j].type = "NEW_CONNECTION"}}

(* The counter that SIGHUP waits for is the number of open connections that *)
(* the select thread was told of.                                           *)
CountMatches ==
    gNumClientConnected = Cardinality({fd \in Fds : Open(fd)} \ Announced)

(* A connection in the work queue is not left there by workers that sleep:  *)
(* one of them is awake, or the select thread is about to wake one.         *)
WorkIsTaken ==
    gWorkQueue # << >> =>
        \/ selectPc = "notify"
        \/ \E w \in Workers : pc[w] \notin {"asleep", "beforeWait"}

(* No worker sleeps through the end of the server: once the main thread     *)
(* waits for the workers, one that has reason to stop is awake, or the      *)
(* select thread is about to wake it.                                       *)
NoneSleepsThroughStop ==
    mainPc = "joinWorkers" /\ WorkersStop /\ selectPc # "notifyAll" =>
        \A w \in Workers : pc[w] \notin {"asleep", "beforeWait"}

(* A client that sends a request, or is gone, is noticed and served, unless *)
(* the server is told to stop.                                              *)
EveryoneServed ==
    \A fd \in Fds : Readable(fd) ~> ~Readable(fd) \/ signals # {}

(* SIGHUP costs no client its service: a connection the select thread knew  *)
(* of before is served until the client leaves, and closed, unless SIGINT   *)
(* comes.  One that is accepted but not counted yet has no such promise.    *)
ConnectedAreServed ==
    \A fd \in Fds :
        Open(fd) /\ fd \notin Announced /\ signals = {} ~> ~Open(fd) \/ SigInt

(* Once the main thread has noticed a signal, the workers, the lock thread  *)
(* and the select thread end, and the server with them; but a SIGINT that   *)
(* comes while the main thread waits for the end of a SIGHUP may reach      *)
(* workers that sleep, and a select thread that stops without waking them.  *)
ShutdownCompletes ==
    /\ mainPc = "closing" /\ SigInt ~> mainPc = "done"
    /\ mainPc = "closing" ~> mainPc = "done" \/ (SigHup /\ SigInt)

(* The server stops when it is told to. *)
SignalStopsServer == signals # {} ~> mainPc = "done"
=============================================================================
