# A TLA+ model of the file storage server

`progetto-finale` is a multithreaded server, in C, that keeps a bounded number
of files in memory and lends advisory locks on them to clients that connect over
a UNIX socket. This directory holds TLA+ modules that model its core, TLC
configurations that check them on small instances, and TLAPS proofs of what
holds for every instance. The other directories of the repository
(`test-thread-*`, `test-socket-*`, ...) are exercises in one technique each and
are not part of the server.

Paths below are relative to `src/progetto-finale`.

## 1. The system

| Component | State | Operations | Talks to |
|---|---|---|---|
| In-memory file system, `server/src/file_system.c` | hash table, LRU list, byte and slot counters; in each file the lock's owner and a queue of waiting clients | `fs_insert`, `fs_remove`, `fs_obtain`, `fs_exists`, `fs_obtain_n`, `fs_modify`, `fs_append`, `fs_trylock`, `fs_unlock`, `fs_clean`, all under `gFSMutex` | pushes notifications into `gLockQueue`; logs collisions |
| Ring buffers, `server/src/circ_queue.c` | array, head, tail, size | `tryPush`, `tryPop` under the queue's mutex | work queue, lock queue, each file's waiting clients |
| Client sessions, `server/src/session.c` | for each descriptor the files opened, with their flags | create, destroy, add, remove, `hasOpenedFile`, `canWriteIntoFile`, under a mutex of their own | changed by `handleWork` only |
| Request handling, `handleWork` in `server/src/server.c` | none of its own | one case per request | sessions, then file system, or the reverse: two mutexes, two steps |
| Threads, `server/src/server.c` | pipe, descriptor set, work queue, lock queue, two condition variables, connected-client counter, two signal flags | main accepts and shuts down; select monitors; workers serve; the lock thread answers clients that waited | everything above |
| Logger, `common/include/logger.h` | log file, `gLogMutex` | one line per event; a summary every few seconds | reads the file system's counters |
| Message transfer, `common/src/net.c` | a buffer that grows | `readMessage`, `writeMessage` over `readN`, `writeN` | server and client |
| Client library, `serverapi/src/serverapi.c` | socket, byte counters | `openConnection` with its retries, one function per request: one request and one reply at a time | message transfer |
| Client program, `client/src/client.c` | the options of the command line, the one being handled | parse, then handle each option as calls of the library | client library |
| Huffman coding, `common/src/huffman_encoding.c` | none | compress, decompress; off by default | message transfer |
| Configuration, hashes, identifiers | none that changes after the start | | |

A connection travels through the server: the main thread accepts it and writes
it into a pipe; the select thread monitors it, and moves it into the work queue
as soon as it is readable; a worker takes it, serves one request and hands it
back through the pipe. A client that asks for a lock somebody else holds is not
handed back: its descriptor stays in the file's waiting queue until an unlock, a
removal or an ejection puts a notification into the lock queue; the lock thread
then sends the answer and hands the descriptor back.

What makes this hard, and what must hold:

* **File system**: table, list, counters and locks are updated by hand in ten
  functions, and an insertion or a write may eject other files *with their
  waiting clients*. The four structures must agree; the limits must hold; nobody
  may wait for a lock without an owner; a client must be blocked in one place
  only; each client that stops waiting must be told so, once, and what is true;
  locks are handed over in order of arrival; ejection follows use.
* **Ring buffers**: head equals tail both when full and when empty. They must be
  FIFO queues.
* **Sessions and requests**: the end of a session releases what the session
  *lists*, so every lock must be listed, although lock and list change under
  different mutexes with other workers in between. Those who wait must be
  answered at last.
* **Threads**: each descriptor must be in exactly one place; no request may be
  lost between a queue and a sleeping worker; `select` must look at every
  monitored descriptor although `gMaxFd` shrinks; the counter that SIGHUP waits
  for must count; a shutdown must end.
* **Mutexes**: `gFSMutex` and `gLogMutex` are taken in both orders, and a full
  lock queue is waited for with `gFSMutex` held.
* **Message transfer**: short reads and writes, interrupted calls, the stream
  ending inside a message. The size of a message is computed by one function and
  its bytes are laid out by another; compression estimates its output before it
  writes it. A message must come out whole, and a buffer must be large enough.
* **Client**: a file that was opened must be closed whatever fails in between,
  a line of the log must tell what happened to all requests of a file and count
  their bytes only, and one file's failure must not keep the others from being
  requested.

`PROJECT.json` lists these hazards one by one, each at its line, with the
properties that cover it; where a property leaves the case out, or no run
reaches it, none is named and a note says why.

## 2. The modules

| Module | Models | Built on |
|---|---|---|
| `FileSystem` | the file system | `Sums`; refines `LockService` |
| `LockService` | abstract: files with an owner and a queue of clients, and the answers due to those who waited | |
| `Server` | sessions and `handleWork` | extends `FileSystem` |
| `CircQueue` | the ring buffer | refines `BoundedFifo` |
| `BoundedFifo` | abstract: a bounded FIFO queue whose calls return at once | |
| `Dispatcher` | the threads, their queues, condition variables and signals | uses what `CircQueue` shows: its queues are sequences |
| `LockOrder` | the order in which the server's threads take their mutexes | |
| `Huffman` | compression, as pure functions | |
| `Layout` | the bytes of a message, as pure functions | `Sums` |
| `Messages` | `readMessage` and `writeMessage` over a socket | refines `MessageChannel`; uses `Huffman`, `Layout` |
| `MessageChannel` | abstract: messages come out whole and in order | |
| `Client` | the client program over the client library | |
| `ServerProofs` | theorems about `FileSystem`, `LockService` and `Server` | `SequenceLemmas` |
| `CircQueueProofs`, `DispatcherProofs`, `LockOrderProofs`, `HuffmanProofs`, `MessagesProofs`, `ClientProofs` | theorems about the module of that name | `SequenceLemmas` |
| `SequenceLemmas` | facts about folds and sums, concatenation and removal in sequences | |
| `MCFileSystem`, `MCServer`, `MCCircQueue`, `MCDispatcher`, `MCMessages`, `MCClient`, `MCLockOrder` | constants for TLC | |

Definitions keep the names of the C functions and variables where they model
one. A definition named `X_Something`, before `X` and commented as a fault, is a
plausible wrong version of `X`: it is used to see that the properties notice it
(the list is under `mutants` in `PROJECT.json`).

**FileSystem.** Each `fs_*` function holds `gFSMutex` from its first to its last
line and is one action; its error codes are computed by `...Result` operators,
and calls that fail and change nothing are no actions. Two things are not
atomic: `fs_clean` is a step for each file of the session (`fs_clean_next`),
because the lock thread pops notifications without that mutex, and the lock
thread is an actor (`lockThreadTake`). A file is its name, the length of its
content, its owner and its waiting clients. `updateCacheSize` is the loop of the
code said as "the shortest prefix of the list whose removal is enough", followed
by the code's one further ejection for the slots; that one resets the buffer of
ejected files, as the code does, so only the waiters of its file are told.
`fs_obtain_n` changes nothing: the operator of that name is the set of the
answers it may give, one for each outcome of its random sampling. `qsort` is
defined by ranks and not taken from the library, whose sort is out of the
prover's reach.
`KeyOf` is any function: two names may share a slot of the table, and then the
code takes them for the same file. `NameLen`, the limits and the number of
waiting clients are constants.

A client that waits makes no call (`CanCall`): its worker has let go of the
descriptor. That is an assumption here and a property (`OnePlace`) in
`Dispatcher`.

**LockService.** What `file_system.h` promises of the locks, without names,
sizes, order of use or limits: `Create`, `Take`, `Wait`, `Release`, `Drop`, and
`Answer` for the lock thread. Which files make room for which, and how many may
wait, is left open. `Locks` in `FileSystem` is the refinement mapping: the owner
and the queue of every stored entry, by key.

**Server.** The steps of a request that fall under different mutexes are
different actions: `openFile` then `addFileOpened`, `closeFile` or `removeFile`
then `remFileOpened`, `closeSession` then the steps of `fs_clean` then
`destroySession`. `handling[c]` is what a worker has still to do for client `c`.
The end of the stream, after which the server cleans the session, is
`closeSession` too. A client that ends with a reply unread makes the read fail
instead (`readFails`): the descriptor is closed, `abandoned` here, with its
session as it is. Whoever gets the descriptor next is refused a session, gives
up, and its end of file cleans the old one (`reuse`). `unrecorded` is a history
variable: the locks that a request
took, or began to wait for, without an entry in the session.

**CircQueue.** The array, the two indices and the size as in the code; a popped
item stays in its slot. `Contents` is the refinement mapping.

**Dispatcher.** One program counter per thread. A step ends where another thread
can tell: at a mutex, a wait, a queue, the pipe. The mutex of a condition
variable is not a variable: it is held across steps only by a thread that found
its queue empty and is not waiting yet (`pc = "beforeWait"`), and whoever
notifies needs it free. `select` handles one message of the pipe per return,
then goes through the ready descriptors in order. Signals reach the main thread
only and may come at any time, between the test of the flags and `accept` too.
What a request does is reduced to one lock: take it, free it, wait for it, or
neither. A connection (`socket`) is what both ends can see of it: a client that
leaves a reply unread makes the server's next read fail instead of returning
0 bytes, and the code takes another path then.

**LockOrder.** A thread is the list of mutexes it has still to take and give
back, of notifications to push and pop; each action takes the first step off the
list. The lists are those of the calls that do more than take `gFSMutex`: an
insertion that finds its slot taken and logs it, a release, a removal that
several clients wait for, each followed by the line `log_into_file` writes. The
lines of `LOG_VERB`, `DEBUG_LOG`'s among them, lock the log at level 5 only.

**Huffman, Layout.** The encoder's tree is numbered as the code's array is, so
that `TakeLowest` can prefer a leaf to a merged root of its value; the decoder
reads the tree back from the bits, and `LastBit` stands for its three loops.
Equal frequencies stay in byte order (`qsort` may order them otherwise, which
changes codes and not lengths). `decompress_data` reads the four bytes of the
size in one expression (`huffman_encoding.c:333-337`), whose order of evaluation
C leaves open; the model has the order that is written. `Layout` is the header,
the lengths and offsets, and the raw bytes, to and from a sequence of bytes; the
numbers in a message are smaller than 2^31.

**Messages.** One direction of a connection, with messages that may follow one
another at once: more than the program does, which waits for each reply. Each
`read` and `write` moves all it can or fewer bytes, is interrupted, or finds the
other end gone. `compress` chooses the build (`COMPRESS_MESSAGES`).

**Client.** A call of the library, request and reply, is one step with seven
outcomes, among them the reply that was never filled in: `readMessage` returns
-1 in a `size_t`, which the test for an error (`serverapi.c:420` and the like)
lets pass. The two counters are `size_t`s and wrap (`SIZE_MAX`), and that -1 is
added to one of them like a length (`serverapi.c:162-166`, `420-424`). `opened` is
what the server has open for the session, `history` what really happened. An argument is a record of its letter, the names it lists and
its number. What an argument without a letter does when no option precedes it
(`client.c:331` reads before the array) is left out: nothing happens.

## 3. The runs

| Run | Instance | Distinct states | What it shows |
|---|---|---|---|
| `FileSystem` | 3 clients, 4 names of which 2 collide, 2 slots, 5 bytes, 2 may wait, 1 append | 220 857 | the seven invariants, three action properties and the refinement below |
| `FileSystemAppend` | 1 client, 2 names, 2 appends | | *violated*: the byte counter is exact |
| `CircQueue` | 3 items, 3 slots | 703 | the ring is a FIFO queue |
| `Server` | 2 clients, 2 files, sessions of 1 file, either client may be lost | 603 904 | every lock is recorded but for two ways to get one; a waiter is served once |
| `ServerLive` | 3 clients, of which 1 may be lost, 1 file | 140 023 | every waiter is answered |
| `ServerLock` | as `ServerLive` | | *violated*: locks are held only on open files |
| `Dispatcher` | 2 workers, 2 connections, SIGHUP, clients may leave replies unread | 1 780 644 | the six invariants below |
| `DispatcherLive` | 2 workers, 1 connection, SIGINT and SIGHUP in any order | 97 815 | requests are served, SIGHUP costs no counted client its service, shutdowns end |
| `DispatcherSignal` | 1 worker, 1 connection | | *violated*: a signal stops the server |
| `Messages` | 10 messages in 6 scripts, both builds, socket of 70 bytes, 2 faults | 41 926 | messages arrive whole and in order, nobody waits for an end that left |
| `Client` | 40 command lines of up to 4 arguments, 2 files, room for 3 options | 568 220 | files are closed, lines are true, files are requested, the program ends |
| `LockOrder` | 2 workers, the lock thread, default log level | | *violated*: no threads wait for each other in a circle |

*FileSystem.* `ListMatchesTable`: the list links exactly the stored files and
the slot counter is their number. `CountedWithinLimits`: limits hold between
calls; `fs_remove` relies on it, since an ejection there would write through
NULL. `WaitersHaveOwner`, `BlockedOnce`: the discipline of the locks.
`ExactUntilAppend`: without appends the byte counter is exact and the stored
bytes are within the limit. `WaitersAnswered`: who stops waiting is told so in
that step, once, with the right code. `HandOffInOrder`: a held lock passes only
to the client that waited longest. `EjectsLeastRecent`: ejection follows use and
never hits the file the call is about while the counter is exact.
`ReadsAsManyAsAsked`: whatever is drawn, `fs_obtain_n` returns that many
different stored files, or all of them. `ImplementsLockService`: through all of
it, ejections of waiting clients' files included, the locks are those of
`LockService`.

*Server.* `OwnerRecorded`, `WaiterServedOnce` and `EveryWaiterAnswered`. The last
one is about runs in which every lock is recorded and nobody waits with a lock in
hand (`Orderly`): two clients that each hold the lock the other wants wait
forever, and the server promises nothing about them; a lock without a record may
never be released. It also takes for granted that a descriptor whose read failed
is used again, since nothing else gives its locks back.

*Dispatcher.* `OnePlace`: each open connection is in the hands of exactly one
thread or queue, and a closed one in nobody's. `MonitoredInRange`: everything
monitored is below `gMaxFd`. `CountMatches`: the counter. `WorkIsTaken` and
`NoneSleepsThroughStop`: no wake-up is lost, although the select thread pushes
work without the workers' mutex. `EveryoneServed`: a request is noticed and
served. `ConnectedAreServed`: after SIGHUP a connection that had been counted is
served until the client leaves; one that was accepted and not counted yet has no
such promise (section 4). `ShutdownCompletes`: a shutdown ends, but for a SIGINT
that comes while the main thread already waits for the end of a SIGHUP.

*Messages.* `Aligned`: a size is read where a size was written, however the
calls are cut. `EndAfterLastMessage`: the end is not reported while a complete
message is still unread. `BuffersFit`: `calcMsgSize` and the compressor's
estimate are what is written. `FifoDelivery`: the connection implements
`MessageChannel`, which includes that parsing undoes layout and decompression
undoes compression. `EveryMessageArrives`, `NobodyWaitsAlone`: liveness.

*Client.* `OpenedIsClosed`: between two files the server has nothing open for the
client, but for what `-l` leaves open on purpose and for a file of `-w` whose
open was done and reported as failed because the files it sent back could not be
saved. `HonestReports`: a line that says SUCCEEDED is about requests that were
all acknowledged, or one of whose replies was never filled in; the line of `-w`
says it whatever became of its files. `CountsOfLine`: the counters of a line are
of its own requests and replies, in bytes; the first one also has the reply of
`openConnection`, whose request is not counted. A line behind a read that failed
reports one byte less than came back, or 2^64 - 1 when nothing did, and the
property says so. `EveryFileRequested`: no file is
passed over because another failed. It has to except `-r`, `-l`, `-u` and `-c`
without `-p`: `if (!gIsExtendedLogEnabled) break;` (`client.c:603`, `633`, `664`,
`694`) leaves the loop over the files as well, so only the first one is
requested, against the usage text (`client.c:93`, `99-101`: a list of files).
`Terminates`: the program ends, even with no server there.

**Bounds.** Three clients are an owner and two that wait for it, the least that
has an order of arrival. Two slots and four names make every insertion beyond
the second eject something; 5 bytes with contents of 3 make a write eject for
bytes with the slots free, and an insertion eject for both at once. `fd` has a
longer name than the one it collides with, so that a write under a
collision changes the size of a name. `MaxOpened` bounds a session; with 1
in `Server` a second file already finds the session full. Sessions of two files
are not in that instance (with `MaxOpened = 2` the same properties hold in
3 354 066 states, but then no session is ever full). In `CircQueue` three slots
hold a queue that is full, empty and neither at every position of the indices.
In `Dispatcher` two workers are one that sleeps and one that works, two
connections let one be closed and its descriptor reused while the other waits.
In `Messages` the scripts have every layout, empty and repetitive contents, and
compressed lengths that end at each bit of the last byte; 70 bytes of room make
the longer ones block, cuts of 1 and 7 bytes end inside the size, the header and
the body. A message with all 256 bytes, and with it the largest dictionary, is
too slow to evaluate. In `Client` two files are one that fails and one that
comes after it, messages of 2 and 3 bytes (`Sizes`) tell a missing, a doubled and a
foreign one apart and 63 (`SIZE_MAX`) is more than any line can count, so that
only the -1 wraps, a pause of 2 in a limit of 3 is one retry that fits and one that
runs past it, and three options leave a fourth argument without room.
`MaxAppends` bounds what would otherwise grow without end, `SignalSets` and
`Resets` what the environment may do. Symmetry is used only in runs without
liveness properties.

**Fairness.** `FileSystem` and `CircQueue` assume none. In `Server` a worker
finishes a request it began, `fs_clean` its loop, and the lock thread takes its
notifications: each of them is a running thread that nothing blocks forever
there. A client closes its session sooner or later: the client program works
through the options of a command line and then disconnects (`client/src/client.c`),
and the end of a process closes its socket in any case. That is strong fairness,
because a session can be closed only between two requests. In `Dispatcher` each
thread goes on while it can (weak fairness; a step that needs a mutex finds it
free again, because whoever holds it only has to begin to wait), clients read
their replies and, in the end, leave. There is no fairness for new connections,
requests or signals. In `Messages` the calls on a socket that can move something
do: the system does not leave a `read` waiting with bytes there. Nothing makes a
writer begin or an end leave. In `Client` the program goes on while it can, and
each call of the library returns: the server answers or the connection ends. A
wait for a lock that nobody gives back is outside that assumption;
`EveryWaiterAnswered` says when the server gives it back.

## 4. What the violated runs show

* `fs_append` (`file_system.c:426-436`) adds the request's size, *name included*,
  and subtracts the content's length *after* the append: the counter loses
  the old content and gains a name with each append.
* `openFile` with `FLAG_LOCK` alone on a file locked by another ends the handler
  at `FS_CLIENT_WAITING_ON_LOCK` (`server.c:771`). The lock granted later is for
  a file the session does not list, and the end of the session leaves it held.
* `runServer` tests the flags and then blocks in `accept` (`server.c:158-160`):
  a signal in between waits for the next client.
* `fs_insert` logs that it found its slot taken (`file_system.c:155`) with
  `gFSMutex` held, and `log_into_file` (`server.c:1147-1154`) takes `gFSMutex`
  with `gLogMutex` held: two workers, one creating a file that exists and one
  logging any request, can stop the whole server. At log level 2 the line is not
  written; what is left then is a full lock queue (`QueueRoom = 3` shows it with
  two workers): the worker that pushes spins with `gFSMutex` held
  (`file_system.c:213`, `554`) and the lock thread, which alone makes room, waits
  for that mutex to write its line. At level 5 the lock thread also logs that it
  waits with `gLockMutex` held (`server.c:610`). There is no other kind of circle,
  at any level and for any number of workers (`CirclesCloseAtALogOrAPush`,
  section 5).

Seven more, for which there is no run of their own:

* A client lost with a reply unread leaves its session and its locks
  (`server.c:412-418`); the next client with that descriptor is refused a session
  (`SESSION_ALREADY_EXIST`), and only its end of file releases them. Without
  `[]<>(abandoned = {})`, `EveryWaiterAnswered` fails when `Losable` is not empty.
* A connection closed because the work queue is full (`server.c:561-565`) is
  never taken off `gNumClientConnected`, and after SIGHUP the workers wait for
  it: `CountMatches` of `Dispatcher.cfg` fails when `RingSize` is 1.
* A connection that is accepted and not yet counted when SIGHUP comes is not
  waited for (`server.c:381`, `519`): the workers may leave with the client
  connected. Without `fd \notin Announced`, `ConnectedAreServed` fails.
* After SIGHUP the main thread wakes the workers once and joins them. When SIGINT
  comes then, with a client still connected, the select thread ends at the head of
  its loop (`server.c:476`) without waking anybody: workers that sleep on
  `gWorkCond` sleep on, and the server never ends. Without its exception
  `ShutdownCompletes` fails.
* The loops that stop after the first file without `-p`, above: without the
  exception `EveryFileRequested` fails.
* A read that fails is counted as -1 (`serverapi.c:162-166`, `420-424`): the line
  of the log is one byte short, or reports 2^64 - 1 bytes. Without its last
  disjunction, `line.r = line.h.answered` for every line, `CountsOfLine` fails.
* The same reply is looked for in a message that was never filled in, and the line
  may say SUCCEEDED: without `line.h.garbage`, `HonestReports` fails.

## 5. What is proved

TLAPS checks the following for every value of the constants that satisfies the
named assumptions (`ConstantsAssumption`, `LosableAssumption`,
`CapacityAssumption`, `ClientAssumption`, `DescriptorsAssumption`,
`MessagesAssumption`): any set of clients, any names, any hash function, any
limits, any number of workers but none, any command lines, any messages. A
theorem that needs more says so in its `ASSUME`; these hypotheses are given
below with what justifies them.

### The file system

The first parts of `ServerProofs` are about `FileSystem` and its `Spec`, whatever
is built on it. `TypeCorrect`, `ListAgreesWithTable`, `LimitsKept`,
`NoOrphanWaiters` and `BlockedInOnePlace` are the invariants of the same meaning
of section 3. None is inductive alone. The inductive invariant `IInv` is their
conjunction: a client is kept from waiting twice only by where it is blocked now
(`BlockedOnce`); handing a lock over keeps each waiter apart from the owner only
because it waits in one place; the slot limit follows only if the list is as
long as the slot counter says; and the ejected files' waiters can all be
notified without telling anyone twice only if the list has no repetition. The
proof has one lemma per action (`InsertKeeps`, `ModifyKeeps`, ...); the three
that may eject rest on one lemma about `updateCacheSize`, `EjectKeeps`. `IInv`
is what the run `FileSystem` checks as five invariants.

`CounterExactUntilAppend` (`ExactUntilAppend`) is inductive as `Exact`, on top of
`IInv`: the counter is the sum of the stored sizes. That sum is a fold over the
table in no particular order; `StoredIs` turns it into the sum along the list,
which `updateCacheSize` walks, and from there on an ejection takes off a prefix
(`EjectExact`). `EjectionFollowsUse` (`EjectsLeastRecent`) is an action property:
`moveToTop` leaves the order of the others (`MoveToTopOrder`) and puts the file
of the call where no prefix that is short enough reaches it. "Short enough" needs
`NamesFit`: no name is longer than the whole limit. `fs_insert`, unlike
`fs_modify`, does not test for that; the limit is a positive number of megabytes
(`loader.h:195`) and a name is a path, so every configuration the loader accepts
satisfies it. `ReadsWhatIsAsked` (`ReadsAsManyAsAsked`) follows from `IInv`
alone: each draw of the reservoir puts in a position larger than all before it
(`ReservoirsAre`), sorting makes them ascending (`QsortIs`), and the walk along
the list then meets every one of them (`FilesAtIs`).

`LocksAreServed` is the refinement `ImplementsLockService`.
One lemma per action maps a step of the file system to a step of `LockService`
or to a step that changes no lock. `IInv` is needed three times: the waiters of
all ejected files are told because, with the slots within their limit before,
the loop over the bytes and the further ejection for the slots never happen in
one step; a new owner is a client because the queues hold clients; and an answer
that is taken is gone because each client has at most one. `LocksPassInOrder` and
`WaitersAreAnswered` are `HandOffInOrder` and `WaitersAnswered`, and are obtained
from the refinement: each step of `LockService` either leaves a queue alone,
lengthens it, passes its file to the head, or drops the file and answers all.

### The server

The last part of `ServerProofs` is about `ServerSpec`: `ServerUsesFileSystem` says that every behaviour of the server is,
seen from the file system, a behaviour of `FileSystem`: with it everything above
is true in the server too, with its sessions, lost clients and reused
descriptors, and `ServerServesLocks` is the refinement of `LockService` by the
whole. It needs an invariant, since a worker may call only for a client that does
not wait. That invariant, `SrvInv` (`SrvInvHolds`), has for each client the
promise of `OwnerRecorded` and of `WaiterServedOnce`, and says of those who *wait*
for a lock what `OwnerRecorded` says of those who hold one: a lock changes hands
in a step of its former owner, so whoever waits must already have the record, or
the exception, that it will need as an owner. What another client's step may do
to it comes from the refinement and not from ten actions (`OnlyGains`: who did
not wait and does not call gains nothing). `ServerTypes`, `LocksAreRecorded` and
`WaitersServedOnce` are `ServerTypeOK`, `OwnerRecorded` and `WaiterServedOnce`.

`DispatcherProofs`: `TypeCorrect`, `SelectLooksAtAll` (`MonitoredInRange`) and
`NoWorkForSleepers` (`WorkIsTaken`). `gMaxFd` shrinks past descriptors that were
ready, down to the largest number that is not ready, so the read end of the pipe,
when it is ready itself, stays in range only because the write end is above it
and is never monitored: from the first connection on `gMaxFd` is at least the
write end's number (`Reached`). `ScannedFirst` says that nothing is left of the
last scan when select is called, `InHand` that what a thread has in hand is a
connection's descriptor. `WorkIsTaken` is inductive with the types: a worker goes
to sleep only on an empty queue, under the mutex, and what fills the queue wakes
one, which takes at least one worker.

`OneOwnerPerConnection` (`OnePlace`) counts for each descriptor the places it is
in. Its invariant `PInv` says that the boxes exclude each other and that none
holds a descriptor twice. A worker that is about to close a connection has it
still; and a step that takes a descriptor out of one box puts it into one
other. `CounterIsExact`
(`CountMatches`) is proved from how far off the counter is: `Lost` changes only
where the select thread closes a connection because the work queue is full, and
with `RoomForAll`, a queue with room for every descriptor, that never happens.
The queue has 64 places (`server.c:24`), so the hypothesis holds of a server with
no more connections than that; the code promises nothing beyond (section 4), and
that is why this is a hypothesis and not an assumption of the module. The run
`Dispatcher` satisfies it. `WorkersWakeToStop` (`NoneSleepsThroughStop`) has two
hypotheses: descriptors are finitely many, and no second signal comes during a
shutdown (`OneSignalAtMost`), without which it is false (section 4). It holds for
any size of the queue: the counter is at worst too high (`NotTooLow`), so the
workers' reason to stop cannot come from counting a connection in, but only from
a signal, after which the main thread wakes them, or from counting one off, after
which the select thread does.

`CircQueueProofs`: `TypeCorrect`, `RunHolds` (the types and `RunOfItems`) and
`QueueIsFifo`, the refinement: from the inductive invariant `TypeOK /\ RunOfItems`
every push and pop is a step of `BoundedFifo`, for any capacity.

### The order of the mutexes

`LockOrderProofs`: `CirclesCloseAtALogOrAPush` says which circles of waiting
threads there can be, at every log level, for any number of workers and any room
in the lock queue: in each of them a thread waits for `gLogMutex` while it has
`gFSMutex` (from level 3 on, what the run `LockOrder` finds; the server as built
sets 4 or 5) or `gLockMutex` (at level 5), or a thread that pushes waits for room
in the full queue. Whoever moves those lines out of the mutexes, and the push,
has no deadlock left among the four: all else is taken in one order,
`gNumClientMutex`, `gLogMutex`, `gFSMutex`, `gLockMutex`. What a thread may take
under what it has is `TakenUnder`, that order and the lines of the level
(`LogsUnder`). That a thread's steps keep to it is put together from its calls
(`UnderAbove`, `BalancedConcat`); the invariant `LInv` says that what a thread has
is what its steps still give back; and since each thread of a circle without the
two would wait for a mutex of a higher rank than the one it has, four ranks are
too few (`NoRing`).

### Messages and client

`MessagesProofs`: `MessagesComeBack` and `SizeIsExact` are about the functions:
what `MessageOf` reads from `MessageBytes(m)` is `m`, and `calcMsgSize(m)` is
their number, for every message the program makes (`IsMessage`: numbers up to
`MaxNumber`, lengths that add up to less). Both rest on where the heads, names and
contents stand in a concatenation (`StandsAt` in `SequenceLemmas`) and on
numbers coming back from their bytes. The rest is about the transfer: the stream
is the packets one after another (`Streamed`), the writer is inside its packet
(`Writing`), and the reader is at the place of a packet that its state says
(`Reading`). From that come `TransferTypes`, `ReaderIsAligned` (`Aligned`),
`EndComesLast` (`EndAfterLastMessage`) and `TransferIsFifo`, the refinement
`FifoDelivery`, with and without compression: that the decoder gives back what
the encoder took is `CompressionLosesNothing`, which follows from `HuffmanProofs`
and from the size of a message, at most `MaxNumber` bytes with all its heads
(`MessageSize`, `MessageFits`). `BuffersAreLargeEnough` (`BuffersFit`) puts
`SizeIsExact` and the compressor's estimate together.

`HuffmanProofs`: `EstimateIsExact` says that the size `compress_data` computes
before it writes is the number of bits it writes, and `CompressionIsLossless`
that `decompress_data` gives back what was compressed, for all data but none of
less than 2^31 bytes (`SizeLimit`). The header has four bytes for the size, but
the code reads it back as an `int` (`huffman_encoding.c:333-337`) and counts the
data and the frequencies in `int`s (lines 50, 91, 196, 269): from 2^31 on it does
something else, and `Huffman`, whose numbers have no width, does not stand for it.
Bits and bytes come back from each other (`ByteComesBack`, `BitsComeBack`). The
dictionary has every byte of the data (`DictionaryIs`). The merging is followed
step by step until one root is left: each node is the son of exactly one other,
of a higher number (`TreeIs`, `TreeOfIs`), so that what holds of the leaves and
of a node whose sons it holds of holds of all nodes (`TreeInduction`); this is
stated for a set of nodes, since no lemma can be stated for a predicate. The same
order gives the recursive definitions over the tree their equations
(`TreeRecursion`). The bits of the tree are its nodes in preorder (`PreorderIs`,
`NodesAre`), and `ReadTree`, which sees only bits, finds the k-th of them with
its sons where they are (`DecodesAll`, `NextIs`, `ReadTreeIs`). From its root the
code of a leaf leads to that leaf and no further (`CodeWalk`), so the codes of
the content are read one after the other up to the last bit (`ContentRead`), which
the padding in the header marks (`PaddingIs`). The estimate counts the bits of
the same preorder, and of the codes.

`ClientProofs`: `TypeCorrect`, `LinesAreHonest` (`HonestReports`) and
`LinesCountTheirOwn` (`CountsOfLine`). Both are about a line already written;
what makes them inductive is what holds of the file in hand before its line is
written. `Counted` says that the counters are those of the current file's
requests (after a read that failed one less, modulo `SIZE_MAX + 1`: `CallCounts`
says it of one call, and that there is at most one such read before a line,
since the connection is closed from then on), which needs that every line resets them and that, without `-p`, no line
is written at all; `Judged` that a good status has acknowledged requests behind
it, which needs that the history is fresh whenever a file begins; and `Placed`
and `Untouched` say where in its options the program is, so that the first
request of a file is known to be the first. `OpenFilesAreClosed`
(`OpenedIsClosed`) adds that whatever is open in the middle of a file is the file
in hand, with its closing call still to come (`OpenedOK`); `FilesAreRequested`
(`EveryFileRequested`) that every place before the current one was requested or is
one of the exceptions (`Asked`).

### The lemmas

`SequenceLemmas` has what the library does not say of `FlattenSeq`, of prefix
sums, of removing a position, and of the folds of the community modules. Their
definitions by recursion are recursive functions or `CHOOSE` one, so each
defining equation is derived there from an existence argument (`RecursionExists`,
`FoldExists`, `FoldLeftExists`), and each lemma takes the steps as a function
instead of an operator.

### Only model-checked

All liveness (`EveryWaiterAnswered`, `EveryoneServed`, `ConnectedAreServed`,
`ShutdownCompletes`, `EveryMessageArrives`, `NobodyWaitsAlone`, `Terminates`),
which is out of the prover's reach, and the four violated runs. Of these
`LockOrder` has a theorem about all the circles there can be.

## 6. What is not modelled

* The options' text: how a value is split at commas and how numbers are parsed,
  `parse_positive_integer` included; the walk through a directory.
* Reading and writing of local files, `mem_malloc` and its ends of the program.
* The letters of the log: `50 | flags` (`server.c:1107`) is 50 for a file opened
  with no flag and for one opened with `FLAG_LOCK`, so both are written alike.
* Wording of the log, configuration file, command line, memory management.

## 7. Plan

Done, most important first: `FileSystem` with its proofs, its refinement of
`LockService` and the proof of that; `CircQueue` with its refinement and proofs;
`Server`, `Dispatcher`, `Client` and `Messages` with theirs; `Huffman` with its
proofs; `LockOrder` with the theorem of what a circle needs.

Next, in this order:

1. `Dispatcher` with the two queues' bounds as in the code, so that a full lock
   queue and the mutexes of `LockOrder` meet the threads in one module.
2. The walk of `-w` through a directory, as a tree of files and directories.
