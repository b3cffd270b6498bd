------------------------------ MODULE Server ------------------------------
(***************************************************************************)
(* The requests of the clients as the workers handle them                  *)
(* (handleWork in progetto-finale/server/src/server.c) on top of the       *)
(* sessions (session.c) and the file system (FileSystem).                  *)
(*                                                                         *)
(* A request that touches both the file system and the session does it in  *)
(* two steps, each under its own mutex, and other workers run in between:  *)
(* handling[c] is the step a worker still has to take for client c.  The   *)
(* checks of c's session before the first step are part of it, because     *)
(* only the worker that serves c touches c's session.                      *)
(*                                                                         *)
(* Requests that fail and change nothing are left out.  A session lists    *)
(* files by the full hash of their name, here the name itself; the file    *)
(* system reduces it to a slot of its table (KeyOf).                       *)
(***************************************************************************)
EXTENDS FileSystem

CONSTANT Losable    \* bound: the descriptors whose client may be lost

ASSUME LosableAssumption == Losable \subseteq Clients

VARIABLES
    sessions,   \* gSessionTable
    handling,   \* what is left of the request of each client
    abandoned,  \* the descriptors closed after a failed read
    unrecorded  \* (history) locks a request left without a session entry

serverVars == <<sessions, handling, abandoned, unrecorded>>
allVars == <<vars, serverVars>>

CREATE == "FLAG_CREATE"
LOCK == "FLAG_LOCK"

Opened == [name : Names, flags : SUBSET {CREATE, LOCK}]
Session == [isValid : BOOLEAN, files : Seq(Opened)]
NoSession == [isValid |-> FALSE, files |-> << >>]

Nothing == [todo |-> "nothing"]
Step == {Nothing, [todo |-> "destroySession"]}
        \cup [todo : {"addFileOpened"}, file : Opened]
        \cup [todo : {"remFileOpened"}, name : Names]

ServerInit ==
    /\ Init
    /\ sessions = [c \in Clients |-> NoSession]
    /\ handling = [c \in Clients |-> Nothing]
    /\ abandoned = {} /\ unrecorded = {}

-----------------------------------------------------------------------------
HasOpened(c, n) == \E i \in DOMAIN sessions[c].files : sessions[c].files[i].name = n

\* canWriteIntoFile compares the flags the file was opened with, no more.
CanWrite(c, n) ==
    \E i \in DOMAIN sessions[c].files :
        sessions[c].files[i] = [name |-> n, flags |-> {CREATE, LOCK}]

\* The server reads a request of c: it answered the one before.
Ready(c) == handling[c] = Nothing /\ ~Waits(c) /\ ~Notified(c) /\ c \notin abandoned
InSession(c) == Ready(c) /\ sessions[c].isValid

Then(c, step) ==
    /\ handling' = [handling EXCEPT ![c] = step]
    /\ UNCHANGED <<sessions, abandoned>>

(* MSG_REQ_OPEN_SESSION: createSession. *)
openSession(c) ==
    /\ Ready(c)
    /\ ~sessions[c].isValid
    /\ sessions' = [sessions EXCEPT ![c] = [isValid |-> TRUE, files |-> << >>]]
    /\ UNCHANGED <<vars, handling, abandoned, unrecorded>>

\* (fault: the session is destroyed and its locks stay)
FilesToClean_None(c) == << >>

\* What fs_clean goes through: the slots of the files c has opened.
FilesToClean(c) ==
    [i \in DOMAIN sessions[c].files |-> KeyOf[sessions[c].files[i].name]]

(* MSG_REQ_CLOSE_SESSION, and the end of file a worker reads when the      *)
(* client is gone: unlock what the session lists, then forget it.          *)
closeSession(c) ==
    /\ InSession(c)
    /\ fs_clean(c, FilesToClean(c))
    /\ Then(c, [todo |-> "destroySession"])
    /\ UNCHANGED unrecorded

destroySession(c) ==
    /\ handling[c].todo = "destroySession"
    /\ \A i \in DOMAIN toClean : toClean[i].client # c
    /\ sessions' = [sessions EXCEPT ![c] = NoSession]
    /\ handling' = [handling EXCEPT ![c] = Nothing]
    /\ UNCHANGED <<vars, abandoned, unrecorded>>

(* A client ends with a reply unread: the worker's read fails instead of   *)
(* returning 0, and the descriptor is closed with the session as it is.    *)
readFails(c) ==
    /\ c \in Losable /\ InSession(c)
    /\ abandoned' = abandoned \cup {c}
    /\ UNCHANGED <<vars, sessions, handling, unrecorded>>

(* The next client that gets the descriptor: its MSG_REQ_OPEN_SESSION is   *)
(* refused (SESSION_ALREADY_EXIST), it gives up, and the end of file makes *)
(* a worker clean the session of the client before.                        *)
reuse(c) ==
    /\ c \in abandoned
    /\ fs_clean(c, FilesToClean(c))
    /\ handling' = [handling EXCEPT ![c] = [todo |-> "destroySession"]]
    /\ abandoned' = abandoned \ {c}
    /\ UNCHANGED <<sessions, unrecorded>>

\* (fault: waiting for the lock is taken for having it)
MustWait_Never(c, n, flags) == FALSE

MustWait(c, n, flags) == flags = {LOCK} /\ TryLockResult(c, n) = WAITING_ON_LOCK

(* MSG_REQ_OPEN_FILE: create the file, lock it, or see that it exists.     *)
(* When the client has to wait the handler ends: the lock it is given      *)
(* later belongs to a file that its session does not list.                 *)
openFile(c, n, flags) ==
    /\ InSession(c)
    /\ ~HasOpened(c, n)
    /\ \/ CREATE \in flags /\ fs_insert(c, n, LOCK \in flags)
       \/ CREATE \notin flags /\ LOCK \in flags /\ fs_trylock(c, n)
       \/ flags = {} /\ fs_obtain(c, n)
    /\ IF MustWait(c, n, flags)
       THEN /\ unrecorded' = unrecorded \cup {<<c, KeyOf[n]>>}
            /\ UNCHANGED <<sessions, handling, abandoned>>
       ELSE /\ Then(c, [todo |-> "addFileOpened", file |-> [name |-> n, flags |-> flags]])
            /\ UNCHANGED unrecorded

\* (fault: an entry more than the arrays have)
SessionFull_Late(c) == Len(sessions[c].files) > MaxOpened

SessionFull(c) == Len(sessions[c].files) >= MaxOpened

(* The second step of openFile.  A full session refuses the file, and what *)
(* the first step did stays done.                                          *)
addFileOpened(c) ==
    /\ handling[c].todo = "addFileOpened"
    /\ LET file == handling[c].file
       IN  IF SessionFull(c)
           THEN /\ unrecorded' = IF LOCK \in file.flags
                                 THEN unrecorded \cup {<<c, KeyOf[file.name]>>}
                                 ELSE unrecorded
                /\ UNCHANGED sessions
           ELSE /\ sessions' = [sessions EXCEPT ![c].files = Append(@, file)]
                /\ unrecorded' = unrecorded \ {<<c, KeyOf[file.name]>>}
    /\ handling' = [handling EXCEPT ![c] = Nothing]
    /\ UNCHANGED <<vars, abandoned>>

(* MSG_REQ_CLOSE_FILE: unlock the file if c holds it. *)
closeFile(c, n) ==
    /\ InSession(c)
    /\ HasOpened(c, n)
    /\ \/ fs_unlock(c, n)
       \/ MutexFree /\ UnlockResult(c, KeyOf[n]) # OK /\ UNCHANGED vars
    /\ Then(c, [todo |-> "remFileOpened", name |-> n])
    /\ UNCHANGED unrecorded

(* MSG_REQ_REMOVE_FILE: the session forgets the file even if fs_remove     *)
(* refuses to remove it.                                                   *)
removeFile(c, n) ==
    /\ InSession(c)
    /\ HasOpened(c, n)
    /\ \/ fs_remove(c, n)
       \/ MutexFree /\ RemoveResult(c, n) # OK /\ UNCHANGED vars
    /\ Then(c, [todo |-> "remFileOpened", name |-> n])
    /\ UNCHANGED unrecorded

\* The entries after the first one of file n move left over it.
WithoutFile(files, n) == RemoveFirstMatch(files, LAMBDA f : f.name = n)

(* The second step of closeFile and removeFile. *)
remFileOpened(c) ==
    /\ handling[c].todo = "remFileOpened"
    /\ sessions' = [sessions EXCEPT ![c].files = WithoutFile(@, handling[c].name)]
    /\ handling' = [handling EXCEPT ![c] = Nothing]
    /\ UNCHANGED <<vars, abandoned, unrecorded>>

(* The requests that only the file system handles, on an open file. *)
fileRequest(c, n) ==
    /\ InSession(c)
    /\ \/ CanWrite(c, n) /\ \E len \in WriteLens : fs_modify(c, n, len)
       \/ HasOpened(c, n) /\ \E len \in AppendLens : fs_append(c, n, len)
       \/ HasOpened(c, n) /\ fs_obtain(c, n)
       \/ HasOpened(c, n) /\ fs_trylock(c, n)
       \/ HasOpened(c, n) /\ fs_unlock(c, n)
    /\ UNCHANGED serverVars

\* A worker goes on with the request of c.
Continue(c) == destroySession(c) \/ addFileOpened(c) \/ remFileOpened(c)

Cleaning == fs_clean_next /\ UNCHANGED serverVars

LockThread == lockThreadTake /\ UNCHANGED serverVars

ServerNext ==
    \/ \E c \in Clients :
          \/ openSession(c)
          \/ closeSession(c)
          \/ readFails(c)
          \/ reuse(c)
          \/ Continue(c)
          \/ \E n \in Names :
                \/ \E flags \in SUBSET {CREATE, LOCK} : openFile(c, n, flags)
                \/ closeFile(c, n)
                \/ removeFile(c, n)
                \/ fileRequest(c, n)
    \/ Cleaning
    \/ LockThread

(* A worker finishes what it began, fs_clean its loop, and the lock thread *)
(* takes its notifications.  A client works through the options of one     *)
(* command line and then disconnects (client.c), however often it has to   *)
(* wait in between.                                                        *)
Fairness ==
    /\ WF_allVars(Cleaning) /\ WF_allVars(LockThread)
    /\ \A c \in Clients : WF_allVars(Continue(c)) /\ SF_allVars(closeSession(c))

ServerSpec == ServerInit /\ [][ServerNext]_allVars /\ Fairness

-----------------------------------------------------------------------------
(* Every variable has its type. *)
ServerTypeOK ==
    /\ TypeOK
    /\ sessions \in [Clients -> Session]
    /\ handling \in [Clients -> Step]
    /\ \A c \in Clients : Len(sessions[c].files) <= MaxOpened
    /\ abandoned \subseteq Losable
    /\ unrecorded \subseteq Clients \X Keys

(* The end of a session releases what the client holds, because its        *)
(* session lists every file it has the lock of, or a worker is about to    *)
(* list it, or just has released the lock.  The exceptions are the two     *)
(* ways to take a lock without a record.                                   *)
Records(c, k) ==
    \/ \E i \in DOMAIN sessions[c].files : KeyOf[sessions[c].files[i].name] = k
    \/ /\ handling[c].todo = "addFileOpened"
       /\ KeyOf[handling[c].file.name] = k

OwnerRecorded ==
    \A k \in DOMAIN table :
        table[k].owner # EmptyOwner =>
            Records(table[k].owner, k) \/ <<table[k].owner, k>> \in unrecorded

(* The same without exceptions: a client holds the lock of a file only     *)
(* while it has the file open.                                             *)
LockHeldOnlyWhileOpen ==
    \A k \in DOMAIN table :
        table[k].owner # EmptyOwner => Records(table[k].owner, k)

(* A client that waits, or that the lock thread is about to answer, is not *)
(* served by a worker at the same time and still has its session: the lock *)
(* it is given is given to somebody.                                       *)
WaiterServedOnce ==
    \A c \in Clients :
        Waits(c) \/ Notified(c) => handling[c] = Nothing /\ sessions[c].isValid

(* Every lock is recorded, and nobody waits with a lock in hand: clients   *)
(* that do can wait for each other, and the server does not prevent it.    *)
Orderly ==
    /\ unrecorded = {}
    /\ \A k \in DOMAIN table : table[k].owner \in Clients => ~Waits(table[k].owner)

(* In an orderly run nobody waits forever: the owner disconnects, and each *)
(* waiter in its turn.  The locks of a client that was lost are given back *)
(* too, but only because its descriptor is used again.                     *)
EveryWaiterAnswered ==
    \A c \in Clients :
        []Orderly /\ []<>(abandoned = {}) => (Waits(c) ~> ~Waits(c))
=============================================================================
