-------------------------- MODULE DispatcherProofs --------------------------
(***************************************************************************)
(* The threads of the server, for any workers, descriptors and signals.    *)
(*                                                                         *)
(* First (IInv): select looks at everything it monitors, and no work is    *)
(* left to workers that sleep.  The range of select shrinks with each      *)
(* return; what keeps it wide enough is the pipe's other end, which is     *)
(* never monitored.  It comes into the range with the first connection,    *)
(* and until then nothing but connections travels through the server       *)
(* (NotYet).                                                               *)
(*                                                                         *)
(* Then (PInv): an open connection is in one place, a closed one in none.  *)
(* Then the counter of connections, which is off by the connections a full *)
(* work queue made the select thread close (Lost), and the end of the      *)
(* workers.                                                                *)
(***************************************************************************)
EXTENDS Dispatcher, SequenceLemmas, FiniteSetTheorems

Busy == {"work", "respond", "remove"}

\* Whoever has something to hand on holds a descriptor.
InHand ==
    /\ mainPc = "announce" => newConnFd \in Fds
    /\ \A w \in Workers : pc[w] \in Busy => client[w] \in Fds
    /\ lockPc = "answer" => lockFd \in Fds

\* No connection has come through the pipe yet.
NotYet ==
    /\ gFdSet = {PipeRead} /\ gMaxFd = PipeRead /\ ready = {}
    /\ gWorkQueue = << >> /\ gLockQueue = << >> /\ waiting = << >>
    /\ lockPc # "answer" /\ \A w \in Workers : pc[w] \notin Busy
    /\ \A i \in DOMAIN pipe : pipe[i].type \in {"NEW_CONNECTION", "EXIT_REQUESTED"}

Reached == selectPc # "done" => NotYet \/ gMaxFd >= PipeWrite

ScannedFirst == selectPc = "select" => ready = {}

IInv == TypeOK /\ InHand /\ ScannedFirst /\ Reached /\ MonitoredInRange /\ WorkIsTaken

-----------------------------------------------------------------------------
\* The highest descriptor that was not ready.
Left(top, inSet) == Max({0} \cup (0 .. top \ inSet))

LEMMA LeftOf ==
    ASSUME NEW top \in Nat, NEW inSet
    PROVE  /\ Left(top, inSet) \in Nat
           /\ \A y \in 0 .. top : y \notin inSet => y <= Left(top, inSet)
<1> DEFINE S == {0} \cup (0 .. top \ inSet)
<1>1. S \in SUBSET (0 .. top) /\ S # {}
    OBVIOUS
<1> HIDE DEF S
<1>2. Max(S) \in S /\ \A y \in S : Max(S) >= y
    BY <1>1, MaxOf
<1>3. \A y \in 0 .. top : y \notin inSet => y \in S
    BY DEF S
<1>4. Left(top, inSet) = Max(S)
    BY DEF Left, S
<1>5. Max(S) \in Nat
  <2>1. PICK m \in S : m = Max(S)
      BY <1>2
  <2>2. m \in 0 .. top
      BY <1>1
  <2> QED
      BY <2>1, <2>2
<1> QED
    BY <1>2, <1>3, <1>4, <1>5

LEMMA RaisedOf ==
    ASSUME gMaxFd \in Nat, NEW fd \in Nat
    PROVE  Raised(fd) \in Nat /\ Raised(fd) >= gMaxFd /\ Raised(fd) >= fd
<1> DEFINE m == IF gMaxFd >= fd THEN gMaxFd ELSE fd
<1>1. m \in {gMaxFd, fd} /\ \A y \in {gMaxFd, fd} : m >= y
    OBVIOUS
<1>2. \A x \in {gMaxFd, fd} : (\A y \in {gMaxFd, fd} : x >= y) => x = m
    OBVIOUS
<1>3. Raised(fd) = m
    BY <1>1, <1>2 DEF Raised, Max
<1> QED
    BY <1>3

-----------------------------------------------------------------------------
LEMMA InitStep == Init => IInv
<1> SUFFICES ASSUME Init PROVE IInv
    OBVIOUS
<1> USE DEF Init
<1>1. TypeOK
  <2>1. gFdSet \subseteq Fds \cup {PipeRead} /\ gMaxFd \in Nat /\ ready \subseteq Fds
      BY DescriptorsAssumption
  <2>2. /\ pipe \in Seq(Message) /\ gWorkQueue \in Seq(Fds) /\ Len(gWorkQueue) <= RingSize
        /\ gLockQueue \in Seq(Fds) /\ waiting \in Seq(Fds)
      BY DescriptorsAssumption
  <2>3. signals \in SignalSets
      BY DescriptorsAssumption
  <2>4. /\ pc \in [Workers -> {"loop", "beforeWait", "asleep", "work", "respond", "remove", "done"}]
        /\ client \in [Workers -> Fds \cup {NoFd}] /\ socket \in [Fds -> SocketStates]
      BY DEF SocketStates
  <2> QED
      BY <2>1, <2>2, <2>3, <2>4 DEF TypeOK
<1>2. InHand /\ ScannedFirst /\ WorkIsTaken
    BY DEF InHand, ScannedFirst, WorkIsTaken, Busy
<1>3. Reached
    BY DEF Reached, NotYet, Busy
<1>4. MonitoredInRange
    BY DescriptorsAssumption DEF MonitoredInRange
<1> QED
    BY <1>1, <1>2, <1>3, <1>4 DEF IInv

\* Nothing that select and its range depend on changes.
LEMMA RangeStays ==
    ASSUME ScannedFirst, Reached, MonitoredInRange,
           UNCHANGED <<selectPc, gFdSet, gMaxFd, ready>>, NotYet => NotYet'
    PROVE  ScannedFirst' /\ Reached' /\ MonitoredInRange'
BY DEF ScannedFirst, Reached, MonitoredInRange

\* Waking workers loses no work.
LEMMA WakeKeeps ==
    ASSUME TypeOK, NEW ws \in SUBSET Asleep, Wake(ws)
    PROVE  /\ pc' \in [Workers -> {"loop", "beforeWait", "asleep", "work", "respond", "remove", "done"}]
           /\ \A w \in Workers : pc'[w] = pc[w] \/ (pc[w] = "asleep" /\ pc'[w] = "loop")
           /\ \A w \in ws : pc'[w] = "loop"
BY DEF TypeOK, Wake, Asleep

LEMMA NobodyWakes ==
    ASSUME TypeOK, UNCHANGED pc
    PROVE  \E ws \in SUBSET Asleep : Wake(ws)
<1>1. pc' = [w \in Workers |-> pc[w]]
    BY DEF TypeOK
<1>2. Wake({})
    BY <1>1 DEF Wake
<1> QED
    BY <1>2

LEMMA NotifyAllWakes ==
    ASSUME notify_all
    PROVE  \E ws \in SUBSET Asleep : Wake(ws)
BY DEF notify_all

LEMMA NotifyOneWakes ==
    ASSUME notify_one
    PROVE  \E ws \in SUBSET Asleep : Wake(ws) /\ (Asleep # {} => ws # {})
<1>1. CASE Asleep = {}
    BY <1>1 DEF notify_one
<1>2. CASE Asleep # {}
  <2>1. PICK w \in Asleep : Wake({w})
      BY <1>2 DEF notify_one
  <2> QED
      BY <2>1
<1> QED
    BY <1>1, <1>2

LEMMA PipeGrows ==
    ASSUME pipe \in Seq(Message), NEW m \in Message, pipe' = Append(pipe, m), NEW T
    PROVE  /\ pipe' \in Seq(Message)
           /\ m.type \in T /\ (\A i \in DOMAIN pipe : pipe[i].type \in T)
              => (\A i \in DOMAIN pipe' : pipe'[i].type \in T)
OBVIOUS

(* The main thread. *)
LEMMA MainStep == ASSUME IInv, Main \/ (mainAccept /\ UNCHANGED notMain) PROVE IInv'
<1> USE DEF IInv
<1>1. /\ UNCHANGED <<signals, selectPc, gFdSet, gMaxFd, ready, gNumClientConnected, gWorkQueue>>
      /\ UNCHANGED <<client, gLockQueue, lockFd, holder, waiting>>
    BY DEF Main, notMain, selectVars, fileVars
<1>2. PICK ws \in SUBSET Asleep : Wake(ws)
  <2>1. CASE mainClose
      BY <2>1, NotifyAllWakes DEF mainClose
  <2>2. CASE UNCHANGED pc
      BY <2>2, NobodyWakes
  <2> QED
      BY <2>1, <2>2 DEF Main, mainCheck, mainAccept, mainAnnounce, mainJoinWorkers,
            mainStopLock, mainJoinLock, mainJoinSelect
<1>3. /\ pc' \in [Workers -> {"loop", "beforeWait", "asleep", "work", "respond", "remove", "done"}]
      /\ \A w \in Workers : pc'[w] = pc[w] \/ (pc[w] = "asleep" /\ pc'[w] = "loop")
    BY <1>2, WakeKeeps
<1>4. /\ mainPc' \in {"check", "accept", "announce", "closing", "joinWorkers",
                      "stopLock", "joinLock", "joinSelect", "done"}
      /\ newConnFd' \in Fds \cup {NoFd}
      /\ mainPc' = "announce" => newConnFd' \in Fds
      /\ socket' \in [Fds -> SocketStates]
      /\ lockPc' = lockPc \/ lockPc' = "loop"
    BY DEF TypeOK, InHand, Main, mainCheck, mainAccept, mainAnnounce, mainClose, mainJoinWorkers,
           mainStopLock, mainJoinLock, mainJoinSelect, notifyLockThread, SocketStates
<1>5. \/ UNCHANGED pipe
      \/ \E m \in Message : /\ pipe' = Append(pipe, m)
                            /\ m.type \in {"NEW_CONNECTION", "EXIT_REQUESTED"}
  <2>1. CASE mainAnnounce
      BY <2>1 DEF mainAnnounce, InHand, Msg, Message
  <2>2. CASE mainJoinLock
      BY <2>2 DEF mainJoinLock, Msg, Message
  <2> QED
      BY <2>1, <2>2 DEF Main, mainCheck, mainAccept, mainClose, mainJoinWorkers,
            mainStopLock, mainJoinSelect
<1>10. /\ pipe' \in Seq(Message)
       /\ (\A i \in DOMAIN pipe : pipe[i].type \in {"NEW_CONNECTION", "EXIT_REQUESTED"})
          => (\A i \in DOMAIN pipe' : pipe'[i].type \in {"NEW_CONNECTION", "EXIT_REQUESTED"})
    BY <1>5, PipeGrows DEF TypeOK
<1>6. TypeOK'
    BY <1>1, <1>3, <1>4, <1>10 DEF TypeOK
<1>7. InHand'
    BY <1>1, <1>3, <1>4 DEF InHand, Busy
<1>8. NotYet => NotYet'
    BY <1>1, <1>3, <1>4, <1>10 DEF NotYet, Busy, TypeOK
<1>9. WorkIsTaken'
    BY <1>1, <1>3 DEF WorkIsTaken
<1> QED
    BY <1>1, <1>6, <1>7, <1>8, <1>9, RangeStays

-----------------------------------------------------------------------------
(* The select thread. *)

\* What is monitored is in the new range, since the old one reached the
\* write end of the pipe, which is never ready.
LEMMA RescanKeeps ==
    ASSUME gFdSet \subseteq Fds \cup {PipeRead}, gMaxFd \in Nat, gFdSet \subseteq 0 .. gMaxFd,
           NEW inSet \in SUBSET gFdSet, ready' = inSet \ {PipeRead},
           NEW top \in Nat, top >= gMaxFd, top >= PipeWrite,
           NEW more \in SUBSET Fds, more \subseteq 0 .. top, gFdSet' = gFdSet \cup more,
           gMaxFd' = Left(top, inSet)
    PROVE  /\ gFdSet' \ ready' \subseteq 0 .. gMaxFd'
           /\ gMaxFd' \in Nat /\ gMaxFd' >= PipeWrite
<1> USE DescriptorsAssumption
<1>1. gMaxFd' \in Nat /\ \A y \in 0 .. top : y \notin inSet => y <= gMaxFd'
    BY LeftOf
<1>2. gMaxFd' >= PipeWrite
  <2>1. PipeWrite \in 0 .. top
      OBVIOUS
  <2>2. PipeWrite \notin inSet
      OBVIOUS
  <2> QED
      BY <1>1, <2>1, <2>2
<1>3. ASSUME NEW x \in gFdSet' \ ready' PROVE x \in 0 .. gMaxFd'
  <2>1. x \in 0 .. top
      OBVIOUS
  <2>2. CASE x = PipeRead
      BY <1>1, <1>2, <2>2
  <2>3. CASE x # PipeRead
    <3>1. x \notin inSet
        BY <2>3
    <3> QED
        BY <1>1, <2>1, <3>1
  <2> QED
      BY <2>2, <2>3
<1> QED
    BY <1>1, <1>2, <1>3

LEMMA RescanSame ==
    ASSUME gFdSet \subseteq Fds \cup {PipeRead}, gMaxFd \in Nat, gFdSet \subseteq 0 .. gMaxFd,
           NEW inSet \in SUBSET gFdSet, ready' = inSet \ {PipeRead},
           gMaxFd >= PipeWrite, gFdSet' = gFdSet, gMaxFd' = Left(gMaxFd, inSet)
    PROVE  /\ gFdSet' \ ready' \subseteq 0 .. gMaxFd'
           /\ gMaxFd' \in Nat /\ gMaxFd' >= PipeWrite
<1>1. PICK top \in Nat : top = gMaxFd /\ top >= gMaxFd /\ top >= PipeWrite
    OBVIOUS
<1>2. PICK more : more = {}
    OBVIOUS
<1>3. more \in SUBSET Fds /\ gFdSet' = gFdSet \cup more /\ more \subseteq 0 .. top
    BY <1>2
<1>4. gMaxFd' = Left(top, inSet)
    BY <1>1
<1> QED
    BY <1>1, <1>3, <1>4, RescanKeeps

LEMMA ReturnsStep ==
    ASSUME IInv, selectReturns
    PROVE  /\ pipe' \in Seq(Message) /\ selectPc' \in {"scan", "notifyAll", "done"}
           /\ gFdSet' \subseteq Fds \cup {PipeRead} /\ gMaxFd' \in Nat /\ ready' \subseteq Fds
           /\ gNumClientConnected' \in Int /\ socket' \in [Fds -> SocketStates]
           /\ Reached' /\ MonitoredInRange'
<1> USE DEF IInv
<1> DEFINE inSet == {fd \in gFdSet : fd <= gMaxFd /\
                       IF fd = PipeRead THEN pipe # << >> ELSE Readable(fd)}
           message == Head(pipe)
<1>1. /\ selectPc = "select" /\ ready = {} /\ inSet # {} /\ ready' = inSet \ {PipeRead}
      /\ gFdSet \subseteq Fds \cup {PipeRead} /\ gMaxFd \in Nat /\ gFdSet \subseteq 0 .. gMaxFd
      /\ NotYet \/ gMaxFd >= PipeWrite
    BY DEF selectReturns, ScannedFirst, TypeOK, MonitoredInRange, Reached
<1>2. inSet \in SUBSET gFdSet
    OBVIOUS
<1>7. ready' \subseteq Fds
    BY <1>1, <1>2
<1>3. /\ pipe \in Seq(Message) /\ gNumClientConnected \in Int /\ socket \in [Fds -> SocketStates]
    BY DEF TypeOK
<1>4. PipeRead \in inSet =>
        /\ pipe # << >> /\ message \in Message /\ Tail(pipe) \in Seq(Message)
        /\ NotYet => message.type \in {"NEW_CONNECTION", "EXIT_REQUESTED"}
    BY <1>3 DEF NotYet
<1>5. CASE PipeRead \notin inSet
  <2>1. /\ gMaxFd' = Left(gMaxFd, inSet) /\ selectPc' = "scan"
        /\ UNCHANGED <<pipe, gFdSet, gNumClientConnected, socket>>
      BY <1>5 DEF selectReturns, Left
  <2>2. gMaxFd >= PipeWrite
      BY <1>1, <1>5 DEF NotYet
  <2> HIDE DEF inSet
  <2>4. gFdSet' \ ready' \subseteq 0 .. gMaxFd' /\ gMaxFd' \in Nat /\ gMaxFd' >= PipeWrite
      BY <1>1, <1>2, <2>1, <2>2, RescanSame
  <2> QED
      BY <1>1, <1>2, <1>3, <2>1, <2>4, <1>7 DEF MonitoredInRange, Reached
<1>6. CASE PipeRead \in inSet
  <2>0. pipe' = Tail(pipe) /\ pipe' \in Seq(Message) /\ message \in Message
      BY <1>4, <1>6 DEF selectReturns
  <2>1. CASE /\ message.type = "EXIT_REQUESTED" /\ selectPc' = "done"
             /\ UNCHANGED <<gFdSet, gMaxFd, gNumClientConnected, socket>>
    <3> HIDE DEF inSet, message
    <3> QED
        BY <1>1, <1>2, <1>3, <2>0, <2>1 DEF MonitoredInRange, Reached
  <2>2. CASE /\ message.type \in {"NEW_CONNECTION", "SET_CONNECTION"}
             /\ gFdSet' = gFdSet \cup {message.fd}
             /\ gMaxFd' = Left(Raised(message.fd), inSet) /\ selectPc' = "scan"
             /\ gNumClientConnected' \in {gNumClientConnected, gNumClientConnected + 1}
             /\ UNCHANGED socket
    <3>1. message.fd \in Fds /\ message.fd \in Nat /\ message.fd > PipeWrite
        BY <2>0, <2>2, DescriptorsAssumption DEF Message
    <3>2. /\ Raised(message.fd) \in Nat /\ Raised(message.fd) >= gMaxFd
          /\ Raised(message.fd) >= message.fd
        BY <1>1, <3>1, RaisedOf
    <3>3. Raised(message.fd) >= PipeWrite
        BY <3>1, <3>2, DescriptorsAssumption
    <3>4. {message.fd} \in SUBSET Fds /\ {message.fd} \subseteq 0 .. Raised(message.fd)
        BY <3>1, <3>2
    <3> HIDE DEF inSet, message
    <3>5. gFdSet' \ ready' \subseteq 0 .. gMaxFd' /\ gMaxFd' \in Nat /\ gMaxFd' >= PipeWrite
        BY <1>1, <1>2, <2>2, <3>2, <3>3, <3>4, RescanKeeps
    <3> QED
        BY <1>1, <1>2, <1>3, <2>0, <2>2, <3>4, <3>5, <1>7 DEF MonitoredInRange, Reached
  <2>3. CASE /\ message.type = "REM_CONNECTION"
             /\ socket' = [socket EXCEPT ![message.fd] = "closed"]
             /\ gNumClientConnected' = gNumClientConnected - 1
             /\ gMaxFd' = Left(gMaxFd, inSet) /\ selectPc' = "notifyAll"
             /\ UNCHANGED gFdSet
    <3>1. gMaxFd >= PipeWrite
        BY <1>1, <1>4, <1>6, <2>3
    <3>3. socket' \in [Fds -> SocketStates]
        BY <1>3, <2>3 DEF SocketStates
    <3> HIDE DEF inSet, message
    <3>4. gFdSet' \ ready' \subseteq 0 .. gMaxFd' /\ gMaxFd' \in Nat /\ gMaxFd' >= PipeWrite
        BY <1>1, <1>2, <2>3, <3>1, RescanSame
    <3> QED
        BY <1>3, <1>7, <2>0, <2>3, <3>3, <3>4, <1>1 DEF MonitoredInRange, Reached
  <2> QED
      BY <1>6, <2>1, <2>2, <2>3 DEF selectReturns, Left, countGone
<1> QED
    BY <1>5, <1>6

LEMMA SelectStep == ASSUME IInv, Select PROVE IInv'
<1> USE DEF IInv
<1>1. /\ UNCHANGED <<signals, mainPc, newConnFd, client, gLockQueue, lockPc, lockFd, holder, waiting>>
    BY DEF Select, mainVars, lockVars, fileVars
<1>2. CASE selectLoop
  <2>1. /\ UNCHANGED <<pipe, gFdSet, gMaxFd, ready, gNumClientConnected, gWorkQueue, pc, socket>>
        /\ selectPc = "scan" /\ ready = {} /\ selectPc' \in {"done", "select"}
      BY <1>2 DEF selectLoop
  <2>2. TypeOK'
      BY <1>1, <2>1 DEF TypeOK
  <2>3. InHand' /\ WorkIsTaken' /\ ScannedFirst'
      BY <1>1, <2>1 DEF InHand, Busy, WorkIsTaken, ScannedFirst
  <2>4. Reached' /\ MonitoredInRange'
      BY <1>1, <2>1 DEF Reached, NotYet, Busy, MonitoredInRange
  <2> QED
      BY <2>2, <2>3, <2>4
<1>3. CASE selectReturns
  <2>1. UNCHANGED <<gWorkQueue, pc>> /\ selectPc = "select"
      BY <1>3 DEF selectReturns
  <2>2. /\ pipe' \in Seq(Message) /\ selectPc' \in {"scan", "notifyAll", "done"}
        /\ gFdSet' \subseteq Fds \cup {PipeRead} /\ gMaxFd' \in Nat /\ ready' \subseteq Fds
        /\ gNumClientConnected' \in Int /\ socket' \in [Fds -> SocketStates]
        /\ Reached' /\ MonitoredInRange'
      BY <1>3, ReturnsStep
  <2>3. TypeOK'
      BY <1>1, <2>1, <2>2 DEF TypeOK
  <2>4. InHand' /\ WorkIsTaken' /\ ScannedFirst'
      BY <1>1, <2>1, <2>2 DEF InHand, Busy, WorkIsTaken, ScannedFirst
  <2> QED
      BY <2>2, <2>3, <2>4
<1>4. CASE selectScan
  <2>1. PICK fd \in Fds : fd = Min(ready) /\ fd \in ready
      BY <1>4, MinOf, DescriptorsAssumption DEF selectScan, TypeOK
  <2>2. /\ selectPc = "scan" /\ selectPc' = "notify"
        /\ ready' = ready \ {fd} /\ gFdSet' = gFdSet \ {fd}
        /\ UNCHANGED <<pipe, gMaxFd, gNumClientConnected, pc>>
      BY <1>4, <2>1 DEF selectScan, Unmonitored
  <2>3. /\ gWorkQueue' \in Seq(Fds) /\ Len(gWorkQueue') <= RingSize
        /\ socket' \in [Fds -> SocketStates]
    <3>1. CASE Len(gWorkQueue) < RingSize
      <4>1. gWorkQueue' = Append(gWorkQueue, fd) /\ UNCHANGED socket
          BY <1>4, <2>1, <3>1 DEF selectScan
      <4> QED
          BY <3>1, <4>1, DescriptorsAssumption DEF TypeOK
    <3>2. CASE ~(Len(gWorkQueue) < RingSize)
      <4>1. socket' = [socket EXCEPT ![fd] = "closed"] /\ UNCHANGED gWorkQueue
          BY <1>4, <2>1, <3>2 DEF selectScan
      <4> QED
          BY <4>1 DEF TypeOK, SocketStates
    <3> QED
        BY <3>1, <3>2
  <2>4. TypeOK'
      BY <1>1, <2>2, <2>3 DEF TypeOK
  <2>5. InHand' /\ WorkIsTaken' /\ ScannedFirst'
      BY <1>1, <2>2 DEF InHand, Busy, WorkIsTaken, ScannedFirst
  <2>6. Reached' /\ MonitoredInRange'
      BY <2>1, <2>2 DEF Reached, NotYet, MonitoredInRange
  <2> QED
      BY <2>4, <2>5, <2>6
<1>5. CASE selectNotifyAll \/ selectNotify
  <2>1. /\ UNCHANGED <<pipe, gFdSet, gMaxFd, ready, gNumClientConnected, gWorkQueue, socket>>
        /\ selectPc \in {"notifyAll", "notify"} /\ selectPc' = "scan"
        /\ \A w \in Workers : pc[w] # "beforeWait"
      BY <1>5 DEF selectNotifyAll, selectNotify, WorkMutexFree
  <2>2. PICK ws \in SUBSET Asleep :
           Wake(ws) /\ (selectPc = "notify" /\ Asleep # {} => ws # {})
      BY <1>5, NotifyAllWakes, NotifyOneWakes DEF selectNotifyAll, selectNotify
  <2>3. /\ pc' \in [Workers -> {"loop", "beforeWait", "asleep", "work", "respond", "remove", "done"}]
        /\ \A w \in Workers : pc'[w] = pc[w] \/ (pc[w] = "asleep" /\ pc'[w] = "loop")
        /\ \A w \in ws : pc'[w] = "loop"
      BY <2>2, WakeKeeps
  <2>4. TypeOK'
      BY <1>1, <2>1, <2>3 DEF TypeOK
  <2>5. InHand' /\ ScannedFirst'
      BY <1>1, <2>1, <2>3 DEF InHand, Busy, ScannedFirst
  <2>6. Reached' /\ MonitoredInRange'
      BY <1>1, <2>1, <2>3 DEF Reached, NotYet, Busy, MonitoredInRange
  <2>7. WorkIsTaken'
    <3>1. CASE selectPc = "notifyAll"
        BY <2>1, <2>3, <3>1 DEF WorkIsTaken
    <3>2. CASE selectPc = "notify" /\ Asleep = {}
        BY <2>1, <2>3, <3>2, DescriptorsAssumption DEF WorkIsTaken, Asleep
    <3>3. CASE selectPc = "notify" /\ Asleep # {}
        BY <2>2, <2>3, <3>3 DEF WorkIsTaken, Asleep
    <3> QED
        BY <2>1, <3>1, <3>2, <3>3
  <2> QED
      BY <2>4, <2>5, <2>6, <2>7
<1> QED
    BY <1>2, <1>3, <1>4, <1>5 DEF Select

-----------------------------------------------------------------------------
(* The workers, the lock thread and the clients. *)

\* What a worker's step, or the lock thread's, must leave true of the rest.
LEMMA OthersStep ==
    ASSUME IInv,
           UNCHANGED <<signals, mainPc, newConnFd, selectPc, gFdSet, gMaxFd, ready, gNumClientConnected>>,
           pipe' \in Seq(Message), gWorkQueue' \in Seq(Fds), Len(gWorkQueue') <= RingSize,
           pc' \in [Workers -> {"loop", "beforeWait", "asleep", "work", "respond", "remove", "done"}],
           client' \in [Workers -> Fds \cup {NoFd}],
           gLockQueue' \in Seq(Fds), lockPc' \in {"loop", "beforeWait", "asleep", "answer", "done"},
           lockFd' \in Fds \cup {NoFd}, holder' \in Fds \cup {NoFd}, waiting' \in Seq(Fds),
           socket' \in [Fds -> SocketStates],
           InHand', NotYet => NotYet', WorkIsTaken'
    PROVE  IInv'
<1>1. TypeOK'
    BY DEF IInv, TypeOK
<1> QED
    BY <1>1, RangeStays DEF IInv

\* At(w, here, there), for the types and for the others.
LEMMA AtMoves ==
    ASSUME TypeOK, NEW w \in Workers,
           NEW there \in {"loop", "beforeWait", "asleep", "work", "respond", "remove", "done"},
           pc' = [pc EXCEPT ![w] = there]
    PROVE  /\ pc' \in [Workers -> {"loop", "beforeWait", "asleep", "work", "respond", "remove", "done"}]
           /\ pc'[w] = there /\ \A v \in Workers \ {w} : pc'[v] = pc[v]
BY DEF TypeOK

LEMMA AppendMessage ==
    ASSUME TypeOK, NEW m \in Message, pipe' = Append(pipe, m)
    PROVE  pipe' \in Seq(Message)
BY DEF TypeOK

LEMMA UnlockTypes ==
    ASSUME TypeOK, NEW fd, unlock(fd)
    PROVE  /\ gLockQueue' \in Seq(Fds)
           /\ lockPc' = lockPc \/ (lockPc = "asleep" /\ lockPc' = "loop")
           /\ lockFd' = lockFd
           /\ holder' \in Fds \cup {NoFd} /\ waiting' \in Seq(Fds)
<1>1. CASE holder = fd /\ waiting # << >>
  <2>1. Head(waiting) \in Fds /\ Tail(waiting) \in Seq(Fds)
      BY <1>1 DEF TypeOK
  <2>2. /\ holder' = Head(waiting) /\ waiting' = Tail(waiting) /\ UNCHANGED lockFd
        /\ gLockQueue' = Append(gLockQueue, Head(waiting))
        /\ lockPc' = IF lockPc = "asleep" THEN "loop" ELSE lockPc
      BY <1>1 DEF unlock, pushNotification, notifyLockThread
  <2> QED
      BY <2>1, <2>2 DEF TypeOK
<1>2. CASE ~(holder = fd /\ waiting # << >>)
  <2>1. /\ holder' = IF holder = fd THEN NoFd ELSE holder
        /\ UNCHANGED <<waiting, gLockQueue, lockPc, lockFd>>
      BY <1>2 DEF unlock, lockVars
  <2> QED
      BY <2>1 DEF TypeOK
<1> QED
    BY <1>1, <1>2

LEMMA LoopStep == ASSUME IInv, NEW w \in Workers, Worker(w), workerLoop(w) \/ workerWait(w) PROVE IInv'
<1> USE DEF IInv
<1>1. /\ UNCHANGED <<signals, mainPc, newConnFd, selectPc, gFdSet, gMaxFd, ready, gNumClientConnected>>
      /\ UNCHANGED <<pipe, gLockQueue, lockPc, lockFd, holder, waiting, socket>>
    BY DEF Worker, workerLoop, workerWait, mainVars, selectVars, lockVars, fileVars
<1>2. PICK there \in {"done", "work", "beforeWait", "asleep"} :
        /\ pc' = [pc EXCEPT ![w] = there] /\ pc[w] \in {"loop", "beforeWait"}
        /\ there = "asleep" => pc[w] = "beforeWait"
        /\ there = "work" => /\ gWorkQueue # << >> /\ gWorkQueue' = Tail(gWorkQueue)
                             /\ client' = [client EXCEPT ![w] = Head(gWorkQueue)]
        /\ there # "work" => UNCHANGED <<gWorkQueue, client>>
        /\ there = "beforeWait" => gWorkQueue = << >>
    BY DEF workerLoop, workerWait, At
<1>3. /\ pc' \in [Workers -> {"loop", "beforeWait", "asleep", "work", "respond", "remove", "done"}]
      /\ pc'[w] = there /\ \A v \in Workers \ {w} : pc'[v] = pc[v]
    BY <1>2, AtMoves
<1>4. /\ gWorkQueue' \in Seq(Fds) /\ Len(gWorkQueue') <= RingSize
      /\ client' \in [Workers -> Fds \cup {NoFd}]
      /\ there = "work" => client'[w] \in Fds
      /\ \A v \in Workers \ {w} : client'[v] = client[v]
  <2>1. CASE there = "work"
    <3>1. Head(gWorkQueue) \in Fds /\ Tail(gWorkQueue) \in Seq(Fds) /\ Len(Tail(gWorkQueue)) <= RingSize
        BY <1>2, <2>1, DescriptorsAssumption DEF TypeOK
    <3> QED
        BY <1>2, <2>1, <3>1 DEF TypeOK
  <2>2. CASE there # "work"
      BY <1>2, <2>2 DEF TypeOK
  <2> QED
      BY <2>1, <2>2
<1>5. InHand'
    BY <1>1, <1>3, <1>4 DEF InHand, Busy
<1>6. NotYet => NotYet'
    BY <1>1, <1>2, <1>3 DEF NotYet, Busy
<1>7. WorkIsTaken'
  <2>1. CASE there \in {"done", "work"}
      BY <1>3, <2>1 DEF WorkIsTaken
  <2>2. CASE there = "beforeWait"
      BY <1>2, <2>2 DEF WorkIsTaken
  <2>3. CASE there = "asleep"
      BY <1>1, <1>2, <1>3, <2>3 DEF WorkIsTaken
  <2> QED
      BY <2>1, <2>2, <2>3
<1>8. /\ pipe' \in Seq(Message) /\ gLockQueue' \in Seq(Fds)
      /\ lockPc' \in {"loop", "beforeWait", "asleep", "answer", "done"}
      /\ lockFd' \in Fds \cup {NoFd} /\ holder' \in Fds \cup {NoFd} /\ waiting' \in Seq(Fds)
      /\ socket' \in [Fds -> SocketStates]
    BY <1>1 DEF TypeOK
<1> QED
    BY <1>1, <1>3, <1>4, <1>5, <1>6, <1>7, <1>8, OthersStep

LEMMA ServeStep ==
    ASSUME IInv, NEW w \in Workers, Worker(w),
           workerHandle(w) \/ workerRespond(w) \/ workerReadNothing(w) \/ workerRemove(w)
    PROVE  IInv'
<1> USE DEF IInv
<1>1. /\ UNCHANGED <<signals, mainPc, newConnFd, selectPc, gFdSet, gMaxFd, ready, gNumClientConnected>>
      /\ UNCHANGED gWorkQueue
    BY DEF Worker, workerHandle, workerRespond, workerReadNothing, workerRemove, mainVars, selectVars
<1>2. pc[w] \in Busy /\ client[w] \in Fds
    BY DEF workerHandle, workerRespond, workerReadNothing, workerRemove, At, Busy, InHand
<1>3. PICK there \in {"loop", "respond", "remove"} :
        /\ pc' = [pc EXCEPT ![w] = there]
        /\ client' \in {client, [client EXCEPT ![w] = NoFd]}
        /\ there # "loop" => client' = client
  <2>1. CASE workerHandle(w)
      BY <2>1 DEF workerHandle, At
  <2>2. CASE workerRespond(w) \/ workerReadNothing(w) \/ workerRemove(w)
      BY <2>2 DEF workerRespond, workerReadNothing, workerRemove, At
  <2> QED
      BY <2>1, <2>2
<1>4. /\ pc' \in [Workers -> {"loop", "beforeWait", "asleep", "work", "respond", "remove", "done"}]
      /\ pc'[w] = there /\ \A v \in Workers \ {w} : pc'[v] = pc[v]
    BY <1>3, AtMoves
<1>5. /\ client' \in [Workers -> Fds \cup {NoFd}]
      /\ there # "loop" => client'[w] \in Fds
      /\ \A v \in Workers \ {w} : client'[v] = client[v]
    BY <1>2, <1>3 DEF TypeOK
<1>6. /\ gLockQueue' \in Seq(Fds)
      /\ lockPc' = lockPc \/ (lockPc = "asleep" /\ lockPc' = "loop")
      /\ lockFd' = lockFd
      /\ holder' \in Fds \cup {NoFd} /\ waiting' \in Seq(Fds)
  <2>1. CASE unlock(client[w])
      BY <2>1, UnlockTypes
  <2>2. CASE UNCHANGED <<gLockQueue, lockPc, lockFd, holder, waiting>>
      BY <2>2 DEF TypeOK
  <2>3. CASE holder' = client[w] /\ UNCHANGED <<gLockQueue, lockPc, lockFd, waiting>>
      BY <1>2, <2>3 DEF TypeOK
  <2>4. CASE waiting' = Append(waiting, client[w]) /\ UNCHANGED <<gLockQueue, lockPc, lockFd, holder>>
      BY <1>2, <2>4 DEF TypeOK
  <2>5. CASE workerHandle(w)
      BY <2>1, <2>2, <2>3, <2>4, <2>5 DEF workerHandle, lockVars, fileVars
  <2>6. CASE workerRespond(w) \/ workerReadNothing(w) \/ workerRemove(w)
      BY <2>1, <2>2, <2>6 DEF workerRespond, workerReadNothing, workerRemove, lockVars, fileVars
  <2> QED
      BY <2>5, <2>6
<1>7. socket' \in [Fds -> SocketStates]
    BY <1>2 DEF workerHandle, workerRespond, workerReadNothing, workerRemove, replyTo, TypeOK, SocketStates
<1>8. pipe' \in Seq(Message)
  <2>1. Msg("SET_CONNECTION", client[w]) \in Message /\ Msg("REM_CONNECTION", client[w]) \in Message
      BY <1>2 DEF Msg, Message
  <2>2. \/ UNCHANGED pipe
        \/ pipe' = Append(pipe, Msg("SET_CONNECTION", client[w]))
        \/ pipe' = Append(pipe, Msg("REM_CONNECTION", client[w]))
      BY DEF workerHandle, workerRespond, workerReadNothing, workerRemove, replyTo, SetConnection
  <2>3. CASE UNCHANGED pipe
      BY <2>3 DEF TypeOK
  <2> QED
      BY <2>1, <2>2, <2>3, AppendMessage
<1>9. InHand'
    BY <1>1, <1>4, <1>5, <1>6 DEF InHand, Busy
<1>10. WorkIsTaken'
    BY <1>4 DEF WorkIsTaken
<1>11. ~NotYet
    BY <1>2 DEF NotYet
<1>12. /\ gWorkQueue' \in Seq(Fds) /\ Len(gWorkQueue') <= RingSize
       /\ lockPc' \in {"loop", "beforeWait", "asleep", "answer", "done"}
       /\ lockFd' \in Fds \cup {NoFd}
    BY <1>1, <1>6 DEF TypeOK
<1> QED
    BY <1>1, <1>4, <1>5, <1>6, <1>7, <1>8, <1>9, <1>10, <1>11, <1>12, OthersStep

LEMMA LockThreadStep == ASSUME IInv, LockThread PROVE IInv'
<1> USE DEF IInv
<1>1. /\ UNCHANGED <<signals, mainPc, newConnFd, selectPc, gFdSet, gMaxFd, ready, gNumClientConnected>>
      /\ UNCHANGED <<gWorkQueue, pc, client, holder, waiting>>
    BY DEF LockThread, mainVars, selectVars, workVars, fileVars
<1>2. /\ gLockQueue' \in Seq(Fds) /\ lockPc' \in {"loop", "beforeWait", "asleep", "answer", "done"}
      /\ lockFd' \in Fds \cup {NoFd}
      /\ lockPc' = "answer" => lockFd' \in Fds /\ gLockQueue # << >>
      /\ gLockQueue = << >> => gLockQueue' = gLockQueue
  <2>1. CASE lockThreadLoop
    <3>1. CASE ~LockStops /\ gLockQueue # << >>
      <4>1. Head(gLockQueue) \in Fds /\ Tail(gLockQueue) \in Seq(Fds)
          BY <3>1 DEF TypeOK
      <4>2. /\ lockPc' = "answer" /\ lockFd' = Head(gLockQueue) /\ gLockQueue' = Tail(gLockQueue)
          BY <2>1, <3>1 DEF lockThreadLoop
      <4> QED
          BY <3>1, <4>1, <4>2
    <3>2. CASE ~(~LockStops /\ gLockQueue # << >>)
        BY <2>1, <3>2 DEF lockThreadLoop, TypeOK
    <3> QED
        BY <3>1, <3>2
  <2>2. CASE lockThreadWait \/ lockThreadAnswer
      BY <2>2 DEF lockThreadWait, lockThreadAnswer, TypeOK
  <2> QED
      BY <2>1, <2>2 DEF LockThread
<1>3. \/ UNCHANGED <<pipe, socket>>
      \/ /\ lockPc = "answer" /\ lockFd \in Fds
         /\ socket' = [socket EXCEPT ![lockFd] = IF @ = "serving" THEN "reply" ELSE @]
         /\ pipe' = Append(pipe, Msg("SET_CONNECTION", lockFd))
    BY DEF LockThread, lockThreadLoop, lockThreadWait, lockThreadAnswer, replyTo, SetConnection, InHand
<1>4. pipe' \in Seq(Message) /\ socket' \in [Fds -> SocketStates]
  <2>1. CASE UNCHANGED <<pipe, socket>>
      BY <2>1 DEF TypeOK
  <2>2. CASE /\ lockPc = "answer" /\ lockFd \in Fds
             /\ socket' = [socket EXCEPT ![lockFd] = IF @ = "serving" THEN "reply" ELSE @]
             /\ pipe' = Append(pipe, Msg("SET_CONNECTION", lockFd))
    <3>1. Msg("SET_CONNECTION", lockFd) \in Message
        BY <2>2 DEF Msg, Message
    <3> QED
        BY <2>2, <3>1, AppendMessage DEF TypeOK, SocketStates
  <2> QED
      BY <1>3, <2>1, <2>2
<1>5. InHand'
    BY <1>1, <1>2 DEF InHand
<1>6. NotYet => NotYet'
    BY <1>1, <1>2, <1>3 DEF NotYet
<1>7. WorkIsTaken'
    BY <1>1 DEF WorkIsTaken
<1>8. /\ gWorkQueue' \in Seq(Fds) /\ Len(gWorkQueue') <= RingSize
      /\ pc' \in [Workers -> {"loop", "beforeWait", "asleep", "work", "respond", "remove", "done"}]
      /\ client' \in [Workers -> Fds \cup {NoFd}]
      /\ holder' \in Fds \cup {NoFd} /\ waiting' \in Seq(Fds)
    BY <1>1 DEF TypeOK
<1> QED
    BY <1>1, <1>2, <1>4, <1>5, <1>6, <1>7, <1>8, OthersStep

LEMMA OutsideStep ==
    ASSUME IInv,
           \/ signalHandlerCallback
           \/ \E fd \in Fds : clientSend(fd) \/ clientRead(fd) \/ clientLeave(fd)
           \/ UNCHANGED vars
    PROVE  IInv'
<1> USE DEF IInv
<1>1. /\ UNCHANGED <<newConnFd, pipe, selectPc, gFdSet, gMaxFd, ready, gNumClientConnected>>
      /\ UNCHANGED <<gWorkQueue, pc, client, gLockQueue, lockPc, lockFd, holder, waiting>>
    BY DEF signalHandlerCallback, clientSend, clientRead, clientLeave, notClient, vars,
           mainVars, selectVars, workVars, lockVars, fileVars
<1>2. /\ signals' \in SignalSets
      /\ mainPc' = mainPc \/ mainPc' = "check"
      /\ socket' \in [Fds -> SocketStates]
  <2>1. CASE signalHandlerCallback \/ UNCHANGED vars
      BY <2>1 DEF signalHandlerCallback, vars, mainVars, TypeOK
  <2>2. ASSUME NEW fd \in Fds, clientSend(fd) \/ clientRead(fd) \/ clientLeave(fd)
        PROVE  /\ UNCHANGED <<signals, mainPc>>
               /\ socket' \in [Fds -> SocketStates]
      BY <2>2 DEF clientSend, clientRead, clientLeave, Becomes, notClient, mainVars, TypeOK, SocketStates
  <2> QED
      BY <2>1, <2>2 DEF TypeOK
<1>3. TypeOK'
    BY <1>1, <1>2 DEF TypeOK
<1>4. InHand' /\ WorkIsTaken' /\ (NotYet => NotYet')
    BY <1>1, <1>2 DEF InHand, WorkIsTaken, NotYet
<1> QED
    BY <1>1, <1>3, <1>4, RangeStays

-----------------------------------------------------------------------------
LEMMA NextStep == IInv /\ [Next]_vars => IInv'
<1> SUFFICES ASSUME IInv, [Next]_vars PROVE IInv'
    OBVIOUS
<1>1. ASSUME NEW w \in Workers, Worker(w) PROVE IInv'
    BY <1>1, LoopStep, ServeStep DEF Worker
<1> QED
    BY <1>1, MainStep, SelectStep, LockThreadStep, OutsideStep DEF Next

LEMMA IInvHolds == Spec => []IInv
BY InitStep, NextStep, PTL DEF Spec

(* Every variable of the threads has its type.                              *)
THEOREM TypeCorrect == Spec => []TypeOK
<1>1. IInv => TypeOK
    BY DEF IInv
<1> QED
    BY <1>1, IInvHolds, PTL

(* select looks at every descriptor it monitors, although gMaxFd shrinks.   *)
THEOREM SelectLooksAtAll == Spec => []MonitoredInRange
<1>1. IInv => MonitoredInRange
    BY DEF IInv
<1> QED
    BY <1>1, IInvHolds, PTL

(* No wake-up is lost: work in the queue has a worker awake for it, or one  *)
(* that is about to be woken.                                               *)
THEOREM NoWorkForSleepers == Spec => []WorkIsTaken
<1>1. IInv => WorkIsTaken
    BY DEF IInv
<1> QED
    BY <1>1, IInvHolds, PTL

-----------------------------------------------------------------------------
(* Where the connections are. *)

\* x is somewhere in the queue q.
In(q, x) == \E i \in DOMAIN q : q[i] = x

InMain(fd) == newConnFd = fd
InPipe(fd) == \E i \in DOMAIN pipe : pipe[i].fd = fd
InSet(fd) == fd \in gFdSet
InQueue(fd) == In(gWorkQueue, fd)
InWorker(fd) == \E w \in Workers : client[w] = fd
InWaiting(fd) == In(waiting, fd)
InNotices(fd) == In(gLockQueue, fd)
InLock(fd) == lockFd = fd

\* A connection is open exactly if it is somewhere, and it is nowhere else.
OneBox(fd) ==
    /\ Open(fd) <=> \/ InMain(fd) \/ InPipe(fd) \/ InSet(fd) \/ InQueue(fd)
                    \/ InWorker(fd) \/ InWaiting(fd) \/ InNotices(fd) \/ InLock(fd)
    /\ InMain(fd) => ~(InPipe(fd) \/ InSet(fd) \/ InQueue(fd) \/ InWorker(fd)
                       \/ InWaiting(fd) \/ InNotices(fd) \/ InLock(fd))
    /\ InPipe(fd) => ~(InSet(fd) \/ InQueue(fd) \/ InWorker(fd)
                       \/ InWaiting(fd) \/ InNotices(fd) \/ InLock(fd))
    /\ InSet(fd) => ~(InQueue(fd) \/ InWorker(fd)
                      \/ InWaiting(fd) \/ InNotices(fd) \/ InLock(fd))
    /\ InQueue(fd) => ~(InWorker(fd) \/ InWaiting(fd) \/ InNotices(fd) \/ InLock(fd))
    /\ InWorker(fd) => ~(InWaiting(fd) \/ InNotices(fd) \/ InLock(fd))
    /\ InWaiting(fd) => ~(InNotices(fd) \/ InLock(fd))
    /\ InNotices(fd) => ~InLock(fd)

\* No queue lists a descriptor twice, no two workers have the same.
Once(q) == \A i, j \in DOMAIN q : q[i] = q[j] => i = j
OnceSent == \A i, j \in DOMAIN pipe : pipe[i].fd = pipe[j].fd /\ pipe[i].fd \in Fds => i = j
OneWorker == \A v, w \in Workers : client[v] = client[w] /\ client[v] \in Fds => v = w

\* Who holds a descriptor has something to do with it.
HeldToWork ==
    /\ newConnFd \in Fds => mainPc = "announce"
    /\ \A w \in Workers : client[w] \in Fds => pc[w] \in Busy
    /\ lockFd \in Fds => lockPc = "answer"

Singly ==
    /\ Once(gWorkQueue) /\ Once(waiting) /\ Once(gLockQueue) /\ OnceSent /\ OneWorker

PInv ==
    /\ HeldToWork /\ Singly /\ ready \subseteq gFdSet
    /\ \A fd \in Fds : OneBox(fd)

\* The shutdown begins with a signal.
SInv ==
    mainPc \in {"closing", "joinWorkers", "stopLock", "joinLock", "joinSelect", "done"} =>
        signals # {}

-----------------------------------------------------------------------------
LEMMA AppendOnce ==
    ASSUME NEW S, NEW q \in Seq(S), NEW x \in S, Once(q), ~In(q, x)
    PROVE  Once(Append(q, x)) /\ \A y : In(Append(q, x), y) <=> In(q, y) \/ y = x
<1>1. PICK n \in Nat : n = Len(q) /\ DOMAIN q = 1 .. n
    OBVIOUS
<1>2. PICK r : r = Append(q, x)
    OBVIOUS
<1>3. DOMAIN r = 1 .. n + 1 /\ r[n + 1] = x /\ \A i \in 1 .. n : r[i] = q[i]
    BY <1>1, <1>2
<1>4. DOMAIN r = DOMAIN q \cup {n + 1} /\ n + 1 \notin DOMAIN q
    BY <1>1, <1>3
<1>5. Once(r)
    BY <1>1, <1>3, <1>4 DEF Once, In
<1>6. \A y : In(r, y) <=> In(q, y) \/ y = x
    BY <1>1, <1>3, <1>4 DEF In
<1> QED
    BY <1>2, <1>5, <1>6

LEMMA TailOnce ==
    ASSUME NEW S, NEW q \in Seq(S), q # << >>, Once(q)
    PROVE  /\ Once(Tail(q))
           /\ \A y : In(Tail(q), y) <=> In(q, y) /\ y # Head(q)
           /\ In(q, Head(q))
<1>1. PICK n \in Nat : n = Len(q) /\ DOMAIN q = 1 .. n /\ n >= 1
    OBVIOUS
<1>2. PICK r : r = Tail(q)
    OBVIOUS
<1>3. DOMAIN r = 1 .. n - 1 /\ (\A i \in 1 .. n - 1 : r[i] = q[i + 1]) /\ Head(q) = q[1]
    BY <1>1, <1>2
<1>4. Once(r)
  <2> SUFFICES ASSUME NEW i \in DOMAIN r, NEW j \in DOMAIN r, r[i] = r[j] PROVE i = j
      BY DEF Once
  <2>1. i \in Int /\ j \in Int /\ i + 1 \in DOMAIN q /\ j + 1 \in DOMAIN q
      BY <1>1, <1>3
  <2>2. q[i + 1] = q[j + 1]
      BY <1>3
  <2>3. i + 1 = j + 1
      BY <2>1, <2>2 DEF Once
  <2> QED
      BY <2>1, <2>3
<1>5. ASSUME NEW y
      PROVE  In(r, y) <=> In(q, y) /\ y # Head(q)
  <2>1. ASSUME NEW i \in DOMAIN r, r[i] = y PROVE In(q, y) /\ y # Head(q)
    <3>1. i + 1 \in 1 .. n /\ i + 1 # 1 /\ 1 \in 1 .. n
        BY <1>1, <1>3, <2>1
    <3>2. q[i + 1] = y
        BY <1>3, <2>1
    <3> QED
        BY <1>1, <1>3, <3>1, <3>2 DEF Once, In
  <2>2. ASSUME NEW i \in DOMAIN q, q[i] = y, y # Head(q) PROVE In(r, y)
    <3>1. i # 1 /\ i \in 1 .. n
        BY <1>1, <1>3, <2>2
    <3>2. i - 1 \in 1 .. n - 1 /\ (i - 1) + 1 = i
        BY <1>1, <3>1
    <3> QED
        BY <1>3, <2>2, <3>2 DEF In
  <2> QED
      BY <2>1, <2>2 DEF In
<1>6. In(q, Head(q))
    BY <1>1, <1>3 DEF In
<1> QED
    BY <1>2, <1>4, <1>5, <1>6

\* The same for the descriptors in the messages of the pipe.
LEMMA SentOnce ==
    ASSUME TypeOK, NEW m \in Message, pipe' = Append(pipe, m), OnceSent, ~InPipe(m.fd) \/ m.fd \notin Fds
    PROVE  /\ OnceSent'
           /\ \A fd : InPipe(fd)' <=> InPipe(fd) \/ fd = m.fd
<1>1. PICK n \in Nat : n = Len(pipe) /\ DOMAIN pipe = 1 .. n /\ pipe \in Seq(Message)
    BY DEF TypeOK
<1>3. DOMAIN pipe' = 1 .. n + 1 /\ pipe'[n + 1] = m /\ \A i \in 1 .. n : pipe'[i] = pipe[i]
    BY <1>1
<1>4. DOMAIN pipe' = DOMAIN pipe \cup {n + 1} /\ n + 1 \notin DOMAIN pipe
    BY <1>1, <1>3
<1>5. OnceSent'
    BY <1>1, <1>3, <1>4 DEF OnceSent, InPipe
<1>6. \A fd : InPipe(fd)' <=> InPipe(fd) \/ fd = m.fd
    BY <1>1, <1>3, <1>4 DEF InPipe
<1> QED
    BY <1>5, <1>6

LEMMA ReceivedOnce ==
    ASSUME TypeOK, pipe # << >>, pipe' = Tail(pipe), OnceSent
    PROVE  /\ OnceSent'
           /\ \A fd \in Fds : InPipe(fd)' <=> InPipe(fd) /\ fd # Head(pipe).fd
           /\ Head(pipe) \in Message /\ InPipe(Head(pipe).fd)
<1>1. PICK n \in Nat : n = Len(pipe) /\ DOMAIN pipe = 1 .. n /\ n >= 1 /\ pipe \in Seq(Message)
    BY DEF TypeOK
<1>3. /\ DOMAIN pipe' = 1 .. n - 1 /\ (\A i \in 1 .. n - 1 : pipe'[i] = pipe[i + 1])
      /\ Head(pipe) = pipe[1] /\ Head(pipe) \in Message
    BY <1>1
<1>4. OnceSent'
    BY <1>1, <1>3 DEF OnceSent
<1>5. ASSUME NEW fd \in Fds
      PROVE  InPipe(fd)' <=> InPipe(fd) /\ fd # Head(pipe).fd
  <2>1. ASSUME NEW i \in DOMAIN pipe', pipe'[i].fd = fd PROVE InPipe(fd) /\ fd # Head(pipe).fd
    <3>1. i + 1 \in 1 .. n /\ i + 1 # 1 /\ 1 \in 1 .. n
        BY <1>1, <1>3, <2>1
    <3>2. pipe[i + 1].fd = fd
        BY <1>3, <2>1
    <3> QED
        BY <1>1, <1>3, <3>1, <3>2 DEF OnceSent, InPipe
  <2>2. ASSUME NEW i \in DOMAIN pipe, pipe[i].fd = fd, fd # Head(pipe).fd PROVE InPipe(fd)'
    <3>1. i # 1 /\ i \in 1 .. n
        BY <1>1, <1>3, <2>2
    <3>2. i - 1 \in 1 .. n - 1 /\ (i - 1) + 1 = i
        BY <1>1, <3>1
    <3> QED
        BY <1>3, <2>2, <3>2 DEF InPipe
  <2> QED
      BY <2>1, <2>2 DEF InPipe
<1>6. InPipe(Head(pipe).fd)
    BY <1>1, <1>3 DEF InPipe
<1> QED
    BY <1>3, <1>4, <1>5, <1>6

-----------------------------------------------------------------------------
\* Nothing moves.
LEMMA NothingMoves ==
    ASSUME Singly, \A fd \in Fds : OneBox(fd),
           UNCHANGED <<newConnFd, pipe, gFdSet, gWorkQueue, client, waiting, gLockQueue, lockFd>>,
           \A fd \in Fds : Open(fd)' <=> Open(fd)
    PROVE  Singly' /\ \A fd \in Fds : OneBox(fd)'
<1>1. Singly'
    BY DEF Singly, Once, OnceSent, OneWorker
<1>2. ASSUME NEW fd \in Fds
      PROVE  /\ InMain(fd)' <=> InMain(fd)
             /\ InPipe(fd)' <=> InPipe(fd)
             /\ InSet(fd)' <=> InSet(fd)
             /\ InQueue(fd)' <=> InQueue(fd)
             /\ InWorker(fd)' <=> InWorker(fd)
             /\ InWaiting(fd)' <=> InWaiting(fd)
             /\ InNotices(fd)' <=> InNotices(fd)
             /\ InLock(fd)' <=> InLock(fd)
    BY DEF InMain, InPipe, InSet, InQueue, InWorker, InWaiting, InNotices, InLock
<1> QED
    BY <1>1, <1>2 DEF OneBox

LEMMA MainPlaces ==
    ASSUME IInv, PInv, Main \/ (mainAccept /\ UNCHANGED notMain)
    PROVE  PInv'
<1> USE DEF IInv
<1>1. /\ UNCHANGED <<gFdSet, ready, gWorkQueue>>
      /\ UNCHANGED <<client, gLockQueue, lockFd, holder, waiting>>
    BY DEF Main, notMain, selectVars, fileVars
<1>2. PICK ws \in SUBSET Asleep : Wake(ws)
  <2>1. CASE mainClose
      BY <2>1, NotifyAllWakes DEF mainClose
  <2>2. CASE UNCHANGED pc
      BY <2>2, NobodyWakes
  <2> QED
      BY <2>1, <2>2 DEF Main, mainCheck, mainAccept, mainAnnounce, mainJoinWorkers,
            mainStopLock, mainJoinLock, mainJoinSelect
<1>3. \A w \in Workers : pc'[w] = pc[w] \/ (pc[w] = "asleep" /\ pc'[w] = "loop")
    BY <1>2, WakeKeeps
<1>4. /\ \A w \in Workers : client'[w] \in Fds => pc'[w] \in Busy
      /\ lockFd' \in Fds => lockPc' = "answer"
  <2>1. lockPc' = lockPc \/ lockPc = "asleep"
      BY DEF Main, mainCheck, mainAccept, mainAnnounce, mainClose, mainJoinWorkers,
             mainStopLock, mainJoinLock, mainJoinSelect, notifyLockThread
  <2> QED
      BY <1>1, <1>3, <2>1 DEF PInv, HeldToWork, Busy
<1>5. Singly /\ ready' \subseteq gFdSet' /\ \A fd \in Fds : OneBox(fd)
    BY <1>1 DEF PInv
<1>6. Once(gWorkQueue)' /\ Once(waiting)' /\ Once(gLockQueue)' /\ OneWorker'
    BY <1>1, <1>5 DEF Singly, Once, OneWorker
<1>7. ASSUME NEW fd \in Fds
      PROVE  /\ InSet(fd)' <=> InSet(fd)
             /\ InQueue(fd)' <=> InQueue(fd)
             /\ InWorker(fd)' <=> InWorker(fd)
             /\ InWaiting(fd)' <=> InWaiting(fd)
             /\ InNotices(fd)' <=> InNotices(fd)
             /\ InLock(fd)' <=> InLock(fd)
    BY <1>1 DEF InSet, InQueue, InWorker, InWaiting, InNotices, InLock
<1>8. CASE mainAccept
  <2>1. PICK new \in Fds : /\ ~Open(new) /\ newConnFd' = new
                           /\ socket' = [socket EXCEPT ![new] = "quiet"]
                           /\ mainPc = "accept" /\ mainPc' = "announce" /\ UNCHANGED pipe
      BY <1>8 DEF mainAccept
  <2>2. newConnFd \notin Fds
      BY <2>1 DEF PInv, HeldToWork
  <2>3. HeldToWork'
      BY <1>4, <2>1 DEF HeldToWork
  <2>4. Singly'
      BY <1>5, <1>6, <2>1 DEF Singly, OnceSent
  <2>5. ASSUME NEW fd \in Fds
        PROVE  /\ InMain(fd)' <=> fd = new
               /\ ~InMain(fd)
               /\ InPipe(fd)' <=> InPipe(fd)
               /\ Open(fd)' <=> Open(fd) \/ fd = new
      BY <2>1, <2>2 DEF InMain, InPipe, Open, TypeOK
  <2>6. \A fd \in Fds : OneBox(fd)'
      BY <1>5, <1>7, <2>1, <2>5 DEF OneBox
  <2> QED
      BY <1>5, <2>3, <2>4, <2>6 DEF PInv
<1>9. CASE mainAnnounce
  <2>1. /\ newConnFd \in Fds /\ newConnFd' = NoFd /\ NoFd \notin Fds
        /\ pipe' = Append(pipe, Msg("NEW_CONNECTION", newConnFd)) /\ UNCHANGED socket
      BY <1>9, DescriptorsAssumption DEF mainAnnounce, InHand
  <2>2. /\ Msg("NEW_CONNECTION", newConnFd) \in Message
        /\ Msg("NEW_CONNECTION", newConnFd).fd = newConnFd
      BY <2>1 DEF Msg, Message
  <2>3. InMain(newConnFd) /\ ~InPipe(newConnFd)
      BY <1>5, <2>1 DEF OneBox, InMain
  <2>4. OnceSent' /\ \A fd : InPipe(fd)' <=> InPipe(fd) \/ fd = newConnFd
      BY <1>5, <2>1, <2>2, <2>3, SentOnce DEF Singly
  <2>5. HeldToWork' /\ Singly'
      BY <1>4, <1>6, <2>1, <2>4 DEF HeldToWork, Singly
  <2>6. \A fd \in Fds : /\ InMain(fd) <=> fd = newConnFd
                        /\ ~InMain(fd)'
                        /\ Open(fd)' <=> Open(fd)
      BY <2>1 DEF InMain, Open
  <2>7. \A fd \in Fds : OneBox(fd)'
      BY <1>5, <1>7, <2>4, <2>6 DEF OneBox
  <2> QED
      BY <1>5, <2>5, <2>7 DEF PInv
<1>10. CASE mainCheck \/ mainClose \/ mainJoinWorkers \/ mainStopLock \/ mainJoinLock \/ mainJoinSelect
  <2>1. UNCHANGED <<newConnFd, socket>> /\ mainPc # "announce"
      BY <1>10 DEF mainCheck, mainClose, mainJoinWorkers, mainStopLock, mainJoinLock, mainJoinSelect
  <2>2. HeldToWork'
      BY <1>4, <2>1 DEF PInv, HeldToWork
  <2>3. OnceSent' /\ \A fd \in Fds : InPipe(fd)' <=> InPipe(fd)
    <3>1. CASE mainJoinLock
      <4>1. pipe' = Append(pipe, Msg("EXIT_REQUESTED", NoFd))
          BY <3>1 DEF mainJoinLock
      <4>2. /\ Msg("EXIT_REQUESTED", NoFd) \in Message /\ NoFd \notin Fds
            /\ Msg("EXIT_REQUESTED", NoFd).fd = NoFd
          BY DescriptorsAssumption DEF Msg, Message
      <4>3. OnceSent
          BY <1>5 DEF Singly
      <4>4. OnceSent' /\ \A fd : InPipe(fd)' <=> InPipe(fd) \/ fd = NoFd
          BY <4>1, <4>2, <4>3, SentOnce
      <4> QED
          BY <4>2, <4>4
    <3>2. CASE UNCHANGED pipe
        BY <1>5, <3>2 DEF Singly, OnceSent, InPipe
    <3> QED
        BY <1>10, <3>1, <3>2 DEF mainCheck, mainClose, mainJoinWorkers, mainStopLock, mainJoinSelect
  <2>4. \A fd \in Fds : (InMain(fd)' <=> InMain(fd)) /\ (Open(fd)' <=> Open(fd))
      BY <2>1 DEF InMain, Open
  <2>5. \A fd \in Fds : OneBox(fd)'
      BY <1>5, <1>7, <2>3, <2>4 DEF OneBox
  <2> QED
      BY <1>5, <1>6, <2>2, <2>3, <2>5 DEF PInv, Singly
<1> QED
    BY <1>8, <1>9, <1>10 DEF Main

-----------------------------------------------------------------------------
\* What select takes out of the pipe it monitors or closes.
LEMMA ReturnsPlaces ==
    ASSUME IInv, PInv, selectReturns, UNCHANGED <<gWorkQueue, client, waiting, gLockQueue, lockFd, newConnFd>>
    PROVE  Singly' /\ ready' \subseteq gFdSet' /\ \A fd \in Fds : OneBox(fd)'
<1> USE DEF IInv
<1> DEFINE inSet == {fd \in gFdSet : fd <= gMaxFd /\
                       IF fd = PipeRead THEN pipe # << >> ELSE Readable(fd)}
           message == Head(pipe)
<1>1. ready' = inSet \ {PipeRead} /\ inSet \subseteq gFdSet
    BY DEF selectReturns
<1>2. Singly /\ \A fd \in Fds : OneBox(fd)
    BY DEF PInv
<1>3. Once(gWorkQueue)' /\ Once(waiting)' /\ Once(gLockQueue)' /\ OneWorker'
    BY <1>2 DEF Singly, Once, OneWorker
<1>4. ASSUME NEW fd \in Fds
      PROVE  /\ InMain(fd)' <=> InMain(fd)
             /\ InQueue(fd)' <=> InQueue(fd)
             /\ InWorker(fd)' <=> InWorker(fd)
             /\ InWaiting(fd)' <=> InWaiting(fd)
             /\ InNotices(fd)' <=> InNotices(fd)
             /\ InLock(fd)' <=> InLock(fd)
    BY DEF InMain, InQueue, InWorker, InWaiting, InNotices, InLock
<1>5. CASE PipeRead \notin inSet
  <2>1. UNCHANGED <<pipe, gFdSet, gNumClientConnected, socket>>
      BY <1>5 DEF selectReturns
  <2>2. \A fd \in Fds : Open(fd)' <=> Open(fd)
      BY <2>1 DEF Open
  <2> QED
      BY <1>1, <1>2, <2>1, <2>2, NothingMoves
<1>6. CASE PipeRead \in inSet
  <2>1. pipe # << >> /\ pipe' = Tail(pipe)
      BY <1>6 DEF selectReturns
  <2>2. /\ OnceSent'
        /\ \A fd \in Fds : InPipe(fd)' <=> InPipe(fd) /\ fd # message.fd
        /\ message \in Message /\ InPipe(message.fd)
      BY <1>2, <2>1, ReceivedOnce DEF Singly
  <2>3. Singly'
      BY <1>3, <2>2 DEF Singly
  <2>4. \/ /\ message.type = "EXIT_REQUESTED" /\ UNCHANGED <<gFdSet, socket>>
        \/ /\ message.type \in {"NEW_CONNECTION", "SET_CONNECTION"}
           /\ gFdSet' = gFdSet \cup {message.fd} /\ UNCHANGED socket
        \/ /\ message.type = "REM_CONNECTION" /\ UNCHANGED gFdSet
           /\ socket' = [socket EXCEPT ![message.fd] = "closed"]
      BY <1>6 DEF selectReturns
  <2> HIDE DEF inSet, message
  <2>5. ready' \subseteq gFdSet'
      BY <1>1, <2>4
  <2>6. \/ message.fd = NoFd /\ message.type = "EXIT_REQUESTED"
        \/ message.fd \in Fds /\ message.type # "EXIT_REQUESTED"
      BY <2>2 DEF Message
  <2>7. ASSUME NEW fd \in Fds PROVE OneBox(fd)'
    <3>1. CASE message.type = "EXIT_REQUESTED"
      <4>1. /\ InSet(fd)' <=> InSet(fd)
            /\ Open(fd)' <=> Open(fd)
            /\ fd # message.fd
          BY <2>4, <2>6, <3>1, DescriptorsAssumption DEF InSet, Open
      <4> QED
          BY <1>2, <1>4, <2>2, <4>1 DEF OneBox
    <3>2. CASE message.type \in {"NEW_CONNECTION", "SET_CONNECTION"}
      <4>1. /\ InSet(fd)' <=> InSet(fd) \/ fd = message.fd
            /\ Open(fd)' <=> Open(fd)
          BY <2>4, <3>2 DEF InSet, Open
      <4> QED
          BY <1>2, <1>4, <2>2, <4>1 DEF OneBox
    <3>3. CASE message.type = "REM_CONNECTION"
      <4>1. /\ InSet(fd)' <=> InSet(fd)
            /\ Open(fd)' <=> Open(fd) /\ fd # message.fd
          BY <2>4, <3>3 DEF InSet, Open, TypeOK
      <4> QED
          BY <1>2, <1>4, <2>2, <4>1 DEF OneBox
    <3> QED
        BY <2>4, <3>1, <3>2, <3>3
  <2> QED
      BY <2>3, <2>5, <2>7
<1> QED
    BY <1>5, <1>6

\* A ready descriptor goes into the work queue, or is closed.
LEMMA ScanPlaces ==
    ASSUME IInv, PInv, selectScan, UNCHANGED <<client, waiting, gLockQueue, lockFd, newConnFd>>
    PROVE  Singly' /\ ready' \subseteq gFdSet' /\ \A fd \in Fds : OneBox(fd)'
<1> USE DEF IInv
<1>1. PICK one \in Fds : one = Min(ready) /\ one \in ready
  <2>1. ready \in SUBSET Nat /\ ready # {} /\ ready \subseteq Fds
      BY DescriptorsAssumption DEF selectScan, TypeOK
  <2> QED
      BY <2>1, MinOf
<1>2. /\ ready' = ready \ {one} /\ gFdSet' = gFdSet \ {one} /\ UNCHANGED pipe
      /\ \/ gWorkQueue' = Append(gWorkQueue, one) /\ UNCHANGED socket
         \/ socket' = [socket EXCEPT ![one] = "closed"] /\ UNCHANGED gWorkQueue
    BY <1>1 DEF selectScan, Unmonitored
<1>3. Singly /\ (\A fd \in Fds : OneBox(fd)) /\ ready \subseteq gFdSet
    BY DEF PInv
<1>4. InSet(one) /\ ~InQueue(one)
    BY <1>1, <1>3 DEF OneBox, InSet
<1>5. ASSUME NEW fd \in Fds
      PROVE  /\ InMain(fd)' <=> InMain(fd)
             /\ InPipe(fd)' <=> InPipe(fd)
             /\ InSet(fd)' <=> InSet(fd) /\ fd # one
             /\ InWorker(fd)' <=> InWorker(fd)
             /\ InWaiting(fd)' <=> InWaiting(fd)
             /\ InNotices(fd)' <=> InNotices(fd)
             /\ InLock(fd)' <=> InLock(fd)
    BY <1>2 DEF InMain, InPipe, InSet, InWorker, InWaiting, InNotices, InLock
<1>6. Once(waiting)' /\ Once(gLockQueue)' /\ OneWorker' /\ OnceSent' /\ Once(gWorkQueue)
    BY <1>2, <1>3 DEF Singly, Once, OneWorker, OnceSent
<1>7. ready' \subseteq gFdSet'
    BY <1>2, <1>3
<1>8. CASE gWorkQueue' = Append(gWorkQueue, one) /\ UNCHANGED socket
  <2>1. gWorkQueue \in Seq(Fds) /\ Once(gWorkQueue) /\ ~In(gWorkQueue, one)
      BY <1>4, <1>6 DEF InQueue, TypeOK
  <2>2. /\ Once(Append(gWorkQueue, one))
        /\ \A y : In(Append(gWorkQueue, one), y) <=> In(gWorkQueue, y) \/ y = one
      BY <2>1, AppendOnce
  <2>3. Once(gWorkQueue)' /\ \A fd : InQueue(fd)' <=> InQueue(fd) \/ fd = one
      BY <1>8, <2>1, <2>2 DEF InQueue
  <2>4. \A fd \in Fds : Open(fd)' <=> Open(fd)
      BY <1>8 DEF Open
  <2>5. \A fd \in Fds : OneBox(fd)'
      BY <1>3, <1>4, <1>5, <2>3, <2>4 DEF OneBox
  <2> QED
      BY <1>6, <1>7, <2>3, <2>5 DEF Singly
<1>9. CASE socket' = [socket EXCEPT ![one] = "closed"] /\ UNCHANGED gWorkQueue
  <2>1. Once(gWorkQueue)' /\ \A fd : InQueue(fd)' <=> InQueue(fd)
      BY <1>6, <1>9 DEF InQueue, Once
  <2>2. \A fd \in Fds : Open(fd)' <=> Open(fd) /\ fd # one
      BY <1>9 DEF Open, TypeOK
  <2>3. \A fd \in Fds : OneBox(fd)'
      BY <1>3, <1>4, <1>5, <2>1, <2>2 DEF OneBox
  <2> QED
      BY <1>6, <1>7, <2>1, <2>3 DEF Singly
<1> QED
    BY <1>2, <1>8, <1>9

LEMMA SelectPlaces == ASSUME IInv, PInv, Select PROVE PInv'
<1> USE DEF IInv
<1>1. /\ UNCHANGED <<newConnFd, mainPc, client, gLockQueue, lockPc, lockFd, holder, waiting>>
    BY DEF Select, mainVars, lockVars, fileVars
<1>2. \A w \in Workers : pc'[w] = pc[w] \/ (pc[w] = "asleep" /\ pc'[w] = "loop")
  <2>1. CASE UNCHANGED pc
      BY <2>1
  <2>2. CASE notify_all \/ notify_one
      BY <2>2, NotifyAllWakes, NotifyOneWakes, WakeKeeps
  <2> QED
      BY <2>1, <2>2 DEF Select, selectLoop, selectReturns, selectNotifyAll, selectScan, selectNotify
<1>3. HeldToWork'
    BY <1>1, <1>2 DEF PInv, HeldToWork, Busy
<1>4. CASE selectReturns
  <2>1. UNCHANGED gWorkQueue
      BY <1>4 DEF selectReturns
  <2> QED
      BY <1>1, <1>3, <1>4, <2>1, ReturnsPlaces DEF PInv
<1>5. CASE selectScan
    BY <1>1, <1>3, <1>5, ScanPlaces DEF PInv
<1>6. CASE selectLoop \/ selectNotifyAll \/ selectNotify
  <2>1. UNCHANGED <<pipe, gFdSet, ready, gWorkQueue, socket>>
      BY <1>6 DEF selectLoop, selectNotifyAll, selectNotify
  <2>2. \A fd \in Fds : Open(fd)' <=> Open(fd)
      BY <2>1 DEF Open
  <2> QED
      BY <1>1, <1>3, <2>1, <2>2, NothingMoves DEF PInv
<1> QED
    BY <1>4, <1>5, <1>6 DEF Select

-----------------------------------------------------------------------------
(* The workers. *)

\* The first of those who wait for the lock moves to the notifications.
LEMMA UnlockPlaces ==
    ASSUME TypeOK, Singly, \A fd \in Fds : OneBox(fd), NEW c, unlock(c)
    PROVE  /\ Once(waiting)' /\ Once(gLockQueue)'
           /\ UNCHANGED lockFd /\ (lockPc = "answer" => lockPc' = "answer")
           /\ \/ \A fd \in Fds : (InWaiting(fd)' <=> InWaiting(fd)) /\ (InNotices(fd)' <=> InNotices(fd))
              \/ \E next \in Fds :
                    /\ InWaiting(next)
                    /\ \A fd \in Fds : /\ InWaiting(fd)' <=> InWaiting(fd) /\ fd # next
                                       /\ InNotices(fd)' <=> InNotices(fd) \/ fd = next
<1>1. Once(waiting) /\ Once(gLockQueue)
    BY DEF Singly
<1>2. CASE holder = c /\ waiting # << >>
  <2>1. PICK next : next = Head(waiting)
      OBVIOUS
  <2>2. /\ waiting' = Tail(waiting) /\ UNCHANGED lockFd
        /\ gLockQueue' = Append(gLockQueue, next)
        /\ lockPc' = IF lockPc = "asleep" THEN "loop" ELSE lockPc
      BY <1>2, <2>1 DEF unlock, pushNotification, notifyLockThread
  <2>3. waiting \in Seq(Fds) /\ gLockQueue \in Seq(Fds) /\ next \in Fds
      BY <1>2, <2>1 DEF TypeOK
  <2>4. /\ Once(Tail(waiting))
        /\ \A y : In(Tail(waiting), y) <=> In(waiting, y) /\ y # next
        /\ In(waiting, next)
      BY <1>1, <1>2, <2>1, <2>3, TailOnce
  <2>5. InWaiting(next) /\ ~In(gLockQueue, next)
      BY <2>3, <2>4 DEF OneBox, InWaiting, InNotices
  <2>6. /\ Once(Append(gLockQueue, next))
        /\ \A y : In(Append(gLockQueue, next), y) <=> In(gLockQueue, y) \/ y = next
      BY <1>1, <2>3, <2>5, AppendOnce
  <2>7. \A fd \in Fds : /\ InWaiting(fd)' <=> InWaiting(fd) /\ fd # next
                        /\ InNotices(fd)' <=> InNotices(fd) \/ fd = next
      BY <2>2, <2>4, <2>6 DEF InWaiting, InNotices
  <2> QED
      BY <2>2, <2>3, <2>4, <2>5, <2>6, <2>7
<1>3. CASE ~(holder = c /\ waiting # << >>)
  <2>1. UNCHANGED <<waiting, gLockQueue, lockPc, lockFd>>
      BY <1>3 DEF unlock, lockVars
  <2> QED
      BY <1>1, <2>1 DEF InWaiting, InNotices
<1> QED
    BY <1>2, <1>3

\* No worker but w moves, and w only if it held nothing or holds nothing now.
LEMMA WorkerHolds ==
    ASSUME TypeOK, Singly, NEW w \in Workers, NEW x \in Fds \cup {NoFd},
           client' = [client EXCEPT ![w] = x], x \in Fds => ~InWorker(x)
    PROVE  /\ OneWorker'
           /\ \A v \in Workers \ {w} : client'[v] = client[v]
           /\ client'[w] = x
           /\ \A fd \in Fds : InWorker(fd)' <=> (InWorker(fd) /\ client[w] # fd) \/ fd = x
<1>1. client \in [Workers -> Fds \cup {NoFd}] /\ OneWorker
    BY DEF TypeOK, Singly
<1>2. client'[w] = x /\ \A v \in Workers \ {w} : client'[v] = client[v]
    BY <1>1
<1>3. OneWorker'
    BY <1>1, <1>2 DEF OneWorker, InWorker
<1>4. \A fd \in Fds : InWorker(fd)' <=> (InWorker(fd) /\ client[w] # fd) \/ fd = x
    BY <1>1, <1>2 DEF OneWorker, InWorker
<1> QED
    BY <1>2, <1>3, <1>4

LEMMA LoopPlaces ==
    ASSUME IInv, PInv, NEW w \in Workers, Worker(w), workerLoop(w) \/ workerWait(w)
    PROVE  PInv'
<1> USE DEF IInv
<1>1. /\ UNCHANGED <<mainPc, newConnFd, gFdSet, ready>>
      /\ UNCHANGED <<pipe, gLockQueue, lockPc, lockFd, holder, waiting, socket>>
    BY DEF Worker, workerLoop, workerWait, mainVars, selectVars, lockVars, fileVars
<1>2. PICK there \in {"done", "work", "beforeWait", "asleep"} :
        /\ pc' = [pc EXCEPT ![w] = there] /\ pc[w] \in {"loop", "beforeWait"}
        /\ there = "work" => /\ gWorkQueue # << >> /\ gWorkQueue' = Tail(gWorkQueue)
                             /\ client' = [client EXCEPT ![w] = Head(gWorkQueue)]
        /\ there # "work" => UNCHANGED <<gWorkQueue, client>>
    BY DEF workerLoop, workerWait, At
<1>3. pc'[w] = there /\ \A v \in Workers \ {w} : pc'[v] = pc[v]
    BY <1>2, AtMoves
<1>4. client[w] \notin Fds
    BY <1>2 DEF PInv, HeldToWork, Busy
<1>5. Singly /\ (\A fd \in Fds : OneBox(fd)) /\ ready' \subseteq gFdSet' /\ HeldToWork
    BY <1>1 DEF PInv
<1>6. \A fd \in Fds : Open(fd)' <=> Open(fd)
    BY <1>1 DEF Open
<1>7. CASE there # "work"
  <2>1. HeldToWork'
      BY <1>1, <1>2, <1>3, <1>4, <1>5, <1>7 DEF HeldToWork
  <2> QED
      BY <1>1, <1>2, <1>5, <1>6, <1>7, <2>1, NothingMoves DEF PInv
<1>8. CASE there = "work"
  <2>1. PICK x \in Fds : x = Head(gWorkQueue)
      BY <1>2, <1>8 DEF TypeOK
  <2>2. gWorkQueue \in Seq(Fds) /\ Once(gWorkQueue)
      BY <1>5 DEF TypeOK, Singly
  <2>3. /\ Once(Tail(gWorkQueue))
        /\ \A y : In(Tail(gWorkQueue), y) <=> In(gWorkQueue, y) /\ y # x
        /\ In(gWorkQueue, x)
      BY <1>2, <1>8, <2>1, <2>2, TailOnce
  <2>4. Once(gWorkQueue)' /\ InQueue(x) /\ \A fd : InQueue(fd)' <=> InQueue(fd) /\ fd # x
      BY <1>2, <1>8, <2>3 DEF InQueue
  <2>5. ~InWorker(x)
      BY <1>5, <2>4 DEF OneBox
  <2>6. /\ OneWorker'
        /\ \A v \in Workers \ {w} : client'[v] = client[v]
        /\ \A fd \in Fds : InWorker(fd)' <=> (InWorker(fd) /\ client[w] # fd) \/ fd = x
      BY <1>2, <1>5, <1>8, <2>1, <2>5, WorkerHolds
  <2>7. Singly'
      BY <1>1, <1>5, <2>4, <2>6 DEF Singly, Once, OnceSent
  <2>8. HeldToWork'
      BY <1>1, <1>3, <1>5, <1>8, <2>6 DEF HeldToWork, Busy
  <2>9. ASSUME NEW fd \in Fds
        PROVE  /\ InMain(fd)' <=> InMain(fd)
               /\ InPipe(fd)' <=> InPipe(fd)
               /\ InSet(fd)' <=> InSet(fd)
               /\ InWaiting(fd)' <=> InWaiting(fd)
               /\ InNotices(fd)' <=> InNotices(fd)
               /\ InLock(fd)' <=> InLock(fd)
               /\ InWorker(fd)' <=> InWorker(fd) \/ fd = x
      BY <1>1, <1>4, <2>6 DEF InMain, InPipe, InSet, InWaiting, InNotices, InLock
  <2>10. \A fd \in Fds : OneBox(fd)'
      BY <1>5, <1>6, <2>4, <2>9 DEF OneBox
  <2> QED
      BY <1>5, <2>7, <2>8, <2>10 DEF PInv
<1> QED
    BY <1>7, <1>8

LEMMA HandlePlaces ==
    ASSUME IInv, PInv, NEW w \in Workers, Worker(w), workerHandle(w) \/ workerReadNothing(w)
    PROVE  PInv'
<1> USE DEF IInv
<1>1. UNCHANGED <<mainPc, newConnFd, gFdSet, ready, gWorkQueue, pipe>>
    BY DEF Worker, workerHandle, workerReadNothing, mainVars, selectVars
<1>2. PICK x \in Fds : x = client[w] /\ pc[w] = "work" /\ InWorker(x)
    BY DEF workerHandle, workerReadNothing, At, InHand, Busy, InWorker
<1>3. Singly /\ (\A fd \in Fds : OneBox(fd)) /\ ready' \subseteq gFdSet' /\ HeldToWork
    BY <1>1 DEF PInv
<1>4. \A fd \in Fds : Open(fd)' <=> Open(fd)
    BY <1>2 DEF workerHandle, workerReadNothing, Open, TypeOK
<1>5. Once(gWorkQueue)' /\ OnceSent'
    BY <1>1, <1>3 DEF Singly, Once, OnceSent
<1>6. ASSUME NEW fd \in Fds
      PROVE  /\ InMain(fd)' <=> InMain(fd)
             /\ InPipe(fd)' <=> InPipe(fd)
             /\ InSet(fd)' <=> InSet(fd)
             /\ InQueue(fd)' <=> InQueue(fd)
    BY <1>1 DEF InMain, InPipe, InSet, InQueue
<1>7. CASE /\ UNCHANGED client
           /\ pc' = [pc EXCEPT ![w] = "respond"] \/ pc' = [pc EXCEPT ![w] = "remove"]
           /\ \/ UNCHANGED <<waiting, gLockQueue, lockPc, lockFd>>
              \/ unlock(x)
  <2>1. /\ Once(waiting)' /\ Once(gLockQueue)'
        /\ UNCHANGED lockFd /\ (lockPc = "answer" => lockPc' = "answer")
        /\ \/ \A fd \in Fds : (InWaiting(fd)' <=> InWaiting(fd)) /\ (InNotices(fd)' <=> InNotices(fd))
           \/ \E next \in Fds :
                 /\ InWaiting(next)
                 /\ \A fd \in Fds : /\ InWaiting(fd)' <=> InWaiting(fd) /\ fd # next
                                    /\ InNotices(fd)' <=> InNotices(fd) \/ fd = next
    <3>1. CASE UNCHANGED <<waiting, gLockQueue, lockPc, lockFd>>
        BY <1>3, <3>1 DEF Singly, Once, InWaiting, InNotices
    <3>2. CASE unlock(x)
        BY <1>3, <3>2, UnlockPlaces
    <3> QED
        BY <1>7, <3>1, <3>2
  <2>2. /\ pc'[w] \in Busy /\ \A v \in Workers \ {w} : pc'[v] = pc[v]
      BY <1>7 DEF TypeOK, Busy
  <2>3. HeldToWork'
      BY <1>1, <1>3, <1>7, <2>1, <2>2 DEF HeldToWork
  <2>4. Singly'
      BY <1>3, <1>5, <1>7, <2>1 DEF Singly, OneWorker
  <2>5. \A fd \in Fds : (InWorker(fd)' <=> InWorker(fd)) /\ (InLock(fd)' <=> InLock(fd))
      BY <1>7, <2>1 DEF InWorker, InLock
  <2>6. \A fd \in Fds : OneBox(fd)'
      BY <1>3, <1>4, <1>6, <2>1, <2>5 DEF OneBox
  <2> QED
      BY <1>3, <2>3, <2>4, <2>6 DEF PInv
<1>8. CASE /\ client' = [client EXCEPT ![w] = NoFd] /\ pc' = [pc EXCEPT ![w] = "loop"]
           /\ waiting' = Append(waiting, x) /\ UNCHANGED <<gLockQueue, lockPc, lockFd>>
  <2>1. waiting \in Seq(Fds) /\ Once(waiting) /\ ~In(waiting, x)
      BY <1>2, <1>3 DEF TypeOK, Singly, OneBox, InWaiting
  <2>2. Once(Append(waiting, x)) /\ \A y : In(Append(waiting, x), y) <=> In(waiting, y) \/ y = x
      BY <2>1, AppendOnce
  <2>3. Once(waiting)' /\ \A fd : InWaiting(fd)' <=> InWaiting(fd) \/ fd = x
      BY <1>8, <2>2 DEF InWaiting
  <2>4. /\ OneWorker'
        /\ \A v \in Workers \ {w} : client'[v] = client[v]
        /\ client'[w] = NoFd
        /\ \A fd \in Fds : InWorker(fd)' <=> (InWorker(fd) /\ client[w] # fd) \/ fd = NoFd
      BY <1>3, <1>8, WorkerHolds, DescriptorsAssumption
  <2>5. Once(gLockQueue)'
      BY <1>3, <1>8 DEF Singly, Once
  <2>6. Singly'
      BY <1>5, <2>3, <2>4, <2>5 DEF Singly
  <2>7. \A v \in Workers \ {w} : pc'[v] = pc[v]
      BY <1>8 DEF TypeOK
  <2>8. HeldToWork'
      BY <1>1, <1>3, <1>8, <2>4, <2>7, DescriptorsAssumption DEF HeldToWork
  <2>9. \A fd \in Fds : /\ InWorker(fd)' <=> InWorker(fd) /\ fd # x
                        /\ InNotices(fd)' <=> InNotices(fd)
                        /\ InLock(fd)' <=> InLock(fd)
      BY <1>2, <1>8, <2>4, DescriptorsAssumption DEF InNotices, InLock
  <2>10. \A fd \in Fds : OneBox(fd)'
      BY <1>2, <1>3, <1>4, <1>6, <2>3, <2>9 DEF OneBox
  <2> QED
      BY <1>3, <2>6, <2>8, <2>10 DEF PInv
<1>9. CASE workerHandle(w)
    BY <1>2, <1>7, <1>8, <1>9 DEF workerHandle, At, lockVars, fileVars
<1>10. CASE workerReadNothing(w)
    BY <1>2, <1>7, <1>10 DEF workerReadNothing, At, lockVars, fileVars
<1> QED
    BY <1>9, <1>10

\* What a thread hands back is in the pipe.
LEMMA HandedBack ==
    ASSUME TypeOK, OnceSent, NEW x \in Fds, ~InPipe(x),
           pipe' = Append(pipe, Msg("SET_CONNECTION", x)) \/ pipe' = Append(pipe, Msg("REM_CONNECTION", x))
    PROVE  OnceSent' /\ \A fd : InPipe(fd)' <=> InPipe(fd) \/ fd = x
<1>1. PICK m \in Message : m.fd = x /\ pipe' = Append(pipe, m)
    BY DEF Msg, Message
<1> QED
    BY <1>1, SentOnce

LEMMA ReturnPlaces ==
    ASSUME IInv, PInv, NEW w \in Workers, Worker(w), workerRespond(w) \/ workerRemove(w)
    PROVE  PInv'
<1> USE DEF IInv
<1>1. /\ UNCHANGED <<mainPc, newConnFd, gFdSet, ready, gWorkQueue>>
      /\ UNCHANGED <<gLockQueue, lockPc, lockFd, waiting>>
    BY DEF Worker, workerRespond, workerRemove, mainVars, selectVars, lockVars, fileVars
<1>2. PICK x \in Fds : x = client[w] /\ InWorker(x)
    BY DEF workerRespond, workerRemove, At, InHand, Busy, InWorker
<1>3. Singly /\ (\A fd \in Fds : OneBox(fd)) /\ ready' \subseteq gFdSet' /\ HeldToWork
    BY <1>1 DEF PInv
<1>4. /\ pipe' = Append(pipe, Msg("SET_CONNECTION", x)) \/ pipe' = Append(pipe, Msg("REM_CONNECTION", x))
      /\ client' = [client EXCEPT ![w] = NoFd] /\ pc' = [pc EXCEPT ![w] = "loop"]
    BY <1>2 DEF workerRespond, workerRemove, replyTo, SetConnection, At
<1>5. \A fd \in Fds : Open(fd)' <=> Open(fd)
    BY <1>2 DEF workerRespond, workerRemove, replyTo, Open, TypeOK
<1>6. ~InPipe(x) /\ OnceSent
    BY <1>2, <1>3 DEF OneBox, Singly
<1>7. OnceSent' /\ \A fd : InPipe(fd)' <=> InPipe(fd) \/ fd = x
    BY <1>4, <1>6, HandedBack
<1>8. /\ OneWorker'
      /\ \A v \in Workers \ {w} : client'[v] = client[v]
      /\ client'[w] = NoFd
      /\ \A fd \in Fds : InWorker(fd)' <=> (InWorker(fd) /\ client[w] # fd) \/ fd = NoFd
    BY <1>3, <1>4, WorkerHolds, DescriptorsAssumption
<1>9. Singly'
    BY <1>1, <1>3, <1>7, <1>8 DEF Singly, Once
<1>10. \A v \in Workers \ {w} : pc'[v] = pc[v]
    BY <1>4 DEF TypeOK
<1>11. HeldToWork'
    BY <1>1, <1>3, <1>8, <1>10, DescriptorsAssumption DEF HeldToWork
<1>12. ASSUME NEW fd \in Fds
       PROVE  /\ InMain(fd)' <=> InMain(fd)
              /\ InSet(fd)' <=> InSet(fd)
              /\ InQueue(fd)' <=> InQueue(fd)
              /\ InWorker(fd)' <=> InWorker(fd) /\ fd # x
              /\ InWaiting(fd)' <=> InWaiting(fd)
              /\ InNotices(fd)' <=> InNotices(fd)
              /\ InLock(fd)' <=> InLock(fd)
    BY <1>1, <1>2, <1>8, DescriptorsAssumption DEF InMain, InSet, InQueue, InWaiting, InNotices, InLock
<1>13. \A fd \in Fds : OneBox(fd)'
    BY <1>2, <1>3, <1>5, <1>7, <1>12 DEF OneBox
<1> QED
    BY <1>3, <1>9, <1>11, <1>13 DEF PInv

LEMMA LockThreadPlaces == ASSUME IInv, PInv, LockThread PROVE PInv'
<1> USE DEF IInv
<1>1. UNCHANGED <<mainPc, newConnFd, gFdSet, ready, gWorkQueue, pc, client, waiting>>
    BY DEF LockThread, mainVars, selectVars, workVars, fileVars
<1>2. Singly /\ (\A fd \in Fds : OneBox(fd)) /\ ready' \subseteq gFdSet' /\ HeldToWork
    BY <1>1 DEF PInv
<1>3. ASSUME NEW fd \in Fds
      PROVE  /\ InMain(fd)' <=> InMain(fd)
             /\ InSet(fd)' <=> InSet(fd)
             /\ InQueue(fd)' <=> InQueue(fd)
             /\ InWorker(fd)' <=> InWorker(fd)
             /\ InWaiting(fd)' <=> InWaiting(fd)
    BY <1>1 DEF InMain, InSet, InQueue, InWorker, InWaiting
<1>4. Once(gWorkQueue)' /\ Once(waiting)' /\ OneWorker' /\ Once(gLockQueue) /\ OnceSent
    BY <1>1, <1>2 DEF Singly, Once, OneWorker
<1>5. CASE lockThreadLoop /\ lockPc' = "answer"
  <2>1. /\ lockPc = "loop" /\ gLockQueue # << >> /\ gLockQueue' = Tail(gLockQueue)
        /\ lockFd' = Head(gLockQueue) /\ UNCHANGED <<pipe, socket>>
      BY <1>5 DEF lockThreadLoop
  <2>2. PICK x \in Fds : x = Head(gLockQueue)
      BY <2>1 DEF TypeOK
  <2>3. lockFd \notin Fds
      BY <1>2, <2>1 DEF HeldToWork
  <2>4. /\ Once(Tail(gLockQueue))
        /\ \A y : In(Tail(gLockQueue), y) <=> In(gLockQueue, y) /\ y # x
        /\ In(gLockQueue, x)
      BY <1>4, <2>1, <2>2, TailOnce DEF TypeOK
  <2>5. \A fd \in Fds : /\ InNotices(fd)' <=> InNotices(fd) /\ fd # x
                        /\ InLock(fd)' <=> fd = x
                        /\ ~InLock(fd)
                        /\ InPipe(fd)' <=> InPipe(fd)
                        /\ Open(fd)' <=> Open(fd)
      BY <2>1, <2>2, <2>3, <2>4 DEF InNotices, InLock, InPipe, Open
  <2>6. InNotices(x)
      BY <2>4 DEF InNotices
  <2>7. Singly'
      BY <1>4, <2>1, <2>4 DEF Singly, OnceSent
  <2>8. HeldToWork'
      BY <1>1, <1>2, <1>5 DEF HeldToWork
  <2>9. \A fd \in Fds : OneBox(fd)'
      BY <1>2, <1>3, <2>5, <2>6 DEF OneBox
  <2> QED
      BY <1>2, <2>7, <2>8, <2>9 DEF PInv
<1>6. CASE lockThreadAnswer
  <2>1. PICK x \in Fds : /\ x = lockFd /\ lockFd' = NoFd /\ lockPc' = "loop" /\ UNCHANGED gLockQueue
                         /\ pipe' = Append(pipe, Msg("SET_CONNECTION", x))
                         /\ socket' = [socket EXCEPT ![x] = IF @ = "serving" THEN "reply" ELSE @]
      BY <1>6 DEF lockThreadAnswer, replyTo, SetConnection, InHand
  <2>2. InLock(x) /\ ~InPipe(x)
      BY <1>2, <2>1 DEF OneBox, InLock
  <2>3. OnceSent' /\ \A fd : InPipe(fd)' <=> InPipe(fd) \/ fd = x
      BY <1>4, <2>1, <2>2, HandedBack
  <2>4. \A fd \in Fds : /\ InNotices(fd)' <=> InNotices(fd)
                        /\ ~InLock(fd)'
                        /\ InLock(fd) <=> fd = x
                        /\ Open(fd)' <=> Open(fd)
      BY <2>1, DescriptorsAssumption DEF InNotices, InLock, Open, TypeOK
  <2>5. Singly'
      BY <1>4, <2>1, <2>3 DEF Singly, Once
  <2>6. HeldToWork'
      BY <1>1, <1>2, <2>1, DescriptorsAssumption DEF HeldToWork
  <2>7. \A fd \in Fds : OneBox(fd)'
      BY <1>2, <1>3, <2>3, <2>4 DEF OneBox
  <2> QED
      BY <1>2, <2>5, <2>6, <2>7 DEF PInv
<1>7. CASE UNCHANGED <<gLockQueue, lockFd, pipe, socket>> /\ lockPc # "answer"
  <2>1. HeldToWork'
      BY <1>1, <1>2, <1>7 DEF HeldToWork
  <2>2. \A fd \in Fds : Open(fd)' <=> Open(fd)
      BY <1>7 DEF Open
  <2> QED
      BY <1>1, <1>2, <1>7, <2>1, <2>2, NothingMoves DEF PInv
<1> QED
    BY <1>5, <1>6, <1>7 DEF LockThread, lockThreadLoop, lockThreadWait

LEMMA OutsidePlaces ==
    ASSUME IInv, PInv,
           \/ signalHandlerCallback
           \/ \E fd \in Fds : clientSend(fd) \/ clientRead(fd) \/ clientLeave(fd)
           \/ UNCHANGED vars
    PROVE  PInv'
<1> USE DEF IInv
<1>1. /\ UNCHANGED <<newConnFd, pipe, gFdSet, ready, gWorkQueue>>
      /\ UNCHANGED <<pc, client, gLockQueue, lockPc, lockFd, waiting>>
      /\ mainPc = "announce" => mainPc' = "announce"
    BY DEF signalHandlerCallback, clientSend, clientRead, clientLeave, notClient, vars,
           mainVars, selectVars, workVars, lockVars, fileVars
<1>2. \A fd \in Fds : Open(fd)' <=> Open(fd)
  <2>1. CASE signalHandlerCallback \/ UNCHANGED vars
      BY <2>1 DEF signalHandlerCallback, vars, Open
  <2>2. ASSUME NEW c \in Fds, clientSend(c) \/ clientRead(c) \/ clientLeave(c)
        PROVE  \A fd \in Fds : Open(fd)' <=> Open(fd)
      BY <2>2 DEF clientSend, clientRead, clientLeave, Becomes, Open, TypeOK
  <2> QED
      BY <2>1, <2>2
<1>3. HeldToWork'
    BY <1>1 DEF PInv, HeldToWork
<1> QED
    BY <1>1, <1>2, <1>3, NothingMoves DEF PInv

LEMMA InitPlaces == Init => PInv
<1> SUFFICES ASSUME Init PROVE PInv
    OBVIOUS
<1> USE DescriptorsAssumption DEF Init
<1>1. \A fd \in Fds : fd # NoFd /\ fd # PipeRead
    OBVIOUS
<1>2. HeldToWork
    BY <1>1 DEF HeldToWork
<1>3. DOMAIN pipe = {} /\ DOMAIN gWorkQueue = {} /\ DOMAIN waiting = {} /\ DOMAIN gLockQueue = {}
    OBVIOUS
<1>4. Singly
  <2>1. \A w \in Workers : client[w] \notin Fds
      BY <1>1
  <2> QED
      BY <1>3, <2>1 DEF Singly, Once, OnceSent, OneWorker
<1>5. ASSUME NEW fd \in Fds PROVE OneBox(fd)
  <2>1. ~Open(fd) /\ ~InMain(fd) /\ ~InSet(fd) /\ ~InWorker(fd) /\ ~InLock(fd)
      BY <1>1 DEF Open, InMain, InSet, InWorker, InLock
  <2>2. ~InPipe(fd) /\ ~InQueue(fd) /\ ~InWaiting(fd) /\ ~InNotices(fd)
      BY <1>3 DEF InPipe, InQueue, InWaiting, InNotices, In
  <2> QED
      BY <2>1, <2>2 DEF OneBox
<1> QED
    BY <1>2, <1>4, <1>5 DEF PInv

LEMMA NextPlaces == IInv /\ PInv /\ [Next]_vars => PInv'
<1> SUFFICES ASSUME IInv, PInv, [Next]_vars PROVE PInv'
    OBVIOUS
<1>1. ASSUME NEW w \in Workers, Worker(w) PROVE PInv'
    BY <1>1, LoopPlaces, HandlePlaces, ReturnPlaces DEF Worker
<1> QED
    BY <1>1, MainPlaces, SelectPlaces, LockThreadPlaces, OutsidePlaces DEF Next

LEMMA PInvHolds == Spec => []PInv
BY InitPlaces, NextPlaces, IInvHolds, PTL DEF Spec

LEMMA AtMostOne ==
    ASSUME NEW S, \A x, y \in S : x = y
    PROVE  Cardinality(S) = IF S = {} THEN 0 ELSE 1
<1>1. CASE S = {}
    BY <1>1, FS_EmptySet
<1>2. CASE S # {}
  <2>1. PICK x : S = {x}
      BY <1>2
  <2> QED
      BY <2>1, FS_Singleton
<1> QED
    BY <1>1, <1>2

LEMMA PlacesCounted ==
    ASSUME IInv, PInv
    PROVE  OnePlace
<1> SUFFICES ASSUME NEW fd \in Fds PROVE Cardinality(Places(fd)) = IF Open(fd) THEN 1 ELSE 0
    BY DEF OnePlace
<1>1. OneBox(fd) /\ Singly
    BY DEF PInv
<1> DEFINE main == {<<"main", 1>> : x \in {y \in {newConnFd} : y = fd}}
           sent == {<<"pipe", i>> : i \in {j \in DOMAIN pipe : pipe[j].fd = fd}}
           set == {<<"set", 1>> : x \in gFdSet \cap {fd}}
           queue == {<<"queue", i>> : i \in {j \in DOMAIN gWorkQueue : gWorkQueue[j] = fd}}
           worker == {<<"worker", w>> : w \in {v \in Workers : client[v] = fd}}
           wait == {<<"waiting", i>> : i \in {j \in DOMAIN waiting : waiting[j] = fd}}
           notified == {<<"notified", i>> : i \in {j \in DOMAIN gLockQueue : gLockQueue[j] = fd}}
           lock == {<<"lock", 1>> : x \in {y \in {lockFd} : y = fd}}
<1>2. Places(fd) = main \cup sent \cup set \cup queue \cup worker \cup wait \cup notified \cup lock
    BY DEF Places
<1>3. /\ main # {} <=> InMain(fd)
      /\ sent # {} <=> InPipe(fd)
      /\ set # {} <=> InSet(fd)
      /\ lock # {} <=> InLock(fd)
    BY DEF InMain, InPipe, InSet, InLock
<1>4. /\ queue # {} <=> InQueue(fd)
      /\ worker # {} <=> InWorker(fd)
      /\ wait # {} <=> InWaiting(fd)
      /\ notified # {} <=> InNotices(fd)
    BY DEF InQueue, InWorker, InWaiting, InNotices, In
<1>5. /\ \A x, y \in main : x = y
      /\ \A x, y \in set : x = y
      /\ \A x, y \in lock : x = y
    OBVIOUS
<1>6. /\ \A x, y \in sent : x = y
      /\ \A x, y \in queue : x = y
      /\ \A x, y \in worker : x = y
      /\ \A x, y \in wait : x = y
      /\ \A x, y \in notified : x = y
    BY <1>1 DEF Singly, Once, OnceSent, OneWorker
<1> HIDE DEF main, sent, set, queue, worker, wait, notified, lock
<1>7. \A x, y \in Places(fd) : x = y
    BY <1>1, <1>2, <1>3, <1>4, <1>5, <1>6 DEF OneBox
<1>8. Places(fd) = {} <=> ~Open(fd)
    BY <1>1, <1>2, <1>3, <1>4 DEF OneBox
<1> QED
    BY <1>7, <1>8, AtMostOne

(* A connection is in the hands of exactly one thread or queue from accept  *)
(* to close, whatever the threads' order: nobody else serves or closes it.  *)
THEOREM OneOwnerPerConnection == Spec => []OnePlace
BY PlacesCounted, IInvHolds, PInvHolds, PTL

-----------------------------------------------------------------------------
(* The counter of connections. *)

\* The work queue never refuses a descriptor, each being in it at most once.
RoomForAll == IsFiniteSet(Fds) /\ Cardinality(Fds) <= RingSize

\* fd is on its way from main to the select thread.
IsNew(fd) == \E i \in DOMAIN pipe : pipe[i].type = "NEW_CONNECTION" /\ pipe[i].fd = fd

Counted == {fd \in Fds : Open(fd)} \ Announced

\* Connections that were closed and not counted off.
Lost == gNumClientConnected - Cardinality(Counted)

LEMMA CountedOf ==
    /\ Counted \subseteq Fds
    /\ \A fd \in Fds : fd \in Counted <=> Open(fd) /\ ~InMain(fd) /\ ~IsNew(fd)
BY DEF Counted, Announced, InMain, IsNew

LEMMA CountedOfNext ==
    /\ Counted' \subseteq Fds
    /\ \A fd \in Fds : fd \in Counted' <=> Open(fd)' /\ ~InMain(fd)' /\ ~IsNew(fd)'
BY DEF Counted, Announced, InMain, IsNew

\* The same connections are counted.
LEMMA CountStays ==
    ASSUME UNCHANGED gNumClientConnected,
           \A fd \in Fds : (Open(fd)' /\ ~InMain(fd)' /\ ~IsNew(fd)') <=> (Open(fd) /\ ~InMain(fd) /\ ~IsNew(fd))
    PROVE  Lost' = Lost
<1>1. Counted' = Counted
    BY CountedOf, CountedOfNext
<1> QED
    BY <1>1 DEF Lost

LEMMA SentNew ==
    ASSUME TypeOK, NEW m \in Message, pipe' = Append(pipe, m)
    PROVE  \A fd : IsNew(fd)' <=> IsNew(fd) \/ (m.type = "NEW_CONNECTION" /\ m.fd = fd)
<1>1. PICK n \in Nat : n = Len(pipe) /\ DOMAIN pipe = 1 .. n /\ pipe \in Seq(Message)
    BY DEF TypeOK
<1>2. DOMAIN pipe' = 1 .. n + 1 /\ pipe'[n + 1] = m /\ \A i \in 1 .. n : pipe'[i] = pipe[i]
    BY <1>1
<1>3. DOMAIN pipe' = DOMAIN pipe \cup {n + 1}
    BY <1>1, <1>2
<1> QED
    BY <1>1, <1>2, <1>3 DEF IsNew

LEMMA ReceivedNew ==
    ASSUME TypeOK, pipe # << >>, pipe' = Tail(pipe), OnceSent
    PROVE  \A fd \in Fds : /\ IsNew(fd)' <=> IsNew(fd) /\ fd # Head(pipe).fd
                           /\ fd = Head(pipe).fd => (IsNew(fd) <=> Head(pipe).type = "NEW_CONNECTION")
<1>1. PICK n \in Nat : n = Len(pipe) /\ DOMAIN pipe = 1 .. n /\ n >= 1 /\ pipe \in Seq(Message)
    BY DEF TypeOK
<1>2. /\ DOMAIN pipe' = 1 .. n - 1 /\ (\A i \in 1 .. n - 1 : pipe'[i] = pipe[i + 1])
      /\ Head(pipe) = pipe[1] /\ 1 \in DOMAIN pipe
    BY <1>1
<1> SUFFICES ASSUME NEW fd \in Fds
             PROVE  /\ IsNew(fd)' <=> IsNew(fd) /\ fd # Head(pipe).fd
                    /\ fd = Head(pipe).fd => (IsNew(fd) <=> Head(pipe).type = "NEW_CONNECTION")
    OBVIOUS
<1>3. ASSUME NEW i \in DOMAIN pipe', pipe'[i].type = "NEW_CONNECTION", pipe'[i].fd = fd
      PROVE  IsNew(fd) /\ fd # Head(pipe).fd
  <2>1. i + 1 \in 1 .. n /\ i + 1 # 1
      BY <1>1, <1>2
  <2>2. pipe[i + 1] = pipe'[i]
      BY <1>2
  <2> QED
      BY <1>1, <1>2, <1>3, <2>1, <2>2 DEF IsNew, OnceSent
<1>4. ASSUME NEW i \in DOMAIN pipe, pipe[i].type = "NEW_CONNECTION", pipe[i].fd = fd, fd # Head(pipe).fd
      PROVE  IsNew(fd)'
  <2>1. i \in 1 .. n /\ i # 1
      BY <1>1, <1>2, <1>4
  <2>2. i - 1 \in 1 .. n - 1 /\ (i - 1) + 1 = i
      BY <1>1, <2>1
  <2>3. pipe'[i - 1] = pipe[i]
      BY <1>2, <2>2
  <2> QED
      BY <1>2, <1>4, <2>2, <2>3 DEF IsNew
<1>5. fd = Head(pipe).fd => (IsNew(fd) <=> Head(pipe).type = "NEW_CONNECTION")
    BY <1>2 DEF IsNew, OnceSent
<1> QED
    BY <1>3, <1>4, <1>5 DEF IsNew

LEMMA InitCount == Init => CountMatches
<1> SUFFICES ASSUME Init PROVE CountMatches
    OBVIOUS
<1>1. {fd \in Fds : Open(fd)} \ Announced = {}
    BY DEF Init, Open
<1> QED
    BY <1>1, FS_EmptySet DEF Init, CountMatches

LEMMA MainCounts ==
    ASSUME IInv, PInv, Main \/ (mainAccept /\ UNCHANGED notMain)
    PROVE  Lost' = Lost
<1> USE DEF IInv
<1>1. UNCHANGED gNumClientConnected
    BY DEF Main, notMain
<1>2. \A fd \in Fds : InMain(fd) => mainPc = "announce"
    BY DEF PInv, HeldToWork, InMain
<1>3. CASE mainAccept
  <2>1. PICK c \in Fds : ~Open(c) /\ newConnFd' = c /\ socket' = [socket EXCEPT ![c] = "quiet"]
      BY <1>3 DEF mainAccept
  <2>2. \A fd \in Fds : (Open(fd)' <=> Open(fd) \/ fd = c) /\ (InMain(fd)' <=> fd = c)
      BY <2>1 DEF Open, InMain, TypeOK
  <2>3. UNCHANGED pipe /\ \A fd \in Fds : ~InMain(fd)
      BY <1>2, <1>3 DEF mainAccept
  <2>4. \A fd \in Fds : IsNew(fd)' <=> IsNew(fd)
      BY <2>3 DEF IsNew
  <2> QED
      BY <1>1, <2>1, <2>2, <2>3, <2>4, CountStays
<1>4. CASE mainAnnounce
  <2>1. newConnFd \in Fds
      BY <1>4 DEF mainAnnounce, InHand
  <2>2. PICK m \in Message : m.type = "NEW_CONNECTION" /\ m.fd = newConnFd /\ pipe' = Append(pipe, m)
      BY <1>4, <2>1 DEF mainAnnounce, Msg, Message
  <2>3. \A fd \in Fds : IsNew(fd)' <=> IsNew(fd) \/ fd = newConnFd
      BY <2>2, SentNew
  <2>4. \A fd \in Fds : (Open(fd)' <=> Open(fd)) /\ ~InMain(fd)'
      BY <1>4, DescriptorsAssumption DEF mainAnnounce, Open, InMain
  <2> QED
      BY <1>1, <2>3, <2>4, CountStays DEF InMain
<1>5. CASE mainJoinLock
  <2>1. PICK m \in Message : m.type # "NEW_CONNECTION" /\ pipe' = Append(pipe, m)
      BY <1>5 DEF mainJoinLock, Msg, Message
  <2>2. \A fd \in Fds : IsNew(fd)' <=> IsNew(fd)
      BY <2>1, SentNew
  <2>3. \A fd \in Fds : (Open(fd)' <=> Open(fd)) /\ (InMain(fd)' <=> InMain(fd))
      BY <1>5 DEF mainJoinLock, Open, InMain
  <2> QED
      BY <1>1, <2>2, <2>3, CountStays
<1>6. CASE mainCheck \/ mainClose \/ mainJoinWorkers \/ mainStopLock \/ mainJoinSelect
  <2>1. UNCHANGED <<newConnFd, pipe, socket>>
      BY <1>6 DEF mainCheck, mainClose, mainJoinWorkers, mainStopLock, mainJoinSelect
  <2>2. \A fd \in Fds : (Open(fd)' <=> Open(fd)) /\ (InMain(fd)' <=> InMain(fd)) /\ (IsNew(fd)' <=> IsNew(fd))
      BY <2>1 DEF Open, InMain, IsNew
  <2> QED
      BY <1>1, <2>2, CountStays
<1> QED
    BY <1>3, <1>4, <1>5, <1>6 DEF Main

\* A new connection is counted when the select thread hears of it, and no
\* longer when it is closed.
LEMMA ReturnsCounts ==
    ASSUME IInv, PInv, IsFiniteSet(Fds), selectReturns, UNCHANGED newConnFd
    PROVE  Lost' = Lost
<1> USE DEF IInv
<1> DEFINE inSet == {fd \in gFdSet : fd <= gMaxFd /\
                       IF fd = PipeRead THEN pipe # << >> ELSE Readable(fd)}
           message == Head(pipe)
<1>1. \A fd \in Fds : InMain(fd)' <=> InMain(fd)
    BY DEF InMain
<1>2. gNumClientConnected \in Int /\ Cardinality(Counted) \in Nat /\ IsFiniteSet(Counted)
  <2>1. IsFiniteSet(Counted)
      BY CountedOf, FS_Subset
  <2> QED
      BY <2>1, FS_CardinalityType DEF TypeOK
<1>3. CASE PipeRead \notin inSet
  <2>1. UNCHANGED <<pipe, gNumClientConnected, socket>>
      BY <1>3 DEF selectReturns
  <2>2. \A fd \in Fds : (Open(fd)' <=> Open(fd)) /\ (IsNew(fd)' <=> IsNew(fd))
      BY <2>1 DEF Open, IsNew
  <2> QED
      BY <1>1, <2>1, <2>2, CountStays
<1>4. CASE PipeRead \in inSet
  <2>1. pipe # << >> /\ pipe' = Tail(pipe)
      BY <1>4 DEF selectReturns
  <2>2. message \in Message /\ InPipe(message.fd)
      BY <2>1, ReceivedOnce DEF PInv, Singly
  <2>3. \A fd \in Fds : /\ IsNew(fd)' <=> IsNew(fd) /\ fd # message.fd
                        /\ fd = message.fd => (IsNew(fd) <=> message.type = "NEW_CONNECTION")
      BY <2>1, ReceivedNew DEF PInv, Singly
  <2>4. \A fd \in Fds : fd = message.fd => Open(fd) /\ ~InMain(fd)
      BY <2>2 DEF PInv, OneBox
  <2>5. \/ /\ message.type = "EXIT_REQUESTED" /\ UNCHANGED <<gNumClientConnected, socket>>
        \/ /\ message.type = "NEW_CONNECTION" /\ UNCHANGED socket
           /\ gNumClientConnected' = gNumClientConnected + 1
        \/ /\ message.type = "SET_CONNECTION" /\ UNCHANGED <<gNumClientConnected, socket>>
        \/ /\ message.type = "REM_CONNECTION"
           /\ gNumClientConnected' = gNumClientConnected - 1
           /\ socket' = [socket EXCEPT ![message.fd] = "closed"]
      BY <1>4 DEF selectReturns, countGone
  <2> HIDE DEF inSet, message
  <2>6. \/ message.fd = NoFd /\ message.type = "EXIT_REQUESTED"
        \/ message.fd \in Fds /\ message.type # "EXIT_REQUESTED"
      BY <2>2 DEF Message
  <2>7. CASE message.type \in {"EXIT_REQUESTED", "SET_CONNECTION"}
    <3>1. UNCHANGED <<gNumClientConnected, socket>>
        BY <2>5, <2>7
    <3>2. \A fd \in Fds : (Open(fd)' <=> Open(fd)) /\ (IsNew(fd)' <=> IsNew(fd))
        BY <2>3, <2>6, <2>7, <3>1, DescriptorsAssumption DEF Open
    <3> QED
        BY <1>1, <3>1, <3>2, CountStays
  <2>8. CASE message.type = "NEW_CONNECTION"
    <3>1. message.fd \in Fds /\ \A fd \in Fds : Open(fd)' <=> Open(fd)
        BY <2>5, <2>6, <2>8 DEF Open
    <3>2. Counted' = Counted \cup {message.fd} /\ message.fd \notin Counted
        BY <1>1, <2>3, <2>4, <2>8, <3>1, CountedOf, CountedOfNext
    <3>3. Cardinality(Counted') = Cardinality(Counted) + 1
        BY <1>2, <3>2, FS_AddElement
    <3>4. gNumClientConnected' = gNumClientConnected + 1
        BY <2>5, <2>8
    <3> QED
        BY <1>2, <3>3, <3>4 DEF Lost
  <2>9. CASE message.type = "REM_CONNECTION"
    <3>1. message.fd \in Fds /\ \A fd \in Fds : Open(fd)' <=> Open(fd) /\ fd # message.fd
        BY <2>5, <2>6, <2>9 DEF Open, TypeOK
    <3>2. Counted' = Counted \ {message.fd} /\ message.fd \in Counted
        BY <1>1, <2>3, <2>4, <2>9, <3>1, CountedOf, CountedOfNext
    <3>3. Cardinality(Counted') = Cardinality(Counted) - 1
        BY <1>2, <3>2, FS_RemoveElement
    <3>4. gNumClientConnected' = gNumClientConnected - 1
        BY <2>5, <2>9
    <3> QED
        BY <1>2, <3>3, <3>4 DEF Lost
  <2> QED
      BY <2>5, <2>7, <2>8, <2>9
<1> QED
    BY <1>3, <1>4

\* A queue that lists every element once is no longer than there are elements.
LEMMA OnceFits ==
    ASSUME NEW S, IsFiniteSet(S), NEW q \in Seq(S), Once(q), NEW x \in S, ~In(q, x)
    PROVE  Len(q) < Cardinality(S)
<1>1. PICK n \in Nat : n = Len(q) /\ q \in [1 .. n -> S]
    OBVIOUS
<1>2. q \in [1 .. n -> S \ {x}]
    BY <1>1 DEF In
<1>3. q \in Injection(1 .. n, S \ {x})
    BY <1>1, <1>2 DEF Once, Injection, IsInjective
<1>4. IsFiniteSet(S \ {x}) /\ Cardinality(S \ {x}) = Cardinality(S) - 1 /\ Cardinality(S) \in Nat
    BY FS_RemoveElement, FS_CardinalityType
<1>5. Cardinality(1 .. n) <= Cardinality(S \ {x})
    BY <1>3, <1>4, FS_Injection
<1>6. Cardinality(1 .. n) = n
  <2>1. 1 \in Int /\ n \in Int /\ n >= 0
      OBVIOUS
  <2>2. Cardinality(1 .. n) = IF 1 > n THEN 0 ELSE n - 1 + 1
      BY <2>1, FS_Interval
  <2> QED
      BY <2>1, <2>2
<1> QED
    BY <1>1, <1>4, <1>5, <1>6

\* Only a work queue that is full makes the select thread close a connection
\* it counts.
LEMMA ScanCounts ==
    ASSUME IInv, PInv, IsFiniteSet(Fds), selectScan, UNCHANGED newConnFd
    PROVE  Lost' >= Lost /\ (RoomForAll => Lost' = Lost)
<1> USE DEF IInv
<1>1. PICK one \in Fds : one = Min(ready) /\ one \in gFdSet
  <2>1. ready \in SUBSET Nat /\ ready # {} /\ ready \subseteq Fds
      BY DescriptorsAssumption DEF selectScan, TypeOK
  <2>2. Min(ready) \in ready
      BY <2>1, MinOf
  <2> QED
      BY <2>1, <2>2 DEF PInv
<1>2. Open(one) /\ ~InMain(one) /\ ~InPipe(one) /\ ~In(gWorkQueue, one)
    BY <1>1 DEF PInv, OneBox, InSet, InQueue
<1>3. Once(gWorkQueue) /\ gWorkQueue \in Seq(Fds)
    BY DEF PInv, Singly, TypeOK
<1>4. /\ UNCHANGED <<pipe, gNumClientConnected>>
      /\ \/ Len(gWorkQueue) < RingSize /\ UNCHANGED socket
         \/ ~(Len(gWorkQueue) < RingSize) /\ socket' = [socket EXCEPT ![one] = "closed"]
    BY <1>1 DEF selectScan
<1>5. \A fd \in Fds : (IsNew(fd)' <=> IsNew(fd)) /\ (InMain(fd)' <=> InMain(fd))
    BY <1>4 DEF IsNew, InMain
<1>6. gNumClientConnected \in Int /\ Cardinality(Counted) \in Nat /\ IsFiniteSet(Counted)
  <2>1. IsFiniteSet(Counted)
      BY CountedOf, FS_Subset
  <2> QED
      BY <2>1, FS_CardinalityType DEF TypeOK
<1>7. RoomForAll => Len(gWorkQueue) < RingSize
  <2> SUFFICES ASSUME RoomForAll PROVE Len(gWorkQueue) < RingSize
      OBVIOUS
  <2>1. PICK n \in Nat, c \in Nat : n = Len(gWorkQueue) /\ c = Cardinality(Fds)
      BY <1>3, FS_CardinalityType
  <2>2. n < c
      BY <1>1, <1>2, <1>3, <2>1, OnceFits
  <2> QED
      BY <2>1, <2>2, DescriptorsAssumption DEF RoomForAll
<1>8. CASE Len(gWorkQueue) < RingSize
  <2>1. UNCHANGED socket
      BY <1>4, <1>8
  <2>2. \A fd \in Fds : Open(fd)' <=> Open(fd)
      BY <2>1 DEF Open
  <2>3. Lost' = Lost
      BY <1>4, <1>5, <2>2, CountStays
  <2> QED
      BY <1>6, <2>3 DEF Lost
<1>9. CASE ~(Len(gWorkQueue) < RingSize)
  <2>1. \A fd \in Fds : Open(fd)' <=> Open(fd) /\ fd # one
      BY <1>4, <1>9 DEF Open, TypeOK
  <2>2. one \in Counted /\ Counted' = Counted \ {one}
    <3>1. ~IsNew(one)
        BY <1>2 DEF IsNew, InPipe
    <3> QED
        BY <1>1, <1>2, <1>5, <2>1, <3>1, CountedOf, CountedOfNext
  <2>3. Cardinality(Counted') = Cardinality(Counted) - 1
      BY <1>6, <2>2, FS_RemoveElement
  <2>4. Lost' >= Lost
      BY <1>4, <1>6, <2>3 DEF Lost
  <2> QED
      BY <1>7, <1>9, <2>4
<1> QED
    BY <1>8, <1>9

\* The other threads send messages about connections that are counted.
LEMMA OthersCount ==
    ASSUME IInv, UNCHANGED <<newConnFd, gNumClientConnected>>,
           \A fd \in Fds : Open(fd)' <=> Open(fd),
           \/ UNCHANGED pipe
           \/ \E m \in Message : m.type # "NEW_CONNECTION" /\ pipe' = Append(pipe, m)
    PROVE  Lost' = Lost
<1>1. \A fd \in Fds : InMain(fd)' <=> InMain(fd)
    BY DEF InMain
<1>2. \A fd \in Fds : IsNew(fd)' <=> IsNew(fd)
  <2>1. CASE UNCHANGED pipe
      BY <2>1 DEF IsNew
  <2>2. ASSUME NEW m \in Message, m.type # "NEW_CONNECTION", pipe' = Append(pipe, m)
        PROVE  \A fd \in Fds : IsNew(fd)' <=> IsNew(fd)
      BY <2>2, SentNew DEF IInv
  <2> QED
      BY <2>1, <2>2
<1> QED
    BY <1>1, <1>2, CountStays

LEMMA NextCounts ==
    ASSUME IsFiniteSet(Fds), IInv, PInv, [Next]_vars
    PROVE  Lost' >= Lost /\ (RoomForAll => Lost' = Lost)
<1> USE DEF IInv
<1>0. Lost' = Lost => Lost' >= Lost
  <2>1. IsFiniteSet(Counted)
      BY CountedOf, FS_Subset
  <2>2. Lost \in Int
      BY <2>1, FS_CardinalityType DEF Lost, TypeOK
  <2> QED
      BY <2>2
<1>1. ASSUME Select PROVE Lost' >= Lost /\ (RoomForAll => Lost' = Lost)
  <2>1. UNCHANGED newConnFd
      BY <1>1 DEF Select, mainVars
  <2>2. CASE selectLoop \/ selectNotifyAll \/ selectNotify
    <3>1. UNCHANGED <<pipe, gNumClientConnected, socket>>
        BY <2>2 DEF selectLoop, selectNotifyAll, selectNotify
    <3> QED
        BY <1>0, <2>1, <3>1, OthersCount DEF Open
  <2> QED
      BY <1>0, <1>1, <2>1, <2>2, ReturnsCounts, ScanCounts DEF Select
<1>2. ASSUME NEW w \in Workers, Worker(w) PROVE Lost' = Lost
  <2>1. UNCHANGED <<newConnFd, gNumClientConnected>>
      BY <1>2 DEF Worker, mainVars
  <2>2. CASE workerLoop(w) \/ workerWait(w) \/ workerReadNothing(w)
    <3>1. UNCHANGED <<pipe, socket>>
        BY <2>2 DEF workerLoop, workerWait, workerReadNothing
    <3> QED
        BY <2>1, <3>1, OthersCount DEF Open
  <2>3. CASE workerHandle(w)
    <3>1. UNCHANGED pipe /\ \A fd \in Fds : Open(fd)' <=> Open(fd)
        BY <2>3 DEF workerHandle, Open, TypeOK
    <3> QED
        BY <2>1, <3>1, OthersCount
  <2>4. CASE workerRespond(w)
    <3>1. client[w] \in Fds
        BY <2>4 DEF workerRespond, At, InHand, Busy
    <3>2. \A fd \in Fds : Open(fd)' <=> Open(fd)
        BY <2>4, <3>1 DEF workerRespond, replyTo, Open, TypeOK
    <3>3. \E m \in Message : m.type # "NEW_CONNECTION" /\ pipe' = Append(pipe, m)
        BY <2>4, <3>1 DEF workerRespond, replyTo, SetConnection, Msg, Message
    <3> QED
        BY <2>1, <3>2, <3>3, OthersCount
  <2>5. CASE workerRemove(w)
    <3>1. client[w] \in Fds
        BY <2>5 DEF workerRemove, At, InHand, Busy
    <3>2. \E m \in Message : m.type # "NEW_CONNECTION" /\ pipe' = Append(pipe, m)
        BY <2>5, <3>1 DEF workerRemove, Msg, Message
    <3> QED
        BY <2>1, <2>5, <3>2, OthersCount DEF workerRemove, Open
  <2> QED
      BY <1>2, <2>2, <2>3, <2>4, <2>5 DEF Worker
<1>3. ASSUME LockThread PROVE Lost' = Lost
  <2>1. UNCHANGED <<newConnFd, gNumClientConnected>>
      BY <1>3 DEF LockThread, mainVars
  <2>2. CASE lockThreadLoop \/ lockThreadWait
      BY <2>1, <2>2, OthersCount DEF lockThreadLoop, lockThreadWait, Open
  <2>3. CASE lockThreadAnswer
    <3>1. lockFd \in Fds
        BY <2>3 DEF lockThreadAnswer, InHand
    <3>2. \A fd \in Fds : Open(fd)' <=> Open(fd)
        BY <2>3, <3>1 DEF lockThreadAnswer, replyTo, Open, TypeOK
    <3>3. \E m \in Message : m.type # "NEW_CONNECTION" /\ pipe' = Append(pipe, m)
        BY <2>3, <3>1 DEF lockThreadAnswer, replyTo, SetConnection, Msg, Message
    <3> QED
        BY <2>1, <3>2, <3>3, OthersCount
  <2> QED
      BY <1>3, <2>2, <2>3 DEF LockThread
<1>4. ASSUME \/ signalHandlerCallback
             \/ \E fd \in Fds : clientSend(fd) \/ clientRead(fd) \/ clientLeave(fd)
             \/ UNCHANGED vars
      PROVE  Lost' = Lost
  <2>1. UNCHANGED <<newConnFd, pipe, gNumClientConnected>>
      BY <1>4 DEF signalHandlerCallback, clientSend, clientRead, clientLeave, notClient, vars, mainVars
  <2>2. CASE signalHandlerCallback \/ UNCHANGED vars
      BY <2>1, <2>2, OthersCount DEF signalHandlerCallback, vars, Open
  <2>3. ASSUME NEW c \in Fds, clientSend(c) \/ clientRead(c) \/ clientLeave(c)
        PROVE  Lost' = Lost
    <3>1. \A fd \in Fds : Open(fd)' <=> Open(fd)
        BY <2>3 DEF clientSend, clientRead, clientLeave, Becomes, Open, TypeOK
    <3> QED
        BY <2>1, <3>1, OthersCount
  <2> QED
      BY <1>4, <2>2, <2>3
<1> QED
    BY <1>0, <1>1, <1>2, <1>3, <1>4, MainCounts DEF Next

\* No connection is counted off that was not counted.
LEMMA NotTooLow ==
    ASSUME IsFiniteSet(Fds)
    PROVE  Spec => [](Lost >= 0)
<1>1. Init => Lost >= 0
  <2>1. Init => Counted = {} /\ gNumClientConnected = 0
      BY DEF Init, Open, Counted
  <2> QED
      BY <2>1, FS_EmptySet DEF Lost
<1>2. IInv /\ PInv /\ Lost >= 0 /\ [Next]_vars => (Lost >= 0)'
  <2> SUFFICES ASSUME IInv, PInv, Lost >= 0, [Next]_vars PROVE Lost' >= 0
      OBVIOUS
  <2>1. Lost' >= Lost
      BY NextCounts
  <2>2. Lost \in Int /\ Lost' \in Int
    <3>1. IInv'
        BY NextStep
    <3>2. IsFiniteSet(Counted) /\ IsFiniteSet(Counted')
        BY CountedOf, CountedOfNext, FS_Subset
    <3>3. Cardinality(Counted) \in Nat /\ Cardinality(Counted') \in Nat
        BY <3>2, FS_CardinalityType
    <3> QED
        BY <3>1, <3>3, SMTT(30) DEF Lost, IInv, TypeOK
  <2> QED
      BY <2>1, <2>2
<1> QED
    BY <1>1, <1>2, IInvHolds, PInvHolds, PTL DEF Spec

(* When the work queue has room for every descriptor, the counter that      *)
(* SIGHUP waits for is the number of connections the select thread knows    *)
(* of; a queue that can fill up loses count, as selectThreadFun closes a    *)
(* connection without counting it off.                                      *)
THEOREM CounterIsExact ==
    ASSUME RoomForAll
    PROVE  Spec => []CountMatches
<1>1. IInv => (CountMatches <=> Lost = 0)
  <2> SUFFICES ASSUME IInv PROVE CountMatches <=> Lost = 0
      OBVIOUS
  <2>1. IsFiniteSet(Counted)
      BY CountedOf, FS_Subset DEF RoomForAll
  <2>2. Cardinality(Counted) \in Nat /\ gNumClientConnected \in Int
      BY <2>1, FS_CardinalityType DEF IInv, TypeOK
  <2>3. CountMatches <=> gNumClientConnected = Cardinality(Counted)
      BY DEF CountMatches, Counted
  <2> QED
      BY <2>2, <2>3 DEF Lost
<1>2. IInv /\ PInv /\ Lost = 0 /\ [Next]_vars => (Lost = 0)'
    BY NextCounts DEF RoomForAll
<1>3. Init => Lost = 0
    BY <1>1, InitCount, InitStep
<1> QED
    BY <1>1, <1>2, <1>3, IInvHolds, PInvHolds, PTL DEF Spec

-----------------------------------------------------------------------------
(* The end of the workers, when at most one of the signals comes. *)

\* A SIGINT during the shutdown that SIGHUP began is excluded.
OneSignalAtMost == {"SIGINT", "SIGHUP"} \notin SignalSets

LEMMA SignalNoticed ==
    /\ Init => SInv
    /\ SInv /\ [Next]_vars => SInv'
<1>1. Init => SInv
    BY DEF Init, SInv
<1>2. ASSUME SInv, [Next]_vars PROVE SInv'
  <2>1. CASE Main \/ (mainAccept /\ UNCHANGED notMain)
    <3>1. UNCHANGED signals
        BY <2>1 DEF Main, notMain
    <3> QED
        BY <1>2, <2>1, <3>1 DEF Main, SInv, mainCheck, mainAccept, mainAnnounce, mainClose, mainJoinWorkers,
                           mainStopLock, mainJoinLock, mainJoinSelect
  <2>2. CASE signalHandlerCallback
    <3>1. signals' # {}
        BY <2>2 DEF signalHandlerCallback
    <3> QED
        BY <3>1 DEF SInv
  <2>3. CASE ~(Main \/ (mainAccept /\ UNCHANGED notMain) \/ signalHandlerCallback)
    <3>1. UNCHANGED <<signals, mainPc>>
        BY <1>2, <2>3 DEF Next, Select, Worker, LockThread, clientSend, clientRead, clientLeave,
                     notClient, mainVars, vars
    <3> QED
        BY <1>2, <3>1 DEF SInv
  <2> QED
      BY <2>1, <2>2, <2>3
<1> QED
    BY <1>1, <1>2

Sleeping(w) == pc[w] \in {"asleep", "beforeWait"}

\* notify_all leaves nobody asleep, for gWorkMutex is free.
LEMMA NobodySleeps ==
    ASSUME TypeOK, WorkMutexFree, notify_all
    PROVE  \A w \in Workers : ~Sleeping(w)'
BY DEF WorkMutexFree, notify_all, Wake, Asleep, Sleeping, TypeOK

\* What keeps the workers awake while no worker begins to wait.
LEMMA SleepersSame ==
    ASSUME NoneSleepsThroughStop, UNCHANGED gNumClientConnected,
           (mainPc' = "joinWorkers" => UNCHANGED <<mainPc, signals>>),
           selectPc' # "notifyAll" => selectPc # "notifyAll",
           \A w \in Workers : Sleeping(w)' => Sleeping(w)
    PROVE  NoneSleepsThroughStop'
BY DEF NoneSleepsThroughStop, WorkersStop, SigInt, SigHup, Sleeping

LEMMA NextSleeps ==
    ASSUME OneSignalAtMost, IInv, SInv, Lost >= 0, IsFiniteSet(Fds), NoneSleepsThroughStop, [Next]_vars
    PROVE  NoneSleepsThroughStop'
<1> USE DEF IInv
<1>1. ASSUME Main \/ (mainAccept /\ UNCHANGED notMain) PROVE NoneSleepsThroughStop'
  <2>1. UNCHANGED <<signals, gNumClientConnected, selectPc>>
      BY <1>1 DEF Main, notMain, selectVars
  <2>2. CASE mainClose
    <3>1. \A w \in Workers : ~Sleeping(w)'
        BY <2>2, NobodySleeps DEF mainClose
    <3> QED
        BY <3>1 DEF NoneSleepsThroughStop, Sleeping
  <2>3. CASE ~mainClose
    <3>1. mainPc' # "joinWorkers"
        BY <1>1, <2>3 DEF Main, mainCheck, mainAccept, mainAnnounce, mainJoinWorkers,
                     mainStopLock, mainJoinLock, mainJoinSelect
    <3> QED
        BY <3>1 DEF NoneSleepsThroughStop
  <2> QED
      BY <2>2, <2>3
<1>2. ASSUME Select PROVE NoneSleepsThroughStop'
  <2>1. UNCHANGED <<signals, mainPc>>
      BY <1>2 DEF Select, mainVars
  <2>2. CASE selectNotifyAll
    <3>1. \A w \in Workers : ~Sleeping(w)'
        BY <2>2, NobodySleeps DEF selectNotifyAll
    <3> QED
        BY <3>1 DEF NoneSleepsThroughStop, Sleeping
  <2>3. CASE selectLoop \/ selectScan \/ selectNotify
    <3>1. \A w \in Workers : Sleeping(w)' => Sleeping(w)
      <4>1. CASE UNCHANGED pc
          BY <4>1 DEF Sleeping
      <4>2. CASE notify_one
          BY <4>2, NotifyOneWakes, WakeKeeps DEF Sleeping
      <4> QED
          BY <2>3, <4>1, <4>2 DEF selectLoop, selectScan, selectNotify
    <3>2. UNCHANGED gNumClientConnected /\ selectPc # "notifyAll"
        BY <2>3 DEF selectLoop, selectScan, selectNotify
    <3> QED
        BY <2>1, <3>1, <3>2, SleepersSame
  <2>4. CASE selectReturns
    <3>1. UNCHANGED pc /\ selectPc = "select"
        BY <2>4 DEF selectReturns
    <3>2. \/ UNCHANGED gNumClientConnected
          \/ gNumClientConnected' = gNumClientConnected + 1
          \/ selectPc' = "notifyAll"
        BY <2>4 DEF selectReturns
    <3>3. CASE UNCHANGED gNumClientConnected
        BY <2>1, <3>1, <3>3, SleepersSame DEF Sleeping
    <3>4. CASE gNumClientConnected' = gNumClientConnected + 1
      <4>1. gNumClientConnected \in Nat
        <5>1. IsFiniteSet(Counted)
            BY CountedOf, FS_Subset
        <5>2. Cardinality(Counted) \in Nat /\ gNumClientConnected \in Int
            BY <5>1, FS_CardinalityType DEF TypeOK
        <5> QED
            BY <5>2 DEF Lost
      <4>2. gNumClientConnected' # 0
          BY <3>4, <4>1
      <4> QED
          BY <2>1, <3>1, <4>2 DEF NoneSleepsThroughStop, WorkersStop, SigInt, SigHup
    <3> QED
        BY <3>2, <3>3, <3>4 DEF NoneSleepsThroughStop
  <2> QED
      BY <1>2, <2>2, <2>3, <2>4 DEF Select
<1>3. ASSUME NEW v \in Workers, Worker(v) PROVE NoneSleepsThroughStop'
  <2>1. UNCHANGED <<signals, mainPc, selectPc, gNumClientConnected>>
      BY <1>3 DEF Worker, mainVars, selectVars
  <2>2. \E here, there : At(v, here, there) /\ (there \in {"asleep", "beforeWait"} => Sleeping(v) \/ ~WorkersStop)
      BY <1>3 DEF Worker, workerLoop, workerWait, workerHandle, workerRespond, workerReadNothing, workerRemove,
                 At, Sleeping
  <2>3. ~WorkersStop => ~WorkersStop'
      BY <2>1 DEF WorkersStop, SigInt, SigHup
  <2>4. WorkersStop => \A w \in Workers : Sleeping(w)' => Sleeping(w)
      BY <2>2 DEF At, Sleeping, TypeOK
  <2> QED
      BY <2>1, <2>3, <2>4, SleepersSame DEF NoneSleepsThroughStop
<1>4. ASSUME LockThread PROVE NoneSleepsThroughStop'
  <2>1. UNCHANGED <<signals, mainPc, selectPc, gNumClientConnected, pc>>
      BY <1>4 DEF LockThread, mainVars, selectVars, workVars
  <2> QED
      BY <2>1, SleepersSame DEF Sleeping
<1>5. ASSUME signalHandlerCallback PROVE NoneSleepsThroughStop'
  <2>1. PICK sig \in {"SIGINT", "SIGHUP"} \ signals : signals' = signals \cup {sig} /\ signals' \in SignalSets
      BY <1>5 DEF signalHandlerCallback
  <2>2. signals \subseteq {"SIGINT", "SIGHUP"}
      BY DescriptorsAssumption DEF TypeOK
  <2>3. signals = {}
      BY <2>1, <2>2 DEF OneSignalAtMost
  <2>4. mainPc # "joinWorkers"
      BY <2>3 DEF SInv
  <2>5. mainPc' # "joinWorkers"
      BY <1>5, <2>4 DEF signalHandlerCallback
  <2> QED
      BY <2>5 DEF NoneSleepsThroughStop
<1>6. ASSUME \/ \E fd \in Fds : clientSend(fd) \/ clientRead(fd) \/ clientLeave(fd)
             \/ UNCHANGED vars
      PROVE  NoneSleepsThroughStop'
  <2>1. UNCHANGED <<signals, mainPc, selectPc, gNumClientConnected, pc>>
      BY <1>6 DEF clientSend, clientRead, clientLeave, notClient, vars, mainVars, selectVars, workVars
  <2> QED
      BY <2>1, SleepersSame DEF Sleeping
<1> QED
    BY <1>1, <1>2, <1>3, <1>4, <1>5, <1>6 DEF Next

(* With no second signal during the shutdown, no worker sleeps through the  *)
(* end of the server: terminateSever notifies all of them under gWorkMutex, *)
(* and so does the select thread when the last connection is gone.          *)
THEOREM WorkersWakeToStop ==
    ASSUME IsFiniteSet(Fds), OneSignalAtMost
    PROVE  Spec => []NoneSleepsThroughStop
<1>1. Init => NoneSleepsThroughStop
    BY DEF Init, NoneSleepsThroughStop
<1>2. IInv /\ SInv /\ Lost >= 0 /\ NoneSleepsThroughStop /\ [Next]_vars => NoneSleepsThroughStop'
    BY NextSleeps
<1>3. Spec => [](Lost >= 0)
    BY NotTooLow
<1> QED
    BY <1>1, <1>2, <1>3, SignalNoticed, IInvHolds, PTL DEF Spec
=============================================================================
