---------------------------- MODULE LockService ----------------------------
(***************************************************************************)
(* What file_system.h promises of the locks.  A stored file has an owner   *)
(* or none, and a queue of clients that wait for it; the clients that need *)
(* not wait any more are answered one by one.  A lock leaves its owner     *)
(* only by a release, and goes to the client that has waited longest.      *)
(* Files may go at any time: who waited for one that is gone is told so.   *)
(***************************************************************************)
EXTENDS Integers, Sequences, Functions

CONSTANTS Clients, NoOwner, Files, Granted, Gone

VARIABLES
    lock,      \* the stored files: who owns each and who waits for it
    answers    \* what has still to be sent to clients that waited

vars == <<lock, answers>>

Init == lock = << >> /\ answers = {}

Blocked(c) ==
    \/ \E f \in DOMAIN lock : c \in Range(lock[f].waiting)
    \/ \E status \in {Granted, Gone} : [fd |-> c, status |-> status] \in answers

\* The answers to those who wait for the files that go.
Refused(gone) ==
    UNION {{[fd |-> c, status |-> Gone] : c \in Range(lock[f].waiting)} : f \in gone}

Drop(gone) ==
    /\ lock' = [f \in DOMAIN lock \ gone |-> lock[f]]
    /\ answers' = answers \cup Refused(gone)

(* A new file, owned by its creator or by nobody; others make room for it, *)
(* and it may even be among those that go.                                 *)
Create(f, owner, gone) ==
    /\ f \notin DOMAIN lock
    /\ lock' = [g \in (DOMAIN lock \cup {f}) \ gone |->
                   IF g = f THEN [owner |-> owner, waiting |-> << >>] ELSE lock[g]]
    /\ answers' = answers \cup Refused(gone \ {f})

Take(c, f) ==
    /\ ~Blocked(c)
    /\ lock[f].owner = NoOwner
    /\ lock' = [lock EXCEPT ![f].owner = c]
    /\ UNCHANGED answers

Wait(c, f) ==
    /\ ~Blocked(c)
    /\ lock[f].owner \notin {c, NoOwner}
    /\ lock' = [lock EXCEPT ![f].waiting = Append(@, c)]
    /\ UNCHANGED answers

Release(f) ==
    /\ lock[f].owner # NoOwner
    /\ IF lock[f].waiting = << >>
       THEN /\ lock' = [lock EXCEPT ![f].owner = NoOwner]
            /\ UNCHANGED answers
       ELSE LET next == Head(lock[f].waiting)
            IN  /\ lock' = [lock EXCEPT ![f] = [owner |-> next, waiting |-> Tail(@.waiting)]]
                /\ answers' = answers \cup {[fd |-> next, status |-> Granted]}

Answer(a) == answers' = answers \ {a} /\ UNCHANGED lock

Next ==
    \/ \E gone \in SUBSET DOMAIN lock : Drop(gone)
    \/ \E f \in Files, owner \in Clients \cup {NoOwner} :
          \E gone \in SUBSET (DOMAIN lock \cup {f}) : Create(f, owner, gone)
    \/ \E c \in Clients, f \in DOMAIN lock : Take(c, f) \/ Wait(c, f)
    \/ \E f \in DOMAIN lock : Release(f)
    \/ \E a \in answers : Answer(a)

Spec == Init /\ [][Next]_vars
=============================================================================
