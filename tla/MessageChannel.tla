--------------------------- MODULE MessageChannel ---------------------------
(***************************************************************************)
(* What net.h promises of readMessage and writeMessage: the messages       *)
(* written into one end come out of the other whole, unchanged and in      *)
(* order.  Those still inside may be lost when an end leaves.              *)
(***************************************************************************)
EXTENDS Naturals, Sequences

CONSTANT Message

VARIABLES
    sent,       \* the messages given to writeMessage
    received    \* the messages readMessage returned

vars == <<sent, received>>

Init == sent = << >> /\ received = << >>

Send(m) == sent' = Append(sent, m) /\ UNCHANGED received

Receive ==
    /\ Len(received) < Len(sent)
    /\ received' = Append(received, sent[Len(received) + 1])
    /\ UNCHANGED sent

Next == Receive \/ \E m \in Message : Send(m)

Spec == Init /\ [][Next]_vars
=============================================================================
