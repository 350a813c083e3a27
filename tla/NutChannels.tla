----------------------------- MODULE NutChannels -----------------------------
(***************************************************************************)
(* What message queues promise: each is a sequence of at most Capacity[q]   *)
(* messages, received in the order they were sent.  The messages of a timer *)
(* that is stopped are received as nothing.                                 *)
(***************************************************************************)
EXTENDS Naturals, Sequences

CONSTANTS MsgQ, Message, MsgNull, Thread, Capacity

VARIABLES
    chan,   \* the messages of each queue
    msg     \* the message each thread received last

vars == <<chan, msg>>

Init ==
    /\ chan = [q \in MsgQ |-> <<>>]
    /\ msg \in [Thread -> Message]

(* A message is sent to the queues of Q that have room.                     *)
Send(Q, m) ==
    /\ chan' = [q \in MsgQ |-> IF q \in Q /\ Len(chan[q]) < Capacity[q]
                                 THEN Append(chan[q], m) ELSE chan[q]]
    /\ UNCHANGED msg

Receive(t, q) ==
    /\ chan[q] # <<>>
    /\ msg' = [msg EXCEPT ![t] = Head(chan[q])]
    /\ chan' = [chan EXCEPT ![q] = Tail(@)]

Cancel(q, m) ==
    /\ chan' = [chan EXCEPT ![q] = [i \in DOMAIN @ |-> IF @[i] = m THEN MsgNull ELSE @[i]]]
    /\ UNCHANGED msg

Flush(q) ==
    /\ chan' = [chan EXCEPT ![q] = <<>>]
    /\ UNCHANGED msg

Next ==
    \/ \E Q \in SUBSET MsgQ, m \in Message : Send(Q, m)
    \/ \E q \in MsgQ, m \in Message : Cancel(q, m)
    \/ \E q \in MsgQ : Flush(q)
    \/ \E q \in MsgQ, t \in Thread : Receive(t, q)

Spec == Init /\ [][Next]_vars
=============================================================================
