------------------------------ MODULE NutEvents ------------------------------
(***************************************************************************)
(* What the event queues of Nut/OS promise, without lists, counters at the  *)
(* head of a list, signaled roots or interrupted kernel calls: a set of     *)
(* waiting threads and a number of events per queue.                        *)
(*                                                                          *)
(*   - An event goes to a waiting thread of the highest priority.           *)
(*   - No event an interrupt posts while threads wait is lost: each one     *)
(*     wakes a thread of its own, or the queue remembers it.                *)
(*   - A queue nobody waits on remembers one event, never more.             *)
(*   - A timeout ends one wait and takes no event away.                     *)
(***************************************************************************)
EXTENDS Naturals

CONSTANTS Thread, Queue

VARIABLES
    waiting,   \* the threads waiting on each queue
    posted,    \* the events of each queue nobody has been woken for
    expired,   \* the threads whose last wait ended by timeout
    prio       \* the priority of each thread, 0 the highest

vars == <<waiting, posted, expired, prio>>

Init ==
    /\ waiting = [q \in Queue |-> {}]
    /\ posted = [q \in Queue |-> 0]
    /\ expired = {}
    /\ prio \in [Thread -> Nat]

(* Thread t leaves queue q, where n events stay.                            *)
Leave(q, t, n) ==
    /\ t \in waiting[q]
    /\ waiting' = [waiting EXCEPT ![q] = @ \ {t}]
    /\ posted' = [posted EXCEPT ![q] = IF waiting[q] = {t} /\ n > 1 THEN 1 ELSE n]

First(q, t) == \A u \in waiting[q] : prio[t] <= prio[u]

Join(q, t) ==
    /\ \A r \in Queue : t \notin waiting[r]
    /\ waiting' = [waiting EXCEPT ![q] = @ \cup {t}]
    /\ UNCHANGED <<posted, expired, prio>>

(* An event for a queue nobody waits on.                                    *)
Signal(q) ==
    /\ waiting[q] = {}
    /\ posted' = [posted EXCEPT ![q] = 1]
    /\ UNCHANGED <<waiting, expired, prio>>

(* An event an interrupt posts to a queue threads wait on.                  *)
Count(q) ==
    /\ waiting[q] # {}
    /\ posted' = [posted EXCEPT ![q] = @ + 1]
    /\ UNCHANGED <<waiting, expired, prio>>

(* A counted event wakes a thread.                                          *)
Deliver(q, t) ==
    /\ posted[q] > 0 /\ First(q, t) /\ Leave(q, t, posted[q] - 1)
    /\ UNCHANGED <<expired, prio>>

(* A thread posts an event, which wakes another at once.                    *)
Wake(q, t) ==
    /\ First(q, t) /\ Leave(q, t, posted[q])
    /\ UNCHANGED <<expired, prio>>

Expire(q, t) ==
    /\ Leave(q, t, posted[q])
    /\ expired' = expired \cup {t}
    /\ UNCHANGED prio

(* The wait of a thread returns -1.                                         *)
Return(t) ==
    /\ t \in expired
    /\ expired' = expired \ {t}
    /\ UNCHANGED <<waiting, posted, prio>>

(* The remembered event is used up by a call that need not wait, or cleared *)
Consume(q) ==
    /\ waiting[q] = {}
    /\ posted' = [posted EXCEPT ![q] = 0]
    /\ UNCHANGED <<waiting, expired, prio>>

SetPrio(t) ==
    /\ \A q \in Queue : t \notin waiting[q]
    /\ prio'[t] \in Nat /\ prio' = [prio EXCEPT ![t] = prio'[t]]
    /\ UNCHANGED <<waiting, posted, expired>>

Next ==
    \/ \E q \in Queue : Signal(q) \/ Count(q) \/ Consume(q)
    \/ \E q \in Queue, t \in Thread : Join(q, t) \/ Deliver(q, t) \/ Wake(q, t) \/ Expire(q, t)
    \/ \E t \in Thread : Return(t) \/ SetPrio(t)

Spec == Init /\ [][Next]_vars
=============================================================================
