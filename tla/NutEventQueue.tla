---------------------------- MODULE NutEventQueue ----------------------------
(***************************************************************************)
(* Event queues for the modules whose queues no interrupt posts to: a set   *)
(* of waiting threads, and whether an event is remembered.  NutKernel has   *)
(* the code, NutEvents what it promises.  Which waiting thread an event     *)
(* goes to depends on priorities; here it is any of them.                   *)
(***************************************************************************)

CONSTANT Thread

EventQueue == [waiting : SUBSET Thread, signaled : BOOLEAN]

EmptyQueue == [waiting |-> {}, signaled |-> FALSE]

(* The sets of threads an event posted to queue q may wake: one thread, or  *)
(* none when none waits.                                                    *)
Wakeable(q) == IF q.waiting = {} THEN {{}} ELSE {{t} : t \in q.waiting}

(* Queue q after an event that woke the threads in woken.                   *)
Posted(q, woken) ==
    [waiting |-> q.waiting \ woken, signaled |-> q.signaled \/ woken = {}]

(* Queue q after a wait of thread t began, when no event was remembered.    *)
Joined(q, t) == [q EXCEPT !.waiting = @ \cup {t}]

(* The event remembered is gone.                                            *)
Cleared(q) == [q EXCEPT !.signaled = FALSE]

(* Queue q after NutEventWaitNext() of thread t.                            *)
JoinedNext(q, t) == Joined(Cleared(q), t)

(* Queue q after thread t's wait timed out.                                 *)
Left(q, t) == [q EXCEPT !.waiting = @ \ {t}]
=============================================================================
