------------------------------ MODULE NutTimers ------------------------------
(***************************************************************************)
(* What the system timers of Nut/OS promise, without delta list, tick       *)
(* counter or passes over the list: every armed timer has a number of ticks *)
(* to its deadline, and                                                     *)
(*                                                                          *)
(*   - no callback runs before the deadline, and callbacks run in the order *)
(*     of the deadlines;                                                    *)
(*   - a periodic timer keeps its phase, however late its callback ran;     *)
(*   - a stopped timer's callback does not run.                             *)
(***************************************************************************)
EXTENDS Integers

CONSTANT Timer

VARIABLES
    armed,    \* the timers that were started and not stopped
    due,      \* ticks to the deadline, negative when it has passed
    period    \* 0 for a one-shot timer

vars == <<armed, due, period>>

Init ==
    /\ armed = {}
    /\ due = [h \in Timer |-> 0] /\ period = [h \in Timer |-> 0]

Start(h) ==
    /\ h \notin armed
    /\ armed' = armed \cup {h}
    /\ due'[h] >= 0 /\ due' = [due EXCEPT ![h] = due'[h]]
    /\ period'[h] >= 0 /\ period' = [period EXCEPT ![h] = period'[h]]

Off(h) ==
    /\ armed' = armed \ {h}
    /\ due' = [due EXCEPT ![h] = 0] /\ period' = [period EXCEPT ![h] = 0]

Stop(h) == h \in armed /\ Off(h)

Fire(h) ==
    /\ h \in armed /\ due[h] <= 0
    /\ \A k \in armed : due[h] <= due[k]
    /\ \/ period[h] = 0 /\ Off(h)
       \/ /\ period[h] > 0 /\ due' = [due EXCEPT ![h] = @ + period[h]]
          /\ UNCHANGED <<armed, period>>

Tick ==
    /\ due' = [h \in Timer |-> IF h \in armed THEN due[h] - 1 ELSE 0]
    /\ UNCHANGED <<armed, period>>

Next == Tick \/ \E h \in Timer : Start(h) \/ Stop(h) \/ Fire(h)

Spec == Init /\ [][Next]_vars
=============================================================================
