---------------------------- MODULE NutCondition ----------------------------
(***************************************************************************)
(* os/condition.c: a condition variable, which is a mutex and an event      *)
(* queue, used as its documentation asks: consumers test a condition and    *)
(* wait in a loop, producers fulfill it and signal, all with the mutex      *)
(* locked.  The condition is that items is positive.                        *)
(*                                                                          *)
(* A wait is NutConditionTimedWait(), since NutConditionWait() passes the   *)
(* queue itself instead of its address to NutEventWait().                   *)
(***************************************************************************)
EXTENDS NutMutex

CONSTANTS
    Consumer,      \* the threads that wait; the others signal
    MaxItems,      \* bound on items
    UseBroadcast   \* producers call NutConditionBroadcast()

ASSUME ConsumerAssumption == Consumer \subseteq Thread
ASSUME ItemsAssumption == MaxItems \in Nat
ASSUME BroadcastAssumption == UseBroadcast \in BOOLEAN

VARIABLES
    event,   \* the queue of threads waiting for the condition
    items    \* what the application waits for

condVars == <<event, items>>
allVars == <<vars, condVars>>

CondInit == Init /\ event = EmptyQueue /\ items = 0

(* NutConditionLock() is NutMutexLock(), and a wait ends by it.  A thread   *)
(* that is in the loop of NutMutexLock() goes on by LockRetry in both.      *)
NutConditionLock(t) == (NutMutexLock(t) \/ LockRetry(t)) /\ UNCHANGED condVars

NutConditionUnlock(t) == NutMutexUnlock(t) /\ UNCHANGED condVars

(* The unlock may switch threads before the wait begins.                    *)
NutConditionTimedWait(t) ==
    /\ pc[t] = "run" /\ held[t] > 0 /\ items = 0
    /\ Unlock(t)
    /\ pc' = [pc EXCEPT ![t] = "unlocked"]
    /\ UNCHANGED condVars

WaitEvent_Next(t) ==   \* fault: NutEventWaitNext instead of NutEventWait
    /\ pc[t] = "unlocked"
    /\ pc' = [pc EXCEPT ![t] = "wait"]
    /\ event' = JoinedNext(event, t)
    /\ UNCHANGED <<mutexVars, held, items>>

WaitEvent(t) ==
    /\ pc[t] = "unlocked"
    /\ pc' = [pc EXCEPT ![t] = "wait"]
    /\ event' = IF event.signaled THEN Cleared(event) ELSE Joined(event, t)
    /\ UNCHANGED <<mutexVars, held, items>>

WaitTimeout(t) ==
    /\ t \in event.waiting
    /\ event' = Left(event, t)
    /\ UNCHANGED <<vars, items>>

(* Event or timeout, the wait ends with the mutex locked again.             *)
WaitRelock(t) ==
    /\ pc[t] = "wait" /\ t \notin event.waiting
    /\ Lock(t)
    /\ UNCHANGED condVars

(* A consumer that finds the condition fulfilled leaves the loop.           *)
Consume(t) ==
    /\ held[t] > 0 /\ items > 0
    /\ items' = items - 1
    /\ NutMutexUnlock(t)
    /\ UNCHANGED event

(* NutConditionSignal() or NutConditionBroadcast().                         *)
Signal(t) ==
    IF UseBroadcast THEN event' = EmptyQueue
                    ELSE \E woken \in Wakeable(event) : event' = Posted(event, woken)

(* A producer fulfills the condition and signals.                           *)
Produce(t) ==
    /\ pc[t] = "run" /\ held[t] > 0 /\ items < MaxItems
    /\ items' = items + 1
    /\ Signal(t)
    /\ UNCHANGED vars

CondNext == \E t \in Thread :
    \/ NutConditionLock(t)
    \/ WaitEvent(t) \/ WaitTimeout(t) \/ WaitRelock(t)
    \/ t \in Consumer /\ (NutConditionTimedWait(t) \/ Consume(t))
    \/ t \notin Consumer /\ (Produce(t) \/ NutConditionUnlock(t))

CondSpec == CondInit /\ [][CondNext]_allVars

-----------------------------------------------------------------------------

CondTypeOK ==
    /\ thread \in Thread \cup {NoThread} /\ count \in 0..MaxDepth
    /\ qhp \in EventQueue /\ event \in EventQueue
    /\ pc \in [Thread -> {"run", "lock", "unlocked", "wait"}]
    /\ held \in [Thread -> 0..MaxDepth]
    /\ items \in 0..MaxItems

(* A thread that will look at the condition before it waits for a signal.   *)
WillLook(t) ==
    \/ t \in Consumer /\ pc[t] = "lock"
    \/ pc[t] = "wait" /\ t \notin event.waiting
    \/ pc[t] = "unlocked" /\ event.signaled
    \/ t \in Consumer /\ pc[t] = "run" /\ held[t] > 0

(* A consumer that sleeps while the condition holds is not alone: another   *)
(* one is on its way to what the signal announced.  The mutex is locked     *)
(* before the condition is changed and signaled, as os/condition.c:77 asks  *)
(* against lost wakeups; the thread that waits has unlocked it before its   *)
(* wait begins (os/condition.c:132).                                        *)
NoLostSignal ==
    items > 0 /\ event.waiting # {} => \E t \in Thread : WillLook(t)
=============================================================================
