------------------------------ MODULE NutMutex ------------------------------
(***************************************************************************)
(* os/mutex.c: a recursive mutex.                                           *)
(*                                                                          *)
(* Threads are not preempted, so a step of a thread is what it does up to   *)
(* the next call that may give up the CPU, and any thread that does not     *)
(* wait may take the next step.  Such calls are NutEventWaitNext() in       *)
(* NutMutexLock(), where the thread goes on by LockRetry, and the           *)
(* NutEventPost() at the end of NutMutexUnlock().                           *)
(***************************************************************************)
EXTENDS Integers, NutEventQueue

CONSTANTS
    NoThread,     \* the value of mutex->thread before the first lock
    Word,         \* mutex->count is counted modulo Word: 2^16
    MaxDepth,     \* the application nests no more than MaxDepth locks
    StrayUnlock   \* the application may unlock more often than it locked

ASSUME NoThreadAssumption == NoThread \notin Thread
ASSUME DepthAssumption == Word \in Nat /\ MaxDepth \in Nat \ {0} /\ MaxDepth < Word
ASSUME StrayAssumption == StrayUnlock \in BOOLEAN

VARIABLES
    thread, count, qhp,   \* the fields of the mutex
    pc,                   \* "run", or "lock" inside the loop of NutMutexLock()
    held                  \* history: locks less successful unlocks of a thread

mutexVars == <<thread, count, qhp>>
vars == <<thread, count, qhp, pc, held>>

Init ==
    /\ thread = NoThread /\ count = 0 /\ qhp = EmptyQueue
    /\ pc = [t \in Thread |-> "run"]
    /\ held = [t \in Thread |-> 0]

Asleep(t) == t \in qhp.waiting

Take(t) ==
    /\ thread' = t /\ count' = (count + 1) % Word
    /\ held' = [held EXCEPT ![t] = @ + 1]
    /\ pc' = [pc EXCEPT ![t] = "run"]
    /\ UNCHANGED qhp

WaitForMutex(t) ==
    /\ qhp' = JoinedNext(qhp, t)
    /\ pc' = [pc EXCEPT ![t] = "lock"]
    /\ UNCHANGED <<thread, count, held>>

Lock(t) == IF thread = t \/ count = 0 THEN Take(t) ELSE WaitForMutex(t)

NutMutexLock(t) ==
    /\ pc[t] = "run" /\ held[t] < MaxDepth
    /\ Lock(t)

LockRetry_Once(t) ==   \* fault: if instead of while
    /\ pc[t] = "lock" /\ ~Asleep(t)
    /\ Take(t)

(* The thread was woken and looks at the count again.                       *)
LockRetry(t) ==
    /\ pc[t] = "lock" /\ ~Asleep(t)
    /\ IF count = 0 THEN Take(t) ELSE WaitForMutex(t)

NutMutexTrylock(t) ==
    /\ pc[t] = "run" /\ held[t] < MaxDepth
    /\ count = 0 \/ thread = t
    /\ Lock(t)

Unlock_NoPost(t) ==   \* fault: threads that wait are not told
    /\ thread = t
    /\ count' = (count - 1) % Word
    /\ held' = [held EXCEPT ![t] = @ - 1]
    /\ UNCHANGED <<thread, qhp>>

(* mutex->thread stays when the count gets to zero.                         *)
Unlock(t) ==
    /\ thread = t
    /\ count' = (count - 1) % Word
    /\ held' = [held EXCEPT ![t] = @ - 1]
    /\ IF count' = 0 THEN \E woken \in Wakeable(qhp) : qhp' = Posted(qhp, woken)
                     ELSE UNCHANGED qhp
    /\ UNCHANGED thread

NutMutexUnlock(t) ==
    /\ pc[t] = "run"
    /\ ~StrayUnlock => held[t] > 0
    /\ Unlock(t)
    /\ UNCHANGED pc

Next == \E t \in Thread :
    NutMutexLock(t) \/ LockRetry(t) \/ NutMutexTrylock(t) \/ NutMutexUnlock(t)

Spec == Init /\ [][Next]_vars

-----------------------------------------------------------------------------

TypeOK ==
    /\ thread \in Thread \cup {NoThread} /\ count \in 0..MaxDepth
    /\ qhp \in EventQueue
    /\ pc \in [Thread -> {"run", "lock"}]
    /\ held \in [Thread -> 0..MaxDepth]

(* No two threads are between lock and unlock (os/mutex.c:88).              *)
MutualExclusion == \A t, u \in Thread : held[t] > 0 /\ held[u] > 0 => t = u

(* The count is that of the locks its owner has not given back, so that the *)
(* mutex is free after as many unlocks as locks and not before              *)
(* (os/mutex.c:102, 134).                                                   *)
CountIsDepth ==
    \A t \in Thread : held[t] = IF thread = t THEN count ELSE 0

(* No thread sleeps on a free mutex unless another has been woken and will  *)
(* look at it, although posts are forgotten by NutEventWaitNext()           *)
(* (os/mutex.c:100, 135).                                                   *)
NoLostWakeup ==
    count = 0 /\ qhp.waiting # {} => \E t \in Thread : pc[t] = "lock" /\ ~Asleep(t)

(* Unlock succeeds only for a thread that holds a lock (os/mutex.c:125).    *)
UnlocksOwed == \A t \in Thread : held[t] >= 0

(* A thread in NutMutexLock() has not got the mutex, and only such threads  *)
(* sleep.                                                                   *)
LockersWait ==
    /\ \A t \in Thread : pc[t] = "lock" => thread # t
    /\ \A t \in qhp.waiting : pc[t] = "lock"

(* The inductive invariant of an application that unlocks what it locked.   *)
IInv == TypeOK /\ CountIsDepth /\ LockersWait /\ NoLostWakeup
=============================================================================
