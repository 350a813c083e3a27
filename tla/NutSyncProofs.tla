---------------------------- MODULE NutSyncProofs ----------------------------
(***************************************************************************)
(* The mutex and the semaphore are correct for any number of threads (the   *)
(* semaphore's are finite), any nesting of locks, any initial value and any *)
(* number of posts, and the condition variable for one consumer and any     *)
(* number of producers, when the application unlocks only what it locked.   *)
(***************************************************************************)
EXTENDS NutCondition, NutSemaphore, FiniteSetTheorems, TLAPS

USE NoThreadAssumption, DepthAssumption, StrayAssumption

(* What holds of a mutex whatever else its threads do while they are not    *)
(* waiting for it.                                                          *)
LockTypeOK ==
    /\ thread \in Thread \cup {NoThread} /\ count \in 0..MaxDepth
    /\ qhp \in EventQueue /\ held \in [Thread -> 0..MaxDepth]
    /\ pc = [t \in Thread |-> pc[t]]

LockInv == LockTypeOK /\ CountIsDepth /\ LockersWait /\ NoLostWakeup

LEMMA InitInvariant == Init => IInv /\ LockInv
  BY DEF Init, IInv, TypeOK, LockInv, LockTypeOK, CountIsDepth, LockersWait, NoLostWakeup,
         EventQueue, EmptyQueue

(* A thread that finds the mutex free or its own becomes the only owner.    *)
LEMMA TakeInvariant ==
  ASSUME LockInv, NEW t \in Thread, Take(t), count = 0 \/ thread = t,
         held[t] < MaxDepth, t \notin qhp.waiting
  PROVE  LockInv'
<1> USE DEF LockInv, Take
<1>1. count' = count + 1 /\ count + 1 \in 0..MaxDepth
  <2>1. count <= held[t]
    BY DEF LockTypeOK, CountIsDepth
  <2>2. (count + 1) % Word = count + 1
    BY <2>1 DEF LockTypeOK
  <2> QED BY <2>1, <2>2 DEF LockTypeOK
<1>2. LockTypeOK'
  BY <1>1 DEF LockTypeOK, CountIsDepth
<1>3. CountIsDepth'
  BY <1>1 DEF LockTypeOK, CountIsDepth
<1>4. LockersWait'
  BY DEF LockTypeOK, LockersWait, EventQueue
<1>5. NoLostWakeup'
  BY <1>1 DEF LockTypeOK, NoLostWakeup
<1> QED BY <1>2, <1>3, <1>4, <1>5

(* A thread goes to sleep only while another owns the mutex.                *)
LEMMA SleepInvariant ==
  ASSUME LockInv, NEW t \in Thread, WaitForMutex(t), count # 0, thread # t
  PROVE  LockInv'
<1> USE DEF LockInv, WaitForMutex, JoinedNext, Joined, Cleared
<1>1. qhp' = [waiting |-> qhp.waiting \cup {t}, signaled |-> FALSE]
  BY DEF LockTypeOK, EventQueue
<1>2. LockTypeOK'
  <2>1. qhp.waiting \cup {t} \in SUBSET Thread
    BY DEF LockTypeOK, EventQueue
  <2>2. qhp' \in EventQueue
    BY <1>1, <2>1 DEF EventQueue
  <2>3. pc' = [u \in Thread |-> pc'[u]]
    BY DEF LockTypeOK
  <2> QED BY <2>2, <2>3 DEF LockTypeOK
<1>3. LockersWait'
  BY <1>1 DEF LockTypeOK, LockersWait, EventQueue
<1>4. CountIsDepth' /\ NoLostWakeup'
  BY DEF CountIsDepth, NoLostWakeup
<1> QED BY <1>2, <1>3, <1>4

LEMMA LockInvariant ==
  ASSUME LockInv, NEW t \in Thread, Lock(t), held[t] < MaxDepth, pc[t] # "lock"
  PROVE  LockInv'
<1>1. t \notin qhp.waiting
  BY DEF LockInv, LockersWait
<1>2. CASE thread = t \/ count = 0
  BY <1>1, <1>2, TakeInvariant DEF Lock
<1>3. CASE ~(thread = t \/ count = 0)
  BY <1>3, SleepInvariant DEF Lock
<1> QED BY <1>2, <1>3

LEMMA RetryInvariant ==
  ASSUME LockInv, NEW t \in Thread, LockRetry(t)
  PROVE  LockInv'
<1>1. t \notin qhp.waiting /\ thread # t /\ held[t] = 0
  BY DEF LockInv, LockRetry, Asleep, LockersWait, CountIsDepth
<1>2. CASE count = 0
  BY <1>1, <1>2, TakeInvariant DEF LockRetry
<1>3. CASE count # 0
  BY <1>1, <1>3, SleepInvariant DEF LockRetry
<1> QED BY <1>2, <1>3

(* The last unlock wakes a thread when one sleeps.                          *)
LEMMA UnlockInvariant ==
  ASSUME LockInv, NEW t \in Thread, held[t] > 0, Unlock(t),
         pc' = [u \in Thread |-> pc'[u]], \A u \in Thread : pc'[u] = "lock" <=> pc[u] = "lock"
  PROVE  LockInv'
<1> USE DEF LockInv, Unlock
<1>1. thread = t /\ held[t] = count
  BY DEF LockTypeOK, CountIsDepth
<1>2. count' = count - 1 /\ count - 1 \in 0..MaxDepth
  <2>1. (count - 1) % Word = count - 1
    BY <1>1 DEF LockTypeOK
  <2> QED BY <1>1, <2>1 DEF LockTypeOK
<1>3. CountIsDepth'
  BY <1>1, <1>2 DEF LockTypeOK, CountIsDepth
<1>4. held' \in [Thread -> 0..MaxDepth] /\ thread' = thread
  BY <1>1, <1>2 DEF LockTypeOK, CountIsDepth
<1>5. CASE count' # 0
  <2>1. qhp' = qhp
    BY <1>5
  <2>2. LockTypeOK'
    BY <1>2, <1>4, <2>1 DEF LockTypeOK
  <2>3. LockersWait'
    BY <1>4, <2>1 DEF LockersWait, LockTypeOK, EventQueue
  <2> QED BY <1>3, <1>5, <2>2, <2>3 DEF NoLostWakeup
<1>6. CASE count' = 0
  <2>1. PICK woken \in Wakeable(qhp) : qhp' = Posted(qhp, woken)
    BY <1>6
  <2>2. woken \subseteq qhp.waiting /\ (qhp.waiting # {} => woken # {})
    BY <2>1 DEF Wakeable
  <2>3. qhp' \in EventQueue /\ qhp'.waiting = qhp.waiting \ woken
    BY <2>1 DEF LockTypeOK, EventQueue, Posted
  <2>4. LockTypeOK'
    BY <1>2, <1>4, <2>3 DEF LockTypeOK
  <2>5. LockersWait'
    BY <1>4, <2>3 DEF LockersWait, LockTypeOK, EventQueue
  <2>6. NoLostWakeup'
    <3> SUFFICES ASSUME qhp'.waiting # {} PROVE \E u \in Thread : pc'[u] = "lock" /\ ~Asleep(u)'
      BY DEF NoLostWakeup
    <3>1. PICK u \in woken : TRUE
      BY <2>2, <2>3
    <3>2. u \in Thread /\ pc[u] = "lock" /\ u \notin qhp'.waiting
      BY <3>1, <2>2, <2>3 DEF LockTypeOK, EventQueue, LockersWait
    <3> QED BY <3>2 DEF Asleep
  <2> QED BY <1>3, <2>4, <2>5, <2>6
<1> QED BY <1>5, <1>6

LEMMA IInvFromLocks ==
  ASSUME pc \in [Thread -> {"run", "lock"}] PROVE IInv <=> LockInv
  BY DEF IInv, TypeOK, LockInv, LockTypeOK

LEMMA NextInvariant ==
  ASSUME StrayUnlock = FALSE, IInv, [Next]_vars PROVE IInv'
<1>1. CASE UNCHANGED vars
  BY <1>1 DEF vars, IInv, TypeOK, CountIsDepth, LockersWait, NoLostWakeup, Asleep
<1>2. pc \in [Thread -> {"run", "lock"}] /\ LockInv
  BY IInvFromLocks DEF IInv, TypeOK
<1>3. CASE Next
  <2>1. pc' \in [Thread -> {"run", "lock"}]
    BY <1>2, <1>3 DEF Next, NutMutexLock, NutMutexTrylock, LockRetry, Lock, Take, WaitForMutex, NutMutexUnlock
  <2>2. ASSUME NEW t \in Thread, NutMutexLock(t) \/ NutMutexTrylock(t) PROVE LockInv'
    BY <1>2, <2>2, LockInvariant DEF NutMutexLock, NutMutexTrylock
  <2>3. ASSUME NEW t \in Thread, NutMutexUnlock(t) PROVE LockInv'
    BY <1>2, <2>3, UnlockInvariant DEF NutMutexUnlock
  <2>4. LockInv'
    BY <1>2, <1>3, <2>2, <2>3, RetryInvariant DEF Next
  <2> QED BY <2>1, <2>4 DEF IInv, TypeOK, LockInv, LockTypeOK
<1> QED BY <1>1, <1>3

(* The inductive invariant of os/mutex.c.                                   *)
THEOREM MutexInvariant == ASSUME StrayUnlock = FALSE PROVE Spec => []IInv
<1>1. Init => IInv
  BY InitInvariant
<1>2. IInv /\ [Next]_vars => IInv'
  BY NextInvariant
<1> QED BY <1>1, <1>2, PTL DEF Spec

(* At most one thread is between NutMutexLock() and NutMutexUnlock().       *)
THEOREM MutexExcludes == ASSUME StrayUnlock = FALSE PROVE Spec => []MutualExclusion
<1>1. IInv => MutualExclusion
  BY DEF IInv, TypeOK, CountIsDepth, MutualExclusion
<1> QED BY <1>1, MutexInvariant, PTL

(* The mutex is given back by the unlock that answers the first lock.       *)
THEOREM MutexCounts == ASSUME StrayUnlock = FALSE PROVE Spec => []CountIsDepth
<1>1. IInv => CountIsDepth
  BY DEF IInv
<1> QED BY <1>1, MutexInvariant, PTL

(* No thread is left asleep on a free mutex.                                *)
THEOREM MutexWakes == ASSUME StrayUnlock = FALSE PROVE Spec => []NoLostWakeup
<1>1. IInv => NoLostWakeup
  BY DEF IInv
<1> QED BY <1>1, MutexInvariant, PTL

-----------------------------------------------------------------------------
USE ItemsAssumption, BroadcastAssumption, ConsumerAssumption

(* Only a consumer that waits is in the queue, a wait leaves room for its   *)
(* lock, and a consumer that waits, or will not look again before it does,  *)
(* is there only while there is nothing to consume.                         *)
Waits == \A t \in event.waiting : t \in Consumer /\ pc[t] = "wait"

WaitsUnlocked ==
    \A t \in Thread : pc[t] \in {"unlocked", "wait"} => t \in Consumer /\ held[t] < MaxDepth

NothingMissed ==
    /\ event.waiting # {} => items = 0
    /\ \A t \in Consumer : pc[t] = "unlocked" /\ ~event.signaled => items = 0

CondInv == CondTypeOK /\ LockInv /\ Waits /\ WaitsUnlocked

OneConsumer == \A t, u \in Consumer : t = u

LEMMA CondInitInv == ASSUME CondInit PROVE CondInv /\ NothingMissed
<1>1. LockInv
  BY InitInvariant DEF CondInit
<1> QED BY <1>1 DEF CondInit, Init, CondInv, CondTypeOK, Waits, WaitsUnlocked, NothingMissed, EventQueue, EmptyQueue

(* What the steps on the mutex leave as it is.                              *)
LEMMA LockFrame ==
  ASSUME CondInv, NEW t \in Thread, Lock(t) \/ LockRetry(t)
  PROVE  /\ pc' = [pc EXCEPT ![t] = pc'[t]] /\ pc'[t] \in {"run", "lock"}
         /\ \A u \in Thread : u # t => held'[u] = held[u]
<1>1. pc \in [Thread -> {"run", "lock", "unlocked", "wait"}] /\ held \in [Thread -> 0..MaxDepth]
  BY DEF CondInv, CondTypeOK
<1>2. Take(t) \/ WaitForMutex(t)
  BY DEF Lock, LockRetry
<1>3. CASE Take(t)
  BY <1>1, <1>3 DEF Take
<1>4. CASE WaitForMutex(t)
  BY <1>1, <1>4 DEF WaitForMutex
<1> QED BY <1>2, <1>3, <1>4

LEMMA CondTyped ==
  ASSUME LockInv, pc \in [Thread -> {"run", "lock", "unlocked", "wait"}],
         event \in EventQueue, items \in 0..MaxItems
  PROVE  CondTypeOK
  BY DEF LockInv, LockTypeOK, CondTypeOK

LEMMA CondLockInv ==
  ASSUME CondInv, NEW t \in Thread, UNCHANGED condVars,
         (Lock(t) /\ held[t] < MaxDepth /\ pc[t] # "lock" /\ t \notin event.waiting)
            \/ LockRetry(t)
  PROVE  CondInv'
<1>1. LockInv'
  BY LockInvariant, RetryInvariant DEF CondInv
<1>2. /\ pc' = [pc EXCEPT ![t] = pc'[t]] /\ pc'[t] \in {"run", "lock"}
      /\ \A u \in Thread : u # t => held'[u] = held[u]
  BY LockFrame
<1>3. event' = event /\ items' = items
  BY DEF condVars
<1>4. pc \in [Thread -> {"run", "lock", "unlocked", "wait"}] /\ CondTypeOK
  BY DEF CondInv, CondTypeOK
<1>5. pc' \in [Thread -> {"run", "lock", "unlocked", "wait"}]
      /\ \A u \in Thread : u # t => pc'[u] = pc[u]
  BY <1>2, <1>4
<1>6. CondTypeOK'
  BY <1>1, <1>3, <1>4, <1>5 DEF CondTypeOK, LockInv, LockTypeOK
<1>7. t \notin event.waiting
  BY DEF CondInv, Waits, LockRetry
<1>8. Waits'
  BY <1>3, <1>4, <1>5, <1>7 DEF CondInv, Waits, CondTypeOK, EventQueue
<1>9. WaitsUnlocked'
  BY <1>2, <1>5 DEF CondInv, WaitsUnlocked
<1> QED BY <1>1, <1>6, <1>8, <1>9 DEF CondInv

LEMMA CondUnlockInv ==
  ASSUME CondInv, NEW t \in Thread, pc[t] = "run", held[t] > 0, Unlock(t),
         UNCHANGED event, items' \in 0..MaxItems,
         \/ pc' = pc
         \/ t \in Consumer /\ pc' = [pc EXCEPT ![t] = "unlocked"]
  PROVE  CondInv'
<1>1. pc \in [Thread -> {"run", "lock", "unlocked", "wait"}] /\ CondTypeOK
      /\ held \in [Thread -> 0..MaxDepth]
  BY DEF CondInv, CondTypeOK
<1>2. /\ pc' \in [Thread -> {"run", "lock", "unlocked", "wait"}]
      /\ \A u \in Thread : u # t => pc'[u] = pc[u]
      /\ pc'[t] \in {"run", "unlocked"} /\ (pc'[t] = "unlocked" => t \in Consumer)
  BY <1>1
<1>3. LockInv'
  <2>1. pc' = [u \in Thread |-> pc'[u]]
    BY <1>2
  <2>2. \A u \in Thread : pc'[u] = "lock" <=> pc[u] = "lock"
    BY <1>2
  <2> QED BY <2>1, <2>2, UnlockInvariant DEF CondInv
<1>4. held' = [held EXCEPT ![t] = held[t] - 1]
  BY DEF Unlock
<1>5. CondTypeOK'
  BY <1>1, <1>2, <1>3 DEF CondTypeOK, LockInv, LockTypeOK
<1>6. t \notin event.waiting
  BY DEF CondInv, Waits
<1>7. Waits'
  BY <1>1, <1>2, <1>6 DEF CondInv, Waits, CondTypeOK, EventQueue
<1>8. WaitsUnlocked'
  <2> SUFFICES ASSUME NEW u \in Thread, pc'[u] \in {"unlocked", "wait"}
               PROVE  u \in Consumer /\ held'[u] < MaxDepth
    BY DEF WaitsUnlocked
  <2>1. CASE u = t
    BY <1>1, <1>2, <1>4, <2>1
  <2>2. CASE u # t
    BY <1>1, <1>2, <1>4, <2>2 DEF CondInv, WaitsUnlocked
  <2> QED BY <2>1, <2>2
<1> QED BY <1>3, <1>5, <1>7, <1>8 DEF CondInv

(* Steps on the queue of the condition alone.                               *)
LEMMA CondQueueInv ==
  ASSUME CondInv, UNCHANGED <<mutexVars, held>>, event' \in EventQueue, items' \in 0..MaxItems,
         \/ pc' = pc /\ event'.waiting \subseteq event.waiting
         \/ \E t \in Thread : /\ pc[t] = "unlocked" /\ pc' = [pc EXCEPT ![t] = "wait"]
                             /\ event'.waiting \subseteq event.waiting \cup {t}
  PROVE  CondInv'
<1>1. pc \in [Thread -> {"run", "lock", "unlocked", "wait"}] /\ CondTypeOK
  BY DEF CondInv, CondTypeOK
<1>2. thread' = thread /\ count' = count /\ qhp' = qhp /\ held' = held
  BY DEF mutexVars
<1>3. /\ pc' \in [Thread -> {"run", "lock", "unlocked", "wait"}]
      /\ \A u \in Thread : pc'[u] = pc[u] \/ (pc[u] = "unlocked" /\ pc'[u] = "wait")
      /\ \A u \in event'.waiting : u \in Thread /\
             ((u \in event.waiting /\ pc'[u] = pc[u]) \/ (pc[u] = "unlocked" /\ pc'[u] = "wait"))
  BY <1>1 DEF CondTypeOK, EventQueue, CondInv, Waits
<1>4. LockInv'
  BY <1>2, <1>3 DEF CondInv, LockInv, LockTypeOK, CountIsDepth, LockersWait, NoLostWakeup, Asleep, EventQueue
<1>5. CondTypeOK'
  BY <1>1, <1>2, <1>3 DEF CondTypeOK
<1>6. Waits' /\ WaitsUnlocked'
  BY <1>2, <1>3 DEF CondInv, Waits, WaitsUnlocked
<1> QED BY <1>4, <1>5, <1>6 DEF CondInv

LEMMA CondStep ==
  ASSUME StrayUnlock = FALSE, CondInv, [CondNext]_allVars
  PROVE  CondInv'
<1>0. event \in EventQueue /\ event.waiting \subseteq Thread /\ items \in 0..MaxItems
      /\ held \in [Thread -> 0..MaxDepth]
  BY DEF CondInv, CondTypeOK, EventQueue
<1>1. ASSUME NEW t \in Thread, NutConditionLock(t) PROVE CondInv'
  <2>1. CASE NutMutexLock(t)
    <3>1. t \notin event.waiting
      BY <2>1 DEF NutMutexLock, CondInv, Waits
    <3> QED BY <1>1, <2>1, <3>1, CondLockInv DEF NutConditionLock, NutMutexLock
  <2>2. CASE LockRetry(t)
    BY <1>1, <2>2, CondLockInv DEF NutConditionLock
  <2> QED BY <1>1, <2>1, <2>2 DEF NutConditionLock
<1>2. ASSUME NEW t \in Thread, WaitEvent(t) PROVE CondInv'
  <2>1. event' \in EventQueue /\ event'.waiting \subseteq event.waiting \cup {t}
    BY <1>0, <1>2 DEF WaitEvent, Cleared, Joined, EventQueue
  <2> QED BY <1>0, <1>2, <2>1, CondQueueInv DEF WaitEvent
<1>3. ASSUME NEW t \in Thread, WaitTimeout(t) PROVE CondInv'
  <2>1. event' \in EventQueue /\ event'.waiting \subseteq event.waiting
    BY <1>0, <1>3 DEF WaitTimeout, Left, EventQueue
  <2> QED BY <1>0, <1>3, <2>1, CondQueueInv DEF WaitTimeout, vars, mutexVars
<1>4. ASSUME NEW t \in Thread, WaitRelock(t) PROVE CondInv'
  <2>1. held[t] < MaxDepth /\ pc[t] # "lock"
    BY <1>4 DEF WaitRelock, CondInv, WaitsUnlocked
  <2> QED BY <1>4, <2>1, CondLockInv DEF WaitRelock
<1>5. ASSUME NEW t \in Consumer, NutConditionTimedWait(t) PROVE CondInv'
  <2>1. event' = event /\ items' = items
    BY <1>5 DEF NutConditionTimedWait, condVars
  <2> QED BY <1>0, <1>5, <2>1, CondUnlockInv DEF NutConditionTimedWait
<1>6. ASSUME NEW t \in Consumer, Consume(t) PROVE CondInv'
  <2>1. items' \in 0..MaxItems
    BY <1>0, <1>6 DEF Consume
  <2> QED BY <1>6, <2>1, CondUnlockInv DEF Consume, NutMutexUnlock
<1>7. ASSUME NEW t \in Thread, Produce(t) PROVE CondInv'
  <2>1. event' \in EventQueue /\ event'.waiting \subseteq event.waiting
    <3>1. CASE event' = EmptyQueue
      BY <3>1 DEF EmptyQueue, EventQueue
    <3>2. ASSUME NEW woken \in Wakeable(event), event' = Posted(event, woken)
          PROVE  event' \in EventQueue /\ event'.waiting \subseteq event.waiting
      <4>1. event.waiting \ woken \in SUBSET Thread
        BY <1>0
      <4>2. (event.signaled \/ woken = {}) \in BOOLEAN
        OBVIOUS
      <4> QED BY <3>2, <4>1, <4>2 DEF Posted, EventQueue
    <3>3. event' = EmptyQueue \/ \E woken \in Wakeable(event) : event' = Posted(event, woken)
      BY <1>7 DEF Produce, Signal
    <3> QED BY <3>1, <3>2, <3>3
  <2>2. items' \in 0..MaxItems
    BY <1>0, <1>7 DEF Produce
  <2> QED BY <1>7, <2>1, <2>2, CondQueueInv DEF Produce, vars, mutexVars
<1>8. ASSUME NEW t \in Thread, held[t] > 0, NutConditionUnlock(t) PROVE CondInv'
  <2>1. event' = event /\ items' = items
    BY <1>8 DEF NutConditionUnlock, condVars
  <2> QED BY <1>0, <1>8, <2>1, CondUnlockInv DEF NutConditionUnlock, NutMutexUnlock
<1>9. CASE UNCHANGED allVars
  BY <1>9 DEF allVars, vars, condVars, CondInv, CondTypeOK, LockInv, LockTypeOK, CountIsDepth,
              LockersWait, NoLostWakeup, Asleep, Waits, WaitsUnlocked
<1> QED BY <1>1, <1>2, <1>3, <1>4, <1>5, <1>6, <1>7, <1>8, <1>9 DEF CondNext, NutConditionUnlock, NutMutexUnlock

LEMMA MissStep ==
  ASSUME OneConsumer, ~UseBroadcast, CondInv, NothingMissed, [CondNext]_allVars
  PROVE  NothingMissed'
<1>0. /\ pc \in [Thread -> {"run", "lock", "unlocked", "wait"}]
      /\ event \in EventQueue /\ items \in 0..MaxItems
  BY DEF CondInv, CondTypeOK
<1>1. ASSUME NEW t \in Thread, Lock(t) \/ LockRetry(t), UNCHANGED condVars PROVE NothingMissed'
  <2>1. pc' = [pc EXCEPT ![t] = pc'[t]] /\ pc'[t] \in {"run", "lock"}
    BY <1>1, LockFrame
  <2>2. \A u \in Thread : pc'[u] = "unlocked" => pc[u] = "unlocked"
    BY <1>0, <2>1
  <2> QED BY <1>1, <2>2 DEF NothingMissed, condVars
<1>2. ASSUME NEW t \in Thread, WaitEvent(t) PROVE NothingMissed'
  <2>1. t \in Consumer
    BY <1>2 DEF WaitEvent, CondInv, WaitsUnlocked
  <2>2. pc'[t] = "wait" /\ items' = items
    BY <1>0, <1>2 DEF WaitEvent
  <2>3. \A u \in Consumer : pc'[u] # "unlocked"
    BY <2>1, <2>2 DEF OneConsumer
  <2>4. event.signaled => event'.waiting = event.waiting
    BY <1>0, <1>2 DEF WaitEvent, Cleared, EventQueue
  <2>5. ~event.signaled => items = 0
    BY <1>2, <2>1 DEF NothingMissed, WaitEvent
  <2> QED BY <2>2, <2>3, <2>4, <2>5 DEF NothingMissed
<1>3. ASSUME NEW t \in Thread, WaitTimeout(t) PROVE NothingMissed'
  BY <1>0, <1>3 DEF WaitTimeout, vars, Left, EventQueue, NothingMissed
<1>4. ASSUME NEW t \in Consumer, NutConditionTimedWait(t) PROVE NothingMissed'
  BY <1>4 DEF NutConditionTimedWait, condVars, NothingMissed
<1>5. ASSUME NEW t \in Consumer, Consume(t) PROVE NothingMissed'
  <2>1. pc[t] = "run" /\ items > 0 /\ event' = event /\ pc' = pc
    BY <1>5 DEF Consume, NutMutexUnlock
  <2>2. event.waiting = {}
    BY <2>1 DEF NothingMissed
  <2>3. \A u \in Consumer : pc'[u] # "unlocked"
    BY <2>1 DEF OneConsumer
  <2> QED BY <2>1, <2>2, <2>3 DEF NothingMissed
<1>6. ASSUME NEW t \in Thread, Produce(t) PROVE NothingMissed'
  <2>1. PICK woken \in Wakeable(event) : event' = Posted(event, woken)
    BY <1>6 DEF Produce, Signal
  <2>2. pc' = pc
    BY <1>6 DEF Produce, vars
  <2>3. event'.waiting = event.waiting \ woken /\ (event'.signaled <=> event.signaled \/ woken = {})
    BY <1>0, <2>1 DEF Posted, EventQueue
  <2>4. \A u, v \in event.waiting : u = v
    BY DEF CondInv, Waits, OneConsumer
  <2>5. event'.waiting = {}
    BY <2>1, <2>3, <2>4 DEF Wakeable
  <2>6. ASSUME NEW u \in Consumer, pc'[u] = "unlocked" PROVE event'.signaled
    <3>1. event.waiting = {}
      BY <2>2, <2>6 DEF CondInv, Waits, OneConsumer
    <3>2. woken = {}
      BY <2>1, <3>1 DEF Wakeable
    <3> QED BY <2>3, <3>2
  <2> QED BY <2>5, <2>6 DEF NothingMissed
<1>7. ASSUME NEW t \in Thread, NutConditionUnlock(t) PROVE NothingMissed'
  BY <1>7 DEF NutConditionUnlock, NutMutexUnlock, condVars, NothingMissed
<1>8. CASE UNCHANGED allVars
  BY <1>8 DEF allVars, vars, condVars, NothingMissed
<1> QED BY <1>1, <1>2, <1>3, <1>4, <1>5, <1>6, <1>7, <1>8 DEF CondNext, NutConditionLock, NutMutexLock, WaitRelock

(* The mutex of a condition variable stays one although threads give it up  *)
(* and take it back within a wait (os/condition.c:174, 176), with any       *)
(* number of consumers, by signal or by broadcast.                          *)
THEOREM ConditionInvariant == ASSUME StrayUnlock = FALSE PROVE CondSpec => []CondInv
<1>1. CondInit => CondInv
  BY CondInitInv
<1>2. CondInv /\ [CondNext]_allVars => CondInv'
  BY CondStep
<1> QED BY <1>1, <1>2, PTL DEF CondSpec

(* At most one thread is between lock and unlock, with waits in between.    *)
THEOREM ConditionExcludes == ASSUME StrayUnlock = FALSE PROVE CondSpec => []MutualExclusion
<1>1. CondInv => MutualExclusion
  BY DEF CondInv, LockInv, LockTypeOK, CountIsDepth, MutualExclusion
<1> QED BY <1>1, ConditionInvariant, PTL

(* The only consumer is never asleep while the condition holds, for any     *)
(* number of producers that signal: NutEventPost() remembers what came      *)
(* between the unlock and the wait (os/condition.c:174).  With broadcasts,  *)
(* or with more consumers, it is not so.                                    *)
THEOREM SignalsAreNotLost ==
  ASSUME StrayUnlock = FALSE, OneConsumer, ~UseBroadcast
  PROVE  CondSpec => []NoLostSignal
<1>1. CondInit => NothingMissed
  BY CondInitInv
<1>2. CondInv /\ NothingMissed /\ [CondNext]_allVars => NothingMissed'
  BY MissStep
<1>3. CondInv /\ NothingMissed => NoLostSignal
  BY DEF CondInv, CondTypeOK, NothingMissed, NoLostSignal
<1> QED BY <1>1, <1>2, <1>3, ConditionInvariant, PTL DEF CondSpec

-----------------------------------------------------------------------------
USE InitialAssumption, MaxPostsAssumption, ThreadAssumption

(* The sets that are counted are finite.                                    *)
LEMMA Counted ==
  ASSUME SemTypeOK
  PROVE  /\ IsFiniteSet(semQhp.waiting) /\ semQhp.waiting \subseteq Thread
         /\ IsFiniteSet(SemWoken) /\ SemWoken \subseteq Thread
         /\ Cardinality(semQhp.waiting) \in 0..Cardinality(Thread)
         /\ Cardinality(SemWoken) \in Nat /\ Cardinality(Thread) \in Nat
<1>1. semQhp.waiting \subseteq Thread /\ SemWoken \subseteq Thread
  BY DEF SemTypeOK, EventQueue, SemWoken
<1>2. IsFiniteSet(semQhp.waiting) /\ IsFiniteSet(SemWoken)
  BY <1>1, FS_Subset
<1>3. Cardinality(semQhp.waiting) <= Cardinality(Thread)
  BY <1>1, FS_Subset
<1> QED BY <1>1, <1>2, <1>3, FS_CardinalityType

LEMMA SemInitInvariant == SemInit => SemIInv
<1> SUFFICES ASSUME SemInit PROVE SemIInv
  OBVIOUS
<1>1. SemWoken = {} /\ semQhp.waiting = {} /\ ~semQhp.signaled /\ semQhp \in EventQueue
  BY DEF SemInit, SemWoken, EmptyQueue, EventQueue
<1>2. Cardinality({}) = 0 /\ Cardinality(Thread) \in Nat
  BY FS_EmptySet, FS_CardinalityType
<1> QED BY <1>1, <1>2 DEF SemInit, SemIInv, SemTypeOK, SleepersCounted, UnitsConserved, NeverSignaled

(* A wait takes a unit, or a place among the sleepers.                      *)
LEMMA WaitInvariant ==
  ASSUME SemIInv, NEW t \in Thread, NutSemWait(t) PROVE SemIInv'
<1> USE DEF SemIInv, NutSemWait, SemWait
<1>0. semPc[t] = "run" /\ t \notin semQhp.waiting /\ value' = value - 1 /\ posts' = posts
  OBVIOUS
<1>1. CASE value' < 0
  <2>1. semQhp' = [waiting |-> semQhp.waiting \cup {t}, signaled |-> FALSE]
    BY <1>1 DEF SemTypeOK, EventQueue, JoinedNext, Joined, Cleared
  <2>2. semPc' = [semPc EXCEPT ![t] = "wait"] /\ passed' = passed
    BY <1>1
  <2>3. semQhp.waiting \cup {t} \subseteq Thread
    BY Counted
  <2>4. semQhp' \in EventQueue /\ semQhp'.waiting = semQhp.waiting \cup {t} /\ ~semQhp'.signaled
    BY <2>1, <2>3 DEF EventQueue
  <2>5. Cardinality(semQhp'.waiting) = Cardinality(semQhp.waiting) + 1
    BY <1>0, <2>4, Counted, FS_AddElement
  <2>6. SemWoken' = SemWoken
    BY <1>0, <2>2, <2>4 DEF SemWoken, SemTypeOK
  <2>7. Cardinality(semQhp'.waiting) <= Cardinality(Thread)
    BY <2>3, <2>4, FS_Subset
  <2>8. SleepersCounted' /\ UnitsConserved' /\ NeverSignaled'
    BY <1>0, <1>1, <2>2, <2>4, <2>5, <2>6, Counted
       DEF SemTypeOK, SleepersCounted, UnitsConserved, NeverSignaled
  <2>9. value' \in -Cardinality(Thread)..(Initial + posts)
    BY <1>0, <1>1, <2>5, <2>7, Counted DEF SemTypeOK, SleepersCounted
  <2>10. SemTypeOK'
    BY <1>0, <2>2, <2>4, <2>9 DEF SemTypeOK
  <2> QED BY <2>2, <2>4, <2>8, <2>10 DEF SemTypeOK
<1>2. CASE ~(value' < 0)
  <2>1. passed' = passed + 1 /\ semQhp' = semQhp /\ semPc' = semPc
    BY <1>2
  <2>2. SemWoken' = SemWoken
    BY <2>1 DEF SemWoken
  <2>3. value > 0
    BY <1>0, <1>2 DEF SemTypeOK
  <2>4. SleepersCounted' /\ UnitsConserved' /\ NeverSignaled'
    BY <1>0, <1>2, <2>1, <2>2, <2>3, Counted DEF SemTypeOK, SleepersCounted, UnitsConserved, NeverSignaled
  <2>5. SemTypeOK'
    BY <1>0, <2>1, <2>3, Counted DEF SemTypeOK, UnitsConserved
  <2> QED BY <2>1, <2>4, <2>5
<1> QED BY <1>1, <1>2

LEMMA ReturnInvariant ==
  ASSUME SemIInv, NEW t \in Thread, WaitReturn(t) PROVE SemIInv'
<1> USE DEF SemIInv, WaitReturn
<1>1. t \in SemWoken /\ SemWoken' = SemWoken \ {t}
  BY DEF SemWoken, SemTypeOK
<1>2. Cardinality(SemWoken') = Cardinality(SemWoken) - 1
  BY <1>1, Counted, FS_RemoveElement
<1>3. Cardinality(SemWoken) - 1 \in Nat
  <2>1. IsFiniteSet(SemWoken') /\ Cardinality(SemWoken') \in Nat
    BY <1>1, Counted, FS_Subset, FS_CardinalityType
  <2> QED BY <1>2, <2>1
<1>4. UnitsConserved'
  BY <1>2, Counted DEF SemTypeOK, UnitsConserved
<1>5. SemTypeOK'
  BY <1>3, Counted DEF SemTypeOK, UnitsConserved
<1> QED BY <1>4, <1>5 DEF SemTypeOK, SleepersCounted, NeverSignaled

(* A post wakes a sleeper when there is one, and then only.                 *)
LEMMA PostInvariant ==
  ASSUME SemIInv, NEW t \in Thread, NutSemPost(t) PROVE SemIInv'
<1> USE DEF SemIInv, NutSemPost
<1>0. value' = value + 1 /\ posts' = posts + 1 /\ posts' \in 0..MaxPosts /\ semPc' = semPc /\ passed' = passed
  BY DEF SemTypeOK
<1>1. CASE value' <= 0
  <2>1. value < 0 /\ semQhp.waiting # {}
    <3>1. value < 0
      BY <1>0, <1>1, Counted DEF SemTypeOK
    <3>2. Cardinality(semQhp.waiting) # 0
      BY <3>1 DEF SemTypeOK, SleepersCounted
    <3> QED BY <3>1, <3>2, FS_EmptySet
  <2>2. PICK u \in semQhp.waiting : semQhp' = Posted(semQhp, {u})
    BY <1>1, <2>1 DEF Wakeable
  <2>3. semQhp' \in EventQueue /\ semQhp'.waiting = semQhp.waiting \ {u} /\ ~semQhp'.signaled
    BY <2>2 DEF SemTypeOK, EventQueue, Posted, NeverSignaled
  <2>4. Cardinality(semQhp'.waiting) = Cardinality(semQhp.waiting) - 1
    <3>1. IsFiniteSet(semQhp.waiting) /\ u \in semQhp.waiting
      BY <2>2, Counted
    <3>2. Cardinality(semQhp.waiting \ {u}) = Cardinality(semQhp.waiting) - 1
      BY <3>1, FS_RemoveElement
    <3> QED BY <2>3, <3>2
  <2>5. SemWoken' = SemWoken \cup {u} /\ u \notin SemWoken
    BY <1>0, <2>2, <2>3 DEF SemWoken, SemTypeOK, EventQueue
  <2>6. Cardinality(SemWoken') = Cardinality(SemWoken) + 1
    BY <2>5, Counted, FS_AddElement
  <2>7. SleepersCounted' /\ NeverSignaled'
    BY <1>0, <1>1, <2>1, <2>3, <2>4 DEF SemTypeOK, SleepersCounted, NeverSignaled
  <2>11. UnitsConserved'
    BY <1>0, <1>1, <2>1, <2>6, Counted DEF SemTypeOK, UnitsConserved
  <2>8. SemTypeOK'
    BY <1>0, <1>1, <2>1, <2>3, Counted DEF SemTypeOK
  <2> QED BY <1>0, <2>3, <2>7, <2>8, <2>11
<1>2. CASE ~(value' <= 0)
  <2>1. semQhp' = semQhp /\ value >= 0
    BY <1>0, <1>2 DEF SemTypeOK
  <2>2. SemWoken' = SemWoken
    BY <1>0, <2>1 DEF SemWoken
  <2>3. SleepersCounted' /\ UnitsConserved' /\ NeverSignaled'
    BY <1>0, <1>2, <2>1, <2>2, Counted DEF SemTypeOK, SleepersCounted, UnitsConserved, NeverSignaled
  <2>4. SemTypeOK'
    BY <1>0, <2>1, Counted DEF SemTypeOK
  <2> QED BY <1>0, <2>1, <2>3, <2>4
<1> QED BY <1>1, <1>2

LEMMA SemNextInvariant == SemIInv /\ [SemNext]_semVars => SemIInv'
<1> SUFFICES ASSUME SemIInv, [SemNext]_semVars PROVE SemIInv'
  OBVIOUS
<1>1. CASE UNCHANGED semVars
  BY <1>1 DEF semVars, SemIInv, SemTypeOK, SleepersCounted, UnitsConserved, NeverSignaled, SemWoken
<1>2. ASSUME NEW t \in Thread, NutSemTryWait(t) PROVE NutSemWait(t)
  BY <1>2 DEF NutSemTryWait, NutSemWait
<1> QED BY <1>1, <1>2, WaitInvariant, ReturnInvariant, PostInvariant DEF SemNext

(* The inductive invariant of os/semaphore.c.                               *)
THEOREM SemaphoreInvariant == SemSpec => []SemIInv
  BY SemInitInvariant, SemNextInvariant, PTL DEF SemSpec

(* A negative value is the number of sleeping threads.                      *)
THEOREM SleepersAreCounted == SemSpec => []SleepersCounted
<1>1. SemIInv => SleepersCounted
  BY DEF SemIInv
<1> QED BY <1>1, SemaphoreInvariant, PTL

(* No more waits return than there are units.                               *)
THEOREM UnitsAreConserved == SemSpec => []UnitsConserved
<1>1. SemIInv => UnitsConserved
  BY DEF SemIInv
<1> QED BY <1>1, SemaphoreInvariant, PTL
=============================================================================
