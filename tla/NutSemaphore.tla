---------------------------- MODULE NutSemaphore ----------------------------
(***************************************************************************)
(* os/semaphore.c: a counting semaphore whose value, when negative, counts  *)
(* the waiting threads.  A step is what a thread does up to the next call   *)
(* that may give up the CPU (see NutMutex).                                 *)
(***************************************************************************)
EXTENDS Integers, FiniteSets, NutEventQueue

CONSTANTS
    Initial,    \* the value given to NutSemInit()
    MaxPosts    \* bound: the number of calls of NutSemPost()

ASSUME InitialAssumption == Initial \in Nat
ASSUME MaxPostsAssumption == MaxPosts \in Nat
ASSUME ThreadAssumption == IsFiniteSet(Thread)

VARIABLES
    value, semQhp,   \* the fields of the semaphore
    semPc,           \* "run", or "wait" inside NutSemWait()
    posts,        \* history: calls of NutSemPost()
    passed        \* history: calls of NutSemWait() that returned

semVars == <<value, semQhp, semPc, posts, passed>>

SemInit ==
    /\ value = Initial /\ semQhp = EmptyQueue
    /\ semPc = [t \in Thread |-> "run"]
    /\ posts = 0 /\ passed = 0

SemWait(t) ==
    /\ value' = value - 1
    /\ IF value' < 0
         THEN /\ semQhp' = JoinedNext(semQhp, t)
              /\ semPc' = [semPc EXCEPT ![t] = "wait"]
              /\ UNCHANGED passed
         ELSE passed' = passed + 1 /\ UNCHANGED <<semQhp, semPc>>

NutSemWait(t) ==
    /\ semPc[t] = "run"
    /\ SemWait(t)
    /\ UNCHANGED posts

(* The thread was woken: NutSemWait() returns without another look.         *)
WaitReturn(t) ==
    /\ semPc[t] = "wait" /\ t \notin semQhp.waiting
    /\ semPc' = [semPc EXCEPT ![t] = "run"]
    /\ passed' = passed + 1
    /\ UNCHANGED <<value, semQhp, posts>>

NutSemPost_Broadcast(t) ==   \* fault: all that wait are woken
    /\ semPc[t] = "run" /\ posts < MaxPosts
    /\ value' = value + 1
    /\ semQhp' = EmptyQueue
    /\ posts' = posts + 1
    /\ UNCHANGED <<semPc, passed>>

NutSemPost(t) ==
    /\ semPc[t] = "run" /\ posts < MaxPosts
    /\ value' = value + 1
    /\ IF value' <= 0 THEN \E woken \in Wakeable(semQhp) : semQhp' = Posted(semQhp, woken)
                      ELSE UNCHANGED semQhp
    /\ posts' = posts + 1
    /\ UNCHANGED <<semPc, passed>>

NutSemTryWait(t) ==
    /\ semPc[t] = "run" /\ value > 0
    /\ SemWait(t)
    /\ UNCHANGED posts

SemNext == \E t \in Thread :
    NutSemWait(t) \/ WaitReturn(t) \/ NutSemPost(t) \/ NutSemTryWait(t)

SemSpec == SemInit /\ [][SemNext]_semVars

-----------------------------------------------------------------------------

SemWoken == {t \in Thread : semPc[t] = "wait" /\ t \notin semQhp.waiting}

SemTypeOK ==
    /\ posts \in 0..MaxPosts /\ passed \in 0..(Initial + posts)
    /\ value \in -Cardinality(Thread)..(Initial + posts)
    /\ semQhp \in EventQueue
    /\ semPc \in [Thread -> {"run", "wait"}]

(* A negative value is the number of threads that sleep; none sleeps while  *)
(* the value is not negative, and each post wakes one (os/semaphore.c:98,   *)
(* 112).                                                                    *)
SleepersCounted == Cardinality(semQhp.waiting) = IF value < 0 THEN -value ELSE 0

(* No more waits return than the initial value and the posts allow, and     *)
(* whatever has not been used is in the value (os/semaphore.c:97, 111).     *)
UnitsConserved ==
    passed + Cardinality(SemWoken) + (IF value > 0 THEN value ELSE 0) = Initial + posts

(* Events and sleepers are in step: the queue never remembers an event,     *)
(* which a later NutEventWaitNext() would forget (os/semaphore.c:100, 114). *)
NeverSignaled == ~semQhp.signaled

(* The inductive invariant.                                                 *)
SemIInv ==
    /\ SemTypeOK /\ SleepersCounted /\ UnitsConserved /\ NeverSignaled
    /\ \A t \in semQhp.waiting : semPc[t] = "wait"
=============================================================================
