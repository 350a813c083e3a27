---------------------------- MODULE NutKernelProofs ----------------------------
(***************************************************************************)
(* Proofs about the kernel, for any number of threads, event queues, timers *)
(* and priorities: KInv is an inductive invariant, and the safety           *)
(* properties that follow from it hold in every behaviour.  Next to it,     *)
(* DueInv says that no timeout comes early, SortInv that the queues stay in *)
(* the order of the priorities, and with both KInv and SortInv every step   *)
(* of the kernel is a step of the event queues of NutEvents or a stutter.   *)
(***************************************************************************)
EXTENDS NutKernel, NutListProofs

-----------------------------------------------------------------------------
LEMMA LevelFacts ==
    ASSUME NEW prio \in [Thread -> 0..255]
    PROVE  prio \in [Thread -> Int] /\ \A t \in Thread : prio[t] \in Int
OBVIOUS

(* Queue roots.                                                             *)
Chain == Seq(Thread) \cup {<<SIGNALED>>}

LEMMA RootFacts ==
    ASSUME NEW s \in Chain
    PROVE  /\ RootOf(s) \in Thread \cup {NULL, SIGNALED}
           /\ RootOf(s) = NULL <=> s = <<>>
           /\ RootOf(s) = SIGNALED <=> s = <<SIGNALED>>
           /\ RootOf(s) \in Thread => /\ s \in Seq(Thread) /\ Len(s) >= 1
                                      /\ s[1] = RootOf(s) /\ RootOf(s) \in ToSet(s)
                                      /\ s # <<SIGNALED>>
<1>1. CASE s = <<SIGNALED>>
  BY <1>1, SingleFacts, HandleAssumption DEF RootOf
<1>2. CASE s \in Seq(Thread) /\ s # <<>>
  <2>1. Head(s) = s[1] /\ Head(s) \in Thread /\ Head(s) \in ToSet(s)
    BY <1>2, TailFacts
  <2>2. Len(s) >= 1
    BY <1>2, LenProperties, EmptySeq
  <2>3. s # <<SIGNALED>>
    BY <2>1, SingleFacts, HandleAssumption
  <2> QED BY <1>2, <2>1, <2>2, <2>3, HandleAssumption DEF RootOf
<1>3. CASE s = <<>>
  BY <1>3, SingleFacts, HandleAssumption DEF RootOf
<1> QED BY <1>1, <1>2, <1>3 DEF Chain

LEMMA ChainFacts ==
    /\ <<>> \in Chain /\ <<SIGNALED>> \in Chain
    /\ ToSet(<<SIGNALED>>) \cap Thread = {}
    /\ <<SIGNALED>> \notin Seq(Thread)
    /\ \A s \in Chain : s # <<SIGNALED>> => s \in Seq(Thread)
    /\ \A s \in Chain : \A t \in Thread : t \in ToSet(s) => s \in Seq(Thread) /\ s # <<>>
<1>1. ToSet(<<SIGNALED>>) \cap Thread = {}
  BY SingleFacts, HandleAssumption
<1>2. <<SIGNALED>> \notin Seq(Thread)
  BY SingleFacts, RootFacts, HandleAssumption, ElementOfSeq
<1> QED BY <1>1, <1>2, EmptyFacts DEF Chain

(* Only the head of a list has events pending.                              *)
HeadOnly(s, qpec) == \A u \in Thread : u \in ToSet(s) /\ qpec[u] > 0 => RootOf(s) = u

LEMMA HeadOnlyFacts ==
    ASSUME NEW s \in Seq(Thread), NoDup(s), NEW qpec \in [Thread -> Nat], HeadOnly(s, qpec)
    PROVE  \A j \in 2..Len(s) : s[j] \in Thread /\ qpec[s[j]] = 0
<1> SUFFICES ASSUME NEW j \in 2..Len(s)
             PROVE  s[j] \in Thread /\ qpec[s[j]] = 0
  OBVIOUS
<1>1. Len(s) \in Nat /\ j \in 1..Len(s) /\ 1 \in 1..Len(s) /\ s # <<>>
  BY LenProperties, EmptyFacts
<1>2. s[j] \in Thread /\ s[j] \in ToSet(s)
  BY <1>1, ElementOfSeq, ToSetFacts
<1>3. RootOf(s) = s[1]
  BY <1>1, TailFacts DEF RootOf
<1>4. s[j] # s[1]
  BY <1>1 DEF NoDup
<1> QED BY <1>2, <1>3, <1>4 DEF HeadOnly

(***************************************************************************)
(* NutThreadAddPriQueue(): the thread is in the list, and pending events    *)
(* stay at its head.                                                        *)
(***************************************************************************)
LEMMA AddedListFacts ==
    ASSUME NEW s \in Chain, NEW t \in Thread, NEW prio \in [Thread -> 0..255]
    PROVE  /\ AddedList(s, t, prio) \in Seq(Thread)
           /\ \A u \in Thread : u \in ToSet(AddedList(s, t, prio)) <=> u \in ToSet(s) \/ u = t
           /\ NoDup(s) /\ t \notin ToSet(s) => NoDup(AddedList(s, t, prio))
<1>1. CASE s = <<SIGNALED>>
  <2>1. AddedList(s, t, prio) = <<t>>
    BY <1>1 DEF AddedList
  <2>2. <<t>> \in Seq(Thread) /\ ToSet(<<t>>) = {t} /\ NoDup(<<t>>)
    BY SingleFacts
  <2> QED BY <1>1, <2>1, <2>2, ChainFacts
<1>2. CASE s # <<SIGNALED>>
  <2>0. prio \in [Thread -> Int]
    BY LevelFacts
  <2>1. s \in Seq(Thread)
    BY <1>2, ChainFacts
  <2>2. AddedList(s, t, prio) = InsertBy(s, t, prio)
    BY <1>2 DEF AddedList
  <2> QED BY <2>0, <2>1, <2>2, InsertByFacts
<1> QED BY <1>1, <1>2

LEMMA AddedQpecFacts ==
    ASSUME NEW s \in Chain, NEW t \in Thread, NEW prio \in [Thread -> 0..255],
           NEW qpec \in [Thread -> Nat], NoDup(s), t \notin ToSet(s), HeadOnly(s, qpec)
    PROVE  /\ AddedQpec(s, t, prio, qpec) \in [Thread -> Nat]
           /\ \A u \in Thread : u \notin ToSet(s) /\ u # t => AddedQpec(s, t, prio, qpec)[u] = qpec[u]
           /\ HeadOnly(AddedList(s, t, prio), AddedQpec(s, t, prio, qpec))
<1> DEFINE p == InsertPos(s, prio, prio[t])
           a == AddedQpec(s, t, prio, qpec)
           r == AddedList(s, t, prio)
<1>1. CASE s = <<SIGNALED>>
  <2>1. a = [qpec EXCEPT ![t] = 1] /\ r = <<t>>
    BY <1>1 DEF AddedQpec, AddedList
  <2>2. RootOf(<<t>>) = t /\ ToSet(<<t>>) = {t}
    BY SingleFacts DEF RootOf
  <2> QED BY <2>1, <2>2 DEF HeadOnly
<1>2. CASE s # <<SIGNALED>>
  <2>0. prio \in [Thread -> Int] /\ prio[t] \in Int
    BY LevelFacts
  <2>1. s \in Seq(Thread) /\ Len(s) \in Nat
    BY <1>2, ChainFacts, LenProperties
  <2>2. p \in 1..(Len(s) + 1)
    BY <2>0, <2>1, InsertPosFacts
  <2>3. \A j \in 2..Len(s) : s[j] \in Thread /\ qpec[s[j]] = 0
    BY <2>1, HeadOnlyFacts
  <2>4. \A j \in 1..Len(s) : s[j] \in Thread /\ s[j] \in ToSet(s) /\ s[j] # t
    BY <2>1, ElementOfSeq, ToSetFacts
  <2>5. a = IF p <= Len(s) THEN [qpec EXCEPT ![t] = qpec[s[p]], ![s[p]] = 0]
            ELSE [qpec EXCEPT ![t] = 0]
    BY <1>2 DEF AddedQpec
  <2>6. r = InsertAt(s, p, t)
    BY <1>2 DEF AddedList, InsertBy
  <2> HIDE DEF p, r, a
  <2>7. /\ InsertAt(s, p, t) \in Seq(Thread)
        /\ Len(InsertAt(s, p, t)) = Len(s) + 1
        /\ InsertAt(s, p, t)[1] = IF 1 < p THEN s[1] ELSE t
    BY <2>1, <2>2, InsertAtHead
  <2>8. r \in Seq(Thread) /\ Len(r) = Len(s) + 1 /\ r[1] = IF 1 < p THEN s[1] ELSE t
    BY <2>6, <2>7
  <2>9. \A u \in Thread : u \in ToSet(r) <=> u \in ToSet(s) \/ u = t
    BY AddedListFacts DEF r
  <2>10. RootOf(r) = r[1]
    BY <2>1, <2>8, EmptyFacts, TailFacts DEF RootOf
  <2>11. a \in [Thread -> Nat] /\ \A u \in Thread : u \notin ToSet(s) /\ u # t => a[u] = qpec[u]
    <3>1. CASE p <= Len(s)
      <4>1. p \in 1..Len(s)
        BY <2>1, <2>2, <3>1
      <4> QED BY <2>4, <2>5, <3>1, <4>1
    <3>2. CASE ~(p <= Len(s))
      BY <2>5, <3>2
    <3> QED BY <3>1, <3>2
  <2>12. HeadOnly(r, a)
    <3> SUFFICES ASSUME NEW u \in Thread, u \in ToSet(r), a[u] > 0
                 PROVE  RootOf(r) = u
      BY DEF HeadOnly
    <3>1. CASE p = 1 /\ Len(s) >= 1
      <4>1. 1 \in 1..Len(s) /\ a = [qpec EXCEPT ![t] = qpec[s[1]], ![s[1]] = 0]
        BY <2>1, <2>5, <3>1
      <4>2. u # t => a[u] = 0
        <5> SUFFICES ASSUME u # t PROVE a[u] = 0
          OBVIOUS
        <5>1. CASE u = s[1]
          BY <2>4, <4>1, <5>1
        <5>2. CASE u # s[1]
          <6>1. u \in ToSet(s) /\ a[u] = qpec[u]
            BY <2>4, <2>9, <4>1, <5>2
          <6>2. RootOf(s) = s[1]
            BY <2>1, <3>1, EmptyFacts, TailFacts DEF RootOf
          <6> QED BY <5>2, <6>1, <6>2 DEF HeadOnly
        <5> QED BY <5>1, <5>2
      <4> QED BY <2>8, <2>10, <3>1, <4>2
    <3>2. CASE p = 1 /\ Len(s) = 0
      <4>1. s = <<>>
        BY <2>1, <3>2, EmptySeq
      <4>2. ToSet(s) = {}
        BY <4>1, EmptyFacts
      <4> QED BY <2>8, <2>9, <2>10, <3>2, <4>2
    <3>3. CASE p > 1
      <4>1. \A v \in Thread : a[v] = IF v = t THEN 0 ELSE qpec[v]
        <5>1. CASE p <= Len(s)
          <6>1. p \in 2..Len(s) /\ p \in 1..Len(s) /\ qpec[s[p]] = 0
            BY <2>1, <2>2, <2>3, <3>3, <5>1
          <6>2. a = [qpec EXCEPT ![t] = 0, ![s[p]] = 0]
            BY <2>5, <5>1, <6>1
          <6> QED BY <2>4, <6>1, <6>2
        <5>2. CASE ~(p <= Len(s))
          BY <2>5, <5>2
        <5> QED BY <5>1, <5>2
      <4>2. u # t /\ u \in ToSet(s) /\ qpec[u] > 0
        BY <2>9, <4>1
      <4>3. RootOf(s) = u
        BY <4>2 DEF HeadOnly
      <4>4. RootOf(s) = s[1] /\ r[1] = s[1]
        BY <2>1, <2>2, <2>8, <3>3, <4>2, EmptyFacts, TailFacts DEF RootOf
      <4> QED BY <2>10, <4>3, <4>4
    <3> QED BY <2>1, <2>2, <3>1, <3>2, <3>3
  <2> QED BY <2>11, <2>12 DEF a, r
<1> QED BY <1>1, <1>2

(***************************************************************************)
(* A thread leaves an event queue: its events stay at the head or with the  *)
(* root.                                                                    *)
(***************************************************************************)
LEMMA DetachedFacts ==
    ASSUME NEW s \in Seq(Thread), NEW i \in 1..Len(s), NEW qpec \in [Thread -> Nat],
           NoDup(s), HeadOnly(s, qpec)
    PROVE  /\ DetachedList(s, i, qpec) \in Chain
           /\ NoDup(DetachedList(s, i, qpec))
           /\ \A u \in Thread : u \in ToSet(DetachedList(s, i, qpec)) <=> u \in ToSet(s) /\ u # s[i]
           /\ DetachedQpec(s, i, qpec) \in [Thread -> Nat]
           /\ \A u \in Thread : u \notin ToSet(s) => DetachedQpec(s, i, qpec)[u] = qpec[u]
           /\ DetachedQpec(s, i, qpec)[s[i]] = 0
           /\ HeadOnly(DetachedList(s, i, qpec), DetachedQpec(s, i, qpec))
<1> DEFINE d == DetachedList(s, i, qpec)
           a == DetachedQpec(s, i, qpec)
           r == RemoveAt(s, i)
<1>1. Len(s) \in Nat /\ s # <<>> /\ RootOf(s) = s[1]
  BY LenProperties, EmptyFacts, TailFacts DEF RootOf
<1>2. \A j \in 1..Len(s) : s[j] \in Thread /\ s[j] \in ToSet(s)
  BY ElementOfSeq, ToSetFacts
<1>3. \A j \in 2..Len(s) : qpec[s[j]] = 0
  BY HeadOnlyFacts
<1>4. /\ r \in Seq(Thread) /\ Len(r) = Len(s) - 1
      /\ \A j \in 1..(Len(s) - 1) : r[j] = IF j < i THEN s[j] ELSE s[j + 1]
  BY RemoveAtFacts
<1>5. ToSet(r) = ToSet(s) \ {s[i]} /\ NoDup(r)
  BY RemoveAtElements
<1>6. d = r \o (IF i = Len(s) /\ qpec[s[i]] > 0 THEN <<SIGNALED>> ELSE <<>>)
  BY DEF DetachedList
<1>7. a = IF i < Len(s) /\ qpec[s[i]] > 0
          THEN [qpec EXCEPT ![s[i + 1]] = qpec[s[i]], ![s[i]] = 0]
          ELSE [qpec EXCEPT ![s[i]] = 0]
  BY DEF DetachedQpec
<1> HIDE DEF d, a, r
<1>8. a \in [Thread -> Nat] /\ a[s[i]] = 0 /\ \A u \in Thread : u \notin ToSet(s) => a[u] = qpec[u]
  <2>1. CASE i < Len(s)
    <3>1. i + 1 \in 1..Len(s)
      BY <1>1, <2>1
    <3> QED BY <1>2, <1>7, <3>1
  <2>2. CASE ~(i < Len(s))
    BY <1>2, <1>7, <2>2
  <2> QED BY <2>1, <2>2
<1>9. CASE i = Len(s) /\ qpec[s[i]] > 0
  <2>1. i = 1 /\ Len(s) = 1
    BY <1>1, <1>3, <1>9
  <2>2. r = <<>>
    BY <1>4, <2>1, EmptySeq
  <2>3. d = <<SIGNALED>>
    BY <1>6, <1>9, <2>2
  <2>4. \A u \in Thread : ~(u \in ToSet(s) /\ u # s[i])
    BY <1>5, <2>2, EmptyFacts
  <2>5. NoDup(<<SIGNALED>>) /\ \A u \in Thread : u \notin ToSet(<<SIGNALED>>)
    BY SingleFacts, ChainFacts
  <2> QED BY <1>8, <2>3, <2>4, <2>5, ChainFacts DEF HeadOnly, d, a
<1>10. CASE ~(i = Len(s) /\ qpec[s[i]] > 0)
  <2>1. d = r
    <3>1. d = r \o <<>>
      BY <1>6, <1>10
    <3> QED BY <1>4, <3>1, ConcatEmptySeq
  <2>2. d \in Chain /\ NoDup(d) /\ ToSet(d) = ToSet(s) \ {s[i]}
    BY <1>4, <1>5, <2>1 DEF Chain
  <2>3. HeadOnly(d, a)
    <3> SUFFICES ASSUME NEW u \in Thread, u \in ToSet(s), u # s[i], a[u] > 0
                 PROVE  RootOf(r) = u
      BY <2>1, <2>2 DEF HeadOnly
    <3>1. Len(s) > 1 /\ r # <<>> /\ RootOf(r) = r[1]
      <4>1. r # <<>>
        BY <1>5, <2>1, EmptyFacts
      <4> QED BY <1>1, <1>4, <4>1, EmptySeq, TailFacts DEF RootOf
    <3>2. CASE i = 1
      <4>1. r[1] = s[2] /\ 2 \in 1..Len(s)
        BY <1>1, <1>4, <3>1, <3>2
      <4>2. CASE u = s[2]
        BY <3>1, <4>1, <4>2
      <4>3. CASE u # s[2]
        <5>1. a[u] = qpec[u]
          BY <1>2, <1>7, <3>2, <4>1, <4>3
        <5>2. u = s[1]
          BY <1>1, <5>1 DEF HeadOnly
        <5> QED BY <3>2, <5>2
      <4> QED BY <4>2, <4>3
    <3>3. CASE i > 1
      <4>1. qpec[s[i]] = 0
        BY <1>1, <1>3, <3>3
      <4>2. a[u] = qpec[u]
        BY <1>2, <1>7, <4>1
      <4>3. u = s[1] /\ r[1] = s[1]
        BY <1>1, <1>4, <3>1, <3>3, <4>2, SMTT(45) DEF HeadOnly
      <4> QED BY <3>1, <4>3
    <3> QED BY <1>1, <3>2, <3>3
  <2> QED BY <1>8, <2>2, <2>3 DEF d, a
<1> QED BY <1>9, <1>10

(* With no events pending in a list, the thread that enters it has none.    *)
Quiet(s, qpec) == \A u \in Thread : u \in ToSet(s) => qpec[u] = 0
Cleared(qpec, t) == [qpec EXCEPT ![t] = 0]

LEMMA AddedQpecQuiet ==
    ASSUME NEW s \in Seq(Thread), NEW t \in Thread, NEW prio \in [Thread -> 0..255],
           NEW qpec \in [Thread -> Nat], Quiet(s, qpec)
    PROVE  AddedQpec(s, t, prio, qpec) = Cleared(qpec, t)
<1> DEFINE p == InsertPos(s, prio, prio[t])
<1>1. prio \in [Thread -> Int] /\ prio[t] \in Int
  BY LevelFacts
<1>2. Len(s) \in Nat /\ p \in 1..(Len(s) + 1) /\ s # <<SIGNALED>>
  BY <1>1, InsertPosFacts, LenProperties, ChainFacts
<1>3. \A j \in 1..Len(s) : s[j] \in Thread /\ qpec[s[j]] = 0
  BY ElementOfSeq, ToSetFacts DEF Quiet
<1>4. AddedQpec(s, t, prio, qpec) =
          IF p <= Len(s) THEN [qpec EXCEPT ![t] = qpec[s[p]], ![s[p]] = 0]
          ELSE [qpec EXCEPT ![t] = 0]
  BY <1>2 DEF AddedQpec
<1> HIDE DEF p
<1>5. CASE p <= Len(s)
  <2>1. p \in 1..Len(s)
    BY <1>2, <1>5
  <2> QED BY <1>3, <1>4, <1>5, <2>1 DEF Cleared
<1>6. CASE ~(p <= Len(s))
  BY <1>4, <1>6 DEF Cleared
<1> QED BY <1>5, <1>6

-----------------------------------------------------------------------------
(***************************************************************************)
(* What the invariant says of the state a step starts from.                 *)
(***************************************************************************)
LEMMA KFacts ==
    ASSUME KInv
    PROVE  /\ \A q \in Queue : queue[q] \in Chain /\ NoDup(queue[q]) /\ HeadOnly(queue[q], td_qpec)
           /\ \A u \in Thread : td_queue[u] \notin Queue => td_qpec[u] = 0
           /\ \A u \in Thread : u \in Ready => td_qpec[u] = 0
           /\ runQueue \in Chain /\ HeadOnly(runQueue, td_qpec)
           /\ Ready \subseteq Thread /\ Alive \subseteq Thread /\ Ready \subseteq Alive
           /\ ToSet(nutTimerList) \subseteq Timer
           /\ \A q \in Queue : Root(q) \in Thread => td_queue[Root(q)] = q
<1> USE DEF KInv
<1>1. \A q \in Queue : queue[q] \in Chain /\ NoDup(queue[q])
  BY DEF TypeOK, Linked, Chain
<1>2. \A u \in Thread : td_queue[u] \notin Queue => td_qpec[u] = 0
  BY DEF TypeOK, PendingOnlyAtHead
<1>3. Ready \subseteq Thread /\ Alive \subseteq Thread /\ ToSet(nutTimerList) \subseteq Timer
  BY ToSetFacts DEF TypeOK, Ready, Alive
<1>4. \A u \in Thread : u \in Ready => td_qpec[u] = 0
  BY <1>2, <1>3, HandleAssumption DEF Linked
<1>5. \A q \in Queue : HeadOnly(queue[q], td_qpec)
  BY DEF HeadOnly, PendingOnlyAtHead, Linked, Root
<1>6. runQueue \in Chain /\ HeadOnly(runQueue, td_qpec)
  BY <1>3, <1>4 DEF TypeOK, Chain, HeadOnly, Ready
<1>7. \A q \in Queue : Root(q) \in Thread => td_queue[Root(q)] = q
  BY <1>1, RootFacts DEF Root, Linked
<1>8. Ready \subseteq Alive
  BY <1>3, HandleAssumption DEF Linked
<1> QED BY <1>1, <1>2, <1>3, <1>4, <1>5, <1>6, <1>7, <1>8

(* Steps that leave a part of the state alone leave its invariant alone.    *)
LEMMA LinkedStep ==
    ASSUME Linked,
           UNCHANGED <<runQueue, nutThreadList, queue, td_state, td_queue, td_timer,
                       nutTimerList, tn_callback, tn_arg>>
    PROVE  Linked'
BY DEF Linked, Ready, Alive, AsleepByTimer

LEMMA PendingStep ==
    ASSUME PendingOnlyAtHead, UNCHANGED <<queue, td_queue, td_qpec>>
    PROVE  PendingOnlyAtHead'
BY DEF PendingOnlyAtHead, Root

(* A step within a call: at most where the thread is changes, and the mark  *)
(* of a timeout does not get past the end of the wait.                      *)
LEMMA TimedStep ==
    ASSUME Timed, UNCHANGED <<runningThread, nutThreadList, td_queue, td_timer, nutTimerList,
                              tn_left, tn_callback, tn_arg, cont>>,
           pc \in {"elapsed", "switch", "waited"} => pc' \in {"elapsed", "switch", "waited"}
    PROVE  Timed'
BY DEF Timed, Alive

USE DEF threadVars, queueVars, timerVars, callVars, loopVars, histVars

LEMMA EventWaitInv ==
    ASSUME KInv, NEW q \in Queue, NEW d \in Delay \cup {0}, NutEventWait(q, d)
    PROVE  KInv'
<1> USE DEF KInv, NutEventWait, AppCalls
<1>1. queue[q] \in Chain
  BY KFacts
<1>2. TypeOK'
  BY <1>1, RootFacts DEF TypeOK, PCs, Root
<1>3. Linked' /\ PendingOnlyAtHead' /\ Timed'
  BY LinkedStep, PendingStep, TimedStep
<1>4. Control'
  BY <1>1, RootFacts DEF Control, Root, Ready, Alive, Broadcasting
<1> QED BY <1>2, <1>3, <1>4

LEMMA EventWaitNextInv ==
    ASSUME KInv, NEW q \in Queue, NEW d \in Delay \cup {0}, NutEventWaitNext(q, d)
    PROVE  KInv'
<1> USE DEF KInv, NutEventWaitNext, AppCalls
<1>1. \A r \in Queue : queue[r] \in Chain /\ NoDup(queue[r])
  BY KFacts
<1>2. \A r \in Queue : /\ queue'[r] \in Chain /\ NoDup(queue'[r])
                       /\ \A u \in Thread : u \in ToSet(queue'[r]) <=> u \in ToSet(queue[r])
                       /\ queue'[r] # queue[r] => queue[r] = <<SIGNALED>> /\ queue'[r] = <<>>
  BY <1>1, EmptyFacts, ChainFacts DEF TypeOK
<1>3. TypeOK'
  BY <1>2 DEF TypeOK, PCs, Chain
<1>4. Linked'
  BY <1>2 DEF Linked, Ready, Alive, AsleepByTimer
<1>5. PendingOnlyAtHead'
  <2> SUFFICES ASSUME NEW t \in Thread, td_qpec[t] > 0
               PROVE  td_queue[t] \in Queue /\ RootOf(queue'[td_queue[t]]) = t
    BY DEF PendingOnlyAtHead, Root
  <2>1. td_queue[t] \in Queue /\ RootOf(queue[td_queue[t]]) = t
    BY DEF PendingOnlyAtHead, Root
  <2>2. queue[td_queue[t]] # <<SIGNALED>>
    BY <1>1, <2>1, RootFacts
  <2> QED BY <1>2, <2>1, <2>2
<1>6. Timed'
  BY TimedStep
<1>7. Control'
  BY DEF Control, Root, Ready, Alive, Broadcasting
<1> QED BY <1>3, <1>4, <1>5, <1>6, <1>7

LEMMA WaitNextReadInv ==
    ASSUME KInv, WaitNextRead
    PROVE  KInv'
<1> USE DEF KInv, WaitNextRead
<1>1. qh \in Queue /\ queue[qh] \in Chain
  BY KFacts DEF Control
<1>2. TypeOK'
  BY <1>1, RootFacts DEF TypeOK, PCs, Root
<1>3. Linked' /\ PendingOnlyAtHead' /\ Timed'
  BY LinkedStep, PendingStep, TimedStep
<1>4. Control'
  BY <1>1, RootFacts DEF Control, Root, Ready, Alive, Broadcasting
<1> QED BY <1>2, <1>3, <1>4

LEMMA WaitSignaledInv ==
    ASSUME KInv, WaitSignaled
    PROVE  KInv'
<1> USE DEF KInv, WaitSignaled
<1>1. /\ qh \in Queue /\ queue[qh] = <<SIGNALED>> /\ queue'[qh] = <<>>
      /\ \A r \in Queue : queue[r] \in Chain /\ NoDup(queue[r]) /\ (r # qh => queue'[r] = queue[r])
  BY KFacts DEF Control, TypeOK
<1>2. \A r \in Queue : /\ queue'[r] \in Chain /\ NoDup(queue'[r])
                       /\ \A u \in Thread : u \in ToSet(queue'[r]) <=> u \in ToSet(queue[r])
  BY <1>1, EmptyFacts, ChainFacts
<1>3. TypeOK'
  BY <1>2 DEF TypeOK, PCs, Chain
<1>4. Linked'
  BY <1>2 DEF Linked, Ready, Alive, AsleepByTimer
<1>5. PendingOnlyAtHead'
  <2> SUFFICES ASSUME NEW t \in Thread, td_qpec[t] > 0
               PROVE  td_queue[t] \in Queue /\ RootOf(queue'[td_queue[t]]) = t
    BY DEF PendingOnlyAtHead, Root
  <2>1. td_queue[t] \in Queue /\ RootOf(queue[td_queue[t]]) = t
    BY DEF PendingOnlyAtHead, Root
  <2>2. queue[td_queue[t]] # <<SIGNALED>>
    BY <1>1, <2>1, RootFacts
  <2> QED BY <1>1, <2>1, <2>2
<1>6. Timed'
  BY TimedStep
<1>7. Control'
  BY DEF Control, Root, Ready, Alive, Broadcasting
<1> QED BY <1>3, <1>4, <1>5, <1>6, <1>7

LEMMA WaitReturnInv ==
    ASSUME KInv, WaitReturn
    PROVE  KInv'
<1> USE DEF KInv, WaitReturn
<1>1. runningThread \in Thread /\ td_queue[runningThread] = RunQ
  BY ToSetFacts DEF Control, Linked, TypeOK, Ready
<1>2. TypeOK'
  BY DEF TypeOK, PCs
<1>3. \A t \in Thread : td_timer'[t] = IF t = runningThread /\ td_timer[t] = SIGNALED
                                       THEN NULL ELSE td_timer[t]
  BY DEF TypeOK
<1>4. Linked'
  BY <1>1, <1>3, HandleAssumption DEF Linked, Ready, Alive, AsleepByTimer, TypeOK
<1>5. PendingOnlyAtHead'
  BY PendingStep
<1>6. Timed'
  BY <1>1, <1>3, KFacts, HandleAssumption DEF Timed, Alive
<1>7. Control'
  BY DEF Control, Root, Ready, Alive, Broadcasting
<1> QED BY <1>2, <1>4, <1>5, <1>6, <1>7

LEMMA CallPostFacts ==
    ASSUME KInv, NEW q \in Queue, NEW r \in {"app", "yield", "scan"} \cup Broadcasting,
           CallPost(q, r)
    PROVE  /\ qh' = q /\ ms' = ms /\ ret' = r /\ pc' = "post"
           /\ root' \in Thread \cup {NULL, SIGNALED} /\ root' = RootOf(queue[q])
           /\ root' = SIGNALED => queue[q] = <<SIGNALED>>
           /\ root' = NULL => queue[q] = <<>>
<1>1. queue[q] \in Chain
  BY KFacts
<1> QED BY <1>1, RootFacts DEF CallPost, Root

LEMMA EventPostInv ==
    ASSUME KInv, NEW c, NEW q \in Queue, NEW r \in {"app", "yield"}, EventPost(c, q, r)
    PROVE  KInv'
<1> USE DEF KInv
<1>1. /\ qh' = q /\ ms' = ms /\ ret' = r /\ pc' = "post"
      /\ root' \in Thread \cup {NULL, SIGNALED} /\ root' = RootOf(queue[q])
      /\ root' = SIGNALED => queue[q] = <<SIGNALED>>
      /\ root' = NULL => queue[q] = <<>>
  BY CallPostFacts DEF EventPost
<1>2. TypeOK'
  BY <1>1 DEF TypeOK, PCs, EventPost
<1>3. Linked' /\ PendingOnlyAtHead' /\ Timed'
  BY <1>1, LinkedStep, PendingStep, TimedStep DEF EventPost, AppCalls
<1>4. Control'
  BY <1>1 DEF Control, Root, Ready, Alive, Broadcasting, EventPost, AppCalls
<1> QED BY <1>2, <1>3, <1>4

LEMMA PostIgnoredInv ==
    ASSUME KInv, PostIgnored
    PROVE  KInv'
<1> USE DEF KInv, PostIgnored, ReturnFromPost
<1>1. qh \in Queue /\ ret \in {"app", "yield", "scan"} \cup Broadcasting
  BY DEF Control
<1>2. TypeOK'
  BY <1>1 DEF TypeOK, PCs, Broadcasting
<1>3. Linked' /\ PendingOnlyAtHead' /\ Timed'
  BY LinkedStep, PendingStep, TimedStep
<1>4. Control'
  BY <1>1 DEF Control, Root, Ready, Alive, Broadcasting
<1> QED BY <1>2, <1>3, <1>4

-----------------------------------------------------------------------------
(* The run queue, when a thread that is not in it becomes ready, and when   *)
(* one that is in it is put in anew: no events are pending in it.           *)
LEMMA JoinReadyFacts ==
    ASSUME KInv, NEW t \in Thread, t \notin Ready, NEW prio \in [Thread -> 0..255],
           NEW qpec \in [Thread -> Nat], Quiet(runQueue, qpec)
    PROVE  /\ AddedList(runQueue, t, prio) \in Seq(Thread)
           /\ NoDup(AddedList(runQueue, t, prio))
           /\ \A u \in Thread : u \in ToSet(AddedList(runQueue, t, prio)) <=> u \in Ready \/ u = t
           /\ AddedQpec(runQueue, t, prio, qpec) = [qpec EXCEPT ![t] = 0]
<1>1. runQueue \in Seq(Thread) /\ runQueue \in Chain /\ NoDup(runQueue)
  BY KFacts DEF KInv, TypeOK, Linked
<1>4. AddedQpec(runQueue, t, prio, qpec) = [qpec EXCEPT ![t] = 0]
  <2>1. AddedQpec(runQueue, t, prio, qpec) = Cleared(qpec, t)
    BY <1>1, AddedQpecQuiet
  <2> QED BY <2>1 DEF Cleared
<1> QED BY <1>1, <1>4, AddedListFacts DEF Ready

LEMMA RequeuedFacts ==
    ASSUME KInv, NEW t \in Ready, NEW prio \in [Thread -> 0..255]
    PROVE  /\ Requeued(t, prio) \in Seq(Thread)
           /\ NoDup(Requeued(t, prio))
           /\ \A u \in Thread : u \in ToSet(Requeued(t, prio)) <=> u \in Ready
           /\ AddedQpec(Unlink(runQueue, t), t, prio, td_qpec) = td_qpec
<1> DEFINE s == Unlink(runQueue, t)
<1>1. runQueue \in Seq(Thread) /\ NoDup(runQueue) /\ t \in Thread /\ td_qpec \in [Thread -> Nat]
  BY KFacts DEF KInv, TypeOK, Linked
<1>2. s \in Seq(Thread) /\ ToSet(s) = Ready \ {t} /\ NoDup(s)
  BY <1>1, UnlinkFacts DEF Ready
<1>3. \A u \in Thread : u \in Ready => td_qpec[u] = 0
  BY KFacts
<1> HIDE DEF s
<1>4. s \in Chain /\ HeadOnly(s, td_qpec)
  BY <1>2, <1>3 DEF HeadOnly, Chain
<1>5. Quiet(s, td_qpec)
  BY <1>2, <1>3 DEF Quiet
<1>6. AddedQpec(s, t, prio, td_qpec) = [td_qpec EXCEPT ![t] = 0]
  <2>1. AddedQpec(s, t, prio, td_qpec) = Cleared(td_qpec, t)
    BY <1>1, <1>2, <1>5, AddedQpecQuiet
  <2> QED BY <2>1 DEF Cleared
<1>7. AddedQpec(s, t, prio, td_qpec) = td_qpec
  BY <1>1, <1>3, <1>6
<1>8. /\ AddedList(s, t, prio) \in Seq(Thread) /\ NoDup(AddedList(s, t, prio))
      /\ \A u \in Thread : u \in ToSet(AddedList(s, t, prio)) <=> u \in Ready
  BY <1>1, <1>2, <1>4, AddedListFacts
<1> QED BY <1>7, <1>8 DEF s, Requeued

(* NutTimerStart() lists a timer that was free, in its place by deadline.   *)
LEMMA TimerStartFacts ==
    ASSUME KInv, NEW t \in Thread, NEW d \in Nat, NEW callback, NEW arg,
           NutTimerStart(t, d, callback, arg)
    PROVE  \E h \in Timer :
              /\ h \notin ToSet(nutTimerList)
              /\ nutTimerList' \in Seq(Timer) /\ NoDup(nutTimerList')
              /\ ToSet(nutTimerList') = ToSet(nutTimerList) \cup {h}
              /\ tn_left' \in [Timer -> Nat] /\ Ascending(nutTimerList', tn_left')
              /\ tn_left' = [tn_left EXCEPT ![h] = d + pend]
              /\ tn_callback' = [tn_callback EXCEPT ![h] = callback]
              /\ tn_arg' = [tn_arg EXCEPT ![h] = arg]
              /\ td_timer' = [td_timer EXCEPT ![t] = h]
<1>1. PICK h \in FreeTimers :
         /\ tn_left' = [tn_left EXCEPT ![h] = d + pend]
         /\ tn_callback' = [tn_callback EXCEPT ![h] = callback]
         /\ tn_arg' = [tn_arg EXCEPT ![h] = arg]
         /\ nutTimerList' = InsertBy(nutTimerList, h, tn_left')
         /\ td_timer' = [td_timer EXCEPT ![t] = h]
  BY DEF NutTimerStart
<1>2. h \in Timer /\ h \notin ToSet(nutTimerList)
  BY DEF FreeTimers
<1>3. /\ nutTimerList \in Seq(Timer) /\ NoDup(nutTimerList) /\ tn_left \in [Timer -> Nat]
      /\ pend \in Nat /\ Ascending(nutTimerList, tn_left)
  BY DEF KInv, TypeOK, Linked, Timed
<1>4. tn_left' \in [Timer -> Nat] /\ \A x \in Timer : x # h => tn_left'[x] = tn_left[x]
  BY <1>1, <1>2, <1>3
<1>5. tn_left' \in [Timer -> Int]
  BY <1>4
<1>6. \A j \in 1..Len(nutTimerList) : nutTimerList[j] \in Timer /\ nutTimerList[j] # h
  BY <1>2, <1>3, ElementOfSeq, ToSetFacts
<1>7. Ascending(nutTimerList, tn_left')
  BY <1>3, <1>4, <1>6 DEF Ascending
<1>8. /\ nutTimerList' \in Seq(Timer) /\ NoDup(nutTimerList')
      /\ ToSet(nutTimerList') = ToSet(nutTimerList) \cup {h}
      /\ Ascending(nutTimerList', tn_left')
  <2> DEFINE l == InsertBy(nutTimerList, h, tn_left')
  <2>1. /\ l \in Seq(Timer) /\ ToSet(l) = ToSet(nutTimerList) \cup {h}
        /\ NoDup(nutTimerList) /\ h \notin ToSet(nutTimerList) => NoDup(l)
        /\ Ascending(nutTimerList, tn_left') => Ascending(l, tn_left')
    BY <1>2, <1>3, <1>5, InsertByFacts
  <2> HIDE DEF l
  <2>2. nutTimerList' = l
    BY <1>1 DEF l
  <2> QED BY <1>2, <1>3, <1>7, <2>1, <2>2
<1> QED BY <1>1, <1>2, <1>4, <1>8

(* NutTimerStop() leaves the timer in the list, without its callback.       *)
LEMMA TimerStopFacts ==
    ASSUME KInv, NEW h \in ToSet(nutTimerList), NutTimerStop(h)
    PROVE  /\ nutTimerList' \in Seq(Timer) /\ NoDup(nutTimerList')
           /\ ToSet(nutTimerList') = ToSet(nutTimerList)
           /\ tn_left' \in [Timer -> Nat] /\ Ascending(nutTimerList', tn_left')
           /\ \A x \in Timer : x # h => tn_left'[x] = tn_left[x]
           /\ tn_callback' = [tn_callback EXCEPT ![h] = NULL]
           /\ tn_arg' = tn_arg
<1>1. /\ nutTimerList \in Seq(Timer) /\ NoDup(nutTimerList) /\ tn_left \in [Timer -> Nat]
      /\ h \in Timer /\ Ascending(nutTimerList, tn_left)
  BY KFacts DEF KInv, TypeOK, Linked, Timed
<1>2. CASE DeltaOf(h) # 0
  <2> DEFINE s == Unlink(nutTimerList, h)
  <2>1. tn_left' = [tn_left EXCEPT ![h] = 0] /\ nutTimerList' = InsertBy(s, h, tn_left')
    BY <1>2 DEF NutTimerStop
  <2>2. s \in Seq(Timer) /\ ToSet(s) = ToSet(nutTimerList) \ {h} /\ NoDup(s)
    BY <1>1, UnlinkFacts
  <2>3. Ascending(s, tn_left)
    <3>1. tn_left \in [Timer -> Int]
      BY <1>1
    <3> QED BY <1>1, <3>1, UnlinkFacts
  <2> HIDE DEF s
  <2>4. tn_left' \in [Timer -> Nat] /\ \A x \in Timer : x # h => tn_left'[x] = tn_left[x]
    BY <1>1, <2>1
  <2>5. tn_left' \in [Timer -> Int]
    BY <2>4
  <2>6. \A j \in 1..Len(s) : s[j] \in Timer /\ s[j] # h
    BY <2>2, ElementOfSeq, ToSetFacts
  <2>7. Ascending(s, tn_left')
    BY <2>3, <2>4, <2>6 DEF Ascending
  <2>8. /\ nutTimerList' \in Seq(Timer) /\ NoDup(nutTimerList')
        /\ ToSet(nutTimerList') = ToSet(s) \cup {h}
        /\ Ascending(nutTimerList', tn_left')
    <3> DEFINE l == InsertBy(s, h, tn_left')
    <3>1. /\ l \in Seq(Timer) /\ ToSet(l) = ToSet(s) \cup {h}
          /\ NoDup(s) /\ h \notin ToSet(s) => NoDup(l)
          /\ Ascending(s, tn_left') => Ascending(l, tn_left')
      BY <1>1, <2>2, <2>5, InsertByFacts
    <3> HIDE DEF l
    <3>2. nutTimerList' = l
      BY <2>1 DEF l
    <3> QED BY <2>2, <2>7, <3>1, <3>2
  <2> QED BY <2>2, <2>4, <2>8 DEF NutTimerStop
<1>3. CASE DeltaOf(h) = 0
  BY <1>1, <1>3 DEF NutTimerStop
<1> QED BY <1>2, <1>3

(***************************************************************************)
(* Thread t leaves the list it is in for list d.                            *)
(***************************************************************************)
Moves(t, d) ==
    /\ t \in Alive /\ nutThreadList' = nutThreadList
    /\ td_queue' = [td_queue EXCEPT ![t] = d]
    /\ \A u \in Thread : u \in Ready' <=> (u \in Ready /\ u # t) \/ (u = t /\ d = RunQ)
    /\ \A r \in Queue : \A u \in Thread :
          u \in ToSet(queue'[r]) <=> (u \in ToSet(queue[r]) /\ u # t) \/ (u = t /\ d = r)
    /\ NoDup(runQueue') /\ NoDup(nutTimerList') /\ \A r \in Queue : NoDup(queue'[r])
    /\ \A u \in Thread : u # t => td_state'[u] = td_state[u]
    /\ td_state'[t] = "SLEEP" <=> d # RunQ
    /\ \A u \in Thread : u # t /\ u \in Alive /\ AsleepByTimer(u) =>
          /\ td_timer'[u] = td_timer[u]
          /\ tn_callback'[td_timer[u]] = tn_callback[td_timer[u]]
          /\ tn_arg'[td_timer[u]] = tn_arg[td_timer[u]]
          /\ td_timer[u] \in ToSet(nutTimerList')
    /\ d = NULL => AsleepByTimer(t)'

LEMMA LinkedMove ==
    ASSUME KInv, NEW t \in Thread, NEW d \in Queue \cup {RunQ, NULL}, Moves(t, d)
    PROVE  Linked'
<1> USE DEF Moves
<1>1. /\ td_queue'[t] = d /\ \A u \in Thread : u # t => td_queue'[u] = td_queue[u]
      /\ Alive' = Alive /\ Alive \subseteq Thread
  BY KFacts DEF KInv, TypeOK, Alive
<1>2. \A u \in Thread : u \in Ready' <=> td_queue'[u] = RunQ
  BY <1>1 DEF KInv, Linked
<1>3. ASSUME NEW u \in Thread, NEW r \in Queue
      PROVE  u \in ToSet(queue'[r]) <=> td_queue'[u] = r
  BY <1>1 DEF KInv, Linked
<1>4. \A u \in Thread : td_queue'[u] # NULL => u \in Alive'
  BY <1>1 DEF KInv, Linked
<1>5. ASSUME NEW u \in Alive, td_queue'[u] = NULL
      PROVE  AsleepByTimer(u)'
  <2>1. CASE u = t
    BY <1>1, <1>5, <2>1
  <2>2. CASE u # t
    <3>1. u \in Thread /\ td_queue[u] = NULL /\ AsleepByTimer(u)
      BY <1>1, <1>5, <2>2 DEF KInv, Linked
    <3> QED BY <1>5, <2>2, <3>1 DEF AsleepByTimer
  <2> QED BY <2>1, <2>2
<1>6. \A u \in Alive' : td_state'[u] = "SLEEP" <=> td_queue'[u] # RunQ
  BY <1>1 DEF KInv, Linked
<1>7. NoDup(nutThreadList')
  BY DEF KInv, Linked
<1> QED BY <1>1, <1>2, <1>3, <1>4, <1>5, <1>6, <1>7 DEF Linked

-----------------------------------------------------------------------------
(* Entering an event queue.                                                 *)
LEMMA WaitEnqueueInv ==
    ASSUME KInv, WaitEnqueue
    PROVE  KInv'
<1> DEFINE t == runningThread
           s == queue[qh]
<1>1. /\ pc = "wait" /\ root # SIGNALED /\ qh \in Queue
      /\ t \in Thread /\ t \in Ready /\ t \in Alive /\ t # Idle
      /\ td_queue[t] = RunQ /\ td_qpec[t] = 0
      /\ td_timer[t] \notin Timer
  <2>1. /\ pc = "wait" /\ root # SIGNALED /\ qh \in Queue /\ t \in Thread /\ t \in Ready
        /\ t \in Alive /\ t # Idle
    BY DEF KInv, TypeOK, Control, WaitEnqueue
  <2>2. td_queue[t] = RunQ
    BY <2>1 DEF KInv, Linked
  <2> QED BY <2>1, <2>2, KFacts DEF KInv, Timed
<1>2. /\ \A r \in Queue : queue[r] \in Chain /\ NoDup(queue[r]) /\ t \notin ToSet(queue[r])
      /\ HeadOnly(s, td_qpec) /\ td_priority \in [Thread -> 0..255]
      /\ td_qpec \in [Thread -> Nat]
  <2>1. \A r \in Queue : t \notin ToSet(queue[r])
    BY <1>1, HandleAssumption DEF KInv, Linked
  <2>2. td_priority \in [Thread -> 0..255] /\ td_qpec \in [Thread -> Nat]
    BY DEF KInv, TypeOK
  <2> QED BY <1>1, <2>1, <2>2, KFacts
<1>3. /\ queue' = [queue EXCEPT ![qh] = AddedList(s, t, td_priority)]
      /\ td_qpec' = AddedQpec(s, t, td_priority, td_qpec)
      /\ queue \in [Queue -> Chain]
  BY DEF KInv, TypeOK, WaitEnqueue, Chain
<1>4. /\ queue'[qh] \in Seq(Thread) /\ NoDup(queue'[qh])
      /\ \A u \in Thread : u \in ToSet(queue'[qh]) <=> u \in ToSet(s) \/ u = t
      /\ \A r \in Queue : r # qh => queue'[r] = queue[r]
  <2> DEFINE r == AddedList(s, t, td_priority)
  <2>1. /\ r \in Seq(Thread) /\ \A u \in Thread : u \in ToSet(r) <=> u \in ToSet(s) \/ u = t
        /\ NoDup(s) /\ t \notin ToSet(s) => NoDup(r)
    BY <1>1, <1>2, AddedListFacts
  <2> HIDE DEF r, s, t
  <2>2. queue'[qh] = r /\ \A q \in Queue : q # qh => queue'[q] = queue[q]
    BY <1>1, <1>3 DEF r
  <2> QED BY <1>1, <1>2, <2>1, <2>2 DEF s
<1>5. /\ td_qpec' \in [Thread -> Nat]
      /\ \A u \in Thread : u \notin ToSet(s) /\ u # t => td_qpec'[u] = td_qpec[u]
      /\ HeadOnly(queue'[qh], td_qpec')
  <2> HIDE DEF t, s
  <2>1. /\ AddedQpec(s, t, td_priority, td_qpec) \in [Thread -> Nat]
        /\ \A u \in Thread : u \notin ToSet(s) /\ u # t
              => AddedQpec(s, t, td_priority, td_qpec)[u] = td_qpec[u]
        /\ HeadOnly(AddedList(s, t, td_priority), AddedQpec(s, t, td_priority, td_qpec))
    <3>1. s \in Chain /\ NoDup(s) /\ t \notin ToSet(s) /\ t \in Thread
      BY <1>1, <1>2 DEF s
    <3> QED BY <1>2, <3>1, AddedQpecFacts, SMTT(60)
  <2>2. queue'[qh] = AddedList(s, t, td_priority)
    BY <1>1, <1>3
  <2> QED BY <1>3, <2>1, <2>2
<1>6. /\ runQueue' \in Seq(Thread) /\ NoDup(runQueue') /\ ToSet(runQueue') = Ready \ {t}
  BY UnlinkFacts DEF KInv, TypeOK, Linked, WaitEnqueue, Ready
<1>7. /\ td_queue' = [td_queue EXCEPT ![t] = qh]
      /\ td_state' = [td_state EXCEPT ![t] = "SLEEP"]
      /\ owed' = [owed EXCEPT ![t] = ms] /\ cont' = [cont EXCEPT ![t] = "waited"]
      /\ pc' = "scan" /\ scan' = 1 /\ qh' = NULL /\ ms' = 0 /\ root' = NULL
      /\ UNCHANGED <<runningThread, killedThread, nutThreadList, td_priority, pend, ret, ticks_new>>
  BY DEF WaitEnqueue
<1>8. \/ \E h \in Timer :
            /\ h \notin ToSet(nutTimerList)
            /\ nutTimerList' \in Seq(Timer) /\ NoDup(nutTimerList')
            /\ ToSet(nutTimerList') = ToSet(nutTimerList) \cup {h}
            /\ tn_left' \in [Timer -> Nat] /\ Ascending(nutTimerList', tn_left')
            /\ tn_callback' = [tn_callback EXCEPT ![h] = "NutEventTimeout"]
            /\ tn_arg' = [tn_arg EXCEPT ![h] = qh]
            /\ td_timer' = [td_timer EXCEPT ![t] = h]
      \/ /\ td_timer' = [td_timer EXCEPT ![t] = NULL]
         /\ UNCHANGED timerVars
  <2>1. ms \in Nat
    BY DelayAssumption DEF KInv, TypeOK
  <2>2. CASE NutTimerStart(t, ms, "NutEventTimeout", qh)
    BY <1>1, <2>1, <2>2, TimerStartFacts
  <2> QED BY <2>2 DEF WaitEnqueue
<1>9. TypeOK'
  <2>1. ms \in Nat
    BY DelayAssumption DEF KInv, TypeOK
  <2>2. queue' \in [Queue -> Seq(Thread) \cup {<<SIGNALED>>}]
    BY <1>3, <1>4 DEF KInv, TypeOK
  <2>3. CASE UNCHANGED timerVars /\ td_timer' = [td_timer EXCEPT ![t] = NULL]
    BY <1>1, <1>5, <1>6, <1>7, <2>1, <2>2, <2>3 DEF KInv, TypeOK, PCs
  <2>4. ASSUME NEW h \in Timer,
               nutTimerList' \in Seq(Timer), tn_left' \in [Timer -> Nat],
               tn_callback' = [tn_callback EXCEPT ![h] = "NutEventTimeout"],
               tn_arg' = [tn_arg EXCEPT ![h] = qh],
               td_timer' = [td_timer EXCEPT ![t] = h]
        PROVE  TypeOK'
    BY <1>1, <1>5, <1>6, <1>7, <2>1, <2>2, <2>4 DEF KInv, TypeOK, PCs
  <2> QED BY <1>8, <2>3, <2>4
<1>10. /\ \A u \in Thread : u # t => td_timer'[u] = td_timer[u]
       /\ ToSet(nutTimerList) \subseteq ToSet(nutTimerList') /\ NoDup(nutTimerList')
       /\ \A h \in ToSet(nutTimerList) : /\ tn_callback'[h] = tn_callback[h]
                                         /\ tn_arg'[h] = tn_arg[h]
  <2>1. ToSet(nutTimerList) \subseteq Timer
    BY KFacts
  <2> QED BY <1>1, <1>8, <2>1 DEF KInv, TypeOK, Linked
<1>11. Linked'
  <2>1. \A u \in Thread : u \in Ready' <=> (u \in Ready /\ u # t) \/ (u = t /\ qh = RunQ)
    BY <1>1, <1>6, HandleAssumption DEF Ready
  <2>2. \A r \in Queue : \A u \in Thread :
           u \in ToSet(queue'[r]) <=> (u \in ToSet(queue[r]) /\ u # t) \/ (u = t /\ qh = r)
    BY <1>1, <1>2, <1>4
  <2>3. \A r \in Queue : NoDup(queue'[r])
    BY <1>2, <1>4
  <2>4. /\ \A u \in Thread : u # t => td_state'[u] = td_state[u]
        /\ td_state'[t] = "SLEEP" /\ qh # RunQ /\ qh # NULL
    BY <1>1, <1>7, HandleAssumption DEF KInv, TypeOK
  <2>5. ASSUME NEW u \in Thread, u # t, AsleepByTimer(u)
        PROVE  /\ td_timer'[u] = td_timer[u]
               /\ tn_callback'[td_timer[u]] = tn_callback[td_timer[u]]
               /\ tn_arg'[td_timer[u]] = tn_arg[td_timer[u]]
               /\ td_timer[u] \in ToSet(nutTimerList')
    BY <1>10, <2>5 DEF AsleepByTimer
  <2> HIDE DEF t, s
  <2>6. Moves(t, qh)
    BY <1>1, <1>6, <1>7, <1>10, <2>1, <2>2, <2>3, <2>4, <2>5 DEF Moves
  <2> QED BY <1>1, <2>6, LinkedMove
<1>12. PendingOnlyAtHead'
  <2> SUFFICES ASSUME NEW u \in Thread, td_qpec'[u] > 0
               PROVE  td_queue'[u] \in Queue /\ RootOf(queue'[td_queue'[u]]) = u
    BY DEF PendingOnlyAtHead, Root
  <2>1. CASE u = t \/ u \in ToSet(s)
    <3>1. u \in ToSet(queue'[qh]) /\ td_queue'[u] = qh
      BY <1>1, <1>4, <1>7, <2>1 DEF KInv, TypeOK, Linked
    <3> QED BY <1>1, <1>5, <3>1 DEF HeadOnly
  <2>2. CASE ~(u = t \/ u \in ToSet(s))
    <3>1. td_qpec[u] > 0 /\ td_queue'[u] = td_queue[u]
      BY <1>5, <1>7, <2>2 DEF KInv, TypeOK
    <3>2. td_queue[u] \in Queue /\ RootOf(queue[td_queue[u]]) = u /\ td_queue[u] # qh
      BY <2>2, <3>1 DEF KInv, PendingOnlyAtHead, Root, Linked
    <3> QED BY <1>4, <3>1, <3>2
  <2> QED BY <2>1, <2>2
<1>13. Timed'
  <2>1. \A u \in Thread \ {t} : /\ td_timer'[u] = td_timer[u] /\ td_queue'[u] = td_queue[u]
                                /\ cont'[u] = cont[u]
    BY <1>7, <1>10 DEF KInv, TypeOK
  <2>2. td_queue'[t] = qh /\ cont'[t] = "waited"
    BY <1>1, <1>7 DEF KInv, TypeOK
  <2>3. \A u \in Thread : td_queue'[u] \in Queue => cont'[u] = "waited"
    BY <2>1, <2>2 DEF KInv, Timed
  <2>4. ToSet(nutTimerList) \subseteq Timer /\ Alive \subseteq Thread /\ Alive' = Alive
    BY <1>7, KFacts DEF Alive
  <2>5. CASE td_timer'[t] = NULL /\ UNCHANGED timerVars
    <3>1. td_timer'[t] \notin Timer /\ td_timer'[t] # SIGNALED
      BY <2>5, HandleAssumption
    <3> QED BY <1>1, <1>7, <2>1, <2>3, <2>4, <2>5, <3>1 DEF KInv, Timed
  <2>6. ASSUME NEW h \in Timer,
               h \notin ToSet(nutTimerList),
               ToSet(nutTimerList') = ToSet(nutTimerList) \cup {h},
               Ascending(nutTimerList', tn_left'),
               tn_callback'[h] = "NutEventTimeout", tn_arg'[h] = qh, td_timer'[t] = h
        PROVE  Timed'
    <3>1. \A x \in ToSet(nutTimerList') : tn_callback'[x] # NULL => \E u \in Alive' : td_timer'[u] = x
      BY <1>1, <1>10, <2>1, <2>4, <2>6 DEF KInv, Timed
    <3>2. ASSUME NEW u \in Thread, td_timer'[u] \in Timer
          PROVE  LET x == td_timer'[u] IN
                 /\ u \in Alive' /\ td_queue'[u] # RunQ
                 /\ x \in ToSet(nutTimerList')
                 /\ \/ tn_callback'[x] = "NutThreadWake" /\ tn_arg'[x] = u /\ td_queue'[u] = NULL
                    \/ tn_callback'[x] = "NutEventTimeout" /\ tn_arg'[x] = td_queue'[u] /\ td_queue'[u] \in Queue
                 /\ \A v \in Thread \ {u} : td_timer'[v] # x
      <4>1. CASE u = t
        BY <1>1, <2>1, <2>2, <2>4, <2>6, <4>1, HandleAssumption DEF KInv, Timed
      <4>2. CASE u # t
        BY <1>1, <1>10, <2>1, <2>2, <2>4, <2>6, <3>2, <4>2 DEF KInv, Timed
      <4> QED BY <4>1, <4>2
    <3>3. ASSUME NEW u \in Thread, td_timer'[u] = SIGNALED
          PROVE  /\ td_queue'[u] = RunQ /\ cont'[u] = "waited"
                 /\ u = runningThread' => pc' \in {"elapsed", "switch", "waited"}
      <4>1. u # t
        BY <2>6, <3>3, HandleAssumption
      <4> QED BY <1>7, <2>1, <3>3, <4>1 DEF KInv, Timed
    <3> QED BY <2>3, <2>6, <3>1, <3>2, <3>3 DEF Timed
  <2>7. \/ td_timer'[t] = NULL /\ UNCHANGED timerVars
        \/ \E h \in Timer : /\ h \notin ToSet(nutTimerList)
                            /\ ToSet(nutTimerList') = ToSet(nutTimerList) \cup {h}
                            /\ Ascending(nutTimerList', tn_left')
                            /\ tn_callback'[h] = "NutEventTimeout" /\ tn_arg'[h] = qh
                            /\ td_timer'[t] = h
    <3>1. /\ tn_callback \in [Timer -> {"NutEventTimeout", "NutThreadWake", NULL}]
          /\ tn_arg \in [Timer -> Queue \cup Thread \cup {NULL}]
          /\ td_timer \in [Thread -> Timer \cup {NULL, SIGNALED}]
      BY DEF KInv, TypeOK
    <3> QED BY <1>1, <1>8, <3>1
  <2> QED BY <2>5, <2>6, <2>7
<1>14. Control'
  <2>1. Idle \in Ready'
    BY <1>1, <1>6 DEF KInv, Control, Ready
  <2> QED BY <1>1, <1>7, <2>1 DEF KInv, Control, Broadcasting, Alive
<1> QED BY <1>9, <1>11, <1>12, <1>13, <1>14 DEF KInv

-----------------------------------------------------------------------------
(***************************************************************************)
(* The thread at index i of event queue q becomes ready, woken by an event  *)
(* or by its timeout.                                                       *)
(***************************************************************************)
LeavesQueue(q, i, t) ==
    /\ queue[q] \in Seq(Thread) /\ i \in 1..Len(queue[q]) /\ t = queue[q][i]
    /\ queue' = [queue EXCEPT ![q] = DetachedList(queue[q], i, td_qpec)]
    /\ td_qpec' = AddedQpec(runQueue, t, td_priority, DetachedQpec(queue[q], i, td_qpec))
    /\ MakeReady(t)

LEMMA LeavesQueueFacts ==
    ASSUME KInv, NEW q \in Queue, NEW i, NEW t, LeavesQueue(q, i, t)
    PROVE  /\ t \in Thread /\ t \in Alive /\ t \notin Ready /\ td_queue[t] = q
           /\ queue' \in [Queue -> Seq(Thread) \cup {<<SIGNALED>>}]
           /\ \A r \in Queue : NoDup(queue'[r])
           /\ \A r \in Queue : \A u \in Thread :
                 u \in ToSet(queue'[r]) <=> u \in ToSet(queue[r]) /\ u # t
           /\ \A r \in Queue : r # q => queue'[r] = queue[r]
           /\ runQueue' \in Seq(Thread) /\ NoDup(runQueue')
           /\ \A u \in Thread : u \in Ready' <=> u \in Ready \/ u = t
           /\ td_qpec' \in [Thread -> Nat]
           /\ td_queue' = [td_queue EXCEPT ![t] = RunQ]
           /\ td_state' = [td_state EXCEPT ![t] = "READY"]
           /\ PendingOnlyAtHead'
           /\ td_qpec' = DetachedQpec(queue[q], i, td_qpec)
<1> DEFINE s == queue[q]
           d == DetachedList(s, i, td_qpec)
           a == DetachedQpec(s, i, td_qpec)
<1>1. s \in Seq(Thread) /\ i \in 1..Len(s) /\ t = s[i]
  BY DEF LeavesQueue
<1>2. t \in Thread /\ t \in ToSet(s)
  BY <1>1, ElementOfSeq, ToSetFacts
<1>3. td_queue[t] = q /\ t \in Alive /\ t \notin Ready
  BY <1>2, HandleAssumption DEF KInv, Linked
<1>4. /\ NoDup(s) /\ HeadOnly(s, td_qpec) /\ td_qpec \in [Thread -> Nat]
      /\ td_priority \in [Thread -> 0..255] /\ queue \in [Queue -> Chain]
  BY KFacts DEF KInv, TypeOK, Chain
<1> HIDE DEF s
<1>5. /\ d \in Chain /\ NoDup(d)
      /\ \A u \in Thread : u \in ToSet(d) <=> u \in ToSet(s) /\ u # s[i]
      /\ a \in [Thread -> Nat]
      /\ \A u \in Thread : u \notin ToSet(s) => a[u] = td_qpec[u]
      /\ a[s[i]] = 0
      /\ HeadOnly(d, a)
  BY <1>1, <1>4, DetachedFacts
<1> HIDE DEF d, a
<1>6. Quiet(runQueue, a)
  BY <1>5, KFacts, HandleAssumption DEF KInv, Linked, s, Quiet, Ready
<1>7. /\ runQueue' = AddedList(runQueue, t, td_priority)
      /\ td_queue' = [td_queue EXCEPT ![t] = RunQ]
      /\ td_state' = [td_state EXCEPT ![t] = "READY"]
      /\ queue' = [queue EXCEPT ![q] = d]
      /\ td_qpec' = AddedQpec(runQueue, t, td_priority, a)
  BY DEF LeavesQueue, MakeReady, d, a, s
<1>8. /\ runQueue' \in Seq(Thread) /\ NoDup(runQueue')
      /\ \A u \in Thread : u \in Ready' <=> u \in Ready \/ u = t
      /\ td_qpec' = [a EXCEPT ![t] = 0]
  <2>1. /\ AddedList(runQueue, t, td_priority) \in Seq(Thread)
        /\ NoDup(AddedList(runQueue, t, td_priority))
        /\ \A u \in Thread : u \in ToSet(AddedList(runQueue, t, td_priority)) <=> u \in Ready \/ u = t
        /\ AddedQpec(runQueue, t, td_priority, a) = [a EXCEPT ![t] = 0]
    <3>1. /\ t \in Thread /\ t \notin Ready /\ td_priority \in [Thread -> 0..255]
          /\ a \in [Thread -> Nat] /\ Quiet(runQueue, a)
      BY <1>2, <1>3, <1>4, <1>5, <1>6
    <3>2. AddedList(runQueue, t, td_priority) \in Seq(Thread)
      BY <3>1, JoinReadyFacts
    <3>3. NoDup(AddedList(runQueue, t, td_priority))
      BY <3>1, JoinReadyFacts
    <3>4. AddedQpec(runQueue, t, td_priority, a) = [a EXCEPT ![t] = 0]
      BY <3>1, JoinReadyFacts
    <3>5. \A u \in Thread : u \in ToSet(AddedList(runQueue, t, td_priority)) <=> u \in Ready \/ u = t
      BY <3>1, JoinReadyFacts
    <3> QED BY <3>2, <3>3, <3>4, <3>5
  <2> QED BY <1>7, <2>1 DEF Ready
<1>9. td_qpec' = a
  BY <1>1, <1>2, <1>5, <1>8
<1>10. queue'[q] = d /\ \A r \in Queue : r # q => queue'[r] = queue[r]
  BY <1>4, <1>7
<1>11. queue' \in [Queue -> Chain]
  BY <1>4, <1>5, <1>7
<1>12. \A r \in Queue : NoDup(queue'[r])
  BY <1>5, <1>10, KFacts
<1>13. \A r \in Queue : \A u \in Thread : u \in ToSet(queue'[r]) <=> u \in ToSet(queue[r]) /\ u # t
  BY <1>1, <1>2, <1>3, <1>5, <1>10 DEF KInv, Linked, s
<1>14. PendingOnlyAtHead'
  <2> SUFFICES ASSUME NEW u \in Thread, a[u] > 0
               PROVE  td_queue'[u] \in Queue /\ RootOf(queue'[td_queue'[u]]) = u
    BY <1>9 DEF PendingOnlyAtHead, Root
  <2>1. u # t
    BY <1>1, <1>5
  <2>2. td_queue'[u] = td_queue[u]
    BY <1>7, <2>1 DEF KInv, TypeOK
  <2>3. CASE u \in ToSet(s)
    <3>1. td_queue[u] = q /\ u \in ToSet(d)
      BY <1>1, <1>5, <2>1, <2>3 DEF KInv, Linked, s
    <3> QED BY <1>5, <1>10, <2>2, <3>1 DEF HeadOnly
  <2>4. CASE u \notin ToSet(s)
    <3>1. td_queue[u] \in Queue /\ RootOf(queue[td_queue[u]]) = u /\ td_queue[u] # q
      BY <1>5, <2>4 DEF KInv, PendingOnlyAtHead, Root, Linked, s
    <3> QED BY <1>10, <2>2, <3>1
  <2> QED BY <2>3, <2>4
<1>15. td_qpec' = DetachedQpec(queue[q], i, td_qpec)
  BY <1>9 DEF a, s
<1> QED BY <1>2, <1>3, <1>5, <1>7, <1>8, <1>9, <1>10, <1>11, <1>12, <1>13, <1>14, <1>15 DEF Chain

(* A timer that has elapsed leaves the list; the others come nearer.        *)
LEMMA TimerElapsesFacts ==
    ASSUME KInv, NEW h, TimerElapses(h)
    PROVE  /\ h \in Timer /\ h \in ToSet(nutTimerList)
           /\ nutTimerList' \in Seq(Timer) /\ NoDup(nutTimerList')
           /\ ToSet(nutTimerList') = ToSet(nutTimerList) \ {h}
           /\ tn_left' \in [Timer -> Nat] /\ Ascending(nutTimerList', tn_left')
           /\ tn_callback' \in [Timer -> {"NutEventTimeout", "NutThreadWake", NULL}]
           /\ tn_arg' \in [Timer -> Queue \cup Thread \cup {NULL}]
           /\ \A x \in Timer : x # h => tn_callback'[x] = tn_callback[x] /\ tn_arg'[x] = tn_arg[x]
           /\ ticks_new' \in Nat
<1> DEFINE s == nutTimerList
           r == Tail(nutTimerList)
<1>1. /\ s \in Seq(Timer) /\ NoDup(s) /\ Ascending(s, tn_left) /\ s # <<>> /\ h = Head(s)
      /\ tn_left \in [Timer -> Nat] /\ ticks_new \in Nat
  BY DEF KInv, TypeOK, Linked, Timed, TimerElapses
<1>2. /\ h = s[1] /\ h \in Timer /\ h \in ToSet(s)
      /\ r \in Seq(Timer) /\ Len(r) = Len(s) - 1
      /\ \A j \in 1..(Len(s) - 1) : r[j] = s[j + 1]
      /\ ToSet(r) = ToSet(s) \ {h} /\ NoDup(r)
  BY <1>1, TailFacts
<1>3. Len(s) \in Nat /\ Len(s) >= 1
  BY <1>1, LenProperties, EmptySeq
<1>4. /\ nutTimerList' = r
      /\ tn_left' = [x \in Timer |-> IF IsIn(r, x) THEN tn_left[x] - tn_left[h] ELSE 0]
      /\ tn_left[h] <= ticks_new /\ ticks_new' = ticks_new - tn_left[h]
  BY DEF TimerElapses
<1> HIDE DEF s, r
<1>5. \A j \in 1..Len(r) : r[j] \in Timer /\ IsIn(r, r[j])
  BY <1>2, ElementOfSeq DEF IsIn
<1>6. \A j \in 1..Len(r) : tn_left[h] <= tn_left[r[j]]
  <2> SUFFICES ASSUME NEW j \in 1..Len(r)
               PROVE  tn_left[h] <= tn_left[r[j]]
    OBVIOUS
  <2>1. r[j] = s[j + 1] /\ j + 1 \in 1..Len(s) /\ 1 \in 1..Len(s) /\ 1 < j + 1
    BY <1>2, <1>3
  <2> QED BY <1>1, <1>2, <2>1 DEF Ascending
<1>7. \A x \in Timer : IsIn(r, x) => tn_left[h] <= tn_left[x]
  BY <1>6 DEF IsIn
<1>8. tn_left' \in [Timer -> Nat]
  BY <1>1, <1>2, <1>4, <1>7
<1>9. Ascending(r, tn_left')
  <2> SUFFICES ASSUME NEW i \in 1..Len(r), NEW j \in 1..Len(r), i < j
               PROVE  tn_left'[r[i]] <= tn_left'[r[j]]
    BY DEF Ascending
  <2>1. /\ r[i] = s[i + 1] /\ i + 1 \in 1..Len(s)
        /\ r[j] = s[j + 1] /\ j + 1 \in 1..Len(s) /\ i + 1 < j + 1
    BY <1>2, <1>3
  <2>2. tn_left[r[i]] <= tn_left[r[j]]
    BY <1>1, <2>1 DEF Ascending
  <2>3. /\ tn_left'[r[i]] = tn_left[r[i]] - tn_left[h]
        /\ tn_left'[r[j]] = tn_left[r[j]] - tn_left[h]
        /\ tn_left[r[i]] \in Nat /\ tn_left[r[j]] \in Nat /\ tn_left[h] \in Nat
    BY <1>1, <1>2, <1>4, <1>5
  <2> QED BY <2>2, <2>3
<1>10. ticks_new' \in Nat
  BY <1>1, <1>2, <1>4
<1>11. /\ tn_callback' = [tn_callback EXCEPT ![h] = NULL] /\ tn_arg' = [tn_arg EXCEPT ![h] = NULL]
       /\ tn_callback \in [Timer -> {"NutEventTimeout", "NutThreadWake", NULL}]
       /\ tn_arg \in [Timer -> Queue \cup Thread \cup {NULL}]
  BY DEF KInv, TypeOK, TimerElapses
<1>12. /\ tn_callback' \in [Timer -> {"NutEventTimeout", "NutThreadWake", NULL}]
       /\ tn_arg' \in [Timer -> Queue \cup Thread \cup {NULL}]
       /\ \A x \in Timer : x # h => tn_callback'[x] = tn_callback[x] /\ tn_arg'[x] = tn_arg[x]
  BY <1>2, <1>11
<1> QED BY <1>2, <1>4, <1>8, <1>9, <1>10, <1>12 DEF s

(***************************************************************************)
(* Thread t, if it held timer h, holds it no more, and h, if it is still    *)
(* listed, does nothing: the other threads and their timers are as before.  *)
(***************************************************************************)
Releases(t, h) ==
    /\ td_timer[t] \in Timer => td_timer[t] = h
    /\ nutThreadList' = nutThreadList /\ runningThread' = runningThread
    /\ \A u \in Thread : u # t => /\ td_timer'[u] = td_timer[u] /\ td_queue'[u] = td_queue[u]
                                  /\ cont'[u] = cont[u]
    /\ td_timer'[t] \notin Timer /\ td_queue'[t] \notin Queue
    /\ td_timer'[t] = SIGNALED => td_queue'[t] = RunQ /\ cont'[t] = "waited"
    /\ pc' \in {"elapsed", "switch"}
       \/ \A u \in Thread : td_timer'[u] = SIGNALED => u # runningThread
    /\ ToSet(nutTimerList) \ {h} \subseteq ToSet(nutTimerList')
    /\ ToSet(nutTimerList') \subseteq ToSet(nutTimerList)
    /\ \A x \in ToSet(nutTimerList) : x # h => tn_callback'[x] = tn_callback[x] /\ tn_arg'[x] = tn_arg[x]
    /\ h \in ToSet(nutTimerList') => tn_callback'[h] = NULL
    /\ h \in Timer => \A u \in Thread : u # t => td_timer[u] # h
    /\ Ascending(nutTimerList', tn_left')

LEMMA TimedRelease ==
    ASSUME KInv, NEW t \in Thread, NEW h, Releases(t, h)
    PROVE  Timed'
<1> USE DEF Releases
<1>1. ToSet(nutTimerList) \subseteq Timer /\ Alive \subseteq Thread /\ Alive' = Alive
  BY KFacts DEF Alive
<1>2. ASSUME NEW x \in ToSet(nutTimerList'), tn_callback'[x] # NULL
      PROVE  \E u \in Alive' : td_timer'[u] = x
  <2>1. x # h /\ x \in ToSet(nutTimerList) /\ tn_callback[x] # NULL
    BY <1>2
  <2>2. PICK u \in Alive : td_timer[u] = x
    BY <2>1 DEF KInv, Timed
  <2>3. u # t
    BY <1>1, <2>1, <2>2
  <2> QED BY <1>1, <2>2, <2>3
<1>3. ASSUME NEW u \in Thread, td_timer'[u] \in Timer
      PROVE  LET x == td_timer'[u] IN
             /\ u \in Alive' /\ td_queue'[u] # RunQ
             /\ x \in ToSet(nutTimerList')
             /\ \/ tn_callback'[x] = "NutThreadWake" /\ tn_arg'[x] = u /\ td_queue'[u] = NULL
                \/ tn_callback'[x] = "NutEventTimeout" /\ tn_arg'[x] = td_queue'[u] /\ td_queue'[u] \in Queue
             /\ \A v \in Thread \ {u} : td_timer'[v] # x
  <2> DEFINE x == td_timer[u]
  <2>1. u # t /\ td_timer'[u] = x /\ x \in Timer /\ x # h /\ td_queue'[u] = td_queue[u]
    BY <1>3
  <2>2. /\ u \in Alive /\ td_queue[u] # RunQ /\ x \in ToSet(nutTimerList)
        /\ \/ tn_callback[x] = "NutThreadWake" /\ tn_arg[x] = u /\ td_queue[u] = NULL
           \/ tn_callback[x] = "NutEventTimeout" /\ tn_arg[x] = td_queue[u] /\ td_queue[u] \in Queue
        /\ \A v \in Thread \ {u} : td_timer[v] # x
    BY <2>1 DEF KInv, Timed
  <2>3. x \in ToSet(nutTimerList') /\ tn_callback'[x] = tn_callback[x] /\ tn_arg'[x] = tn_arg[x]
    BY <2>1, <2>2
  <2>4. \A v \in Thread \ {u} : td_timer'[v] # x
    BY <2>1, <2>2
  <2> HIDE DEF x
  <2> QED BY <1>1, <2>1, <2>2, <2>3, <2>4
<1>4. ASSUME NEW u \in Thread, td_timer'[u] = SIGNALED
      PROVE  /\ td_queue'[u] = RunQ /\ cont'[u] = "waited"
             /\ u = runningThread' => pc' \in {"elapsed", "switch", "waited"}
  BY <1>4 DEF KInv, Timed
<1>5. \A u \in Thread : td_queue'[u] \in Queue => cont'[u] = "waited"
  BY DEF KInv, Timed
<1> QED BY <1>2, <1>3, <1>4, <1>5 DEF Timed

LEMMA PostWakeInv ==
    ASSUME KInv, PostWake
    PROVE  KInv'
<1> DEFINE t == root
           h == td_timer[root]
<1>1. /\ pc = "post" /\ t \in Thread /\ qh \in Queue /\ Root(qh) = t
      /\ ret \in {"app", "yield", "scan"} \cup Broadcasting
      /\ queue[qh] \in Chain
  BY KFacts DEF KInv, Control, PostWake
<1>2. queue[qh] \in Seq(Thread) /\ 1 \in 1..Len(queue[qh]) /\ t = queue[qh][1]
  <2>1. queue[qh] \in Seq(Thread) /\ Len(queue[qh]) >= 1 /\ t = queue[qh][1]
    BY <1>1, RootFacts DEF Root
  <2> QED BY <2>1, LenProperties
<1>3. LeavesQueue(qh, 1, t)
  BY <1>2 DEF LeavesQueue, PostWake
<1>4. /\ t \in Alive /\ t \notin Ready /\ td_queue[t] = qh
      /\ queue' \in [Queue -> Seq(Thread) \cup {<<SIGNALED>>}]
      /\ \A r \in Queue : NoDup(queue'[r])
      /\ \A r \in Queue : \A u \in Thread :
            u \in ToSet(queue'[r]) <=> u \in ToSet(queue[r]) /\ u # t
      /\ \A r \in Queue : r # qh => queue'[r] = queue[r]
      /\ runQueue' \in Seq(Thread) /\ NoDup(runQueue')
      /\ \A u \in Thread : u \in Ready' <=> u \in Ready \/ u = t
      /\ td_qpec' \in [Thread -> Nat]
      /\ td_queue' = [td_queue EXCEPT ![t] = RunQ]
      /\ td_state' = [td_state EXCEPT ![t] = "READY"]
      /\ PendingOnlyAtHead'
  <2> HIDE DEF t
  <2> QED BY <1>1, <1>3, LeavesQueueFacts
<1>5. /\ td_timer' = [td_timer EXCEPT ![t] = NULL] /\ owed' = [owed EXCEPT ![t] = 0]
      /\ UNCHANGED <<threadVars, pend, loopVars, cont>>
      /\ pc' = ret /\ root' = NULL /\ ms' = ms
      /\ IF ret \in Broadcasting THEN UNCHANGED <<qh, ret>> ELSE qh' = NULL /\ ret' = NULL
  BY DEF PostWake, ReturnFromPost
<1>6. /\ nutTimerList' \in Seq(Timer) /\ NoDup(nutTimerList')
      /\ ToSet(nutTimerList') = ToSet(nutTimerList)
      /\ tn_left' \in [Timer -> Nat] /\ Ascending(nutTimerList', tn_left')
      /\ tn_callback' \in [Timer -> {"NutEventTimeout", "NutThreadWake", NULL}]
      /\ tn_arg' \in [Timer -> Queue \cup Thread \cup {NULL}]
      /\ \A x \in ToSet(nutTimerList) : x # h => tn_callback'[x] = tn_callback[x] /\ tn_arg'[x] = tn_arg[x]
      /\ h \in ToSet(nutTimerList') => tn_callback'[h] = NULL
  <2>1. CASE h = NULL
    <3>1. UNCHANGED timerVars
      BY <2>1 DEF PostWake
    <3>2. h \notin ToSet(nutTimerList)
      BY <2>1, KFacts, HandleAssumption
    <3> QED BY <3>1, <3>2 DEF KInv, TypeOK, Linked, Timed
  <2>2. CASE h # NULL
    <3>1. h \in Timer /\ h \in ToSet(nutTimerList)
      BY <1>1, <1>4, <2>2, HandleAssumption DEF KInv, TypeOK, Timed
    <3>2. NutTimerStop(h)
      BY <2>2 DEF PostWake
    <3> HIDE DEF h
    <3>3. /\ nutTimerList' \in Seq(Timer) /\ NoDup(nutTimerList')
          /\ ToSet(nutTimerList') = ToSet(nutTimerList)
          /\ tn_left' \in [Timer -> Nat] /\ Ascending(nutTimerList', tn_left')
          /\ tn_callback' = [tn_callback EXCEPT ![h] = NULL]
          /\ tn_arg' = tn_arg
      BY <3>1, <3>2, TimerStopFacts
    <3>4. /\ tn_callback \in [Timer -> {"NutEventTimeout", "NutThreadWake", NULL}]
          /\ tn_arg \in [Timer -> Queue \cup Thread \cup {NULL}]
          /\ ToSet(nutTimerList) \subseteq Timer
      BY KFacts DEF KInv, TypeOK
    <3>5. \A x \in Timer : tn_callback'[x] = IF x = h THEN NULL ELSE tn_callback[x]
      BY <3>1, <3>3, <3>4
    <3>6. tn_callback' \in [Timer -> {"NutEventTimeout", "NutThreadWake", NULL}]
      BY <3>1, <3>3, <3>4
    <3> QED BY <3>1, <3>3, <3>4, <3>5, <3>6
  <2> QED BY <2>1, <2>2
<1>7. /\ td_timer' \in [Thread -> Timer \cup {NULL, SIGNALED}]
      /\ td_timer'[t] = NULL /\ td_queue'[t] = RunQ
      /\ \A u \in Thread : u # t => td_timer'[u] = td_timer[u] /\ td_queue'[u] = td_queue[u]
      /\ \A u \in Thread : u # t => td_state'[u] = td_state[u]
      /\ td_state'[t] = "READY"
  BY <1>1, <1>4, <1>5 DEF KInv, TypeOK
<1>8. TypeOK'
  <2>1. td_queue' \in [Thread -> Queue \cup {RunQ, NULL}]
        /\ td_state' \in [Thread -> {"RUNNING", "READY", "SLEEP"}]
        /\ owed' \in [Thread -> Nat]
    BY <1>1, <1>4, <1>5 DEF KInv, TypeOK
  <2>2. pc' \in PCs /\ ret' \in {"app", "yield", "scan", NULL} \cup Broadcasting
        /\ qh' \in Queue \cup {NULL}
    BY <1>1, <1>5 DEF PCs, Broadcasting
  <2> QED BY <1>4, <1>5, <1>6, <1>7, <2>1, <2>2 DEF KInv, TypeOK
<1>9. \A u \in Thread : u # t /\ h \in Timer => td_timer[u] # h
  BY <1>1 DEF KInv, Timed
<1> HIDE DEF t, h
<1>10. Linked'
  <2>1. \A u \in Thread : u \in Ready' <=> (u \in Ready /\ u # t) \/ (u = t /\ RunQ = RunQ)
    BY <1>4
  <2>2. \A r \in Queue : \A u \in Thread :
           u \in ToSet(queue'[r]) <=> (u \in ToSet(queue[r]) /\ u # t) \/ (u = t /\ RunQ = r)
    BY <1>1, <1>4, HandleAssumption
  <2>3. ASSUME NEW u \in Thread, u # t, u \in Alive, AsleepByTimer(u)
        PROVE  /\ td_timer'[u] = td_timer[u]
               /\ tn_callback'[td_timer[u]] = tn_callback[td_timer[u]]
               /\ tn_arg'[td_timer[u]] = tn_arg[td_timer[u]]
               /\ td_timer[u] \in ToSet(nutTimerList')
    <3>1. td_timer[u] \in ToSet(nutTimerList) /\ td_timer[u] \in Timer
      BY <2>3, KFacts DEF AsleepByTimer
    <3>2. td_timer[u] # h
      BY <1>9, <2>3, <3>1
    <3> QED BY <1>6, <1>7, <2>3, <3>1, <3>2
  <2>4. Moves(t, RunQ)
    BY <1>4, <1>5, <1>6, <1>7, <2>1, <2>2, <2>3, HandleAssumption DEF Moves
  <2> QED BY <1>1, <2>4, LinkedMove
<1>11. Timed'
  <2>1. td_timer[t] \in Timer => td_timer[t] = h
    BY DEF t, h
  <2>2. \A u \in Thread : td_timer'[u] = SIGNALED => u # runningThread
    BY <1>1, <1>7, HandleAssumption DEF KInv, Timed
  <2>3. Releases(t, h)
    BY <1>5, <1>6, <1>7, <1>9, <2>1, <2>2, HandleAssumption DEF Releases
  <2> QED BY <1>1, <2>3, TimedRelease
<1>12. Control'
  <2>1. \A u \in Thread : u \in Ready => u \in Ready'
    BY <1>4
  <2>2. Alive' = Alive /\ runningThread \in Thread /\ Idle \in Thread
    BY <1>5, HandleAssumption DEF KInv, TypeOK, Alive
  <2> QED BY <1>1, <1>5, <2>1, <2>2 DEF KInv, Control, Broadcasting
<1> QED BY <1>4, <1>8, <1>10, <1>11, <1>12 DEF KInv

(* What an elapsed timer does.                                              *)
LEMMA TimerStoppedInv ==
    ASSUME KInv, NEW h \in Timer, TimerStopped(h)
    PROVE  KInv'
<1>1. TimerElapses(h) /\ tn_callback[h] = NULL /\ UNCHANGED <<queueVars, td_timer>>
  BY DEF TimerStopped
<1>2. /\ h \in ToSet(nutTimerList)
      /\ nutTimerList' \in Seq(Timer) /\ NoDup(nutTimerList')
      /\ ToSet(nutTimerList') = ToSet(nutTimerList) \ {h}
      /\ tn_left' \in [Timer -> Nat] /\ Ascending(nutTimerList', tn_left')
      /\ tn_callback' \in [Timer -> {"NutEventTimeout", "NutThreadWake", NULL}]
      /\ tn_arg' \in [Timer -> Queue \cup Thread \cup {NULL}]
      /\ \A x \in Timer : x # h => tn_callback'[x] = tn_callback[x] /\ tn_arg'[x] = tn_arg[x]
      /\ ticks_new' \in Nat
  BY <1>1, TimerElapsesFacts
<1>3. UNCHANGED <<threadVars, pend, pc, callVars, scan, histVars>> /\ pc = "elapsed"
  BY <1>1 DEF TimerElapses
<1>4. ToSet(nutTimerList) \subseteq Timer /\ Alive' = Alive /\ Ready' = Ready /\ Alive \subseteq Thread
  BY <1>1, <1>3, KFacts DEF Alive, Ready
<1>5. \A u \in Thread : td_timer[u] # h
  BY <1>1, HandleAssumption DEF KInv, Timed
<1>6. TypeOK'
  BY <1>1, <1>2, <1>3 DEF KInv, TypeOK
<1>7. Linked'
  <2>1. \A u \in Alive : td_queue[u] = NULL => AsleepByTimer(u)'
    BY <1>1, <1>2, <1>4, <1>5 DEF KInv, Linked, AsleepByTimer
  <2> QED BY <1>1, <1>2, <1>3, <1>4, <2>1 DEF KInv, Linked
<1>8. PendingOnlyAtHead'
  BY <1>1, PendingStep DEF KInv
<1>9. Timed'
  <2>1. \A x \in ToSet(nutTimerList') : /\ x \in ToSet(nutTimerList) /\ x # h
                                        /\ tn_callback'[x] = tn_callback[x] /\ tn_arg'[x] = tn_arg[x]
    BY <1>2, <1>4
  <2>2. \A x \in ToSet(nutTimerList') : tn_callback'[x] # NULL => \E u \in Alive' : td_timer'[u] = x
    BY <1>1, <1>4, <2>1 DEF KInv, Timed
  <2>3. ASSUME NEW u \in Thread, td_timer[u] \in Timer
        PROVE  LET x == td_timer[u] IN
               /\ u \in Alive /\ td_queue[u] # RunQ
               /\ x \in ToSet(nutTimerList')
               /\ \/ tn_callback'[x] = "NutThreadWake" /\ tn_arg'[x] = u /\ td_queue[u] = NULL
                  \/ tn_callback'[x] = "NutEventTimeout" /\ tn_arg'[x] = td_queue[u] /\ td_queue[u] \in Queue
               /\ \A v \in Thread \ {u} : td_timer[v] # x
    BY <1>2, <1>5, <2>1, <2>3 DEF KInv, Timed
  <2> QED BY <1>1, <1>2, <1>3, <1>4, <2>2, <2>3 DEF KInv, Timed
<1>10. Control'
  BY <1>1, <1>3, <1>4 DEF KInv, Control, Root, Broadcasting
<1> QED BY <1>6, <1>7, <1>8, <1>9, <1>10 DEF KInv

LEMMA EventTimeoutInv ==
    ASSUME KInv, NEW h \in Timer, NutEventTimeout(h)
    PROVE  KInv'
<1> DEFINE q == tn_arg[h]
<1>1. TimerElapses(h) /\ tn_callback[h] = "NutEventTimeout"
  BY DEF NutEventTimeout
<1>2. /\ h \in ToSet(nutTimerList)
      /\ nutTimerList' \in Seq(Timer) /\ NoDup(nutTimerList')
      /\ ToSet(nutTimerList') = ToSet(nutTimerList) \ {h}
      /\ tn_left' \in [Timer -> Nat] /\ Ascending(nutTimerList', tn_left')
      /\ tn_callback' \in [Timer -> {"NutEventTimeout", "NutThreadWake", NULL}]
      /\ tn_arg' \in [Timer -> Queue \cup Thread \cup {NULL}]
      /\ \A x \in Timer : x # h => tn_callback'[x] = tn_callback[x] /\ tn_arg'[x] = tn_arg[x]
      /\ ticks_new' \in Nat
  BY <1>1, TimerElapsesFacts
<1>3. UNCHANGED <<threadVars, pend, pc, callVars, scan, histVars>> /\ pc = "elapsed"
  BY <1>1 DEF TimerElapses
<1>4. PICK w \in Alive : td_timer[w] = h
  BY <1>1, <1>2, HandleAssumption DEF KInv, Timed
<1>5. w \in Thread /\ q = td_queue[w] /\ q \in Queue /\ w \in ToSet(queue[q])
  <2>1. w \in Thread
    BY KFacts
  <2>2. q = td_queue[w] /\ q \in Queue
    BY <1>1, <1>4, <2>1 DEF KInv, Timed
  <2> QED BY <2>1, <2>2 DEF KInv, Linked
<1>6. queue[q] \in Seq(Thread) /\ queue[q] # <<SIGNALED>>
  <2>1. queue[q] \in Chain
    BY <1>5, KFacts
  <2>2. queue[q] \in Seq(Thread)
    BY <1>5, <2>1, ChainFacts
  <2> QED BY <2>2, ChainFacts
<1>7. TimedOut(q, h) # {}
  <2>1. PICK i \in 1..Len(queue[q]) : queue[q][i] = w
    BY <1>5, <1>6, ToSetFacts DEF IsIn
  <2> QED BY <1>4, <1>6, <2>1 DEF TimedOut
<1>8. PICK i \in TimedOut(q, h) :
         /\ queue' = [queue EXCEPT ![q] = DetachedList(queue[q], i, td_qpec)]
         /\ td_qpec' = AddedQpec(runQueue, queue[q][i], td_priority,
                                 DetachedQpec(queue[q], i, td_qpec))
         /\ MakeReady(queue[q][i])
         /\ td_timer' = [td_timer EXCEPT ![queue[q][i]] = SIGNALED]
  BY <1>7 DEF NutEventTimeout
<1> DEFINE t == queue[q][i]
<1>9. i \in 1..Len(queue[q]) /\ td_timer[t] = h
  BY <1>8 DEF TimedOut
<1>10. LeavesQueue(q, i, t)
  BY <1>6, <1>8, <1>9 DEF LeavesQueue
<1>11. td_timer' = [td_timer EXCEPT ![t] = SIGNALED]
  BY <1>8
<1> HIDE DEF t
<1>12. /\ t \in Thread /\ t \in Alive /\ t \notin Ready /\ td_queue[t] = q
       /\ queue' \in [Queue -> Seq(Thread) \cup {<<SIGNALED>>}]
       /\ \A r \in Queue : NoDup(queue'[r])
       /\ \A r \in Queue : \A u \in Thread :
             u \in ToSet(queue'[r]) <=> u \in ToSet(queue[r]) /\ u # t
       /\ runQueue' \in Seq(Thread) /\ NoDup(runQueue')
       /\ \A u \in Thread : u \in Ready' <=> u \in Ready \/ u = t
       /\ td_qpec' \in [Thread -> Nat]
       /\ td_queue' = [td_queue EXCEPT ![t] = RunQ]
       /\ td_state' = [td_state EXCEPT ![t] = "READY"]
       /\ PendingOnlyAtHead'
  BY <1>5, <1>10, LeavesQueueFacts
<1>13. /\ td_timer' \in [Thread -> Timer \cup {NULL, SIGNALED}]
       /\ td_timer'[t] = SIGNALED /\ td_queue'[t] = RunQ
       /\ \A u \in Thread : u # t => td_timer'[u] = td_timer[u] /\ td_queue'[u] = td_queue[u]
       /\ \A u \in Thread : u # t => td_state'[u] = td_state[u]
       /\ td_state'[t] = "READY"
       /\ td_queue' \in [Thread -> Queue \cup {RunQ, NULL}]
       /\ td_state' \in [Thread -> {"RUNNING", "READY", "SLEEP"}]
  BY <1>11, <1>12 DEF KInv, TypeOK
<1>14. TypeOK'
  BY <1>2, <1>3, <1>12, <1>13 DEF KInv, TypeOK
<1>15. \A u \in Thread : u # t => td_timer[u] # h
  BY <1>9, <1>12 DEF KInv, Timed
<1>16. ToSet(nutTimerList) \subseteq Timer
  BY KFacts
<1>17. Linked'
  <2>1. \A u \in Thread : u \in Ready' <=> (u \in Ready /\ u # t) \/ (u = t /\ RunQ = RunQ)
    BY <1>12
  <2>2. \A r \in Queue : \A u \in Thread :
           u \in ToSet(queue'[r]) <=> (u \in ToSet(queue[r]) /\ u # t) \/ (u = t /\ RunQ = r)
    BY <1>12, HandleAssumption
  <2>3. ASSUME NEW u \in Thread, u # t, u \in Alive, AsleepByTimer(u)
        PROVE  /\ td_timer'[u] = td_timer[u]
               /\ tn_callback'[td_timer[u]] = tn_callback[td_timer[u]]
               /\ tn_arg'[td_timer[u]] = tn_arg[td_timer[u]]
               /\ td_timer[u] \in ToSet(nutTimerList')
    <3>1. td_timer[u] \in ToSet(nutTimerList) /\ td_timer[u] # h
      BY <1>15, <2>3 DEF AsleepByTimer
    <3> QED BY <1>2, <1>13, <1>16, <2>3, <3>1
  <2>4. Moves(t, RunQ)
    BY <1>2, <1>3, <1>12, <1>13, <2>1, <2>2, <2>3, HandleAssumption DEF Moves
  <2> QED BY <1>12, <2>4, LinkedMove
<1>18. Timed'
  <2>1. cont[t] = "waited"
    BY <1>5, <1>12 DEF KInv, Timed
  <2>2. Releases(t, h)
    BY <1>2, <1>3, <1>9, <1>13, <1>15, <1>16, <2>1, HandleAssumption DEF Releases
  <2> QED BY <1>12, <2>2, TimedRelease
<1>19. Control'
  <2>1. \A u \in Thread : u \in Ready => u \in Ready'
    BY <1>12
  <2>2. Alive' = Alive /\ runningThread \in Thread /\ Idle \in Thread
    BY <1>3, HandleAssumption DEF KInv, TypeOK, Alive
  <2> QED BY <1>3, <2>1, <2>2 DEF KInv, Control, Broadcasting
<1> QED BY <1>12, <1>14, <1>17, <1>18, <1>19 DEF KInv

LEMMA ThreadWakeInv ==
    ASSUME KInv, NEW h \in Timer, NutThreadWake(h)
    PROVE  KInv'
<1> DEFINE t == tn_arg[h]
<1>1. TimerElapses(h) /\ tn_callback[h] = "NutThreadWake"
  BY DEF NutThreadWake
<1>2. /\ h \in ToSet(nutTimerList)
      /\ nutTimerList' \in Seq(Timer) /\ NoDup(nutTimerList')
      /\ ToSet(nutTimerList') = ToSet(nutTimerList) \ {h}
      /\ tn_left' \in [Timer -> Nat] /\ Ascending(nutTimerList', tn_left')
      /\ tn_callback' \in [Timer -> {"NutEventTimeout", "NutThreadWake", NULL}]
      /\ tn_arg' \in [Timer -> Queue \cup Thread \cup {NULL}]
      /\ \A x \in Timer : x # h => tn_callback'[x] = tn_callback[x] /\ tn_arg'[x] = tn_arg[x]
      /\ ticks_new' \in Nat
  BY <1>1, TimerElapsesFacts
<1>3. UNCHANGED <<threadVars, pend, pc, callVars, scan, histVars>> /\ pc = "elapsed"
  BY <1>1 DEF TimerElapses
<1>4. t \in Alive /\ t \in Thread /\ td_timer[t] = h /\ td_queue[t] = NULL /\ t \notin Ready
  <2>1. PICK w \in Alive : td_timer[w] = h
    BY <1>1, <1>2, HandleAssumption DEF KInv, Timed
  <2>2. w \in Thread
    BY KFacts
  <2>3. t = w /\ td_queue[w] = NULL
    BY <1>1, <2>1, <2>2 DEF KInv, Timed
  <2> QED BY <2>1, <2>2, <2>3, HandleAssumption DEF KInv, Linked
<1>5. /\ td_timer' = [td_timer EXCEPT ![t] = NULL]
      /\ td_qpec' = AddedQpec(runQueue, t, td_priority, td_qpec)
      /\ td_state' = [td_state EXCEPT ![t] = "READY"]
      /\ td_queue' = [td_queue EXCEPT ![t] = RunQ]
      /\ runQueue' = AddedList(runQueue, t, td_priority)
      /\ UNCHANGED queue
  BY DEF NutThreadWake, MakeReady
<1> HIDE DEF t
<1>6. Quiet(runQueue, td_qpec) /\ td_priority \in [Thread -> 0..255] /\ td_qpec \in [Thread -> Nat]
  BY KFacts DEF Quiet, KInv, TypeOK, Ready
<1>7. AddedList(runQueue, t, td_priority) \in Seq(Thread) /\ NoDup(AddedList(runQueue, t, td_priority))
  BY <1>4, <1>6, JoinReadyFacts
<1>8. \A u \in Thread : u \in Ready' <=> u \in Ready \/ u = t
  <2>1. \A u \in Thread : u \in ToSet(AddedList(runQueue, t, td_priority)) <=> u \in Ready \/ u = t
    BY <1>4, <1>6, JoinReadyFacts
  <2> QED BY <1>5, <2>1 DEF Ready
<1>9. td_qpec' = td_qpec
  <2>1. AddedQpec(runQueue, t, td_priority, td_qpec) = [td_qpec EXCEPT ![t] = 0]
    BY <1>4, <1>6, JoinReadyFacts
  <2>2. td_qpec[t] = 0
    BY <1>4, KFacts, HandleAssumption DEF KInv, PendingOnlyAtHead, Linked
  <2> QED BY <1>4, <1>5, <1>6, <2>1, <2>2
<1>10. /\ td_timer' \in [Thread -> Timer \cup {NULL, SIGNALED}]
       /\ td_timer'[t] = NULL /\ td_queue'[t] = RunQ
       /\ \A u \in Thread : u # t => td_timer'[u] = td_timer[u] /\ td_queue'[u] = td_queue[u]
       /\ \A u \in Thread : u # t => td_state'[u] = td_state[u]
       /\ td_state'[t] = "READY"
       /\ td_queue' \in [Thread -> Queue \cup {RunQ, NULL}]
       /\ td_state' \in [Thread -> {"RUNNING", "READY", "SLEEP"}]
  BY <1>4, <1>5 DEF KInv, TypeOK
<1>11. TypeOK'
  BY <1>2, <1>3, <1>5, <1>7, <1>9, <1>10 DEF KInv, TypeOK
<1>12. \A u \in Thread : u # t => td_timer[u] # h
  BY <1>4 DEF KInv, Timed
<1>13. ToSet(nutTimerList) \subseteq Timer
  BY KFacts
<1>14. Linked'
  <2>1. \A u \in Thread : u \in Ready' <=> (u \in Ready /\ u # t) \/ (u = t /\ RunQ = RunQ)
    BY <1>8, <1>4
  <2>2. \A r \in Queue : \A u \in Thread :
           u \in ToSet(queue'[r]) <=> (u \in ToSet(queue[r]) /\ u # t) \/ (u = t /\ RunQ = r)
    BY <1>4, <1>5, HandleAssumption DEF KInv, Linked
  <2>3. ASSUME NEW u \in Thread, u # t, u \in Alive, AsleepByTimer(u)
        PROVE  /\ td_timer'[u] = td_timer[u]
               /\ tn_callback'[td_timer[u]] = tn_callback[td_timer[u]]
               /\ tn_arg'[td_timer[u]] = tn_arg[td_timer[u]]
               /\ td_timer[u] \in ToSet(nutTimerList')
    <3>1. td_timer[u] \in ToSet(nutTimerList) /\ td_timer[u] # h
      BY <1>12, <2>3 DEF AsleepByTimer
    <3> QED BY <1>2, <1>10, <1>13, <2>3, <3>1
  <2>4. \A r \in Queue : NoDup(queue'[r])
    BY <1>5, KFacts
  <2>5. NoDup(runQueue')
    BY <1>5, <1>7
  <2>6. Moves(t, RunQ)
    BY <1>2, <1>3, <1>4, <1>5, <1>10, <2>1, <2>2, <2>3, <2>4, <2>5, HandleAssumption DEF Moves
  <2> QED BY <1>4, <2>6, LinkedMove
<1>15. PendingOnlyAtHead'
  <2>1. \A u \in Thread : td_qpec[u] > 0 => u # t
    BY <1>4, HandleAssumption DEF KInv, PendingOnlyAtHead
  <2> QED BY <1>5, <1>9, <1>10, <2>1 DEF KInv, PendingOnlyAtHead, Root
<1>16. Timed'
  <2>1. Releases(t, h)
    BY <1>2, <1>3, <1>4, <1>10, <1>12, <1>13, HandleAssumption DEF Releases
  <2> QED BY <1>4, <2>1, TimedRelease
<1>17. Control'
  <2>1. \A u \in Thread : u \in Ready => u \in Ready'
    BY <1>8
  <2>2. Alive' = Alive /\ runningThread \in Thread /\ Idle \in Thread
    BY <1>3, HandleAssumption DEF KInv, TypeOK, Alive
  <2> QED BY <1>3, <1>5, <2>1, <2>2 DEF KInv, Control, Broadcasting
<1> QED BY <1>11, <1>14, <1>15, <1>16, <1>17 DEF KInv

-----------------------------------------------------------------------------
(* A queue nobody waits on is marked or cleared.                            *)
LEMMA EmptyQueueStep ==
    ASSUME KInv, NEW q \in Queue, NEW v \in {<<>>, <<SIGNALED>>},
           queue[q] \in {<<>>, <<SIGNALED>>},
           queue' = [queue EXCEPT ![q] = v],
           UNCHANGED <<runQueue, nutThreadList, td_state, td_qpec, td_queue, td_timer,
                       nutTimerList, tn_callback, tn_arg>>
    PROVE  /\ queue' \in [Queue -> Seq(Thread) \cup {<<SIGNALED>>}]
           /\ Linked' /\ PendingOnlyAtHead'
<1>1. /\ queue' \in [Queue -> Seq(Thread) \cup {<<SIGNALED>>}]
      /\ queue'[q] = v /\ \A r \in Queue : r # q => queue'[r] = queue[r]
  BY ChainFacts DEF KInv, TypeOK, Chain
<1>2. /\ NoDup(v) /\ \A u \in Thread : u \notin ToSet(v)
      /\ \A u \in Thread : u \notin ToSet(queue[q])
  BY SingleFacts, EmptyFacts, ChainFacts
<1>3. \A r \in Queue : /\ NoDup(queue'[r])
                       /\ \A u \in Thread : u \in ToSet(queue'[r]) <=> u \in ToSet(queue[r])
  BY <1>1, <1>2 DEF KInv, Linked
<1>4. Linked'
  <2>1. Ready' = Ready /\ Alive' = Alive /\ \A u \in Thread : AsleepByTimer(u)' <=> AsleepByTimer(u)
    BY DEF Ready, Alive, AsleepByTimer
  <2>2. Alive \subseteq Thread
    BY KFacts
  <2> QED BY <1>3, <2>1, <2>2 DEF KInv, Linked
<1>5. PendingOnlyAtHead'
  <2> SUFFICES ASSUME NEW t \in Thread, td_qpec[t] > 0
               PROVE  td_queue[t] \in Queue /\ RootOf(queue'[td_queue[t]]) = t
    BY DEF PendingOnlyAtHead, Root
  <2>1. td_queue[t] \in Queue /\ RootOf(queue[td_queue[t]]) = t /\ t \in ToSet(queue[td_queue[t]])
    BY DEF KInv, PendingOnlyAtHead, Root, Linked
  <2>2. td_queue[t] # q
    BY <1>2, <2>1
  <2> QED BY <1>1, <2>1, <2>2
<1> QED BY <1>1, <1>4, <1>5

LEMMA PostMarkInv ==
    ASSUME KInv, PostMark
    PROVE  KInv'
<1> USE DEF PostMark, ReturnFromPost
<1>1. /\ qh \in Queue /\ queue[qh] \in {<<>>, <<SIGNALED>>}
      /\ ret \in {"app", "yield", "scan"} \cup Broadcasting
  BY DEF KInv, Control
<1>2. queue' \in [Queue -> Seq(Thread) \cup {<<SIGNALED>>}] /\ Linked' /\ PendingOnlyAtHead'
  BY <1>1, EmptyQueueStep
<1>3. TypeOK'
  BY <1>1, <1>2 DEF KInv, TypeOK, PCs, Broadcasting
<1>4. Timed'
  BY TimedStep DEF KInv
<1>5. Control'
  BY <1>1 DEF KInv, Control, Root, Ready, Alive, Broadcasting
<1> QED BY <1>2, <1>3, <1>4, <1>5 DEF KInv

LEMMA BroadcastInv ==
    ASSUME KInv, NEW c, NEW q \in Queue, NEW r \in Broadcasting, NutEventBroadcast(c, q, r)
    PROVE  KInv'
<1>1. /\ pc = "app" /\ runningThread # Idle
      /\ UNCHANGED <<threadVars, runQueue, td_state, td_qpec, td_timer, td_queue,
                     timerVars, pend, loopVars, histVars>>
  BY DEF NutEventBroadcast, AppCalls
<1>2. CASE Root(q) \in Thread
  <2>1. CallPost(q, r) /\ UNCHANGED queue
    BY <1>2 DEF NutEventBroadcast
  <2>2. /\ qh' = q /\ ms' = ms /\ ret' = r /\ pc' = "post"
        /\ root' \in Thread \cup {NULL, SIGNALED} /\ root' = RootOf(queue[q])
        /\ root' = SIGNALED => queue[q] = <<SIGNALED>>
        /\ root' = NULL => queue[q] = <<>>
    BY <2>1, CallPostFacts
  <2>3. TypeOK'
    BY <1>1, <2>1, <2>2 DEF KInv, TypeOK, PCs
  <2>4. Linked' /\ PendingOnlyAtHead' /\ Timed'
    BY <1>1, <2>1, <2>2, LinkedStep, PendingStep, TimedStep DEF KInv
  <2>5. Control'
    BY <1>1, <2>1, <2>2 DEF KInv, Control, Root, Ready, Alive, Broadcasting
  <2> QED BY <2>3, <2>4, <2>5 DEF KInv
<1>3. CASE Root(q) \notin Thread
  <2>1. queue[q] \in Chain
    BY KFacts
  <2>2. queue[q] \in {<<>>, <<SIGNALED>>}
    BY <1>3, <2>1, RootFacts DEF Root
  <2>3. queue' = [queue EXCEPT ![q] = <<>>] /\ UNCHANGED callVars
        /\ pc' = IF r = "bcast" THEN "yield" ELSE "app"
    BY <1>3 DEF NutEventBroadcast
  <2>4. queue' \in [Queue -> Seq(Thread) \cup {<<SIGNALED>>}] /\ Linked' /\ PendingOnlyAtHead'
    BY <1>1, <2>2, <2>3, EmptyQueueStep
  <2>5. TypeOK'
    BY <1>1, <2>3, <2>4 DEF KInv, TypeOK, PCs
  <2>6. Timed'
    BY <1>1, <2>3, TimedStep DEF KInv
  <2>7. Control'
    BY <1>1, <2>3 DEF KInv, Control, Root, Ready, Alive, Broadcasting
  <2> QED BY <2>4, <2>5, <2>6, <2>7 DEF KInv
<1> QED BY <1>2, <1>3

LEMMA BroadcastNextInv ==
    ASSUME KInv, BroadcastNext
    PROVE  KInv'
<1>1. /\ pc \in Broadcasting /\ qh \in Queue /\ ret \in Broadcasting
      /\ UNCHANGED <<threadVars, queueVars, td_timer, timerVars, pend, loopVars, histVars>>
  BY DEF KInv, Control, BroadcastNext
<1>2. Linked' /\ PendingOnlyAtHead'
  BY <1>1, LinkedStep, PendingStep DEF KInv
<1>3. Timed'
  BY <1>1, TimedStep DEF KInv, Broadcasting
<1>4. CASE Root(qh) \in Thread
  <2>1. CallPost(qh, ret)
    BY <1>4 DEF BroadcastNext
  <2>2. /\ qh' = qh /\ ms' = ms /\ ret' = ret /\ pc' = "post"
        /\ root' \in Thread \cup {NULL, SIGNALED} /\ root' = RootOf(queue[qh])
        /\ root' = SIGNALED => queue[qh] = <<SIGNALED>>
        /\ root' = NULL => queue[qh] = <<>>
    BY <1>1, <2>1, CallPostFacts
  <2>3. TypeOK'
    BY <1>1, <2>2 DEF KInv, TypeOK, PCs
  <2>4. Control'
    BY <1>1, <2>2 DEF KInv, Control, Root, Ready, Alive, Broadcasting
  <2> QED BY <1>2, <1>3, <2>3, <2>4 DEF KInv
<1>5. CASE Root(qh) \notin Thread
  <2>1. /\ pc' = IF ret = "bcast" THEN "yield" ELSE "app"
        /\ qh' = NULL /\ ret' = NULL /\ UNCHANGED <<root, ms>>
    BY <1>5 DEF BroadcastNext
  <2>2. TypeOK'
    BY <1>1, <2>1 DEF KInv, TypeOK, PCs
  <2>3. Control'
    BY <1>1, <2>1 DEF KInv, Control, Root, Ready, Alive, Broadcasting
  <2> QED BY <1>2, <1>3, <2>2, <2>3 DEF KInv
<1> QED BY <1>4, <1>5

-----------------------------------------------------------------------------
(* Giving up the CPU.                                                       *)
LEMMA YieldCallInv ==
    ASSUME KInv, YieldCall
    PROVE  KInv'
<1> USE DEF YieldCall, AppCalls
<1>1. TypeOK'
  BY DEF KInv, TypeOK, PCs
<1>2. Linked' /\ PendingOnlyAtHead' /\ Timed'
  BY LinkedStep, PendingStep, TimedStep DEF KInv
<1>3. Control'
  BY DEF KInv, Control, Root, Ready, Alive, Broadcasting
<1> QED BY <1>1, <1>2, <1>3 DEF KInv

(***************************************************************************)
(* The running thread is put into the run queue anew, where it was before:  *)
(* the lists hold the same threads.                                         *)
(***************************************************************************)
LEMMA RequeueLinked ==
    ASSUME KInv, NEW t \in Ready, NEW prio \in [Thread -> 0..255],
           runQueue' = Requeued(t, prio),
           td_qpec' = AddedQpec(Unlink(runQueue, t), t, prio, td_qpec),
           td_queue' = [td_queue EXCEPT ![t] = RunQ],
           UNCHANGED <<nutThreadList, queue, td_timer, nutTimerList, tn_callback, tn_arg>>,
           \A u \in Alive : td_state'[u] = "SLEEP" <=> td_state[u] = "SLEEP"
    PROVE  /\ runQueue' \in Seq(Thread) /\ td_qpec' = td_qpec /\ td_queue' = td_queue
           /\ \A u \in Thread : u \in Ready' <=> u \in Ready
           /\ Linked' /\ PendingOnlyAtHead'
<1>1. t \in Thread /\ Alive \subseteq Thread
  BY KFacts
<1>2. Requeued(t, prio) \in Seq(Thread) /\ NoDup(Requeued(t, prio))
  BY RequeuedFacts
<1>3. \A u \in Thread : u \in ToSet(Requeued(t, prio)) <=> u \in Ready
  BY RequeuedFacts
<1>4. AddedQpec(Unlink(runQueue, t), t, prio, td_qpec) = td_qpec
  BY RequeuedFacts
<1>5. td_queue' = td_queue
  BY <1>1 DEF KInv, TypeOK, Linked
<1>6. \A u \in Thread : u \in Ready' <=> u \in Ready
  BY <1>3 DEF Ready
<1>7. Linked'
  <2>1. Alive' = Alive /\ \A u \in Thread : AsleepByTimer(u)' <=> AsleepByTimer(u)
    BY <1>5 DEF Alive, AsleepByTimer
  <2>2. NoDup(runQueue')
    BY <1>2
  <2> QED BY <1>1, <1>5, <1>6, <2>1, <2>2 DEF KInv, Linked
<1>8. PendingOnlyAtHead'
  BY <1>4, <1>5, PendingStep DEF KInv
<1> QED BY <1>2, <1>4, <1>5, <1>6, <1>7, <1>8

LEMMA ThreadYieldInv ==
    ASSUME KInv, NutThreadYield
    PROVE  KInv'
<1>1. /\ runningThread \in Ready /\ runningThread \in Thread
      /\ td_queue[runningThread] = RunQ /\ pc = "yield"
      /\ td_timer[runningThread] # SIGNALED
      /\ td_priority \in [Thread -> 0..255]
  BY KFacts DEF KInv, Control, TypeOK, Linked, Timed, NutThreadYield, Broadcasting
<1>2. /\ pc' = "scan" /\ scan' = 1
      /\ cont' = [cont EXCEPT ![runningThread] = IF runningThread = Idle THEN "destroy" ELSE "app"]
      /\ UNCHANGED <<threadVars, queue, td_state, td_timer, timerVars, pend, callVars, ticks_new, owed>>
  BY DEF NutThreadYield
<1>3. /\ runQueue' \in Seq(Thread) /\ td_qpec' = td_qpec /\ td_queue' = td_queue
      /\ \A u \in Thread : u \in Ready' <=> u \in Ready
      /\ Linked' /\ PendingOnlyAtHead'
  <2>1. CASE UNCHANGED <<runQueue, td_qpec, td_queue>>
    <3>1. Linked' /\ PendingOnlyAtHead'
      BY <1>2, <2>1, LinkedStep, PendingStep DEF KInv
    <3> QED BY <2>1, <3>1 DEF KInv, TypeOK, Ready
  <2>2. CASE /\ runQueue' = Requeued(runningThread, td_priority)
             /\ td_qpec' = AddedQpec(Unlink(runQueue, runningThread), runningThread,
                                     td_priority, td_qpec)
             /\ td_queue' = [td_queue EXCEPT ![runningThread] = RunQ]
    <3>1. \A u \in Alive : td_state'[u] = "SLEEP" <=> td_state[u] = "SLEEP"
      BY <1>2
    <3> QED BY <1>1, <1>2, <2>2, <3>1, RequeueLinked
  <2> QED BY <2>1, <2>2 DEF NutThreadYield
<1>4. TypeOK'
  BY <1>1, <1>2, <1>3 DEF KInv, TypeOK, PCs
<1>5. Timed'
  <2>1. Alive' = Alive
    BY <1>2 DEF Alive
  <2>2. \A u \in Thread : u # runningThread => cont'[u] = cont[u]
    BY <1>2 DEF KInv, TypeOK
  <2> QED BY <1>1, <1>2, <1>3, <2>1, <2>2, HandleAssumption DEF KInv, Timed
<1>6. Control'
  <2>1. Alive' = Alive /\ Idle \in Thread
    BY <1>2, HandleAssumption DEF Alive
  <2> QED BY <1>1, <1>2, <1>3, <2>1 DEF KInv, Control, Broadcasting
<1> QED BY <1>3, <1>4, <1>5, <1>6 DEF KInv

-----------------------------------------------------------------------------
(* NutThreadResume() and NutTimerProcessElapsed().                          *)
LEMMA ScanSkipInv ==
    ASSUME KInv, ScanSkip
    PROVE  KInv'
<1> USE DEF ScanSkip
<1>1. TypeOK'
  BY SMTT(60) DEF KInv, TypeOK
<1>2. Linked' /\ PendingOnlyAtHead' /\ Timed'
  BY LinkedStep, PendingStep, TimedStep DEF KInv
<1>3. Control'
  BY DEF KInv, TypeOK, Control, Root, Ready, Alive, Broadcasting
<1> QED BY <1>1, <1>2, <1>3 DEF KInv

LEMMA ScanPostInv ==
    ASSUME KInv, ScanPost
    PROVE  KInv'
<1> DEFINE td == nutThreadList[scan]
           q == td_queue[td]
<1>1. /\ pc = "scan" /\ scan <= Len(nutThreadList) /\ td_qpec[td] > 0
      /\ td_qpec' = [td_qpec EXCEPT ![td] = td_qpec[td] - 1]
      /\ CallPost(q, "scan") /\ scan' = scan + 1
      /\ UNCHANGED <<threadVars, runQueue, queue, td_state, td_timer, td_queue,
                     timerVars, pend, ticks_new, histVars>>
  BY DEF ScanPost
<1>2. td \in Thread
  <2>1. nutThreadList \in Seq(Thread) /\ scan \in Nat /\ scan >= 1
    BY <1>1 DEF KInv, TypeOK, Control
  <2>2. scan \in 1..Len(nutThreadList)
    BY <1>1, <2>1, LenProperties
  <2> QED BY <2>1, <2>2, ElementOfSeq
<1> HIDE DEF td
<1>3. q \in Queue
  BY <1>1, <1>2 DEF KInv, PendingOnlyAtHead
<1> HIDE DEF q
<1>4. /\ qh' = q /\ ms' = ms /\ ret' = "scan" /\ pc' = "post"
      /\ root' \in Thread \cup {NULL, SIGNALED} /\ root' = RootOf(queue[q])
      /\ root' = SIGNALED => queue[q] = <<SIGNALED>>
      /\ root' = NULL => queue[q] = <<>>
  BY <1>1, <1>3, CallPostFacts
<1>5. td_qpec' \in [Thread -> Nat] /\ \A u \in Thread : td_qpec'[u] > 0 => td_qpec[u] > 0
  BY <1>1, <1>2 DEF KInv, TypeOK
<1>6. TypeOK'
  <2>1. /\ scan' \in Nat
        /\ UNCHANGED <<threadVars, runQueue, queue, td_state, td_timer, td_queue,
                       timerVars, pend, ticks_new, histVars>>
    BY <1>1 DEF KInv, TypeOK
  <2>2. qh' \in Queue \cup {NULL} /\ ms' \in Delay \cup {0} /\ pc' \in PCs
        /\ ret' \in {"app", "yield", "scan", NULL} \cup Broadcasting
    BY <1>3, <1>4 DEF KInv, TypeOK, PCs
  <2> QED BY <1>4, <1>5, <2>1, <2>2 DEF KInv, TypeOK
<1>7. Linked'
  BY <1>1, LinkedStep DEF KInv
<1>8. PendingOnlyAtHead'
  BY <1>1, <1>5 DEF KInv, PendingOnlyAtHead, Root
<1>9. Timed'
  BY <1>1, <1>4, TimedStep DEF KInv
<1>10. Control'
  BY <1>1, <1>3, <1>4 DEF KInv, TypeOK, Control, Root, Ready, Alive, Broadcasting
<1> QED BY <1>6, <1>7, <1>8, <1>9, <1>10 DEF KInv

LEMMA ScanDoneInv ==
    ASSUME KInv, ScanDone
    PROVE  KInv'
<1> USE DEF ScanDone
<1>1. TypeOK'
  BY DEF KInv, TypeOK, PCs
<1>2. Linked' /\ PendingOnlyAtHead' /\ Timed'
  BY LinkedStep, PendingStep, TimedStep DEF KInv
<1>3. Control'
  BY DEF KInv, Control, Root, Ready, Alive, Broadcasting
<1> QED BY <1>1, <1>2, <1>3 DEF KInv

LEMMA TimerAdvanceInv ==
    ASSUME KInv, TimerAdvance
    PROVE  KInv'
<1> DEFINE s == nutTimerList
<1>1. /\ s \in Seq(Timer) /\ s # <<>> /\ Ascending(s, tn_left) /\ tn_left \in [Timer -> Nat]
      /\ ticks_new \in Nat /\ ticks_new < tn_left[Head(s)] /\ pc = "elapsed"
      /\ tn_left' = [h \in Timer |-> IF IsIn(s, h) THEN tn_left[h] - ticks_new ELSE 0]
      /\ ticks_new' = 0
      /\ UNCHANGED <<threadVars, queueVars, td_timer, nutTimerList, tn_callback,
                     tn_arg, pend, pc, callVars, scan, histVars>>
  BY DEF KInv, TypeOK, Timed, TimerAdvance
<1>2. Len(s) \in Nat /\ 1 \in 1..Len(s) /\ Head(s) = s[1]
  BY <1>1, TailFacts, EmptySeq, LenProperties
<1>3. \A j \in 1..Len(s) : s[j] \in Timer /\ IsIn(s, s[j]) /\ tn_left[s[1]] <= tn_left[s[j]]
  <2> SUFFICES ASSUME NEW j \in 1..Len(s)
               PROVE  s[j] \in Timer /\ IsIn(s, s[j]) /\ tn_left[s[1]] <= tn_left[s[j]]
    OBVIOUS
  <2>1. s[j] \in Timer /\ s[1] \in Timer /\ IsIn(s, s[j])
    BY <1>1, <1>2, ElementOfSeq DEF IsIn
  <2>2. CASE j = 1
    BY <1>1, <2>1, <2>2
  <2>3. CASE j # 1
    BY <1>1, <1>2, <2>1, <2>3 DEF Ascending
  <2> QED BY <2>2, <2>3
<1> HIDE DEF s
<1>4. \A h \in Timer : IsIn(s, h) => ticks_new <= tn_left[h]
  <2> SUFFICES ASSUME NEW j \in 1..Len(s)
               PROVE  ticks_new <= tn_left[s[j]]
    BY DEF IsIn
  <2>1. s[j] \in Timer /\ s[1] \in Timer /\ tn_left[s[1]] <= tn_left[s[j]]
    BY <1>2, <1>3
  <2> QED BY <1>1, <1>2, <2>1
<1>5. tn_left' \in [Timer -> Nat]
  BY <1>1, <1>4
<1>6. Ascending(s, tn_left')
  <2> SUFFICES ASSUME NEW i \in 1..Len(s), NEW j \in 1..Len(s), i < j
               PROVE  tn_left'[s[i]] <= tn_left'[s[j]]
    BY DEF Ascending
  <2>1. tn_left[s[i]] <= tn_left[s[j]]
    BY <1>1 DEF Ascending
  <2>2. /\ tn_left'[s[i]] = tn_left[s[i]] - ticks_new
        /\ tn_left'[s[j]] = tn_left[s[j]] - ticks_new
        /\ tn_left[s[i]] \in Nat /\ tn_left[s[j]] \in Nat
    BY <1>1, <1>3
  <2> QED BY <1>1, <2>1, <2>2
<1>7. TypeOK'
  BY <1>1, <1>5 DEF KInv, TypeOK
<1>8. Linked' /\ PendingOnlyAtHead'
  BY <1>1, LinkedStep, PendingStep DEF KInv
<1>9. Timed'
  <2>1. Ascending(nutTimerList, tn_left')
    BY <1>6 DEF s
  <2> QED BY <1>1, <2>1 DEF KInv, Timed, Alive
<1>10. Control'
  BY <1>1 DEF KInv, Control, Root, Ready, Alive, Broadcasting
<1> QED BY <1>7, <1>8, <1>9, <1>10 DEF KInv

LEMMA ElapsedDoneInv ==
    ASSUME KInv, ElapsedDone
    PROVE  KInv'
<1> USE DEF ElapsedDone
<1>1. TypeOK'
  BY DEF KInv, TypeOK, PCs
<1>2. Linked' /\ PendingOnlyAtHead' /\ Timed'
  BY LinkedStep, PendingStep, TimedStep DEF KInv
<1>3. Control'
  BY DEF KInv, Control, Root, Ready, Alive, Broadcasting
<1> QED BY <1>1, <1>2, <1>3 DEF KInv

LEMMA ThreadSwitchInv ==
    ASSUME KInv, NutThreadSwitch
    PROVE  KInv'
<1> DEFINE next == Head(runQueue)
<1>1. /\ pc = "switch" /\ runningThread' = next /\ pc' = cont[next]
      /\ td_state' = IF next = runningThread THEN td_state
                     ELSE [td_state EXCEPT ![runningThread] = IF @ = "RUNNING" THEN "READY" ELSE @,
                                           ![next] = "RUNNING"]
      /\ UNCHANGED <<killedThread, nutThreadList, td_priority, runQueue, queue,
                     td_qpec, td_timer, td_queue, timerVars, pend, callVars,
                     loopVars, histVars>>
  BY DEF NutThreadSwitch
<1>2. next \in Thread /\ next \in Ready /\ next \in Alive /\ td_queue[next] = RunQ
  <2>1. runQueue \in Seq(Thread) /\ runQueue # <<>>
    <3>1. Idle \in ToSet(runQueue)
      BY DEF KInv, Control, Ready
    <3> QED BY <3>1, EmptyFacts DEF KInv, TypeOK
  <2>2. next \in Thread /\ next \in Ready
    BY <2>1, TailFacts DEF Ready
  <2> QED BY <2>2, KFacts DEF KInv, Linked
<1> HIDE DEF next
<1>3. /\ td_state' \in [Thread -> {"RUNNING", "READY", "SLEEP"}]
      /\ \A u \in Thread : u # next => (td_state'[u] = "SLEEP" <=> td_state[u] = "SLEEP")
      /\ td_state'[next] # "SLEEP"
  <2>1. td_state[next] # "SLEEP" /\ td_state \in [Thread -> {"RUNNING", "READY", "SLEEP"}]
        /\ runningThread \in Thread
    BY <1>2 DEF KInv, Linked, TypeOK
  <2>2. CASE next = runningThread
    BY <1>1, <1>2, <2>1, <2>2
  <2>3. CASE next # runningThread
    BY <1>1, <1>2, <2>1, <2>3
  <2> QED BY <2>2, <2>3
<1>4. cont[next] \in {"app", "waited", "destroy"}
  BY <1>2 DEF KInv, TypeOK
<1>5. TypeOK'
  BY <1>1, <1>2, <1>3, <1>4, ZenonT(60) DEF KInv, TypeOK, PCs
<1>6. Linked'
  <2>1. Ready' = Ready /\ Alive' = Alive /\ \A u \in Thread : AsleepByTimer(u)' <=> AsleepByTimer(u)
    BY <1>1 DEF Ready, Alive, AsleepByTimer
  <2>2. Alive \subseteq Thread
    BY KFacts
  <2> QED BY <1>1, <1>2, <1>3, <2>1, <2>2 DEF KInv, Linked
<1>7. PendingOnlyAtHead'
  BY <1>1, PendingStep DEF KInv
<1>8. Timed'
  <2>1. Alive' = Alive
    BY <1>1 DEF Alive
  <2>2. ASSUME NEW u \in Thread, td_timer[u] = SIGNALED
        PROVE  /\ td_queue[u] = RunQ /\ cont[u] = "waited"
               /\ u = runningThread' => pc' \in {"elapsed", "switch", "waited"}
    BY <1>1, <2>2 DEF KInv, Timed
  <2> QED BY <1>1, <2>1, <2>2 DEF KInv, Timed
<1>9. Control'
  BY <1>1, <1>2, <1>4 DEF KInv, Control, Root, Ready, Alive, Broadcasting
<1> QED BY <1>5, <1>6, <1>7, <1>8, <1>9 DEF KInv

-----------------------------------------------------------------------------
(* Sleeping.                                                                *)
LEMMA SleepInv ==
    ASSUME KInv, NEW d \in Delay, NutSleep(d)
    PROVE  KInv'
<1> DEFINE t == runningThread
<1>1. /\ pc = "app" /\ t \in Thread /\ t \in Ready /\ t \in Alive /\ t # Idle
      /\ td_queue[t] = RunQ /\ td_timer[t] \notin Timer
  <2>1. pc = "app" /\ t \in Thread /\ t \in Ready /\ t \in Alive /\ t # Idle
    BY DEF KInv, TypeOK, Control, NutSleep, AppCalls, Broadcasting
  <2>2. td_queue[t] = RunQ
    BY <2>1 DEF KInv, Linked
  <2> QED BY <2>1, <2>2 DEF KInv, Timed
<1>2. /\ runQueue' \in Seq(Thread) /\ NoDup(runQueue') /\ ToSet(runQueue') = Ready \ {t}
  BY UnlinkFacts DEF KInv, TypeOK, Linked, NutSleep, Ready
<1>3. /\ td_queue' = [td_queue EXCEPT ![t] = NULL]
      /\ td_state' = [td_state EXCEPT ![t] = "SLEEP"]
      /\ owed' = [owed EXCEPT ![t] = d] /\ cont' = [cont EXCEPT ![t] = "app"]
      /\ pc' = "scan" /\ scan' = 1
      /\ UNCHANGED <<threadVars, queue, td_qpec, pend, callVars, ticks_new>>
  BY DEF NutSleep
<1>4. PICK h \in Timer :
         /\ h \notin ToSet(nutTimerList)
         /\ nutTimerList' \in Seq(Timer) /\ NoDup(nutTimerList')
         /\ ToSet(nutTimerList') = ToSet(nutTimerList) \cup {h}
         /\ tn_left' \in [Timer -> Nat] /\ Ascending(nutTimerList', tn_left')
         /\ tn_callback' = [tn_callback EXCEPT ![h] = "NutThreadWake"]
         /\ tn_arg' = [tn_arg EXCEPT ![h] = t]
         /\ td_timer' = [td_timer EXCEPT ![t] = h]
  <2>1. d \in Nat /\ NutTimerStart(t, d, "NutThreadWake", t)
    BY DelayAssumption DEF NutSleep
  <2> QED BY <1>1, <2>1, TimerStartFacts
<1>5. TypeOK'
  <2>1. d \in Nat
    BY DelayAssumption
  <2> QED BY <1>1, <1>2, <1>3, <1>4, <2>1 DEF KInv, TypeOK, PCs
<1>6. /\ tn_callback'[h] = "NutThreadWake" /\ tn_arg'[h] = t /\ td_timer'[t] = h
      /\ td_queue'[t] = NULL /\ cont'[t] = "app" /\ td_state'[t] = "SLEEP"
      /\ \A u \in Thread : u # t => /\ td_timer'[u] = td_timer[u] /\ td_queue'[u] = td_queue[u]
                                    /\ cont'[u] = cont[u] /\ td_state'[u] = td_state[u]
      /\ \A x \in Timer : x # h => tn_callback'[x] = tn_callback[x] /\ tn_arg'[x] = tn_arg[x]
  BY <1>1, <1>3, <1>4 DEF KInv, TypeOK
<1>7. ToSet(nutTimerList) \subseteq Timer /\ Alive \subseteq Thread /\ Alive' = Alive
  BY <1>3, KFacts DEF Alive
<1> HIDE DEF t
<1>8. Linked'
  <2>1. \A u \in Thread : u \in Ready' <=> (u \in Ready /\ u # t) \/ (u = t /\ NULL = RunQ)
    BY <1>1, <1>2, HandleAssumption DEF Ready
  <2>2. \A r \in Queue : \A u \in Thread :
           u \in ToSet(queue'[r]) <=> (u \in ToSet(queue[r]) /\ u # t) \/ (u = t /\ NULL = r)
    BY <1>1, <1>3, HandleAssumption DEF KInv, Linked
  <2>3. \A r \in Queue : NoDup(queue'[r])
    BY <1>3, KFacts
  <2>4. ASSUME NEW u \in Thread, u # t, AsleepByTimer(u)
        PROVE  /\ td_timer'[u] = td_timer[u]
               /\ tn_callback'[td_timer[u]] = tn_callback[td_timer[u]]
               /\ tn_arg'[td_timer[u]] = tn_arg[td_timer[u]]
               /\ td_timer[u] \in ToSet(nutTimerList')
    BY <1>4, <1>6, <1>7, <2>4 DEF AsleepByTimer
  <2>5. AsleepByTimer(t)'
    BY <1>1, <1>3, <1>4, <1>6 DEF AsleepByTimer, t
  <2>6. Moves(t, NULL)
    BY <1>1, <1>2, <1>3, <1>4, <1>6, <2>1, <2>2, <2>3, <2>4, <2>5, HandleAssumption DEF Moves
  <2> QED BY <1>1, <2>6, LinkedMove
<1>9. PendingOnlyAtHead'
  <2>1. \A u \in Thread : td_qpec[u] > 0 => u # t
    BY <1>1, HandleAssumption DEF KInv, PendingOnlyAtHead
  <2> QED BY <1>3, <1>6, <2>1 DEF KInv, PendingOnlyAtHead, Root
<1>10. Timed'
  <2>1. \A x \in ToSet(nutTimerList') : tn_callback'[x] # NULL => \E u \in Alive' : td_timer'[u] = x
    <3> SUFFICES ASSUME NEW x \in ToSet(nutTimerList'), tn_callback'[x] # NULL
                 PROVE  \E u \in Alive : td_timer'[u] = x
      BY <1>7
    <3>1. CASE x = h
      BY <1>1, <1>6, <3>1
    <3>2. CASE x # h
      <4>1. x \in ToSet(nutTimerList) /\ x \in Timer
        BY <1>4, <1>7, <3>2
      <4>2. PICK u \in Alive : td_timer[u] = x
        BY <1>6, <3>2, <4>1 DEF KInv, Timed
      <4>3. u \in Thread /\ u # t
        BY <1>1, <1>7, <4>1, <4>2
      <4> QED BY <1>6, <4>2, <4>3
    <3> QED BY <3>1, <3>2
  <2>2. ASSUME NEW u \in Thread, td_timer'[u] \in Timer
        PROVE  LET x == td_timer'[u] IN
               /\ u \in Alive' /\ td_queue'[u] # RunQ
               /\ x \in ToSet(nutTimerList')
               /\ \/ tn_callback'[x] = "NutThreadWake" /\ tn_arg'[x] = u /\ td_queue'[u] = NULL
                  \/ tn_callback'[x] = "NutEventTimeout" /\ tn_arg'[x] = td_queue'[u] /\ td_queue'[u] \in Queue
               /\ \A v \in Thread \ {u} : td_timer'[v] # x
    <3>1. CASE u = t
      <4>1. \A v \in Thread \ {t} : td_timer'[v] # h
        BY <1>4, <1>6 DEF KInv, Timed
      <4> QED BY <1>1, <1>4, <1>6, <1>7, <3>1, <4>1, HandleAssumption
    <3>2. CASE u # t
      <4>1. td_timer[u] \in ToSet(nutTimerList) /\ td_timer[u] # h /\ td_timer[u] \in Timer
        BY <1>4, <1>6, <2>2, <3>2 DEF KInv, Timed
      <4>2. \A v \in Thread \ {u} : td_timer'[v] # td_timer[u]
        BY <1>6, <4>1 DEF KInv, Timed
      <4> QED BY SMTT(60), <1>4, <1>6, <1>7, <3>2, <4>1, <4>2 DEF KInv, Timed
    <3> QED BY <3>1, <3>2
  <2>3. ASSUME NEW u \in Thread, td_timer'[u] = SIGNALED
        PROVE  /\ td_queue'[u] = RunQ /\ cont'[u] = "waited"
               /\ u = runningThread' => pc' \in {"elapsed", "switch", "waited"}
    <3>1. u # t
      BY <1>6, <2>3, HandleAssumption
    <3> QED BY <1>3, <1>6, <2>3, <3>1 DEF KInv, Timed, t
  <2>4. \A u \in Thread : td_queue'[u] \in Queue => cont'[u] = "waited"
    BY <1>6, HandleAssumption DEF KInv, Timed
  <2> QED BY <1>4, <2>1, <2>2, <2>3, <2>4 DEF Timed
<1>11. Control'
  <2>1. Idle \in Ready'
    BY <1>1, <1>2 DEF KInv, Control, Ready
  <2> QED BY <1>1, <1>3, <1>7, <2>1 DEF KInv, Control, Broadcasting, t
<1> QED BY <1>5, <1>8, <1>9, <1>10, <1>11 DEF KInv

LEMMA SleepFailsInv ==
    ASSUME KInv, SleepFails
    PROVE  KInv'
<1> DEFINE t == runningThread
<1>1. /\ pc = "app" /\ t \in Thread /\ t \in Ready /\ t \in Alive
      /\ td_queue[t] = RunQ /\ td_state \in [Thread -> {"RUNNING", "READY", "SLEEP"}]
      /\ runQueue \in Seq(Thread) /\ NoDup(runQueue)
  BY DEF KInv, TypeOK, Control, Linked, SleepFails, AppCalls, Broadcasting
<1>2. /\ runQueue' = <<t>> \o Unlink(runQueue, t)
      /\ td_queue' = [td_queue EXCEPT ![t] = RunQ]
      /\ td_state' = [td_state EXCEPT ![t] = "RUNNING"]
      /\ td_timer' = [td_timer EXCEPT ![t] = NULL]
      /\ UNCHANGED <<threadVars, queue, td_qpec, timerVars, pend, pc, callVars, loopVars, histVars>>
  BY DEF SleepFails
<1> HIDE DEF t
<1>3. runQueue' \in Seq(Thread) /\ NoDup(runQueue') /\ Ready' = Ready
  <2> DEFINE s == Unlink(runQueue, t)
  <2>1. s \in Seq(Thread) /\ NoDup(s) /\ ToSet(s) = Ready \ {t}
    BY <1>1, UnlinkFacts DEF Ready
  <2> HIDE DEF s
  <2>2. <<t>> \o s \in Seq(Thread) /\ ToSet(<<t>> \o s) = ToSet(s) \cup {t} /\ NoDup(<<t>> \o s)
    BY <1>1, <2>1, ConsFacts
  <2>3. runQueue' = <<t>> \o s
    BY <1>2 DEF s
  <2> QED BY <1>1, <2>1, <2>2, <2>3 DEF Ready
<1>4. /\ td_queue' = td_queue /\ td_timer'[t] = NULL /\ td_state'[t] = "RUNNING"
      /\ td_timer' \in [Thread -> Timer \cup {NULL, SIGNALED}]
      /\ td_state' \in [Thread -> {"RUNNING", "READY", "SLEEP"}]
      /\ \A u \in Thread : u # t => td_timer'[u] = td_timer[u] /\ td_state'[u] = td_state[u]
  BY <1>1, <1>2 DEF KInv, TypeOK
<1>5. TypeOK'
  BY <1>2, <1>3, <1>4 DEF KInv, TypeOK
<1>6. Alive' = Alive /\ Alive \subseteq Thread
  BY <1>2, KFacts DEF Alive
<1>7. Linked'
  <2>1. \A u \in Thread : AsleepByTimer(u) => AsleepByTimer(u)'
    BY <1>1, <1>2, <1>4, HandleAssumption DEF AsleepByTimer
  <2> QED BY <1>1, <1>2, <1>3, <1>4, <1>6, <2>1 DEF KInv, Linked
<1>8. PendingOnlyAtHead'
  BY <1>2, <1>4, PendingStep DEF KInv
<1>9. Timed'
  <2>1. td_timer[t] \notin Timer
    BY <1>1 DEF KInv, Timed
  <2>2. ToSet(nutTimerList) \subseteq Timer
    BY KFacts
  <2>3. NULL \notin Timer /\ NULL # SIGNALED
    BY HandleAssumption
  <2>4. \A x \in ToSet(nutTimerList') : tn_callback'[x] # NULL => \E u \in Alive' : td_timer'[u] = x
    <3> SUFFICES ASSUME NEW x \in ToSet(nutTimerList), tn_callback[x] # NULL
                 PROVE  \E u \in Alive : td_timer'[u] = x
      BY <1>2, <1>6
    <3>1. PICK u \in Alive : td_timer[u] = x
      BY DEF KInv, Timed
    <3> QED BY <1>4, <1>6, <2>1, <2>2, <3>1
  <2> QED BY <1>2, <1>4, <1>6, <2>1, <2>3, <2>4 DEF KInv, Timed
<1>10. Control'
  BY <1>2, <1>3, <1>6 DEF KInv, Control, Root, Broadcasting
<1> QED BY <1>5, <1>7, <1>8, <1>9, <1>10 DEF KInv

-----------------------------------------------------------------------------
(* Threads come, change their priority and go.                              *)
LEMMA SetPriorityInv ==
    ASSUME KInv, NEW level \in Priority, NutThreadSetPriority(level)
    PROVE  KInv'
<1> DEFINE t == runningThread
           prio == [td_priority EXCEPT ![t] = level]
<1>1. /\ pc = "app" /\ t \in Thread /\ t \in Ready /\ t \in Alive /\ t # Idle
      /\ td_queue[t] = RunQ /\ td_timer[t] # SIGNALED /\ td_state[t] # "SLEEP"
  BY KFacts DEF KInv, TypeOK, Control, Linked, Timed, NutThreadSetPriority, AppCalls, Broadcasting
<1>2. prio \in [Thread -> 0..255]
  BY LevelAssumption DEF KInv, TypeOK
<1>3. /\ td_priority' = prio
      /\ runQueue' = Requeued(t, prio)
      /\ td_qpec' = AddedQpec(Unlink(runQueue, t), t, prio, td_qpec)
      /\ td_queue' = [td_queue EXCEPT ![t] = RunQ]
      /\ \E v \in {"RUNNING", "READY"} : td_state' = [td_state EXCEPT ![t] = v]
      /\ cont' = [cont EXCEPT ![t] = "app"]
      /\ pc' = "switch"
      /\ UNCHANGED <<runningThread, killedThread, nutThreadList, queue, td_timer,
                     timerVars, pend, callVars, loopVars, owed>>
  BY DEF NutThreadSetPriority
<1>4. /\ td_state' \in [Thread -> {"RUNNING", "READY", "SLEEP"}]
      /\ \A u \in Alive : td_state'[u] = "SLEEP" <=> td_state[u] = "SLEEP"
  BY <1>1, <1>3, KFacts DEF KInv, TypeOK
<1> HIDE DEF prio, t
<1>5. /\ runQueue' \in Seq(Thread) /\ td_qpec' = td_qpec /\ td_queue' = td_queue
      /\ \A u \in Thread : u \in Ready' <=> u \in Ready
      /\ Linked' /\ PendingOnlyAtHead'
  BY <1>1, <1>2, <1>3, <1>4, RequeueLinked
<1>6. TypeOK'
  BY <1>2, <1>3, <1>4, <1>5 DEF KInv, TypeOK, PCs
<1>7. Alive' = Alive /\ Idle \in Thread
  BY <1>3, HandleAssumption DEF Alive
<1>8. Timed'
  <2>1. \A u \in Thread : u # t => cont'[u] = cont[u]
    BY <1>3 DEF KInv, TypeOK
  <2> QED BY <1>1, <1>3, <1>5, <1>7, <2>1, HandleAssumption DEF KInv, Timed
<1>9. Control'
  BY <1>1, <1>3, <1>5, <1>7 DEF KInv, Control, Broadcasting
<1> QED BY <1>5, <1>6, <1>8, <1>9 DEF KInv

LEMMA ThreadCreateInv ==
    ASSUME KInv, NEW t \in Thread, NutThreadCreate(t)
    PROVE  KInv'
<1> DEFINE prio == [td_priority EXCEPT ![t] = DefaultPriority]
           me == runningThread
<1>1. /\ pc = "app" /\ me \in Thread /\ me \in Ready /\ me \in Alive /\ me # Idle
      /\ td_queue[me] = RunQ /\ td_timer[me] # SIGNALED
      /\ t \notin Alive /\ t # killedThread /\ me # t
  BY KFacts, SMTT(45) DEF KInv, TypeOK, Control, Linked, Timed, NutThreadCreate, AppCalls, Broadcasting
<1>2. /\ td_queue[t] = NULL /\ t \notin Ready /\ \A r \in Queue : t \notin ToSet(queue[r])
      /\ td_timer[t] \notin Timer /\ td_timer[t] # SIGNALED /\ td_qpec[t] = 0
  <2>1. td_queue[t] = NULL
    BY <1>1 DEF KInv, Linked
  <2>2. t \notin Ready /\ \A r \in Queue : t \notin ToSet(queue[r])
    BY <2>1, HandleAssumption DEF KInv, Linked
  <2>3. td_timer[t] \notin Timer /\ td_timer[t] # SIGNALED
    BY <1>1, <2>1, HandleAssumption DEF KInv, Timed
  <2>4. td_qpec[t] = 0
    BY <2>1, KFacts, HandleAssumption
  <2> QED BY <2>1, <2>2, <2>3, <2>4
<1>3. prio \in [Thread -> 0..255] /\ td_qpec \in [Thread -> Nat] /\ Quiet(runQueue, td_qpec)
  <2>1. prio \in [Thread -> 0..255] /\ td_qpec \in [Thread -> Nat]
    BY SMTT(45) DEF KInv, TypeOK, DefaultPriority
  <2>2. Quiet(runQueue, td_qpec)
    BY KFacts DEF Quiet, Ready
  <2> QED BY <2>1, <2>2
<1>4. /\ nutThreadList' = <<t>> \o nutThreadList
      /\ td_priority' = prio
      /\ td_timer' = [td_timer EXCEPT ![t] = NULL]
      /\ td_qpec' = AddedQpec(runQueue, t, prio, td_qpec)
      /\ td_queue' = [td_queue EXCEPT ![t] = RunQ]
      /\ runQueue' = AddedList(runQueue, t, prio)
      /\ cont' = [cont EXCEPT ![t] = "app", ![me] = "app"]
      /\ pc' = "switch"
      /\ UNCHANGED <<runningThread, killedThread, queue, timerVars, pend, callVars,
                     loopVars, owed>>
  BY DEF NutThreadCreate
<1>5. \E v \in {td_state[me], "READY"} : td_state' = [td_state EXCEPT ![t] = "READY", ![me] = v]
  BY <1>1 DEF NutThreadCreate, KInv, TypeOK
<1>6. /\ td_state' \in [Thread -> {"RUNNING", "READY", "SLEEP"}]
      /\ td_state'[t] = "READY" /\ td_state'[me] # "SLEEP"
      /\ \A u \in Thread : u # t /\ u # me => td_state'[u] = td_state[u]
  <2>1. td_state[me] # "SLEEP" /\ td_state \in [Thread -> {"RUNNING", "READY", "SLEEP"}]
    BY <1>1 DEF KInv, TypeOK, Linked
  <2> HIDE DEF me
  <2> QED BY <1>1, <1>5, <2>1
<1> HIDE DEF prio
<1>7. /\ runQueue' \in Seq(Thread) /\ NoDup(runQueue') /\ td_qpec' = td_qpec
      /\ \A u \in Thread : u \in Ready' <=> u \in Ready \/ u = t
  <2>1. AddedList(runQueue, t, prio) \in Seq(Thread) /\ NoDup(AddedList(runQueue, t, prio))
    BY <1>2, <1>3, JoinReadyFacts
  <2>2. \A u \in Thread : u \in ToSet(AddedList(runQueue, t, prio)) <=> u \in Ready \/ u = t
    BY <1>2, <1>3, JoinReadyFacts
  <2>3. AddedQpec(runQueue, t, prio, td_qpec) = [td_qpec EXCEPT ![t] = 0]
    BY <1>2, <1>3, JoinReadyFacts
  <2>4. td_qpec' = td_qpec
    BY <1>2, <1>3, <1>4, <2>3
  <2> QED BY <1>4, <2>1, <2>2, <2>4 DEF Ready
<1>8. nutThreadList' \in Seq(Thread) /\ NoDup(nutThreadList') /\ Alive' = Alive \cup {t}
  <2>1. nutThreadList \in Seq(Thread) /\ NoDup(nutThreadList)
    BY DEF KInv, TypeOK, Linked
  <2> QED BY <1>1, <1>4, <2>1, ConsFacts DEF Alive
<1>9. /\ td_timer'[t] = NULL /\ td_queue'[t] = RunQ
      /\ \A u \in Thread : u # t => td_timer'[u] = td_timer[u] /\ td_queue'[u] = td_queue[u]
      /\ \A u \in Thread : u # t /\ u # me => cont'[u] = cont[u]
      /\ cont' \in [Thread -> {"app", "waited", "destroy"}]
      /\ td_timer' \in [Thread -> Timer \cup {NULL, SIGNALED}]
      /\ td_queue' \in [Thread -> Queue \cup {RunQ, NULL}]
  BY <1>4 DEF KInv, TypeOK
<1>10. TypeOK'
  BY <1>3, <1>4, <1>6, <1>7, <1>8, <1>9 DEF KInv, TypeOK, PCs
<1>11. Alive \subseteq Thread /\ Idle \in Thread
  BY KFacts, HandleAssumption
<1>12. Linked'
  <2>1. \A u \in Thread : u \in Ready' <=> td_queue'[u] = RunQ
    BY <1>7, <1>9 DEF KInv, Linked
  <2>2. ASSUME NEW u \in Thread, NEW r \in Queue
        PROVE  u \in ToSet(queue'[r]) <=> td_queue'[u] = r
    <3>1. CASE u = t
      BY <1>2, <1>4, <1>9, <3>1, HandleAssumption
    <3>2. CASE u # t
      BY <1>4, <1>9, <3>2 DEF KInv, Linked
    <3> QED BY <3>1, <3>2
  <2>3. \A u \in Thread : td_queue'[u] # NULL => u \in Alive'
    BY <1>8, <1>9 DEF KInv, Linked
  <2>4. ASSUME NEW u \in Alive', td_queue'[u] = NULL
        PROVE  AsleepByTimer(u)'
    <3>1. u # t
      BY <1>9, <2>4, HandleAssumption
    <3>2. u \in Alive /\ u \in Thread /\ td_queue[u] = NULL
      BY <1>8, <1>9, <1>11, <2>4, <3>1
    <3>3. AsleepByTimer(u)
      BY <3>2 DEF KInv, Linked
    <3> QED BY <1>4, <1>9, <2>4, <3>1, <3>2, <3>3 DEF AsleepByTimer
  <2>5. ASSUME NEW u \in Alive'
        PROVE  td_state'[u] = "SLEEP" <=> td_queue'[u] # RunQ
    <3>1. CASE u = t
      BY <1>6, <1>9, <3>1
    <3>2. CASE u = me
      BY <1>1, <1>6, <1>9, <3>2
    <3>3. CASE u # t /\ u # me
      <4>1. u \in Alive /\ u \in Thread
        BY <1>8, <1>11, <3>3
      <4> QED BY <1>6, <1>9, <3>3, <4>1 DEF KInv, Linked
    <3> QED BY <3>1, <3>2, <3>3
  <2> QED BY <1>4, <1>7, <1>8, <2>1, <2>2, <2>3, <2>4, <2>5 DEF KInv, Linked
<1>13. PendingOnlyAtHead'
  <2>1. \A u \in Thread : td_qpec[u] > 0 => u # t
    BY <1>2, HandleAssumption
  <2> QED BY <1>4, <1>7, <1>9, <2>1 DEF KInv, PendingOnlyAtHead, Root
<1>14. Timed'
  <2>1. \A x \in ToSet(nutTimerList') : tn_callback'[x] # NULL => \E u \in Alive' : td_timer'[u] = x
    <3> SUFFICES ASSUME NEW x \in ToSet(nutTimerList), tn_callback[x] # NULL
                 PROVE  \E u \in Alive' : td_timer'[u] = x
      BY <1>4
    <3>1. PICK u \in Alive : td_timer[u] = x
      BY DEF KInv, Timed
    <3> QED BY <1>1, <1>8, <1>9, <1>11, <3>1
  <2>2. NULL \notin Timer /\ NULL # SIGNALED /\ RunQ \notin Queue
    BY HandleAssumption
  <2>3. ASSUME NEW u \in Thread, td_timer'[u] \in Timer
        PROVE  /\ u # t /\ u \in Alive'
               /\ \A v \in Thread \ {u} : td_timer'[v] # td_timer'[u]
    <3>1. u # t
      BY <1>9, <2>2, <2>3
    <3> QED BY <1>8, <1>9, <2>2, <2>3, <3>1 DEF KInv, Timed
  <2>4. ASSUME NEW u \in Thread, td_timer'[u] = SIGNALED
        PROVE  u # t /\ u # me
    BY <1>1, <1>9, <2>2, <2>4
  <2>5. ASSUME NEW u \in Thread, td_queue'[u] \in Queue
        PROVE  u # t /\ u # me
    BY <1>1, <1>9, <2>2, <2>5
  <2> HIDE DEF me
  <2>6. \A u \in Thread : td_timer'[u] = SIGNALED =>
           /\ td_queue'[u] = RunQ /\ cont'[u] = "waited"
           /\ u = runningThread' => pc' \in {"elapsed", "switch", "waited"}
    BY <1>4, <1>9, <2>4 DEF KInv, Timed
  <2>7. \A u \in Thread : td_queue'[u] \in Queue => cont'[u] = "waited"
    BY <1>9, <2>5 DEF KInv, Timed
  <2>8. ASSUME NEW u \in Thread, td_timer'[u] \in Timer
        PROVE  LET x == td_timer'[u] IN
               /\ td_queue'[u] # RunQ
               /\ x \in ToSet(nutTimerList')
               /\ \/ tn_callback'[x] = "NutThreadWake" /\ tn_arg'[x] = u /\ td_queue'[u] = NULL
                  \/ tn_callback'[x] = "NutEventTimeout" /\ tn_arg'[x] = td_queue'[u] /\ td_queue'[u] \in Queue
    BY <1>4, <1>9, <2>3, <2>8 DEF KInv, Timed
  <2> QED BY <1>4, <2>1, <2>3, <2>6, <2>7, <2>8 DEF KInv, Timed
<1>15. Control'
  BY <1>1, <1>4, <1>7, <1>8, <1>11 DEF KInv, Control, Broadcasting
<1> QED BY <1>10, <1>12, <1>13, <1>14, <1>15 DEF KInv

LEMMA ThreadExitInv ==
    ASSUME KInv, NutThreadExit
    PROVE  KInv'
<1> DEFINE t == runningThread
<1>1. /\ pc = "app" /\ t \in Thread /\ t \in Ready /\ t \in Alive /\ t # Idle
      /\ td_queue[t] = RunQ /\ td_timer[t] # SIGNALED /\ td_timer[t] \notin Timer
      /\ td_qpec[t] = 0
  <2>1. pc = "app" /\ t \in Thread /\ t \in Ready /\ t \in Alive /\ t # Idle
    BY DEF KInv, TypeOK, Control, NutThreadExit, AppCalls, Broadcasting
  <2>2. td_queue[t] = RunQ
    BY <2>1 DEF KInv, Linked
  <2>3. td_timer[t] # SIGNALED /\ td_timer[t] \notin Timer /\ td_qpec[t] = 0
    BY <2>1, <2>2, KFacts DEF KInv, Timed
  <2> QED BY <2>1, <2>2, <2>3
<1>2. /\ runQueue' \in Seq(Thread) /\ NoDup(runQueue') /\ Ready' = Ready \ {t}
  BY UnlinkFacts DEF KInv, TypeOK, Linked, NutThreadExit, Ready
<1>3. /\ nutThreadList' \in Seq(Thread) /\ NoDup(nutThreadList') /\ Alive' = Alive \ {t}
  BY UnlinkFacts DEF KInv, TypeOK, Linked, NutThreadExit, Alive
<1>4. /\ td_queue' = [td_queue EXCEPT ![t] = NULL]
      /\ td_priority' = [td_priority EXCEPT ![t] = 255]
      /\ killedThread' = t
      /\ td_state' = [td_state EXCEPT ![t] = "READY"]
      /\ pc' = "switch"
      /\ UNCHANGED <<runningThread, queue, td_qpec, td_timer, timerVars, pend,
                     callVars, loopVars, histVars>>
  BY DEF NutThreadExit
<1>5. TypeOK'
  BY <1>1, <1>2, <1>3, <1>4 DEF KInv, TypeOK, PCs
<1>6. /\ td_queue'[t] = NULL
      /\ \A u \in Thread : u # t => td_queue'[u] = td_queue[u] /\ td_state'[u] = td_state[u]
  BY <1>1, <1>4 DEF KInv, TypeOK
<1>7. Alive \subseteq Thread /\ Idle \in Thread /\ NULL \notin Queue /\ NULL # RunQ /\ NULL \notin Timer
      /\ RunQ \notin Queue
  BY KFacts, HandleAssumption
<1> HIDE DEF t
<1>8. Linked'
  <2>1. \A u \in Thread : u \in Ready' <=> td_queue'[u] = RunQ
    BY <1>2, <1>6, <1>7 DEF KInv, Linked
  <2>2. ASSUME NEW u \in Thread, NEW r \in Queue
        PROVE  u \in ToSet(queue'[r]) <=> td_queue'[u] = r
    <3>1. CASE u = t
      BY <1>1, <1>4, <1>6, <1>7, <3>1 DEF KInv, Linked
    <3>2. CASE u # t
      BY <1>4, <1>6, <3>2 DEF KInv, Linked
    <3> QED BY <3>1, <3>2
  <2>3. \A u \in Thread : td_queue'[u] # NULL => u \in Alive'
    BY <1>3, <1>6 DEF KInv, Linked
  <2>4. ASSUME NEW u \in Alive', td_queue'[u] = NULL
        PROVE  AsleepByTimer(u)'
    <3>1. u # t /\ u \in Alive /\ u \in Thread
      BY <1>3, <1>7
    <3>2. td_queue[u] = NULL /\ AsleepByTimer(u)
      BY <1>6, <2>4, <3>1 DEF KInv, Linked
    <3> QED BY <1>4, <2>4, <3>2 DEF AsleepByTimer
  <2>5. \A u \in Alive' : td_state'[u] = "SLEEP" <=> td_queue'[u] # RunQ
    BY <1>3, <1>6, <1>7 DEF KInv, Linked
  <2> QED BY <1>2, <1>3, <1>4, <2>1, <2>2, <2>3, <2>4, <2>5 DEF KInv, Linked
<1>9. PendingOnlyAtHead'
  <2>1. \A u \in Thread : td_qpec[u] > 0 => u # t
    BY <1>1, <1>7 DEF KInv, PendingOnlyAtHead
  <2> QED BY <1>4, <1>6, <2>1 DEF KInv, PendingOnlyAtHead, Root
<1>10. Timed'
  <2>1. \A x \in ToSet(nutTimerList') : tn_callback'[x] # NULL => \E u \in Alive' : td_timer'[u] = x
    <3> SUFFICES ASSUME NEW x \in ToSet(nutTimerList), tn_callback[x] # NULL
                 PROVE  \E u \in Alive' : td_timer[u] = x
      BY <1>4
    <3>1. PICK u \in Alive : td_timer[u] = x
      BY DEF KInv, Timed
    <3>2. ToSet(nutTimerList) \subseteq Timer
      BY KFacts
    <3> QED BY <1>1, <1>3, <3>1, <3>2
  <2>2. ASSUME NEW u \in Thread, td_timer[u] \in Timer
        PROVE  u # t /\ u \in Alive' /\ td_queue'[u] = td_queue[u]
    BY <1>1, <1>3, <1>6, <2>2 DEF KInv, Timed
  <2>3. ASSUME NEW u \in Thread, td_timer[u] = SIGNALED
        PROVE  u # t /\ td_queue'[u] = td_queue[u]
    BY <1>1, <1>6, <2>3
  <2>4. \A u \in Thread : td_queue'[u] \in Queue => cont'[u] = "waited"
    BY <1>4, <1>6, <1>7 DEF KInv, Timed
  <2> QED BY <1>4, <2>1, <2>2, <2>3, <2>4 DEF KInv, Timed
<1>11. Control'
  BY <1>1, <1>2, <1>3, <1>4, <1>7 DEF KInv, Control, Broadcasting
<1> QED BY <1>5, <1>8, <1>9, <1>10, <1>11 DEF KInv

LEMMA ThreadDestroyInv ==
    ASSUME KInv, NutThreadDestroy
    PROVE  KInv'
<1> USE DEF NutThreadDestroy
<1>1. runningThread \in Ready /\ runningThread \in Alive /\ Alive \subseteq Thread
  BY KFacts DEF KInv, Control, Broadcasting
<1>2. TypeOK'
  BY DEF KInv, TypeOK, PCs
<1>3. Linked' /\ PendingOnlyAtHead' /\ Timed'
  BY LinkedStep, PendingStep, TimedStep DEF KInv
<1>4. Control'
  BY <1>1, HandleAssumption DEF KInv, Control, Root, Ready, Alive, Broadcasting
<1> QED BY <1>2, <1>3, <1>4 DEF KInv

-----------------------------------------------------------------------------
(* Interrupts.                                                              *)
LEMMA TimerIntrInv ==
    ASSUME KInv, NutTimerIntr
    PROVE  KInv'
<1> USE DEF NutTimerIntr
<1>1. TypeOK'
  BY SMTT(30) DEF KInv, TypeOK
<1>2. Linked' /\ PendingOnlyAtHead' /\ Timed'
  BY LinkedStep, PendingStep, TimedStep DEF KInv
<1>3. Control'
  BY DEF KInv, Control, Root, Ready, Alive, Broadcasting
<1> QED BY <1>1, <1>2, <1>3 DEF KInv

LEMMA PostFromIrqInv ==
    ASSUME KInv, NEW q \in Queue, NutEventPostFromIrq(q)
    PROVE  KInv'
<1>1. UNCHANGED <<threadVars, runQueue, td_state, td_timer, td_queue, timerVars,
                  pend, pc, callVars, loopVars, histVars>>
  BY DEF NutEventPostFromIrq
<1>2. queue[q] \in Chain
  BY KFacts
<1>3. CASE Root(q) = NULL /\ queue' = [queue EXCEPT ![q] = <<SIGNALED>>] /\ UNCHANGED td_qpec
  <2>1. queue[q] = <<>>
    BY <1>2, <1>3, RootFacts DEF Root
  <2>2. queue' \in [Queue -> Seq(Thread) \cup {<<SIGNALED>>}] /\ Linked' /\ PendingOnlyAtHead'
    BY <1>1, <1>3, <2>1, EmptyQueueStep
  <2>3. TypeOK'
    BY <1>1, <1>3, <2>2 DEF KInv, TypeOK
  <2>4. Timed'
    BY <1>1, TimedStep DEF KInv
  <2>5. Control'
    <3>1. /\ queue \in [Queue -> Seq(Thread) \cup {<<SIGNALED>>}]
          /\ queue'[q] = <<SIGNALED>> /\ \A r \in Queue : r # q => queue'[r] = queue[r]
      BY <1>3 DEF KInv, TypeOK
    <3>2. Root(q) \notin Thread
      BY <1>3, HandleAssumption
    <3> QED BY <1>1, <2>1, <3>1, <3>2, ZenonT(60) DEF KInv, Control, Root, Ready, Alive, Broadcasting
  <2> QED BY <2>2, <2>3, <2>4, <2>5 DEF KInv
<1>4. CASE /\ Root(q) \in Thread
           /\ td_qpec' = [td_qpec EXCEPT ![Root(q)] = @ + 1]
           /\ UNCHANGED queue
  <2>1. td_queue[Root(q)] = q
    BY <1>4, KFacts
  <2>2. TypeOK'
    BY SMTT(30), <1>1, <1>4 DEF KInv, TypeOK
  <2>3. Linked' /\ Timed'
    BY <1>1, <1>4, LinkedStep, TimedStep DEF KInv
  <2>4. PendingOnlyAtHead'
    <3> SUFFICES ASSUME NEW u \in Thread, td_qpec'[u] > 0
                 PROVE  td_queue[u] \in Queue /\ RootOf(queue[td_queue[u]]) = u
      BY <1>1, <1>4 DEF PendingOnlyAtHead, Root
    <3>1. CASE u = Root(q)
      BY <2>1, <3>1 DEF Root
    <3>2. CASE u # Root(q)
      BY <1>4, <3>2 DEF KInv, TypeOK, PendingOnlyAtHead, Root
    <3> QED BY <3>1, <3>2
  <2>5. Control'
    BY <1>1, <1>4 DEF KInv, Control, Root, Ready, Alive, Broadcasting
  <2> QED BY <2>2, <2>3, <2>4, <2>5 DEF KInv
<1> QED BY <1>3, <1>4 DEF NutEventPostFromIrq

-----------------------------------------------------------------------------
(***************************************************************************)
(* The invariant.                                                           *)
(***************************************************************************)
LEMMA InitInv == Init => KInv
<1> SUFFICES ASSUME Init PROVE KInv
  OBVIOUS
<1>1. /\ <<Main, Idle>> \in Seq(Thread) /\ ToSet(<<Main, Idle>>) = {Main, Idle}
      /\ NoDup(<<Main, Idle>>)
  <2> DEFINE l == <<Main, Idle>>
  <2>1. l \in Seq(Thread) /\ Len(l) = 2 /\ l[1] = Main /\ l[2] = Idle /\ Main # Idle
    BY HandleAssumption
  <2> HIDE DEF l
  <2>2. 1..Len(l) = {1, 2}
    BY <2>1
  <2>3. ToSet(l) = {Main, Idle}
    BY <2>1, <2>2, ToSetFacts
  <2>4. NoDup(l)
    BY <2>1, <2>2 DEF NoDup
  <2> QED BY <2>1, <2>3, <2>4 DEF l
<1>2. ToSet(<<>>) = {} /\ NoDup(<<>>) /\ Len(<<>>) = 0 /\ <<>> \in Seq(Thread) /\ <<>> \in Seq(Timer)
  BY EmptyFacts
<1> USE DEF Init
<1>3. Ready = {Main, Idle} /\ Alive = {Main, Idle}
  BY <1>1 DEF Ready, Alive
<1>4. TypeOK
  BY <1>1, <1>2, HandleAssumption DEF TypeOK, PCs, IdlePriority, DefaultPriority
<1>5. Linked
  BY <1>1, <1>2, <1>3, HandleAssumption DEF Linked
<1>6. PendingOnlyAtHead
  BY DEF PendingOnlyAtHead
<1>7. Timed
  BY <1>2, HandleAssumption DEF Timed, Ascending
<1>8. Control
  BY <1>3, HandleAssumption DEF Control, Broadcasting
<1> QED BY <1>4, <1>5, <1>6, <1>7, <1>8 DEF KInv

LEMMA StutterInv ==
    ASSUME KInv, UNCHANGED vars
    PROVE  KInv'
<1>1. TypeOK'
  BY DEF KInv, TypeOK, vars
<1>2. Linked' /\ PendingOnlyAtHead' /\ Timed'
  BY LinkedStep, PendingStep, TimedStep DEF KInv, vars
<1>3. Control'
  BY DEF KInv, Control, Root, Ready, Alive, Broadcasting, vars
<1> QED BY <1>1, <1>2, <1>3 DEF KInv

LEMMA NextInv == KInv /\ [Next]_vars => KInv'
<1> SUFFICES ASSUME KInv, [Next]_vars
             PROVE  KInv'
  OBVIOUS
<1>1. CASE UNCHANGED vars
  BY <1>1, StutterInv
<1>2. CASE Application
  <2>1. CASE YieldCall
    BY <2>1, YieldCallInv
  <2>2. ASSUME NEW q \in Queue, NEW d \in Delay \cup {0}, NutEventWait(q, d)
        PROVE  KInv'
    BY <2>2, EventWaitInv
  <2>3. ASSUME NEW q \in Queue, NEW d \in Delay \cup {0}, NutEventWaitNext(q, d)
        PROVE  KInv'
    BY <2>3, EventWaitNextInv
  <2>4. ASSUME NEW d \in Delay, NutSleep(d)
        PROVE  KInv'
    BY <2>4, SleepInv
  <2>5. CASE NutThreadExit
    BY <2>5, ThreadExitInv
  <2>6. CASE SleepFails
    BY <2>6, SleepFailsInv
  <2>7. ASSUME NEW q \in Queue, EventPost("NutEventPostAsync", q, "app")
        PROVE  KInv'
    BY <2>7, EventPostInv
  <2>8. ASSUME NEW q \in Queue, EventPost("NutEventPost", q, "yield")
        PROVE  KInv'
    BY <2>8, EventPostInv
  <2>9. ASSUME NEW q \in Queue, NutEventBroadcast("NutEventBroadcastAsync", q, "bcastAsync")
        PROVE  KInv'
    BY <2>9, BroadcastInv DEF Broadcasting
  <2>10. ASSUME NEW q \in Queue, NutEventBroadcast("NutEventBroadcast", q, "bcast")
         PROVE  KInv'
    BY <2>10, BroadcastInv DEF Broadcasting
  <2>11. ASSUME NEW level \in Priority, NutThreadSetPriority(level)
         PROVE  KInv'
    BY <2>11, SetPriorityInv
  <2>12. ASSUME NEW t \in Thread, NutThreadCreate(t)
         PROVE  KInv'
    BY <2>12, ThreadCreateInv
  <2> QED BY <1>2, <2>1, <2>2, <2>3, <2>4, <2>5, <2>6, <2>7, <2>8, <2>9, <2>10,
             <2>11, <2>12 DEF Application, GiveUp
<1>3. CASE Kernel
  <2>1. CASE WaitNextRead \/ WaitSignaled \/ WaitEnqueue \/ WaitReturn
    BY <2>1, WaitNextReadInv, WaitSignaledInv, WaitEnqueueInv, WaitReturnInv
  <2>2. CASE PostWake \/ PostMark \/ PostIgnored \/ BroadcastNext
    BY <2>2, PostWakeInv, PostMarkInv, PostIgnoredInv, BroadcastNextInv
  <2>3. CASE NutThreadYield \/ ScanSkip \/ ScanPost \/ ScanDone
    BY <2>3, ThreadYieldInv, ScanSkipInv, ScanPostInv, ScanDoneInv
  <2>4. CASE TimerAdvance \/ ElapsedDone \/ NutThreadSwitch \/ NutThreadDestroy
    BY <2>4, TimerAdvanceInv, ElapsedDoneInv, ThreadSwitchInv, ThreadDestroyInv
  <2>5. ASSUME NEW h \in Timer, TimerStopped(h) \/ NutEventTimeout(h) \/ NutThreadWake(h)
        PROVE  KInv'
    BY <2>5, TimerStoppedInv, EventTimeoutInv, ThreadWakeInv
  <2> QED BY <1>3, <2>1, <2>2, <2>3, <2>4, <2>5 DEF Kernel
<1>4. CASE Interrupt
  <2>1. CASE NutTimerIntr
    BY <2>1, TimerIntrInv
  <2>2. ASSUME NEW q \in Queue, NutEventPostFromIrq(q)
        PROVE  KInv'
    BY <2>2, PostFromIrqInv
  <2> QED BY <1>4, <2>1, <2>2 DEF Interrupt
<1> QED BY <1>1, <1>2, <1>3, <1>4 DEF Next

(* Every state the kernel can reach satisfies its invariant: each handler   *)
(* of os/thread.c, os/event.c and os/timer.c, and each interrupt between    *)
(* two of its critical sections, preserves it.                              *)
THEOREM KernelInvariant == Spec => []KInv
BY InitInv, NextInv, PTL DEF Spec

-----------------------------------------------------------------------------
(***************************************************************************)
(* What follows from the invariant.                                         *)
(***************************************************************************)
LEMMA ConjunctsFollow == KInv => TypeOK /\ PendingOnlyAtHead
BY DEF KInv

LEMMA OnePlaceFollows == KInv => OnePlace
<1> SUFFICES ASSUME KInv, NEW t \in Thread
             PROVE  LET places == {q \in Queue : t \in Waiting(q)} IN
                    \/ t \notin Alive /\ t \notin Ready /\ places = {}
                    \/ /\ t \in Alive
                       /\ \/ t \in Ready /\ td_queue[t] = RunQ /\ places = {}
                          \/ t \notin Ready /\ places = {td_queue[t]}
                          \/ t \notin Ready /\ places = {} /\ AsleepByTimer(t)
                       /\ td_state[t] = "SLEEP" <=> t \notin Ready
  BY DEF OnePlace
<1> DEFINE places == {q \in Queue : t \in Waiting(q)}
<1>1. \A q \in Queue : t \in Waiting(q) <=> td_queue[t] = q
  BY ChainFacts DEF Waiting, KInv, Linked
<1>2. td_queue[t] \in Queue \cup {RunQ, NULL} /\ (t \in Ready <=> td_queue[t] = RunQ)
  BY DEF KInv, TypeOK, Linked
<1>3. CASE td_queue[t] = RunQ
  BY <1>1, <1>2, <1>3, HandleAssumption DEF KInv, Linked
<1>4. CASE td_queue[t] \in Queue
  <2>1. places = {td_queue[t]} /\ t \notin Ready /\ t \in Alive
    BY <1>1, <1>2, <1>4, HandleAssumption DEF KInv, Linked
  <2> QED BY <1>2, <2>1 DEF KInv, Linked
<1>5. CASE td_queue[t] = NULL
  <2>1. places = {} /\ t \notin Ready
    BY <1>1, <1>2, <1>5, HandleAssumption
  <2> QED BY <1>2, <1>5, <2>1 DEF KInv, Linked
<1> QED BY <1>2, <1>3, <1>4, <1>5

LEMMA TimerOwnedFollows == KInv => TimerOwned
BY HandleAssumption DEF KInv, Timed, TimerOwned

LEMMA NoStaleVerdictFollows == KInv => NoStaleVerdict
BY DEF KInv, Timed, Linked, NoStaleVerdict

LEMMA StackAllocatedFollows == KInv => StackAllocated
BY DEF KInv, Control, StackAllocated

(* Every variable keeps its type: in particular an event queue's root is    *)
(* null, SIGNALED or leads to threads, and never mixes them.                *)
THEOREM TypeCorrect == Spec => []TypeOK
BY KernelInvariant, ConjunctsFollow, PTL

(* A thread is in exactly the list td_queue names, whatever timeouts, posts *)
(* and priority changes have moved it (NutThreadAddPriQueue,                *)
(* NutThreadRemoveQueue and all their callers).                             *)
THEOREM ThreadsInOnePlace == Spec => []OnePlace
BY KernelInvariant, OnePlaceFollows, PTL

(* Events counted by NutEventPostFromIrq() stay at the head of the queue,   *)
(* through every hand-over of NutThreadAddPriQueue() and                    *)
(* NutThreadRemoveQueue().                                                  *)
THEOREM PendingStaysAtHead == Spec => []PendingOnlyAtHead
BY KernelInvariant, ConjunctsFollow, PTL

(* A timer handle in td_timer is never stale: the one-shot timer it names   *)
(* is listed, and nobody else's (NutEventPostAsync, NutTimerStop).          *)
THEOREM TimerHandlesOwned == Spec => []TimerOwned
BY KernelInvariant, TimerOwnedFollows, PTL

(* The timeout mark NutEventTimeout() leaves is consumed by the wait that   *)
(* timed out (NutEventWait).                                                *)
THEOREM NoVerdictGoesStale == Spec => []NoStaleVerdict
BY KernelInvariant, NoStaleVerdictFollows, PTL

(* The running thread's memory is never that of a freed thread              *)
(* (NutThreadExit, NutThreadKill, NutThreadDestroy).                        *)
THEOREM StackStaysAllocated == Spec => []StackAllocated
BY KernelInvariant, StackAllocatedFollows, PTL

-----------------------------------------------------------------------------
(***************************************************************************)
(* Deadlines.  What a thread still has to wait is covered by its timer,     *)
(* less the ticks that have been counted and not yet been taken from the    *)
(* timers; a thread that is ready, or does not exist, has nothing to wait   *)
(* for.                                                                     *)
(***************************************************************************)
Covered(t) ==
    owed[t] = 0 \/ owed[t] + pend + ticks_new <= tn_left[td_timer[t]]

DueInv ==
    /\ ticks_new > 0 => pc = "elapsed"
    /\ \A t \in Thread : td_queue[t] = RunQ \/ t \notin Alive => owed[t] = 0
    /\ \A t \in Thread : td_timer[t] \in Timer => Covered(t)

(* Steps that give nobody anything to wait for and let no ticks pass.       *)
LEMMA DueStep ==
    ASSUME KInv, DueInv, UNCHANGED <<pend, ticks_new>>, pc # "elapsed" \/ pc' = "elapsed",
           \A t \in Thread :
              \/ owed'[t] = 0
              \/ /\ owed'[t] = owed[t]
                 /\ td_queue'[t] = RunQ => td_queue[t] = RunQ \/ t \notin Alive
                 /\ t \notin Alive' => t \notin Alive \/ td_queue[t] = RunQ
                 /\ td_timer'[t] \in Timer =>
                       td_timer'[t] = td_timer[t] /\ tn_left'[td_timer[t]] = tn_left[td_timer[t]]
    PROVE  DueInv'
<1>1. ticks_new' > 0 => pc' = "elapsed"
  BY DEF DueInv
<1>2. \A t \in Thread : td_queue'[t] = RunQ \/ t \notin Alive' => owed'[t] = 0
  BY DEF DueInv
<1>3. ASSUME NEW t \in Thread, td_timer'[t] \in Timer
      PROVE  Covered(t)'
  BY <1>3 DEF DueInv, Covered
<1> QED BY <1>1, <1>2, <1>3 DEF DueInv

(* Most steps leave timers and threads alone.                               *)
LEMMA DueFrame ==
    ASSUME KInv, DueInv, UNCHANGED <<td_queue, nutThreadList, td_timer, tn_left, pend, owed, ticks_new>>,
           pc # "elapsed" \/ pc' = "elapsed"
    PROVE  DueInv'
BY DueStep DEF Alive

LEMMA DueApplication ==
    ASSUME KInv, DueInv, Application
    PROVE  DueInv'
<1> DEFINE t == runningThread
<1>0. /\ t \in Thread /\ owed \in [Thread -> Nat] /\ td_queue \in [Thread -> Queue \cup {RunQ, NULL}]
      /\ td_timer \in [Thread -> Timer \cup {NULL, SIGNALED}]
      /\ pend \in Nat /\ ticks_new \in Nat /\ tn_left \in [Timer -> Nat]
      /\ NULL \notin Timer /\ RunQ \notin Queue /\ RunQ # NULL /\ nutThreadList \in Seq(Thread)
      /\ Alive \subseteq Thread /\ NoDup(nutThreadList)
  BY HandleAssumption, KFacts DEF KInv, TypeOK, Linked
<1>1. pc = "app" => t \in Alive /\ td_queue[t] = RunQ /\ ticks_new = 0
  BY <1>0 DEF KInv, Control, Linked, DueInv
<1>2. CASE \/ YieldCall
           \/ \E q \in Queue, d \in Delay \cup {0} : NutEventWait(q, d) \/ NutEventWaitNext(q, d)
  BY <1>2, DueFrame DEF YieldCall, NutEventWait, NutEventWaitNext, AppCalls
<1>3. CASE \E q \in Queue : \/ EventPost("NutEventPostAsync", q, "app")
                            \/ EventPost("NutEventPost", q, "yield")
  BY <1>3, DueFrame DEF EventPost, CallPost, AppCalls
<1>4. CASE \E q \in Queue : \/ NutEventBroadcast("NutEventBroadcastAsync", q, "bcastAsync")
                            \/ NutEventBroadcast("NutEventBroadcast", q, "bcast")
  <2>1. UNCHANGED <<td_queue, nutThreadList, td_timer, tn_left, pend, owed, ticks_new>> /\ pc = "app"
    BY <1>4 DEF NutEventBroadcast, AppCalls
  <2> QED BY <2>1, DueFrame
<1>5. ASSUME NEW d \in Delay, NutSleep(d)
      PROVE  DueInv'
  <2>1. /\ pc = "app" /\ owed' = [owed EXCEPT ![t] = d] /\ td_queue' = [td_queue EXCEPT ![t] = NULL]
        /\ UNCHANGED <<pend, ticks_new, nutThreadList>> /\ d \in Nat
    BY <1>5, DelayAssumption DEF NutSleep, AppCalls
  <2>2. PICK h \in Timer : /\ h \notin ToSet(nutTimerList)
                           /\ tn_left' = [tn_left EXCEPT ![h] = d + pend]
                           /\ td_timer' = [td_timer EXCEPT ![t] = h]
    BY <1>0, <1>5, <2>1, TimerStartFacts DEF NutSleep
  <2>3. ticks_new = 0
    BY <1>1, <2>1
  <2>4. \A u \in Thread : td_queue'[u] = RunQ \/ u \notin Alive' => owed'[u] = 0
    BY <1>0, <1>1, <2>1 DEF DueInv, Alive
  <2>5. ASSUME NEW u \in Thread, td_timer'[u] \in Timer
        PROVE  Covered(u)'
    <3>1. CASE u = t
      BY <1>0, <2>1, <2>2, <2>3, <3>1 DEF Covered
    <3>2. CASE u # t
      <4>1. td_timer'[u] = td_timer[u] /\ td_timer[u] # h /\ owed'[u] = owed[u]
        BY <1>0, <2>1, <2>2, <2>5, <3>2 DEF KInv, Timed
      <4> QED BY <1>0, <2>1, <2>2, <2>5, <4>1 DEF Covered, DueInv
    <3> QED BY <3>1, <3>2
  <2> QED BY <2>1, <2>3, <2>4, <2>5 DEF DueInv
<1>6. CASE SleepFails
  BY <1>0, <1>1, <1>6, DueStep DEF SleepFails, AppCalls, Alive
<1>7. CASE \E level \in Priority : NutThreadSetPriority(level)
  BY <1>0, <1>1, <1>7, DueStep DEF NutThreadSetPriority, AppCalls, Alive
<1>8. ASSUME NEW u \in Thread, NutThreadCreate(u)
      PROVE  DueInv'
  <2>1. /\ pc = "app" /\ u \notin Alive /\ td_timer' = [td_timer EXCEPT ![u] = NULL]
        /\ td_queue' = [td_queue EXCEPT ![u] = RunQ]
        /\ nutThreadList' = <<u>> \o nutThreadList
        /\ UNCHANGED <<tn_left, pend, owed, ticks_new>>
    BY <1>8 DEF NutThreadCreate, AppCalls
  <2>2. \A v \in Thread : v \notin Alive' => v \notin Alive
    BY <1>0, <2>1, ConsFacts DEF Alive
  <2> QED BY <1>0, <2>1, <2>2, DueStep
<1>9. CASE NutThreadExit
  <2>1. /\ pc = "app" /\ td_queue' = [td_queue EXCEPT ![t] = NULL]
        /\ nutThreadList' = Unlink(nutThreadList, t)
        /\ UNCHANGED <<td_timer, tn_left, pend, owed, ticks_new>>
    BY <1>9 DEF NutThreadExit, AppCalls
  <2>2. \A v \in Thread : v \notin Alive' => v \notin Alive \/ v = t
    BY <1>0, <2>1, UnlinkFacts DEF Alive
  <2> QED BY <1>0, <1>1, <2>1, <2>2, DueStep
<1> QED BY <1>2, <1>3, <1>4, <1>5, <1>6, <1>7, <1>8, <1>9 DEF Application, GiveUp

LEMMA DueWaits ==
    ASSUME KInv, DueInv, WaitEnqueue \/ PostWake
    PROVE  DueInv'
<1>0. /\ runningThread \in Thread /\ owed \in [Thread -> Nat]
      /\ td_queue \in [Thread -> Queue \cup {RunQ, NULL}]
      /\ td_timer \in [Thread -> Timer \cup {NULL, SIGNALED}]
      /\ pend \in Nat /\ ticks_new \in Nat /\ tn_left \in [Timer -> Nat]
      /\ NULL \notin Timer /\ RunQ \notin Queue /\ RunQ # NULL /\ ms \in Nat
  BY HandleAssumption, DelayAssumption DEF KInv, TypeOK
<1>1. CASE WaitEnqueue
  <2> DEFINE t == runningThread
  <2>1. /\ pc = "wait" /\ owed' = [owed EXCEPT ![t] = ms] /\ td_queue' = [td_queue EXCEPT ![t] = qh]
        /\ UNCHANGED <<pend, ticks_new, nutThreadList>> /\ qh \in Queue
    BY <1>1 DEF WaitEnqueue, KInv, Control
  <2>2. \/ /\ td_timer' = [td_timer EXCEPT ![t] = NULL] /\ UNCHANGED tn_left
        \/ \E h \in Timer : /\ h \notin ToSet(nutTimerList)
                            /\ tn_left' = [tn_left EXCEPT ![h] = ms + pend]
                            /\ td_timer' = [td_timer EXCEPT ![t] = h]
    <3>1. CASE NutTimerStart(t, ms, "NutEventTimeout", qh)
      BY <1>0, <3>1, TimerStartFacts
    <3> QED BY <1>1, <3>1 DEF WaitEnqueue
  <2>3. ticks_new = 0 /\ t \in Alive
    BY <1>0, <2>1 DEF DueInv, KInv, Control
  <2>4. \A u \in Thread : td_queue'[u] = RunQ \/ u \notin Alive' => owed'[u] = 0
    BY <1>0, <2>1, <2>3 DEF DueInv, Alive
  <2>5. ASSUME NEW u \in Thread, td_timer'[u] \in Timer
        PROVE  Covered(u)'
    <3>1. CASE u = t
      BY <1>0, <2>1, <2>2, <2>3, <2>5, <3>1 DEF Covered
    <3>2. CASE u # t
      <4>1. td_timer'[u] = td_timer[u] /\ td_timer[u] \in ToSet(nutTimerList) /\ owed'[u] = owed[u]
        BY <1>0, <2>1, <2>2, <2>5, <3>2 DEF KInv, Timed
      <4>2. tn_left'[td_timer[u]] = tn_left[td_timer[u]]
        BY <1>0, <2>2, <2>5, <4>1
      <4> QED BY <1>0, <2>1, <2>5, <4>1, <4>2 DEF Covered, DueInv
    <3> QED BY <3>1, <3>2
  <2> QED BY <2>1, <2>3, <2>4, <2>5 DEF DueInv
<1>2. CASE PostWake
  <2>1. /\ pc = "post" /\ root \in Thread /\ owed' = [owed EXCEPT ![root] = 0]
        /\ td_queue' = [td_queue EXCEPT ![root] = RunQ]
        /\ td_timer' = [td_timer EXCEPT ![root] = NULL]
        /\ UNCHANGED <<pend, ticks_new, nutThreadList>>
    BY <1>2 DEF PostWake, MakeReady
  <2>2. td_queue[root] \in Queue
    BY <2>1, KFacts DEF KInv, Control
  <2>3. \A u \in Thread : u # root /\ td_timer[u] \in Timer => tn_left'[td_timer[u]] = tn_left[td_timer[u]]
    <3>1. CASE td_timer[root] = NULL
      BY <1>2, <3>1 DEF PostWake
    <3>2. CASE td_timer[root] # NULL
      <4>1. td_timer[root] \in Timer /\ td_timer[root] \in ToSet(nutTimerList)
        BY <1>0, <2>1, <2>2, <3>2 DEF KInv, Timed
      <4>2. \A x \in Timer : x # td_timer[root] => tn_left'[x] = tn_left[x]
        BY <1>2, <3>2, <4>1, TimerStopFacts DEF PostWake
      <4> QED BY <2>1, <4>1, <4>2 DEF KInv, Timed
    <3> QED BY <3>1, <3>2
  <2> QED BY <1>0, <2>1, <2>3, DueStep DEF Alive
<1> QED BY <1>1, <1>2

LEMMA DueKernel ==
    ASSUME KInv, DueInv,
           \/ WaitNextRead \/ WaitSignaled \/ WaitReturn \/ PostMark \/ PostIgnored \/ BroadcastNext
           \/ NutThreadYield \/ ScanSkip \/ ScanPost \/ ScanDone \/ ElapsedDone
           \/ NutThreadSwitch \/ NutThreadDestroy
    PROVE  DueInv'
<1>0. /\ runningThread \in Thread /\ owed \in [Thread -> Nat]
      /\ td_queue \in [Thread -> Queue \cup {RunQ, NULL}]
      /\ td_timer \in [Thread -> Timer \cup {NULL, SIGNALED}]
      /\ pend \in Nat /\ ticks_new \in Nat /\ tn_left \in [Timer -> Nat] /\ NULL \notin Timer
  BY HandleAssumption DEF KInv, TypeOK
<1>1. CASE WaitNextRead \/ WaitSignaled
  BY <1>1, DueFrame DEF WaitNextRead, WaitSignaled
<1>2. CASE PostMark \/ PostIgnored \/ BroadcastNext
  BY <1>2, DueFrame DEF PostMark, PostIgnored, BroadcastNext, ReturnFromPost, CallPost, Broadcasting
<1>3. CASE ScanSkip \/ ScanPost
  BY <1>3, DueFrame DEF ScanSkip, ScanPost, CallPost
<1>4. CASE NutThreadSwitch \/ NutThreadDestroy
  BY <1>4, DueFrame DEF NutThreadSwitch, NutThreadDestroy
<1>5. CASE WaitReturn
  <2>1. /\ UNCHANGED <<td_queue, nutThreadList, tn_left, pend, owed, ticks_new>> /\ pc = "waited"
        /\ \A u \in Thread : td_timer'[u] \in Timer => td_timer'[u] = td_timer[u]
    BY <1>0, <1>5 DEF WaitReturn
  <2> QED BY <2>1, DueStep DEF Alive
<1>6. CASE NutThreadYield
  <2>1. td_queue[runningThread] = RunQ
    BY <1>0, <1>6 DEF NutThreadYield, KInv, Control, Linked
  <2>2. td_queue' = td_queue
    BY <1>0, <1>6, <2>1 DEF NutThreadYield
  <2> QED BY <1>6, <2>2, DueFrame DEF NutThreadYield
<1>7. CASE ScanDone
  <2>1. /\ UNCHANGED <<td_queue, nutThreadList, td_timer, tn_left, owed>>
        /\ ticks_new' = pend /\ pend' = 0 /\ pc' = "elapsed" /\ ticks_new = 0
    BY <1>0, <1>7 DEF ScanDone, DueInv
  <2> QED BY <1>0, <2>1 DEF DueInv, Covered, Alive
<1>8. CASE ElapsedDone
  <2>1. /\ UNCHANGED <<td_queue, nutThreadList, td_timer, tn_left, owed, pend>> /\ ticks_new' = 0
        /\ (nutTimerList = <<>> \/ ticks_new = 0)
    BY <1>8 DEF ElapsedDone
  <2>2. ASSUME NEW u \in Thread, td_timer[u] \in Timer
        PROVE  ticks_new = 0
    BY <2>1, <2>2, EmptyFacts DEF KInv, Timed
  <2> QED BY <1>0, <2>1, <2>2 DEF DueInv, Covered, Alive
<1> QED BY <1>1, <1>2, <1>3, <1>4, <1>5, <1>6, <1>7, <1>8

(* A timer elapses only when nothing is owed to its thread any more, and    *)
(* the ticks it takes are taken from all timers.                            *)
LEMMA DueElapses ==
    ASSUME KInv, DueInv,
           TimerAdvance \/ \E h \in Timer : TimerStopped(h) \/ NutEventTimeout(h) \/ NutThreadWake(h)
    PROVE  DueInv'
<1>0. /\ owed \in [Thread -> Nat]
      /\ td_queue \in [Thread -> Queue \cup {RunQ, NULL}]
      /\ td_timer \in [Thread -> Timer \cup {NULL, SIGNALED}]
      /\ pend \in Nat /\ ticks_new \in Nat /\ tn_left \in [Timer -> Nat]
      /\ NULL \notin Timer /\ SIGNALED \notin Timer /\ nutTimerList \in Seq(Timer)
      /\ \A x : IsIn(nutTimerList, x) <=> x \in ToSet(nutTimerList)
  BY HandleAssumption, ToSetFacts DEF KInv, TypeOK
<1>1. \A u \in Thread : td_timer[u] \in Timer => td_timer[u] \in ToSet(nutTimerList)
  BY DEF KInv, Timed
<1>2. CASE TimerAdvance
  <2>1. /\ UNCHANGED <<td_queue, nutThreadList, td_timer, owed, pend, pc>> /\ ticks_new' = 0
        /\ tn_left' = [h \in Timer |-> IF IsIn(nutTimerList, h) THEN tn_left[h] - ticks_new ELSE 0]
    BY <1>2 DEF TimerAdvance
  <2>2. ASSUME NEW u \in Thread, td_timer'[u] \in Timer
        PROVE  Covered(u)'
    <3>1. tn_left'[td_timer[u]] = tn_left[td_timer[u]] - ticks_new
      BY <1>0, <1>1, <2>1, <2>2
    <3>2. owed[u] = 0 \/ owed[u] + pend + ticks_new <= tn_left[td_timer[u]]
      BY <2>1, <2>2 DEF DueInv, Covered
    <3> QED BY <1>0, <2>1, <2>2, <3>1, <3>2 DEF Covered
  <2> QED BY <2>1, <2>2 DEF DueInv, Alive
<1>3. ASSUME NEW h \in Timer, TimerStopped(h) \/ NutEventTimeout(h) \/ NutThreadWake(h)
      PROVE  DueInv'
  <2>1. /\ TimerElapses(h) /\ UNCHANGED <<nutThreadList, owed, pend, pc>> /\ pc = "elapsed"
        /\ nutTimerList # <<>> /\ h = Head(nutTimerList) /\ tn_left[h] <= ticks_new
        /\ ticks_new' = ticks_new - tn_left[h]
        /\ tn_left' = [x \in Timer |-> IF IsIn(Tail(nutTimerList), x)
                                       THEN tn_left[x] - tn_left[h] ELSE 0]
    BY <1>3 DEF TimerStopped, NutEventTimeout, NutThreadWake, TimerElapses
  <2>2. \A x \in Timer : x \in ToSet(nutTimerList) /\ x # h => IsIn(Tail(nutTimerList), x)
    <3>1. /\ Tail(nutTimerList) \in Seq(Timer)
          /\ ToSet(Tail(nutTimerList)) = ToSet(nutTimerList) \ {h}
      BY <1>0, <2>1, TailFacts DEF KInv, Linked
    <3> QED BY <3>1, ToSetFacts
  <2>3. \A u \in Thread : td_timer[u] = h => owed[u] = 0
    BY <1>0, <2>1 DEF DueInv, Covered
  <2>4. ASSUME NEW u \in Thread
        PROVE  /\ td_queue'[u] = td_queue[u] \/ owed[u] = 0
               /\ td_timer'[u] = td_timer[u] \/ td_timer'[u] \notin Timer
    <3>1. CASE TimerStopped(h)
      BY <3>1 DEF TimerStopped
    <3>2. CASE NutEventTimeout(h)
      <4>1. CASE UNCHANGED <<queueVars, td_timer>>
        BY <4>1
      <4>2. ASSUME NEW q, NEW i \in TimedOut(q, h),
                   MakeReady(queue[q][i]),
                   td_timer' = [td_timer EXCEPT ![queue[q][i]] = SIGNALED]
            PROVE  /\ td_queue'[u] = td_queue[u] \/ owed[u] = 0
                   /\ td_timer'[u] = td_timer[u] \/ td_timer'[u] \notin Timer
        <5>1. td_timer[queue[q][i]] = h
          BY DEF TimedOut
        <5>2. td_queue' = [td_queue EXCEPT ![queue[q][i]] = RunQ]
          BY <4>2 DEF MakeReady
        <5> QED BY <1>0, <2>3, <4>2, <5>1, <5>2
      <4> QED BY <3>2, <4>1, <4>2 DEF NutEventTimeout
    <3>3. CASE NutThreadWake(h)
      <4>1. /\ tn_callback[h] = "NutThreadWake" /\ td_queue' = [td_queue EXCEPT ![tn_arg[h]] = RunQ]
            /\ td_timer' = [td_timer EXCEPT ![tn_arg[h]] = NULL]
        BY <3>3 DEF NutThreadWake, MakeReady
      <4>2. h \in ToSet(nutTimerList) /\ tn_callback[h] # NULL
        BY <1>0, <2>1, <4>1, TailFacts, HandleAssumption
      <4>3. PICK v \in Alive : td_timer[v] = h
        BY <4>2 DEF KInv, Timed
      <4>4. v \in Thread /\ tn_arg[h] = v
        BY <4>1, <4>3, KFacts DEF KInv, Timed
      <4> QED BY <1>0, <2>3, <4>1, <4>3, <4>4
    <3> QED BY <1>3, <3>1, <3>2, <3>3
  <2>5. ASSUME NEW u \in Thread, td_timer'[u] \in Timer
        PROVE  Covered(u)'
    <3>1. td_timer'[u] = td_timer[u] /\ td_timer[u] \in Timer
      BY <2>4, <2>5
    <3>2. CASE td_timer[u] = h
      BY <2>1, <2>3, <3>2 DEF Covered
    <3>3. CASE td_timer[u] # h
      <4>1. tn_left'[td_timer[u]] = tn_left[td_timer[u]] - tn_left[h]
        BY <1>1, <2>1, <2>2, <3>1, <3>3
      <4>2. owed[u] = 0 \/ owed[u] + pend + ticks_new <= tn_left[td_timer[u]]
        BY <3>1 DEF DueInv, Covered
      <4> QED BY <1>0, <2>1, <3>1, <4>1, <4>2 DEF Covered
    <3> QED BY <3>2, <3>3
  <2>6. \A u \in Thread : td_queue'[u] = RunQ \/ u \notin Alive' => owed'[u] = 0
    BY <2>1, <2>4 DEF DueInv, Alive
  <2> QED BY <2>1, <2>5, <2>6 DEF DueInv
<1> QED BY <1>2, <1>3

LEMMA DueInterrupt ==
    ASSUME KInv, DueInv, Interrupt
    PROVE  DueInv'
<1>1. CASE NutTimerIntr
  <2>1. /\ UNCHANGED <<td_queue, nutThreadList, td_timer, tn_left, ticks_new, pc>>
        /\ pend' = pend + 1
        /\ owed' = [t \in Thread |-> IF owed[t] > 0 THEN owed[t] - 1 ELSE 0]
    BY <1>1 DEF NutTimerIntr
  <2>2. /\ owed \in [Thread -> Nat] /\ pend \in Nat /\ ticks_new \in Nat /\ tn_left \in [Timer -> Nat]
    BY DEF KInv, TypeOK
  <2>3. ASSUME NEW u \in Thread, td_timer'[u] \in Timer
        PROVE  Covered(u)'
    <3>1. owed[u] = 0 \/ owed[u] + pend + ticks_new <= tn_left[td_timer[u]]
      BY <2>1, <2>3 DEF DueInv, Covered
    <3> QED BY <2>1, <2>2, <2>3, <3>1 DEF Covered
  <2> QED BY <2>1, <2>2, <2>3 DEF DueInv, Alive
<1>2. CASE \E q \in Queue : NutEventPostFromIrq(q)
  BY <1>2, DueFrame DEF NutEventPostFromIrq
<1> QED BY <1>1, <1>2 DEF Interrupt

LEMMA DueInit == Init => DueInv
BY HandleAssumption DEF Init, DueInv, Covered

LEMMA DueNext == KInv /\ DueInv /\ [Next]_vars => DueInv'
<1> SUFFICES ASSUME KInv, DueInv, [Next]_vars
             PROVE  DueInv'
  OBVIOUS
<1>1. CASE UNCHANGED vars
  BY <1>1, DueFrame DEF vars
<1>2. CASE Application
  BY <1>2, DueApplication
<1>3. CASE Kernel
  BY <1>3, DueWaits, DueKernel, DueElapses DEF Kernel
<1>4. CASE Interrupt
  BY <1>4, DueInterrupt
<1> QED BY <1>1, <1>2, <1>3, <1>4 DEF Next

LEMMA NoEarlyTimeoutFollows == KInv /\ DueInv => NoEarlyTimeout
BY KFacts DEF KInv, Linked, DueInv, NoEarlyTimeout

(* No wait times out and no sleep ends before the ticks it asked for have   *)
(* been counted: NutTimerStart() adds the ticks NutThreadResume() has still *)
(* to take, and NutTimerProcessElapsed() takes from every timer what it     *)
(* takes from the first.                                                    *)
THEOREM TimeoutsNotEarly == Spec => []NoEarlyTimeout
<1>1. Spec => []DueInv
  BY KernelInvariant, DueInit, DueNext, PTL DEF Spec
<1> QED BY <1>1, KernelInvariant, NoEarlyTimeoutFollows, PTL

-----------------------------------------------------------------------------
(***************************************************************************)
(* Order.  The idle thread has the lowest priority of the threads there     *)
(* are, so that whoever is put in the run queue by priority gets in front   *)
(* of it.  A thread's priority changes only while it is in no event queue.  *)
(***************************************************************************)
Lowest(prio) ==
    prio[Idle] = IdlePriority /\ \A t \in Alive \ {Idle} : prio[t] < IdlePriority

InOrder(s, prio) == s # <<SIGNALED>> => Ascending(s, prio)

EndsIdle(s) == s # <<>> /\ Last(s) = Idle

SortInv ==
    /\ Lowest(td_priority)
    /\ EndsIdle(runQueue)
    /\ HeapMayFail = FALSE => Ascending(runQueue, td_priority)
    /\ \A q \in Queue : InOrder(queue[q], td_priority)

LEMMA LastFacts ==
    ASSUME NEW s \in Seq(Thread), s # <<>>
    PROVE  Len(s) \in Nat /\ Len(s) >= 1 /\ Last(s) = s[Len(s)] /\ Last(s) \in Thread /\ Last(s) \in ToSet(s)
<1>1. Len(s) \in Nat /\ Len(s) >= 1
  BY LenProperties, EmptySeq
<1>2. Len(s) \in 1..Len(s)
  BY <1>1
<1> QED BY <1>1, <1>2, ElementOfSeq, ToSetFacts DEF Last

(* What NutThreadAddPriQueue() and the unlinking walks keep.                *)
LEMMA AddedInOrder ==
    ASSUME NEW s \in Chain, NEW t \in Thread, NEW prio \in [Thread -> 0..255], InOrder(s, prio)
    PROVE  Ascending(AddedList(s, t, prio), prio)
<1>1. CASE s = <<SIGNALED>>
  <2>1. AddedList(s, t, prio) = <<t>> /\ Len(<<t>>) = 1
    BY <1>1, SingleFacts DEF AddedList
  <2> QED BY <2>1 DEF Ascending
<1>2. CASE s # <<SIGNALED>>
  <2>1. s \in Seq(Thread) /\ AddedList(s, t, prio) = InsertBy(s, t, prio) /\ prio \in [Thread -> Int]
    BY <1>2, ChainFacts, LevelFacts DEF AddedList
  <2> QED BY <1>2, <2>1, InsertByFacts DEF InOrder
<1> QED BY <1>1, <1>2

LEMMA AddedEndsIdle ==
    ASSUME NEW s \in Seq(Thread), NEW t \in Thread, NEW prio \in [Thread -> 0..255],
           EndsIdle(s), prio[Idle] = IdlePriority, prio[t] < IdlePriority
    PROVE  EndsIdle(AddedList(s, t, prio))
<1> DEFINE p == InsertPos(s, prio, prio[t])
           r == InsertAt(s, p, t)
<1>1. prio \in [Thread -> Int] /\ prio[t] \in Int /\ prio[Idle] \in Int
  BY LevelFacts, HandleAssumption
<1>2. Len(s) \in Nat /\ Len(s) >= 1 /\ s[Len(s)] = Idle
  BY LastFacts DEF EndsIdle
<1>3. p \in 1..(Len(s) + 1) /\ IsInsertPos(s, prio, prio[t], p)
  BY <1>1, InsertPosFacts
<1>4. AddedList(s, t, prio) = r
  BY ChainFacts DEF AddedList, InsertBy
<1> HIDE DEF p
<1>5. p # Len(s) + 1
  <2> SUFFICES ASSUME p = Len(s) + 1 PROVE FALSE
    OBVIOUS
  <2>1. Len(s) \in 1..(p - 1)
    BY <1>2
  <2>2. prio[s[Len(s)]] <= prio[t]
    BY <1>3, <2>1 DEF IsInsertPos
  <2> QED BY <1>1, <1>2, <2>2
<1>6. /\ r \in Seq(Thread) /\ Len(r) = Len(s) + 1
      /\ \A j \in 1..(Len(s) + 1) : r[j] = IF j < p THEN s[j] ELSE IF j = p THEN t ELSE s[j - 1]
  BY <1>3, InsertAtFacts
<1> HIDE DEF r
<1>7. r[Len(s) + 1] = s[Len(s)]
  BY <1>2, <1>3, <1>5, <1>6
<1>8. r # <<>>
  BY <1>2, <1>6, EmptyFacts
<1> QED BY <1>2, <1>4, <1>6, <1>7, <1>8, LastFacts DEF EndsIdle

LEMMA UnlinkedEndsIdle ==
    ASSUME NEW s \in Seq(Thread), NEW t \in Thread, NoDup(s), EndsIdle(s), t # Idle
    PROVE  EndsIdle(Unlink(s, t))
<1>1. Len(s) \in Nat /\ Len(s) >= 1 /\ s[Len(s)] = Idle
  BY LastFacts DEF EndsIdle
<1>2. CASE IsIn(s, t)
  <2> DEFINE i == IndexIn(s, t)
             r == RemoveAt(s, i)
  <2>1. i \in 1..Len(s) /\ s[i] = t
    BY <1>2 DEF IsIn, IndexIn
  <2>2. Unlink(s, t) = r
    BY <1>2 DEF Unlink
  <2> HIDE DEF i
  <2>3. /\ r \in Seq(Thread) /\ Len(r) = Len(s) - 1
        /\ \A j \in 1..(Len(s) - 1) : r[j] = IF j < i THEN s[j] ELSE s[j + 1]
    BY <2>1, RemoveAtFacts
  <2> HIDE DEF r
  <2>4. i # Len(s)
    BY <1>1, <2>1
  <2>5. Len(r) \in 1..(Len(s) - 1) /\ ~(Len(r) < i) /\ r[Len(r)] = s[Len(s)]
    BY <1>1, <2>1, <2>3, <2>4
  <2>6. r # <<>>
    BY <2>5, EmptyFacts
  <2> QED BY <1>1, <2>2, <2>3, <2>5, <2>6, LastFacts DEF EndsIdle
<1>3. CASE ~IsIn(s, t)
  BY <1>3 DEF Unlink
<1> QED BY <1>2, <1>3

LEMMA DetachedInOrder ==
    ASSUME NEW s \in Seq(Thread), NEW i \in 1..Len(s), NEW qpec \in [Thread -> Nat],
           NEW prio \in [Thread -> 0..255], NoDup(s), HeadOnly(s, qpec), Ascending(s, prio)
    PROVE  InOrder(DetachedList(s, i, qpec), prio)
<1> DEFINE r == RemoveAt(s, i)
<1>1. r \in Seq(Thread) /\ Len(r) = Len(s) - 1 /\ Len(s) \in Nat
  BY RemoveAtFacts, LenProperties
<1>2. Ascending(r, prio)
  <2>1. prio \in [Thread -> Int]
    BY LevelFacts
  <2> QED BY <2>1, RemoveAtElements
<1>3. DetachedList(s, i, qpec) = r \o (IF i = Len(s) /\ qpec[s[i]] > 0 THEN <<SIGNALED>> ELSE <<>>)
  BY DEF DetachedList
<1> HIDE DEF r
<1>4. CASE i = Len(s) /\ qpec[s[i]] > 0
  <2>1. i = 1
    BY <1>1, <1>4, HeadOnlyFacts
  <2>2. r = <<>>
    BY <1>1, <1>4, <2>1, EmptySeq
  <2>3. DetachedList(s, i, qpec) = <<SIGNALED>>
    BY <1>3, <1>4, <2>2
  <2> QED BY <2>3 DEF InOrder
<1>5. CASE ~(i = Len(s) /\ qpec[s[i]] > 0)
  <2>1. DetachedList(s, i, qpec) = r \o <<>>
    BY <1>3, <1>5
  <2>2. r \o <<>> = r
    BY <1>1, ConcatEmptySeq
  <2> QED BY <1>2, <2>1, <2>2 DEF InOrder
<1> QED BY <1>4, <1>5

(* The priority of a thread that is not in a list does not matter to it.    *)
LEMMA OrderKept ==
    ASSUME NEW s \in Seq(Thread), NEW prio, NEW prio2,
           \A u \in Thread : u \in ToSet(s) => prio2[u] = prio[u], Ascending(s, prio)
    PROVE  Ascending(s, prio2)
<1>1. \A j \in 1..Len(s) : s[j] \in Thread /\ s[j] \in ToSet(s)
  BY ElementOfSeq, ToSetFacts
<1> QED BY <1>1 DEF Ascending

-----------------------------------------------------------------------------
(* What a step does to the queues while priorities stay as they are.        *)
Joins(t) ==
    runQueue' = AddedList(runQueue, t, td_priority) /\ t \in Alive \ {Idle}

LEMMA SortFacts ==
    ASSUME KInv
    PROVE  /\ td_priority \in [Thread -> 0..255] /\ td_qpec \in [Thread -> Nat]
           /\ queue \in [Queue -> Chain]
           /\ runQueue \in Seq(Thread) /\ runQueue \in Chain /\ runQueue # <<SIGNALED>> /\ NoDup(runQueue)
           /\ Idle \in Thread /\ Idle \in Ready /\ Idle \in Alive /\ Alive \subseteq Thread
           /\ runningThread \in Thread
<1>1. /\ td_priority \in [Thread -> 0..255] /\ td_qpec \in [Thread -> Nat]
      /\ runQueue \in Seq(Thread) /\ NoDup(runQueue) /\ runningThread \in Thread
      /\ Idle \in Thread /\ Idle \in Ready
  BY HandleAssumption DEF KInv, TypeOK, Linked, Control
<1>2. queue \in [Queue -> Chain]
  BY DEF KInv, TypeOK, Chain
<1>3. runQueue \in Chain /\ runQueue # <<SIGNALED>>
  BY <1>1, ChainFacts DEF Chain
<1>4. Idle \in Alive /\ Alive \subseteq Thread
  BY <1>1, KFacts
<1> QED BY <1>1, <1>2, <1>3, <1>4

LEMMA SortStep ==
    ASSUME KInv, SortInv, UNCHANGED <<td_priority, nutThreadList>>,
           \/ runQueue' = runQueue
           \/ \E t \in Alive \ {Idle} : runQueue' = AddedList(runQueue, t, td_priority)
           \/ \E t \in Alive \ {Idle} : runQueue' = Unlink(runQueue, t)
           \/ \E t \in Alive \ {Idle} : runQueue' = Requeued(t, td_priority),
           \A q \in Queue :
              \/ queue'[q] = queue[q]
              \/ queue'[q] = <<>>
              \/ queue'[q] = <<SIGNALED>>
              \/ \E t \in Thread : queue'[q] = AddedList(queue[q], t, td_priority)
              \/ queue[q] # <<SIGNALED>>
                 /\ \E i \in 1..Len(queue[q]) : queue'[q] = DetachedList(queue[q], i, td_qpec)
    PROVE  SortInv'
<1>0. td_priority \in [Thread -> Int]
  BY SortFacts, LevelFacts
<1>1. EndsIdle(runQueue') /\ (HeapMayFail = FALSE => Ascending(runQueue', td_priority))
  <2>1. ASSUME NEW t \in Alive \ {Idle}, runQueue' = AddedList(runQueue, t, td_priority)
        PROVE  EndsIdle(runQueue') /\ (HeapMayFail = FALSE => Ascending(runQueue', td_priority))
    <3>1. EndsIdle(AddedList(runQueue, t, td_priority))
      BY SortFacts, AddedEndsIdle DEF SortInv, Lowest
    <3>2. HeapMayFail = FALSE => Ascending(AddedList(runQueue, t, td_priority), td_priority)
      BY SortFacts, AddedInOrder DEF SortInv, InOrder
    <3> QED BY <2>1, <3>1, <3>2
  <2>2. ASSUME NEW t \in Alive \ {Idle}
        PROVE  /\ Unlink(runQueue, t) \in Seq(Thread) /\ EndsIdle(Unlink(runQueue, t))
               /\ HeapMayFail = FALSE => Ascending(Unlink(runQueue, t), td_priority)
    BY <1>0, SortFacts, UnlinkFacts, UnlinkedEndsIdle DEF SortInv
  <2>3. ASSUME NEW t \in Alive \ {Idle}, runQueue' = Requeued(t, td_priority)
        PROVE  EndsIdle(runQueue') /\ (HeapMayFail = FALSE => Ascending(runQueue', td_priority))
    <3> DEFINE s == Unlink(runQueue, t)
    <3>1. s \in Seq(Thread) /\ s \in Chain /\ EndsIdle(s) /\ (HeapMayFail = FALSE => Ascending(s, td_priority))
      BY <2>2 DEF Chain
    <3>2. runQueue' = AddedList(s, t, td_priority)
      BY <2>3 DEF Requeued
    <3> HIDE DEF s
    <3>3. EndsIdle(AddedList(s, t, td_priority))
      BY <3>1, SortFacts, AddedEndsIdle DEF SortInv, Lowest
    <3>4. HeapMayFail = FALSE => Ascending(AddedList(s, t, td_priority), td_priority)
      BY <3>1, SortFacts, AddedInOrder DEF InOrder
    <3> QED BY <3>2, <3>3, <3>4
  <2> QED BY <2>1, <2>2, <2>3 DEF SortInv
<1>2. ASSUME NEW q \in Queue
      PROVE  InOrder(queue'[q], td_priority)
  <2>1. queue[q] \in Chain /\ InOrder(queue[q], td_priority)
    BY SortFacts DEF SortInv
  <2>2. InOrder(<<>>, td_priority) /\ InOrder(<<SIGNALED>>, td_priority)
    BY EmptyFacts DEF InOrder, Ascending
  <2>3. ASSUME NEW t \in Thread, queue'[q] = AddedList(queue[q], t, td_priority)
        PROVE  InOrder(queue'[q], td_priority)
    <3>1. Ascending(AddedList(queue[q], t, td_priority), td_priority)
      BY <2>1, SortFacts, AddedInOrder
    <3> QED BY <2>3, <3>1 DEF InOrder
  <2>4. ASSUME queue[q] # <<SIGNALED>>, NEW i \in 1..Len(queue[q]),
               queue'[q] = DetachedList(queue[q], i, td_qpec)
        PROVE  InOrder(queue'[q], td_priority)
    <3> DEFINE s == queue[q]
    <3>1. /\ s \in Seq(Thread) /\ i \in 1..Len(s) /\ NoDup(s) /\ HeadOnly(s, td_qpec)
          /\ Ascending(s, td_priority)
      BY <2>1, <2>4, ChainFacts, KFacts DEF InOrder
    <3> HIDE DEF s
    <3>2. InOrder(DetachedList(s, i, td_qpec), td_priority)
      BY <3>1, SortFacts, DetachedInOrder
    <3> QED BY <2>4, <3>2 DEF s
  <2> QED BY <2>1, <2>2, <2>3, <2>4
<1> QED BY <1>1, <1>2 DEF SortInv, Lowest, Alive

LEMMA SortApplication ==
    ASSUME KInv, SortInv, Application
    PROVE  SortInv'
<1> DEFINE t == runningThread
<1>0. pc = "app" => t \in Alive /\ t \in Ready /\ td_queue[t] = RunQ
  BY DEF KInv, Control, Linked, TypeOK
<1>1. CASE \/ YieldCall \/ \E q \in Queue, d \in Delay \cup {0} : NutEventWait(q, d)
           \/ \E q \in Queue : \/ EventPost("NutEventPostAsync", q, "app")
                               \/ EventPost("NutEventPost", q, "yield")
  BY <1>1, SortStep DEF YieldCall, NutEventWait, EventPost
<1>2. ASSUME NEW q \in Queue, NEW d \in Delay \cup {0}, NutEventWaitNext(q, d)
      PROVE  SortInv'
  <2>1. \A r \in Queue : queue'[r] = queue[r] \/ queue'[r] = <<>>
    BY <1>2, SortFacts DEF NutEventWaitNext
  <2> QED BY <1>2, <2>1, SortStep DEF NutEventWaitNext
<1>3. ASSUME NEW q \in Queue, NEW c, NEW r, NutEventBroadcast(c, q, r)
      PROVE  SortInv'
  <2>1. \A p \in Queue : queue'[p] = queue[p] \/ queue'[p] = <<>>
    BY <1>3, SortFacts DEF NutEventBroadcast
  <2> QED BY <1>3, <2>1, SortStep DEF NutEventBroadcast
<1>4. CASE \E d \in Delay : NutSleep(d)
  BY <1>0, <1>4, SortStep DEF NutSleep, AppCalls
<1>5. CASE SleepFails
  <2> DEFINE s == Unlink(runQueue, t)
  <2>1. /\ HeapMayFail /\ t \in Alive \ {Idle} /\ runQueue' = <<t>> \o s
        /\ UNCHANGED <<td_priority, nutThreadList, queue>>
    BY <1>0, <1>5 DEF SleepFails, AppCalls
  <2>2. s \in Seq(Thread) /\ EndsIdle(s)
    BY <2>1, SortFacts, UnlinkFacts, UnlinkedEndsIdle DEF SortInv
  <2> HIDE DEF s
  <2>3. Len(s) \in Nat /\ Len(s) >= 1 /\ s[Len(s)] = Idle
    BY <2>2, LastFacts DEF EndsIdle
  <2>4. <<t>> \in Seq(Thread) /\ Len(<<t>>) = 1 /\ <<t>>[1] = t
    BY SortFacts
  <2>5. runQueue' \in Seq(Thread) /\ Len(runQueue') = Len(s) + 1 /\ runQueue'[Len(s) + 1] = s[Len(s)]
    BY <2>1, <2>2, <2>3, <2>4, ConcatProperties
  <2>6. runQueue' # <<>>
    BY <2>3, <2>5, EmptyFacts
  <2>7. EndsIdle(runQueue')
    BY <2>3, <2>5, <2>6, LastFacts DEF EndsIdle
  <2> QED BY <2>1, <2>7 DEF SortInv, Lowest, Alive
<1>6. ASSUME NEW level \in Priority, NutThreadSetPriority(level)
      PROVE  SortInv'
  <2> DEFINE s == Unlink(runQueue, t)
  <2>1. /\ t \in Alive \ {Idle} /\ t \in Ready /\ td_priority' = [td_priority EXCEPT ![t] = level]
        /\ runQueue' = AddedList(s, t, td_priority') /\ UNCHANGED <<nutThreadList, queue>>
        /\ td_queue[t] = RunQ
    BY <1>0, <1>6 DEF NutThreadSetPriority, AppCalls, Requeued
  <2>2. /\ td_priority' \in [Thread -> 0..255] /\ td_priority'[t] < IdlePriority
        /\ td_priority'[Idle] = IdlePriority
        /\ \A u \in Thread : u # t => td_priority'[u] = td_priority[u]
    <3>1. level \in 0..253
      BY LevelAssumption
    <3>2. t \in Thread /\ t # Idle /\ Idle \in Thread /\ td_priority \in [Thread -> 0..255]
      BY <2>1, SortFacts
    <3>3. td_priority[Idle] = IdlePriority
      BY DEF SortInv, Lowest
    <3> HIDE DEF t, s
    <3>4. td_priority'[t] = level /\ \A u \in Thread : u # t => td_priority'[u] = td_priority[u]
      BY <2>1, <3>2
    <3>5. td_priority' \in [Thread -> 0..255]
      BY <2>1, <3>1, <3>2
    <3> QED BY <3>1, <3>2, <3>3, <3>4, <3>5 DEF IdlePriority
  <2>3. /\ s \in Seq(Thread) /\ EndsIdle(s) /\ t \notin ToSet(s)
        /\ HeapMayFail = FALSE => Ascending(s, td_priority)
    <3>1. td_priority \in [Thread -> Int]
      BY SortFacts, LevelFacts
    <3> QED BY <2>1, <3>1, SortFacts, UnlinkFacts, UnlinkedEndsIdle DEF SortInv
  <2> HIDE DEF s
  <2>4. HeapMayFail = FALSE => Ascending(s, td_priority')
    BY <2>2, <2>3, OrderKept
  <2>5. /\ EndsIdle(AddedList(s, t, td_priority'))
        /\ HeapMayFail = FALSE => Ascending(AddedList(s, t, td_priority'), td_priority')
    <3>1. ASSUME NEW prio \in [Thread -> 0..255], prio[t] < IdlePriority, prio[Idle] = IdlePriority,
                 HeapMayFail = FALSE => Ascending(s, prio)
          PROVE  /\ EndsIdle(AddedList(s, t, prio))
                 /\ HeapMayFail = FALSE => Ascending(AddedList(s, t, prio), prio)
      BY <2>1, <2>3, <3>1, SortFacts, AddedEndsIdle, AddedInOrder DEF InOrder, Chain
    <3> QED BY <2>2, <2>4, <3>1
  <2>6. ASSUME NEW q \in Queue
        PROVE  InOrder(queue[q], td_priority')
    <3>1. \A u \in Thread : u \in ToSet(queue[q]) => td_priority'[u] = td_priority[u]
      BY <2>1, <2>2, HandleAssumption DEF KInv, Linked
    <3> QED BY <3>1, SortFacts, ChainFacts, OrderKept DEF InOrder, SortInv
  <2>7. \A u \in Alive \ {Idle} : td_priority'[u] < IdlePriority
    BY <2>2, SortFacts DEF SortInv, Lowest
  <2> QED BY <2>1, <2>2, <2>5, <2>6, <2>7 DEF SortInv, Lowest, Alive
<1>7. ASSUME NEW v \in Thread, NutThreadCreate(v)
      PROVE  SortInv'
  <2>1. /\ v \notin Alive /\ v # Idle /\ v \notin Ready
        /\ td_priority' = [td_priority EXCEPT ![v] = DefaultPriority]
        /\ runQueue' = AddedList(runQueue, v, td_priority') /\ UNCHANGED queue
        /\ nutThreadList' = <<v>> \o nutThreadList
    BY <1>7, SortFacts, KFacts DEF NutThreadCreate
  <2>2. /\ td_priority' \in [Thread -> 0..255] /\ td_priority'[v] < IdlePriority
        /\ td_priority'[Idle] = IdlePriority
        /\ \A u \in Thread : u # v => td_priority'[u] = td_priority[u]
    BY <2>1, SortFacts DEF IdlePriority, DefaultPriority, SortInv, Lowest
  <2>3. HeapMayFail = FALSE => Ascending(runQueue, td_priority')
    BY <2>1, <2>2, SortFacts, OrderKept, ZenonT(60) DEF Ready, SortInv
  <2>4. EndsIdle(runQueue') /\ (HeapMayFail = FALSE => Ascending(runQueue', td_priority'))
    <3>1. ASSUME NEW prio \in [Thread -> 0..255], prio[v] < IdlePriority, prio[Idle] = IdlePriority,
                 HeapMayFail = FALSE => Ascending(runQueue, prio)
          PROVE  /\ EndsIdle(AddedList(runQueue, v, prio))
                 /\ HeapMayFail = FALSE => Ascending(AddedList(runQueue, v, prio), prio)
      BY <3>1, SortFacts, AddedEndsIdle, AddedInOrder DEF InOrder, SortInv
    <3> QED BY <2>1, <2>2, <2>3, <3>1
  <2>5. ASSUME NEW q \in Queue
        PROVE  InOrder(queue[q], td_priority')
    <3>1. \A u \in Thread : u \in ToSet(queue[q]) => td_priority'[u] = td_priority[u]
      BY <2>1, <2>2, HandleAssumption DEF KInv, Linked
    <3> QED BY <3>1, SortFacts, ChainFacts, OrderKept DEF InOrder, SortInv
  <2>6. \A u \in Alive' \ {Idle} : td_priority'[u] < IdlePriority
    <3>1. nutThreadList \in Seq(Thread)
      BY DEF KInv, TypeOK
    <3>2. Alive' = Alive \cup {v}
      BY <2>1, <3>1, ConsFacts DEF Alive
    <3> QED BY <2>1, <2>2, <3>2, SortFacts DEF SortInv, Lowest
  <2> QED BY <2>1, <2>2, <2>4, <2>5, <2>6 DEF SortInv, Lowest
<1>8. CASE NutThreadExit
  <2> DEFINE s == Unlink(runQueue, t)
  <2>1. /\ t \in Alive \ {Idle} /\ td_priority' = [td_priority EXCEPT ![t] = 255]
        /\ runQueue' = s /\ UNCHANGED queue /\ nutThreadList' = Unlink(nutThreadList, t)
        /\ td_queue[t] = RunQ
    BY <1>0, <1>8 DEF NutThreadExit, AppCalls
  <2>2. td_priority'[Idle] = IdlePriority /\ \A u \in Thread : u # t => td_priority'[u] = td_priority[u]
    BY <2>1, SortFacts DEF SortInv, Lowest
  <2>3. /\ s \in Seq(Thread) /\ EndsIdle(s) /\ t \notin ToSet(s)
        /\ HeapMayFail = FALSE => Ascending(s, td_priority)
    <3>1. td_priority \in [Thread -> Int]
      BY SortFacts, LevelFacts
    <3> QED BY <2>1, <3>1, SortFacts, UnlinkFacts, UnlinkedEndsIdle DEF SortInv
  <2> HIDE DEF s
  <2>4. HeapMayFail = FALSE => Ascending(s, td_priority')
    BY <2>2, <2>3, OrderKept
  <2>5. ASSUME NEW q \in Queue
        PROVE  InOrder(queue[q], td_priority')
    <3>1. \A u \in Thread : u \in ToSet(queue[q]) => td_priority'[u] = td_priority[u]
      BY <2>1, <2>2, HandleAssumption DEF KInv, Linked
    <3> QED BY <3>1, SortFacts, ChainFacts, OrderKept DEF InOrder, SortInv
  <2>6. \A u \in Alive' \ {Idle} : td_priority'[u] < IdlePriority
    <3>1. nutThreadList \in Seq(Thread) /\ NoDup(nutThreadList)
      BY DEF KInv, TypeOK, Linked
    <3>2. Alive' = Alive \ {t}
      BY <2>1, <3>1, UnlinkFacts DEF Alive
    <3> QED BY <2>2, <3>2, SortFacts DEF SortInv, Lowest
  <2> QED BY <2>1, <2>2, <2>3, <2>4, <2>5, <2>6 DEF SortInv, Lowest
<1> QED BY <1>1, <1>2, <1>3, <1>4, <1>5, <1>6, <1>7, <1>8 DEF Application, GiveUp

LEMMA SortKernel ==
    ASSUME KInv, SortInv, Kernel
    PROVE  SortInv'
<1>1. CASE \/ WaitNextRead \/ WaitReturn \/ PostIgnored \/ BroadcastNext \/ ScanSkip \/ ScanPost
           \/ ScanDone \/ TimerAdvance \/ ElapsedDone \/ NutThreadSwitch \/ NutThreadDestroy
           \/ \E h \in Timer : TimerStopped(h)
  <2>1. UNCHANGED <<runQueue, queue, td_priority, nutThreadList>>
    BY <1>1 DEF WaitNextRead, WaitReturn, PostIgnored, BroadcastNext, ScanSkip, ScanPost, ScanDone,
                TimerAdvance, ElapsedDone, NutThreadSwitch, NutThreadDestroy, TimerStopped, TimerElapses
  <2> QED BY <2>1, SortStep
<1>2. CASE WaitSignaled \/ PostMark
  <2>1. \A q \in Queue : queue'[q] = queue[q] \/ queue'[q] = <<>> \/ queue'[q] = <<SIGNALED>>
    BY <1>2, SortFacts DEF WaitSignaled, PostMark
  <2>2. UNCHANGED <<runQueue, td_priority, nutThreadList>>
    BY <1>2 DEF WaitSignaled, PostMark
  <2> QED BY <2>1, <2>2, SortStep
<1>3. CASE WaitEnqueue
  <2>1. runningThread \in Alive \ {Idle} /\ qh \in Queue
    BY <1>3 DEF WaitEnqueue, KInv, Control
  <2>2. \A q \in Queue : \/ queue'[q] = queue[q]
                         \/ queue'[q] = AddedList(queue[q], runningThread, td_priority)
    BY <1>3, SortFacts DEF WaitEnqueue
  <2>3. runQueue' = Unlink(runQueue, runningThread) /\ UNCHANGED <<td_priority, nutThreadList>>
    BY <1>3 DEF WaitEnqueue
  <2> QED BY <2>1, <2>2, <2>3, SortStep, SortFacts
<1>4. CASE PostWake
  <2>1. /\ root \in Thread /\ qh \in Queue /\ Root(qh) = root /\ td_queue[root] = qh
    BY <1>4, KFacts DEF PostWake, KInv, Control
  <2>2. queue[qh] # <<SIGNALED>> /\ 1 \in 1..Len(queue[qh])
    <3>1. queue[qh] \in Chain /\ RootOf(queue[qh]) \in Thread
      BY <2>1, SortFacts DEF Root
    <3>2. queue[qh] \in Seq(Thread) /\ Len(queue[qh]) >= 1 /\ queue[qh] # <<SIGNALED>>
      BY <3>1, RootFacts
    <3> QED BY <3>2, LenProperties
  <2>3. root \in Alive \ {Idle}
    BY <2>1, SortFacts, HandleAssumption DEF KInv, Linked
  <2>4. \A q \in Queue : \/ queue'[q] = queue[q]
                         \/ q = qh /\ queue'[q] = DetachedList(queue[q], 1, td_qpec)
    BY <1>4, SortFacts DEF PostWake
  <2>5. runQueue' = AddedList(runQueue, root, td_priority) /\ UNCHANGED <<td_priority, nutThreadList>>
    BY <1>4 DEF PostWake, MakeReady
  <2> QED BY <2>2, <2>3, <2>4, <2>5, SortStep
<1>5. CASE NutThreadYield
  <2>1. \/ runQueue' = runQueue
        \/ runningThread # Idle /\ runQueue' = Requeued(runningThread, td_priority)
    BY <1>5 DEF NutThreadYield, SortInv, EndsIdle
  <2>2. runningThread \in Alive /\ UNCHANGED <<queue, td_priority, nutThreadList>>
    BY <1>5 DEF NutThreadYield, KInv, Control
  <2> QED BY <2>1, <2>2, SortStep
<1>6. ASSUME NEW h \in Timer, NutEventTimeout(h)
      PROVE  SortInv'
  <2>1. UNCHANGED <<td_priority, nutThreadList>>
    BY <1>6 DEF NutEventTimeout, TimerElapses
  <2>2. CASE UNCHANGED <<queueVars, td_timer>>
    BY <2>1, <2>2, SortStep
  <2>3. ASSUME NEW i \in TimedOut(tn_arg[h], h),
               queue' = [queue EXCEPT ![tn_arg[h]] = DetachedList(@, i, td_qpec)],
               MakeReady(queue[tn_arg[h]][i])
        PROVE  SortInv'
    <3> DEFINE q == tn_arg[h]
               td == queue[q][i]
    <3>1. i \in 1..Len(queue[q]) /\ queue[q] # <<SIGNALED>> /\ td_timer[td] = h
      BY DEF TimedOut
    <3>2. CASE q \in Queue
      <4>1. queue[q] \in Seq(Thread) /\ td \in Thread /\ td \in ToSet(queue[q])
        BY <3>1, <3>2, SortFacts, ChainFacts, ElementOfSeq, ToSetFacts
      <4>2. td \in Alive \ {Idle}
        <5> HIDE DEF td, q
        <5>1. td_queue[td] = q /\ td \in Alive
          BY <3>2, <4>1, HandleAssumption DEF KInv, Linked
        <5>2. td_queue[Idle] = RunQ
          BY SortFacts DEF KInv, Linked
        <5> QED BY <3>2, <5>1, <5>2, HandleAssumption
      <4>3. \A r \in Queue : \/ queue'[r] = queue[r]
                             \/ r = q /\ queue'[r] = DetachedList(queue[r], i, td_qpec)
        BY <2>3, SortFacts
      <4>4. runQueue' = AddedList(runQueue, td, td_priority)
        BY <2>3 DEF MakeReady
      <4> HIDE DEF td, q
      <4> QED BY <2>1, <3>1, <4>2, <4>3, <4>4, SortStep
    <3>3. h \in ToSet(nutTimerList) /\ tn_callback[h] = "NutEventTimeout"
      BY <1>6, TimerElapsesFacts DEF NutEventTimeout
    <3>4. q \in Queue
      <4>1. PICK u \in Alive : td_timer[u] = h
        BY <3>3, HandleAssumption DEF KInv, Timed
      <4> QED BY <3>3, <4>1, SortFacts DEF KInv, Timed
    <3> QED BY <3>2, <3>4
  <2> QED BY <1>6, <2>2, <2>3 DEF NutEventTimeout
<1>7. ASSUME NEW h \in Timer, NutThreadWake(h)
      PROVE  SortInv'
  <2>1. /\ UNCHANGED <<td_priority, nutThreadList, queue>>
        /\ runQueue' = AddedList(runQueue, tn_arg[h], td_priority)
    BY <1>7 DEF NutThreadWake, TimerElapses, MakeReady
  <2>2. h \in ToSet(nutTimerList) /\ tn_callback[h] = "NutThreadWake"
    BY <1>7, TimerElapsesFacts DEF NutThreadWake
  <2>3. PICK u \in Alive : td_timer[u] = h
    BY <2>2, HandleAssumption DEF KInv, Timed
  <2>4. tn_arg[h] = u /\ td_queue[u] # RunQ
    BY <2>2, <2>3, SortFacts DEF KInv, Timed
  <2>5. u # Idle
    BY <2>4, SortFacts DEF KInv, Linked
  <2> QED BY <2>1, <2>3, <2>4, <2>5, SortStep
<1> QED BY <1>1, <1>2, <1>3, <1>4, <1>5, <1>6, <1>7 DEF Kernel

LEMMA SortInterrupt ==
    ASSUME KInv, SortInv, Interrupt
    PROVE  SortInv'
<1>1. \A q \in Queue : queue'[q] = queue[q] \/ queue'[q] = <<SIGNALED>>
  BY SortFacts DEF Interrupt, NutTimerIntr, NutEventPostFromIrq
<1>2. UNCHANGED <<runQueue, td_priority, nutThreadList>>
  BY DEF Interrupt, NutTimerIntr, NutEventPostFromIrq
<1> QED BY <1>1, <1>2, SortStep

LEMMA SortInit == Init => SortInv
<1> SUFFICES ASSUME Init PROVE SortInv
  OBVIOUS
<1> DEFINE l == <<Main, Idle>>
<1>1. /\ l \in Seq(Thread) /\ Len(l) = 2 /\ l[1] = Main /\ l[2] = Idle /\ Main # Idle /\ l # <<>>
  BY HandleAssumption
<1> HIDE DEF l
<1>2. /\ runQueue = l /\ nutThreadList = l /\ \A q \in Queue : queue[q] = <<>>
      /\ td_priority = [t \in Thread |-> IF t = Idle THEN IdlePriority ELSE DefaultPriority]
  BY DEF Init, l
<1>3. td_priority[Main] = 64 /\ td_priority[Idle] = 254
  BY <1>1, <1>2, HandleAssumption DEF IdlePriority, DefaultPriority
<1>4. Ascending(runQueue, td_priority) /\ EndsIdle(runQueue)
  BY <1>1, <1>2, <1>3, LastFacts, SMTT(45) DEF Ascending, EndsIdle
<1>5. \A q \in Queue : InOrder(queue[q], td_priority)
  BY <1>2, EmptyFacts DEF InOrder, Ascending
<1>6. Lowest(td_priority)
  <2>1. Alive \subseteq Thread
    BY <1>1, <1>2, ToSetFacts DEF Alive
  <2> QED BY <1>2, <1>3, <2>1 DEF Lowest, IdlePriority, DefaultPriority
<1> QED BY <1>4, <1>5, <1>6 DEF SortInv

LEMMA SortNext == KInv /\ SortInv /\ [Next]_vars => SortInv'
<1> SUFFICES ASSUME KInv, SortInv, [Next]_vars
             PROVE  SortInv'
  OBVIOUS
<1>1. CASE UNCHANGED vars
  BY <1>1, SortStep DEF vars
<1> QED BY <1>1, SortApplication, SortKernel, SortInterrupt DEF Next

LEMMA SortedFollows ==
    ASSUME KInv, SortInv
    PROVE  IdleLast /\ EventQueueSorted /\ (HeapMayFail = FALSE => QueuesSorted)
<1>1. IdleLast /\ EventQueueSorted
  BY KFacts, SortFacts DEF SortInv, EndsIdle, IdleLast, InOrder, EventQueueSorted
<1> QED BY <1>1 DEF SortInv, IdleLast, QueuesSorted, RunQueueSorted

LEMMA SortInvariant == Spec => [](KInv /\ SortInv)
<1>1. Spec => []SortInv
  BY KernelInvariant, SortInit, SortNext, PTL DEF Spec
<1> QED BY <1>1, KernelInvariant, PTL

(* Whatever order threads become ready, wait, yield, change priority and    *)
(* exit in, each event queue stays ordered by priority, and the idle thread *)
(* stays the end of the run queue, where NutThreadYield() looks for it,     *)
(* also when NutSleep() fails and puts its caller at the front.             *)
THEOREM EventQueuesStaySorted == Spec => [](IdleLast /\ EventQueueSorted)
BY SortInvariant, SortedFollows, PTL

(* With a heap that has room for every sleep's timer the run queue, too,    *)
(* stays ordered by priority.                                               *)
THEOREM QueuesStaySorted ==
    ASSUME HeapMayFail = FALSE
    PROVE  Spec => []QueuesSorted
<1>1. HeapMayFail = FALSE
  OBVIOUS
<1>2. KInv /\ SortInv => QueuesSorted
  BY <1>1, SortedFollows
<1> QED BY <1>2, SortInvariant, PTL

-----------------------------------------------------------------------------
(***************************************************************************)
(* The event queues of NutEvents.  What a list says of its queue: who waits *)
(* and how many events are held.                                            *)
(***************************************************************************)
Members(s) == IF s = <<SIGNALED>> THEN {} ELSE ToSet(s)

Held(s, qpec) == IF s = <<>> THEN 0 ELSE IF s = <<SIGNALED>> THEN 1 ELSE qpec[Head(s)]

LEMMA HeldFacts ==
    ASSUME NEW s \in Chain, NEW qpec \in [Thread -> Nat]
    PROVE  /\ Held(s, qpec) \in Nat /\ Members(s) \subseteq Thread
           /\ RootOf(s) \in Thread => Held(s, qpec) = qpec[RootOf(s)] /\ Members(s) = ToSet(s)
           /\ RootOf(s) \in Thread <=> Members(s) # {}
<1>1. CASE s = <<>>
  BY <1>1, EmptyFacts, RootFacts, HandleAssumption, SingleFacts DEF Held, Members
<1>2. CASE s = <<SIGNALED>>
  BY <1>2, RootFacts, HandleAssumption, SingleFacts DEF Held, Members
<1>3. CASE s # <<>> /\ s # <<SIGNALED>>
  <2>1. s \in Seq(Thread) /\ RootOf(s) = Head(s)
    BY <1>3, ChainFacts DEF RootOf
  <2>2. Head(s) \in Thread /\ Head(s) \in ToSet(s) /\ ToSet(s) \subseteq Thread
    BY <1>3, <2>1, TailFacts, ToSetFacts
  <2> QED BY <1>3, <2>1, <2>2 DEF Held, Members
<1> QED BY <1>1, <1>2, <1>3

LEMMA HeldKept ==
    ASSUME NEW s \in Chain, NEW qpec \in [Thread -> Nat], NEW qpec2,
           \A u \in Thread : u \in ToSet(s) => qpec2[u] = qpec[u]
    PROVE  Held(s, qpec2) = Held(s, qpec)
<1>1. CASE RootOf(s) \in Thread
  BY <1>1, RootFacts DEF Held, RootOf
<1>2. CASE RootOf(s) \notin Thread
  BY <1>2, RootFacts DEF Held
<1> QED BY <1>1, <1>2

(* The thread that is added takes events over, or leaves them to the head.  *)
LEMMA AddedHeld ==
    ASSUME NEW s \in Chain, NEW t \in Thread, NEW prio \in [Thread -> 0..255],
           NEW qpec \in [Thread -> Nat], t \notin ToSet(s), NoDup(s), HeadOnly(s, qpec)
    PROVE  /\ Held(AddedList(s, t, prio), AddedQpec(s, t, prio, qpec)) = Held(s, qpec)
           /\ Members(AddedList(s, t, prio)) = Members(s) \cup {t}
<1> DEFINE p == InsertPos(s, prio, prio[t])
           a == AddedQpec(s, t, prio, qpec)
           r == AddedList(s, t, prio)
<1>0. r \in Seq(Thread) /\ r # <<SIGNALED>> /\ \A u \in Thread : u \in ToSet(r) <=> u \in ToSet(s) \/ u = t
  BY AddedListFacts, ChainFacts, SMTT(45)
<1>1. Members(r) = Members(s) \cup {t}
  <2>1. ToSet(r) \subseteq Thread /\ Members(r) = ToSet(r)
    BY <1>0, ToSetFacts DEF Members
  <2>2. s # <<SIGNALED>> => ToSet(s) \subseteq Thread
    BY ChainFacts, ToSetFacts
  <2> QED BY <1>0, <2>1, <2>2, ChainFacts DEF Members
<1>2. CASE s = <<SIGNALED>>
  <2>1. a = [qpec EXCEPT ![t] = 1] /\ r = <<t>>
    BY <1>2 DEF AddedQpec, AddedList
  <2>2. Head(<<t>>) = t /\ <<t>> # <<>>
    BY SingleFacts
  <2> HIDE DEF r, a
  <2>3. Held(r, a) = a[t] /\ Held(s, qpec) = 1
    BY <1>0, <1>2, <2>1, <2>2, SingleFacts DEF Held
  <2>4. a[t] = 1
    BY <2>1
  <2> QED BY <1>1, <2>3, <2>4 DEF r, a
<1>3. CASE s # <<SIGNALED>>
  <2>0. prio \in [Thread -> Int] /\ prio[t] \in Int
    BY LevelFacts
  <2>1. s \in Seq(Thread) /\ Len(s) \in Nat
    BY <1>3, ChainFacts, LenProperties
  <2>2. p \in 1..(Len(s) + 1)
    BY <2>0, <2>1, InsertPosFacts
  <2>3. \A j \in 2..Len(s) : s[j] \in Thread /\ qpec[s[j]] = 0
    BY <2>1, HeadOnlyFacts
  <2>4. \A j \in 1..Len(s) : s[j] \in Thread /\ s[j] # t
    BY <2>1, ElementOfSeq, ToSetFacts
  <2>5. a = IF p <= Len(s) THEN [qpec EXCEPT ![t] = qpec[s[p]], ![s[p]] = 0]
            ELSE [qpec EXCEPT ![t] = 0]
    BY <1>3 DEF AddedQpec
  <2>6. r = InsertAt(s, p, t)
    BY <1>3 DEF AddedList, InsertBy
  <2> HIDE DEF p, a
  <2>7. r[1] = (IF 1 < p THEN s[1] ELSE t) /\ Len(r) = Len(s) + 1
    BY <2>1, <2>2, <2>6, InsertAtHead
  <2> HIDE DEF r
  <2>8. r # <<>> /\ Head(r) = r[1]
    BY <1>0, <2>1, <2>7, EmptyFacts, TailFacts
  <2>9. Held(r, a) = a[r[1]]
    BY <1>0, <2>8 DEF Held
  <2>10. ASSUME s = <<>> PROVE Held(r, a) = Held(s, qpec)
    <3>1. Len(s) = 0
      BY <2>10, EmptyFacts
    <3>2. p = 1 /\ ~(p <= Len(s)) /\ r[1] = t
      BY <2>2, <2>7, <3>1
    <3> QED BY <2>5, <2>9, <2>10, <3>2 DEF Held
  <2>11. ASSUME s # <<>> PROVE Held(r, a) = Held(s, qpec)
    <3>1. Len(s) >= 1 /\ Head(s) = s[1] /\ 1 \in 1..Len(s) /\ Held(s, qpec) = qpec[s[1]]
      BY <1>3, <2>1, <2>11, EmptySeq, TailFacts DEF Held
    <3>2. CASE p = 1
      BY <2>4, <2>5, <2>7, <2>9, <3>1, <3>2
    <3>3. CASE p > 1
      <4>1. r[1] = s[1] /\ s[1] # t /\ s[1] \in Thread
        BY <2>4, <2>7, <3>1, <3>3
      <4>2. a[s[1]] = qpec[s[1]]
        <5>1. CASE p <= Len(s)
          <6>1. p \in 2..Len(s) /\ qpec[s[p]] = 0 /\ s[p] \in Thread
            BY <2>1, <2>2, <2>3, <3>3, <5>1
          <6>2. s[p] # s[1]
            BY <2>1, <3>1, <6>1 DEF NoDup
          <6> QED BY <2>5, <4>1, <5>1, <6>1, <6>2
        <5>2. CASE ~(p <= Len(s))
          BY <2>5, <4>1, <5>2
        <5> QED BY <5>1, <5>2
      <4> QED BY <2>9, <3>1, <4>1, <4>2
    <3> QED BY <2>2, <3>2, <3>3
  <2> QED BY <1>1, <2>10, <2>11 DEF r, a
<1> QED BY <1>2, <1>3

(* A thread that leaves leaves its events to the next, or one to the queue. *)
LEMMA DetachedHeld ==
    ASSUME NEW s \in Seq(Thread), NEW i \in 1..Len(s), NEW qpec \in [Thread -> Nat],
           NoDup(s), HeadOnly(s, qpec)
    PROVE  /\ Held(DetachedList(s, i, qpec), DetachedQpec(s, i, qpec)) =
                  IF Members(s) = {s[i]} /\ Held(s, qpec) > 1 THEN 1 ELSE Held(s, qpec)
           /\ Members(DetachedList(s, i, qpec)) = Members(s) \ {s[i]}
           /\ s[i] \in Members(s) /\ Members(s) = ToSet(s)
<1> DEFINE d == DetachedList(s, i, qpec)
           a == DetachedQpec(s, i, qpec)
           r == RemoveAt(s, i)
<1>1. /\ Len(s) \in Nat /\ s # <<>> /\ s # <<SIGNALED>> /\ Head(s) = s[1] /\ Len(s) >= 1
      /\ 1 \in 1..Len(s)
  BY LenProperties, EmptyFacts, TailFacts, ChainFacts
<1>2. \A j \in 1..Len(s) : s[j] \in Thread /\ s[j] \in ToSet(s)
  BY ElementOfSeq, ToSetFacts
<1>3. \A j \in 2..Len(s) : qpec[s[j]] = 0
  BY HeadOnlyFacts
<1>4. /\ r \in Seq(Thread) /\ Len(r) = Len(s) - 1
      /\ \A j \in 1..(Len(s) - 1) : r[j] = IF j < i THEN s[j] ELSE s[j + 1]
  BY RemoveAtFacts
<1>5. ToSet(r) = ToSet(s) \ {s[i]} /\ r # <<SIGNALED>>
  BY <1>4, RemoveAtElements, ChainFacts
<1>6. d = r \o (IF i = Len(s) /\ qpec[s[i]] > 0 THEN <<SIGNALED>> ELSE <<>>)
  BY DEF DetachedList
<1>7. a = IF i < Len(s) /\ qpec[s[i]] > 0
          THEN [qpec EXCEPT ![s[i + 1]] = qpec[s[i]], ![s[i]] = 0]
          ELSE [qpec EXCEPT ![s[i]] = 0]
  BY DEF DetachedQpec
<1>8. Members(s) = ToSet(s) /\ Held(s, qpec) = qpec[s[1]] /\ qpec[s[1]] \in Nat
  BY <1>1, <1>2 DEF Members, Held
<1> HIDE DEF d, a, r
<1>9. CASE Len(s) = 1
  <2>1. i = 1 /\ r = <<>>
    BY <1>4, <1>9, EmptySeq
  <2>2. ToSet(s) = {s[1]}
    BY <1>5, <1>2, <1>1, <2>1, EmptyFacts
  <2>3. CASE qpec[s[1]] > 0
    <3>1. d = <<SIGNALED>>
      BY <1>6, <1>9, <2>1, <2>3
    <3>2. Held(d, a) = 1 /\ Members(d) = {}
      BY <3>1, SingleFacts DEF Held, Members
    <3> QED BY <1>2, <1>8, <2>1, <2>2, <2>3, <3>2 DEF d, a
  <2>4. CASE ~(qpec[s[1]] > 0)
    <3>1. d = <<>>
      <4>1. d = <<>> \o <<>>
        BY <1>6, <2>1, <2>4
      <4> QED BY <4>1, ConcatEmptySeq
    <3>2. Held(d, a) = 0 /\ Members(d) = {}
      BY <3>1, SingleFacts, EmptyFacts DEF Held, Members
    <3> QED BY <1>2, <1>8, <2>1, <2>2, <2>4, <3>2 DEF d, a
  <2> QED BY <2>3, <2>4
<1>10. CASE Len(s) > 1
  <2>1. Len(r) >= 1 /\ r # <<>> /\ Head(r) = r[1]
    BY <1>1, <1>4, <1>10, EmptyFacts, TailFacts
  <2>2. ~(i = Len(s) /\ qpec[s[i]] > 0)
    BY <1>3, <1>10
  <2>3. d = r
    <3>1. d = r \o <<>>
      BY <1>6, <2>2
    <3> QED BY <1>4, <3>1, ConcatEmptySeq
  <2>4. Members(d) = Members(s) \ {s[i]} /\ Held(d, a) = a[r[1]]
    BY <1>5, <1>8, <2>1, <2>3 DEF Members, Held
  <2>5. Members(s) # {s[i]}
    <3>1. 2 \in 1..Len(s) /\ s[1] # s[2] /\ s[1] \in ToSet(s) /\ s[2] \in ToSet(s)
      BY <1>1, <1>2, <1>10 DEF NoDup
    <3> QED BY <1>8, <3>1
  <2>6. a[r[1]] = qpec[s[1]]
    <3>1. CASE i = 1
      <4>1. r[1] = s[2] /\ 2 \in 1..Len(s) /\ s[1] # s[2] /\ qpec[s[2]] = 0
        BY <1>1, <1>3, <1>4, <1>10, <3>1 DEF NoDup
      <4> QED BY <1>2, <1>7, <1>8, <1>10, <3>1, <4>1
    <3>2. CASE i > 1
      <4>1. r[1] = s[1] /\ s[i] # s[1] /\ qpec[s[i]] = 0
        BY <1>1, <1>3, <1>4, <1>10, <3>2 DEF NoDup
      <4> QED BY <1>1, <1>2, <1>7, <4>1
    <3> QED BY <3>1, <3>2
  <2> QED BY <1>2, <1>8, <2>4, <2>5, <2>6 DEF d, a
<1>11. Len(s) = 1 \/ Len(s) > 1
  <2> DEFINE n == Len(s)
  <2>1. n \in Nat /\ n >= 1
    BY <1>1
  <2> HIDE DEF n
  <2>2. n = 1 \/ n > 1
    BY <2>1
  <2> QED BY <2>2 DEF n
<1> QED BY <1>9, <1>10, <1>11

-----------------------------------------------------------------------------
(* The view of a state.                                                     *)
LEMMA ViewFacts ==
    ASSUME KInv
    PROVE  /\ td_qpec \in [Thread -> Nat] /\ queue \in [Queue -> Chain]
           /\ \A q \in Queue :
                 /\ Waiting(q) = Members(queue[q]) /\ Waiting(q) \subseteq Thread
                 /\ Held(queue[q], td_qpec) \in Nat
                 /\ Posted(q) = Held(queue[q], td_qpec) + (IF Root(q) \in Thread THEN InFlight(q) ELSE 0)
                 /\ Root(q) \in Thread <=> Waiting(q) # {}
           /\ \A q \in Queue : \A t \in Thread : t \in Waiting(q) <=> td_queue[t] = q
<1>1. td_qpec \in [Thread -> Nat] /\ queue \in [Queue -> Chain]
  BY SortFacts
<1>2. ASSUME NEW q \in Queue
      PROVE  /\ Waiting(q) = Members(queue[q]) /\ Waiting(q) \subseteq Thread
             /\ Held(queue[q], td_qpec) \in Nat
             /\ Posted(q) = Held(queue[q], td_qpec) + (IF Root(q) \in Thread THEN InFlight(q) ELSE 0)
             /\ Root(q) \in Thread <=> Waiting(q) # {}
  <2> DEFINE s == queue[q]
  <2>1. s \in Chain
    BY <1>1
  <2> HIDE DEF s
  <2>2. /\ Held(s, td_qpec) \in Nat /\ Members(s) \subseteq Thread
        /\ RootOf(s) \in Thread <=> Members(s) # {}
        /\ RootOf(s) \in Thread <=> s # <<>> /\ s # <<SIGNALED>>
    BY <1>1, <2>1, HeldFacts, RootFacts, HandleAssumption
  <2>3. Waiting(q) = Members(s) /\ Root(q) = RootOf(s)
    BY DEF Waiting, Members, Root, s
  <2>4. Posted(q) = Held(s, td_qpec) + (IF Root(q) \in Thread THEN InFlight(q) ELSE 0)
    BY <2>2, <2>3 DEF Posted, Held, s
  <2> QED BY <2>2, <2>3, <2>4 DEF s
<1>3. ASSUME NEW q \in Queue, NEW t \in Thread
      PROVE  t \in Waiting(q) <=> td_queue[t] = q
  BY ChainFacts DEF Waiting, KInv, Linked
<1> QED BY <1>1, <1>2, <1>3

SameMarks == \A t \in Thread : td_timer'[t] = SIGNALED <=> td_timer[t] = SIGNALED
SameQueue(q) == Waiting(q)' = Waiting(q) /\ Posted(q)' = Posted(q)

LEMMA EventsStutter ==
    ASSUME \A q \in Queue : SameQueue(q), SameMarks, td_priority' = td_priority
    PROVE  UNCHANGED Events!vars
<1>1. [q \in Queue |-> Waiting(q)]' = [q \in Queue |-> Waiting(q)]
  BY DEF SameQueue
<1>2. [q \in Queue |-> Posted(q)]' = [q \in Queue |-> Posted(q)]
  BY DEF SameQueue
<1>3. {t \in Thread : td_timer[t] = SIGNALED}' = {t \in Thread : td_timer[t] = SIGNALED}
  BY DEF SameMarks
<1> QED BY <1>1, <1>2, <1>3 DEF Events!vars

(* The view of the state a step leads to.                                   *)
LEMMA NextView ==
    ASSUME NEW q \in Queue, queue'[q] \in Chain, td_qpec' \in [Thread -> Nat]
    PROVE  /\ Waiting(q)' = Members(queue'[q])
           /\ Posted(q)' = Held(queue'[q], td_qpec')
                            + (IF RootOf(queue'[q]) \in Thread THEN InFlight(q)' ELSE 0)
<1> DEFINE s == queue'[q]
           a == td_qpec'
<1>1. Waiting(q)' = Members(s)
  BY DEF Waiting, Members
<1>2. Posted(q)' = IF s = <<>> THEN 0 ELSE IF s = <<SIGNALED>> THEN 1 ELSE a[Head(s)] + InFlight(q)'
  BY DEF Posted
<1>3. s \in Chain /\ a \in [Thread -> Nat]
  OBVIOUS
<1> HIDE DEF s, a
<1>4. RootOf(s) \in Thread <=> s # <<>> /\ s # <<SIGNALED>>
  BY <1>3, RootFacts, HandleAssumption
<1>5. Posted(q)' = Held(s, a) + (IF RootOf(s) \in Thread THEN InFlight(q)' ELSE 0)
  BY <1>2, <1>4 DEF Held
<1> QED BY <1>1, <1>5 DEF s, a

LEMMA NextTypes ==
    ASSUME KInv'
    PROVE  td_qpec' \in [Thread -> Nat] /\ \A q \in Queue : queue'[q] \in Chain
BY DEF KInv, TypeOK, Chain

(* The queues a step leaves alone.                                          *)
LEMMA SameQueues ==
    ASSUME KInv, KInv', NEW q \in Queue, queue'[q] = queue[q], InFlight(q)' = InFlight(q),
           \A u \in Thread : td_queue[u] = q => td_qpec'[u] = td_qpec[u]
    PROVE  SameQueue(q)
<1> DEFINE s == queue[q]
<1>1. s \in Chain /\ \A u \in Thread : u \in ToSet(s) => td_qpec'[u] = td_qpec[u]
  BY ViewFacts DEF KInv, Linked
<1>2. Held(s, td_qpec') = Held(s, td_qpec)
  BY <1>1, ViewFacts, HeldKept
<1>3. /\ Waiting(q)' = Members(queue'[q])
      /\ Posted(q)' = Held(queue'[q], td_qpec')
                       + (IF RootOf(queue'[q]) \in Thread THEN InFlight(q)' ELSE 0)
  BY NextTypes, NextView
<1>4. /\ Waiting(q) = Members(s)
      /\ Posted(q) = Held(s, td_qpec) + (IF Root(q) \in Thread THEN InFlight(q) ELSE 0)
  BY ViewFacts
<1> QED BY <1>2, <1>3, <1>4 DEF SameQueue, Root

LEMMA EventsFrame ==
    ASSUME KInv, KInv', UNCHANGED <<queue, td_qpec, td_priority>>, SameMarks,
           \A q \in Queue : InFlight(q)' = InFlight(q)
    PROVE  UNCHANGED Events!vars
BY SameQueues, EventsStutter

SameOthers(q) == \A r \in Queue : r # q => SameQueue(r)

LEMMA EventsMark ==
    ASSUME KInv, KInv', NEW q \in Queue, NEW s \in {<<>>, <<SIGNALED>>}, Waiting(q) = {},
           queue' = [queue EXCEPT ![q] = s], UNCHANGED <<td_qpec, td_priority>>, SameMarks,
           \A r \in Queue : r # q => InFlight(r)' = InFlight(r)
    PROVE  Events!Signal(q) \/ Events!Consume(q)
<1>1. queue'[q] = s /\ \A r \in Queue : r # q => queue'[r] = queue[r]
  BY ViewFacts
<1>2. SameOthers(q)
  BY <1>1, SameQueues DEF SameOthers
<1>3. Waiting(q)' = {} /\ Posted(q)' = IF s = <<>> THEN 0 ELSE 1
  BY <1>1, EmptyFacts, SingleFacts DEF Waiting, Posted
<1>4. UNCHANGED [r \in Queue |-> Waiting(r)]
  BY <1>2, <1>3 DEF SameOthers, SameQueue
<1>5. [r \in Queue |-> Posted(r)]' = [[r \in Queue |-> Posted(r)] EXCEPT ![q] = IF s = <<>> THEN 0 ELSE 1]
  BY <1>2, <1>3 DEF SameOthers, SameQueue
<1>6. UNCHANGED {t \in Thread : td_timer[t] = SIGNALED}
  BY DEF SameMarks
<1>7. [r \in Queue |-> Waiting(r)][q] = {}
  OBVIOUS
<1>8. CASE s = <<>>
  BY <1>4, <1>5, <1>6, <1>7, <1>8 DEF Events!Consume
<1>9. CASE s = <<SIGNALED>>
  <2>1. s # <<>>
    BY <1>9, SingleFacts
  <2> QED BY <1>4, <1>5, <1>6, <1>7, <2>1 DEF Events!Signal
<1> QED BY <1>8, <1>9

LEMMA EventsLeave ==
    ASSUME NEW q \in Queue, NEW t \in Thread, NEW n, t \in Waiting(q), SameOthers(q),
           Waiting(q)' = Waiting(q) \ {t},
           Posted(q)' = IF Waiting(q) = {t} /\ n > 1 THEN 1 ELSE n
    PROVE  Events!Leave(q, t, n)
<1>1. [r \in Queue |-> Waiting(r)]' = [[r \in Queue |-> Waiting(r)] EXCEPT ![q] = @ \ {t}]
  BY DEF SameOthers, SameQueue
<1>2. [r \in Queue |-> Posted(r)]' =
          [[r \in Queue |-> Posted(r)] EXCEPT ![q] = IF Waiting(q) = {t} /\ n > 1 THEN 1 ELSE n]
  BY DEF SameOthers, SameQueue
<1> QED BY <1>1, <1>2 DEF Events!Leave

(* A thread leaves an event queue and becomes ready.                        *)
LEMMA EventsDetached ==
    ASSUME KInv, KInv', NEW q \in Queue, NEW i, NEW t, LeavesQueue(q, i, t),
           \A r \in Queue : InFlight(r)' = 0 /\ (r # q => InFlight(r) = 0)
    PROVE  LET n == Held(queue[q], td_qpec) IN
           /\ t \in Thread /\ t \in Waiting(q) /\ SameOthers(q)
           /\ Waiting(q)' = Waiting(q) \ {t}
           /\ Posted(q)' = IF Waiting(q) = {t} /\ n > 1 THEN 1 ELSE n
<1> DEFINE s == queue[q]
           d == DetachedList(s, i, td_qpec)
           a == DetachedQpec(s, i, td_qpec)
           n == Held(s, td_qpec)
<1>1. /\ s \in Seq(Thread) /\ i \in 1..Len(s) /\ t = s[i] /\ NoDup(s) /\ HeadOnly(s, td_qpec)
      /\ td_qpec \in [Thread -> Nat] /\ queue' = [queue EXCEPT ![q] = d] /\ queue \in [Queue -> Chain]
  BY KFacts, ViewFacts DEF LeavesQueue
<1>2. t \in Thread /\ td_qpec' = a
  BY LeavesQueueFacts
<1>3. queue'[q] = d /\ \A r \in Queue : r # q => queue'[r] = queue[r]
  BY <1>1
<1>4. /\ Held(d, a) = IF Members(s) = {t} /\ n > 1 THEN 1 ELSE n
      /\ Members(d) = Members(s) \ {t}
      /\ t \in Members(s)
  <2> HIDE DEF s
  <2> QED BY <1>1, DetachedHeld
<1>5. Waiting(q) = Members(s)
  BY ViewFacts
<1>6. Waiting(q)' = Members(d) /\ Posted(q)' = Held(d, a)
  <2>1. /\ Waiting(q)' = Members(queue'[q])
        /\ Posted(q)' = Held(queue'[q], td_qpec')
                        + (IF RootOf(queue'[q]) \in Thread THEN InFlight(q)' ELSE 0)
    BY NextTypes, NextView
  <2>2. Held(queue'[q], td_qpec') \in Nat
    BY NextTypes, HeldFacts
  <2>3. Posted(q)' = Held(queue'[q], td_qpec')
    BY <2>1, <2>2
  <2> QED BY <1>2, <1>3, <2>1, <2>3
<1>7. SameOthers(q)
  <2> SUFFICES ASSUME NEW r \in Queue, r # q
               PROVE  SameQueue(r)
    BY DEF SameOthers
  <2>1. \A u \in Thread : td_queue[u] = r => td_qpec'[u] = td_qpec[u]
    <3>1. \A u \in Thread : td_queue[u] = r => u \notin ToSet(s)
      BY DEF KInv, Linked
    <3> HIDE DEF s, a
    <3>2. \A u \in Thread : u \notin ToSet(s) => a[u] = td_qpec[u]
      BY <1>1, DetachedFacts DEF a
    <3> QED BY <1>2, <3>1, <3>2
  <2> QED BY <1>3, <2>1, SameQueues
<1> HIDE DEF d, a
<1> QED BY <1>2, <1>4, <1>5, <1>6, <1>7

(* Changing the priority of a thread that waits nowhere.                    *)
LEMMA EventsPrio ==
    ASSUME KInv, KInv', NEW t \in Thread, NEW level, UNCHANGED <<queue, td_qpec>>, SameMarks,
           td_priority' = [td_priority EXCEPT ![t] = level], td_queue[t] \notin Queue,
           \A q \in Queue : InFlight(q)' = InFlight(q)
    PROVE  Events!SetPrio(t)
<1>1. \A q \in Queue : SameQueue(q) /\ t \notin Waiting(q)
  BY SameQueues, ViewFacts
<1>2. UNCHANGED [q \in Queue |-> Waiting(q)] /\ UNCHANGED [q \in Queue |-> Posted(q)]
  BY <1>1 DEF SameQueue
<1>3. UNCHANGED {u \in Thread : td_timer[u] = SIGNALED}
  BY DEF SameMarks
<1>4. td_priority'[t] \in Nat /\ td_priority' = [td_priority EXCEPT ![t] = td_priority'[t]]
  <2>1. td_priority \in [Thread -> 0..255] /\ td_priority' \in [Thread -> 0..255]
    BY DEF KInv, TypeOK
  <2> QED BY <2>1
<1>5. \A q \in Queue : t \notin [r \in Queue |-> Waiting(r)][q]
  BY <1>1
<1> QED BY <1>2, <1>3, <1>4, <1>5 DEF Events!SetPrio

-----------------------------------------------------------------------------
LEMMA EventsApplication ==
    ASSUME KInv, KInv', Application
    PROVE  [Events!Next]_Events!vars
<1> DEFINE t == runningThread
<1>0. /\ t \in Thread /\ NULL # SIGNALED /\ SIGNALED \notin Timer
      /\ td_timer \in [Thread -> Timer \cup {NULL, SIGNALED}]
      /\ td_queue \in [Thread -> Queue \cup {RunQ, NULL}] /\ RunQ \notin Queue /\ NULL \notin Queue
      /\ runQueue \in Chain /\ td_priority \in [Thread -> 0..255] /\ td_qpec \in [Thread -> Nat]
      /\ td_priority' \in [Thread -> 0..255]
  BY HandleAssumption, SortFacts DEF KInv, TypeOK
<1>1. pc = "app" => /\ td_queue[t] = RunQ /\ td_timer[t] # SIGNALED /\ t \in Ready
  BY <1>0 DEF KInv, Control, Linked, Timed, Broadcasting
<1>2. CASE \/ YieldCall
           \/ \E q \in Queue, d \in Delay \cup {0} : NutEventWait(q, d)
           \/ \E q \in Queue : \/ EventPost("NutEventPostAsync", q, "app")
                               \/ EventPost("NutEventPost", q, "yield")
  <2>1. UNCHANGED <<queue, td_qpec, td_priority, td_timer>> /\ pc # "post"
    BY <1>2 DEF YieldCall, NutEventWait, EventPost, AppCalls
  <2>2. pc' # "post" \/ ret' # "scan"
    BY <1>2 DEF YieldCall, NutEventWait, EventPost, CallPost
  <2> QED BY <2>1, <2>2, EventsFrame DEF SameMarks, InFlight
<1>3. ASSUME NEW q \in Queue, NEW d \in Delay \cup {0}, NutEventWaitNext(q, d)
      PROVE  [Events!Next]_Events!vars
  <2>1. /\ queue' = [queue EXCEPT ![q] = IF queue[q] = <<SIGNALED>> THEN <<>> ELSE queue[q]]
        /\ UNCHANGED <<td_qpec, td_priority, td_timer>> /\ pc = "app" /\ pc' = "waitnext"
    BY <1>3 DEF NutEventWaitNext, AppCalls
  <2>2. SameMarks /\ \A r \in Queue : InFlight(r)' = InFlight(r)
    BY <2>1 DEF SameMarks, InFlight
  <2>3. CASE queue[q] = <<SIGNALED>>
    <3>1. Waiting(q) = {} /\ queue' = [queue EXCEPT ![q] = <<>>]
      BY <2>1, <2>3 DEF Waiting
    <3> QED BY <2>1, <2>2, <3>1, EventsMark DEF Events!Next
  <2>4. CASE queue[q] # <<SIGNALED>>
    <3>1. queue' = queue
      BY <2>1, <2>4, ViewFacts
    <3> QED BY <2>1, <2>2, <3>1, EventsFrame
  <2> QED BY <2>3, <2>4
<1>4. ASSUME NEW q \in Queue, NEW c, NEW r \in Broadcasting, NutEventBroadcast(c, q, r)
      PROVE  [Events!Next]_Events!vars
  <2>1. UNCHANGED <<td_qpec, td_priority, td_timer>> /\ pc = "app"
    BY <1>4 DEF NutEventBroadcast, AppCalls
  <2>2. CASE Root(q) \in Thread
    <3>1. queue' = queue /\ ret' = r
      BY <1>4, <2>2 DEF NutEventBroadcast, CallPost
    <3> QED BY <2>1, <3>1, EventsFrame DEF SameMarks, InFlight, Broadcasting
  <2>3. CASE Root(q) \notin Thread
    <3>1. queue' = [queue EXCEPT ![q] = <<>>] /\ pc' \in {"yield", "app"}
      BY <1>4, <2>3 DEF NutEventBroadcast
    <3>2. Waiting(q) = {}
      BY <2>3, ViewFacts
    <3>3. SameMarks /\ \A x \in Queue : InFlight(x)' = InFlight(x)
      BY <2>1, <3>1 DEF SameMarks, InFlight
    <3> QED BY <2>1, <3>1, <3>2, <3>3, EventsMark DEF Events!Next
  <2> QED BY <2>2, <2>3
<1>5. ASSUME NEW d \in Delay, NutSleep(d)
      PROVE  [Events!Next]_Events!vars
  <2>1. UNCHANGED <<queue, td_qpec, td_priority>> /\ pc = "app" /\ pc' = "scan"
    BY <1>5 DEF NutSleep, AppCalls
  <2>2. PICK h \in Timer : td_timer' = [td_timer EXCEPT ![t] = h]
    BY <1>5 DEF NutSleep, NutTimerStart, FreeTimers
  <2>3. SameMarks
    BY <1>0, <1>1, <2>1, <2>2 DEF SameMarks
  <2> QED BY <2>1, <2>3, EventsFrame DEF InFlight
<1>6. CASE SleepFails
  <2>1. /\ UNCHANGED <<queue, td_qpec, td_priority, pc>> /\ pc = "app"
        /\ td_timer' = [td_timer EXCEPT ![t] = NULL]
    BY <1>6 DEF SleepFails, AppCalls
  <2>2. SameMarks
    BY <1>0, <1>1, <2>1 DEF SameMarks
  <2> QED BY <2>1, <2>2, EventsFrame DEF InFlight
<1>7. ASSUME NEW level \in Priority, NutThreadSetPriority(level)
      PROVE  [Events!Next]_Events!vars
  <2>1. /\ td_priority' = [td_priority EXCEPT ![t] = level] /\ UNCHANGED <<queue, td_timer>>
        /\ pc = "app" /\ pc' = "switch"
        /\ td_qpec' = AddedQpec(Unlink(runQueue, t), t, td_priority', td_qpec)
    BY <1>7 DEF NutThreadSetPriority, AppCalls
  <2>2. td_qpec' = td_qpec
    <3>1. \A prio \in [Thread -> 0..255] : AddedQpec(Unlink(runQueue, t), t, prio, td_qpec) = td_qpec
      BY <1>1, <2>1, RequeuedFacts
    <3> QED BY <1>0, <2>1, <3>1
  <2>3. SameMarks /\ \A q \in Queue : InFlight(q)' = InFlight(q)
    BY <2>1 DEF SameMarks, InFlight
  <2> QED BY <1>0, <1>1, <2>1, <2>2, <2>3, EventsPrio DEF Events!Next
<1>8. ASSUME NEW u \in Thread, NutThreadCreate(u)
      PROVE  [Events!Next]_Events!vars
  <2>1. /\ td_priority' = [td_priority EXCEPT ![u] = DefaultPriority] /\ UNCHANGED queue
        /\ td_timer' = [td_timer EXCEPT ![u] = NULL]
        /\ pc = "app" /\ pc' = "switch" /\ u \notin Alive
        /\ td_qpec' = AddedQpec(runQueue, u, td_priority', td_qpec)
    BY <1>8 DEF NutThreadCreate, AppCalls
  <2>2. td_queue[u] = NULL /\ td_timer[u] # SIGNALED /\ u \notin Ready /\ td_qpec[u] = 0
    <3>1. td_queue[u] = NULL
      BY <2>1 DEF KInv, Linked
    <3> QED BY <1>0, <3>1, KFacts, HandleAssumption DEF KInv, Timed, Linked
  <2>3. td_qpec' = td_qpec
    <3>1. Quiet(runQueue, td_qpec)
      BY KFacts DEF Quiet, Ready
    <3>2. ASSUME NEW prio \in [Thread -> 0..255]
          PROVE  AddedQpec(runQueue, u, prio, td_qpec) = [td_qpec EXCEPT ![u] = 0]
      <4>1. u \notin Ready /\ td_qpec \in [Thread -> Nat]
        BY <1>0, <2>2
      <4> QED BY <3>1, <4>1, JoinReadyFacts
    <3>3. [td_qpec EXCEPT ![u] = 0] = td_qpec
      BY <1>0, <2>2
    <3> QED BY <1>0, <2>1, <3>2, <3>3
  <2>4. SameMarks /\ \A q \in Queue : InFlight(q)' = InFlight(q)
    BY <1>0, <2>1, <2>2 DEF SameMarks, InFlight
  <2> QED BY <1>0, <2>1, <2>2, <2>3, <2>4, EventsPrio DEF Events!Next
<1>9. CASE NutThreadExit
  <2>1. /\ td_priority' = [td_priority EXCEPT ![t] = 255] /\ UNCHANGED <<queue, td_timer, td_qpec>>
        /\ pc = "app" /\ pc' = "switch"
    BY <1>9 DEF NutThreadExit, AppCalls
  <2>2. SameMarks /\ \A q \in Queue : InFlight(q)' = InFlight(q)
    BY <2>1 DEF SameMarks, InFlight
  <2> QED BY <1>0, <1>1, <2>1, <2>2, EventsPrio, ZenonT(60) DEF Events!Next
<1> QED BY <1>2, <1>3, <1>4, <1>5, <1>6, <1>7, <1>8, <1>9 DEF Application, GiveUp, Broadcasting

(* NutEventWait() enters the queue.                                         *)
LEMMA EventsJoin ==
    ASSUME KInv, KInv', WaitEnqueue
    PROVE  Events!Next
<1> DEFINE t == runningThread
<1>0. PICK q \in Queue : q = qh
  BY DEF WaitEnqueue, KInv, Control
<1> DEFINE s == queue[q]
<1>1. /\ pc = "wait" /\ t \in Thread /\ td_queue[t] = RunQ
      /\ td_timer[t] # SIGNALED
      /\ queue' = [queue EXCEPT ![q] = AddedList(s, t, td_priority)]
      /\ td_qpec' = AddedQpec(s, t, td_priority, td_qpec) /\ td_priority' = td_priority /\ pc' = "scan"
  BY <1>0 DEF WaitEnqueue, KInv, Control, TypeOK, Linked, Timed, Broadcasting
<1>2. /\ td_priority \in [Thread -> 0..255] /\ td_qpec \in [Thread -> Nat] /\ queue \in [Queue -> Chain]
      /\ td_timer \in [Thread -> Timer \cup {NULL, SIGNALED}] /\ SIGNALED \notin Timer /\ NULL # SIGNALED
      /\ RunQ \notin Queue
  BY SortFacts, HandleAssumption DEF KInv, TypeOK
<1>3. s \in Chain /\ NoDup(s) /\ HeadOnly(s, td_qpec) /\ t \notin ToSet(s)
  BY <1>1, <1>2, KFacts DEF KInv, Linked
<1>4. /\ queue'[q] = AddedList(s, t, td_priority)
      /\ \A r \in Queue : r # q => queue'[r] = queue[r]
  BY <1>1, <1>2
<1>5. /\ Held(queue'[q], td_qpec') = Held(s, td_qpec)
      /\ Members(queue'[q]) = Members(s) \cup {t}
  <2> HIDE DEF s, t
  <2> QED BY <1>1, <1>2, <1>3, <1>4, AddedHeld
<1>6. \A r \in Queue : InFlight(r) = 0 /\ InFlight(r)' = 0
  BY <1>1 DEF InFlight
<1>7. Waiting(q)' = Waiting(q) \cup {t} /\ Posted(q)' = Posted(q)
  <2>1. /\ Waiting(q)' = Members(queue'[q])
        /\ Posted(q)' = Held(queue'[q], td_qpec')
                        + (IF RootOf(queue'[q]) \in Thread THEN InFlight(q)' ELSE 0)
    BY NextTypes, NextView
  <2>2. /\ Waiting(q) = Members(s) /\ Held(s, td_qpec) \in Nat
        /\ Posted(q) = Held(s, td_qpec) + (IF Root(q) \in Thread THEN InFlight(q) ELSE 0)
    BY ViewFacts
  <2>3. Posted(q)' = Held(queue'[q], td_qpec') + 0 /\ Posted(q) = Held(s, td_qpec) + 0
    BY <1>6, <2>1, <2>2
  <2> QED BY <1>5, <2>1, <2>2, <2>3
<1>8. SameOthers(q)
  <2> SUFFICES ASSUME NEW r \in Queue, r # q
               PROVE  SameQueue(r)
    BY DEF SameOthers
  <2>1. \A u \in Thread : td_queue[u] = r => td_qpec'[u] = td_qpec[u]
    <3>1. \A u \in Thread : td_queue[u] = r => u \notin ToSet(s) /\ u # t
      BY <1>1, <1>2 DEF KInv, Linked
    <3> HIDE DEF s, t
    <3>2. \A u \in Thread : u \notin ToSet(s) /\ u # t => AddedQpec(s, t, td_priority, td_qpec)[u] = td_qpec[u]
      BY <1>1, <1>2, <1>3, AddedQpecFacts
    <3> QED BY <1>1, <3>1, <3>2
  <2> QED BY <1>4, <1>6, <2>1, SameQueues
<1>9. SameMarks
  <2>1. \E x \in Timer \cup {NULL} : td_timer' = [td_timer EXCEPT ![t] = x]
    BY DEF WaitEnqueue, NutTimerStart, FreeTimers
  <2> QED BY <1>1, <1>2, <2>1 DEF SameMarks
<1>10. Events!Join(q, t)
  <2>1. [r \in Queue |-> Waiting(r)]' = [[r \in Queue |-> Waiting(r)] EXCEPT ![q] = @ \cup {t}]
    BY <1>7, <1>8 DEF SameOthers, SameQueue
  <2>2. UNCHANGED [r \in Queue |-> Posted(r)]
    BY <1>7, <1>8 DEF SameOthers, SameQueue
  <2>3. UNCHANGED {u \in Thread : td_timer[u] = SIGNALED}
    BY <1>9 DEF SameMarks
  <2>4. \A r \in Queue : t \notin [p \in Queue |-> Waiting(p)][r]
    BY <1>1, <1>2, ViewFacts
  <2> QED BY <1>1, <2>1, <2>2, <2>3, <2>4 DEF Events!Join
<1> QED BY <1>1, <1>10 DEF Events!Next

(* NutEventPostAsync() wakes the thread at the head, with an event of its   *)
(* own or with one an interrupt has posted.                                 *)
LEMMA EventsWake ==
    ASSUME KInv, KInv', SortInv, PostWake
    PROVE  Events!Next
<1> DEFINE t == root
<1>0. PICK q \in Queue : q = qh
  BY DEF PostWake, KInv, Control
<1> DEFINE s == queue[q]
           n == Held(s, td_qpec)
<1>1. /\ pc = "post" /\ t \in Thread /\ Root(q) = t /\ pc' = ret
      /\ ret \in {"app", "yield", "scan"} \cup Broadcasting
      /\ td_timer' = [td_timer EXCEPT ![t] = NULL] /\ td_priority' = td_priority
  BY <1>0 DEF PostWake, KInv, Control, ReturnFromPost
<1>2. s \in Seq(Thread) /\ 1 \in 1..Len(s) /\ t = s[1] /\ s # <<SIGNALED>>
  <2>1. s \in Chain /\ RootOf(s) \in Thread /\ RootOf(s) = t
    BY <1>1, ViewFacts DEF Root
  <2> HIDE DEF s
  <2>2. s \in Seq(Thread) /\ Len(s) >= 1 /\ t = s[1] /\ s # <<SIGNALED>>
    BY <2>1, RootFacts
  <2> QED BY <2>2, LenProperties
<1>3. LeavesQueue(q, 1, t)
  BY <1>0, <1>2 DEF LeavesQueue, PostWake
<1>4. \A r \in Queue : InFlight(r)' = 0 /\ (r # q => InFlight(r) = 0)
  BY <1>0, <1>1 DEF InFlight, Broadcasting
<1>5. /\ t \in Waiting(q) /\ SameOthers(q) /\ Waiting(q)' = Waiting(q) \ {t}
      /\ Posted(q)' = IF Waiting(q) = {t} /\ n > 1 THEN 1 ELSE n
  <2> HIDE DEF t
  <2> QED BY <1>3, <1>4, EventsDetached
<1>6. SameMarks
  <2>1. td_timer[t] # SIGNALED
    <3>1. td_queue[t] = q /\ q # RunQ
      BY <1>1, <1>5, ViewFacts, HandleAssumption
    <3>2. \A u \in Thread : td_timer[u] = SIGNALED => td_queue[u] = RunQ
      BY DEF KInv, Timed
    <3>3. t \in Thread
      BY <1>1
    <3> HIDE DEF t
    <3> QED BY ONLY <3>1, <3>2, <3>3
  <2>2. td_timer \in [Thread -> Timer \cup {NULL, SIGNALED}] /\ NULL # SIGNALED
    BY HandleAssumption DEF KInv, TypeOK
  <2>3. \A u \in Thread : td_timer'[u] = IF u = t THEN NULL ELSE td_timer[u]
    BY <1>1, <2>2
  <2> QED BY <2>1, <2>2, <2>3 DEF SameMarks
<1>7. \A u \in Waiting(q) : td_priority[t] <= td_priority[u]
  <2>1. Ascending(s, td_priority) /\ td_priority \in [Thread -> 0..255]
    BY <1>2, SortFacts DEF SortInv, InOrder
  <2>2. Waiting(q) = ToSet(s)
    BY <1>2 DEF Waiting
  <2> HIDE DEF s
  <2>3. ToSet(s) = {s[j] : j \in 1..Len(s)} /\ Len(s) \in Nat
    BY <1>2, ToSetFacts, LenProperties
  <2>4. ASSUME NEW j \in 1..Len(s)
        PROVE  td_priority[t] <= td_priority[s[j]]
    <3>1. CASE j = 1
      <4>1. t = s[j] /\ td_priority[t] \in 0..255
        BY <1>1, <1>2, <2>1, <3>1
      <4>2. td_priority[t] = td_priority[s[j]]
        BY ONLY <4>1, Zenon
      <4>3. PICK p \in 0..255 : p = td_priority[t]
        BY ONLY <4>1, Zenon
      <4>4. p <= p
        BY ONLY <4>3
      <4> QED BY ONLY <4>2, <4>3, <4>4, Zenon
    <3>2. CASE j # 1
      <4>1. 1 < j
        BY <2>3, <3>2
      <4> QED BY <1>2, <2>1, <4>1 DEF Ascending
    <3> QED BY <3>1, <3>2
  <2> QED BY <2>2, <2>3, <2>4
<1>8. Events!First(q, t)
  BY <1>7 DEF Events!First
<1>9. /\ UNCHANGED {u \in Thread : td_timer[u] = SIGNALED}
      /\ n \in Nat /\ Posted(q) = n + InFlight(q)
  BY <1>1, <1>6, ViewFacts DEF SameMarks
<1>10. CASE ret = "scan"
  <2>1. Posted(q) = n + 1
    BY <1>0, <1>1, <1>9, <1>10 DEF InFlight
  <2>2. Posted(q) > 0 /\ Posted(q) - 1 = n
    BY <1>9, <2>1
  <2>3. Events!Leave(q, t, n)
    <3> HIDE DEF n, t
    <3> QED BY <1>1, <1>5, EventsLeave
  <2>4. Events!Deliver(q, t)
    <3> HIDE DEF n, t
    <3> QED BY <1>1, <1>8, <1>9, <2>2, <2>3 DEF Events!Deliver
  <2> QED BY <1>1, <2>4 DEF Events!Next
<1>11. CASE ret # "scan"
  <2>1. Posted(q) = n
    BY <1>9, <1>11 DEF InFlight
  <2>2. Events!Leave(q, t, n)
    <3> HIDE DEF n, t
    <3> QED BY <1>1, <1>5, EventsLeave
  <2>3. Events!Wake(q, t)
    <3> HIDE DEF n, t
    <3> QED BY <1>1, <1>8, <1>9, <2>1, <2>2 DEF Events!Wake
  <2> QED BY <1>1, <2>3 DEF Events!Next
<1> QED BY <1>10, <1>11

(* NutEventTimeout() ends the wait of the thread it finds by its timer.     *)
LEMMA EventsExpire ==
    ASSUME KInv, KInv', NEW h \in Timer, NutEventTimeout(h)
    PROVE  [Events!Next]_Events!vars
<1>1. pc = "elapsed" /\ pc' = pc /\ td_priority' = td_priority
  BY DEF NutEventTimeout, TimerElapses
<1>2. \A r \in Queue : InFlight(r) = 0 /\ InFlight(r)' = 0
  BY <1>1 DEF InFlight
<1>3. CASE UNCHANGED <<queueVars, td_timer>>
  BY <1>1, <1>2, <1>3, EventsFrame DEF SameMarks
<1>4. ASSUME NEW i \in TimedOut(tn_arg[h], h),
             queue' = [queue EXCEPT ![tn_arg[h]] = DetachedList(@, i, td_qpec)],
             td_qpec' = AddedQpec(runQueue, queue[tn_arg[h]][i], td_priority,
                                  DetachedQpec(queue[tn_arg[h]], i, td_qpec)),
             MakeReady(queue[tn_arg[h]][i]),
             td_timer' = [td_timer EXCEPT ![queue[tn_arg[h]][i]] = SIGNALED]
      PROVE  Events!Next
  <2>1. tn_arg[h] \in Queue
    <3>1. h \in ToSet(nutTimerList) /\ tn_callback[h] = "NutEventTimeout"
      BY TimerElapsesFacts DEF NutEventTimeout
    <3>2. PICK u \in Alive : td_timer[u] = h
      BY <3>1, HandleAssumption DEF KInv, Timed
    <3> QED BY <3>1, <3>2, SortFacts DEF KInv, Timed
  <2>2. PICK q \in Queue : q = tn_arg[h]
    BY <2>1
  <2>3. PICK t : t = queue[q][i]
    OBVIOUS
  <2> DEFINE n == Held(queue[q], td_qpec)
  <2>4. i \in 1..Len(queue[q]) /\ queue[q] # <<SIGNALED>> /\ queue[q] \in Seq(Thread)
    BY <2>2, ViewFacts, ChainFacts DEF TimedOut
  <2>5. LeavesQueue(q, i, t)
    BY <1>4, <2>2, <2>3, <2>4 DEF LeavesQueue
  <2>6. /\ t \in Thread /\ t \in Waiting(q) /\ SameOthers(q)
        /\ Waiting(q)' = Waiting(q) \ {t}
        /\ Posted(q)' = IF Waiting(q) = {t} /\ n > 1 THEN 1 ELSE n
    BY <1>2, <2>5, EventsDetached
  <2>7. Posted(q) = n
    BY <1>2, ViewFacts
  <2> HIDE DEF n
  <2>8. Events!Leave(q, t, n)
    BY <2>6, EventsLeave
  <2>9. {u \in Thread : td_timer[u] = SIGNALED}' = {u \in Thread : td_timer[u] = SIGNALED} \cup {t}
    <3>1. td_timer \in [Thread -> Timer \cup {NULL, SIGNALED}]
      BY DEF KInv, TypeOK
    <3>2. td_timer' = [td_timer EXCEPT ![t] = SIGNALED]
      BY <1>4, <2>2, <2>3
    <3>3. t \in Thread
      BY <2>6
    <3> QED BY ONLY <3>1, <3>2, <3>3
  <2>10. Events!Expire(q, t)
    BY <1>1, <2>7, <2>8, <2>9 DEF Events!Expire
  <2> QED BY <2>6, <2>10 DEF Events!Next
<1> QED BY <1>3, <1>4 DEF NutEventTimeout

LEMMA EventsKernel ==
    ASSUME KInv, KInv', SortInv, Kernel
    PROVE  [Events!Next]_Events!vars
<1>0. /\ NULL # SIGNALED /\ SIGNALED \notin Timer /\ NULL \notin Queue /\ RunQ \notin Queue
      /\ td_timer \in [Thread -> Timer \cup {NULL, SIGNALED}] /\ runningThread \in Thread
      /\ td_priority \in [Thread -> 0..255] /\ td_qpec \in [Thread -> Nat]
  BY HandleAssumption DEF KInv, TypeOK
<1>1. CASE WaitNextRead \/ ScanSkip \/ ScanDone \/ TimerAdvance \/ ElapsedDone \/ NutThreadDestroy
           \/ \E h \in Timer : TimerStopped(h)
  <2>1. UNCHANGED <<queue, td_qpec, td_priority, td_timer>> /\ pc # "post" /\ pc' # "post"
    BY <1>1 DEF WaitNextRead, ScanSkip, ScanDone, TimerAdvance, ElapsedDone, NutThreadDestroy,
                TimerStopped, TimerElapses
  <2> QED BY <2>1, EventsFrame DEF SameMarks, InFlight
<1>2. CASE NutThreadSwitch
  <2>1. UNCHANGED <<queue, td_qpec, td_priority, td_timer>> /\ pc # "post" /\ pc' # "post"
    <3>1. cont[Head(runQueue)] # "post"
      <4>1. runQueue # <<>> /\ runQueue \in Seq(Thread)
        BY SortFacts DEF SortInv, EndsIdle
      <4> QED BY <4>1, TailFacts DEF KInv, TypeOK
    <3> QED BY <1>2, <3>1 DEF NutThreadSwitch
  <2> QED BY <2>1, EventsFrame DEF SameMarks, InFlight
<1>3. CASE BroadcastNext
  <2>1. UNCHANGED <<queue, td_qpec, td_priority, td_timer>> /\ pc \in Broadcasting /\ ret = pc
    BY <1>3 DEF BroadcastNext, KInv, Control
  <2>2. pc' # "post" \/ ret' # "scan"
    BY <1>3, <2>1 DEF BroadcastNext, CallPost, Broadcasting
  <2> QED BY <2>1, <2>2, EventsFrame DEF SameMarks, InFlight, Broadcasting
<1>4. CASE WaitSignaled
  <2>1. PICK q \in Queue : q = qh
    BY <1>4 DEF WaitSignaled, KInv, Control
  <2>2. /\ queue' = [queue EXCEPT ![q] = <<>>] /\ queue[q] = <<SIGNALED>>
        /\ UNCHANGED <<td_qpec, td_priority, td_timer>> /\ pc = "wait" /\ pc' = "yield"
    BY <1>4, <2>1 DEF WaitSignaled, KInv, Control
  <2>3. Waiting(q) = {}
    BY <2>2 DEF Waiting
  <2>4. SameMarks /\ \A r \in Queue : InFlight(r)' = InFlight(r)
    BY <2>2 DEF SameMarks, InFlight
  <2> QED BY <2>2, <2>3, <2>4, EventsMark DEF Events!Next
<1>5. CASE PostMark
  <2>1. PICK q \in Queue : q = qh
    BY <1>5 DEF PostMark, KInv, Control
  <2>2. /\ queue' = [queue EXCEPT ![q] = <<SIGNALED>>] /\ queue[q] \in {<<>>, <<SIGNALED>>}
        /\ UNCHANGED <<td_qpec, td_priority, td_timer>> /\ pc = "post" /\ pc' = ret
        /\ ret # "post"
    BY <1>5, <2>1 DEF PostMark, KInv, Control, ReturnFromPost, Broadcasting
  <2>3. Waiting(q) = {}
    BY <2>2, EmptyFacts DEF Waiting
  <2>4. SameMarks /\ \A r \in Queue : r # q => InFlight(r)' = InFlight(r)
    BY <2>1, <2>2 DEF SameMarks, InFlight
  <2> QED BY <2>2, <2>3, <2>4, EventsMark DEF Events!Next
<1>6. CASE PostIgnored
  <2>1. PICK q \in Queue : q = qh
    BY <1>6 DEF PostIgnored, KInv, Control
  <2>2. /\ queue[q] = <<SIGNALED>> /\ pc = "post" /\ pc' = ret /\ ret # "post"
        /\ UNCHANGED <<queue, td_qpec, td_priority, td_timer>>
    BY <1>6, <2>1 DEF PostIgnored, KInv, Control, ReturnFromPost, Broadcasting
  <2>3. SameQueue(q)
    BY <2>2, SingleFacts DEF SameQueue, Waiting, Posted
  <2>4. ASSUME NEW r \in Queue, r # q
        PROVE  SameQueue(r)
    BY <2>1, <2>2, <2>4, SameQueues DEF InFlight
  <2> QED BY <2>2, <2>3, <2>4, EventsStutter DEF SameMarks
<1>7. CASE WaitReturn
  <2>0. PICK t \in Thread : t = runningThread
    BY <1>0
  <2>1. /\ td_timer' = [td_timer EXCEPT ![t] = IF td_timer[t] = SIGNALED THEN NULL ELSE td_timer[t]]
        /\ UNCHANGED <<queue, td_qpec, td_priority>> /\ pc = "waited" /\ pc' = "app"
    BY <1>7, <2>0 DEF WaitReturn
  <2>2. \A q \in Queue : InFlight(q)' = InFlight(q)
    BY <2>1 DEF InFlight
  <2>3. CASE td_timer[t] = SIGNALED
    <3>1. \A q \in Queue : SameQueue(q)
      BY <2>1, <2>2, SameQueues
    <3>2. UNCHANGED [q \in Queue |-> Waiting(q)] /\ UNCHANGED [q \in Queue |-> Posted(q)]
      BY <3>1 DEF SameQueue
    <3>3. {u \in Thread : td_timer[u] = SIGNALED}' = {u \in Thread : td_timer[u] = SIGNALED} \ {t}
      BY <1>0, <2>1, <2>3
    <3>4. t \in {u \in Thread : td_timer[u] = SIGNALED}
      BY <1>0, <2>3
    <3>5. Events!Return(t)
      BY <2>1, <3>2, <3>3, <3>4 DEF Events!Return
    <3> QED BY <3>5 DEF Events!Next
  <2>4. CASE td_timer[t] # SIGNALED
    <3>1. td_timer' = td_timer
      BY <1>0, <2>1, <2>4
    <3> QED BY <2>1, <2>2, <3>1, EventsFrame DEF SameMarks
  <2> QED BY <2>3, <2>4
<1>8. CASE NutThreadYield
  <2>1. UNCHANGED <<queue, td_priority, td_timer>> /\ pc = "yield" /\ pc' = "scan" /\ runningThread \in Ready
    BY <1>8 DEF NutThreadYield, KInv, Control, Broadcasting
  <2>2. td_qpec' = td_qpec
    BY <1>0, <1>8, <2>1, RequeuedFacts DEF NutThreadYield
  <2> QED BY <2>1, <2>2, EventsFrame DEF SameMarks, InFlight
<1>9. CASE ScanPost
  <2> DEFINE td == nutThreadList[scan]
  <2>1. /\ pc = "scan" /\ td_qpec[td] > 0 /\ td_qpec' = [td_qpec EXCEPT ![td] = td_qpec[td] - 1]
        /\ qh' = td_queue[td] /\ ret' = "scan" /\ pc' = "post"
        /\ UNCHANGED <<queue, td_priority, td_timer>>
    BY <1>9 DEF ScanPost, CallPost
  <2>2. td \in Thread
    <3>1. nutThreadList \in Seq(Thread) /\ scan \in 1..Len(nutThreadList)
      BY <1>9 DEF ScanPost, KInv, TypeOK, Control
    <3> QED BY <3>1, ElementOfSeq
  <2> HIDE DEF td
  <2>3. PICK q \in Queue : q = td_queue[td] /\ Root(q) = td
    BY <2>1, <2>2 DEF KInv, PendingOnlyAtHead
  <2>4. ASSUME NEW r \in Queue, r # q
        PROVE  SameQueue(r)
    <3>1. InFlight(r)' = InFlight(r)
      BY <2>1, <2>3, <2>4 DEF InFlight
    <3>2. \A u \in Thread : td_queue[u] = r => td_qpec'[u] = td_qpec[u]
      BY <1>0, <2>1, <2>2, <2>3, <2>4
    <3> QED BY <2>1, <3>1, <3>2, SameQueues
  <2>5. SameQueue(q)
    <3>1. /\ Posted(q)' = Held(queue'[q], td_qpec')
                          + (IF RootOf(queue'[q]) \in Thread THEN InFlight(q)' ELSE 0)
      BY NextTypes, NextView
    <3>2. Posted(q) = Held(queue[q], td_qpec) + InFlight(q)
      BY <2>2, <2>3, ViewFacts
    <3>3. InFlight(q) = 0 /\ InFlight(q)' = 1
      BY <2>1, <2>3 DEF InFlight
    <3>4. Held(queue[q], td_qpec) = td_qpec[td] /\ Held(queue'[q], td_qpec') = td_qpec'[td]
      BY <2>1, <2>2, <2>3, ViewFacts, NextTypes, HeldFacts, ZenonT(60) DEF Root
    <3>5. td_qpec[td] \in Nat /\ td_qpec'[td] = td_qpec[td] - 1
      BY <1>0, <2>1, <2>2
    <3>6. RootOf(queue'[q]) \in Thread /\ Waiting(q)' = Waiting(q)
      BY <2>1, <2>2, <2>3 DEF Root, Waiting
    <3> QED BY <3>1, <3>2, <3>3, <3>4, <3>5, <3>6 DEF SameQueue
  <2> QED BY <2>1, <2>4, <2>5, EventsStutter DEF SameMarks
<1>10. ASSUME NEW h \in Timer, NutThreadWake(h)
       PROVE  [Events!Next]_Events!vars
  <2> DEFINE t == tn_arg[h]
  <2>1. /\ UNCHANGED <<queue, td_priority, pc>> /\ pc = "elapsed" /\ td_timer' = [td_timer EXCEPT ![t] = NULL]
        /\ td_qpec' = AddedQpec(runQueue, t, td_priority, td_qpec)
    BY <1>10 DEF NutThreadWake, TimerElapses
  <2>2. h \in ToSet(nutTimerList) /\ tn_callback[h] = "NutThreadWake"
    BY <1>10, TimerElapsesFacts DEF NutThreadWake
  <2>3. PICK u \in Alive : td_timer[u] = h
    BY <2>2, HandleAssumption DEF KInv, Timed
  <2>4. t = u /\ u \in Thread /\ td_queue[u] = NULL
    BY <2>2, <2>3, SortFacts, HandleAssumption DEF KInv, Timed
  <2>5. u \notin Ready /\ td_qpec[u] = 0
    BY <1>0, <2>4, KFacts, HandleAssumption DEF KInv, Linked
  <2> HIDE DEF t
  <2>6. td_qpec' = td_qpec
    <3>1. Quiet(runQueue, td_qpec)
      BY KFacts DEF Quiet, Ready
    <3>2. AddedQpec(runQueue, u, td_priority, td_qpec) = [td_qpec EXCEPT ![u] = 0]
      <4>1. /\ u \in Thread /\ u \notin Ready
            /\ td_priority \in [Thread -> 0..255] /\ td_qpec \in [Thread -> Nat]
        BY <1>0, <2>4, <2>5
      <4> QED BY <3>1, <4>1, JoinReadyFacts
    <3> QED BY <1>0, <2>1, <2>4, <2>5, <3>2
  <2>7. SameMarks
    BY <1>0, <2>1, <2>3, <2>4 DEF SameMarks
  <2> QED BY <2>1, <2>6, <2>7, EventsFrame DEF InFlight
<1> QED BY <1>1, <1>2, <1>3, <1>4, <1>5, <1>6, <1>7, <1>8, <1>9, <1>10, EventsJoin, EventsWake, EventsExpire
       DEF Kernel

(* NutEventPostFromIrq() remembers an event for a queue nobody waits on,    *)
(* and counts it for one somebody waits on.                                 *)
LEMMA EventsInterrupt ==
    ASSUME KInv, KInv', Interrupt
    PROVE  [Events!Next]_Events!vars
<1>1. CASE NutTimerIntr
  BY <1>1, EventsFrame DEF NutTimerIntr, SameMarks, InFlight
<1>2. ASSUME NEW q \in Queue, NutEventPostFromIrq(q)
      PROVE  Events!Next
  <2>1. UNCHANGED <<td_priority, td_timer, pc, ret, qh>>
    BY <1>2 DEF NutEventPostFromIrq
  <2>2. SameMarks /\ \A r \in Queue : InFlight(r)' = InFlight(r) /\ InFlight(r) \in Nat
    BY <2>1 DEF SameMarks, InFlight
  <2>3. CASE /\ Root(q) = NULL /\ queue' = [queue EXCEPT ![q] = <<SIGNALED>>] /\ UNCHANGED td_qpec
    <3>1. Waiting(q) = {}
      BY <2>3, ViewFacts, HandleAssumption
    <3> QED BY <2>1, <2>2, <2>3, <3>1, EventsMark DEF Events!Next
  <2>4. CASE /\ Root(q) \in Thread /\ UNCHANGED queue
             /\ td_qpec' = [td_qpec EXCEPT ![Root(q)] = @ + 1]
    <3> DEFINE t == Root(q)
    <3>1. t \in Thread /\ td_queue[t] = q /\ td_qpec \in [Thread -> Nat]
      BY <2>4, KFacts, ViewFacts
    <3>2. SameOthers(q)
      <4> SUFFICES ASSUME NEW r \in Queue, r # q
                   PROVE  SameQueue(r)
        BY DEF SameOthers
      <4>1. \A u \in Thread : td_queue[u] = r => td_qpec'[u] = td_qpec[u]
        BY <2>4, <3>1
      <4> QED BY <2>2, <2>4, <4>1, SameQueues
    <3>3. Waiting(q)' = Waiting(q) /\ Waiting(q) # {}
      BY <2>4, ViewFacts DEF Waiting
    <3>4. Posted(q)' = Posted(q) + 1
      <4>1. /\ Posted(q)' = Held(queue'[q], td_qpec')
                            + (IF RootOf(queue'[q]) \in Thread THEN InFlight(q)' ELSE 0)
        BY NextTypes, NextView
      <4>2. Posted(q) = Held(queue[q], td_qpec) + InFlight(q)
        BY <2>4, ViewFacts
      <4>3. Held(queue[q], td_qpec) = td_qpec[t] /\ Held(queue'[q], td_qpec') = td_qpec'[t]
        BY <2>4, <3>1, ViewFacts, NextTypes, HeldFacts DEF Root
      <4>4. td_qpec[t] \in Nat /\ td_qpec'[t] = td_qpec[t] + 1
        BY <2>4, <3>1
      <4>5. RootOf(queue'[q]) \in Thread
        BY <2>4 DEF Root
      <4> QED BY <2>2, <4>1, <4>2, <4>3, <4>4, <4>5
    <3>5. Events!Count(q)
      <4>1. UNCHANGED [r \in Queue |-> Waiting(r)]
        BY <3>2, <3>3 DEF SameOthers, SameQueue
      <4>2. [r \in Queue |-> Posted(r)]' = [[r \in Queue |-> Posted(r)] EXCEPT ![q] = @ + 1]
        BY <3>2, <3>4 DEF SameOthers, SameQueue
      <4>3. UNCHANGED {u \in Thread : td_timer[u] = SIGNALED}
        BY <2>2 DEF SameMarks
      <4>4. [r \in Queue |-> Waiting(r)][q] # {}
        BY <3>3
      <4> QED BY <2>1, <4>1, <4>2, <4>3, <4>4 DEF Events!Count
    <3> QED BY <3>5 DEF Events!Next
  <2> QED BY <1>2, <2>3, <2>4 DEF NutEventPostFromIrq
<1> QED BY <1>1, <1>2 DEF Interrupt

LEMMA EventsInit == Init => Events!Init
<1> SUFFICES ASSUME Init PROVE Events!Init
  OBVIOUS
<1>1. \A q \in Queue : queue[q] = <<>> /\ <<>> # <<SIGNALED>>
  BY SingleFacts DEF Init
<1>2. \A q \in Queue : Waiting(q) = {} /\ Posted(q) = 0
  BY <1>1, EmptyFacts DEF Waiting, Posted
<1>3. {t \in Thread : td_timer[t] = SIGNALED} = {}
  BY HandleAssumption DEF Init
<1>4. td_priority \in [Thread -> Nat]
  BY DEF Init, IdlePriority, DefaultPriority
<1> QED BY <1>2, <1>3, <1>4 DEF Events!Init

LEMMA EventsNext ==
    KInv /\ KInv' /\ SortInv /\ [Next]_vars => [Events!Next]_Events!vars
<1> SUFFICES ASSUME KInv, KInv', SortInv, [Next]_vars
             PROVE  [Events!Next]_Events!vars
  OBVIOUS
<1>1. CASE UNCHANGED vars
  BY <1>1, EventsFrame DEF vars, SameMarks, InFlight
<1> QED BY <1>1, EventsApplication, EventsKernel, EventsInterrupt DEF Next

(* The lists, counters, signaled roots and interrupted calls of             *)
(* os/event.c implement the event queues of NutEvents: every step of the    *)
(* kernel is one of theirs or none.                                         *)
THEOREM ImplementsEvents == Spec => EventsImplemented
BY EventsInit, EventsNext, SortInvariant, PTL DEF Spec, EventsImplemented, Events!Spec
=============================================================================
