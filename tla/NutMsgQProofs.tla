---------------------------- MODULE NutMsgQProofs ----------------------------
(***************************************************************************)
(* Message queues are channels, for any queues, sizes and messages: no      *)
(* message is without an event for any number of readers; and for one       *)
(* reader, when queues are not flushed during its calls, no event is        *)
(* without a message, messages are received once and in order, and those of *)
(* a timer are gone when its memory is.                                     *)
(***************************************************************************)
EXTENDS NutMsgQ, SequenceTheorems, FiniteSetTheorems, TLAPS

USE SizeAssumption, ReaderAssumption, MessageAssumption

(* The rings' slots, the event queues and the places of the threads.        *)
StepTypeOK ==
    /\ mq_read \in [MsgQ -> Nat] /\ mq_write \in [MsgQ -> Nat]
    /\ \A q \in MsgQ : mq_read[q] \in Slot(q) /\ mq_write[q] \in Slot(q)
    /\ mq_wait \in [MsgQ -> EventQueue]
    /\ pc \in [Thread -> {"run"} \cup MsgQ]

(* A queue with waiting threads is not signaled.                            *)
Waits(q) ==
    /\ mq_wait[q].waiting \subseteq {t \in Reader : pc[t] = q}
    /\ {t \in Thread : pc[t] = q} \subseteq Reader
    /\ mq_wait[q].waiting # {} => ~mq_wait[q].signaled

(* A message has an event, given or remembered.                             *)
Told(q) == mq_read[q] # mq_write[q] => Called(q) # {} \/ mq_wait[q].signaled

ToldInv == StepTypeOK /\ \A q \in MsgQ : Waits(q) /\ Told(q)

(* An event, given or remembered, has a message; both have one each.        *)
Covered(q) ==
    /\ Called(q) # {} => mq_read[q] # mq_write[q]
    /\ mq_wait[q].signaled => mq_read[q] # mq_write[q]
    /\ mq_wait[q].signaled /\ Called(q) # {} => NextSlot(q, mq_read[q]) # mq_write[q]

CoveredInv == ToldInv /\ \A q \in MsgQ : Covered(q)

-----------------------------------------------------------------------------

LEMMA ModFacts ==
  ASSUME NEW S \in Nat \ {0, 1}, NEW r \in 0..(S - 1), NEW w \in 0..(S - 1)
  PROVE  /\ (w - r) % S \in Nat
         /\ (w - r) % S = 0 <=> w = r
         /\ (r + 1) % S \in 0..(S - 1) /\ (r + 1) % S # r
         /\ (r + 1) % S = (w + 1) % S => r = w
<1>1. \A x \in 0..(S - 1) : (x + 1) % S = IF x + 1 = S THEN 0 ELSE x + 1
  OBVIOUS
<1>2. (w - r) % S = IF w >= r THEN w - r ELSE w - r + S
  OBVIOUS
<1> QED BY <1>1, <1>2

LEMMA SlotFacts ==
  ASSUME NEW q \in MsgQ
  PROVE  /\ \A s \in Slot(q) : NextSlot(q, s) \in Slot(q) /\ NextSlot(q, s) # s
         /\ \A r, w \in Slot(q) : NextSlot(q, r) = NextSlot(q, w) => r = w
         /\ Slot(q) \subseteq Nat /\ 0 \in Slot(q)
<1>1. Size[q] \in Nat \ {0, 1}
  OBVIOUS
<1> QED BY <1>1, ModFacts DEF Slot, NextSlot

(* A queue is empty when its two slots are one.                             *)
LEMMA ContentsFacts ==
  ASSUME StepTypeOK, NEW q \in MsgQ
  PROVE  Contents(q) # <<>> <=> mq_read[q] # mq_write[q]
<1> DEFINE n == (mq_write[q] - mq_read[q]) % Size[q]
<1>1. n \in Nat /\ (n = 0 <=> mq_write[q] = mq_read[q])
  BY ModFacts DEF StepTypeOK, Slot
<1>2. Contents(q) = [i \in 1..n |-> mq_que[q][(mq_read[q] + i - 1) % Size[q]]]
  BY DEF Contents
<1>3. DOMAIN Contents(q) = 1..n
  BY <1>2
<1>4. Contents(q) # <<>> => 1..n # {}
  BY <1>2
<1>5. 1..n # {} => Contents(q) # <<>>
  <2>1. DOMAIN <<>> = {}
    OBVIOUS
  <2> HIDE DEF n
  <2> QED BY <1>3, <2>1
<1> HIDE DEF n
<1>6. 1..n # {} <=> n # 0
  BY <1>1
<1> QED BY <1>1, <1>4, <1>5, <1>6

LEMMA QueueFacts ==
  ASSUME NEW x \in EventQueue
  PROVE  /\ EmptyQueue \in EventQueue /\ EmptyQueue.waiting = {} /\ ~EmptyQueue.signaled
         /\ Cleared(x) \in EventQueue /\ Cleared(x).waiting = x.waiting /\ ~Cleared(x).signaled
         /\ \A t \in Thread : /\ Joined(x, t) \in EventQueue /\ Joined(x, t).signaled = x.signaled
                              /\ Joined(x, t).waiting = x.waiting \cup {t}
                              /\ Left(x, t) \in EventQueue /\ Left(x, t).signaled = x.signaled
                              /\ Left(x, t).waiting = x.waiting \ {t}
  BY DEF EventQueue, EmptyQueue, Cleared, Joined, Left

(* An event wakes one thread, or is remembered when none waits.             *)
LEMMA PostFacts ==
  ASSUME StepTypeOK, NEW Q \in SUBSET MsgQ, PostEvents(Q)
  PROVE  /\ mq_wait' \in [MsgQ -> EventQueue]
         /\ \A q \in MsgQ \ Q : mq_wait'[q] = mq_wait[q]
         /\ \A q \in Q :
              \/ mq_wait[q].waiting = {} /\ mq_wait'[q].waiting = {} /\ mq_wait'[q].signaled
              \/ /\ mq_wait'[q].signaled = mq_wait[q].signaled
                 /\ \E t \in mq_wait[q].waiting : mq_wait'[q].waiting = mq_wait[q].waiting \ {t}
<1>1. PICK woken \in [Q -> SUBSET Thread] :
        /\ \A q \in Q : woken[q] \in Wakeable(mq_wait[q])
        /\ mq_wait' = [q \in MsgQ |-> IF q \in Q THEN Posted(mq_wait[q], woken[q]) ELSE mq_wait[q]]
  BY DEF PostEvents
<1>2. \A q \in MsgQ : mq_wait[q] \in EventQueue
  BY DEF StepTypeOK
<1>3. ASSUME NEW q \in Q
      PROVE  /\ Posted(mq_wait[q], woken[q]) \in EventQueue
             /\ Posted(mq_wait[q], woken[q]).waiting = mq_wait[q].waiting \ woken[q]
             /\ Posted(mq_wait[q], woken[q]).signaled = (mq_wait[q].signaled \/ woken[q] = {})
  <2>1. mq_wait[q] \in EventQueue /\ woken[q] \in SUBSET Thread
    BY <1>2
  <2>2. (mq_wait[q].signaled \/ woken[q] = {}) \in BOOLEAN
    OBVIOUS
  <2> QED BY <2>1, <2>2 DEF Posted, EventQueue
<1>4. mq_wait' \in [MsgQ -> EventQueue]
  BY <1>1, <1>2, <1>3
<1>5. \A q \in MsgQ \ Q : mq_wait'[q] = mq_wait[q]
  BY <1>1
<1>6. ASSUME NEW q \in Q
      PROVE  \/ mq_wait[q].waiting = {} /\ mq_wait'[q].waiting = {} /\ mq_wait'[q].signaled
             \/ /\ mq_wait'[q].signaled = mq_wait[q].signaled
                /\ \E t \in mq_wait[q].waiting : mq_wait'[q].waiting = mq_wait[q].waiting \ {t}
  <2>1. mq_wait'[q] = Posted(mq_wait[q], woken[q]) /\ woken[q] \in Wakeable(mq_wait[q])
    BY <1>1
  <2>2. CASE mq_wait[q].waiting = {}
    <3>1. woken[q] = {}
      BY <2>1, <2>2 DEF Wakeable
    <3> QED BY <1>3, <2>1, <2>2, <3>1
  <2>3. CASE mq_wait[q].waiting # {}
    <3>1. PICK t \in mq_wait[q].waiting : woken[q] = {t}
      BY <2>1, <2>3 DEF Wakeable
    <3>2. mq_wait[q].signaled \in BOOLEAN
      BY <1>2 DEF EventQueue
    <3> QED BY <1>3, <2>1, <3>1, <3>2
  <2> QED BY <2>2, <2>3
<1> QED BY <1>4, <1>5, <1>6

(* A message is added to the queues of Q that have room.                    *)
LEMMA PostToFacts ==
  ASSUME StepTypeOK, NEW Q \in SUBSET MsgQ, NEW m, PostTo(Q, m)
  PROVE  \E room \in SUBSET Q :
           /\ mq_read' = mq_read /\ PostEvents(room)
           /\ mq_write' \in [MsgQ -> Nat]
           /\ \A q \in MsgQ : mq_write'[q] \in Slot(q)
           /\ \A q \in MsgQ \ room : mq_write'[q] = mq_write[q]
           /\ \A q \in room : /\ mq_write'[q] = NextSlot(q, mq_write[q])
                             /\ mq_write'[q] # mq_read[q]
<1> DEFINE room == {q \in Q : ~NutMsgQFull(q)}
<1>1. mq_write' = [q \in MsgQ |-> IF q \in room THEN NextSlot(q, mq_write[q]) ELSE mq_write[q]]
  BY DEF PostTo
<1>2. mq_read' = mq_read /\ PostEvents(room)
  BY DEF PostTo
<1>3. \A q \in MsgQ : mq_write'[q] \in Slot(q)
  BY <1>1, SlotFacts DEF StepTypeOK
<1>4. mq_write' \in [MsgQ -> Nat]
  BY <1>1, <1>3, SlotFacts
<1>5. \A q \in room : mq_write'[q] = NextSlot(q, mq_write[q]) /\ mq_write'[q] # mq_read[q]
  BY <1>1 DEF NutMsgQFull
<1>6. \A q \in MsgQ \ room : mq_write'[q] = mq_write[q]
  BY <1>1
<1>7. room \in SUBSET Q
  OBVIOUS
<1> HIDE DEF room
<1> QED BY <1>2, <1>3, <1>4, <1>5, <1>6, <1>7

-----------------------------------------------------------------------------
(* Messages are posted: by threads, to one queue or to all, and by timers.  *)
LEMMA PostToKeeps ==
  ASSUME ToldInv, NEW Q \in SUBSET MsgQ, NEW m, PostTo(Q, m), UNCHANGED pc
  PROVE  ToldInv' /\ (CoveredInv => CoveredInv')
<1> USE DEF ToldInv
<1>1. PICK room \in SUBSET Q :
        /\ mq_read' = mq_read /\ PostEvents(room)
        /\ mq_write' \in [MsgQ -> Nat]
        /\ \A q \in MsgQ : mq_write'[q] \in Slot(q)
        /\ \A q \in MsgQ \ room : mq_write'[q] = mq_write[q]
        /\ \A q \in room : mq_write'[q] = NextSlot(q, mq_write[q]) /\ mq_write'[q] # mq_read[q]
  BY PostToFacts
<1>2. /\ mq_wait' \in [MsgQ -> EventQueue]
      /\ \A q \in MsgQ \ room : mq_wait'[q] = mq_wait[q]
      /\ \A q \in room :
           \/ mq_wait[q].waiting = {} /\ mq_wait'[q].waiting = {} /\ mq_wait'[q].signaled
           \/ /\ mq_wait'[q].signaled = mq_wait[q].signaled
              /\ \E t \in mq_wait[q].waiting : mq_wait'[q].waiting = mq_wait[q].waiting \ {t}
  BY <1>1, PostFacts
<1>3. StepTypeOK'
  BY <1>1, <1>2 DEF StepTypeOK
<1>4. ASSUME NEW q \in MsgQ
      PROVE  Waits(q)' /\ Told(q)' /\ (Covered(q) => Covered(q)')
  <2>1. CASE q \notin room
    BY <1>1, <1>2, <2>1 DEF Waits, Told, Covered, Called
  <2>2. CASE q \in room /\ mq_wait[q].waiting = {} /\ mq_wait'[q].waiting = {} /\ mq_wait'[q].signaled
    <3>1. Called(q)' = Called(q)
      BY <2>2 DEF Called
    <3>2. Covered(q) /\ Called(q) # {} => NextSlot(q, mq_read'[q]) # mq_write'[q]
      BY <1>1, <2>2, SlotFacts DEF Covered, StepTypeOK
    <3> QED BY <1>1, <2>2, <3>1, <3>2 DEF Waits, Told, Covered
  <2>3. CASE /\ q \in room /\ mq_wait'[q].signaled = mq_wait[q].signaled
             /\ \E t \in mq_wait[q].waiting : mq_wait'[q].waiting = mq_wait[q].waiting \ {t}
    <3>1. PICK t \in mq_wait[q].waiting : mq_wait'[q].waiting = mq_wait[q].waiting \ {t}
      BY <2>3
    <3>2. ~mq_wait[q].signaled /\ t \in Called(q)'
      BY <3>1 DEF Waits, Called
    <3> QED BY <1>1, <2>3, <3>1, <3>2 DEF Waits, Told, Covered
  <2> QED BY <1>2, <2>1, <2>2, <2>3
<1> QED BY <1>3, <1>4 DEF CoveredInv

(* Messages are canceled, with their events.                                *)
LEMMA FlushKeeps ==
  ASSUME ToldInv, NEW q \in MsgQ, NutMsgQFlush(q)
  PROVE  ToldInv' /\ (CoveredInv /\ FlushWhen # "waiting" => CoveredInv')
<1> USE DEF ToldInv
<1>1. /\ mq_wait[q].waiting = {} /\ mq_write' = mq_write /\ pc' = pc
      /\ FlushWhen # "waiting" => \A t \in Thread : pc[t] # q
      /\ mq_read' = [mq_read EXCEPT ![q] = mq_write[q]]
      /\ mq_wait' = [mq_wait EXCEPT ![q] = EmptyQueue]
  BY DEF NutMsgQFlush, MayFlush
<1>2. StepTypeOK'
  BY <1>1, QueueFacts DEF StepTypeOK
<1>3. mq_wait'[q].waiting = {} /\ ~mq_wait'[q].signaled /\ mq_read'[q] = mq_write'[q]
  <2>1. EmptyQueue.waiting = {} /\ ~EmptyQueue.signaled
    BY DEF EmptyQueue
  <2>2. mq_wait'[q] = EmptyQueue /\ mq_read'[q] = mq_write[q]
    BY <1>1 DEF StepTypeOK
  <2> QED BY <1>1, <2>1, <2>2
<1>4. \A p \in MsgQ \ {q} : mq_wait'[p] = mq_wait[p] /\ mq_read'[p] = mq_read[p]
  BY <1>1 DEF StepTypeOK
<1>5. ASSUME NEW p \in MsgQ
      PROVE  Waits(p)' /\ Told(p)' /\ (Covered(p) /\ FlushWhen # "waiting" => Covered(p)')
  <2>1. CASE p = q
    BY <1>1, <1>3, <2>1 DEF Waits, Told, Covered, Called
  <2>2. CASE p # q
    BY <1>1, <1>4, <2>2 DEF Waits, Told, Covered, Called
  <2> QED BY <2>1, <2>2
<1> QED BY <1>2, <1>5 DEF CoveredInv

(* A reader calls: it takes the event that is remembered, or waits.         *)
LEMMA GetMessageKeeps ==
  ASSUME ToldInv, NEW q \in MsgQ, NEW t \in Reader, NutMsgQGetMessage(t, q)
  PROVE  ToldInv' /\ (CoveredInv => CoveredInv')
<1> USE DEF ToldInv
<1>1. /\ pc[t] = "run" /\ pc' = [pc EXCEPT ![t] = q]
      /\ mq_wait' = [mq_wait EXCEPT ![q] = IF @.signaled THEN Cleared(@) ELSE Joined(@, t)]
      /\ mq_read' = mq_read /\ mq_write' = mq_write
  BY DEF NutMsgQGetMessage, ringVars
<1>2. t \in Thread /\ mq_wait[q] \in EventQueue
  BY DEF StepTypeOK
<1>3. \A u \in Thread : pc'[u] = IF u = t THEN q ELSE pc[u]
  BY <1>1 DEF StepTypeOK
<1>4. \A p \in MsgQ \ {q} : mq_wait'[p] = mq_wait[p]
  BY <1>1 DEF StepTypeOK
<1>5. mq_wait'[q] = IF mq_wait[q].signaled THEN Cleared(mq_wait[q]) ELSE Joined(mq_wait[q], t)
  BY <1>1 DEF StepTypeOK
<1>6. StepTypeOK'
  <2>1. pc' \in [Thread -> {"run"} \cup MsgQ]
    BY <1>1 DEF StepTypeOK
  <2>2. (IF mq_wait[q].signaled THEN Cleared(mq_wait[q]) ELSE Joined(mq_wait[q], t)) \in EventQueue
    BY <1>2, QueueFacts
  <2>3. mq_wait' \in [MsgQ -> EventQueue]
    BY <1>1, <2>2 DEF StepTypeOK
  <2> QED BY <1>1, <2>1, <2>3 DEF StepTypeOK
<1>7. ASSUME NEW p \in MsgQ
      PROVE  Waits(p)' /\ Told(p)' /\ (Covered(p) => Covered(p)')
  <2>1. CASE p # q
    <3>1. Called(p)' = Called(p)
      BY <1>1, <1>3, <1>4, <2>1 DEF Called
    <3> QED BY <1>1, <1>3, <1>4, <2>1, <3>1 DEF Waits, Told, Covered
  <2>2. CASE p = q /\ mq_wait[q].signaled
    <3>1. mq_wait'[q].waiting = mq_wait[q].waiting /\ ~mq_wait'[q].signaled
      BY <1>2, <1>5, <2>2, QueueFacts
    <3>2. mq_wait[q].waiting = {}
      BY <2>2 DEF Waits
    <3>3. t \in Called(q)'
      BY <1>2, <1>3, <3>1, <3>2 DEF Called
    <3> QED BY <1>1, <1>3, <2>2, <3>1, <3>2, <3>3 DEF Waits, Told, Covered
  <2>3. CASE p = q /\ ~mq_wait[q].signaled
    <3>1. mq_wait'[q].waiting = mq_wait[q].waiting \cup {t} /\ ~mq_wait'[q].signaled
      <4>1. mq_wait'[q] = Joined(mq_wait[q], t)
        BY <1>5, <2>3
      <4>2. /\ Joined(mq_wait[q], t).signaled = mq_wait[q].signaled
            /\ Joined(mq_wait[q], t).waiting = mq_wait[q].waiting \cup {t}
        BY <1>2, QueueFacts
      <4> QED BY <2>3, <4>1, <4>2
    <3>2. Called(q)' = Called(q)
      BY <1>1, <1>3, <3>1 DEF Called
    <3> QED BY <1>1, <1>3, <2>3, <3>1, <3>2 DEF Waits, Told, Covered
  <2> QED BY <2>1, <2>2, <2>3
<1> QED BY <1>6, <1>7 DEF CoveredInv

(* A wait times out.                                                        *)
LEMMA TimeoutKeeps ==
  ASSUME ToldInv, NEW q \in MsgQ, NEW t \in Thread, GetTimeout(t, q)
  PROVE  ToldInv' /\ (CoveredInv => CoveredInv')
<1> USE DEF ToldInv
<1>1. /\ t \in mq_wait[q].waiting
      /\ mq_wait' = [mq_wait EXCEPT ![q] = Left(@, t)] /\ pc' = [pc EXCEPT ![t] = "run"]
      /\ mq_read' = mq_read /\ mq_write' = mq_write
  BY DEF GetTimeout, ringVars
<1>2. mq_wait[q] \in EventQueue /\ pc[t] = q
  BY <1>1 DEF StepTypeOK, Waits
<1>3. \A u \in Thread : pc'[u] = IF u = t THEN "run" ELSE pc[u]
  BY <1>1 DEF StepTypeOK
<1>4. \A p \in MsgQ \ {q} : mq_wait'[p] = mq_wait[p]
  BY <1>1 DEF StepTypeOK
<1>5. /\ mq_wait'[q] = Left(mq_wait[q], t) /\ mq_wait'[q].waiting = mq_wait[q].waiting \ {t}
      /\ mq_wait'[q].signaled = mq_wait[q].signaled
  <2>1. mq_wait'[q] = Left(mq_wait[q], t)
    BY <1>1 DEF StepTypeOK
  <2> QED BY <1>2, <2>1, QueueFacts, SMTT(45)
<1>6. StepTypeOK'
  <2>1. pc' \in [Thread -> {"run"} \cup MsgQ]
    BY <1>1 DEF StepTypeOK
  <2>2. Left(mq_wait[q], t) \in EventQueue
    BY <1>2, QueueFacts
  <2>3. mq_wait' \in [MsgQ -> EventQueue]
    BY <1>1, <2>2 DEF StepTypeOK
  <2> QED BY <1>1, <2>1, <2>3 DEF StepTypeOK
<1>7. ASSUME NEW p \in MsgQ
      PROVE  Waits(p)' /\ Told(p)' /\ (Covered(p) => Covered(p)')
  <2>1. Called(p)' = Called(p)
    BY <1>1, <1>2, <1>3, <1>4, <1>5 DEF Called
  <2>2. mq_wait'[p].signaled = mq_wait[p].signaled
    BY <1>4, <1>5
  <2>3. mq_wait'[p].waiting \subseteq mq_wait[p].waiting
    BY <1>4, <1>5
  <2>4. Waits(p)'
    <3>1. CASE p = q
      BY <1>2, <1>3, <1>5, <2>2, <3>1 DEF Waits
    <3>2. CASE p # q
      BY <1>2, <1>3, <1>4, <3>2 DEF Waits
    <3> QED BY <3>1, <3>2
  <2> QED BY <1>1, <2>1, <2>2, <2>4 DEF Told, Covered
<1> QED BY <1>6, <1>7 DEF CoveredInv

(* A reader takes a message and posts again when there are more.  With one  *)
(* reader nobody waits then, and a second event has a second message.       *)
LEMMA ReturnKeeps ==
  ASSUME ToldInv, NEW q \in MsgQ, NEW t \in Thread, GetReturn(t, q)
  PROVE  ToldInv' /\ (CoveredInv /\ (\A r, s \in Reader : r = s) => CoveredInv')
<1> USE DEF ToldInv
<1> DEFINE Q == IF mq_read'[q] # mq_write[q] THEN {q} ELSE {}
<1>1. /\ t \in Called(q) /\ pc' = [pc EXCEPT ![t] = "run"]
      /\ mq_read' = [mq_read EXCEPT ![q] = NextSlot(q, @)]
      /\ PostEvents(Q) /\ mq_write' = mq_write
  BY DEF GetReturn
<1>2. /\ mq_wait' \in [MsgQ -> EventQueue]
      /\ \A p \in MsgQ \ Q : mq_wait'[p] = mq_wait[p]
      /\ \A p \in Q :
           \/ mq_wait[p].waiting = {} /\ mq_wait'[p].waiting = {} /\ mq_wait'[p].signaled
           \/ /\ mq_wait'[p].signaled = mq_wait[p].signaled
              /\ \E u \in mq_wait[p].waiting : mq_wait'[p].waiting = mq_wait[p].waiting \ {u}
  BY <1>1, PostFacts
<1>3. \A u \in Thread : pc'[u] = IF u = t THEN "run" ELSE pc[u]
  BY <1>1 DEF StepTypeOK
<1>4. pc[t] = q /\ t \notin mq_wait[q].waiting /\ t \in Reader
  BY <1>1 DEF Called, Waits
<1>5. /\ mq_read'[q] = NextSlot(q, mq_read[q])
      /\ \A p \in MsgQ \ {q} : mq_read'[p] = mq_read[p]
  BY <1>1 DEF StepTypeOK
<1>6. StepTypeOK'
  <2>1. NextSlot(q, mq_read[q]) \in Slot(q) /\ NextSlot(q, mq_read[q]) \in Nat
    BY SlotFacts DEF StepTypeOK
  <2>2. mq_read' \in [MsgQ -> Nat] /\ \A p \in MsgQ : mq_read'[p] \in Slot(p)
    BY <1>1, <1>5, <2>1 DEF StepTypeOK
  <2>3. pc' \in [Thread -> {"run"} \cup MsgQ]
    BY <1>1 DEF StepTypeOK
  <2> QED BY <1>1, <1>2, <2>2, <2>3 DEF StepTypeOK
<1>7. ASSUME NEW p \in MsgQ, p # q
      PROVE  Waits(p)' /\ Told(p)' /\ (Covered(p) => Covered(p)')
  <2>1. mq_wait'[p] = mq_wait[p] /\ mq_read'[p] = mq_read[p]
    BY <1>2, <1>5, <1>7
  <2>2. Called(p)' = Called(p)
    BY <1>3, <1>4, <1>7, <2>1 DEF Called
  <2> QED BY <1>1, <1>3, <1>4, <1>7, <2>1, <2>2 DEF Waits, Told, Covered
<1>8. /\ Waits(q)' /\ Told(q)'
      /\ Covered(q) /\ (\A r, s \in Reader : r = s) => Covered(q)'
  <2>1. CASE mq_read'[q] = mq_write[q]
    <3>1. mq_wait'[q] = mq_wait[q]
      BY <1>2, <2>1
    <3>2. Waits(q)' /\ Told(q)'
      BY <1>1, <1>3, <1>4, <2>1, <3>1 DEF Waits, Told
    <3>3. ASSUME Covered(q), \A r, s \in Reader : r = s
          PROVE  Covered(q)'
      <4>1. Called(q)' = {}
        BY <1>3, <1>4, <3>1, <3>3 DEF Called, Waits
      <4>2. ~mq_wait[q].signaled
        BY <1>1, <1>5, <2>1, <3>3 DEF Covered
      <4> QED BY <3>1, <4>1, <4>2 DEF Covered
    <3> QED BY <3>2, <3>3
  <2>2. CASE mq_read'[q] # mq_write[q]
    <3>1. \/ mq_wait[q].waiting = {} /\ mq_wait'[q].waiting = {} /\ mq_wait'[q].signaled
          \/ /\ mq_wait'[q].signaled = mq_wait[q].signaled
             /\ \E u \in mq_wait[q].waiting : mq_wait'[q].waiting = mq_wait[q].waiting \ {u}
      BY <1>2, <2>2
    <3>2. Waits(q)' /\ Told(q)'
      BY <1>1, <1>3, <1>4, <2>2, <3>1 DEF Waits, Told, Called
    <3>3. ASSUME Covered(q), \A r, s \in Reader : r = s
          PROVE  Covered(q)'
      <4>1. Called(q)' = {}
        BY <1>3, <1>4, <3>3 DEF Called, Waits
      <4> QED BY <1>1, <2>2, <4>1 DEF Covered
    <3> QED BY <3>2, <3>3
  <2> QED BY <2>1, <2>2
<1> QED BY <1>6, <1>7, <1>8 DEF CoveredInv

-----------------------------------------------------------------------------

LEMMA InitKeeps == Init => CoveredInv
<1> SUFFICES ASSUME Init PROVE CoveredInv
  OBVIOUS
<1>1. StepTypeOK
  BY SlotFacts DEF Init, StepTypeOK, EmptyQueue, EventQueue
<1>2. ASSUME NEW q \in MsgQ
      PROVE  Waits(q) /\ Told(q) /\ Covered(q)
  <2>1. mq_wait[q] = EmptyQueue /\ mq_read[q] = mq_write[q] /\ \A t \in Thread : pc[t] # q
    BY DEF Init
  <2>2. Called(q) = {}
    BY <2>1 DEF Called
  <2> QED BY <2>1, <2>2 DEF Waits, Told, Covered, EmptyQueue
<1> QED BY <1>1, <1>2 DEF ToldInv, CoveredInv

LEMMA NextKeeps ==
  ASSUME ToldInv, [Next]_vars
  PROVE  /\ ToldInv'
         /\ CoveredInv /\ FlushWhen # "waiting" /\ (\A r, s \in Reader : r = s) => CoveredInv'
<1>1. CASE \E m \in Data : NutMsgQBroadcast(m)
  BY <1>1, PostToKeeps DEF NutMsgQBroadcast
<1>2. ASSUME NEW q \in MsgQ, NutMsgQFlush(q)
      PROVE  ToldInv' /\ (CoveredInv /\ FlushWhen # "waiting" => CoveredInv')
  BY <1>2, FlushKeeps
<1>3. CASE \E q \in MsgQ, m \in Data : NutMsgQPost(q, m)
  BY <1>3, PostToKeeps DEF NutMsgQPost
<1>4. CASE \E q \in MsgQ, m \in Timer : NutMsgQTimerCb(q, m)
  BY <1>4, PostToKeeps DEF NutMsgQTimerCb
<1>5. CASE UNCHANGED <<mq_read, mq_write, mq_wait, pc>>
  BY <1>5 DEF ToldInv, CoveredInv, StepTypeOK, Waits, Told, Covered, Called
<1>6. CASE \E q \in MsgQ, m \in Timer, flags \in {"TM_ONESHOT", "periodic"} :
              NutMsgQStartTimer(q, m, flags) \/ NutMsgQStopTimer(q, m)
  BY <1>5, <1>6 DEF NutMsgQStartTimer, NutMsgQStopTimer, ringVars
<1>7. CASE \E q \in MsgQ, t \in Reader : NutMsgQGetMessage(t, q)
  BY <1>7, GetMessageKeeps
<1>8. CASE \E q \in MsgQ, t \in Thread : GetTimeout(t, q)
  BY <1>8, TimeoutKeeps
<1>9. ASSUME NEW q \in MsgQ, NEW t \in Thread, GetReturn(t, q)
      PROVE  ToldInv' /\ (CoveredInv /\ (\A r, s \in Reader : r = s) => CoveredInv')
  BY <1>9, ReturnKeeps
<1>10. CASE UNCHANGED vars
  BY <1>5, <1>10 DEF vars, ringVars
<1> QED BY <1>1, <1>2, <1>3, <1>4, <1>6, <1>7, <1>8, <1>9, <1>10 DEF Next

(* With any number of readers, and whenever queues are flushed, a message   *)
(* in a queue keeps an event with it: GetReturn() posts again, and a reader *)
(* that times out had none.                                                 *)
THEOREM MessagesHaveEvents == Spec => []EventForMessages
<1>1. Init => ToldInv
  BY InitKeeps DEF CoveredInv
<1>2. ToldInv /\ [Next]_vars => ToldInv'
  BY NextKeeps
<1>3. ToldInv => EventForMessages
  <2> SUFFICES ASSUME ToldInv, NEW q \in MsgQ, Contents(q) # <<>>
               PROVE  Called(q) # {} \/ (mq_wait[q].signaled /\ mq_wait[q].waiting = {})
    BY DEF EventForMessages
  <2> QED BY ContentsFacts DEF ToldInv, Told, Waits
<1> QED BY <1>1, <1>2, <1>3, PTL DEF Spec

(* With one reader, and no flush while it is in a call, an event has a      *)
(* message with it: the assertion of os/msg.c:354 holds.                    *)
THEOREM EventsHaveMessages ==
  ASSUME \A r, s \in Reader : r = s, FlushWhen # "waiting"
  PROVE  Spec => []MessageForEvent
<1>1. Init => ToldInv /\ CoveredInv
  BY InitKeeps DEF CoveredInv
<1>2. ToldInv /\ CoveredInv /\ [Next]_vars => ToldInv' /\ CoveredInv'
  BY NextKeeps
<1>3. CoveredInv => MessageForEvent
  <2> SUFFICES ASSUME CoveredInv, NEW q \in MsgQ, Called(q) # {}
               PROVE  Contents(q) # <<>>
    BY DEF MessageForEvent
  <2> QED BY ContentsFacts DEF CoveredInv, ToldInv, Covered
<1> QED BY <1>1, <1>2, <1>3, PTL DEF Spec

-----------------------------------------------------------------------------
(* The slots from mq_read to mq_write as a sequence.                        *)

Ring(mem, r, w, S) == [i \in 1..((w - r) % S) |-> mem[(r + i - 1) % S]]

(* The same without the operator %.                                         *)
Wrap(x, S) == IF x < S THEN x ELSE x - S
Used(r, w, S) == IF w >= r THEN w - r ELSE w - r + S

LEMMA WrapFacts ==
  ASSUME NEW S \in Nat \ {0, 1}, NEW r \in 0..(S - 1), NEW w \in 0..(S - 1)
  PROVE  /\ (w - r) % S = Used(r, w, S) /\ Used(r, w, S) \in 0..(S - 1)
         /\ (r + 1) % S = Wrap(r + 1, S) /\ Wrap(r + 1, S) \in 0..(S - 1)
         /\ \A j \in 0..(S - 1) : (r + j) % S = Wrap(r + j, S) /\ Wrap(r + j, S) \in 0..(S - 1)
<1>1. \A x \in 0..(S - 1) : x % S = x /\ (x + S) % S = x /\ (x - S) % S = x
  OBVIOUS
<1>2. (w - r) % S = Used(r, w, S) /\ Used(r, w, S) \in 0..(S - 1)
  <2>1. CASE w >= r
    <3>1. w - r \in 0..(S - 1)
      BY <2>1
    <3> QED BY <1>1, <2>1, <3>1 DEF Used
  <2>2. CASE ~(w >= r)
    <3>1. PICK x \in 0..(S - 1) : x = w - r + S
      BY <2>2
    <3>2. w - r = x - S
      BY <3>1
    <3> QED BY <1>1, <2>2, <3>1, <3>2 DEF Used
  <2> QED BY <2>1, <2>2
<1>3. ASSUME NEW j \in 0..(S - 1)
      PROVE  (r + j) % S = Wrap(r + j, S) /\ Wrap(r + j, S) \in 0..(S - 1)
  <2>1. CASE r + j < S
    <3>1. r + j \in 0..(S - 1)
      BY <2>1
    <3> QED BY <1>1, <2>1, <3>1 DEF Wrap
  <2>2. CASE ~(r + j < S)
    <3>1. PICK x \in 0..(S - 1) : x = r + j - S
      BY <2>2
    <3>2. r + j = x + S
      BY <3>1
    <3> QED BY <1>1, <2>2, <3>1, <3>2 DEF Wrap
  <2> QED BY <2>1, <2>2
<1>4. 1 \in 0..(S - 1)
  OBVIOUS
<1> QED BY <1>2, <1>3, <1>4

(* s is what there is between slots r and w of mem.                         *)
IsRing(s, mem, r, w, S, V) ==
    /\ s \in Seq(V) /\ Len(s) = Used(r, w, S)
    /\ \A i \in 1..Used(r, w, S) : s[i] = mem[Wrap(r + (i - 1), S)] /\ Wrap(r + (i - 1), S) \in 0..(S - 1)

LEMMA RingFacts ==
  ASSUME NEW S \in Nat \ {0, 1}, NEW r \in 0..(S - 1), NEW w \in 0..(S - 1),
         NEW V, NEW mem \in [0..(S - 1) -> V]
  PROVE  IsRing(Ring(mem, r, w, S), mem, r, w, S, V)
<1> DEFINE n == Used(r, w, S)
<1>1. n \in 0..(S - 1) /\ n \in Nat /\ (w - r) % S = n
  BY WrapFacts
<1>2. Ring(mem, r, w, S) = [i \in 1..n |-> mem[(r + i - 1) % S]]
  BY <1>1 DEF Ring
<1> HIDE DEF n
<1>3. ASSUME NEW i \in 1..n
      PROVE  (r + i - 1) % S = Wrap(r + (i - 1), S) /\ Wrap(r + (i - 1), S) \in 0..(S - 1)
  <2>1. PICK j \in 0..(S - 1) : j = i - 1
    BY <1>1
  <2>2. r + i - 1 = r + j
    BY <2>1
  <2> QED BY <2>1, <2>2, WrapFacts
<1>4. \A i \in 1..n : mem[(r + i - 1) % S] \in V
  BY <1>3
<1>5. Ring(mem, r, w, S) \in [1..n -> V]
  BY <1>2, <1>4
<1>6. Ring(mem, r, w, S) \in Seq(V)
  BY <1>1, <1>5, SeqDef
<1>7. Len(Ring(mem, r, w, S)) = n
  BY <1>1, <1>5, <1>6
<1>8. \A i \in 1..n : Ring(mem, r, w, S)[i] = mem[Wrap(r + (i - 1), S)]
  BY <1>2, <1>3
<1> QED BY <1>3, <1>6, <1>7, <1>8 DEF n, IsRing

(* The memory of a ring, after a message was written, and after the messages *)
(* m between r and w were canceled.                                         *)
IsMemory(mem, r, w, S) ==
    /\ S \in Nat \ {0, 1} /\ r \in 0..(S - 1) /\ w \in 0..(S - 1)
    /\ mem \in [0..(S - 1) -> Message]

After(x, S) == (x + 1) % S
Written(mem, w, m) == [mem EXCEPT ![w] = m]
Canceled(s, m) == [i \in DOMAIN s |-> IF s[i] = m THEN MsgNull ELSE s[i]]
Wiped(mem, r, w, S, m) ==
    [x \in 0..(S - 1) |->
       IF x \in {y \in 0..(S - 1) : (y - r) % S < (w - r) % S} /\ mem[x] = m THEN MsgNull ELSE mem[x]]

(* A message goes to the slot before mq_read at most.                       *)
LEMMA RingAppend ==
  ASSUME NEW mem, NEW r, NEW w, NEW S, IsMemory(mem, r, w, S), NEW m \in Message, After(w, S) # r
  PROVE  /\ IsMemory(Written(mem, w, m), r, After(w, S), S)
         /\ Ring(Written(mem, w, m), r, After(w, S), S) = Append(Ring(mem, r, w, S), m)
<1> DEFINE mem2 == Written(mem, w, m)
           w2 == After(w, S)
           s == Ring(mem, r, w, S)
           s2 == Ring(mem2, r, w2, S)
           n == Used(r, w, S)
           n2 == Used(r, w2, S)
<1>0. /\ S \in Nat \ {0, 1} /\ r \in 0..(S - 1) /\ w \in 0..(S - 1)
      /\ mem \in [0..(S - 1) -> Message]
  BY DEF IsMemory
<1>1. mem2 \in [0..(S - 1) -> Message] /\ w2 \in 0..(S - 1) /\ w2 = Wrap(w + 1, S) /\ w2 # r
      /\ \A x \in 0..(S - 1) : mem2[x] = IF x = w THEN m ELSE mem[x]
  BY <1>0, WrapFacts DEF After, Written
<1> HIDE DEF mem2, w2
<1>2. /\ s \in Seq(Message) /\ Len(s) = n
      /\ \A i \in 1..n : s[i] = mem[Wrap(r + (i - 1), S)] /\ Wrap(r + (i - 1), S) \in 0..(S - 1)
  <2>1. IsRing(Ring(mem, r, w, S), mem, r, w, S, Message)
    BY <1>0, RingFacts
  <2> QED BY <2>1 DEF IsRing
<1>3. /\ s2 \in Seq(Message) /\ Len(s2) = n2
      /\ \A i \in 1..n2 : s2[i] = mem2[Wrap(r + (i - 1), S)] /\ Wrap(r + (i - 1), S) \in 0..(S - 1)
  <2>1. IsRing(Ring(mem2, r, w2, S), mem2, r, w2, S, Message)
    BY <1>0, <1>1, RingFacts
  <2> QED BY <2>1 DEF IsRing
<1>4. n2 = n + 1 /\ n \in 0..(S - 1) /\ n < S - 1 /\ Wrap(r + n, S) = w
  BY <1>0, <1>1 DEF Used, Wrap
<1>5. \A i \in 1..n : Wrap(r + (i - 1), S) # w
  BY <1>0 DEF Used, Wrap
<1> HIDE DEF n, n2, s, s2
<1>6. Append(s, m) \in Seq(Message) /\ Len(Append(s, m)) = n + 1
  BY <1>2
<1>7. ASSUME NEW i \in 1..(n + 1)
      PROVE  s2[i] = Append(s, m)[i]
  <2>1. CASE i \in 1..n
    <3>1. s2[i] = mem[Wrap(r + (i - 1), S)]
      BY <1>1, <1>2, <1>3, <1>4, <1>5, <1>7, <2>1
    <3> QED BY <1>2, <2>1, <3>1
  <2>2. CASE i = n + 1
    <3>1. i - 1 = n
      BY <1>4, <2>2
    <3>2. s2[i] = mem2[Wrap(r + (i - 1), S)]
      BY <1>3, <1>4, <1>7
    <3>3. s2[i] = m
      BY <1>0, <1>1, <1>4, <3>1, <3>2
    <3> QED BY <1>2, <2>2, <3>3
  <2>3. i \in 1..n \/ i = n + 1
    BY <1>4
  <2> QED BY <2>1, <2>2, <2>3
<1>8. s2 = Append(s, m)
  BY <1>3, <1>4, <1>6, <1>7, SeqEqual
<1> QED BY <1>0, <1>1, <1>8 DEF s, s2, mem2, w2, IsMemory

LEMMA RingFull ==
  ASSUME NEW S \in Nat \ {0, 1}, NEW r \in 0..(S - 1), NEW w \in 0..(S - 1)
  PROVE  (w + 1) % S = r <=> ~(Used(r, w, S) < S - 1)
<1>1. (w + 1) % S = Wrap(w + 1, S)
  BY WrapFacts
<1> QED BY <1>1 DEF Used, Wrap

LEMMA RingEmpty ==
  ASSUME NEW S \in Nat \ {0, 1}, NEW w \in 0..(S - 1), NEW mem
  PROVE  Ring(mem, w, w, S) = <<>>
<1>1. (w - w) % S = 0
  OBVIOUS
<1>2. 1..0 = {}
  OBVIOUS
<1> QED BY <1>1, <1>2 DEF Ring

(* The oldest message is at mq_read.                                        *)
LEMMA RingTail ==
  ASSUME NEW mem, NEW r, NEW w, NEW S, IsMemory(mem, r, w, S), r # w
  PROVE  /\ Ring(mem, r, w, S) # <<>> /\ Head(Ring(mem, r, w, S)) = mem[r]
         /\ Ring(mem, After(r, S), w, S) = Tail(Ring(mem, r, w, S))
<1> DEFINE r2 == After(r, S)
           s == Ring(mem, r, w, S)
           s2 == Ring(mem, r2, w, S)
           n == Used(r, w, S)
           n2 == Used(r2, w, S)
<1>0. /\ S \in Nat \ {0, 1} /\ r \in 0..(S - 1) /\ w \in 0..(S - 1)
      /\ mem \in [0..(S - 1) -> Message]
  BY DEF IsMemory
<1>1. r2 \in 0..(S - 1) /\ r2 = Wrap(r + 1, S)
  BY <1>0, WrapFacts DEF After
<1> HIDE DEF r2
<1>2. /\ s \in Seq(Message) /\ Len(s) = n
      /\ \A i \in 1..n : s[i] = mem[Wrap(r + (i - 1), S)]
  <2>1. IsRing(Ring(mem, r, w, S), mem, r, w, S, Message)
    BY <1>0, RingFacts
  <2> QED BY <2>1 DEF IsRing
<1>3. /\ s2 \in Seq(Message) /\ Len(s2) = n2
      /\ \A i \in 1..n2 : s2[i] = mem[Wrap(r2 + (i - 1), S)]
  <2>1. IsRing(Ring(mem, r2, w, S), mem, r2, w, S, Message)
    BY <1>0, <1>1, RingFacts
  <2> QED BY <2>1 DEF IsRing
<1>4. n2 = n - 1 /\ n \in 1..(S - 1)
  BY <1>0, <1>1 DEF Used, Wrap
<1>5. Wrap(r + (1 - 1), S) = r
  BY <1>0 DEF Wrap
<1>6. ASSUME NEW i \in 1..n2
      PROVE  Wrap(r2 + (i - 1), S) = Wrap(r + ((i + 1) - 1), S)
  BY <1>0, <1>1, <1>4 DEF Wrap
<1> HIDE DEF n, n2, s, s2
<1>7. s # <<>> /\ Head(s) = s[1] /\ s[1] = mem[r]
  BY <1>2, <1>4, <1>5, EmptySeq
<1>8. /\ Tail(s) \in Seq(Message) /\ Len(Tail(s)) = n - 1
      /\ \A i \in 1..(n - 1) : Tail(s)[i] = s[i + 1]
  BY <1>2, <1>7, HeadTailProperties
<1>9. ASSUME NEW i \in 1..n2
      PROVE  s2[i] = Tail(s)[i]
  <2>1. i + 1 \in 1..n /\ i \in 1..(n - 1)
    BY <1>4
  <2>2. s2[i] = mem[Wrap(r + ((i + 1) - 1), S)]
    BY <1>3, <1>6
  <2> QED BY <1>2, <1>8, <2>1, <2>2
<1>10. s2 = Tail(s)
  BY <1>3, <1>4, <1>8, <1>9, SeqEqual
<1> QED BY <1>7, <1>10 DEF s, s2, r2

(* The messages m between mq_read and mq_write become z.                    *)
LEMMA RingCancel ==
  ASSUME NEW mem, NEW r, NEW w, NEW S, IsMemory(mem, r, w, S), NEW m
  PROVE  /\ IsMemory(Wiped(mem, r, w, S, m), r, w, S)
         /\ Ring(Wiped(mem, r, w, S, m), r, w, S) = Canceled(Ring(mem, r, w, S), m)
<1> DEFINE z == MsgNull
           mem2 == Wiped(mem, r, w, S, m)
           s == Ring(mem, r, w, S)
           s2 == Ring(mem2, r, w, S)
           n == Used(r, w, S)
           c == [i \in DOMAIN s |-> IF s[i] = m THEN z ELSE s[i]]
<1>0. /\ S \in Nat \ {0, 1} /\ r \in 0..(S - 1) /\ w \in 0..(S - 1)
      /\ mem \in [0..(S - 1) -> Message]
  BY DEF IsMemory
<1>1. /\ mem2 \in [0..(S - 1) -> Message]
      /\ \A x \in 0..(S - 1) : mem2[x] = IF (x - r) % S < (w - r) % S /\ mem[x] = m THEN z ELSE mem[x]
  <2>1. MsgNull \in Message
    BY DEF Message
  <2> QED BY <1>0, <2>1 DEF Wiped
<1> HIDE DEF mem2
<1>2. /\ s \in Seq(Message) /\ Len(s) = n
      /\ \A i \in 1..n : s[i] = mem[Wrap(r + (i - 1), S)] /\ Wrap(r + (i - 1), S) \in 0..(S - 1)
  <2>1. IsRing(Ring(mem, r, w, S), mem, r, w, S, Message)
    BY <1>0, RingFacts
  <2> QED BY <2>1 DEF IsRing
<1>3. /\ s2 \in Seq(Message) /\ Len(s2) = n
      /\ \A i \in 1..n : s2[i] = mem2[Wrap(r + (i - 1), S)]
  <2>1. IsRing(Ring(mem2, r, w, S), mem2, r, w, S, Message)
    BY <1>0, <1>1, RingFacts
  <2> QED BY <2>1 DEF IsRing
<1>4. n \in 0..(S - 1)
  BY <1>0, WrapFacts
<1>5. ASSUME NEW i \in 1..n
      PROVE  mem2[Wrap(r + (i - 1), S)] = IF s[i] = m THEN z ELSE s[i]
  <2>1. PICK x \in 0..(S - 1) : x = Wrap(r + (i - 1), S)
    BY <1>2
  <2>2. (x - r) % S = Used(r, x, S) /\ (w - r) % S = n
    BY <1>0, WrapFacts
  <2>3. Used(r, x, S) = i - 1
    BY <1>0, <1>4, <2>1 DEF Used, Wrap
  <2>4. (x - r) % S < (w - r) % S
    BY <1>4, <2>2, <2>3
  <2> HIDE DEF n, s
  <2> QED BY <1>1, <1>2, <2>1, <2>4
<1>6. DOMAIN s = 1..n /\ DOMAIN s2 = 1..n
  <2> HIDE DEF s, s2, n
  <2> QED BY <1>2, <1>3, LenProperties
<1> HIDE DEF n, s, s2
<1>7. s2 = [i \in 1..n |-> s2[i]]
  BY <1>3, <1>6, LenProperties
<1>8. \A i \in 1..n : s2[i] = IF s[i] = m THEN z ELSE s[i]
  BY <1>3, <1>5
<1>9. s2 = c
  BY <1>6, <1>7, <1>8
<1> QED BY <1>0, <1>1, <1>9 DEF s, s2, c, mem2, Canceled, IsMemory

-----------------------------------------------------------------------------
(* What the steps do to the contents of the queues.                         *)

MemoryOK ==
    /\ mq_que = [q \in MsgQ |-> mq_que[q]]
    /\ \A q \in MsgQ : mq_que[q] \in [Slot(q) -> Message]

HasRoom(q) == Len(Contents(q)) < Size[q] - 1

LEMMA QueueRing ==
  ASSUME StepTypeOK, MemoryOK, NEW q \in MsgQ
  PROVE  /\ Size[q] \in Nat \ {0, 1} /\ mq_read[q] \in 0..(Size[q] - 1) /\ mq_write[q] \in 0..(Size[q] - 1)
         /\ mq_que[q] \in [0..(Size[q] - 1) -> Message]
         /\ Contents(q) = Ring(mq_que[q], mq_read[q], mq_write[q], Size[q])
         /\ Contents(q) \in Seq(Message)
         /\ NutMsgQFull(q) <=> ~HasRoom(q)
<1>1. /\ Size[q] \in Nat \ {0, 1} /\ mq_read[q] \in 0..(Size[q] - 1) /\ mq_write[q] \in 0..(Size[q] - 1)
      /\ mq_que[q] \in [0..(Size[q] - 1) -> Message]
  BY DEF StepTypeOK, MemoryOK, Slot
<1>2. Contents(q) = Ring(mq_que[q], mq_read[q], mq_write[q], Size[q])
  BY DEF Contents, Ring
<1>3. IsRing(Ring(mq_que[q], mq_read[q], mq_write[q], Size[q]),
             mq_que[q], mq_read[q], mq_write[q], Size[q], Message)
  BY <1>1, RingFacts
<1>4. (mq_write[q] + 1) % Size[q] = mq_read[q]
        <=> ~(Used(mq_read[q], mq_write[q], Size[q]) < Size[q] - 1)
  BY <1>1, RingFull
<1> QED BY <1>1, <1>2, <1>3, <1>4 DEF IsRing, HasRoom, NutMsgQFull, NextSlot

LEMMA PostContents ==
  ASSUME StepTypeOK, MemoryOK, NEW Q \in SUBSET MsgQ, NEW m \in Message, PostTo(Q, m)
  PROVE  /\ MemoryOK'
         /\ \A q \in MsgQ : Contents(q)' = IF q \in Q /\ HasRoom(q) THEN Append(Contents(q), m)
                                                                    ELSE Contents(q)
<1> DEFINE room == {q \in Q : ~NutMsgQFull(q)}
<1>1. /\ mq_que' = [q \in MsgQ |-> IF q \in room THEN [mq_que[q] EXCEPT ![mq_write[q]] = m]
                                                 ELSE mq_que[q]]
      /\ mq_write' = [q \in MsgQ |-> IF q \in room THEN NextSlot(q, mq_write[q]) ELSE mq_write[q]]
      /\ mq_read' = mq_read
  BY DEF PostTo
<1>2. ASSUME NEW q \in MsgQ
      PROVE  /\ mq_que'[q] \in [Slot(q) -> Message]
             /\ Contents(q)' = IF q \in Q /\ HasRoom(q) THEN Append(Contents(q), m) ELSE Contents(q)
  <2>1. /\ Size[q] \in Nat \ {0, 1} /\ mq_read[q] \in 0..(Size[q] - 1) /\ mq_write[q] \in 0..(Size[q] - 1)
        /\ mq_que[q] \in [0..(Size[q] - 1) -> Message]
        /\ Contents(q) = Ring(mq_que[q], mq_read[q], mq_write[q], Size[q])
        /\ NutMsgQFull(q) <=> ~HasRoom(q)
    BY QueueRing
  <2>2. Contents(q)' = Ring(mq_que'[q], mq_read[q], mq_write'[q], Size[q])
    BY <1>1 DEF Contents, Ring
  <2>3. CASE q \in room
    <3>1. /\ mq_que'[q] = [mq_que[q] EXCEPT ![mq_write[q]] = m]
          /\ mq_write'[q] = (mq_write[q] + 1) % Size[q] /\ mq_write'[q] # mq_read[q]
      BY <1>1, <2>3 DEF NextSlot, NutMsgQFull
    <3>2. /\ mq_que'[q] \in [0..(Size[q] - 1) -> Message]
          /\ Ring(mq_que'[q], mq_read[q], mq_write'[q], Size[q])
               = Append(Ring(mq_que[q], mq_read[q], mq_write[q], Size[q]), m)
      <4>1. IsMemory(mq_que[q], mq_read[q], mq_write[q], Size[q])
        BY <2>1 DEF IsMemory
      <4>2. /\ mq_que'[q] = Written(mq_que[q], mq_write[q], m) /\ mq_write'[q] = After(mq_write[q], Size[q])
            /\ After(mq_write[q], Size[q]) # mq_read[q]
        BY <3>1 DEF Written, After
      <4>3. /\ IsMemory(Written(mq_que[q], mq_write[q], m), mq_read[q], After(mq_write[q], Size[q]), Size[q])
            /\ Ring(Written(mq_que[q], mq_write[q], m), mq_read[q], After(mq_write[q], Size[q]), Size[q])
                 = Append(Ring(mq_que[q], mq_read[q], mq_write[q], Size[q]), m)
        BY ONLY <4>1, <4>2, RingAppend, m \in Message
      <4> QED BY <4>2, <4>3 DEF IsMemory
    <3>3. q \in Q /\ HasRoom(q)
      BY <2>1, <2>3
    <3> HIDE DEF room
    <3> QED BY <2>1, <2>2, <3>2, <3>3 DEF Slot
  <2>4. CASE q \notin room
    <3>1. mq_que'[q] = mq_que[q] /\ mq_write'[q] = mq_write[q]
      BY <1>1, <2>4
    <3>2. ~(q \in Q /\ HasRoom(q))
      BY <2>1, <2>4
    <3> HIDE DEF room
    <3> QED BY <2>1, <2>2, <3>1, <3>2 DEF Slot
  <2> HIDE DEF room
  <2> QED BY <2>3, <2>4
<1>3. mq_que' = [q \in MsgQ |-> mq_que'[q]]
  <2> HIDE DEF room
  <2> QED BY <1>1
<1> QED BY <1>2, <1>3 DEF MemoryOK

LEMMA FlushContents ==
  ASSUME StepTypeOK, MemoryOK, NEW q \in MsgQ, NutMsgQFlush(q)
  PROVE  MemoryOK' /\ \A p \in MsgQ : Contents(p)' = IF p = q THEN <<>> ELSE Contents(p)
<1>1. /\ mq_read' = [mq_read EXCEPT ![q] = mq_write[q]] /\ mq_que' = mq_que /\ mq_write' = mq_write
  BY DEF NutMsgQFlush
<1>2. Contents(q)' = <<>>
  <2>1. mq_read'[q] = mq_write[q]
    BY <1>1 DEF StepTypeOK
  <2>2. Contents(q)' = Ring(mq_que[q], mq_write[q], mq_write[q], Size[q])
    BY <1>1, <2>1 DEF Contents, Ring
  <2>3. Size[q] \in Nat \ {0, 1} /\ mq_write[q] \in 0..(Size[q] - 1)
    BY QueueRing
  <2> QED BY <2>2, <2>3, RingEmpty
<1>3. ASSUME NEW p \in MsgQ, p # q PROVE Contents(p)' = Contents(p)
  <2>1. mq_read'[p] = mq_read[p]
    BY <1>1, <1>3 DEF StepTypeOK
  <2> QED BY <1>1, <2>1 DEF Contents
<1> QED BY <1>1, <1>2, <1>3 DEF MemoryOK

LEMMA StopContents ==
  ASSUME StepTypeOK, MemoryOK, NEW q \in MsgQ, NEW m \in Timer, NutMsgQStopTimer(q, m)
  PROVE  /\ MemoryOK'
         /\ \A p \in MsgQ : Contents(p)' = IF p = q THEN Canceled(Contents(p), m) ELSE Contents(p)
<1> DEFINE mem2 == [s \in Slot(q) |-> IF s \in InUse(q) /\ mq_que[q][s] = m THEN MsgNull ELSE mq_que[q][s]]
<1>1. /\ mq_que' = [mq_que EXCEPT ![q] = mem2] /\ mq_read' = mq_read /\ mq_write' = mq_write
  BY DEF NutMsgQStopTimer
<1>2. mq_que'[q] = mem2 /\ \A p \in MsgQ \ {q} : mq_que'[p] = mq_que[p]
  <2> HIDE DEF mem2
  <2> QED BY <1>1 DEF MemoryOK
<1>3. mq_que' = [p \in MsgQ |-> mq_que'[p]]
  <2> HIDE DEF mem2
  <2> QED BY <1>1 DEF MemoryOK
<1>4. /\ Size[q] \in Nat \ {0, 1} /\ mq_read[q] \in 0..(Size[q] - 1) /\ mq_write[q] \in 0..(Size[q] - 1)
      /\ mq_que[q] \in [0..(Size[q] - 1) -> Message]
      /\ Contents(q) = Ring(mq_que[q], mq_read[q], mq_write[q], Size[q])
  BY QueueRing
<1>5. MsgNull \in Message
  BY DEF Message
<1>6. mem2 = [x \in 0..(Size[q] - 1) |->
                IF /\ x \in {y \in 0..(Size[q] - 1) : (y - mq_read[q]) % Size[q] < (mq_write[q] - mq_read[q]) % Size[q]}
                   /\ mq_que[q][x] = m
                  THEN MsgNull ELSE mq_que[q][x]]
  BY DEF InUse, Slot
<1>7. /\ mq_que'[q] \in [0..(Size[q] - 1) -> Message]
      /\ Ring(mq_que'[q], mq_read[q], mq_write[q], Size[q]) =
           Canceled(Ring(mq_que[q], mq_read[q], mq_write[q], Size[q]), m)
  <2> HIDE DEF mem2
  <2>1. mq_que'[q] = [x \in 0..(Size[q] - 1) |->
                IF /\ x \in {y \in 0..(Size[q] - 1) : (y - mq_read[q]) % Size[q] < (mq_write[q] - mq_read[q]) % Size[q]}
                   /\ mq_que[q][x] = m
                  THEN MsgNull ELSE mq_que[q][x]]
    BY <1>2, <1>6
  <2>2. IsMemory(mq_que[q], mq_read[q], mq_write[q], Size[q])
    BY <1>4 DEF IsMemory
  <2>3. mq_que'[q] = Wiped(mq_que[q], mq_read[q], mq_write[q], Size[q], m)
    BY <2>1 DEF Wiped
  <2>4. /\ IsMemory(mq_que'[q], mq_read[q], mq_write[q], Size[q])
        /\ Ring(mq_que'[q], mq_read[q], mq_write[q], Size[q]) =
             Canceled(Ring(mq_que[q], mq_read[q], mq_write[q], Size[q]), m)
    BY ONLY <2>2, <2>3, RingCancel
  <2> QED BY <2>4 DEF IsMemory
<1>8. Contents(q)' = Ring(mq_que'[q], mq_read[q], mq_write[q], Size[q])
  BY <1>1 DEF Contents, Ring
<1>9. \A p \in MsgQ \ {q} : Contents(p)' = Contents(p)
  BY <1>1, <1>2 DEF Contents
<1>10. MemoryOK'
  <2> HIDE DEF mem2
  <2> QED BY <1>1, <1>2, <1>3, <1>7 DEF MemoryOK, Slot
<1> HIDE DEF mem2
<1> QED BY <1>4, <1>7, <1>8, <1>9, <1>10

LEMMA ReturnContents ==
  ASSUME StepTypeOK, MemoryOK, NEW q \in MsgQ, NEW t \in Thread, GetReturn(t, q), mq_read[q] # mq_write[q]
  PROVE  /\ MemoryOK' /\ Contents(q) # <<>> /\ mq_que[q][mq_read[q]] = Head(Contents(q))
         /\ \A p \in MsgQ : Contents(p)' = IF p = q THEN Tail(Contents(p)) ELSE Contents(p)
<1>1. /\ mq_read' = [mq_read EXCEPT ![q] = NextSlot(q, @)] /\ mq_que' = mq_que /\ mq_write' = mq_write
  BY DEF GetReturn
<1>2. mq_read'[q] = (mq_read[q] + 1) % Size[q] /\ \A p \in MsgQ \ {q} : mq_read'[p] = mq_read[p]
  BY <1>1 DEF StepTypeOK, NextSlot
<1>3. /\ Size[q] \in Nat \ {0, 1} /\ mq_read[q] \in 0..(Size[q] - 1) /\ mq_write[q] \in 0..(Size[q] - 1)
      /\ mq_que[q] \in [0..(Size[q] - 1) -> Message]
      /\ Contents(q) = Ring(mq_que[q], mq_read[q], mq_write[q], Size[q])
  BY QueueRing
<1>4. /\ Ring(mq_que[q], mq_read[q], mq_write[q], Size[q]) # <<>>
      /\ Head(Ring(mq_que[q], mq_read[q], mq_write[q], Size[q])) = mq_que[q][mq_read[q]]
      /\ Ring(mq_que[q], mq_read'[q], mq_write[q], Size[q]) = Tail(Ring(mq_que[q], mq_read[q], mq_write[q], Size[q]))
  <2>1. IsMemory(mq_que[q], mq_read[q], mq_write[q], Size[q])
    BY <1>3 DEF IsMemory
  <2>2. mq_read'[q] = After(mq_read[q], Size[q])
    BY <1>2 DEF After
  <2> QED BY ONLY <2>1, <2>2, RingTail, mq_read[q] # mq_write[q]
<1>5. Contents(q)' = Ring(mq_que[q], mq_read'[q], mq_write[q], Size[q])
  BY <1>1 DEF Contents, Ring
<1>6. \A p \in MsgQ \ {q} : Contents(p)' = Contents(p)
  BY <1>1, <1>2 DEF Contents
<1> QED BY <1>1, <1>3, <1>4, <1>5, <1>6 DEF MemoryOK

LEMMA SameContents ==
  ASSUME UNCHANGED ringVars
  PROVE  (MemoryOK => MemoryOK') /\ \A q \in MsgQ : Contents(q)' = Contents(q)
BY DEF ringVars, MemoryOK, Contents

-----------------------------------------------------------------------------
(* Where the messages of timers are.                                        *)

Has(s, m) == \E i \in 1..Len(s) : s[i] = m
Once(s, m) == \A i, j \in 1..Len(s) : s[i] = m /\ s[j] = m => i = j

LEMMA EmptyHas ==
  ASSUME NEW m
  PROVE  ~Has(<<>>, m) /\ Once(<<>>, m)
BY EmptySeq DEF Has, Once

LEMMA AppendHas ==
  ASSUME NEW s \in Seq(Message), NEW x \in Message, NEW m
  PROVE  /\ Has(Append(s, x), m) <=> Has(s, m) \/ x = m
         /\ Once(s, m) /\ (x = m => ~Has(s, m)) => Once(Append(s, x), m)
<1> DEFINE a == Append(s, x)
           n == Len(s)
<1>1. n \in Nat /\ Len(a) = n + 1
  OBVIOUS
<1>2. \A i \in 1..n : a[i] = s[i]
  OBVIOUS
<1>3. a[n + 1] = x
  OBVIOUS
<1> HIDE DEF a, n
<1>4. \A i \in 1..(n + 1) : i \in 1..n \/ i = n + 1
  BY <1>1
<1>5. 1..n \subseteq 1..(n + 1) /\ n + 1 \in 1..(n + 1)
  BY <1>1
<1>6. (\E i \in 1..(n + 1) : a[i] = m) <=> (\E i \in 1..n : s[i] = m) \/ x = m
  BY <1>2, <1>3, <1>4, <1>5
<1>7. ASSUME \A i, j \in 1..n : s[i] = m /\ s[j] = m => i = j,
             x = m => ~\E i \in 1..n : s[i] = m
      PROVE  \A i, j \in 1..(n + 1) : a[i] = m /\ a[j] = m => i = j
  BY <1>2, <1>3, <1>4, <1>7
<1> QED BY <1>1, <1>6, <1>7 DEF Has, Once, a, n

LEMMA TailHas ==
  ASSUME NEW s \in Seq(Message), s # <<>>, NEW m
  PROVE  /\ Has(Tail(s), m) => Has(s, m)
         /\ Has(s, m) /\ m # Head(s) => Has(Tail(s), m)
         /\ Once(s, m) => Once(Tail(s), m) /\ (m = Head(s) => ~Has(Tail(s), m))
         /\ Has(s, Head(s)) /\ Head(s) \in Message
<1> DEFINE t == Tail(s)
           n == Len(t)
<1>1. n \in Nat /\ Len(s) = n + 1 /\ Head(s) = s[1] /\ Head(s) \in Message
  BY HeadTailProperties, EmptySeq
<1>2. \A i \in 1..n : t[i] = s[i + 1] /\ i + 1 \in 1..(n + 1)
  BY HeadTailProperties
<1> HIDE DEF t, n
<1>3. \A i \in 1..(n + 1) : i = 1 \/ (i - 1 \in 1..n /\ (i - 1) + 1 = i)
  BY <1>1
<1>4. 1 \in 1..(n + 1)
  BY <1>1
<1>5. (\E i \in 1..n : t[i] = m) => \E i \in 1..(n + 1) : s[i] = m
  BY <1>2
<1>6. ASSUME NEW i \in 1..(n + 1), s[i] = m, m # s[1]
      PROVE  \E j \in 1..n : t[j] = m
  <2>1. i - 1 \in 1..n /\ (i - 1) + 1 = i
    BY <1>3, <1>6
  <2> QED BY <1>2, <1>6, <2>1
<1>7. ASSUME \A i, j \in 1..(n + 1) : s[i] = m /\ s[j] = m => i = j
      PROVE  /\ \A i, j \in 1..n : t[i] = m /\ t[j] = m => i = j
             /\ m = s[1] => ~\E i \in 1..n : t[i] = m
  <2>1. ASSUME NEW i \in 1..n, NEW j \in 1..n, t[i] = m, t[j] = m PROVE i = j
    <3>1. i + 1 = j + 1
      BY <1>2, <1>7, <2>1
    <3> QED BY <1>1, <3>1
  <2>2. ASSUME m = s[1], NEW i \in 1..n, t[i] = m PROVE FALSE
    <3>1. i + 1 = 1
      BY <1>2, <1>4, <1>7, <2>2
    <3> QED BY <1>1, <3>1
  <2> QED BY <2>1, <2>2
<1> QED BY <1>1, <1>4, <1>5, <1>6, <1>7 DEF Has, Once, t, n

LEMMA CanceledHas ==
  ASSUME NEW s \in Seq(Message), NEW k \in Timer, NEW m \in Timer
  PROVE  /\ Canceled(s, k) \in Seq(Message)
         /\ Has(Canceled(s, k), m) <=> Has(s, m) /\ m # k
         /\ Once(s, m) => Once(Canceled(s, k), m)
<1>1. Len(s) \in Nat /\ DOMAIN s = 1..Len(s) /\ \A i \in 1..Len(s) : s[i] \in Message
  BY LenProperties, ElementOfSeq
<1>2. k # MsgNull /\ m # MsgNull /\ MsgNull \in Message
  BY DEF Message
<1>3. Canceled(s, k) = [i \in 1..Len(s) |-> IF s[i] = k THEN MsgNull ELSE s[i]]
  BY <1>1 DEF Canceled
<1>4. Canceled(s, k) \in [1..Len(s) -> Message]
  BY <1>1, <1>2, <1>3
<1>5. Canceled(s, k) \in Seq(Message) /\ Len(Canceled(s, k)) = Len(s)
  BY <1>1, <1>4, SeqDef
<1>6. \A i \in 1..Len(s) : Canceled(s, k)[i] = m <=> s[i] = m /\ m # k
  BY <1>2, <1>3
<1> QED BY <1>5, <1>6 DEF Has, Once

-----------------------------------------------------------------------------

TimersOK ==
    /\ mq_timers \in [MsgQ -> SUBSET Timer] /\ mt_handle \subseteq Timer \ Free
    /\ mt_flags \in [Timer -> {"TM_ONESHOT", "periodic"}]
    /\ msg \in [Thread -> Message]

OneShot(q) == {m \in mq_timers[q] : mt_flags[m] = "TM_ONESHOT"}

(* A timer is in one list.                                                  *)
OneList == \A p, q \in MsgQ : mq_timers[p] \cap mq_timers[q] # {} => p = q

(* A timer is in use as long as its messages are there; a one-shot timer's  *)
(* is there once, and not before it has elapsed.                            *)
Posts(q) ==
    /\ \A m \in Timer : Has(Contents(q), m) => m \in mq_timers[q]
    /\ \A m \in OneShot(q) : Once(Contents(q), m) /\ (m \in mt_handle => ~Has(Contents(q), m))
    /\ FlushWhen = "careful" => \A m \in OneShot(q) : m \in mt_handle \/ Has(Contents(q), m)

PostsInv == MemoryOK /\ TimersOK /\ OneList /\ \A q \in MsgQ : Posts(q)

(* Nothing changes but messages that come from the application.             *)
LEMMA PostedPosts ==
  ASSUME ToldInv, PostsInv, NEW Q \in SUBSET MsgQ, NEW m \in Data, PostTo(Q, m), UNCHANGED <<msgTimerVars, msg>>
  PROVE  PostsInv'
<1>1. /\ MemoryOK' /\ mq_timers' = mq_timers /\ mt_handle' = mt_handle /\ mt_flags' = mt_flags
      /\ \A q \in MsgQ : Contents(q)' = IF q \in Q /\ HasRoom(q) THEN Append(Contents(q), m)
                                                                 ELSE Contents(q)
  BY PostContents DEF ToldInv, PostsInv, msgTimerVars, Message
<1>2. m \in Message /\ m \notin Timer
  BY DEF Message
<1>3. ASSUME NEW q \in MsgQ PROVE Posts(q)'
  <2>1. Contents(q) \in Seq(Message) /\ mq_timers[q] \subseteq Timer
    BY QueueRing DEF ToldInv, PostsInv, TimersOK
  <2>2. OneShot(q)' = OneShot(q) /\ OneShot(q) \subseteq Timer
    BY <1>1, <2>1 DEF OneShot
  <2>3. \A k \in Timer : /\ Has(Contents(q)', k) <=> Has(Contents(q), k)
                         /\ Once(Contents(q), k) => Once(Contents(q)', k)
    <3>1. CASE Contents(q)' = Append(Contents(q), m)
      BY <1>2, <2>1, <3>1, AppendHas
    <3>2. CASE Contents(q)' = Contents(q)
      BY <3>2
    <3> QED BY <1>1, <3>1, <3>2
  <2> QED BY <1>1, <2>1, <2>2, <2>3 DEF PostsInv, Posts
<1> QED BY <1>1, <1>3 DEF PostsInv, TimersOK, OneList, Free, msgTimerVars

LEMMA FlushPosts ==
  ASSUME ToldInv, PostsInv, NEW q \in MsgQ, NutMsgQFlush(q)
  PROVE  PostsInv'
<1>1. /\ MemoryOK' /\ mq_timers' = mq_timers /\ mt_handle' = mt_handle /\ mt_flags' = mt_flags /\ msg' = msg
      /\ \A p \in MsgQ : Contents(p)' = IF p = q THEN <<>> ELSE Contents(p)
      /\ FlushWhen = "careful" => \A m \in mq_timers[q] : mt_flags[m] # "TM_ONESHOT"
  BY FlushContents DEF ToldInv, PostsInv, msgTimerVars, NutMsgQFlush, MayFlush
<1>2. ASSUME NEW p \in MsgQ PROVE Posts(p)'
  <2>1. OneShot(p)' = OneShot(p)
    BY <1>1 DEF OneShot
  <2>2. CASE p = q
    BY <1>1, <2>1, <2>2, EmptyHas DEF Posts, OneShot
  <2>3. CASE p # q
    BY <1>1, <2>1, <2>3 DEF PostsInv, Posts
  <2> QED BY <2>2, <2>3
<1> QED BY <1>1, <1>2 DEF PostsInv, TimersOK, OneList, Free

LEMMA FreeFacts ==
  ASSUME TimersOK, NEW m
  PROVE  m \in Free <=> m \in Timer /\ \A q \in MsgQ : m \notin mq_timers[q]
BY DEF Free, TimersOK

(* A free timer has no message anywhere.                                    *)
LEMMA StartPosts ==
  ASSUME ToldInv, PostsInv, NEW q \in MsgQ, NEW m \in Timer, NEW flags \in {"TM_ONESHOT", "periodic"},
         NutMsgQStartTimer(q, m, flags)
  PROVE  PostsInv'
<1>1. /\ m \in Free /\ mt_flags' = [mt_flags EXCEPT ![m] = flags] /\ mt_handle' = mt_handle \cup {m}
      /\ mq_timers' = [mq_timers EXCEPT ![q] = @ \cup {m}]
      /\ UNCHANGED ringVars /\ msg' = msg
  BY DEF NutMsgQStartTimer
<1>2. TimersOK /\ MemoryOK
  BY DEF PostsInv
<1>3. MemoryOK' /\ \A p \in MsgQ : Contents(p)' = Contents(p)
  BY <1>1, <1>2, SameContents
<1>4. \A p \in MsgQ : m \notin mq_timers[p] /\ ~Has(Contents(p), m)
  BY <1>1, <1>2, FreeFacts DEF PostsInv, Posts
<1>5. \A p \in MsgQ : mq_timers'[p] = IF p = q THEN mq_timers[p] \cup {m} ELSE mq_timers[p]
  BY <1>1, <1>2 DEF TimersOK
<1>6. \A k \in Timer : mt_flags'[k] = IF k = m THEN flags ELSE mt_flags[k]
  BY <1>1, <1>2 DEF TimersOK
<1>7. TimersOK'
  <2>1. mq_timers' \in [MsgQ -> SUBSET Timer] /\ mt_flags' \in [Timer -> {"TM_ONESHOT", "periodic"}]
    BY <1>1, <1>2 DEF TimersOK
  <2>2. \A k \in mt_handle' : k \in Timer /\ \E p \in MsgQ : k \in mq_timers'[p]
    BY <1>1, <1>2, <1>5, FreeFacts DEF TimersOK
  <2> QED BY <1>1, <1>2, <2>1, <2>2 DEF TimersOK, Free
<1>8. OneList'
  BY <1>4, <1>5, ZenonT(60) DEF PostsInv, OneList
<1>9. ASSUME NEW p \in MsgQ PROVE Posts(p)'
  <2>1. \A k \in OneShot(p)' : k = m \/ k \in OneShot(p)
    <3>1. mq_timers'[p] \subseteq mq_timers[p] \cup {m} /\ mq_timers[p] \subseteq Timer
      BY <1>2, <1>5 DEF TimersOK
    <3> QED BY <1>6, <3>1 DEF OneShot
  <2>2. Posts(p)
    BY DEF PostsInv
  <2>3. Once(Contents(p), m)
    BY <1>4 DEF Has, Once
  <2> QED BY <1>1, <1>3, <1>4, <1>5, <2>1, <2>2, <2>3 DEF Posts
<1> QED BY <1>3, <1>7, <1>8, <1>9 DEF PostsInv

(* The one-shot timer that elapses stops, unless there is no room.          *)
LEMMA ElapsedPosts ==
  ASSUME ToldInv, PostsInv, NEW q \in MsgQ, NEW m \in Timer, NutMsgQTimerCb(q, m)
  PROVE  PostsInv'
<1>1. /\ m \in mq_timers[q] /\ m \in mt_handle /\ PostTo({q}, m)
      /\ mt_handle' = IF mt_flags[m] = "TM_ONESHOT" /\ ~NutMsgQFull(q) THEN mt_handle \ {m} ELSE mt_handle
      /\ mq_timers' = mq_timers /\ mt_flags' = mt_flags /\ msg' = msg
  BY DEF NutMsgQTimerCb
<1>2. TimersOK /\ MemoryOK /\ StepTypeOK /\ m \in Message
  BY DEF PostsInv, ToldInv, Message
<1>3. /\ MemoryOK'
      /\ \A p \in MsgQ : Contents(p)' = IF p = q /\ HasRoom(q) THEN Append(Contents(p), m) ELSE Contents(p)
  <2>1. PICK Q \in SUBSET MsgQ : Q = {q}
    OBVIOUS
  <2>2. PostTo(Q, m) /\ \A p : p \in Q <=> p = q
    BY <1>1, <2>1
  <2>3. /\ MemoryOK'
        /\ \A p \in MsgQ : Contents(p)' = IF p \in Q /\ HasRoom(p) THEN Append(Contents(p), m) ELSE Contents(p)
    BY <1>2, <2>2, PostContents
  <2> QED BY <2>2, <2>3
<1>4. NutMsgQFull(q) <=> ~HasRoom(q)
  BY <1>2, QueueRing
<1>5. ASSUME NEW p \in MsgQ PROVE Posts(p)'
  <2>1. OneShot(p)' = OneShot(p) /\ OneShot(p) \subseteq Timer
    BY <1>1, <1>2 DEF OneShot, TimersOK
  <2>2. Posts(p)
    BY DEF PostsInv
  <2>3. CASE p # q
    <3>1. Contents(p)' = Contents(p)
      BY <1>3, <2>3
    <3>2. m \notin OneShot(p)
      BY <1>1, <2>3 DEF OneShot, PostsInv, OneList
    <3> QED BY <1>1, <2>1, <2>2, <3>1, <3>2 DEF Posts
  <2>4. CASE p = q /\ ~HasRoom(q)
    BY <1>1, <1>3, <1>4, <2>1, <2>2, <2>4 DEF Posts
  <2>5. CASE p = q /\ HasRoom(q)
    <3>1. /\ Contents(q)' = Append(Contents(q), m) /\ Contents(q) \in Seq(Message)
          /\ mt_handle' = IF m \in OneShot(q) THEN mt_handle \ {m} ELSE mt_handle
      BY <1>1, <1>2, <1>3, <1>4, <2>5, QueueRing DEF OneShot
    <3>2. \A k \in Timer :
            /\ Has(Contents(q)', k) <=> Has(Contents(q), k) \/ m = k
            /\ Once(Contents(q), k) /\ (m = k => ~Has(Contents(q), k)) => Once(Contents(q)', k)
      BY <1>2, <3>1, AppendHas
    <3> QED BY <1>1, <2>1, <2>2, <2>5, <3>1, <3>2 DEF Posts
  <2> QED BY <2>3, <2>4, <2>5
<1>6. TimersOK'
  BY <1>1, <1>2 DEF TimersOK, Free
<1>7. OneList'
  BY <1>1 DEF PostsInv, OneList
<1> QED BY <1>3, <1>5, <1>6, <1>7 DEF PostsInv

(* A timer that is stopped takes its messages along.                        *)
LEMMA StopPosts ==
  ASSUME ToldInv, PostsInv, NEW q \in MsgQ, NEW m \in Timer, NutMsgQStopTimer(q, m)
  PROVE  PostsInv'
<1>1. /\ m \in mq_timers[q] /\ mt_handle' = mt_handle \ {m}
      /\ mq_timers' = [mq_timers EXCEPT ![q] = @ \ {m}] /\ mt_flags' = mt_flags /\ msg' = msg
  BY DEF NutMsgQStopTimer
<1>2. TimersOK /\ MemoryOK /\ StepTypeOK
  BY DEF PostsInv, ToldInv
<1>3. /\ MemoryOK'
      /\ \A p \in MsgQ : Contents(p)' = IF p = q THEN Canceled(Contents(p), m) ELSE Contents(p)
  BY <1>2, StopContents
<1>4. \A p \in MsgQ : mq_timers'[p] = IF p = q THEN mq_timers[p] \ {m} ELSE mq_timers[p]
  BY <1>1, <1>2 DEF TimersOK
<1>5. \A p \in MsgQ \ {q} : m \notin mq_timers[p]
  BY <1>1 DEF PostsInv, OneList
<1>6. TimersOK'
  <2>1. mq_timers' \in [MsgQ -> SUBSET Timer]
    BY <1>1, <1>2 DEF TimersOK
  <2>2. \A k \in mt_handle' : k \in Timer /\ \E p \in MsgQ : k \in mq_timers'[p]
    BY <1>1, <1>2, <1>4, FreeFacts DEF TimersOK
  <2> QED BY <1>1, <1>2, <2>1, <2>2 DEF TimersOK, Free
<1>7. OneList'
  BY <1>4 DEF PostsInv, OneList
<1>8. ASSUME NEW p \in MsgQ PROVE Posts(p)'
  <2>1. OneShot(p)' = OneShot(p) \ {m} /\ OneShot(p) \subseteq Timer
    BY <1>1, <1>2, <1>4, <1>5 DEF OneShot, TimersOK
  <2>2. Posts(p)
    BY DEF PostsInv
  <2>3. CASE p # q
    BY <1>1, <1>3, <1>4, <2>1, <2>2, <2>3 DEF Posts
  <2>4. CASE p = q
    <3>1. Contents(q)' = Canceled(Contents(q), m) /\ Contents(q) \in Seq(Message)
      BY <1>2, <1>3, QueueRing
    <3>2. \A k \in Timer : /\ Has(Contents(q)', k) <=> Has(Contents(q), k) /\ k # m
                           /\ Once(Contents(q), k) => Once(Contents(q)', k)
      BY <3>1, CanceledHas
    <3> QED BY <1>1, <1>4, <2>1, <2>2, <2>4, <3>2 DEF Posts
  <2> QED BY <2>3, <2>4
<1> QED BY <1>3, <1>6, <1>7, <1>8 DEF PostsInv

(* A one-shot timer is freed with the last of its messages.                 *)
LEMMA ReturnPosts ==
  ASSUME CoveredInv, PostsInv, NEW q \in MsgQ, NEW t \in Thread, GetReturn(t, q)
  PROVE  PostsInv'
<1> DEFINE m == Head(Contents(q))
<1>1. TimersOK /\ MemoryOK /\ StepTypeOK
  BY DEF PostsInv, CoveredInv, ToldInv
<1>2. mq_read[q] # mq_write[q]
  BY DEF CoveredInv, Covered, GetReturn
<1>3. /\ MemoryOK' /\ Contents(q) # <<>> /\ mq_que[q][mq_read[q]] = m
      /\ \A p \in MsgQ : Contents(p)' = IF p = q THEN Tail(Contents(p)) ELSE Contents(p)
  BY <1>1, <1>2, ReturnContents
<1>4. /\ msg' = [msg EXCEPT ![t] = m] /\ mt_flags' = mt_flags /\ mt_handle' = mt_handle
      /\ mq_timers' = IF m \in Timer /\ mt_flags[m] = "TM_ONESHOT"
                        THEN [mq_timers EXCEPT ![q] = @ \ {m}] ELSE mq_timers
  BY <1>3 DEF GetReturn
<1>5. Contents(q) \in Seq(Message)
  BY <1>1, QueueRing
<1>6. Has(Contents(q), m) /\ m \in Message
  BY <1>3, <1>5, TailHas
<1> HIDE DEF m
<1>7. m \in Timer => m \in mq_timers[q]
  BY <1>6 DEF PostsInv, Posts
<1>8. \A p \in MsgQ : mq_timers'[p] = IF p = q /\ m \in OneShot(q) THEN mq_timers[p] \ {m} ELSE mq_timers[p]
  BY <1>1, <1>4, <1>7 DEF TimersOK, OneShot
<1>9. m \in OneShot(q) => m \notin mt_handle
  BY <1>6 DEF PostsInv, Posts
<1>10. TimersOK'
  <2>1. mq_timers' \in [MsgQ -> SUBSET Timer] /\ msg' \in [Thread -> Message]
    BY <1>1, <1>4, <1>6 DEF TimersOK
  <2>2. \A k \in mt_handle' : k \in Timer /\ \E p \in MsgQ : k \in mq_timers'[p]
    BY <1>1, <1>4, <1>8, <1>9, FreeFacts DEF TimersOK
  <2> QED BY <1>1, <1>4, <2>1, <2>2 DEF TimersOK, Free
<1>11. OneList'
  BY <1>8 DEF PostsInv, OneList
<1>12. ASSUME NEW p \in MsgQ PROVE Posts(p)'
  <2>1. OneShot(p)' = OneShot(p) \ (IF p = q THEN {m} ELSE {}) /\ OneShot(p) \subseteq Timer
    BY <1>1, <1>4, <1>8 DEF OneShot, TimersOK
  <2>2. Posts(p)
    BY DEF PostsInv
  <2>3. CASE p # q
    BY <1>3, <1>4, <1>8, <2>1, <2>2, <2>3 DEF Posts
  <2>4. CASE p = q
    <3>1. \A k \in Timer :
            /\ Has(Contents(q)', k) => Has(Contents(q), k)
            /\ Has(Contents(q), k) /\ k # m => Has(Contents(q)', k)
            /\ Once(Contents(q), k) => Once(Contents(q)', k) /\ (k = m => ~Has(Contents(q)', k))
      <4>1. PICK s \in Seq(Message) : s = Contents(q)
        BY <1>5
      <4>2. s # <<>> /\ m = Head(s) /\ Contents(q)' = Tail(s)
        BY <1>3, <4>1 DEF m
      <4> QED BY <4>1, <4>2, TailHas
    <3> QED BY <1>4, <1>8, <2>1, <2>2, <2>4, <3>1 DEF Posts
  <2> QED BY <2>3, <2>4
<1> QED BY <1>3, <1>10, <1>11, <1>12 DEF PostsInv

-----------------------------------------------------------------------------

LEMMA InitContents ==
  ASSUME Init
  PROVE  MemoryOK /\ \A q \in MsgQ : Contents(q) = <<>>
<1>1. MsgNull \in Message
  BY DEF Message
<1>2. MemoryOK
  BY <1>1 DEF Init, MemoryOK
<1>3. StepTypeOK
  BY InitKeeps DEF CoveredInv, ToldInv
<1>4. ASSUME NEW q \in MsgQ PROVE Contents(q) = <<>>
  <2>1. mq_read[q] = mq_write[q]
    BY DEF Init
  <2>2. Contents(q) = Ring(mq_que[q], mq_write[q], mq_write[q], Size[q])
    BY <2>1 DEF Contents, Ring
  <2>3. Size[q] \in Nat \ {0, 1} /\ mq_write[q] \in 0..(Size[q] - 1)
    BY <1>2, <1>3, QueueRing
  <2> QED BY <2>2, <2>3, RingEmpty
<1> QED BY <1>2, <1>4

LEMMA InitPosts == ASSUME Init PROVE PostsInv
<1>1. MemoryOK /\ \A q \in MsgQ : Contents(q) = <<>>
  BY InitContents
<1>2. MsgNull \in Message
  BY DEF Message
<1>3. TimersOK
  BY <1>2 DEF Init, TimersOK
<1>4. OneList
  BY DEF Init, OneList
<1>5. \A q \in MsgQ : Posts(q)
  BY <1>1, EmptyHas DEF Init, Posts, OneShot
<1> QED BY <1>1, <1>3, <1>4, <1>5 DEF PostsInv

LEMMA SamePosts ==
  ASSUME PostsInv, UNCHANGED <<ringVars, msgTimerVars, msg>>
  PROVE  PostsInv'
<1>1. MemoryOK' /\ \A q \in MsgQ : Contents(q)' = Contents(q)
  BY SameContents DEF PostsInv
<1>2. \A q \in MsgQ : Posts(q)'
  BY <1>1 DEF PostsInv, Posts, OneShot, msgTimerVars
<1> QED BY <1>1, <1>2 DEF PostsInv, TimersOK, OneList, Free, msgTimerVars

LEMMA StepPosts ==
  ASSUME CoveredInv, PostsInv, [Next]_vars
  PROVE  PostsInv'
<1> USE DEF CoveredInv
<1>1. CASE \E m \in Data : NutMsgQBroadcast(m)
  BY <1>1, PostedPosts DEF NutMsgQBroadcast
<1>2. CASE \E q \in MsgQ, m \in Data : NutMsgQPost(q, m)
  BY <1>2, PostedPosts DEF NutMsgQPost
<1>3. CASE \E q \in MsgQ : NutMsgQFlush(q)
  BY <1>3, FlushPosts
<1>4. CASE \E q \in MsgQ, m \in Timer : NutMsgQTimerCb(q, m) \/ NutMsgQStopTimer(q, m)
  BY <1>4, ElapsedPosts, StopPosts
<1>5. CASE \E q \in MsgQ, m \in Timer, flags \in {"TM_ONESHOT", "periodic"} : NutMsgQStartTimer(q, m, flags)
  BY <1>5, StartPosts
<1>6. CASE UNCHANGED <<ringVars, msgTimerVars, msg>>
  BY <1>6, SamePosts
<1>7. CASE \E q \in MsgQ : (\E t \in Thread : GetTimeout(t, q)) \/ \E t \in Reader : NutMsgQGetMessage(t, q)
  BY <1>6, <1>7 DEF GetTimeout, NutMsgQGetMessage
<1>8. CASE \E q \in MsgQ, t \in Thread : GetReturn(t, q)
  BY <1>8, ReturnPosts
<1>9. CASE UNCHANGED vars
  BY <1>6, <1>9 DEF vars
<1> QED BY <1>1, <1>2, <1>3, <1>4, <1>5, <1>7, <1>8, <1>9 DEF Next

(* With one reader, every message of a timer names a timer in use by its    *)
(* queue alone, a one-shot timer that runs has none, and the memory of a    *)
(* timer whose system timer runs is not free.                               *)
THEOREM MsgQInvariant ==
  ASSUME \A r, s \in Reader : r = s, FlushWhen # "waiting"
  PROVE  Spec => [](CoveredInv /\ PostsInv)
<1>1. Init => CoveredInv /\ PostsInv
  BY InitKeeps, InitPosts
<1>2. CoveredInv /\ PostsInv /\ [Next]_vars => CoveredInv' /\ PostsInv'
  BY NextKeeps, StepPosts DEF CoveredInv
<1> QED BY <1>1, <1>2, PTL DEF Spec

(* NutMsgQGetMessage() frees a timer, and NutMsgQStopTimer() too, only when *)
(* no message in the queue names it any more (os/msg.c:315, 368).           *)
THEOREM TimersStayOwned ==
  ASSUME \A r, s \in Reader : r = s, FlushWhen # "waiting"
  PROVE  Spec => []TimerMessagesOwned
<1>1. CoveredInv /\ PostsInv => TimerMessagesOwned
  <2> SUFFICES ASSUME CoveredInv, PostsInv, NEW q \in MsgQ, NEW i \in DOMAIN Contents(q),
                      Contents(q)[i] \in Timer
               PROVE  Contents(q)[i] \in mq_timers[q]
    BY DEF TimerMessagesOwned
  <2>1. Contents(q) \in Seq(Message)
    BY QueueRing DEF CoveredInv, ToldInv, PostsInv
  <2>2. i \in 1..Len(Contents(q))
    BY <2>1, LenProperties
  <2>3. Has(Contents(q), Contents(q)[i])
    BY <2>2 DEF Has
  <2> QED BY <2>3 DEF PostsInv, Posts
<1> QED BY <1>1, MsgQInvariant, PTL

(* Unless a flush forgets it, the message of a one-shot timer that has      *)
(* elapsed is in the queue, once, until it is read: the read that frees the *)
(* timer does come, and once (os/msg.c:226).                                *)
THEOREM OneShotsAreReturned ==
  ASSUME \A r, s \in Reader : r = s, FlushWhen = "careful"
  PROVE  Spec => []OneShotsReturn
<1>1. CoveredInv /\ PostsInv => OneShotsReturn
  <2> SUFFICES ASSUME CoveredInv, PostsInv, NEW q \in MsgQ, NEW m \in mq_timers[q], mt_flags[m] = "TM_ONESHOT"
               PROVE  Cardinality({i \in DOMAIN Contents(q) : Contents(q)[i] = m}) = IF m \in mt_handle THEN 0 ELSE 1
    BY DEF OneShotsReturn
  <2> DEFINE posted == {i \in DOMAIN Contents(q) : Contents(q)[i] = m}
  <2>1. Contents(q) \in Seq(Message)
    BY QueueRing DEF CoveredInv, ToldInv, PostsInv
  <2>2. DOMAIN Contents(q) = 1..Len(Contents(q))
    BY <2>1, LenProperties
  <2>3. /\ Once(Contents(q), m) /\ (m \in mt_handle => ~Has(Contents(q), m))
        /\ m \in mt_handle \/ Has(Contents(q), m)
    BY DEF PostsInv, Posts, OneShot
  <2>4. CASE m \in mt_handle
    <3>1. posted = {}
      BY <2>2, <2>3, <2>4 DEF Has
    <3> QED BY <2>4, <3>1, FS_EmptySet
  <2>5. CASE m \notin mt_handle
    <3>1. PICK i \in 1..Len(Contents(q)) : Contents(q)[i] = m
      BY <2>3, <2>5 DEF Has
    <3>2. posted = {i}
      BY <2>2, <2>3, <3>1 DEF Once
    <3> HIDE DEF posted
    <3>3. Cardinality(posted) = 1
      BY <3>2, FS_Singleton
    <3> QED BY <2>5, <3>3 DEF posted
  <2> QED BY <2>4, <2>5
<1>2. FlushWhen # "waiting"
  OBVIOUS
<1>3. Spec => [](CoveredInv /\ PostsInv)
  BY <1>2, MsgQInvariant
<1> QED BY <1>1, <1>3, PTL

-----------------------------------------------------------------------------
(* The refinement.                                                          *)

chan == [q \in MsgQ |-> Contents(q)]

LEMMA ChannelsInit == ASSUME Init PROVE Channels!Init
<1>1. \A q \in MsgQ : Contents(q) = <<>>
  BY InitContents
<1>2. msg \in [Thread -> Message]
  BY DEF Init, Message
<1> QED BY <1>1, <1>2 DEF Channels!Init

(* Posting is sending to the queues that have room.                         *)
LEMMA PostSends ==
  ASSUME StepTypeOK, MemoryOK, NEW Q \in SUBSET MsgQ, NEW m \in Message, PostTo(Q, m), UNCHANGED msg
  PROVE  Channels!Next
<1>1. \A q \in MsgQ : Contents(q)' = IF q \in Q /\ HasRoom(q) THEN Append(Contents(q), m) ELSE Contents(q)
  BY PostContents
<1>2. \A q \in MsgQ : /\ chan'[q] = Contents(q)' /\ chan[q] = Contents(q)
                      /\ [p \in MsgQ |-> Size[p] - 1][q] = Size[q] - 1
  BY DEF chan
<1>3. chan' = [q \in MsgQ |-> IF q \in Q /\ Len(chan[q]) < [p \in MsgQ |-> Size[p] - 1][q]
                                THEN Append(chan[q], m) ELSE chan[q]]
  BY <1>1 DEF HasRoom, chan
<1>4. Channels!Send(Q, m)
  BY <1>3 DEF Channels!Send, chan
<1> QED BY <1>4 DEF Channels!Next

LEMMA FlushFlushes ==
  ASSUME StepTypeOK, MemoryOK, NEW q \in MsgQ, NutMsgQFlush(q)
  PROVE  Channels!Next
<1>1. \A p \in MsgQ : Contents(p)' = IF p = q THEN <<>> ELSE Contents(p)
  BY FlushContents
<1>2. Channels!Flush(q)
  BY <1>1 DEF Channels!Flush, NutMsgQFlush
<1> QED BY <1>2 DEF Channels!Next

LEMMA StopCancels ==
  ASSUME StepTypeOK, MemoryOK, NEW q \in MsgQ, NEW m \in Timer, NutMsgQStopTimer(q, m)
  PROVE  Channels!Next
<1>1. \A p \in MsgQ : Contents(p)' = IF p = q THEN Canceled(Contents(p), m) ELSE Contents(p)
  BY StopContents
<1>2. msg' = msg /\ m \in Message
  BY DEF NutMsgQStopTimer, Message
<1>3. Channels!Cancel(q, m)
  BY <1>1, <1>2 DEF Channels!Cancel, Canceled
<1> QED BY <1>2, <1>3 DEF Channels!Next

LEMMA ReturnReceives ==
  ASSUME StepTypeOK, MemoryOK, NEW q \in MsgQ, NEW t \in Thread, GetReturn(t, q), mq_read[q] # mq_write[q]
  PROVE  Channels!Next
<1>1. /\ Contents(q) # <<>> /\ mq_que[q][mq_read[q]] = Head(Contents(q))
      /\ \A p \in MsgQ : Contents(p)' = IF p = q THEN Tail(Contents(p)) ELSE Contents(p)
  BY ReturnContents
<1>2. msg' = [msg EXCEPT ![t] = Head(Contents(q))]
  BY <1>1 DEF GetReturn
<1>3. Channels!Receive(t, q)
  BY <1>1, <1>2 DEF Channels!Receive
<1> QED BY <1>3 DEF Channels!Next

LEMMA SameChannels ==
  ASSUME UNCHANGED <<ringVars, msg>>
  PROVE  UNCHANGED Channels!vars
BY SameContents DEF Channels!vars

LEMMA ChannelsStep ==
  ASSUME CoveredInv, PostsInv, [Next]_vars
  PROVE  [Channels!Next]_Channels!vars
<1>1. StepTypeOK /\ MemoryOK /\ Data \cup Timer \subseteq Message
  BY DEF CoveredInv, ToldInv, PostsInv, Message
<1>2. CASE \E m \in Data : NutMsgQBroadcast(m)
  BY <1>1, <1>2, PostSends DEF NutMsgQBroadcast
<1>3. CASE \E q \in MsgQ, m \in Data : NutMsgQPost(q, m)
  BY <1>1, <1>3, PostSends DEF NutMsgQPost
<1>4. CASE \E q \in MsgQ, m \in Timer : NutMsgQTimerCb(q, m)
  BY <1>1, <1>4, PostSends DEF NutMsgQTimerCb
<1>5. CASE \E q \in MsgQ : NutMsgQFlush(q)
  BY <1>1, <1>5, FlushFlushes
<1>6. CASE \E q \in MsgQ, m \in Timer : NutMsgQStopTimer(q, m)
  BY <1>1, <1>6, StopCancels
<1>7. CASE \E q \in MsgQ, t \in Thread : GetReturn(t, q)
  <2>1. PICK q \in MsgQ, t \in Thread : GetReturn(t, q)
    BY <1>7
  <2>2. mq_read[q] # mq_write[q]
    BY <2>1 DEF CoveredInv, Covered, GetReturn
  <2> QED BY <1>1, <2>1, <2>2, ReturnReceives
<1>8. CASE UNCHANGED <<ringVars, msg>>
  BY <1>8, SameChannels
<1>9. CASE \E q \in MsgQ : \/ \E m \in Timer, flags \in {"TM_ONESHOT", "periodic"} : NutMsgQStartTimer(q, m, flags)
                           \/ \E t \in Thread : GetTimeout(t, q)
                           \/ \E t \in Reader : NutMsgQGetMessage(t, q)
  BY <1>8, <1>9 DEF NutMsgQStartTimer, GetTimeout, NutMsgQGetMessage
<1>10. CASE UNCHANGED vars
  BY <1>8, <1>10 DEF vars
<1> QED BY <1>2, <1>3, <1>4, <1>5, <1>6, <1>7, <1>9, <1>10 DEF Next

(* The rings and their events implement the channels of NutChannels: with   *)
(* one reader every message is received once and in order, those that were  *)
(* flushed or whose timer was stopped excepted (os/msg.c).                  *)
THEOREM ImplementsChannels ==
  ASSUME \A r, s \in Reader : r = s, FlushWhen # "waiting"
  PROVE  Spec => ChannelsImplemented
<1>1. Init => Channels!Init
  BY ChannelsInit
<1>2. CoveredInv /\ PostsInv /\ [Next]_vars => [Channels!Next]_Channels!vars
  BY ChannelsStep
<1> QED BY <1>1, <1>2, MsgQInvariant, PTL DEF Spec, ChannelsImplemented, Channels!Spec
=============================================================================
