------------------------------- MODULE NutMsgQ -------------------------------
(***************************************************************************)
(* os/msg.c: message queues, which are rings of Size slots with one slot    *)
(* left free and an event queue for the readers, and timers that post       *)
(* messages.  A step is what a thread does up to the next call that may     *)
(* give up the CPU (see NutMutex): NutEventWait() in NutMsgQGetMessage().   *)
(*                                                                          *)
(* A message is what tells it from others: application data, the timer that *)
(* posted it (id MSG_TIMER) or MsgNull (id MSG_NULL and cleared memory).    *)
(***************************************************************************)
EXTENDS Integers, Sequences, FiniteSets, NutEventQueue

CONSTANTS
    MsgQ, Data, Timer, MsgNull,
    Size,         \* of each queue: 2^bits of NutMsgQCreate()
    Reader,       \* the threads that call NutMsgQGetMessage()
    FlushWhen,    \* when none is "waiting" (os/msg.c:390), when the queue is "unread":
                  \* no thread is in NutMsgQGetMessage(), or "careful": nor has it
                  \* a one-shot timer
    Timed         \* the queues the application starts timers for

ASSUME SizeAssumption == Size \in [MsgQ -> Nat \ {0, 1}]
ASSUME MessageAssumption == Data \cap Timer = {} /\ MsgNull \notin Data \cup Timer
ASSUME ReaderAssumption == Reader \subseteq Thread /\ Timed \subseteq MsgQ /\ "run" \notin MsgQ
ASSUME FlushAssumption == FlushWhen \in {"waiting", "unread", "careful"}

Message == Data \cup Timer \cup {MsgNull}
Slot(q) == 0..(Size[q] - 1)

VARIABLES
    mq_que, mq_read, mq_write, mq_wait, mq_timers,   \* the fields of a queue
    mt_flags,     \* the kind of each message timer
    mt_handle,    \* the message timers whose system timer runs
    pc,           \* "run", or the queue of a NutMsgQGetMessage() in progress
    msg           \* the message each thread received last

ringVars == <<mq_que, mq_read, mq_write>>
msgTimerVars == <<mq_timers, mt_flags, mt_handle>>
vars == <<ringVars, mq_wait, msgTimerVars, pc, msg>>

Init ==
    /\ mq_que = [q \in MsgQ |-> [s \in Slot(q) |-> MsgNull]]
    /\ mq_read = [q \in MsgQ |-> 0] /\ mq_write = [q \in MsgQ |-> 0]
    /\ mq_wait = [q \in MsgQ |-> EmptyQueue]
    /\ mq_timers = [q \in MsgQ |-> {}]
    /\ mt_flags = [m \in Timer |-> "TM_ONESHOT"] /\ mt_handle = {}
    /\ pc = [t \in Thread |-> "run"]
    /\ msg = [t \in Thread |-> MsgNull]

NextSlot(q, s) == (s + 1) % Size[q]

NutMsgQFull_NoFreeSlot(q) == FALSE   \* fault: all slots are used

NutMsgQFull(q) == NextSlot(q, mq_write[q]) = mq_read[q]

-----------------------------------------------------------------------------
(* Messages are posted to the queues of Q that are not full; each event     *)
(* goes to one of the threads that wait for it.                             *)

PostEvents(Q) ==
    \E woken \in [Q -> SUBSET Thread] :
        /\ \A q \in Q : woken[q] \in Wakeable(mq_wait[q])
        /\ mq_wait' = [q \in MsgQ |-> IF q \in Q THEN Posted(mq_wait[q], woken[q]) ELSE mq_wait[q]]

PostTo_Unchecked(Q, m) ==   \* fault: full queues are written to
    /\ mq_que' = [q \in MsgQ |-> IF q \in Q THEN [mq_que[q] EXCEPT ![mq_write[q]] = m]
                                            ELSE mq_que[q]]
    /\ mq_write' = [q \in MsgQ |-> IF q \in Q THEN NextSlot(q, mq_write[q]) ELSE mq_write[q]]
    /\ PostEvents(Q)
    /\ UNCHANGED mq_read

PostTo(Q, m) ==
    LET room == {q \in Q : ~NutMsgQFull(q)}
    IN  /\ mq_que' = [q \in MsgQ |-> IF q \in room THEN [mq_que[q] EXCEPT ![mq_write[q]] = m]
                                                   ELSE mq_que[q]]
        /\ mq_write' = [q \in MsgQ |-> IF q \in room THEN NextSlot(q, mq_write[q]) ELSE mq_write[q]]
        /\ PostEvents(room)
        /\ UNCHANGED mq_read

(* NutMsgQPost(), and NutMsgQSend(), which gives up the CPU thereafter.     *)
NutMsgQPost(q, m) ==
    /\ PostTo({q}, m)
    /\ UNCHANGED <<msgTimerVars, pc, msg>>

(* The queues that are full are left out; the result tells how many.        *)
NutMsgQBroadcast(m) ==
    /\ PostTo(MsgQ, m)
    /\ UNCHANGED <<msgTimerVars, pc, msg>>

(* What the application takes care of, and the source only in a comment.    *)
MayFlush(q) ==
    /\ mq_wait[q].waiting = {}
    /\ FlushWhen # "waiting" => \A t \in Thread : pc[t] # q
    /\ FlushWhen = "careful" => \A m \in mq_timers[q] : mt_flags[m] # "TM_ONESHOT"

(* Messages in a queue are canceled, threads that wait for one forgotten.   *)
NutMsgQFlush(q) ==
    /\ MayFlush(q)
    /\ mq_read' = [mq_read EXCEPT ![q] = mq_write[q]]
    /\ mq_wait' = [mq_wait EXCEPT ![q] = EmptyQueue]
    /\ UNCHANGED <<mq_que, mq_write, msgTimerVars, pc, msg>>

-----------------------------------------------------------------------------
(* Timers.  A timer that is in no list is free, or memory of the heap.      *)

Free == Timer \ UNION {mq_timers[q] : q \in MsgQ}

NutMsgQStartTimer(q, m, flags) ==
    /\ q \in Timed /\ m \in Free
    /\ mt_flags' = [mt_flags EXCEPT ![m] = flags]
    /\ mt_handle' = mt_handle \cup {m}
    /\ mq_timers' = [mq_timers EXCEPT ![q] = @ \cup {m}]
    /\ UNCHANGED <<ringVars, mq_wait, pc, msg>>

TimerCb_NotRestarted(q, m) ==   \* fault: a full queue ends a one-shot timer
    /\ m \in mq_timers[q] /\ m \in mt_handle
    /\ PostTo({q}, m)
    /\ mt_handle' = IF mt_flags[m] = "TM_ONESHOT" THEN mt_handle \ {m} ELSE mt_handle
    /\ UNCHANGED <<mq_timers, mt_flags, pc, msg>>

(* A one-shot timer that finds its queue full is started again and so goes  *)
(* on running.                                                              *)
NutMsgQTimerCb(q, m) ==
    /\ m \in mq_timers[q] /\ m \in mt_handle
    /\ PostTo({q}, m)
    /\ mt_handle' = IF mt_flags[m] = "TM_ONESHOT" /\ ~NutMsgQFull(q)
                      THEN mt_handle \ {m} ELSE mt_handle
    /\ UNCHANGED <<mq_timers, mt_flags, pc, msg>>

(* The slots of queue q from mq_read to mq_write.                           *)
InUse(q) == {s \in Slot(q) : (s - mq_read[q]) % Size[q] < (mq_write[q] - mq_read[q]) % Size[q]}

NutMsgQStopTimer_MessageKept(q, m) ==   \* fault: its messages stay
    /\ m \in mq_timers[q]
    /\ mt_handle' = mt_handle \ {m}
    /\ mq_timers' = [mq_timers EXCEPT ![q] = @ \ {m}]
    /\ UNCHANGED <<mq_que, mq_read, mq_write, mq_wait, mt_flags, pc, msg>>

NutMsgQStopTimer(q, m) ==
    /\ m \in mq_timers[q]
    /\ mq_que' = [mq_que EXCEPT ![q] =
                    [s \in Slot(q) |-> IF s \in InUse(q) /\ @[s] = m THEN MsgNull ELSE @[s]]]
    /\ mt_handle' = mt_handle \ {m}
    /\ mq_timers' = [mq_timers EXCEPT ![q] = @ \ {m}]
    /\ UNCHANGED <<mq_read, mq_write, mq_wait, mt_flags, pc, msg>>

-----------------------------------------------------------------------------
(* Reading.                                                                 *)

NutMsgQGetMessage(t, q) ==
    /\ pc[t] = "run"
    /\ pc' = [pc EXCEPT ![t] = q]
    /\ mq_wait' = [mq_wait EXCEPT ![q] = IF @.signaled THEN Cleared(@) ELSE Joined(@, t)]
    /\ UNCHANGED <<ringVars, msgTimerVars, msg>>

GetTimeout(t, q) ==
    /\ t \in mq_wait[q].waiting
    /\ mq_wait' = [mq_wait EXCEPT ![q] = Left(@, t)]
    /\ pc' = [pc EXCEPT ![t] = "run"]
    /\ UNCHANGED <<ringVars, msgTimerVars, msg>>

(* The threads that were given an event of queue q and not a message yet.   *)
Called(q) == {t \in Thread : pc[t] = q /\ t \notin mq_wait[q].waiting}

GetReturn_NoRepost(t, q) ==   \* fault: one event for all messages
    /\ t \in Called(q)
    /\ pc' = [pc EXCEPT ![t] = "run"]
    /\ LET m == mq_que[q][mq_read[q]]
       IN  /\ msg' = [msg EXCEPT ![t] = m]
           /\ mq_timers' = IF m \in Timer /\ mt_flags[m] = "TM_ONESHOT"
                             THEN [mq_timers EXCEPT ![q] = @ \ {m}] ELSE mq_timers
    /\ mq_read' = [mq_read EXCEPT ![q] = NextSlot(q, @)]
    /\ UNCHANGED <<mq_que, mq_write, mq_wait, mt_flags, mt_handle>>

(* An event came: a message is taken, an event posted if there are more,    *)
(* and the memory of a one-shot timer given back.                           *)
GetReturn(t, q) ==
    /\ t \in Called(q)
    /\ pc' = [pc EXCEPT ![t] = "run"]
    /\ LET m == mq_que[q][mq_read[q]]
       IN  /\ msg' = [msg EXCEPT ![t] = m]
           /\ mq_timers' = IF m \in Timer /\ mt_flags[m] = "TM_ONESHOT"
                             THEN [mq_timers EXCEPT ![q] = @ \ {m}] ELSE mq_timers
    /\ mq_read' = [mq_read EXCEPT ![q] = NextSlot(q, @)]
    /\ PostEvents(IF mq_read'[q] # mq_write[q] THEN {q} ELSE {})
    /\ UNCHANGED <<mq_que, mq_write, mt_flags, mt_handle>>

Next ==
    \/ \E m \in Data : NutMsgQBroadcast(m)
    \/ \E q \in MsgQ :
         \/ NutMsgQFlush(q)
         \/ \E m \in Data : NutMsgQPost(q, m)
         \/ \E m \in Timer : NutMsgQTimerCb(q, m) \/ NutMsgQStopTimer(q, m)
         \/ \E m \in Timer, flags \in {"TM_ONESHOT", "periodic"} : NutMsgQStartTimer(q, m, flags)
         \/ \E t \in Thread : GetTimeout(t, q) \/ GetReturn(t, q)
         \/ \E t \in Reader : NutMsgQGetMessage(t, q)

Spec == Init /\ [][Next]_vars

-----------------------------------------------------------------------------

(* The messages of queue q, the oldest first.                               *)
Contents(q) ==
    [i \in 1..((mq_write[q] - mq_read[q]) % Size[q]) |->
        mq_que[q][(mq_read[q] + i - 1) % Size[q]]]

TypeOK ==
    /\ \A q \in MsgQ :
         mq_que[q] \in [Slot(q) -> Message] /\ mq_read[q] \in Slot(q) /\ mq_write[q] \in Slot(q)
    /\ mq_wait \in [MsgQ -> EventQueue]
    /\ mq_timers \in [MsgQ -> SUBSET Timer] /\ mt_handle \subseteq Timer \ Free
    /\ mt_flags \in [Timer -> {"TM_ONESHOT", "periodic"}]
    /\ pc \in [Thread -> {"run"} \cup MsgQ]
    /\ msg \in [Thread -> Message]

(* A reader never sleeps on a queue with messages unless another reader has *)
(* been given an event, and a queue with messages that nobody has been      *)
(* given an event of is signaled, so that the next call does not wait       *)
(* (os/msg.c:181, 362).                                                     *)
EventForMessages ==
    \A q \in MsgQ : Contents(q) # <<>> =>
        Called(q) # {} \/ (mq_wait[q].signaled /\ mq_wait[q].waiting = {})

(* A reader that was given an event finds a message: the source asserts     *)
(* que->mq_read != que->mq_write (os/msg.c:354).                            *)
MessageForEvent == \A q \in MsgQ : Called(q) # {} => Contents(q) # <<>>

(* A message in a queue that says it comes from a timer names one that is   *)
(* in use by this queue, and not freed or used again (os/msg.c:315, 368).   *)
TimerMessagesOwned ==
    \A q \in MsgQ : \A i \in DOMAIN Contents(q) :
        Contents(q)[i] \in Timer => Contents(q)[i] \in mq_timers[q]

(* A one-shot timer in use still runs, or its message is in the queue, once *)
(* and not both: "otherwise we can not deallocate the NUTMSGTMR"            *)
(* (os/msg.c:226).                                                          *)
OneShotsReturn ==
    \A q \in MsgQ : \A m \in mq_timers[q] :
        mt_flags[m] = "TM_ONESHOT" =>
            LET posted == {i \in DOMAIN Contents(q) : Contents(q)[i] = m}
            IN  Cardinality(posted) = IF m \in mt_handle THEN 0 ELSE 1

(* Messages are received once, in the order they were sent, and none is     *)
(* made up.                                                                 *)
Channels == INSTANCE NutChannels WITH
    chan <- [q \in MsgQ |-> Contents(q)], Capacity <- [q \in MsgQ |-> Size[q] - 1]

ChannelsImplemented == Channels!Spec
=============================================================================
