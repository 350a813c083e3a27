------------------------------ MODULE NutKernel ------------------------------
(***************************************************************************)
(* The Nut/OS kernel: the cooperative scheduler (os/thread.c), the event    *)
(* queues (os/event.c, sys/event.h) and the part of the system timers       *)
(* (os/timer.c) they are built on, on one CPU.                              *)
(*                                                                          *)
(* Threads never preempt each other: the CPU changes hands in               *)
(* NutThreadSwitch() only.  What does interleave is interrupts.  pc says    *)
(* where the running thread is inside a kernel call, and a step of the      *)
(* thread reaches from one critical section to the next, so that the two    *)
(* interrupts, the timer tick and NutEventPostFromIrq(), may come between   *)
(* any two of them.                                                         *)
(*                                                                          *)
(* Timers are kept here by the ticks they have left from nut_ticks_resume   *)
(* on; module NutTimer has the delta list of the code and its agreement     *)
(* with this view.                                                          *)
(***************************************************************************)
EXTENDS NutList, FiniteSets

CONSTANTS
    Thread,          \* NUTTHREADINFO blocks, the idle thread's among them
    Idle, Main,      \* the two threads NutInit() starts with
    Queue,           \* event queue roots (HANDLE variables)
    Timer,           \* NUTTIMERINFO blocks the heap has room for
    NULL, SIGNALED,  \* the null pointer and (void *)-1
    Priority,        \* levels the application sets, 255 excluded
    Delay,           \* timeouts and sleep times in use, in ticks
    Calls,           \* the kernel calls the application makes
    HeapMayFail,     \* whether NutHeapAlloc() may return 0 for a timer
    MaxPend,         \* bound: ticks counted between two NutThreadResume()
    MaxPost          \* bound: td_qpec

RunQ == "runQueue"   \* td_queue of the threads in the run queue

ASSUME HandleAssumption ==
    /\ Idle \in Thread /\ Main \in Thread /\ Idle # Main
    /\ NULL \notin Thread \cup Timer \cup Queue \cup {"NutEventTimeout", "NutThreadWake"}
    /\ SIGNALED \notin Thread \cup Timer \cup Queue \cup {NULL}
    /\ RunQ \notin Queue \cup {NULL}
ASSUME LevelAssumption == Priority \subseteq 0..253
ASSUME DelayAssumption == Delay \subseteq Nat \ {0}
ASSUME BoundAssumption ==
    MaxPend \in Nat /\ MaxPost \in Nat /\ HeapMayFail \in BOOLEAN

VARIABLES
    runningThread, killedThread,
    nutThreadList,   \* all threads, newest first
    runQueue,        \* threads ready to run
    queue,           \* what each root leads to: waiting threads, or SIGNALED
    td_state, td_priority, td_qpec, td_timer, td_queue,
    nutTimerList, tn_left, tn_callback, tn_arg,
    pend,            \* nut_ticks - nut_ticks_resume
    pc,              \* where the running thread is
    qh, ms, root,    \* arguments and local copy of a queue root
    ret,             \* where NutEventPostAsync() returns to
    scan, ticks_new, \* loop variables of NutThreadResume(), NutTimerProcessElapsed()
    cont,            \* where a thread goes on when NutThreadResume() returns
    owed             \* history: ticks until the deadline the thread asked for

threadVars == <<runningThread, killedThread, nutThreadList, td_priority>>
queueVars  == <<runQueue, queue, td_state, td_qpec, td_queue>>
timerVars  == <<nutTimerList, tn_left, tn_callback, tn_arg>>
callVars   == <<qh, ms, root, ret>>
loopVars   == <<scan, ticks_new>>
histVars   == <<cont, owed>>
vars == <<threadVars, queueVars, td_timer, timerVars, pend, pc, callVars, loopVars,
          histVars>>

DefaultPriority == 64
IdlePriority == 254

Ready == ToSet(runQueue)
Alive == ToSet(nutThreadList)
FreeTimers == Timer \ ToSet(nutTimerList)

(* The value of a queue root: 0, SIGNALED, or the thread at the head.       *)
RootOf(s) == IF s = <<>> THEN NULL ELSE Head(s)
Root(q) == RootOf(queue[q])

-----------------------------------------------------------------------------
(***************************************************************************)
(* Linking and unlinking.  NutThreadAddPriQueue() clears the thread's event *)
(* count, takes over the signaled state of the root, and takes the pending  *)
(* count away from the thread it gets in front of.                          *)
(***************************************************************************)
AddedList(s, t, prio) ==
    IF s = <<SIGNALED>> THEN <<t>> ELSE InsertBy(s, t, prio)

AddedQpec(s, t, prio, qpec) ==
    LET p == InsertPos(s, prio, prio[t]) IN
    IF s = <<SIGNALED>> THEN [qpec EXCEPT ![t] = 1]
    ELSE IF p <= Len(s) THEN [qpec EXCEPT ![t] = qpec[s[p]], ![s[p]] = 0]
    ELSE [qpec EXCEPT ![t] = 0]

(* The thread at index i leaves an event queue: its pending events go to    *)
(* the next thread, or, when there is none, back to the root.               *)
DetachedList(s, i, qpec) ==
    RemoveAt(s, i) \o (IF i = Len(s) /\ qpec[s[i]] > 0 THEN <<SIGNALED>> ELSE <<>>)

DetachedQpec_Dropped(s, i, qpec) == [qpec EXCEPT ![s[i]] = 0]   \* fault: events lost

DetachedQpec(s, i, qpec) ==
    IF i < Len(s) /\ qpec[s[i]] > 0
    THEN [qpec EXCEPT ![s[i + 1]] = qpec[s[i]], ![s[i]] = 0]
    ELSE [qpec EXCEPT ![s[i]] = 0]

(* NutThreadRemoveQueue() on the run queue, then NutThreadAddPriQueue().    *)
Requeued_AtEnd(t, prio) == Append(Unlink(runQueue, t), t)   \* fault: behind everybody

Requeued(t, prio) == AddedList(Unlink(runQueue, t), t, prio)

(* A thread becomes ready to run.  *)
MakeReady_Untold(t) ==   \* fault: td_queue is left as it was
    /\ td_state' = [td_state EXCEPT ![t] = "READY"]
    /\ runQueue' = AddedList(runQueue, t, td_priority)
    /\ UNCHANGED td_queue

MakeReady(t) ==
    /\ td_state' = [td_state EXCEPT ![t] = "READY"]
    /\ td_queue' = [td_queue EXCEPT ![t] = RunQ]
    /\ runQueue' = AddedList(runQueue, t, td_priority)

-----------------------------------------------------------------------------
(***************************************************************************)
(* Timers, by the ticks left until they elapse.                             *)
(***************************************************************************)
(* What tn_ticks_left holds: the ticks left beyond the preceding timer.     *)
DeltaOf(h) ==
    LET i == IndexIn(nutTimerList, h) IN
    IF i = 1 THEN tn_left[h] ELSE tn_left[h] - tn_left[nutTimerList[i - 1]]

(* NutTimerStart(): a one-shot timer, unless the heap has no room for it.   *)
NutTimerStart_Early(t, d, callback, arg) ==   \* fault: pending ticks are not added
    \E h \in FreeTimers :
       /\ tn_left' = [tn_left EXCEPT ![h] = d]
       /\ tn_callback' = [tn_callback EXCEPT ![h] = callback]
       /\ tn_arg' = [tn_arg EXCEPT ![h] = arg]
       /\ nutTimerList' = InsertBy(nutTimerList, h, tn_left')
       /\ td_timer' = [td_timer EXCEPT ![t] = h]

NutTimerStart(t, d, callback, arg) ==
    \E h \in FreeTimers :
       /\ tn_left' = [tn_left EXCEPT ![h] = d + pend]
       /\ tn_callback' = [tn_callback EXCEPT ![h] = callback]
       /\ tn_arg' = [tn_arg EXCEPT ![h] = arg]
       /\ nutTimerList' = InsertBy(nutTimerList, h, tn_left')
       /\ td_timer' = [td_timer EXCEPT ![t] = h]

TimerFits(d) == d = 0 \/ FreeTimers # {}   \* bound, unless HeapMayFail

(* NutTimerStop(): a timer with ticks left expires now and is run, without  *)
(* its callback, by the next NutTimerProcessElapsed().                      *)
NutTimerStop_Forgotten(h) == UNCHANGED timerVars   \* fault: the timeout still runs

NutTimerStop(h) ==
    /\ tn_callback' = [tn_callback EXCEPT ![h] = NULL]
    /\ IF DeltaOf(h) # 0
       THEN /\ tn_left' = [tn_left EXCEPT ![h] = 0]
            /\ nutTimerList' = InsertBy(Unlink(nutTimerList, h), h, tn_left')
       ELSE UNCHANGED <<tn_left, nutTimerList>>
    /\ UNCHANGED tn_arg

-----------------------------------------------------------------------------
(***************************************************************************)
(* Calls of the application.  The running thread is not the idle thread.    *)
(***************************************************************************)
AppCalls(c) == pc = "app" /\ runningThread # Idle /\ c \in Calls

(* NutEventWait(): the arguments, and the queue's root, read atomically.    *)
NutEventWait(q, d) ==
    /\ AppCalls("NutEventWait")
    /\ TimerFits(d) \/ HeapMayFail
    /\ qh' = q /\ ms' = d /\ root' = Root(q) /\ pc' = "wait"
    /\ UNCHANGED <<threadVars, queueVars, td_timer, timerVars, pend, ret,
                   loopVars, histVars>>

(* NutEventWaitNext(): forget an earlier event, then NutEventWait().        *)
NutEventWaitNext(q, d) ==
    /\ AppCalls("NutEventWaitNext")
    /\ TimerFits(d) \/ HeapMayFail
    /\ queue' = [queue EXCEPT ![q] = IF @ = <<SIGNALED>> THEN <<>> ELSE @]
    /\ qh' = q /\ ms' = d /\ pc' = "waitnext"
    /\ UNCHANGED <<threadVars, runQueue, td_state, td_qpec, td_timer, td_queue,
                   timerVars, pend, root, ret, loopVars, histVars>>

WaitNextRead ==
    /\ pc = "waitnext"
    /\ root' = Root(qh) /\ pc' = "wait"
    /\ UNCHANGED <<threadVars, queueVars, td_timer, timerVars, pend, qh, ms, ret,
                   loopVars, histVars>>

(* The root was SIGNALED: clear it and give way, without waiting.           *)
WaitSignaled ==
    /\ pc = "wait" /\ root = SIGNALED
    /\ queue' = [queue EXCEPT ![qh] = <<>>]
    /\ pc' = "yield"
    /\ qh' = NULL /\ ms' = 0 /\ root' = NULL
    /\ UNCHANGED <<threadVars, runQueue, td_state, td_qpec, td_timer, td_queue,
                   timerVars, pend, ret, loopVars, histVars>>

(* The root was 0 or a thread: leave the run queue, enter the event queue,  *)
(* whatever an interrupt made of its root meanwhile, and start the timeout. *)
WaitEnqueue ==
    /\ pc = "wait" /\ root # SIGNALED
    /\ runQueue' = Unlink(runQueue, runningThread)
    /\ queue' = [queue EXCEPT ![qh] = AddedList(@, runningThread, td_priority)]
    /\ td_qpec' = AddedQpec(queue[qh], runningThread, td_priority, td_qpec)
    /\ td_queue' = [td_queue EXCEPT ![runningThread] = qh]
    /\ td_state' = [td_state EXCEPT ![runningThread] = "SLEEP"]
    /\ \/ /\ ms # 0
          /\ NutTimerStart(runningThread, ms, "NutEventTimeout", qh)
       \/ /\ ms = 0 \/ HeapMayFail
          /\ td_timer' = [td_timer EXCEPT ![runningThread] = NULL]
          /\ UNCHANGED timerVars
    /\ owed' = [owed EXCEPT ![runningThread] = ms]
    /\ cont' = [cont EXCEPT ![runningThread] = "waited"]
    /\ pc' = "scan" /\ scan' = 1
    /\ qh' = NULL /\ ms' = 0 /\ root' = NULL
    /\ UNCHANGED <<threadVars, pend, ret, ticks_new>>

(* The end of NutEventWait(): SIGNALED in td_timer means timeout.           *)
WaitReturn_MarkKept ==   \* fault: td_timer is not reset
    /\ pc = "waited" /\ pc' = "app"
    /\ UNCHANGED <<threadVars, queueVars, td_timer, timerVars, pend, callVars,
                   loopVars, histVars>>

WaitReturn ==
    /\ pc = "waited"
    /\ td_timer' = [td_timer EXCEPT ![runningThread] = IF @ = SIGNALED THEN NULL ELSE @]
    /\ pc' = "app"
    /\ UNCHANGED <<threadVars, queueVars, timerVars, pend, callVars, loopVars,
                   histVars>>

-----------------------------------------------------------------------------
(***************************************************************************)
(* Posting.  NutEventPostAsync() is entered with the root just read; ret is *)
(* where it returns to.  Between that read and the step that acts on it an  *)
(* interrupt may have signaled an empty queue or counted on its head.       *)
(***************************************************************************)
CallPost(q, r) ==
    /\ qh' = q /\ root' = Root(q) /\ ret' = r /\ pc' = "post"
    /\ UNCHANGED ms

EventPost(c, q, r) ==   \* NutEventPostAsync(), NutEventPost()
    /\ AppCalls(c)
    /\ CallPost(q, r)
    /\ UNCHANGED <<threadVars, queueVars, td_timer, timerVars, pend, loopVars,
                   histVars>>

(* Back in the caller; a broadcast still needs its argument.                *)
Broadcasting == {"bcastAsync", "bcast"}
ReturnFromPost ==
    /\ pc' = ret
    /\ root' = NULL
    /\ IF ret \in Broadcasting THEN UNCHANGED <<qh, ret>> ELSE qh' = NULL /\ ret' = NULL
    /\ UNCHANGED ms

(* A thread is waiting: wake the one at the head and stop its timeout.      *)
PostWake ==
    /\ pc = "post" /\ root \in Thread
    /\ queue' = [queue EXCEPT ![qh] = DetachedList(@, 1, td_qpec)]
    /\ td_qpec' = AddedQpec(runQueue, root, td_priority, DetachedQpec(queue[qh], 1, td_qpec))
    /\ IF td_timer[root] # NULL THEN NutTimerStop(td_timer[root]) ELSE UNCHANGED timerVars
    /\ td_timer' = [td_timer EXCEPT ![root] = NULL]
    /\ owed' = [owed EXCEPT ![root] = 0]
    /\ MakeReady(root)
    /\ ReturnFromPost
    /\ UNCHANGED <<threadVars, pend, loopVars, cont>>

(* No thread is waiting: mark the queue.                                    *)
PostMark ==
    /\ pc = "post" /\ root = NULL
    /\ queue' = [queue EXCEPT ![qh] = <<SIGNALED>>]
    /\ ReturnFromPost
    /\ UNCHANGED <<threadVars, runQueue, td_state, td_qpec, td_timer, td_queue,
                   timerVars, pend, loopVars, histVars>>

(* Signaled already.                                                        *)
PostIgnored ==
    /\ pc = "post" /\ root = SIGNALED
    /\ ReturnFromPost
    /\ UNCHANGED <<threadVars, queueVars, td_timer, timerVars, pend, loopVars,
                   histVars>>

(* NutEventBroadcastAsync(), NutEventBroadcast(): clear a signaled queue,   *)
(* else post as long as a thread is at the root.                            *)
NutEventBroadcast(c, q, r) ==
    /\ AppCalls(c)
    /\ IF Root(q) \in Thread
       THEN CallPost(q, r) /\ UNCHANGED queue
       ELSE /\ queue' = [queue EXCEPT ![q] = <<>>]
            /\ pc' = IF r = "bcast" THEN "yield" ELSE "app"
            /\ UNCHANGED callVars
    /\ UNCHANGED <<threadVars, runQueue, td_state, td_qpec, td_timer, td_queue,
                   timerVars, pend, loopVars, histVars>>

BroadcastNext ==
    /\ pc \in Broadcasting
    /\ IF Root(qh) \in Thread
       THEN CallPost(qh, ret)
       ELSE /\ pc' = IF ret = "bcast" THEN "yield" ELSE "app"
            /\ qh' = NULL /\ ret' = NULL
            /\ UNCHANGED <<root, ms>>
    /\ UNCHANGED <<threadVars, queueVars, td_timer, timerVars, pend, loopVars,
                   histVars>>

-----------------------------------------------------------------------------
(***************************************************************************)
(* Giving up the CPU.                                                       *)
(***************************************************************************)
YieldCall ==
    /\ AppCalls("NutThreadYield") \/ (pc = "app" /\ runningThread = Idle)
    /\ pc' = "yield"
    /\ UNCHANGED <<threadVars, queueVars, td_timer, timerVars, pend, callVars,
                   loopVars, histVars>>

(* NutThreadYield(): go behind the threads of the same priority, unless     *)
(* last.                                                                    *)
NutThreadYield ==
    /\ pc = "yield"
    /\ IF runningThread = Last(runQueue)
       THEN UNCHANGED <<runQueue, td_qpec, td_queue>>
       ELSE /\ runQueue' = Requeued(runningThread, td_priority)
            /\ td_qpec' = AddedQpec(Unlink(runQueue, runningThread), runningThread,
                                    td_priority, td_qpec)
            /\ td_queue' = [td_queue EXCEPT ![runningThread] = RunQ]
    /\ cont' = [cont EXCEPT ![runningThread] =
                    IF runningThread = Idle THEN "destroy" ELSE "app"]
    /\ pc' = "scan" /\ scan' = 1
    /\ UNCHANGED <<threadVars, queue, td_state, td_timer, timerVars, pend,
                   callVars, ticks_new, owed>>

(* NutThreadResume(): one event of each thread with events pending from     *)
(* interrupts is posted ...                                                 *)
ScanSkip_Any ==   \* fault: td_qpec is not looked at
    /\ pc = "scan" /\ scan <= Len(nutThreadList)
    /\ scan' = scan + 1
    /\ UNCHANGED <<threadVars, queueVars, td_timer, timerVars, pend, pc, callVars,
                   ticks_new, histVars>>

ScanSkip ==
    /\ pc = "scan" /\ scan <= Len(nutThreadList)
    /\ td_qpec[nutThreadList[scan]] = 0
    /\ scan' = scan + 1
    /\ UNCHANGED <<threadVars, queueVars, td_timer, timerVars, pend, pc, callVars,
                   ticks_new, histVars>>

ScanPost ==
    /\ pc = "scan" /\ scan <= Len(nutThreadList)
    /\ LET td == nutThreadList[scan] IN
       /\ td_qpec[td] > 0
       /\ td_qpec' = [td_qpec EXCEPT ![td] = @ - 1]
       /\ CallPost(td_queue[td], "scan")
    /\ scan' = scan + 1
    /\ UNCHANGED <<threadVars, runQueue, queue, td_state, td_timer, td_queue,
                   timerVars, pend, ticks_new, histVars>>

(* ... then NutTimerProcessElapsed() takes the ticks since the last call,   *)
ScanDone_TicksLost ==   \* fault: the ticks are forgotten before they are taken
    /\ pc = "scan" /\ scan > Len(nutThreadList)
    /\ ticks_new' = 0 /\ pend' = 0
    /\ pc' = "elapsed" /\ scan' = 0
    /\ UNCHANGED <<threadVars, queueVars, td_timer, timerVars, callVars, histVars>>

ScanDone ==
    /\ pc = "scan" /\ scan > Len(nutThreadList)
    /\ ticks_new' = pend /\ pend' = 0
    /\ pc' = "elapsed" /\ scan' = 0
    /\ UNCHANGED <<threadVars, queueVars, td_timer, timerVars, callVars, histVars>>

(* counts the first timer down,                                             *)
TimerAdvance ==
    /\ pc = "elapsed" /\ nutTimerList # <<>>
    /\ ticks_new > 0 /\ ticks_new < tn_left[Head(nutTimerList)]
    /\ tn_left' = [h \in Timer |-> IF IsIn(nutTimerList, h) THEN tn_left[h] - ticks_new ELSE 0]
    /\ ticks_new' = 0
    /\ UNCHANGED <<threadVars, queueVars, td_timer, nutTimerList, tn_callback,
                   tn_arg, pend, pc, callVars, scan, histVars>>

(* and runs it when it has elapsed, together with its callback.             *)
TimerElapses(h) ==
    /\ pc = "elapsed" /\ nutTimerList # <<>> /\ h = Head(nutTimerList)
    /\ ticks_new > 0 /\ tn_left[h] <= ticks_new
    /\ ticks_new' = ticks_new - tn_left[h]
    /\ nutTimerList' = Tail(nutTimerList)
    /\ tn_left' = [x \in Timer |-> IF IsIn(Tail(nutTimerList), x)
                                   THEN tn_left[x] - tn_left[h] ELSE 0]
    /\ tn_callback' = [tn_callback EXCEPT ![h] = NULL]
    /\ tn_arg' = [tn_arg EXCEPT ![h] = NULL]
    /\ UNCHANGED <<threadVars, pend, pc, callVars, scan, histVars>>

TimerStopped(h) ==
    /\ TimerElapses(h) /\ tn_callback[h] = NULL
    /\ UNCHANGED <<queueVars, td_timer>>

(* The index of the waiting thread NutEventTimeout() finds by its timer.    *)
TimedOut(q, h) == {i \in 1..Len(queue[q]) : queue[q] # <<SIGNALED>> /\ td_timer[queue[q][i]] = h}

NutEventTimeout(h) ==
    /\ TimerElapses(h) /\ tn_callback[h] = "NutEventTimeout"
    /\ LET q == tn_arg[h] IN
       IF TimedOut(q, h) = {}
       THEN UNCHANGED <<queueVars, td_timer>>
       ELSE \E i \in TimedOut(q, h) :
              LET td == queue[q][i] IN
              /\ queue' = [queue EXCEPT ![q] = DetachedList(@, i, td_qpec)]
              /\ td_qpec' = AddedQpec(runQueue, td, td_priority,
                                      DetachedQpec(queue[q], i, td_qpec))
              /\ MakeReady(td)
              /\ td_timer' = [td_timer EXCEPT ![td] = SIGNALED]

NutThreadWake(h) ==
    /\ TimerElapses(h) /\ tn_callback[h] = "NutThreadWake"
    /\ LET td == tn_arg[h] IN
       /\ td_timer' = [td_timer EXCEPT ![td] = NULL]
       /\ td_qpec' = AddedQpec(runQueue, td, td_priority, td_qpec)
       /\ MakeReady(td)
    /\ UNCHANGED queue

ElapsedDone ==
    /\ pc = "elapsed" /\ (nutTimerList = <<>> \/ ticks_new = 0)
    /\ ticks_new' = 0 /\ pc' = "switch"
    /\ UNCHANGED <<threadVars, queueVars, td_timer, timerVars, pend, callVars,
                   scan, histVars>>

(* The end of NutThreadResume() and NutThreadSwitch(): the thread at the    *)
(* head of the run queue gets the CPU and goes on where it left it.         *)
NutThreadSwitch ==
    /\ pc = "switch"
    /\ LET next == Head(runQueue) IN
       /\ runningThread' = next
       /\ td_state' = IF next = runningThread THEN td_state
                      ELSE [td_state EXCEPT ![runningThread] = IF @ = "RUNNING" THEN "READY" ELSE @,
                                            ![next] = "RUNNING"]
       /\ pc' = cont[next]
    /\ UNCHANGED <<killedThread, nutThreadList, td_priority, runQueue, queue,
                   td_qpec, td_timer, td_queue, timerVars, pend, callVars,
                   loopVars, histVars>>

(* NutSleep(): leave the run queue until the timer has elapsed,             *)
NutSleep(d) ==
    /\ AppCalls("NutSleep")
    /\ NutTimerStart(runningThread, d, "NutThreadWake", runningThread)
    /\ runQueue' = Unlink(runQueue, runningThread)
    /\ td_queue' = [td_queue EXCEPT ![runningThread] = NULL]
    /\ td_state' = [td_state EXCEPT ![runningThread] = "SLEEP"]
    /\ owed' = [owed EXCEPT ![runningThread] = d]
    /\ cont' = [cont EXCEPT ![runningThread] = "app"]
    /\ pc' = "scan" /\ scan' = 1
    /\ UNCHANGED <<threadVars, queue, td_qpec, pend, callVars, ticks_new>>

(* or, when no timer can be had, go on running from the head of it.         *)
SleepFails ==
    /\ AppCalls("NutSleep") /\ HeapMayFail
    /\ runQueue' = <<runningThread>> \o Unlink(runQueue, runningThread)
    /\ td_queue' = [td_queue EXCEPT ![runningThread] = RunQ]
    /\ td_state' = [td_state EXCEPT ![runningThread] = "RUNNING"]
    /\ td_timer' = [td_timer EXCEPT ![runningThread] = NULL]
    /\ UNCHANGED <<threadVars, queue, td_qpec, timerVars, pend, pc, callVars,
                   loopVars, histVars>>

-----------------------------------------------------------------------------
(***************************************************************************)
(* Threads come, change their priority and go.  These calls switch at once, *)
(* without NutThreadResume().                                               *)
(***************************************************************************)
NutThreadSetPriority(level) ==
    /\ AppCalls("NutThreadSetPriority")
    /\ td_priority' = [td_priority EXCEPT ![runningThread] = level]
    /\ runQueue' = Requeued(runningThread, td_priority')
    /\ td_qpec' = AddedQpec(Unlink(runQueue, runningThread), runningThread,
                            td_priority', td_qpec)
    /\ td_queue' = [td_queue EXCEPT ![runningThread] = RunQ]
    /\ td_state' = [td_state EXCEPT ![runningThread] =
                        IF Head(runQueue') = runningThread THEN "RUNNING" ELSE "READY"]
    /\ cont' = [cont EXCEPT ![runningThread] = "app"]
    /\ pc' = "switch"
    /\ UNCHANGED <<runningThread, killedThread, nutThreadList, queue, td_timer,
                   timerVars, pend, callVars, loopVars, owed>>

(* NutThreadCreate(), in any memory no thread occupies.                     *)
NutThreadCreate(t) ==
    /\ AppCalls("NutThreadCreate")
    /\ t \notin Alive \cup {killedThread}
    /\ nutThreadList' = <<t>> \o nutThreadList
    /\ td_priority' = [td_priority EXCEPT ![t] = DefaultPriority]
    /\ td_timer' = [td_timer EXCEPT ![t] = NULL]
    /\ td_qpec' = AddedQpec(runQueue, t, td_priority', td_qpec)
    /\ td_queue' = [td_queue EXCEPT ![t] = RunQ]
    /\ runQueue' = AddedList(runQueue, t, td_priority')
    /\ td_state' = [td_state EXCEPT ![t] = "READY",
                        ![runningThread] = IF Head(runQueue') = runningThread THEN @ ELSE "READY"]
    /\ cont' = [cont EXCEPT ![t] = "app", ![runningThread] = "app"]
    /\ pc' = "switch"
    /\ UNCHANGED <<runningThread, killedThread, queue, timerVars, pend, callVars,
                   loopVars, owed>>

(* NutThreadExit(): priority 255, and NutThreadKill(), which frees the      *)
(* thread killed before and leaves this one to the idle thread.             *)
NutThreadExit ==
    /\ AppCalls("NutThreadExit")
    /\ runQueue' = Unlink(runQueue, runningThread)
    /\ td_queue' = [td_queue EXCEPT ![runningThread] = NULL]
    /\ td_priority' = [td_priority EXCEPT ![runningThread] = 255]
    /\ nutThreadList' = Unlink(nutThreadList, runningThread)
    /\ killedThread' = runningThread
    /\ td_state' = [td_state EXCEPT ![runningThread] = "READY"]
    /\ pc' = "switch"
    /\ UNCHANGED <<runningThread, queue, td_qpec, td_timer, timerVars, pend,
                   callVars, loopVars, histVars>>

(* The idle thread, back from NutThreadYield(): NutThreadDestroy().         *)
NutThreadDestroy ==
    /\ pc = "destroy"
    /\ killedThread' = NULL
    /\ pc' = "app"
    /\ UNCHANGED <<runningThread, nutThreadList, td_priority, queueVars, td_timer,
                   timerVars, pend, callVars, loopVars, histVars>>

-----------------------------------------------------------------------------
(***************************************************************************)
(* Interrupts.                                                              *)
(***************************************************************************)
(* NutTimerIntr(): one more tick.                                           *)
NutTimerIntr ==
    /\ pend < MaxPend
    /\ pend' = pend + 1
    /\ owed' = [t \in Thread |-> IF owed[t] > 0 THEN owed[t] - 1 ELSE 0]
    /\ UNCHANGED <<threadVars, queueVars, td_timer, timerVars, pc, callVars,
                   loopVars, cont>>

(* NutEventPostFromIrq(): signal an empty queue, else count at its head; a  *)
(* signaled queue stays as it is.                                           *)
NutEventPostFromIrq(q) ==
    /\ \/ /\ Root(q) = NULL
          /\ queue' = [queue EXCEPT ![q] = <<SIGNALED>>]
          /\ UNCHANGED td_qpec
       \/ /\ Root(q) \in Thread
          /\ td_qpec[Root(q)] < MaxPost
          /\ td_qpec' = [td_qpec EXCEPT ![Root(q)] = @ + 1]
          /\ UNCHANGED queue
    /\ UNCHANGED <<threadVars, runQueue, td_state, td_timer, td_queue, timerVars,
                   pend, pc, callVars, loopVars, histVars>>

-----------------------------------------------------------------------------
(* NutInit() and NutIdle() have come as far as starting main().             *)
Init ==
    /\ runningThread = Main /\ killedThread = NULL
    /\ nutThreadList = <<Main, Idle>> /\ runQueue = <<Main, Idle>>
    /\ queue = [q \in Queue |-> <<>>]
    /\ td_state = [t \in Thread |-> IF t = Main THEN "RUNNING" ELSE "READY"]
    /\ td_priority = [t \in Thread |-> IF t = Idle THEN IdlePriority ELSE DefaultPriority]
    /\ td_qpec = [t \in Thread |-> 0]
    /\ td_timer = [t \in Thread |-> NULL]
    /\ td_queue = [t \in Thread |-> IF t \in {Main, Idle} THEN RunQ ELSE NULL]
    /\ nutTimerList = <<>> /\ tn_left = [h \in Timer |-> 0]
    /\ tn_callback = [h \in Timer |-> NULL] /\ tn_arg = [h \in Timer |-> NULL]
    /\ pend = 0
    /\ pc = "app" /\ qh = NULL /\ ms = 0 /\ root = NULL /\ ret = NULL
    /\ scan = 0 /\ ticks_new = 0
    /\ cont = [t \in Thread |-> "app"]
    /\ owed = [t \in Thread |-> 0]

(* What gives up the CPU, or ends, for the application.                     *)
GiveUp ==
    \/ YieldCall
    \/ \E q \in Queue, d \in Delay \cup {0} : NutEventWait(q, d) \/ NutEventWaitNext(q, d)
    \/ \E d \in Delay : NutSleep(d)
    \/ NutThreadExit

Application ==
    \/ GiveUp
    \/ SleepFails
    \/ \E q \in Queue : \/ EventPost("NutEventPostAsync", q, "app")
                        \/ EventPost("NutEventPost", q, "yield")
                        \/ NutEventBroadcast("NutEventBroadcastAsync", q, "bcastAsync")
                        \/ NutEventBroadcast("NutEventBroadcast", q, "bcast")
    \/ \E level \in Priority : NutThreadSetPriority(level)
    \/ \E t \in Thread : NutThreadCreate(t)

Kernel ==
    \/ WaitNextRead \/ WaitSignaled \/ WaitEnqueue \/ WaitReturn
    \/ PostWake \/ PostMark \/ PostIgnored \/ BroadcastNext
    \/ NutThreadYield \/ ScanSkip \/ ScanPost \/ ScanDone
    \/ TimerAdvance \/ ElapsedDone
    \/ \E h \in Timer : TimerStopped(h) \/ NutEventTimeout(h) \/ NutThreadWake(h)
    \/ NutThreadSwitch \/ NutThreadDestroy

Interrupt == NutTimerIntr \/ \E q \in Queue : NutEventPostFromIrq(q)

Next == Application \/ Kernel \/ Interrupt

Spec == Init /\ [][Next]_vars

-----------------------------------------------------------------------------
(***************************************************************************)
(* Safety.                                                                  *)
(***************************************************************************)
PCs == {"app", "wait", "waitnext", "waited", "post", "bcastAsync", "bcast",
        "yield", "scan", "elapsed", "switch", "destroy"}

(* Every variable has its type.                                             *)
TypeOK ==
    /\ runningThread \in Thread /\ killedThread \in Thread \cup {NULL}
    /\ nutThreadList \in Seq(Thread) /\ runQueue \in Seq(Thread)
    /\ queue \in [Queue -> Seq(Thread) \cup {<<SIGNALED>>}]
    /\ td_state \in [Thread -> {"RUNNING", "READY", "SLEEP"}]
    /\ td_priority \in [Thread -> 0..255]
    /\ td_qpec \in [Thread -> Nat]
    /\ td_timer \in [Thread -> Timer \cup {NULL, SIGNALED}]
    /\ td_queue \in [Thread -> Queue \cup {RunQ, NULL}]
    /\ nutTimerList \in Seq(Timer)
    /\ tn_left \in [Timer -> Nat]
    /\ tn_callback \in [Timer -> {"NutEventTimeout", "NutThreadWake", NULL}]
    /\ tn_arg \in [Timer -> Queue \cup Thread \cup {NULL}]
    /\ pend \in Nat
    /\ pc \in PCs
    /\ qh \in Queue \cup {NULL} /\ ms \in Delay \cup {0}
    /\ root \in Thread \cup {NULL, SIGNALED}
    /\ ret \in {"app", "yield", "scan", NULL} \cup Broadcasting
    /\ scan \in Nat /\ ticks_new \in Nat
    /\ cont \in [Thread -> {"app", "waited", "destroy"}]
    /\ owed \in [Thread -> Nat]

Waiting(q) == IF queue[q] = <<SIGNALED>> THEN {} ELSE ToSet(queue[q])

(* The run queue is ordered by priority, every thread is in it once, and    *)
(* the idle thread is its end, whatever order threads become ready, yield,  *)
(* change priority and exit in (NutThreadAddPriQueue, NutThreadYield).      *)
RunQueueSorted ==
    NoDup(runQueue) /\ Ascending(runQueue, td_priority) /\ Last(runQueue) = Idle

(* What is left of that when NutSleep() fails: the idle thread is still     *)
(* last, so that NutThreadYield() never takes it out of the run queue.      *)
IdleLast == NoDup(runQueue) /\ runQueue # <<>> /\ Last(runQueue) = Idle

(* The head of an event queue is a waiting thread of highest priority:      *)
(* NutEventPostAsync() and NutEventPostFromIrq() look at the head only.     *)
EventQueueSorted ==
    \A q \in Queue : queue[q] # <<SIGNALED>> =>
        NoDup(queue[q]) /\ Ascending(queue[q], td_priority)

(* Both, over any sequence of waits, wake-ups, timeouts, posts, yields,     *)
(* changes of priority and exits.                                           *)
QueuesSorted == RunQueueSorted /\ EventQueueSorted

(* No thread is ever lost or in two lists: one that exists is ready, or     *)
(* waits on the queue td_queue names, or has a sleep timer that will wake   *)
(* it; one that was killed is in no list, though its queues, priority and   *)
(* timers were changed by others up to the moment before.                   *)
AsleepByTimer(t) ==
    /\ td_queue[t] = NULL
    /\ td_timer[t] \in ToSet(nutTimerList)
    /\ tn_callback[td_timer[t]] = "NutThreadWake" /\ tn_arg[td_timer[t]] = t

OnePlace ==
    \A t \in Thread :
        LET places == {q \in Queue : t \in Waiting(q)} IN
        \/ t \notin Alive /\ t \notin Ready /\ places = {}
        \/ /\ t \in Alive
           /\ \/ t \in Ready /\ td_queue[t] = RunQ /\ places = {}
              \/ t \notin Ready /\ places = {td_queue[t]}
              \/ t \notin Ready /\ places = {} /\ AsleepByTimer(t)
           /\ td_state[t] = "SLEEP" <=> t \notin Ready

(* Events counted by interrupts are counted at the head of the queue they   *)
(* were posted to, and td_queue leads there: the scan of NutThreadResume()  *)
(* posts them to the right queue.                                           *)
PendingOnlyAtHead ==
    \A t \in Thread : td_qpec[t] > 0 =>
        td_queue[t] \in Queue /\ Root(td_queue[t]) = t

(* A timer handle a thread holds is that of a timer which is listed and     *)
(* serves this thread; nobody else holds it.  So NutTimerStop() is never    *)
(* given a timer that has been freed, or given to somebody else.            *)
TimerOwned ==
    /\ \A t \in Thread : td_timer[t] \in Timer =>
          /\ td_timer[t] \in ToSet(nutTimerList)
          /\ tn_callback[td_timer[t]] # NULL
          /\ tn_arg[td_timer[t]] \in {t, td_queue[t]}
          /\ \A u \in Thread \ {t} : td_timer[u] # td_timer[t]
    /\ \A h \in ToSet(nutTimerList) : tn_callback[h] # NULL =>
          \E t \in Alive : td_timer[t] = h

(* No wait times out and no sleep ends before the ticks asked for have been *)
(* counted, although timers are kept relative to the last NutThreadResume().*)
NoEarlyTimeout == \A t \in Ready : owed[t] = 0

(* The mark a timeout leaves in td_timer is seen by the wait that timed out *)
(* and by no other: it is there only until that wait returns.               *)
NoStaleVerdict ==
    \A t \in Thread : td_timer[t] = SIGNALED =>
        t \in Ready /\ cont[t] = "waited" /\ (t = runningThread => pc # "app")

(* The memory of a killed thread is never freed while the CPU runs on its   *)
(* stack (NutThreadKill, NutThreadDestroy).                                 *)
StackAllocated ==
    /\ runningThread \in Alive \cup {killedThread}
    /\ runningThread \notin Alive => pc = "switch"

-----------------------------------------------------------------------------
(***************************************************************************)
(* The inductive invariant the safety properties follow from.               *)
(***************************************************************************)
(* td_queue names the list a thread is linked in, and no list holds a       *)
(* thread twice; only threads in nutThreadList are linked anywhere, and     *)
(* one that is linked nowhere sleeps on a timer.                            *)
Linked ==
    /\ NoDup(runQueue) /\ NoDup(nutThreadList) /\ NoDup(nutTimerList)
    /\ \A q \in Queue : NoDup(queue[q])
    /\ \A t \in Thread : t \in Ready <=> td_queue[t] = RunQ
    /\ \A t \in Thread, q \in Queue : t \in ToSet(queue[q]) <=> td_queue[t] = q
    /\ \A t \in Thread : td_queue[t] # NULL => t \in Alive
    /\ \A t \in Alive : td_queue[t] = NULL => AsleepByTimer(t)
    /\ \A t \in Alive : td_state[t] = "SLEEP" <=> td_queue[t] # RunQ

(* Timers and the threads that hold them name each other.                   *)
Timed ==
    /\ \A h \in ToSet(nutTimerList) : tn_callback[h] # NULL =>
          \E t \in Alive : td_timer[t] = h
    /\ \A t \in Thread : td_timer[t] \in Timer =>
          LET h == td_timer[t] IN
          /\ t \in Alive /\ td_queue[t] # RunQ
          /\ h \in ToSet(nutTimerList)
          /\ \/ tn_callback[h] = "NutThreadWake" /\ tn_arg[h] = t /\ td_queue[t] = NULL
             \/ tn_callback[h] = "NutEventTimeout" /\ tn_arg[h] = td_queue[t] /\ td_queue[t] \in Queue
          /\ \A u \in Thread \ {t} : td_timer[u] # h
    /\ \A t \in Thread : td_timer[t] = SIGNALED =>
          /\ td_queue[t] = RunQ /\ cont[t] = "waited"
          /\ t = runningThread => pc \in {"elapsed", "switch", "waited"}
    /\ \A t \in Thread : td_queue[t] \in Queue => cont[t] = "waited"
    /\ Ascending(nutTimerList, tn_left)

(* What the steps of a kernel call rely on from the steps before.           *)
Control ==
    /\ pc \in {"wait", "waitnext", "post"} \cup Broadcasting => qh \in Queue
    /\ pc \in {"wait", "post"} /\ root = SIGNALED => queue[qh] = <<SIGNALED>>
    /\ pc = "post" /\ root = NULL => queue[qh] \in {<<>>, <<SIGNALED>>}
    /\ pc = "post" /\ root \in Thread => Root(qh) = root
    /\ pc = "post" => ret \in {"app", "yield", "scan"} \cup Broadcasting
    /\ pc \in Broadcasting => ret = pc
    /\ pc = "scan" \/ (pc = "post" /\ ret = "scan") => scan >= 1
    /\ pc \notin {"scan", "elapsed", "switch"} /\ ~(pc = "post" /\ ret = "scan")
         => runningThread \in Ready
    /\ pc # "switch" => runningThread \in Alive
    /\ runningThread \in Alive \cup {killedThread}
    /\ Idle \in Ready /\ killedThread \notin Alive
    /\ runningThread = Idle => pc \notin {"wait", "waitnext"}

KInv == TypeOK /\ Linked /\ PendingOnlyAtHead /\ Timed /\ Control

-----------------------------------------------------------------------------
(***************************************************************************)
(* Action properties.                                                       *)
(***************************************************************************)
(* "the queue will be cleared in any case" (os/event.c): when a broadcast   *)
(* wakes the last waiting thread it leaves the queue empty.                 *)
BroadcastClears ==
    [][ pc = "post" /\ ret \in Broadcasting /\ pc' # pc /\ Len(queue[qh]) = 1
            => queue'[qh] = <<>> ]_vars

(* The kernel, with its lists, counters and interrupts, implements the      *)
(* event queues of NutEvents.  An event the scan has taken from the counter *)
(* and not posted yet still counts.                                         *)
InFlight(q) == IF pc = "post" /\ ret = "scan" /\ qh = q THEN 1 ELSE 0

Posted(q) ==
    IF queue[q] = <<>> THEN 0
    ELSE IF queue[q] = <<SIGNALED>> THEN 1
    ELSE td_qpec[Head(queue[q])] + InFlight(q)

Events == INSTANCE NutEvents WITH
    waiting <- [q \in Queue |-> Waiting(q)],
    posted  <- [q \in Queue |-> Posted(q)],
    expired <- {t \in Thread : td_timer[t] = SIGNALED},
    prio    <- td_priority

EventsImplemented == Events!Spec

-----------------------------------------------------------------------------
(***************************************************************************)
(* Liveness.  Multitasking is cooperative: an application thread that runs  *)
(* goes on making calls that give up the CPU, however many it makes that do *)
(* not.  The kernel's own steps are taken, and the timer interrupts.        *)
(***************************************************************************)
Fairness ==
    /\ WF_vars(Kernel) /\ WF_vars(pc = "app" /\ runningThread = Idle /\ YieldCall)
    /\ SF_vars(GiveUp)
    /\ WF_vars(NutTimerIntr)

FairSpec == Spec /\ Fairness

(* Events posted by interrupts reach the head of the queue: it is woken, or *)
(* a thread of higher priority comes and takes the events over.             *)
EventsDelivered ==
    \A q \in Queue, t \in Thread :
        (Root(q) = t /\ td_qpec[t] > 0) ~> ~(Root(q) = t /\ td_qpec[t] > 0)

(* A wait with a timeout and a sleep come to an end.                        *)
TimedWaitReturns == \A t \in Thread : owed[t] > 0 ~> t \in Ready

(* Among application threads of one priority, every ready one gets the CPU. *)
RoundRobin ==
    \A t \in Thread \ {Idle} : t \in Ready ~> runningThread = t
=============================================================================
