------------------------------- MODULE NutTimer -------------------------------
(***************************************************************************)
(* The system timers of Nut/OS (os/timer.c): the tick counter, the list of  *)
(* timers that hold the ticks left beyond the timer before, and the pass    *)
(* over it that NutThreadResume() makes.  Counters are of one machine word  *)
(* and wrap around.                                                         *)
(*                                                                          *)
(* The timer interrupt comes between any two steps, also within a pass.     *)
(***************************************************************************)
EXTENDS NutList, FiniteSets

CONSTANTS
    Timer,       \* NUTTIMERINFO blocks the heap has room for
    Ms,          \* the times in milliseconds timers are started with
    Callback,    \* callbacks in use
    Flags,       \* "TM_ONESHOT", or 0 for periodic timers
    TickClock,   \* NutGetTickClock(): ticks per second
    Second,      \* milliseconds per second (1000, scaled down for TLC)
    Word,        \* 2^32, scaled down
    MaxPend      \* bound: ticks between two passes

(* NutMsgQTimerCb() starts a timer of one tick when it finds its queue full *)
(* (os/msg.c); the other callbacks leave timers alone.                      *)
ASSUME CallbackAssumption ==
    /\ Flags \subseteq {"TM_ONESHOT", "periodic"}
    /\ Callback \subseteq {"NutEventTimeout", "NutMsgQTimerCb"}
ASSUME WordAssumption ==
    /\ Word \in Nat /\ MaxPend \in Nat /\ MaxPend < Word
    /\ TickClock \in Nat \ {0} /\ Second \in Nat \ {0}
    /\ Ms \subseteq 1..(Word - 1)

VARIABLES
    nut_ticks, nut_ticks_resume,
    nutTimerList,
    tn_ticks,        \* period, 0 for one-shot timers
    tn_ticks_left,   \* ticks left beyond the preceding timer
    tn_callback,     \* "none" when the timer was stopped
    pc, ticks_new,   \* the pass
    due              \* history: ticks to the deadline asked for

clock == <<nut_ticks, nut_ticks_resume>>
list  == <<nutTimerList, tn_ticks, tn_ticks_left, tn_callback>>
vars  == <<clock, list, pc, ticks_new, due>>

Listed == ToSet(nutTimerList)
Armed  == {h \in Listed : tn_callback[h] # "none"}

(* What tn_ticks_left of the first i timers amounts to.                     *)
Sum(l, left, i) ==
    LET f[j \in 0..Len(l)] == IF j = 0 THEN 0 ELSE f[j - 1] + left[l[j]] IN f[i]

(* Ticks left of each timer from nut_ticks_resume on.                       *)
LeftOf(l, left) ==
    [h \in Timer |-> IF IsIn(l, h) THEN Sum(l, left, IndexIn(l, h)) ELSE 0]

Left == LeftOf(nutTimerList, tn_ticks_left)

Pend == (nut_ticks - nut_ticks_resume) % Word

(* NutTimerMillisToTicks(), in words.                                       *)
NutTimerMillisToTicks(ms) == ((ms * TickClock) % Word) \div Second

-----------------------------------------------------------------------------
(* NutTimerInsert(): d ticks from nut_ticks_resume on, behind the timers    *)
(* that elapse no later.  The next timer's share shrinks.                   *)
InsertLeft_NoShare(l, left, h, d) ==   \* fault: the next timer keeps its share
    LET p == InsertPos(l, LeftOf(l, left), d) IN
    [left EXCEPT ![h] = d - Sum(l, left, p - 1)]

InsertLeft(l, left, h, d) ==
    LET p == InsertPos(l, LeftOf(l, left), d)
        own == [left EXCEPT ![h] = d - Sum(l, left, p - 1)]
    IN  IF p <= Len(l) THEN [own EXCEPT ![l[p]] = @ - own[h]] ELSE own

InsertList_AtEnd(l, left, h, d) == Append(l, h)   \* fault: in no order

InsertList(l, left, h, d) == InsertAt(l, InsertPos(l, LeftOf(l, left), d), h)

(* A timer is unlinked: the next one takes over its ticks.                  *)
UnlinkLeft(l, left, h) ==
    LET i == IndexIn(l, h) IN
    IF i < Len(l) THEN [left EXCEPT ![l[i + 1]] = @ + left[h], ![h] = 0]
    ELSE [left EXCEPT ![h] = 0]

(* NutTimerStartTicks(): n ticks from now on.                               *)
Arm(l, left, h, n, callback, flags) ==
    LET d == (n + nut_ticks - nut_ticks_resume) % Word IN
    /\ nutTimerList' = InsertList(l, left, h, d)
    /\ tn_ticks_left' = InsertLeft(l, left, h, d)
    /\ tn_ticks' = [tn_ticks EXCEPT ![h] = IF flags = "TM_ONESHOT" THEN 0 ELSE n]
    /\ tn_callback' = [tn_callback EXCEPT ![h] = callback]

-----------------------------------------------------------------------------
NutTimerStart(h, ms, callback, flags) ==
    /\ pc = "app" /\ h \notin Listed
    /\ Arm(nutTimerList, tn_ticks_left, h, NutTimerMillisToTicks(ms), callback, flags)
    /\ due' = [due EXCEPT ![h] = (ms * TickClock) \div Second]
    /\ UNCHANGED <<clock, pc, ticks_new>>

(* NutTimerStop(): it expires at once, and the next pass frees it.          *)
NutTimerStop_StillPeriodic(h) ==   \* fault: tn_ticks is not cleared
    /\ pc = "app" /\ h \in Armed
    /\ tn_callback' = [tn_callback EXCEPT ![h] = "none"]
    /\ due' = [due EXCEPT ![h] = 0]
    /\ UNCHANGED <<clock, nutTimerList, tn_ticks, tn_ticks_left, pc, ticks_new>>

NutTimerStop(h) ==
    /\ pc = "app" /\ h \in Armed
    /\ tn_ticks' = [tn_ticks EXCEPT ![h] = 0]
    /\ tn_callback' = [tn_callback EXCEPT ![h] = "none"]
    /\ IF tn_ticks_left[h] # 0
       THEN LET l == Unlink(nutTimerList, h)
                left == UnlinkLeft(nutTimerList, tn_ticks_left, h)
            IN  /\ nutTimerList' = InsertList(l, left, h, 0)
                /\ tn_ticks_left' = InsertLeft(l, left, h, 0)
       ELSE UNCHANGED <<nutTimerList, tn_ticks_left>>
    /\ due' = [due EXCEPT ![h] = 0]
    /\ UNCHANGED <<clock, pc, ticks_new>>

NutTimerIntr ==
    /\ Pend < MaxPend
    /\ nut_ticks' = (nut_ticks + 1) % Word
    /\ due' = [h \in Timer |-> IF h \in Armed THEN due[h] - 1 ELSE 0]
    /\ UNCHANGED <<nut_ticks_resume, list, pc, ticks_new>>

-----------------------------------------------------------------------------
(* NutTimerProcessElapsed().                                                *)
PassStart ==
    /\ pc = "app"
    /\ ticks_new' = Pend
    /\ nut_ticks_resume' = nut_ticks
    /\ pc' = "pass"
    /\ UNCHANGED <<nut_ticks, list, due>>

InPass == pc = "pass" /\ nutTimerList # <<>> /\ ticks_new > 0

CountDown ==
    LET h == Head(nutTimerList) IN
    /\ InPass /\ ticks_new < tn_ticks_left[h]
    /\ tn_ticks_left' = [tn_ticks_left EXCEPT ![h] = @ - ticks_new]
    /\ ticks_new' = 0
    /\ UNCHANGED <<clock, nutTimerList, tn_ticks, tn_callback, pc, due>>

(* The callback of the first timer starts another timer, while the first    *)
(* one is still in the list with no ticks left.                             *)
Restarts(h, k) ==
    LET elapsed == [tn_ticks_left EXCEPT ![h] = 0]
        d == (1 + nut_ticks - nut_ticks_resume) % Word
    IN  /\ tn_callback[h] = "NutMsgQTimerCb" /\ k \notin Listed
        /\ nutTimerList' = Tail(InsertList(nutTimerList, elapsed, k, d))
        /\ tn_ticks_left' = InsertLeft(nutTimerList, elapsed, k, d)
        /\ tn_callback' = [tn_callback EXCEPT ![h] = "none", ![k] = "NutMsgQTimerCb"]
        /\ due' = [due EXCEPT ![h] = 0, ![k] = 1]
        /\ UNCHANGED tn_ticks

(* The timer is freed, or runs for another period.                          *)
Reload_FromNow(h) ==   \* fault: the period starts when the callback has run
    LET rest == Tail(nutTimerList)
        elapsed == [tn_ticks_left EXCEPT ![h] = 0]
    IN  /\ IF tn_ticks[h] = 0
           THEN /\ nutTimerList' = rest /\ tn_ticks_left' = elapsed
                /\ tn_callback' = [tn_callback EXCEPT ![h] = "none"]
           ELSE Arm(rest, elapsed, h, tn_ticks[h], tn_callback[h], "periodic")
        /\ due' = [due EXCEPT ![h] = IF tn_ticks[h] = 0 THEN 0 ELSE @ + tn_ticks[h]]
        /\ UNCHANGED tn_ticks

Reload(h) ==
    LET rest == Tail(nutTimerList)
        elapsed == [tn_ticks_left EXCEPT ![h] = 0]
    IN  /\ IF tn_ticks[h] = 0
           THEN /\ nutTimerList' = rest /\ tn_ticks_left' = elapsed
                /\ tn_callback' = [tn_callback EXCEPT ![h] = "none"]
           ELSE /\ nutTimerList' = InsertList(rest, elapsed, h, tn_ticks[h])
                /\ tn_ticks_left' = InsertLeft(rest, elapsed, h, tn_ticks[h])
                /\ UNCHANGED tn_callback
        /\ due' = [due EXCEPT ![h] = IF tn_ticks[h] = 0 THEN 0 ELSE @ + tn_ticks[h]]
        /\ UNCHANGED tn_ticks

Elapsed(h) ==
    /\ InPass /\ h = Head(nutTimerList) /\ tn_ticks_left[h] <= ticks_new
    /\ ticks_new' = ticks_new - tn_ticks_left[h]
    /\ \/ Reload(h)
       \/ tn_ticks[h] = 0 /\ \E k \in Timer : Restarts(h, k)
    /\ UNCHANGED <<clock, pc>>

PassDone ==
    /\ pc = "pass" /\ (nutTimerList = <<>> \/ ticks_new = 0)
    /\ ticks_new' = 0 /\ pc' = "app"
    /\ UNCHANGED <<clock, list, due>>

-----------------------------------------------------------------------------
Init ==
    /\ nut_ticks = 0 /\ nut_ticks_resume = 0
    /\ nutTimerList = <<>>
    /\ tn_ticks = [h \in Timer |-> 0] /\ tn_ticks_left = [h \in Timer |-> 0]
    /\ tn_callback = [h \in Timer |-> "none"]
    /\ pc = "app" /\ ticks_new = 0
    /\ due = [h \in Timer |-> 0]

Kernel == PassStart \/ CountDown \/ PassDone \/ \E h \in Timer : Elapsed(h)

Next ==
    \/ NutTimerIntr \/ Kernel
    \/ \E h \in Timer : NutTimerStop(h)
    \/ \E h \in Timer, ms \in Ms, callback \in Callback, flags \in Flags :
          NutTimerStart(h, ms, callback, flags)

Spec == Init /\ [][Next]_vars

-----------------------------------------------------------------------------
TypeOK ==
    /\ nut_ticks \in 0..(Word - 1) /\ nut_ticks_resume \in 0..(Word - 1)
    /\ nutTimerList \in Seq(Timer) /\ NoDup(nutTimerList)
    /\ tn_ticks \in [Timer -> 0..(Word - 1)] /\ tn_ticks_left \in [Timer -> 0..(Word - 1)]
    /\ tn_callback \in [Timer -> Callback \cup {"none"}]
    /\ pc \in {"app", "pass"} /\ ticks_new \in 0..MaxPend
    /\ due \in [Timer -> Int]

(* What the list, the tick counters and a pass in progress say of a timer   *)
(* is the time it has left: deltas lose and win nothing when timers come    *)
(* and go around it, nor does the wrap-around of nut_ticks.                 *)
DueKept == \A h \in Armed : due[h] = Left[h] - ticks_new - Pend

(* "The timer counts for a specified number of milliseconds, then calls the *)
(* callback routine" (NutTimerStart): a callback does not run early.        *)
NeverEarly ==
    [][ \A h \in Armed : Elapsed(h) => due[h] <= 0 ]_vars

(* DueKept asks of the application that the times it uses fit in a word     *)
(* (NutTimerMillisToTicks() multiplies first), also with the ticks of a     *)
(* late pass added, and that no callback starts a timer.                    *)
TimesFit ==
    \A ms \in Ms : /\ ms * TickClock < Word
                   /\ NutTimerMillisToTicks(ms) + MaxPend < Word

NoRestarts == "NutMsgQTimerCb" \notin Callback

(* The inductive invariant.  Deltas are words because their sums are, and a *)
(* timer that is stopped or free has no period to run for.                  *)
TimerInv ==
    /\ TypeOK /\ DueKept
    /\ Pend <= MaxPend
    /\ pc = "app" => ticks_new = 0
    /\ \A h \in Timer : h \in Listed \/ tn_callback[h] = "none"
    /\ \A h \in Timer : tn_callback[h] = "none" => tn_ticks[h] = 0
    /\ \A h \in Listed : Left[h] < Word

(* The delta list is an implementation of the timers of NutTimers.          *)
Timers == INSTANCE NutTimers WITH
    armed  <- Armed,
    due    <- [h \in Timer |-> IF h \in Armed THEN Left[h] - ticks_new - Pend ELSE 0],
    period <- [h \in Timer |-> IF h \in Armed THEN tn_ticks[h] ELSE 0]

TimersImplemented == Timers!Spec

(* ... and, seen by the ticks left from nut_ticks_resume on, it is what     *)
(* module NutKernel has for it, as long as only one-shot timers are used.   *)
KernelStart(h) ==
    /\ h \notin Listed
    /\ Left' = [Left EXCEPT ![h] = Left'[h]] /\ Left'[h] >= Pend
    /\ nutTimerList' = InsertBy(nutTimerList, h, Left')

KernelStop(h) ==
    /\ h \in Listed /\ Left' = [Left EXCEPT ![h] = 0]
    /\ nutTimerList' = InsertBy(Unlink(nutTimerList, h), h, Left')

KernelAdvance ==
    /\ Left' = [h \in Timer |-> IF h \in Listed THEN Left[h] - ticks_new ELSE 0]
    /\ UNCHANGED nutTimerList

KernelElapses(h) ==
    /\ nutTimerList # <<>> /\ h = Head(nutTimerList)
    /\ nutTimerList' = Tail(nutTimerList)
    /\ Left' = [x \in Timer |-> IF x \in Listed \ {h} THEN Left[x] - Left[h] ELSE 0]

OneShots == \A h \in Timer : tn_ticks[h] = 0

KernelView ==
    [][ OneShots /\ OneShots' =>
        \/ UNCHANGED <<nutTimerList, Left>> \/ KernelAdvance
        \/ \E h \in Timer : KernelStart(h) \/ KernelStop(h) \/ KernelElapses(h) ]_vars

(* A stopped timer's memory is freed.                                       *)
FairSpec == Spec /\ WF_vars(Kernel) /\ WF_vars(NutTimerIntr)

StoppedFreed ==
    \A h \in Timer : (h \in Listed /\ tn_callback[h] = "none") ~> h \notin Listed
=============================================================================
