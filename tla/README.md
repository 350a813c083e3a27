# Nut/OS in TLA+

Specifications of Nut/OS, the cooperative real-time operating system of the
Ethernut boards (`os/`, `arch/`), and of the Nut/Net TCP/IP stack on top of it
(`net/`, `pro/`).  The kernel comes first: everything else in the repository
blocks, wakes and times out through it.

Modules are written from the C code; names are kept (`td_qpec`, `WaitEnqueue`
for the second half of `NutEventWait()`).  `PROJECT.json` maps every
definition to the lines it models.

## 1. Inventory

### The system

Nut/OS runs a set of threads on one CPU.  Threads are never preempted: the CPU
changes hands in `NutThreadSwitch()` only, which is reached from
`NutThreadResume()` (yield, wait, sleep), `NutThreadSetPriority()`,
`NutThreadCreate()` and `NutThreadExit()`.  The concurrency that makes the code
hard is of two kinds: interrupts, which come between any two critical sections
(`NutEnterCritical`/`NutExitCritical`) of a kernel call, and the interleaving
of threads at the calls that may give up the CPU, which are more than one
expects (`NutEventPost()` yields, and `NutMutexUnlock()` calls it).

| Component | Code | State | Operations | Talks to |
|---|---|---|---|---|
| Scheduler | `os/thread.c`, `arch/*/os` | `runQueue`, `nutThreadList`, `runningThread`, `killedThread`, `td_state`, `td_priority` | add/remove queue, resume, yield, wake, set priority, create, exit, kill, destroy, switch | events (scan of `td_qpec`), timers (processed in `NutThreadResume`) |
| Event queues | `os/event.c`, `sys/event.h` | a root per queue (0, `SIGNALED` or first thread), `td_qpec`, `td_queue`, `td_timer` | wait, wait next, post, broadcast (async or not), timeout, post from IRQ | scheduler, timers, interrupts |
| Timers | `os/timer.c`, `arch/*/dev/ostimer*` | `nut_ticks`, `nut_ticks_resume`, `nutTimerList` of deltas | start, stop, process elapsed, tick interrupt, sleep | callbacks into events, scheduler, message queues |
| Mutex | `os/mutex.c` | `thread`, `count`, `qhp` | lock, trylock, unlock, destroy | event queues |
| Semaphore | `os/semaphore.c` | `value`, `qhp` | wait, try, post | event queues |
| Condition | `os/condition.c` | mutex, `event` | lock, unlock, wait, timed wait, signal, broadcast | mutex, event queues |
| Message queue | `os/msg.c` | ring, `mq_read`, `mq_write`, `mq_wait`, timers | post, send, broadcast, get, flush, start/stop timer | event queues, timers |
| Heap | `os/heap.c` | address ordered free list | alloc (best fit, split), free (merge), realloc | everything |
| Segmented buffer | `os/bankmem.c` | read and write index over segments | request, commit, last | drivers, VS1001 player |
| Network buffers | `dev/netbuf.c` | parts and reference flags | alloc, clone, free, append | network |
| ARP | `net/arp*.c` | table per interface, wait queue per entry | query, update, flush | threads waiting for an address |
| TCP | `net/tcp*.c` | sockets: state, windows, retransmission and out-of-order queues, four event queues | connect, accept, send, receive, close; segment input, timeout pass in one thread | IP, sockets |
| UDP | `net/udp*.c` | receive queue per socket | send, receive | IP, sockets |
| PPP | `net/ppp*.c`, `lcp*`, `ipcp*`, `pap*` | three automata | open, close, up, down, packets, retries | driver, `NutNetIfConfig` |
| DHCP client | `pro/dhcpc.c` | client state, lease | discover, request, renew, release | UDP |
| USART framework | `dev/usart.c` | receive and transmit rings | read, write, ioctl, interrupt | interrupts, event queues |
| Relay boards | `dev/relay_control*.c` | outputs, inputs, hold times | control thread, ioctl | devices |

Left aside: the C library, Lua, the MP3 codec, boot loaders, the configuration
tools, examples, and the drivers that only move data to hardware.

### What is hard, and what makes each part correct

* **Scheduler.** The run queue stays ordered, with the idle thread at its end,
  whatever happens; no thread is lost; equals are served in turn; memory of a
  killed thread outlives its last use.
* **Event queues.** No event from an interrupt is lost or delivered to another
  queue, at whatever instruction of a wait, post or timeout it comes; the
  waiting thread is told timeout or event, and never by an earlier wait's
  timer.  `td_qpec` is the delicate part: it counts at the head of the queue,
  and the head changes.
* **Timers.** Deltas keep every deadline over insertions, stops, reloads and the
  wrap-around of the counter; nothing elapses early; handles are not used after
  the timer's memory was freed.
* **Mutex, semaphore, condition, messages.** Mutual exclusion and no lost
  wake-up, with a post that may switch threads in the middle of an operation;
  messages and events in step.
* **Heap, buffers.** Free blocks do not overlap, are merged, and nothing is lost
  or freed twice.
* **ARP, TCP, PPP.** Objects freed while threads wait on them; timeouts racing
  answers; counters that must be given back; automata of two peers that must
  agree.

`PROJECT.json` has each of these hazards with its line.

## 2. Modules

```
NutList         insertion and removal of the two list idioms (pure operators)
NutKernel       scheduler + event queues + timers by ticks left; interrupts
  NutEvents     what event queues promise          NutKernel => NutEvents
NutTimer        the delta list, machine words, periodic timers, callbacks
  NutTimers     timers with deadlines              NutTimer  => NutTimers
NutEventQueue   event queues without interrupts (pure operators)
NutMutex        the recursive mutex
  NutCondition  condition variables, with consumers and producers
NutSemaphore    the counting semaphore
NutMsgQ         message queues and message timers
  NutChannels   bounded FIFO channels              NutMsgQ   => NutChannels
NutHeap         the list of free nodes
NutSegBuf       the segmented buffer, thread and interrupt
NutUsart        a serial device's rings, threads and interrupts
NutNetBuf       network buffers and their clones
NutArp          the ARP cache and the threads that wait for it
NutPpp          one PPP device: LCP, PAP, IPCP, driver and application
  NutPppLink    two of them over a line that loses packets
NutTcp          two TCP hosts over a network that loses, repeats and reorders
NutListProofs   lemmas about NutList
NutKernelProofs NutKernel: its invariants, deadlines, order, NutEvents
NutTimerProofs  NutTimer: the deltas, NutTimers, NutKernel's view of them
NutSyncProofs   NutMutex, NutCondition, NutSemaphore
NutMsgQProofs   NutMsgQ: events, timers' messages, NutChannels
NutMemoryProofs NutHeap, NutSegBuf, NutUsart: sleepers and rings
NutNetProofs    NutPpp, NutArp, NutNetBuf
NutTcpProofs    NutTcp: what one host keeps, and what two keep together
MCNutKernel, MCNutTimer, MCNutMsgQ, MCNutTcp    instances for TLC
MCNutOs         mutex, condition, semaphore, heap, segmented buffer, USART
MCNutNet        network buffers, ARP cache, PPP device, PPP link
```

The modules are at three levels.  `NutKernel`, `NutTimer` and `NutUsart` go from
critical section to critical section, with interrupts in between.  The other
modules are code of threads, which are not preempted: a step goes up to the next
call that may give up the CPU, and then any other thread may run.  `NutHeap` and
`NutNetBuf` never give up the CPU and are sequential; what is hard there is the
order of calls.

`MCNutOs` and `MCNutNet` put parts together that share no state: a behaviour is
one of a part, chosen initially, and an instance of each is checked by one run.

### NutKernel

A list is the sequence of its nodes.  `queue[q]` is what the root of an event
queue leads to: `<<>>`, `<<SIGNALED>>` or waiting threads.  `pc` is the place of
the running thread in a kernel call; `cont[t]` is where a thread that gave up
the CPU goes on.  Each step of a call goes from one critical section to the
next, and the two interrupts, `NutTimerIntr` and `NutEventPostFromIrq(q)`, may
come between any two steps:

| Step | Code |
|---|---|
| `NutEventWait` → `WaitSignaled` / `WaitEnqueue` → … → `WaitReturn` | read of the root; clear and yield, or leave the run queue, enter the event queue and start the timer; `NutThreadResume`; look at `td_timer` |
| `NutEventWaitNext` → `WaitNextRead` → as above | clear, then `NutEventWait` |
| `EventPost` → `PostWake` / `PostMark` / `PostIgnored` | read of the root; act on what was read |
| `NutEventBroadcast` → post → `BroadcastNext` … | the do-while loop |
| `NutThreadYield` → `ScanSkip`/`ScanPost`… → `ScanDone` → `TimerAdvance`/`TimerStopped`/`NutEventTimeout`/`NutThreadWake`… → `ElapsedDone` → `NutThreadSwitch` | `NutThreadYield`, `NutThreadResume`, `NutTimerProcessElapsed`, the switch |
| `NutSleep`, `SleepFails` | with a timer, or without |
| `NutThreadSetPriority`, `NutThreadCreate`, `NutThreadExit` | these switch at once, without `NutThreadResume` |
| `NutThreadDestroy` | the idle thread after each yield |

The application is any sequence of kernel calls by threads other than the idle
thread (`Calls` says which).  Priority 255 is `NutThreadExit`.  Created threads
reuse the memory of destroyed ones.  `td_state` is modelled with its quirk that
a thread that was woken and becomes head again while running is READY.

Abstractions: stacks and registers; names; the value a wait returns, which is
`td_timer = SIGNALED` at `WaitReturn`; a failing `NutThreadCreate()` changes
nothing.  Timers are kept by ticks left since `nut_ticks_resume`; the deltas are
in `NutTimer`, and `KernelView` says that one is a view of the other.  A queue's root is not overwritten by the application (`*qhp = 0`), and
no thread waits in a callback.

### NutEvents

What the users of event queues rely on: `waiting[q]`, `posted[q]` (the events
not delivered yet), `expired` (threads told that they timed out).  A post to an
empty queue sets `posted` to one; interrupts count when threads wait; an event
goes to a thread of highest priority; expiry takes a thread and no event; a
thread that leaves last with events left over leaves one.  `NutKernel` implements it with
`posted` the count at the head, plus the event the scan has taken and not posted
yet (`InFlight`).

### NutTimer, NutTimers

`NutTimer` has the list of `os/timer.c` with `tn_ticks_left` as deltas, counters modulo
`Word`, and the conversion of milliseconds.  A pass of
`NutTimerProcessElapsed()` is one step per timer, with ticks between them.
Callbacks do what the kernel's do to the list: nothing (`NutEventTimeout`,
`NutThreadWake`), or start another one-shot timer (`NutMsgQTimerCb` when its
queue is full, `Restarts`).  `due` is history: the ticks to the deadline asked
for.  `NutTimers` has timers with deadlines that count down and fire not before
them; a period starts at the deadline and not when the callback ran.

Abstractions: the argument of a callback; `tn_callback = "none"` stands for
NULL and for a freed block.

### NutEventQueue

What the modules above the kernel need of it: the set of threads that wait on a
queue, and whether it remembers an event.  An event wakes *any* of the waiting
threads, since priorities are not part of these modules; a property that holds
for every choice holds for the kernel's.  No interrupt posts to these queues, so
there are no counts, and at most one event is remembered (`NutEvents`, with
`posted` at most one).

### NutMutex, NutCondition, NutSemaphore

| Action | Code |
|---|---|
| `NutMutexLock`, `LockRetry` | up to `NutEventWaitNext()`; one more turn of the loop |
| `NutMutexTrylock` | takes the mutex or changes nothing |
| `NutMutexUnlock` | all of it; the post at its end may switch threads |
| `NutConditionTimedWait`, `WaitEvent`, `WaitTimeout`, `WaitRelock` | unlock, which may switch; `NutEventWait()`; its two ends; lock |
| `Consume`, `Produce` | the loop of an application around the wait, as `os/condition.c` documents it |
| `NutSemWait`, `WaitReturn`, `NutSemTryWait`, `NutSemPost` | decrement and wait; return of the wait; the same when the value is positive; increment and post |

`held` counts the locks a thread has not given back, and is what an application
knows; the mutex has `thread` and `count`, and `thread` stays after the last
unlock.  With `StrayUnlock` an application may unlock more often than it locked.
`NutConditionWait()` and `NutConditionInit()` are left out: the first passes the
queue instead of its address to `NutEventWait()`, the second leaves the memory
it allocated unused.  `NutMutexDestroy()` and `NutSemDestroy()` do nothing or
post to a mutex nobody may use any more.  The semaphore's `short` is not
wrapped around: it would need more threads than there is memory for, or
32768 posts nobody waits for.

### NutMsgQ, NutChannels

The ring is modelled slot by slot with `mq_read` and `mq_write`, since reuse of
slots is where it could be wrong.  A message is application data, `MsgNull`, or
the timer that posted it.  A timer in `mq_timers[q]` is memory in use; one in
`mt_handle` runs.  `NutMsgQTimerCb()` is called by the timer pass in
`NutThreadResume()`, so it comes between steps of threads.  `NutMsgQFlush()`
has a contract that its source only hints at, `FlushWhen`: the application
flushes when none waits, as the assertion has it; when no thread is in
`NutMsgQGetMessage()`; or, "careful", when moreover no one-shot timer of the
queue is in use.
`NutChannels` has sequences of bounded length; messages are received once, in
order, and those of a stopped timer as nothing.

### NutHeap

Addresses and sizes are in units of the alignment, and a node is its first
address and size.  Allocation is best fit with `Splits`; `Released` is the loop
of `NutHeapRootFree()`, with its refusal of memory that is free already, and
serves `NutHeapRootAdd()` and the rests of `NutHeapRootRealloc()` as well.
Moving a block asks for the overhead twice, as the code does.  Guard patterns,
the list of allocated nodes of debug builds and the copied contents are left
out.

### NutSegBuf

The ring over banks as the decoder drivers use it: the calls named `Write` by a
thread that keeps the interrupt off during a call but not between calls, those
named `Read` by the interrupt (`VsPlayerFeed()` of `arch/avr/dev/vs1001k.c`).  Units are numbered, so that one
that is overwritten or read twice shows.  `enabled` is the bank that memory
accesses go to: the thread finds its own bank enabled although the interrupt
came in between.

### NutNetBuf

`NutNetBufAlloc()` with and without a buffer to extend, `NutNetBufClonePart()`
(and so `NutNetBufClone()`), `NutNetBufFree()` with its second turn for the original of
a clone, and `NutNetBufCollect()` for two buffers.  A part is a block of memory
and `own` the parts the buffer has allocated itself; `refs` is what the flag bits
count, up to `RefMax`.  Memory may be short at any allocation.

### NutArp

`NutArpCacheQuery()` from one place where it gives up the CPU to the next: the
driver sends (`OutputSent`, `OutputFailed`), the thread sleeps on the entry's
queue (`Resumes`, `SleepTimeout`).  In between other queries, `NutArpCacheUpdate()`
and the aging of the table may free the entry and use its memory for another
address.  `Minute` is the clock of `ArpCacheAging()`; a query lasts less than a
minute (its waits double from 500 ms over `MAX_ARPREQUESTS`), which `slow`
states.  Packets are calls that succeed or fail.

### NutTcp

Two hosts that both run this code, each with `NutTcpSm()` and one application.
The network keeps every segment, so that it may come late, again or never.  A
step is a segment, a round of the timers, or what the application does up to
its next wait; each is the whole handler, with the states' handlers
(`NutTcpStateSynSent` to `NutTcpStateLastAck`) as operators from a socket to a
socket.  Data is counted in units, known by their sequence numbers modulo
`SeqSpace`.  A segment carries one unit or none; windows and the maximum segment
size `Mss` are in units too, so that segments may be shorter than they could be.

`NutTcpSend()` compares the `int` `len` with `so_tx_win - unacked`, both
`uint16_t` (`net/tcpsock.c:727`).  An acknowledgment may have closed the window
below what is outstanding: `NutTcpOutput()` offers 0 where there is less room than a
segment needs (`net/tcpout.c:303`).  An `int` that is wider than `uint16_t` (ARM,
AVR32, and the H8/300H with the `-mint32` that `nutsetup` gives it) holds the negative
difference; in the AVR's `int` of 16 bits it is unsigned and wraps around modulo
`WinSpace`.  The constant `NarrowInt` says which; `WindowLeft` is the difference.

Left out: the buffered stream of `NutTcpDeviceRead()` and
`NutTcpDeviceWrite()`, options, round trip times, the limit of `tcp_in_nbq` (a
lost segment), lack of memory for a segment (the allocations of `NutTcpOutput()`
included), and several sockets on one port.  A reset that acknowledges nothing has
number 0 instead of the one it answers to, since every state looks for RST before it
looks at the number.

### NutUsart

`UsartRead()`, `UsartPut()`, `UsartFlushOutput()`, the two discards of
`UsartIOCtl()`, `UsartClose()` and `UsartOpen()` over the rings of `dev/usart.c`,
from one critical section to the next, with the receive, transmit and flow
control interrupts of `arch/avr/dev/usartavr.c` in between.  `remote` is the
other end, which stops on XOFF.  `Hasty` has output closed or discarded with
characters left.  Left out: cooked mode and its line ends, RTS and CTS, half
duplex, speeds and frames, and other chips' interrupt handlers.

### NutPpp, NutPppLink

A function of `net/pppsm.c`, `lcpin.c`, `ipcpin.c`, `papin.c` and so on is an
operator from a device control block to a device control block; handlers that
LCP and IPCP have alike have the layer as parameter `p`.  What a function sends is
appended to `out`.

| Action | Code |
|---|---|
| `Receive` | `NutPppInput()` of any packet, with the last request's id or another |
| `Round` | a turn of `NutPppSm()`: retries and timeouts of the three protocols |
| `DriverThread` | `AhdlcRx()` finds its device attached or detached |
| `Configure`, `ConfigTimeout` | `NutNetIfConfig()` up to its wait; its ends |
| `Control` | the ioctls `LCP_OPEN`, `LCP_CLOSE`, `HDLC_SETIFNET` |
| `OpenClose` | `NutPppOpen()`, `NutPppClose()` |

What options call for is part of a packet: they are acknowledged, refused or
rejected.  Left out are the options themselves, the counts of refusals, echo
and discard requests, protocol rejects, requests that find no memory, IP
packets, and framing.

In `NutPpp` the peer is anybody, until it is silent.  `NutPppLink` has two
devices and a line for each direction that keeps the order and loses up to
`LossMax` packets; both applications call `NutNetIfConfig()` once, and all
options are accepted.  `NutPppSm()` runs every five seconds, far slower than the
line, so a round finds the line empty and both drivers up, and the rounds of the
two hosts alternate.

## 3. Runs

| Run | Asks | Instance |
|---|---|---|
| `kernel_all` | safety of every kernel call under interrupts; the invariant of the proofs | 2 application threads, the idle thread, 1 queue, 2 timers, 2 priorities, timeouts of 1 and 2 ticks, 2 pending ticks, counts up to 2 |
| `kernel_events` | refinement of `NutEvents`, also when timers cannot be allocated | 3 application threads of 2 priorities on one queue |
| `kernel_live` | delivery, timeouts, round robin | 2 application threads of one priority |
| `timer_all` | deadlines, refinement of `NutTimers`, the view `NutKernel` takes | 3 timers, 1 to 3 ticks, counter modulo 8 |
| `timer_live` | stopped timers are freed | 2 timers, callbacks that start timers |
| `os_all` | exclusion and no lost wake-up; no lost signal; units of a semaphore; memory partitioned and merged; two kinds of rings shared with interrupts | mutex and condition: 4 threads that nest 2 locks, 1 consumer, 2 items; semaphore: 4 threads, initial value 1, 4 posts; heap: 3 regions of 9, 3 and 4 units, two of which touch; 2 banks of 3 units; rings of 2 characters |
| `msgq_all` | refinement of `NutChannels`, events and messages in step, owned timers, one-shot timers that end as one message | a queue of 3 messages with a timer and one of 1 message, broadcasts to both, 1 reader, careful flushes |
| `net_all` | buffers freed once and in time; ARP entries that threads wait for are kept, and queries return; PPP's layers in order, giving up, and connecting | 3 buffers, 3 blocks, 2 parts, 1 reference; 2 threads, 2 addresses, 2 entries, 2 requests; 9 retries, 4 ids, 2 hosts, 1 lost packet |
| `tcp_all` | the stream, the window, retransmission and the applications' wake-ups | a window of 2 units, which is one full segment, 3 units of data from the server, 1 in advance, sequence numbers modulo 14 from where those of both hosts wrap around, timeouts of both applications, one of them closes, an `int` wider than `uint16_t` |
| `tcp_live` | closed sockets are destroyed, connects return | both close, no data, output may fail |
| `usart_xon`, `tcp_reader` | disagreements of documentation and code, below | rings of 2 characters; as `tcp_all` |

### Bounds

Two waiting threads of different priority are what the transfer of a count to a
new head, a timeout out of the head or the tail and a wake-up with a successor
need; a third thread runs and posts in `kernel_events`, where created threads
and timer blocks are symmetric.  Counts above two behave as two.  A timer list
of three has a first, a middle and a last element, and the counter wraps around
within every long behaviour since `Word` is 8.  One queue is enough for a run
since queues share nothing but threads and timers; the proofs are for any
number.  `MaxPend` and `MaxPost` bound ticks and posts between two resumes.  No
operator chooses among timer blocks or threads, so that the symmetry is sound.

Four threads are an owner, two that sleep and one that comes in between an
unlock and the wake-up.  A ring of four slots wraps around while it is neither
full nor empty; one of two slots is full with one message.  In the heap, a
region of 9 units has room for four of the smallest nodes, so that a release
finds none, one or two neighbours free, and rests are above, at and below the
size of a header.  Two banks of three units have ends of banks that are not ends
of the ring.  A ring of two characters has its watermarks at one and at two, so
that it is empty, between them and full.

One reference is a limit that a third buffer reaches (`NBAF_REFCNT` is 7).  Two
ARP entries serve two addresses, so that memory of one is used again for the
other while a thread still looks for the first.  TCP's window of two units is
open, closed with both outstanding, and, when the first is acknowledged, closed
below the one that is outstanding still, while the third waits to be sent.  With
one segment in advance that store is full at once.  Both hosts begin at the end of
the sequence space (`MCIsn`): the server's numbers wrap around between its data
segments, the client's with its SYN.  `RetriesMax` is 0 there, so that a connection also ends by its
retries.  With a window of one full segment the reader never sends an acknowledgment
of its own to open the window; with `Mss = 1`, two units of data (`ServerSends`) and
`SeqSpace = 12` it does, and the run passes as well.  PPP has the
source's nine retries, since what is at stake is the sum of three protocols'
retries; four ids are more than a packet's age distinguishes.

No run of TCP, of the network and of the parts of the OS checks for deadlock:
with the bounds used up, or every thread asleep for an event nobody owes, they
really stop.

### Fairness

* `NutKernel`: the kernel's own steps and the idle loop are taken (the CPU does
  not stop); timer interrupts come; an application thread that keeps running
  makes a call that gives up the CPU, however many others it makes (strong
  fairness of `GiveUp`, the contract of cooperative multitasking).  None is
  assumed of posts.
* `NutTcp`: `NutTcpSm()` runs its timers (it does at least every fourth time it
  is woken, whatever segments come), and an application that was woken runs.
  Nothing is assumed of the network.
* `NutArp`: the driver comes back, timeouts elapse, and threads run.
* `NutUsart` (`usart_xon`): the line transmits, interrupts are served, and
  threads run.  Nothing is assumed of the other end or of timeouts.
* `NutPpp`: `NutPppSm()` runs.  `NutPppLink`: the line delivers what it does not
  lose, the driver's thread runs, and the rounds of the two hosts alternate,
  since both sleep five seconds.

### What the runs show

Safety (`kernel_all`): the run queue stays sorted with the idle thread last;
event queues stay sorted, so the head is a thread of highest priority; a timer
handle belongs to its holder; no wait or sleep ends early; a timeout mark is
consumed by its own wait.  `KInv` has the rest: a thread is in exactly one
place, interrupt counts are at heads only, and the CPU is never on freed memory.
These parts are named (`OnePlace`, `PendingOnlyAtHead`, `StackAllocated`) and
proved, but not checked again by themselves; in the same way `CountIsDepth` of
the mutex, `SleepersCounted` of the semaphore and the type invariants of all
modules are definitions that no run lists.

Liveness (`kernel_live`): `EventsDelivered`, `TimedWaitReturns`, `RoundRobin`.

Timers (`timer_all`, `timer_live`): what list, counters and a pass in progress say
of a timer is always the time asked for less the ticks since; with one-shot
timers the list is that of `NutKernel`; the memory of a stopped timer is freed.

Synchronization (`os_all`, `msgq_all`): a mutex excludes and never is free while
all who want it sleep; the semaphore conserves its units; one consumer never
sleeps through the signal of a fulfilled condition.  Messages (one reader):
never asleep with messages in the ring, never called with none, received once
and in order, and no message names a timer that was freed.  Heap: every unit of
memory is in one node through splits, merges, expansions and reductions; free
nodes never touch.  Segmented buffer and serial rings: what is filled and
committed is read in order and once, whatever interrupts come between request
and commit, or between the read of a count and its update; no reader or writer is
left asleep.

Network (`net_all`): the parts of a network buffer live as long as somebody has
it or a clone of it, and no longer, whatever the order of releases; an address has
one ARP entry, an incomplete one a thread that asks for it, and no thread sleeps
on an entry that was freed or serves another address; every query returns.
PPP: IPCP is never working above a link that is down or not authenticated; both
layers stop asking a silent peer, whatever came before; two hosts connect
although a packet is lost.

TCP (`tcp_all`, `tcp_live`): the reader gets a prefix of what was sent, the
window and what waits are never more than the buffer (where `int` is wider than `uint16_t`), what is not acknowledged is kept and
its timer runs, and no application sleeps for what has happened; a closed socket
is destroyed and a connect returns, be the peer there or not.

Disagreements between documentation and code, each a run that ends in a
counterexample:

* `usart_xon`: a reader that waits has told the driver to "re-enable the remote
  transmitter by sending a XON character" (`dev/usart.c:238`).  When the data
  register is in use the transmit interrupt does it, and sends XOFF for
  `XON_PENDING` and XON for `XOFF_PENDING` (`arch/avr/dev/usartavr.c:258`).  The
  same swap is in the drivers `usartat91.c`, and those of AVR32 and GBA.
* `tcp_reader`: a reset discards the receive buffer and leaves its count; a
  reader that was woken for the data finds the count not zero and follows a null
  pointer (`net/tcpsm.c:1861`, `net/tcpsock.c:805`).

More of them are shown by configurations that are not part of the regular runs;
each ends in a counterexample within seconds, `MCPppLoss` in half a minute:

| Configuration | Module | Violates | Shows |
|---|---|---|---|
| `MCKernelBroadcast` | `MCNutKernel` | `BroadcastClears` | "the queue will be cleared in any case" (`os/event.c:476`): after a broadcast that woke a thread with pending events it is signaled |
| `MCTimerRestart` | `MCNutTimer` | `NeverEarly` | a timer started by a callback is charged the rest of the ticks of the pass in progress (`os/msg.c:231`) |
| `MCTimerOverflow` | `MCNutTimer` | `NeverEarly` | `ms * NutGetTickClock()` wraps around for long times |
| `MCMutexStray` | `NutMutex` | `UnlocksOwed` | the thread that held a mutex last may unlock it once more, is told 0, and the count goes to the largest `uint16_t` (`os/mutex.c:134`) |
| `MCConditionBroadcast` | `NutCondition` | `NoLostSignal` | the unlock in a wait may switch threads before the wait begins, and a broadcast is not remembered: a consumer and a producer that do as `os/condition.c` asks end with the consumer asleep beside an item |
| `MCConditionSignal` | `NutCondition` | `NoLostSignal` | two consumers between unlock and wait, two signals: one is lost |
| `MCMsgQReaders` | `MCNutMsgQ` | `MessageForEvent` | with two readers, one posts again for the messages left although the other was woken for them; a later call is given this event and reads an empty ring, against an assertion (`os/msg.c:354`) |
| `MCMsgQFlush` | `MCNutMsgQ` | `MessageForEvent` | a flush after the reader was woken and before it runs (`os/msg.c:387`) |
| `MCTcpFirst` | `MCNutTcp` | `StreamInOrder` | the segment that ends SYN_RECEIVED is taken without a look at its number (`net/tcpsm.c:1134`): the second segment of data may be the first to be read |
| `MCTcpAdvance` | `MCNutTcp` | `AdvCounted` | the count of segments in advance grows for a segment that is there already and is not given back when buffers are discarded (`net/tcpsm.c:1281`) |
| `MCTcpAcked` | `MCNutTcp` | `AckedReceived` | FIN_WAIT_1 and FIN_WAIT_2 take data and FIN without a look at their numbers and acknowledge what did not come (`net/tcpsm.c:1361`) |
| `MCUsartHasty` | `NutUsart` | `DisabledUnused` | "Disable further buffer usage" (`dev/usart.c:139`): the transmit interrupt does not look at the size and goes on taking characters |
| `MCPppLoss` | `MCNutNet` | `LinkConnects` | with two packets lost two hosts may never connect: PAP's repetitions take a new id each (`++dcb->dcb_reqid`, `net/papout.c:215`, against "Caller controls ID increment" in its history), so that the answers to LCP's request are stale |

With one constant or property changed, the configurations of the runs show more:

* `MCKernelLive` with `HeapMayFail = TRUE`: `TimedWaitReturns` fails.  A timed
  wait that gets no timer never times out (`os/event.c:309`).
* `MCKernelAll` with `HeapMayFail = TRUE` and `RunQueueSorted`: a `NutSleep()` that
  gets no timer links the thread in front of the run queue, "priority ordered",
  whatever its priority (`os/timer.c:647`).  `IdleLast` is what remains, and is
  proved.
* `MCMsgQFlush` with `Timer = {m1}`, `FlushWhen = "unread"` and `OneShotsReturn`: a
  flush drops the message of a one-shot timer, whose memory is given back only
  when the message is read.
* `MCOsAll` with `RegionIsAvailable`: the largest free size of a full heap is 0 less
  the overhead, which wraps around (`os/heap.c:483`).
* `MCTcpAll` with `NarrowInt = TRUE`: `WindowKept` fails.  The sender is to "wait for
  peer's window open wide enough to take all our data" (`net/tcpsock.c:722`), but in an
  `int` of 16 bits the comparison of line 727 is unsigned.  Once an acknowledgment has closed
  the window below what is outstanding, data is sent past it, which the receiver does
  not check: it buffers more than `so_rx_bsz`.
* `MCNetAll` with the last four properties of `NutPpp`, which do not hold: where
  only our own request was acknowledged a layer waits for ever for the peer's
  (`AckrcvdGivesUp`); the timeout of the authentication stops LCP whatever its
  state, so that a closed link can be opened by the peer (`StaysClosed`) and one
  whose driver went away ignores its return (`DownWithDriver`); and
  `NutNetIfConfig()` forgets the event of a network that is ready and sleeps for a
  minute (`ConfigTold`).

Found while reading:

* `NutMsgQBroadcast()` returns the positive number of full queues, where
  `os/msg.c:129` says "< 0".
* TCP: an accept that takes its segment from the backlog returns in
  SYN_RECEIVED; a SYN that is sent again ends its own entry of the backlog; a
  listener that falls back to LISTEN keeps its sequence numbers and its queue;
  `NutTcpReceive()` refuses in FIN_WAIT, where "receiving is still allowed"; there
  is no persist timer, so that the loss of the one segment that opens a window
  ends the transfer, and liveness of transfers is not claimed; segments that
  are sent again carry the old acknowledgment.
* USART: `UsartRead()` in cooked mode returns 0 for a lone LF after a CR; of two
  readers one may be left asleep beside data; a pending XON is sent by an
  interrupt that may be disabled.
* PPP: `LcpRxConfAck()` takes any acknowledgment once a request was answered;
  `IpcpRxTermAck()` leaves an open IPCP STARTING with a request sent; a device that
  is closed and opened while its driver is attached stays STARTING; `LcpRxConfReq()`
  refuses equal magic numbers for ever; several handlers do not free their buffer
  or free it twice.

## 4. Proofs

Each theorem holds for every value of the constants that meets the assumptions of
its module, for any number of steps, and under the hypotheses it names.  Where it
states a property that a run checks, the two say the same thing of the
small instance and of all of them.

**Kernel.**  `NutKernelProofs` proves, for any sets of threads, queues and timers, any
priorities and delays and any bounds, with or without allocation failures:

* `KernelInvariant`: `Spec => []KInv`, the inductive invariant;
* `TypeCorrect`, `ThreadsInOnePlace`, `PendingStaysAtHead`, `TimerHandlesOwned`,
  `NoVerdictGoesStale`, `StackStaysAllocated`: what follows from it;
* `TimeoutsNotEarly`: no wait times out and no sleep ends before its ticks were
  counted;
* `EventQueuesStaySorted`: event queues are in the order of priorities, and the
  idle thread ends the run queue; `QueuesStaySorted`: the run queue is in order too,
  if no sleep lacks the memory for its timer (`HeapMayFail = FALSE`; it is not
  otherwise, see section 3);
* `ImplementsEvents`: the kernel implements `NutEvents`.

The assumptions are those of `NutKernel`: handles of different kinds differ,
priorities are below the idle thread's, delays are positive.

The properties are not inductive.  `OnePlace` says where a thread is, but a step of
`NutEventPostAsync()` acts on a root it read before, so the invariant must
relate `pc`, `root` and the queues (`Control`: a root read as 0 still is 0 or
SIGNALED; a thread read at the root still is there, since interrupts never
change the thread at a root).  Unlinking by `td_queue` is right only if
`td_queue` names the list (`Linked`), and events are posted to the right queue
only if counts are at heads (`PendingOnlyAtHead`).  That a timer which fires finds its
thread in the queue, and that nobody stops a freed timer, needs the pairing of
timers and threads in both directions, and that a thread in the run queue holds
no timer (`Timed`).

Deadlines need one more invariant, `DueInv`: what a thread is owed is at most what
its timer has left, less the ticks of the interrupt that no `NutThreadResume()` has
taken yet (`pend`) and those of the pass in progress (`ticks_new`); threads that
are ready are owed nothing.  Order needs `SortInv`: the queues' order
itself, and that the idle thread's priority is the lowest there is, since every
insertion goes in front of the first thread of lower priority, and only a thread
lower than all others keeps its place at the end.  An event queue
stays in order because a thread's priority changes only while it is ready, and
`NutSleep()` without memory spoils the run queue only, and only its front.

In the refinement the threads waiting in a queue are those of its list, and its
events are those counted at the head, or the one of `SIGNALED`, and the one that a
pass of `NutThreadResume()` has taken from a counter and not yet posted
(`InFlight`).  With this each step is one of `NutEvents` or a stutter: that a post
wakes a thread of highest priority is `SortInv`, that no count is lost when a
thread leaves is `PendingOnlyAtHead`, that a root read before an interrupt is
still good is `Control`.

The proof has a lemma per action and, under it, one step for each part of
the invariant the action can disturb.  `NutListProofs` has the facts about insertion
and unlinking (elements, length, no duplicates) on which they rest.  Several
parts are named operators of their own in the lemmas so that the solvers see them only where
they are needed.

**Timers.**  `NutTimerProofs` proves `DueKept` (`DueIsKept`), that no callback runs
early (`CallbacksNotEarly`), the refinement of `NutTimers` (`ImplementsTimers`) and
that the delta list, used with one-shots, is the list by ticks left that
`NutKernel` has (`ViewOfTheKernel`).  The hypotheses are two: times in
ticks, multiplied first as `NutTimerMillisToTicks()` does and with the ticks of
a late pass added, fit in a word (`TimesFit`; `MCTimerOverflow` shows what happens
otherwise), and no callback starts a timer (`NoRestarts`; `MCTimerRestart`).
`DueKept` speaks of sums of deltas, so the first part of the module is about
these: what `NutTimerInsert()`, `NutTimerStop()` and the countdown do to the
sum up to each timer.  The invariant `TimerInv` adds that every sum is less than a
word: the deltas are words because their sums are, and no subtraction in the
code wraps around.  A stopped or free timer must have no period, or the pass that
meets it would put it back.

**Mutex, condition, semaphore.**  `NutSyncProofs` proves `MutualExclusion`,
`CountIsDepth` and `NoLostWakeup` of the mutex for any set of threads and any depth
below the width of the count, under the hypothesis that unlocks are owed
(`StrayUnlock = FALSE`; `MCMutexStray` shows what happens otherwise).  Exclusion is
not inductive: that a free mutex is held by nobody is `CountIsDepth`, which makes
`held` follow from `thread` and `count`.  `NoLostWakeup` needs `LockersWait`
besides: a sleeping thread is in `NutMutexLock()`, so that the one an unlock wakes
will look at the count again, and the owner is not.

These facts are stated as `LockInv`, of a mutex whose threads may do other things
between their calls, so that they serve for the condition too: `ConditionExcludes`
is `MutualExclusion` with any number of consumers and producers, with signals or
broadcasts.  `SignalsAreNotLost` (`NoLostSignal`) is for one consumer and signals;
`MCConditionSignal` and `MCConditionBroadcast` show that both are needed.  It needs
`NothingMissed`: a consumer between unlock and wait has an event remembered, if
there is an item.

`SleepersCounted` and `UnitsConserved` of the semaphore hold for any finite set of
threads, any initial value and number of posts.  Each needs the other
facts of `SemIInv`: that every post at a value up to zero finds a sleeper
(`SleepersCounted`) keeps the queue unsignaled, and that sleepers are inside
`NutSemWait()` makes a woken one count as a unit on its way.  The cardinalities
change by one thread at a time, by the theorems of the library on finite sets.

**Message queues.**  `NutMsgQProofs` proves `EventForMessages` for any queues,
readers and flushes: a queue with messages is signaled with nobody waiting, or some
reader was called.  The rest is for one reader, when queues are not flushed during
its calls (hypotheses of the theorems, as two configurations of section 3 show
they are needed).  `MessageForEvent` is not inductive: that the reader
was called says that the ring is not empty (`CoveredInv`), but so must the
memory of an event, since the next call will be given it, and when both are
there two messages must be.  `TimerMessagesOwned` and `OneShotsReturn` need to know
where messages of timers are (`PostsInv`): only in the queue whose list has
the timer, a one-shot's once and not while its timer runs; the second property
also needs that nothing with a one-shot's message is flushed (`FlushWhen = "careful"`).
`ImplementsChannels` is the refinement of `NutChannels`, with the ring's contents for
the channel's sequence.

**Heap and segmented buffer.**  `NutMemoryProofs` proves `MemoryPartitioned` and
`FreeMerged` for any regions, sizes and header sizes, as long as the regions do
not overlap and end within the address space.  The invariant `HeapInv` says that the free nodes are in
order with gaps between them, that no address is in two nodes, free or
allocated, and that every address of a region that was added is in one.  A
lemma says what the list's three changes do to the area it covers: a node taken
out, a node cut, a node put in and merged with its neighbours; each operation
is made of these.

`QueueKept` of the segmented buffer holds for any number of banks of any size, with
the interrupt between any two steps of the thread.  `SegInv` has the two positions
as offsets in all the banks together: they differ by what is used, wrapped
around, what is requested lies in one bank and within what is free or used,
and the contents are the numbers written, in order.

**USART.**  `NutMemoryProofs` also proves `SleepersTold` and `RingsKept` for any sizes, marks
and modes, when output is not closed or discarded with characters left (`~Hasty`).
The invariant of the sleepers has two parts, of the reader and of the writer (`RxInv`,
`TxInv`): at each place in a call, what is known of the count, of the remembered
event and of the interrupt's being enabled; an interrupt that changes a
count in between leaves an event, and it is this that the sleep will find.  For the
rings (`RxRing`, `TxRing`) the head is the tail and the count, wrapped around, the
contents are consecutive characters, and a buffer being reset is disabled
until its three fields are.

**ARP, PPP, network buffers.**  `NutNetProofs` proves `EntriesAlive` and
`IncompleteOwned` for any finite sets of threads, addresses and entries and all
limits.  What is not in the table may be anything by the time a thread looks, so
the invariant `ArpInv` follows a query through the table: the entry it made is
there, incomplete or completed, until the query ends; and it cannot be
outdated before, since a query in progress has seen at most one minute pass, and
aging needs more.

It proves `LayersInOrder` for any number of retries and ids and any packets.  The
invariant `Ordered` is that IPCP is down or the link is open and authenticated, of a
device in its range of values.  Each function gets a lemma of what it keeps of a
device; a packet, a round or a request is made of these.  While LCP moves IPCP is
down (`LowDevice`), and what IPCP does leaves LCP and the authentication as they
are (`Above`), so that no handler needs to look at both.

And it proves `BuffersKept` for any finite set of structures and any blocks, parts and
limit of references.  The invariant `BufInv` says that a structure counts
the clones that refer to it and the holder it has; that the parts a clone shares
are those of the buffer it refers to; that a block belongs to one part of one
structure; and that references do not go round, so that releasing a clone, which
releases what it refers to, comes to an end.

**TCP.**  `NutTcpProofs` proves `Retransmittable` (`UnackedIsKept`), `NobodyForgotten`
(`NobodyIsForgotten`) and the types (`TcpTyped`) for any windows, limits, retries and
data, with output that fails or not and timeouts or none.  The assumption
(`SeqAssumption`) is the protocol's own: the numbers that a host uses up, for SYN,
data and FIN, are less than half of the sequence space, so that `SeqIsAfter` orders
those in use.  The inductive invariant `TcpInv` says the same of each host and
nothing of the other: the network may hold any segments of the peer's form, so these
theorems do not depend on what the peer does.

Its core is `Line`.  With a number's distance from the initial one as its position
(`Pos`), the transmission queue has one segment for each number of the last ones before
`tx_nxt`, in order, and the numbers of data among them are those the application has
sent from `tx_una` on.  `Retransmittable` alone is not inductive: an
acknowledgment takes off a front part of the queue, up to the first segment that ends
after it, and that these are the acknowledged ones follows from the queue being in
order and without gaps.  `Limit` bounds how many numbers each state has used; it is what
keeps positions below half the space, and needs to know that the states before
ESTABLISHED have no data (`Open`) and that the change from SYN_RECEIVED to CLOSE_WAIT sends
a FIN of its own.  `Unfinished` says that a state that waits for the acknowledgment of its
FIN has not got it.  For the sleepers, `Told` relates the queue a thread sleeps on to
the state and to what has been received, and `Call` the call it is in; `Counted` (the
bytes for the reader and those in advance are at least what the two lists hold) keeps the
window and the counts from going below zero.

The steps of the proof follow the code's layers: what `NutTcpOutput()`,
`NutTcpProcessAck()` and the walks over the queues do to a socket, then
`NutTcpStateChange()`, then each state's handler, then the timers and the calls of
applications.

What relates the two hosts is in `StreamInv`, proved of `TcpInv /\ StreamInv` together
(`StreamInvariant`).  For each host it says what the host tells the other (`Speaks`) and what it
has heard (`Hears`).  Two numbers of a host sum up all that the other depends on: `Bound`,
where the numbers it has used end, and `Edge`, up to where it has let its peer send;
neither ever goes back.  Every segment of a host, on the network however long, or
kept to be sent again, is `Fine`: its data is data the host has sent, and its window ends
no further than the edge.  Numbers of data rise and lie before the peer's edge (`Rising`,
`Speaks`), so that all that arrives on an established connection is in the window, or
old.  What has been read is a front part of what the peer has sent (`Begins`), the buffer
has what comes next (`InOrd`), `rx_nxt` lies between what has come and what has not
(`Cut`), and the segments in advance carry data of the peer (`Stored`); what waits and
the window are together within the buffer.  Once the connection ends the edge is `Top`:
nothing depends on the window any more.  The edge is `Top` throughout where the `int` is as
narrow as `uint16_t` (`NarrowInt`), since the sender does not keep to a window there; what
is read in order does not depend on it.

The sender's test, `MaySend`, is the code's, with the unsigned difference; `HasRoom` says
what it is for, that the window has room for one more unit.  They are the same where `int` is
wider (`RoomFacts`), and `HasRoom` implies `MaySend` for both widths, which is why no writer
is forgotten in either.

A step of one host changes both halves: what it says, and what its peer has to take for
said.  `Stride` is the contract of a step that keeps both halves (the edge and the bound do
not go back, new segments are fine, new data fits the peer's edge, what was heard is
a front part still), so that each action is looked at from its own host only.  The
handlers get it by `Turn`, the same of the state machine's layers: acknowledgments (`Acks`),
data (`Heard`), the peer's FIN, the end of the connection (`Ends`).

From it follow `WindowKept` (`WindowIsKept`), for any data of both applications, with the
hypothesis `NarrowInt = FALSE`, which the code needs (section 3); and, for an `int` of either
width, that the
client reads what the server sent, in order, nothing missing and nothing twice
(`ClientInOrder`), whatever the client sends.  `StreamInOrder` of both hosts (`StreamIsInOrder`) has the
hypothesis `Data[Client] = 0`, which the code needs: `NutTcpStateSynReceived()` takes data
without a look at its number, and `MCTcpFirst` shows that a client's stream may then
begin wrong at the server.

**Model-checked only:** liveness, of all components.  It rests on fairness, which is out of
the prover's reach.  Every invariant and every action property of the passing runs has
a theorem, most for all values of the constants; where one has a hypothesis (one reader of a
message queue, no stray unlock, a client that sends nothing, an `int` wider than `uint16_t`, ...) a configuration of
section 3 shows what may happen without it; of several readers of a queue `EventForMessages`
alone is proved.  What recursive functions compute for every input is proved only
where an induction could be avoided: by a smallest counterexample, taken from a finite
set of positions, instead.

## 5. Not modelled, and the plan

The repository is the whole operating system with its drivers for a dozen chips,
three file systems, a C library, Lua, codecs, boot loaders and two configuration
tools; the concurrent core is a small part of its lines.  Components marked
`not_modelled` in `PROJECT.json` are pure data movement to hardware, sequential
library code and third-party sources, where a model would restate the program,
or are next in the plan:

1. `NutUdp`: the receive queue of a socket and its limit; `NutDhcp`: the client's
   states, retries and lease; `NutRelay`: the control thread of the relay boards
   and its hold times.
2. In modelled components: TCP's stream device, several sockets on a port and
   lack of memory; PPP's options and counts of refusals; cooked mode and
   hardware handshake of the USART.
3. Proofs: what message queues with several readers keep besides `EventForMessages`; the end
   of a TCP connection: whether what was sent before a FIN is read before the end is told.
