# A TLA+ model of Atomthreads

This directory specifies and checks Atomthreads: its kernel (`../src/kernel`), a
small real-time kernel for one CPU with a priority scheduler, timers, semaphores,
mutexes and message queues; its Cortex-M port, where interrupts nest and context
switches are deferred; and the serial port and console of the board
nucleo-l031k6, with the ring buffer under them.

## 1. The system

### Components and how they interact

| component | source | state | operations |
|---|---|---|---|
| TCB lists | `kernel/atomkernel.c:775-1051` | `next_tcb`, `prev_tcb` in every TCB, one head pointer per list | enqueue by priority; dequeue head, entry, or head of at least a priority |
| scheduler | `kernel/atomkernel.c` | `tcbReadyQ`, `curr_tcb`, `atomOSStarted`, `atomIntCnt`; per TCB `suspended`, `terminated`, `suspend_wake_status`, `suspend_timo_cb` | init, start, thread create, thread end (`thread_shell` of the ports), `atomSched`, interrupt enter and exit |
| timers | `kernel/atomtimer.c` | `timer_queue`, `cb_ticks` per timer, `system_ticks`; in the tick handler its place in the walk and a list of callbacks | register, cancel, delay, tick, set time |
| semaphores | `kernel/atomsem.c` | `count`, `suspQ` | create, delete, get, put, reset, timeout callback |
| mutexes | `kernel/atommutex.c` | `count`, `owner`, `suspQ` | create, delete, get, put, timeout callback |
| message queues | `kernel/atomqueue.c` | buffer, two indexes, `num_msgs_stored`, `getSuspQ`, `putSuspQ` | create, delete, get, put, timeout callback |
| events | `extra/event.c` | one message queue | init, set, wait, clear |
| ring buffer | `lib/buffer/ringbuffer.c` | `to`, `from`, the memory | create, put, get, tests and counts |
| serial driver | `drv/sio/sio.c`, `ports/cortex-m/boards/nucleo-l031k6/l031k6_usart.c` | one ring for each direction, the interrupt enables, the data registers | read, write, ioctl, Send, the interrupt handler |
| driver table | `drv/iosdrv/iosdrv.c` | list of drivers | install, open, close, read, write, ioctl |
| console | `com/console/console.c` | command list, line buffer and index | register, read a line, run it |
| pins, ADC, debug commands, syslog, kassert, number conversion | `drv`, `com`, `lib/numberical` | none beyond hardware registers | register access, formatting |
| Cortex-M port | `ports/cortex-m/atomport.c`, `atomport-asm.S` | `ctx_switch_info`, PendSV, the stacks of the threads | first restore, request of a switch, PendSV handler, tick interrupt |
| Windows port | `ports/win32/atomthreads` | threads and mutexes of Windows | stubs of the kernel's calls |
| other ports | `ports/*` | context save areas | first restore, context switch, `thread_shell`, the tick interrupt |

All kernel components share memory. A thread is on at most one TCB list because
the links are in the TCB; the ready queue, and the suspend queue of every
semaphore, mutex and message queue are such lists. A blocking call with a timeout
puts an `ATOM_TIMER` that lives on the caller's stack on the timer list; the
tick handler makes its callback, which takes the thread off the suspend queue.
Shared state is protected by disabling interrupts (`CRITICAL_START`,
`CRITICAL_END`). A call that wakes a thread leaves its critical section before
it calls `atomSched`; an interrupt handler does not call it, `atomIntExit` does.

The console is a thread that polls the serial port; it and every other thread that
prints write to the same port. The port's two rings are shared with its interrupt
handler, and protected by disabling interrupts as well.

### What is hard

* An interrupt may come at every point outside a critical section. Most
  interesting: after a thread has queued itself as suspended and before it has
  called `atomSched`. Then the thread is still current, may be woken, and
  `atomIntExit` reschedules in its place.
* A wake-up, a timeout and a deletion race for the same waiting thread; one must
  win whole. The timer of the loser must not outlive the stack frame it is in.
* `atomSemDelete` and its siblings wake the waiting threads in one critical
  section each.
* The tick removes timers from the list it is walking, and callbacks of the
  application use the kernel between two other callbacks.
* Threads end, and their TCBs are used again.
* On Cortex-M a handler may be interrupted by another one, between the two halves
  of its `atomIntExit` too, and `curr_tcb` runs ahead of the registers until PendSV.
* A write to the serial port puts its bytes and requests their transmission in two
  steps; the interrupt handler, or the Send of another thread, comes in between.
* FIFO order among equal priorities, priority order otherwise, time slices on
  ticks only.
* Counters have limits: 255 for counts and priorities, 2^32 for the time.

`PROJECT.json` lists each hazard at its line with the properties that cover it.

### What makes each component correct

* TCB lists: the link operations are the operations on ordered sequences.
* Scheduler: each live thread is in exactly one place; there is always a thread
  to run; no thread runs its own code while one of higher priority is ready;
  time slices on ticks only, FIFO otherwise, and each ready thread gets its turn.
* Timers: a delayed thread is woken once, by its timer, on the right tick; no
  list holds a timer whose stack frame is gone.
* Semaphores: tokens are neither lost nor made; the waiting thread of the
  highest priority that has waited longest gets the token; each wait has one
  outcome, and a wait with a timeout ends.
* Mutexes: one owner; hand-over to the first in line; the count is that of the
  owner's calls; an owner only puts.
* Message queues: FIFO, no message lost or read twice, the indexes agree with
  the number of messages, a waiter on at most one of the two queues.
* Events: those of one message queue.
* Cortex-M port: each thread goes on with its own registers, `curr_tcb` is the
  thread that executes whenever one does, a thread that is chosen gets the CPU.
* Ring buffer: bytes come out in the order they went in, none is lost or repeated
  where an index wraps or the ring is full.
* Serial port: two streams of bytes; no byte stays in the ring with nobody to send it.
* Console: a command runs with the parameters that were typed.

## 2. Modules

| module | models | extends or uses |
|---|---|---|
| `TcbQueue` | the TCB list functions as operators on sequences | |
| `TcbLists`, `TcbLinks` | the lists as one state machine on sequences, and as links in memory, which implements it | `TcbQueue` |
| `AtomKernel` | the scheduler | `TcbQueue` |
| `AtomTimer` | timers and delays | `AtomKernel` |
| `AtomTimerOnTime` | `AtomTimer` with a history of deadlines | `AtomTimer` |
| `TimerLinks` | the two timer lists as links in memory, as operators | |
| `AtomTimerLinks` | `AtomTimerOnTime` with these links kept in step, which `timer` runs | `AtomTimerOnTime`; an instance of `TimerLinks` |
| `TimerNested` | the timer lists when a handler interrupts the walk of the tick | `TimerLinks` |
| `AtomSuspend` | what blocking calls do alike: suspend, wake, cancel a timeout, time out | `AtomTimer` |
| `AtomSem` | semaphores | `AtomSuspend` |
| `AtomMutex` | mutexes | `AtomSuspend` |
| `AtomQueue` | one message queue, and with it the events | `AtomSuspend`; an instance of `MessageQueue` |
| `WaitQueue` | what it promises to wait on an object: the order, and one outcome | |
| `Semaphore`, `Mutex` | what a semaphore, and a mutex, promises | `WaitQueue` |
| `MessageQueue` | a FIFO of bounded length | |
| `AtomSemRefinement`, `AtomMutexRefinement` | the mappings under which `AtomSem` and `AtomMutex` implement them | `AtomSem`, `AtomMutex` |
| `CortexSwitch` | the Cortex-M port: nested handlers, PendSV, the contexts | `AtomKernel` |
| `RingBuffer` | the ring buffer, as operators on rings | |
| `Sio` | the serial driver, its interrupt handler and the data registers | `RingBuffer` |
| `Console` | the console and another writer | `Sio`; an instance of `ByteStreams` |
| `ByteStreams` | what a serial port promises: two streams of bytes | |
| `AtomKernelProofs`, `AtomSuspendProofs`, `CortexSwitchProofs` | lemmas and theorems about the lists and the scheduler, the timers and blocking calls, the deferred switch | the module they are about; the last two extend `AtomKernelProofs` as well |
| `LinksProofs` | theorems about the lists of TCBs and of timers in memory, and the deadlines of timers | `TcbLinks`, `AtomTimerLinks`, `AtomSuspendProofs` |
| `SerialProofs` | lemmas and theorems about the ring buffer, the serial port and the console | `Console` |
| `AtomSemProofs`, `AtomMutexProofs`, `AtomQueueProofs` | theorems about semaphores, mutexes, message queues | the module they are about and `AtomSuspendProofs` |
| `MC...` | instances for TLC | |

### State and actions

A thread's position is `pc[t]`: in the application (`"app"`), about to call
`atomSched` at the end of a kernel call (`"resched"`, `"exit"`, `"delay"`,
`"get"`), just back from it (`"delayed"`, `"got"`), or between two critical
sections of a deletion (`"semdel"`, `"mutdel"`, `"quedel"`). A critical section is one
action, and so is a call of `atomSched`, which is one critical section. Between
two of them an interrupt may come. A thread acts only while it is current and no
interrupt is served (`atomCurrentContext`), so preemption is a change of `curr`
and nothing else: a thread that is switched out in the middle of a call goes on
from its label. `atomIntExit` calls `atomSched` whatever the label of the
interrupted thread is.

`atomCurrentContext` is `Null` in an interrupt handler and in `main()` before
`atomOSStart`; calls from there are made by the context `Null`.

The tick handler is a sequence of steps: `atomTimerTick` counts the tick, one
`TimerWalk` per timer on the list, one step per callback, then `TimerTickExit`.
While an application timer's callback is at the head of the callback list,
`Null` may call the kernel (`InAppCallback`).

The stack timer of a blocking call is named by the thread, as it has at most one;
`cbFunc` says whose callback it is. When the call returns, its frame is gone and
`DropStackTimer` resets the two variables, so that equal states are equal. A
timer that was still listed then would be found by `TimerListsSound` or
`TimeoutsSound`.

`AtomMutex` keeps in `getting[t]` the mutex a blocked `atomMutexGet` is on, and
`AtomQueue` in `sending[t]` the message of a blocked `atomQueuePut`: both are
local to the call, and used after `atomSched` has returned. The increment of
`count` by a new owner is outside the critical section and three machine steps
on most targets; it is one action because `OwnerOnly` shows that nobody else
writes the count from the hand-over on.

In `AtomQueue` the variable `use` is one of the application's ways to use the queue,
chosen at the start: the contexts that get and put, and the threads that are
patient, that is, call with a timeout of 0 or more; the others never wait. Messages are model values and an index counts messages instead of bytes.

`Mutex` grants the lock at the hand-over. `AtomMutexRefinement` therefore maps
the abstract depth to `count + 1` while the new owner has not counted its lock,
and the late increment to a step that changes nothing. The messages of
`MessageQueue` are those of the ring from `removeIndex` on.

What the kernel leaves to the application is in the guards: a TCB is created
again only after its thread has ended, a timer is not registered while it is on
the list, a semaphore on which threads wait, or a mutex or queue inside whose
calls threads are, is not created again, the idle thread calls nothing. Priorities are fixed at creation, as in the code.

Left out of these modules: parameter checks that fail without a change of state
(`ATOM_ERR_PARAM`, `ATOM_ERR_CONTEXT`, `ATOM_WOULDBLOCK`, `ATOM_ERR_OVF`: they
are stutters), errors of `tcbEnqueuePriority` and `atomTimerRegister` (they are
returned for NULL pointers and zero ticks only, which the callers do not pass),
stack filling and checking. `thread_shell` is modelled as the ports have it that
set `terminated` (AVR, ARM, MIPS, STM8); in the Cortex-M port an entry point must
not return.

**The timer lists in memory.** `AtomTimerLinks` conjoins to each step of `AtomTimer`
what it does to `timer_queue`, `next_timer`, `next_timer_call` and to the walk's
`prev_ptr` and `next_ptr`. `LinksAsListed` is the mapping from the links to the
sequences; as both follow their own rules, it would break if one of them did not
do what the other does.

**Nested interrupts.** `CortexSwitch` takes over the scheduler of `AtomKernel` and
replaces its interrupts: `handlers` is the stack of active handlers, a handler is
`leaving` between the decrement of `atomIntCnt` and its call of `atomSched`, and a
source of higher `Urgency` comes in at every point, the critical sections apart.
`curr` is `curr_tcb`, which `atomSched` sets at once; `archContextSwitch` only writes
`next_tcb` and makes PendSV pending. PendSV has the lowest urgency of all: it is
taken when no handler is active and before the thread goes on. `regs` says
whose registers the CPU holds, and `saved[t]` whose context the stack of `t` leads to,
so a context that is saved to, or restored from, the wrong stack is seen. Threads
block and wake each other on one object, as on a semaphore without timeouts.
In `AtomKernel` and the modules on top of it one handler runs at a time, as in
the other ports, and a switch happens where `atomSched` makes it: `ContextsSound`
says that a thread on Cortex-M cannot tell the difference.

**The serial port.** `Sio` has a step for each critical section of the driver, one
for each byte that the blocking Send waits for, and two for the
hardware: a byte arrives in the receive register, or leaves the transmit register.
`mode[t]` says whether a thread is between its `ringPut` and its `Send`, or in the
blocking `Send`, in whose critical section nobody else runs. `USE_SEND_BLOCKING` is the
variable `blocking`, which never changes, so one run covers both builds. The board
has the blocking one, with the transmit interrupt never enabled; but the handler
looks at the transmit register whenever it is called for a received byte, and then
takes a byte from the same ring.

**The console.** A text that is printed counts as one character, and a line as the
characters it is made of; `outbox` is what the console has still to print before it
goes on. The reset of the line buffer is moved to the call of the command, as nobody
reads the line in between. `typed` is a history variable: what the handler has put
in the ring and no command has consumed. A read from an empty ring leaves
the caller's character as it was, which is any character; the run shows that it
does not happen. The delay between two polls is left out: it lets the same things
happen later.

Operators whose names have the form `Definition_Fault` are faulty variants of the
definition that follows them. They are not part of any specification; the runs
use them to show that each property notices such a fault.

## 3. Runs

| run | instance | shows |
|---|---|---|
| `tcb_links` | 4 threads, 2 of equal priority, 2 lists | `TcbLinks` implements `TcbLists`; links stay sound |
| `kernel` | 4 threads (priorities 0, 2, 2, 255) and idle, all may end, one interrupt | the scheduler's safety; time slices reach every thread |
| `timer` | 2 threads and idle, which may end, an interrupt, one application timer, delays of 1 and 2 ticks, time modulo 3 and set to 0 | delays, callbacks, lists and their links, deadlines |
| `sem` | 2 threads and idle, one may end, an interrupt, a semaphore of limit 2 that is put, got, reset and deleted | all safety of semaphores, the refinement, and that every timed wait and delay ends |
| `mutex` | 2 threads and idle, one may end, an interrupt, 2 mutexes, up to 2 locks | all safety of mutexes, and the refinement |
| `queue` | 2 threads and an interrupt that posts or deletes; 2 slots, 2 messages; one thread gets and one puts, both wait, or one waits for what all post | FIFO, indexes, wake-ups |
| `cortex` | 2 threads and idle, one of them at idle's priority; the tick and two sources that preempt it, one of which preempts the other | the deferred context switch, with nested interrupts |
| `console` | the console and another writer; rings of 2 and 3 bytes, which hold 1 and 2; lines of 2 characters; both builds of the driver | lines reach commands as typed, nothing stays unsent, the port carries two streams |
| `sem_callback`, `mutex_handler`, `queue_two_getters`, `timer_nested` | | disagreements of code and documentation, section 5 |

**Bounds.** `Threads`, `Prio`, `AppTimers`, `Sems`, `LinkedTimers` are the
instance; `Irqs` is empty or not (except in `cortex` one handler at a time is
served, so one source is all sources); `Urgency` says which source of `cortex`
preempts which; `Mortal` are the threads that may end; `Ticks` are the tick
counts in use; `TickMod` is the modulus of `system_ticks`, which only `timer`
needs to be larger than 1 because nothing else reads the time; `NewTimes` are
the values it is set to; `MaxCount` stands for 255; `InitCounts` and
`ResetCounts` are the counts used; `CallbacksWake` and `CallbacksDelete` let
callbacks of the application put and delete; `HandlersPut` lets interrupt
handlers unlock mutexes; `MaxMsgs` is the length of a queue, and `NumMod` the
modulus of its number of messages, which must leave room above `MaxMsgs`.
`RxSize`, `TxSize` and `TmpSize` are the buffers of the serial driver, `Builds`
the values of its build option, `MaxLine` the characters of a line that is typed,
`AppMessages` what the other writer prints and `Commands` the names of commands.

Why they are enough: a race has at most three parties (the waiting thread, the
one that wakes it, and the tick or another waiter), and the instances have them.
Two threads of equal priority and one higher exercise both rules of the
scheduler, priority 0 and 255 its special cases. Two ticks let a second timer
expire later than a first, a limit of 2 makes the count reach both ends with a
step between them. No counter other than these grows, so the runs are exhaustive
without further constraints.

Semaphores share nothing but the timer list, on which the timeouts of two threads
that wait for one semaphore meet already. Two mutexes let a thread wait for one
while it holds the other; two locks are the least that makes a lock recursive, and
reach the limit. Two slots make the indexes of a queue wrap at different times.
`Uses` are the ways in which the application may use the queue, of which a
behaviour has one; section 5 says why two threads do not both get from, or put to,
a queue on which one of them waits.

In `timer` the stack timers of two threads and the application's timer meet on the
list: that is enough for a removal at the head, in the middle and twice in a row.

In `cortex` three levels of handlers let one run between the two halves of the
`atomIntExit` of another, which itself preempted the tick. In `console` the message
of the other writer fills the ring by itself, so writes are cut off and split at the
end of the storage, and a blocking send takes several rounds.

**Fairness.** `atomTimerTick` is strongly fair: the hardware keeps the tick
pending until interrupts are enabled and no other handler runs, and critical
sections are finite. The steps of handlers are weakly fair where nothing
interrupts a handler; the return of an application callback or handler is
strongly fair, as it may call the kernel before it returns but is finite. In
`CortexSwitch` the steps with which a handler leaves are strongly fair instead,
because a handler of a higher urgency may come between, and so are the tick and
PendSV: the sources of higher urgency leave them some of the CPU. Nothing is
assumed of threads: they may loop in their own code for ever, also at the
highest priority. So `RoundRobin`, `TimedWaitEnds` and `HighestGetsCpu` hold by
interrupts alone; the first two promise readiness, not the CPU, where higher
priorities are involved. `TimedWaitEnds` is about delays as well as waits.

The serial port assumes that the hardware shifts out a byte it was given, that an
interrupt which is pending and not masked is taken, and that a thread which masks
interrupts goes on with its critical section. Nothing is assumed of the console, the
other writer or who types.

## 4. Proofs

`AtomKernelProofs` begins with what the list operators return and keep (elements,
absence of duplicates, priority order) for all sequences, for which it opens the
definitions of `InsertAt`, `RemoveAt` and `RemoveFirst`. Then it proves for all threads, priorities, interrupt sources and
mortal threads, from the assumptions `ThreadsAssumption`, `PrioAssumption`,
`IdleAssumption` and `MortalAssumption`:

* `KernelTypeCorrect`, `KernelPlacementHolds`, `CurrNeverNullHolds`,
  `ReadyQueueOrderedHolds`: invariants that the run `kernel` checks;
* `HighestPriorityRunsHolds`: no ready thread of higher priority than the one in
  its own code;
* `TimeSliceOnlyOnTickHolds`, `ReadyFifoHolds`: the action properties.

The inductive invariant is `KernelInv`. Placement alone is not inductive: that a
suspended thread can be switched away from needs the idle thread to be ready or
running, which needs that it never suspends or ends; that the thread a switch
leaves behind is accounted for needs that a queued thread is not terminated; that
a creation may use a TCB needs what its label says. `SchedInv` adds these to the
placement, `ContextInv` adds what holds of labels, interrupts and the start of
the OS. Both take the set of parked threads (those waiting on a primitive) as a
parameter, so the lemmas about `atomSched`, creation, interrupt entry and exit
hold for every primitive that is built on the scheduler; for the scheduler alone
the set is empty.

`HighestPriorityRuns` is proved by a step lemma from `KernelInv`: the head of an
ordered ready queue bounds the rest of it, `atomSched` compares with the head,
and each action that makes a thread ready without a call of `atomSched` leaves the
current thread at a label other than `"app"`, or is made while an interrupt is
served.

`ReadyFifo` is proved operation by operation: `tcbEnqueuePriority` puts a thread behind
its equals and moves up only threads of lower priority (`EnqueuePlace`), the head that
is taken off is ahead of nobody who stays, and the thread that is put on was not on the
queue, which is the placement. So no pair of equals that was queued before changes places.

`CortexSwitchProofs` proves `NestedPlacementHolds`, `ContextsSoundHolds` and
`HighestPriorityOnCpuHolds`, three properties of the run `cortex`, for all threads,
priorities, interrupt sources and urgencies, so for any depth of nesting. Its invariant
`CortexInv` is `KernelInv` with the threads on the object's list parked; what the list
and the handlers are; `RegsInv`, which adds to `ContextsSound` that `running_tcb` is a
live thread (otherwise PendSV could store registers for a thread that a creation has
given a new stack) and that nobody terminates; and `HighestIsCurrent`, the property of
priority for `curr_tcb` whether PendSV has been taken or not, since the step that
establishes it, the exit of the last handler, comes before PendSV. `ContextInv` asks of
a suspended thread only that it is inside a call as long as it is the current one: here
a thread that waits returns to its code when it is switched to.

`SerialProofs` proves of the operations of the ring buffer, for every size of
the storage, every position of its two indexes and every length of what is put or
got:

* `RingCountsAgree`: what the ring says it holds is what it holds, and together
  with what it has room for it is one less than the storage;
* `RingPutAppends`: a put appends as much of its argument as there is room for;
* `RingGetTakes`: a get takes from the front as much as there is.

`ringPut` and `ringGet` split a copy in two at the end of the storage; the proofs
compute the content of a cell after a put (`Written`), the bytes a get copies
(`Taken`) and those it leaves (`Kept`) by cases of the split, and compare them with
the content of the ring cell by cell. The console's run checks the same operators
with the driver's three contexts working on them.

It then proves `StreamsImplemented`, the property `ImplementsStreams` of the
run `console`, from `ConsoleAssumption` and the assumptions of `Sio`: for every size of
the two rings and of the console's temporary buffer, both builds of `Send` and all
messages of the other writer, the console with the driver below it implements
`ByteStreams`. Its invariant `PortInv` has the types, that the rings hold only bytes
that were put into them, and that a blocking `Send` holds bytes that are neither in the
ring nor on the line only inside its critical section. There is a lemma for each kind
of step: a write and a read append to one end of a stream and take from the other by
`RingPutAppends` and `RingGetTakes`; the steps of `Send` and of the handler move bytes
within a stream; the remaining steps leave both streams alone. The proof is of safety:
that the bytes get through (`TxDrains`) is checked, not proved.

`CommandsAsTypedHolds` is the invariant of that run. Its inductive invariant `TypedInv`
adds to `PortInv` that what was typed and is not run yet is the line, the carriage return
if that has been read, and what the ring holds, and that the console goes to read only
when there is something to read: otherwise `PortDebugRead8` would add an undefined
character to the line. What remains is about lines alone: `SplitJoins` says that the
parameters `Split` finds, joined by spaces, are the line or all of it but a space at its end.
`Split` and `Joined` are recursive functions, of which TLA+ says no more than that each is a
function that satisfies its equation, if there is one. That there is one
(`RecursionExists`) and what it says at each position (`ReadIsJoined`) is shown by
induction, which rests on the order of the natural numbers being well-founded
(`LeastNumber`, `RangeByInduction`).

### Timers, semaphores, mutexes, message queues

The blocking primitives are proved in the same way, for any number of threads,
priorities, objects, timers of the application and tick counts. What they have in
common is in `AtomSuspendProofs`: the invariant `SuspendInv(W)`, where `W` is the set
of threads that wait on an object, and a lemma that it is preserved for each thing a
primitive does to a thread (suspend it, wake it and cancel its timeout, time it out,
call the scheduler for it, let it return) and for each step of the scheduler and the
timers. `SuspendInv` has four parts, each of which the others need:

* `KernelInv` with the delayed and the waiting threads parked;
* `TimerListInv`: the three timer lists. That no timer is both on the timer list and
  due, unless it was registered again by a callback, is not inductive by itself: it
  needs that what is still to walk is on the timer list, that the two lists are
  disjoint as long as the walk goes on, and that nothing is due outside the tick handler;
* `StackTimerInv`: a pending timer on a thread's stack is that of a delay or of a wait
  that goes on, and a wait with a timeout has one pending, so a cancellation finds it;
* `CallInv`: the current thread is suspended only between the critical section that
  suspended it and its call of `atomSched`, so a running thread never returns early.

For each primitive the invariant adds its own data. `SemInv`, `MutexInv` and `QueueInv`
have in common that queues are ordered and disjoint, that the timeout of a waiting
thread names the object it waits on (otherwise the callback would look on the wrong
queue), and who is inside a deletion. `SemInv` adds the priority of the running
thread; here a deletion that has woken nobody has to count as the thread's own code,
as it ends without a call of `atomSched`. `MutexInv` adds `OwnershipSound`, which is
inductive given the rest. From these follow:

* `TimerPlacementHolds`, `TimerListsSoundHolds`: the invariants of the run `timer`,
  the links apart;
* `FiresOnTimeHolds` (in `LinksProofs`): the action property of that run. The
  invariant `OnTimeInv` says of each listed timer that `system_ticks` plus what it has to
  run is its deadline, where the timers the walk has not come to have one tick less to
  run than `cb_ticks` says. That a tick, a roll-over and `atomTimeSet` keep this is
  arithmetic modulo any `TickMod` (`RemainderOfSum`);
* `SemPlacementHolds`, `SemTimeoutsSound`, `SemHighestPriority` and the action property
  `SemOutcomeIsFinal`;
* `MutexPlacementHolds`, `MutexTimeoutsSound`, `OwnershipSoundHolds` and the action
  property `OwnerOnlyHolds`;
* `QueuePlacementHolds`, `QueueTimeoutsSound`.

The lists that all of this is about are sequences in the models. That the links of the
TCBs hold them (`LinksSoundHolds`, `ListsImplemented` in `LinksProofs`) is proved from the
invariant `LinksInv`: each list is `Linked` from its head and `BackLinked`, the lists are
disjoint, and what is on none has no link. A walk is a recursive function, so it is
compared with the list it walks by the smallest index at which the two differ (`Walked`).
Each list function then is one of two changes of the links, in at an index
(`LinkingIn`) or out of one (`LinkingOut`), wherever on the list that is; NULL beyond both
ends of a list (`At`) makes the cases of the head and of the tail the same as the middle.
The link that `tcbDequeuePriority` does not clear is NULL already (`DequeuePriorityStep`).

The same for the lists of the timer library, with what their code has instead of back
links, is `LinksAsListedHolds`. Its invariant `ChainsInv` says that `timer_queue` and the
callback list are `Linked`, that the tail of the callback list is its last timer (without
it the next one would be appended to a timer that is somewhere else), and that the walk
stands at an index of the list: `next_ptr` at that timer and, if it is not the first,
`prev_ptr` at the one before. A walk that unlinks a timer keeps its index and
`prev_ptr`; one that leaves it moves both on (`WalkedOn`). The removed timer keeps its own
`next_timer`, which is harmless as nothing on the list leads to it (`UnlinkedAt`). As
`LinkStep` is stated beside the steps of `AtomTimer`, the proof first shows that each
change of the links goes with the operation it belongs to (`LinkStepKinds`). Both
proofs assume that there are finitely many TCBs and timers and that none of them is NULL
(`TcbsAssumption`, `ThreadsAssumption`, `LinkedTimersAssumption`).

About the messages of a queue, `AtomQueueProofs` proves `QueueWokenFindsWork`,
`QueueNobodyWaitsInVain` and the refinement `QueueImplementsMessageQueue`. Every step
is one of six kinds (`StepKind`), and only one of them, `Works`, touches the buffer
while a thread may be waiting. Their invariant `WorkInv` says that there is work for a
woken thread and none for a waiting one, and that a woken thread was woken by somebody
else. The refinement adds `IndexInv` (the message that is put next goes right behind
the last one stored) and shows that a get takes the tail and a put appends, across the
wrap of either index, by cases of the wrap.

That `AtomSem` implements `Semaphore` and `AtomMutex` implements `Mutex`
(`SemImplementsSemaphore`, `MutexImplementsMutex`) is proved step by step: each critical
section is one step of the abstract object or leaves it alone. The abstract wait queue
is not a sequence but what its order means: the set of those who wait, and the pairs of
threads of equal priority of which one is ahead (`TiesInOrder`). So the lemmas of
`AtomSuspendProofs` about it can say what a queue operation does wherever in the queue
it works: a thread that joins is behind its equals (`JoinView`), one that leaves takes
its pairs with it (`LeaveView`), the head is the first in line (`HeadView`). They follow
from how the operation moves the positions (`TiesAfterJoin`, `TiesAfterLeave`). The
threads of the runs `sem` and `mutex` have different priorities, so it is the theorems
that cover the order of arrival. For mutexes the late increment of the count is
the crux: by `OwnershipSound` the depth is a function of owner and count
(`DepthIs`), and the increment does not change it.

**Hypotheses.** Where the code fails, the theorems say so in a hypothesis, which the
passing runs satisfy and the violated ones of section 5 do not:

* `CallbacksWake = FALSE` (semaphores, queues), `CallbacksDelete = FALSE` and
  `HandlersPut = FALSE` (mutexes). With a callback that wakes a thread whose timeout is
  already due, `StackTimerInv` breaks: the thread leaves the queue with its timer pending.
* `UsesUncontended` (what is said about messages, not about threads): a thread that
  waits on one side of the queue has that side to itself, or nobody else uses the other
  one. It admits any number of threads that post to one that waits, and any number that
  wait for none; the two uses of the run `queue` satisfy it, two receivers of which one
  waits do not.

The invariants were checked by TLC on the instances of the runs before they were proved.

### What is only model-checked

* Liveness (`RoundRobin`, `TimedWaitEnds`,
  `HighestGetsCpu`, `TxDrains`): fairness and ENABLED are beyond the prover. The timeouts
  of mutexes and message queues have no liveness property of their own: they are the
  actions of `AtomSuspend` that the semaphores use.

## 5. Where code and documentation disagree

`sem_callback`: if a callback of the application puts a semaphore in the tick in
which the timeout of the waiting thread is due, and runs first, `atomSemPut`
makes the thread ready with `ATOM_OK` but cannot cancel the timeout, which has
left the timer list. The timeout's callback then overwrites the status with
`ATOM_TIMEOUT` and enqueues the thread on the ready queue a second time. The
token of the put is lost. `atomsem.c:291-293` says that the call returns with
`ATOM_TIMEOUT` "if the thread was not already woken". After that step the ready
queue holds a thread twice, which the sequences of the model show but the links
in memory do not represent: the model says nothing about what follows. The other
runs have `CallbacksWake = FALSE` for this reason. An interrupt handler cannot
meet the case where the tick handler is not interrupted.

The same holds of a deletion from a callback; `CallbacksDelete` and the
`CallbacksWake` of `AtomQueue` are `FALSE` as well.

`mutex_handler`: `atomMutexPut` does not check its context. In an interrupt handler
`atomCurrentContext()` is `NULL`, which is also the owner of a free mutex, so the
owner check passes and the count wraps from 0 to 255. After that `atomMutexGet`
returns `ATOM_ERR_OVF` to every thread. `atommutex.c:49-51` says that calls that
cannot be made from interrupt context are "automatically and safely prevented".
The other runs have `HandlersPut = FALSE`.

`queue_two_getters`: a thread waits for a message, one is put, and before the woken
thread runs another context gets it. The woken thread calls `queue_remove` on an
empty queue: it returns an old message with `ATOM_OK` and `num_msgs_stored` wraps
below zero. The comment of `queue_remove` assumes "that there is a message present,
which is already checked by the calling functions". Two senders can overfill a
queue in the same way. The queue is a FIFO if at most one context gets when a
thread waits to get, and at most one puts when a thread waits to put: the run
`queue` has such users.

`timer_nested`: `atomTimerCallbacks` (`atomtimer.c:408-479`) walks the timer list
without a critical section and keeps the previous and the next timer in local
variables. Where interrupts nest, as on Cortex-M, the tick has nearly the lowest
priority (`ports/cortex-m/boards/nucleo-l031k6/board_setup.c:123-129`), so a handler that preempts
the walk may register or cancel a timer, which `atomtimer.c:116-118` and `180-182`
allow: "This function can be called from interrupt context". If a handler registers
a timer in front of the one that is due at the head, the walk does not find the
due timer at the head any more, unlinks it from itself, and leaves it on the list
with a count of zero, which the next tick wraps. If it cancels the timer that the walk keeps as the
predecessor, the due timer is unlinked from one that is not on the list.
`ports/cortex-m/README.md:217-219` says that handlers preempt each other there. The model has the lists and nothing of threads. The other
runs serve one handler at a time, and `cortex` has no timers.

One more disagreement has no run: a thread that was woken from a wait on a queue
wakes a thread on the other side in its second critical section
(`atomqueue.c:458`) and does not call `atomSched`. If that thread has a higher
priority it is not scheduled in until the next interrupt or kernel call, against
`atomkernel.c:85-87`. `AtomQueue` models it so, and states no property of
priority for that reason.

## 6. Plan

Modelled: the kernel (`TcbQueue`, `TcbLinks`, `AtomKernel`, `AtomTimer`,
`AtomTimerOnTime`, `TimerLinks`, `AtomTimerLinks`, `AtomSuspend`, `AtomSem`,
`AtomMutex`, `AtomQueue`) with its abstract specifications; the Cortex-M context
switch with nested interrupts (`CortexSwitch`); the serial path (`RingBuffer`, `Sio`,
`Console`, `ByteStreams`).

Proved: the scheduler, the context switch, timers, semaphores, mutexes and message
queues, the abstract semaphores, mutexes and FIFO of messages that these implement, the
ring buffer, the byte streams of the serial port and the lines of the console.

Next:

* Timers in `CortexSwitch`, with a critical section around the walk as the code
  would need it.

### Not modelled

Most of the repository's lines are not the program's: the peripheral libraries and
register definitions of the microcontroller vendors (STM8S, STM8L, LPC17xx and so
on under `ports/`) set and read registers and keep no state that the kernel
depends on. Of the program itself these parts are left out:

* the assembly and the start-up code of the ports other than Cortex-M: the effect
  of a context switch is `atomSched`'s, and a switch that is not deferred has no state
  of its own; registers and stack frames are below the model;
* the Windows port, which replaces the kernel by thin calls of Windows: `atomSched`
  and the message queues are empty functions there, and `get_cc` (`ports/win32/atomthreads/atomkernel.c:11-20`)
  tests a flag that all threads share before it enters the critical section, so its critical
  sections do not exclude each other as those of the model do;
* the serial drivers of the other ports, which print with a mutex held
  (`atomMutexGet` and a wait for each byte), so they are users of `AtomMutex`;
* `usart_close`, which nothing calls; the overrun flag of the USART
  (`l031k6_usart.c:102`), which the handler does not clear: `Arrive` loses no byte
  after one that was lost;
* the length of the console's line: nothing limits the index into it
  (`console.c:144`), and what an overlong line overwrites is not defined, so `MaxLine`
  bounds what is typed;
* the driver table (`iosdrv`), filled at boot and only read after that; pins and
  ADC, which read and write a register each; debug commands, `syslog` and `kassert`,
  which format and print; the conversion of numbers, a pure function without a property
  the rest depends on;
* the test programs, which are users of the kernel and were read as such.
