# A verification of the kernel panic kernel

This directory holds TLA+ models of the kernel (`kernel/`, `hal/`), of the
containers under it (`utils/`) and of two programs over it (`umouse/`,
minilisp); the TLC configurations that check them on small instances; and TLAPS
proofs of what matters most for every instance. `PROJECT.json` maps each
definition to the lines it models.

## The system and its parts

One CPU runs threads. Interrupts have levels (from CRIT over SOFT and the serial line to TIMER);
each level can be disabled, and a signal raised meanwhile is delivered, once,
when the level is enabled again. What threads share is changed with CRIT
disabled ("a critical section"), so a lock operation is atomic with respect to
other lock operations. What is *not* atomic, and where the models interleave:

* the switch to another thread is not made by the thread that asks for it but
  by a handler that the CRIT interrupt runs later;
* timers and the serial line hand work over to lower levels through lists that
  are pushed and popped without any lock;
* a thread that blocks in several steps (sleep, join, exit, pipe, serial read)
  meets all of that in between;
* disabling and enabling a level takes several steps itself, and interrupts
  arrive between them; registering a timer does part of its work with
  interrupts enabled;
* a work item is announced, queued, run and granted locks by different parties.

| part | source | module |
|---|---|---|
| linked list | `utils/linkedlist.c` | `LinkedList`, `Lists` |
| atomic list; SOFT and CRIT handler lists | `utils/atomiclist.c`, `kernel/softinterrupt.c`, `kernel/critinterrupt.c` | `AtomicList`, `Scheduler` |
| handler objects | `kernel/handler.c` | `Scheduler`, `AtomicList`, `Timer` |
| scheduler, mutex, sleep | `kernel/scheduler.c`, `kernel/mutex.c`, `kernel/sleep.c` | `Scheduler` |
| end of a thread, join | `kernel/scheduler.c` | `ThreadJoin` |
| locking | `kernel/locking.c` | `Locking` |
| resource | `kernel/resource.c` | `Resource`, `RWLock` |
| semaphore | `kernel/semaphore.c` | `Semaphore`, `SemaphoreUse` |
| signal, barrier | `kernel/signal.c`, `kernel/barrier.c` | `Signal`, `Barrier`, `Rendezvous` |
| generation | `kernel/generation.c` | `Generation` |
| ring buffer, pipe, socket | `utils/ringbuffer.c`, `kernel/pipe.c`, `kernel/socket.c` | `RingBuffer`, `Pipe` |
| serial | `kernel/serial.c` | `Serial` |
| worker | `kernel/worker.c` | `Worker` |
| interrupt levels, context switch | `kernel/isr.c`, `kernel/context.c`, `kernel/startup.c` | `Isr` |
| timer, time | `kernel/timer.c`, `kernel/time.c` | `Timer` |
| watchdog | `kernel/watchdog.c` | `Watchdog` |
| heap, search tree | `utils/heap.c`, `utils/avl.c` and their test programs | `Heap`, `Tree`, `WeightedLinks` |
| bitmap, maze maps, scan log | `utils/bitmap.c`, `umouse/map.c`, `umouse/positionlog.c` | `Maze`, `FloodFill` |
| flood fill, moves, the mouse | `umouse/floodfill.c`, `umouse/submove.c`, `umouse/movetest.c` | `FloodFill`, `SubMove`, `Mouse` |
| minilisp | `kernel/minilisp.c` | `LispMemory`, `Lisp` |

## The modules

**Lists.** `Lists` has the list operations as operators on sequences, which the
locks and the scheduler compute with. An enqueue of a node that is in the list
already is defined, because the scheduler does that. `LinkedList` models the
pointers and shows that they spell the sequence `Lists` computes, the double
enqueue included. `AtomicList` models `AtomicListPush` and `AtomicListPop` with
one action for each access another level may come between. A stack of frames
holds the interrupted operations; only a higher level may interrupt.

**Locks.** `Locking` is the state of a `LOCKING_CONTEXT` and the effect of the
block and wake functions of a thread, a work item and a plain context, which
polls. `Resource`, `Semaphore`, `Signal`, `Barrier` and `Generation` extend it,
one action or operator per function. The units do not remember who uses them,
so the holders of a resource (`held`), the contexts inside a semaphore
(`users`), its posts and the order of arrival, and the rounds of a barrier are
history variables; callers release only what they hold ("honor system",
`resource.c:25`). `SemaphoreUse` and `Rendezvous` add callers: contexts that go
down and up and producers that only go up; contexts that wait for a signal and
meet at a barrier, while somebody sets and unsets the signal at any time.
`RWLock` is the abstract first come, first served reader/writer lock.
`ThreadJoin` composes `Resource` with the end of a thread: publish the result by
unlocking `ResultLock`, lock it again, become `DONE`; joiners; and the reuse of
the structure.

**Scheduler.** The CPU's `mode` (thread code, inside a critical section, about
to leave it, inside `CritInterrupt()`, just switched), the run queue, the mutex
and handler object of the switch, the CRIT handler list and signal, and the
timers of sleeping threads. A thread may run any operation at any time it
executes; the timers may fire at any time interrupts are possible. A push to
the CRIT list is one step here; `AtomicList` is about what is inside it. The
quantum is abstracted to "may be over".

**Streams.** `RingBuffer` is operators on the record with its two indices and
the flag that tells full from empty. The loops of `RingBufferRead` and
`RingBufferWrite` are written as two turns, which is all they make: a turn ends
where the call has enough, at the other index, or at the end of the buffer.
`Pipe` composes it with five semaphores
of `Semaphore` per pipe; a thread runs a program of calls over and over, one
step per semaphore operation. A Struct call of length zero passes the outer lock
and nothing else; a plain call has a positive length, for its assertions ask for
one. `flow` is the history of what is in each pipe.
`Serial` composes two rings, the two interrupts, a `Generation` and the deferred
handler that moves it on, as the echo of `test/test10.c` uses them. Its
interrupts may be held up, and come between any two steps of a reader.

**Worker.** The worker thread, the item queue and its semaphore, owners that
register finished items again, and the two kinds of item of `test/test6.c`: one
raises a semaphore; the other goes down on it and, when it has got it, finishes
or, as the loop of test6 does, goes down again until it is blocked.
`WorkerAddItem` is one step in a CRIT handler and two in a thread. How a program
uses the unit is chosen at the start (`use`): which items are registered by
threads, which may pend, and whether the semaphore is raised from outside.

**Interrupt levels.** `Isr` models `IsrDisable` and `IsrEnable` as their single
steps (test, choice of the mask, mask, counter). Each thread has a stack of
frames; a signal that is not blocked puts a frame on the active stack before
any step, whose return restores the mask it found. The switch leaves one stack
for another inside the CRIT handler; the counters are global and stay.

**Time.** `Timer` has a clock modulo `M` (`TIME` is unsigned and wraps), the two
heaps as sets with weights (`Heap` shows that `HeapPop` takes one of least
weight), the countdown of the hardware, the soft list, and `TimerRegister` step
by step: read the clock, add under `IsrDisable`, then look at the size, read
the head and set the countdown with interrupts enabled. A thread registers and,
over it, a timer's own handler. `left`, `early`, `slow` and `overdue` are
history variables. `Watchdog` has the two masks, the countdown, and calls that
hold the interrupt back; `silence` is how long each component has not notified.

**Containers and programs.** `Heap` and `Tree` work on the fields of
`struct WEIGHTED_LINK` pointer by pointer. `Maze` has bitmaps and the
walls as bits of them, and `MapInit`, which refuses a buffer that is too short;
`FloodFill` has the distances and their queue of events; `SubMove` the rules for
moves; `Mouse` the loop of `movetest.c`. `LispMemory` has the objects
at their addresses, the two halves and the copying collector; `Lisp` the
reader, the evaluator and the primitives. The C functions that call each other
are cut at their calls: the state has a stack of what remains to be done, the
frames of `ADD_ROOT`, and the last returned value as a plain pointer that the
collector does not know. The input is a sequence of tokens.

## The runs

| run | states | shows |
|---|---|---|
| `resource` | 25,000 | `ResourceInv` (assertions hold; `State` and `NumShared` agree with the holders; no lost wake up); nobody is overtaken or starves; the refinement of `RWLock`; a joiner reads the final result and the structure is not reused under it; the thread dies and early joiners are served |
| `kernel` | 118,000 | semaphores: `UseInv` (count, contexts inside and posts add up; nobody waits in vain); first come, first served; no starvation. Signal and barrier: `MeetInv` (nobody leaves the barrier before all have come, nobody waits for a signal that is set) and everybody comes through every round. Scheduler: blocked threads do not execute; switch requests and handlers are not lost or doubled; sleepers have a waker; shutdown is exact; while nobody sleeps, every running thread comes round; handlers that are queued are run |
| `streams` | 259,000 | bytes come out of a pipe once and in order, structures larger than the ring stay whole, nobody is stuck on the five locks; nothing on the serial line is lost or reordered, and all that arrives is read and echoed |
| `interrupts` | 3,360,000 | no interrupt is delivered inside a section that disables it, and the mask is exactly that of the highest disabled level, across switches; no timer is lost, early or late; the watchdog barks at those who stall and at nobody else |
| `programs` | 177,000 | the lock side of work items is sound; a finished item is free and each is announced exactly once; used as test6 does, every queued item is run; the list's pointers are the sequences of `Lists`; the SOFT list loses and repeats nothing; heap and tree keep their order; a map stays in its buffer, and where its bitmaps have room it holds the walls that were set; the mouse's map is true, it runs into no wall and its legs end where they should; the lisp collector is not noticed and keeps every reachable object |
| `late_join` (violated) | | joining a dead thread never returns, against `kernel/thread.h:18` |
| `join_dead` (violated) | | a joiner can go on before the thread it joined is dead, against the assertion `test/test8.c:79` |
| `crit_list` (violated) | | the CRIT list, pushed from two levels, runs a handler that is not queued, against `kernel/handler.c:28` |
| `scheduler_eligible` (violated) | | with a sleeper, a runnable thread can fall out of the run queue, against `kernel/scheduler.c:59` |
| `worker_add` (violated) | | an item registered by a thread is announced before it is queued, against the assertion `kernel/worker.c:37` |
| `timer_lost` (violated) | | a registration made after the head's time and before its interrupt sets the countdown to almost a whole turn of the clock, against `kernel/timer.c:155` |
| `map_walls` (violated) | | in a map of 8 by 5 cells two walls share a bit, against `umouse/map.c:101` |

A run that has several parts chooses one at the start (`joins`,
`serial`, `part`, `kind`) and leaves the variables of the others alone; the
parts do not interact.

### Conditions in the properties

* Worker. An item that pends is queued but not announced
  (`kernel/worker.c:152`), so the worker blocks and does not run it, or runs it
  in the turn of another item that is then left behind: what `ItemsKept` says of
  announcements and `QueuedIsRun` are about programs in which no item pends, and
  nothing is claimed about the others. A lock granted to an item between its
  `SemaphoreDown` and its `LockingIsAcquired` queues the item while it runs, so
  that it is popped again after it has finished (the assertion
  `kernel/worker.c:131`). Hence the cases of `use`.
* `TimersOnTime` is claimed while registrations end in the tick they begin in,
  no overflow of the clock lies between them and the interrupt (`slow`), and
  none has met a timer that is overdue (`overdue`; that is `timer_lost`).
  Nor may a wait be almost a turn of the clock (`WaitsShort`: less than `M - 2`):
  an interrupt notices an overflow by `time < TimerLastTime`, and after a longer
  wait the clock may read 0 at two interrupts that are a turn apart, so that the
  overflow between them goes unnoticed and the timers behind it are a turn late.
  `TimersKept` holds without these conditions. Between the test of the heap's
  size and the read of its head in `TimerSetNextTimer` the interrupt may empty
  the heap; the code then reads through a null pointer, and the model stops
  (`crashed`).
* `SerialDelivers` excludes the case that a reader is started while the
  deferred handler is left in the list: a handler that runs late tells of a
  generation whose bytes may have been read already.
* `RoundRobin` is about threads that do not sleep; `scheduler_eligible` shows
  why.
* `GcTransparent` lets the interpreter stop early for want of memory or on its
  assertion about `gc_running`, which `lisp_init` does not set.
* `JoinSound` says what a joiner can rely on: the result is final, and the
  thread becomes `DONE` only when those who joined it have released it. That it
  is dead when `SchedulerJoinThread` returns is not so: it becomes `DONE` only
  after it has `ResultLock` back (`kernel/scheduler.c:466`), which is `join_dead`.
* `MapHoldsWalls` asks for the walls of maps whose vertical walls have as many
  words as they need before the horizontal ones (`WallsFit`); `map_walls` is what
  happens otherwise. That no bit outside of the buffer is written holds for all
  (`MapInBuffer`), maps that `MapInit` refused included.

### Bounds

* `resource`: four threads and one polled context, so that a writer and several
  readers wait at once, a group of readers is woken together, and there is a
  context of each kind of wake function.
* `kernel`: three threads and one polled context, a semaphore that starts open
  and one that starts closed, one post on each (`MaxPosts`); two rounds of the
  barrier (`MaxRounds`), so that one who is early is back before the others.
  Scheduler, here and in `scheduler_eligible`: three threads, so that one can be
  lost between two others; two sleepers, so that two handlers and the switch share
  the list; no bound on time, as nothing counts up.
* `streams`: a ring of two bytes (`RingSize`) and structures of three, so that
  each structure fills and wraps the ring, and one call of length zero on either
  side; two writers and two readers; question
  and answer over a socket. Serial: rings of two (`BufferSize`) and four bytes
  (`MaxBytes`), two readers.
* `interrupts`: two threads, three levels (`MAX`), three frames on a stack
  (`MaxDepth`) and two sections per frame (`MaxHold`), so that sections overlap,
  a handler interrupts a handler, and a thread is switched out inside one. Two
  timers on a clock of five times (`M`; with fewer, a wait of two and the ticks
  it may be late take half the clock), waits of zero and two, a longest
  countdown of four (`MaxAlarm`). Three watchdog flags, timeouts of one and two.
* `programs`: two items of each kind for the worker, in each way of `use` and any
  two ways together; a semaphore of at most two
  (`MaxCount`); at most four announcements when an owner adds an item or somebody
  else raises the semaphore (`MaxQueued`), which matters only once an item has
  been queued twice. Four nodes for the lists. Five for heap and tree
  (`WeightedNode`), so that a tail can sink two levels and a removed node's left
  subtree is a tree itself; three weights, so that some are equal. Maps 4 and 8
  wide and 5 and 7 high with a buffer of the right length and one that is a word
  short, with two walls at a time (`MaxWalls`), enough for any two to share a bit.
  All mazes of side 3 with the destinations on the diagonal, and the 8 by 8
  sample of `movetest.c`; seven lisp programs that use every primitive, with
  memories of three sizes (`MemorySizes`), collected at every allocation or when
  full, against the same program with an ample one (`Ample`).

### Fairness

The CPU executes, critical sections end and the scheduler's timer comes again
and again. Holders of a resource or a semaphore release it and polled contexts
poll: the code cannot enforce that, and liveness of a lock means nothing
without it. `HandlersRun` also needs that the CPU reaches thread code again and
again (no interrupt storm) and that threads stop being created. `late_join` has
the same fairness as `resource`, so its counterexample is not a system that just
stops. The signal is set again and again. In `streams` the scheduler
runs every thread that is not blocked, a raised serial interrupt and a queued
handler are served, and `PipeProgress` is about calls whose partners keep
calling. The scheduler runs the worker and the threads in the middle
of `WorkerAddItem`; owners need not register anything.

### Deadlock

It is checked in `kernel`, where somebody can always go on. The other systems may
really stop: everybody has joined, all bytes are read, an assertion has failed, or
a program has ended. That nobody is left waiting who should not be is stated by
the liveness properties.

## The proofs

Every theorem is about all values of the constants that the named assumptions
of the modules allow. Each inductive invariant was checked by TLC on small
instances before it was proved. `QueueTheorems` has lemmas about queues without
repetition that the other modules share.

### Locks

`ResourceProofs`, for every finite set of contexts of any kind:

* `ResourceSafe`: `ResourceSpec => []ResourceInv`. None of its parts is
  inductive alone: that a release finds `State` and `NumShared` right needs
  `HoldersAgree`; that a hand over meets only blocked contexts, and so raises no
  assertion, needs `WaitersWillBeWoken`; that the remaining queue has somebody
  to wake it needs both, and `FrontIsIncompatible` for readers. `AcquiredHolds`
  ties a polled context to its grant. Their conjunction is inductive, with one
  lemma per action and one (`WakeInv`) for the hand over both releases share.
* `ResourceExclusion`, `ResourceNoLostWakeup`, `ResourceNeverPanics`: parts of
  it that a reader should know of; `ResourceInOrder`: the action property
  `NoOvertaking`.
* `JoinAlwaysSound`: `JoinSpec => []JoinSound`. `JoinInv` adds to `ResourceInv`
  that whoever has joined came after `main` returned, and that the ending thread
  holds `ResultLock` before and after it publishes the result.

`RefinementProofs`, for the same contexts:

* `ResourceImplements`: `ResourceSpec => ImplementsRWLock`. The queue of the
  abstract lock is `Line`, the contexts with what they wait for; `LineAppend`
  and `LineDrop` follow it through enqueues and hand overs, `GrantedIs` says
  what granting its first requests does to the holders. A release implements the
  abstract one if it lets in the longest compatible prefix
  (`UnlockImplements`): one writer or all readers before the first writer
  (`WakeImplements`), or nobody (`LeaveImplements`: the front is a writer and
  a reader is left). Uses `ResourceSafe`.

`LockProofs`, for every finite set of contexts of any kind:

* `SemaphoreSafe`: `UseSpec => []UseInv`, for every set of semaphores and all
  initial counts. `Conservation` needs that whoever is let in was not inside
  (`WaitersBlocked`); that no assertion fails needs that the front of a queue is
  blocked; `NobodyWaitsInVain` is what makes a hand over leave the count at
  zero. `SemaphoreConservation` and `SemaphoreNoLostWakeup` are conjuncts of it.
* `SemaphoreInOrder`: `UseSpec => InOrder`. `LineInv` says that the history of
  who came first is the order of the queues.
* `RendezvousSafe`: if the barrier is made for all of the contexts,
  `MeetSpec => []MeetInv`, for any number of rounds. The strengthening says that
  there is a round `r` which everybody has called `BarrierSync` in, those in the
  list once more (`InStep`), and which list a context is in (`InLists`). The
  step that needs an argument is the last arrival (`LastToCome`): as many wait
  as there are others, so all the others wait, and the next round begins for
  everybody. (The run checks the same `MeetInv` of `Rendezvous` as an instance
  in `MCKernel`.)

### Scheduler, interrupts, time and worker

`SchedulerProofs`, for any finite set of threads and any of them sleeping:
`SchedulerThreadsSound`, `SchedulerHandlersSound`, `SchedulerSleeperHasWaker` and
`SchedulerShutdownExact`, from one invariant, `SchedulerInv`. `ThreadsSound` is
not inductive without the reason: an active thread that does not run any more
has asked for a switch and is on its way to it (`ActiveSound`); it is in the run
queue only when a handler has resumed it before that switch (`QueueSound`, which
the truncating enqueue of `Schedule` keeps); and where a thread is in `Sleep`
agrees with its state, its timer and its signal (`PlaceSound`).

`IsrProofs`, for any number of levels and threads and any depth of interrupts:
`IsrSectionsAtomic` and `IsrMaskExact`, from `IsrInv`. For each frame of each
stack, running or interrupted, it says which mask the frame runs with or will
find again (`FrameSound`): the highest of its sections and those below it, except
in the middle of `IsrDisable` and `IsrEnable`. A stack that is switched out is
inside the same sections as every other one (`IdleSound`), so the global
counters are right for whoever comes next. TLC: 297,000 states of an instance
with two threads, two levels, three frames and three sections per frame.

`TimeProofs`, for any finite set of timers, any range of the clock above two, any
waits, any watchdog components and timeouts:

* `TimersNeverLost`: `TimerSpec => []TimersKept`. The strengthening is
  `CallsApart`: the timer a thread is registering is `READY` and the one that
  registers itself again is `RUNNING`, so the two are different and in no heap,
  and the interrupt between their steps touches neither.
* `TimersAlwaysOnTime`: `TimerSpec => []TimersOnTime`. `Punctual` says how long
  each registered timer has left by its heap and weight (`ClockRead`), that the
  countdown ends no later than the head is due (`CountdownSet`), what a caller
  in the middle of `TimerRegister` has read is of this tick (`InTime`), and that
  an overflow will be noticed (`TurnNoticed`). TLC: up to 3,734,000 states, with
  clocks of 3, 4, 5 and 7 times.
* `WatchdogAlwaysExact`: `DogSpec => []WatchdogExact`. While the dog is quiet,
  silence is measured against the time since it was petted: those who have
  notified were silent at most that long, those who have not at least that
  long, and nobody for more than that and the round before (`Quiet`). When it
  barks, whoever is missing is to blame (`Blamed`).

`WorkerProofs`, for any finite set of items, all of the worker kind:
`WorkerAlwaysSound` and `WorkerKeepsItems`, from `WorkerInv`: the items that are
blocked are those in the lock's list (`Waiters`), every item is in one place
(`Places`), and what has been announced is what is in the queue or about to be
(`Announcements`). TLC checked it on the instance of the run.

### Assumptions

The set of contexts is finite and each has one of the three kinds; initial
counts are natural numbers (the width of `COUNT` is not modelled); waits are
times of the clock; timeouts are positive.
What a theorem assumes beyond that is in its statement and named above.

### Only model checked

* The lists (`ListSound`, `SoftListSound`) and the streams (`PipeSound`,
  `SerialOrder`).
* Liveness (`RoundRobin`, `HandlersRun`, `ResourceServesAll`, `NoStarvation`,
  `EverybodyMeets`, `PipeProgress`, `SerialDelivers`, `QueuedIsRun`, the joins):
  the prover has no rule for fairness.
* What recursive definitions compute: `HeapSound`, `TreeSound`, the maps and
  the mouse, the interpreter and its collector. Their proofs would need
  induction over trees, queues of events or programs.

## Not modelled

* `kernel/coroutine.c`, the jump buffers and terminal settings of
  `hal/unix_hal.c`, and `hal/avr_hal.c`: what they do is done by the host or by
  registers. The models have their effect on masks, stacks and countdowns where
  the kernel calls them.
* `umouse/main.c` and `umouse/motor.c`: motor registers and an unfinished loop.
* `utils/bham.c`, `utils/counter.c`, `utils/primes.c`: only test programs call
  the first and the last, and the counter is for the statistics of stacks.
* `IsrIncrement` and `IsrDecrement`, which nothing calls; the tick arithmetic of
  the quantum, thread priorities and thread local storage; the order of the
  `Startup` calls; the layout and statistics of stacks; `SerialPeak`.
* Printing, and in minilisp the characters of tokens, comments and the shell.
* The `test/` programs, except as the callers the models are built from.

## Remarks

Observations about the source that no run depends on:

* The prototype of `MapInit` (`umouse/map.h:41`) names height and width in the
  other order than its definition. `FloodFillGetX` takes a remainder by the
  height. `ScanLogInit` passes a number of words where `BitmapClear` takes flags.
* `SubMoveFindBest` says it favours keeping the direction but compares the other
  way (`umouse/submove.c:536`); the mouse still arrives.
* The loop of `RunMoves` compares half cells divided by two
  (`umouse/movetest.c:326`), so a leg may end at the edge of its destination:
  "not in center".
* `utils/avl.c` does not balance, and the assertion in line 183 assigns.
  `HeapPop` of an empty heap is not called by the kernel, and is no action here.
* `isPrimeProduct` of `utils/primes.c`, on which `findPrimes` and `test/test13.c`
  rest, skips the first two primes, so that 4 counts as prime; `isPrime`, which
  nothing calls, divides by zero at its first step.
* In minilisp a list that begins with a dot writes to `Nil`, and `scan1` and
  `scan2` are static, so that only one thread may interpret.
* The sample maze's moves and the outputs of the lisp programs agree with those
  of the C code compiled for the host.
