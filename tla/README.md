# Pedigree: a verification of the kernel's threads, queues, pipes and TCP

Pedigree is an operating system kernel in C++ with a POSIX subsystem, drivers,
file systems and user programs.  These modules model the part everything else
rests on: which thread has the CPU, how threads wait and are woken, how
events (signals, timeouts) interrupt them; and three services built on that: the
request queues that drivers and caches use, pipes with `poll`, and TCP
connections.  The code is in `src/src/system/kernel/core/process` (short:
`process/` below), `src/src/system/kernel/utilities`,
`src/src/modules/system/vfs`, `src/src/modules/system/network-stack` and parts of
`src/src/subsys/posix`.

The build modelled is the default one (`SConstruct`): one processor, `THREADS`
defined, `MULTIPROCESSOR` not.  On it a section that runs with interrupts disabled
(under a `Spinlock`, in an interrupt handler) is atomic, and between two such
sections a timer tick can run any number of steps of other threads.  That is the
grain of all actions.

## The system

| Part | State | Operations | Interacts with | Hard because |
|---|---|---|---|---|
| Scheduler (`PerProcessorScheduler`, `RoundRobin`) | current thread, one ready queue per priority | `schedule`, `sleep`, `timer`, `addThread`, `killCurrentThread`, `threadStatusChanged`, `getNext`, `removeThread` | every component that waits or wakes | each caller changes status and queues a little differently; `doThreadKill` switches directly, past the queues |
| `Thread` | status, event queue, stack of state levels and inhibit masks, interrupted flag, waiter | `setStatus`, `sendEvent`, `getNextEvent`, `inhibitEvent`, `pushState`, `popState`, `join`, `detach`, `shutdown` | scheduler, semaphores, signals | an event may arrive at any point, and handlers nest |
| `Semaphore`, `Mutex` | counter, queue of waiters | `acquire` (timeout), `tryAcquire`, `release` | scheduler, RTC alarms, events | lost wake-ups; stale wake-up lists; timeouts that race the release |
| `TimeoutGuard` | saved context, event pinned to a level, alarm | constructor, destructor, `cancel` | events, RTC | jumps out of an event handler |
| POSIX signals, `execve` | per-process handlers, masks | `posix_kill`, `doThreadKill`, `unwind_signal`, `execve` | events, scheduler | leave handlers and levels in unusual ways |
| `ZombieQueue` | objects to delete | `addObject`, the worker's deletion | `RequestQueue`, pipes | an object that is queued twice, or still in use |
| `Process` | thread list, exit status, children | `kill`, `suspend`, `resume`, reaping | scheduler, `waitpid` | a dying thread runs on its own stack; reaping races exiting |
| RTC alarms | list of (event, thread, time) | `addAlarm`, `removeAlarm`, tick | semaphores, guards | an alarm fires while it is being removed |
| `RequestQueue` | requests per priority, worker thread | `addRequest`, `addAsyncRequest`, `halt`, `resume`, `work` | semaphores, threads | a request outlives its caller; halt joins a worker that needs the lock |
| `RingBuffer`, `Pipe`, `File` monitors | bounded buffer, waiters, monitor targets | read, write, select, monitor, open and close of ends | semaphores, events | both ends block; a reader that is interrupted |
| `MemoryPool`, `UnlikelyLock` | bitmap, condition; reader count | allocate, free; enter, leave, acquire, release | semaphores, scheduler | writers wait for readers that may be preempted |
| `Cache` | pages with reference counts | lookup, insert, evict, compact, write back | memory pressure, `RequestQueue` | eviction under pressure while pages are in use |
| poll/select | events registered with files | poll, clean-up | events, semaphores | events of a poll that has returned |
| TCP stack | connections, sequence numbers | segments, timers, user calls | everything above | lost, duplicated and reordered segments |

What makes each of them correct:

* scheduler: a ready thread is never lost, never queued twice, never queued after
  it is deleted, and eventually runs; a thread that has exited never runs again;
* semaphore: behaves as an atomic counter, wakes whoever can go on, honours
  timeouts;
* events: none is lost while inhibited; a handler returns to what it interrupted;
  masks of nested handlers do not mix; a guard cancels its own code and nothing
  else; `execve` is not disturbed;
* thread exit: a join returns, once, and only after the thread is gone;
* request queue: a caller gets the answer to its own request and always comes back;
  a request is deleted once, by the last who uses it;
* pipes: bytes keep their order, the capacity is kept, end of file comes after the
  data and is noticed, a blocked or polling reader is woken, nothing refers to a
  finished poll or a deleted pipe;
* TCP: a user gets a prefix of what the other one sent, a connection is accepted only
  if its client wants it, and closing comes to an end;
* pools: no buffer is given out twice; cache: a page in use is not evicted.

Drivers, virtual memory, file system formats, the linker, the debugger, the C
library and the programs are not modelled: they are register-level, data formats,
or other projects' code (SDL, SQLite, x86emu, udis86, dlmalloc, ...).  `components`
in `PROJECT.json` lists each part with its status.

## Modules

```
PerProcessorScheduler   process/PerProcessorScheduler.cc, RoundRobin.cc, parts of Thread.cc, Process.cc
  |-- MCScheduler       instances for TLC
  |-- SchedulerProofs   proofs
  |-- ThreadLife        Thread.cc: shutdown, join, detach (EXTENDS the scheduler)
        |-- MCThreadLife        instances for TLC
        |-- ThreadLifeProofs    proofs (EXTENDS SchedulerProofs)
  |-- Semaphore         process/Semaphore.cc (EXTENDS the scheduler)
        |-- CountingSemaphore   the abstract semaphore (INSTANCE ... WITH)
        |-- MCSemaphore         instances for TLC
        |-- SemaphoreProofs     proofs (EXTENDS SchedulerProofs)
ThreadEvents            Thread.h/.cc levels and events, TimeoutGuard.cc, longjmp, execve
  |-- ThreadEventsProofs        proofs
SequenceLemmas          what the operations of a List do to a sequence, for all the proofs
RequestQueue            utilities/RequestQueue.cc, the requests part of Thread::shutdown
  |-- RequestService            the abstract service (INSTANCE ... WITH)
  |-- MCRequestQueue            instances for TLC
  |-- RequestQueueProofs        proofs
Pipe                    vfs/Pipe.cc, File.cc monitors, posix/poll-syscalls.cc, ZombieQueue.cc
  |-- MCPipe                    instances for TLC
  |-- PipeProofs                proofs
TcpConnection           network-stack/TcpManager.cc, TcpManagerReceive.cc, TcpStateBlock.h
  |-- MCTcp                     instances for TLC
  |-- TcpProofs                 proofs
```

The last three are on top of the semaphores: a `Semaphore` or `Mutex` is the atomic
counter of `CountingSemaphore`, which `SemaphoreImplementsCounting` justifies.

### PerProcessorScheduler

`status`, `current` and `ready` are `m_Status`, the processor's current thread and
the queues of RoundRobin.  `frame` remembers how a thread left the CPU: one that
left in `schedule()` runs `checkEventState(0)` when it comes back, a new one, or
one that was put aside by `addThread`, does not.  `life` follows a thread from its
constructor to its destructor.  `killing` is the thread `doThreadKill` is about to
switch to.

There is one action per entry into the scheduler: `Tick`, `Sleep` (with
`HandleEvent`, the event that `sleep()` handles first), `Wake` (`setStatus(Ready)`
from other code), `SendEvent`, `InhibitEvent`, `CullEvent`, `KillSend` and `KillSwitch` (the two
halves of `doThreadKill`), `Suspend`, `CreateThread`, `Detach`, `Shutdown`,
`AwaitJoin` and `KillCurrentThread` (a thread's exit; interrupts are enabled between
them), `ExitProcess`, `Destroy`.  The exit of a process sets the status Zombie inside
`schedule()`, after the next thread has been chosen, and that wakes whoever waits for
the process (`NotifyingSwitch`): a thread can become ready when the idle thread has
already been picked, and waits for a tick then.  `Panic` is the state after a thread has run that has
nothing to return to.

`GetNext` and `AfterGetNext` keep two oddities of `RoundRobin::getNext`: it pops
the front of every queue it visits, and if that is the current thread goes on to
the next priority.

Abstractions: a context switch and the event check of the thread that resumes are
one step, since interrupts are off; handlers other than `interruptSemaphore` have no
effect on the scheduler; priorities are constant (nothing calls `setPriority`);
each thread has one state level (`ThreadEvents` has the levels); the fields of a
deleted thread are irrelevant.

### ThreadLife

Adds `m_pWaiter` (`waiter`) and the place of each thread in `join` or `detach`
(`jpc`, `target`).  What runs under `m_ConcurrencyLock` is one step; the rest is
split where a tick can come: `join` enters itself as waiter (`JoinWaits`) before it
sleeps (`JoinHandle`, `JoinSleep`), `detach` reads the status (`DetachCheck`) before
it takes the lock (`DetachSet`), and `shutdown` wakes the waiter (`Notify`) before it
marks the thread (`Mark`) and leaves (`Exit`).  `Owners` says who has a pointer to
whom.  A step that would dereference a deleted thread, or delete a live one, is not
defined.

Abstractions: no direct switches and no other use of the scheduler by these
threads; the unwind state is always `Continue`; taking back pending requests is the
first part of `Shutdown` and has no effect here.

### Semaphore and CountingSemaphore

`pc` gives each thread its place in `acquire`, `tryAcquire` or `release`, with a
label for each point where it can be preempted.  `tryAcquire` reads and compares in
one step and swaps in another, except under `m_BeingModified`.  `release` counts the
queue, collects, picks whom to wake (with interrupts off), and wakes them one by
one with the lock dropped.  `sleep()` is `Lock`, which goes to sleep directly if no
event is waiting, or `Handle` and `Relock`, which give up the lock to handle one.
`alarm` is the `SemaphoreEvent` of a timed acquire; `AlarmFires` sends `Interrupt`.
`held` is a history variable.

Clients are disciplined: a thread asks for more only when it holds nothing, and
releases what it holds; only `Producers` release what they have not acquired.

`CountingSemaphore` is the promise: `Ask`, `Grant` (atomic test and decrement),
`Fail`, `GiveBack`, `Post`.  The refinement maps `value` to `m_Counter` and `want`
to the amounts of the threads that are asking.

### ThreadEvents

One thread, with all its state levels.  `level`, `mask` and `saved` are
`m_nStateLevel` and the contents of `m_StateLevels`.  `depth` says what is really
running (0 the main code, d the d-th handler on top of it) and `own` which mask
that code has set or inherited; the properties compare the two views.
`checkEventState` is split by its outcome: `DropEvent`, `UserHandler`,
`KernelHandler`, `GuardFires`, and `StackRefused`, the return after `pushState` and
without `popState` when the user stack is not the thread's (`BadStack`).  `NewLevel` is
the limit of `pushState`: at `MaxNested` the handler starts without a level.  User code may return (`HandlerReturned`), jump out
of a handler (`Longjmp`), change its mask, start a guarded system call
(`GuardStart`, `AlarmFires`, `GuardEnd`) or call `execve` (`ExecStart`, then
`ExecFails`, or `ExecPop` and then `ExecMapFails` or `ExecDone`).

Abstractions: one `TimeoutGuard` at a time; its constructor is one step; handlers
in kernel mode run to their end inside the delivery; a dead guard's event takes
no step (in the code it would restore a stack that is gone); the pages of the user
stack, and the init function that `execve` runs as an event of its own, are not
represented.  `expired` counts the levels that timed out guards leave
behind.

### RequestQueue and RequestService

Callers (`addRequest`), a helper thread of an `addAsyncRequest`, the worker
(`work`), and threads that die (`Thread::shutdown`).  A request object is one of
`MaxRequests` numbers, which are used again once freed, so that a stale pointer
meets a new request.  `pc` gives each thread its place between two points where it
can be preempted or blocks.  A caller makes or joins a request (`Create`, `Share`),
counts it in `m_RequestQueueSize`, waits for its mutex, reads the answer, and the
last of them frees it.  The worker takes the first of the highest priority, looks
whether its thread still wants it, executes and answers (`Answer`).  A dying thread
halts the queue (`HaltStops`, then a join of the worker), takes its pending requests
back and resumes with a new worker.  Its join of the worker goes round for ever if it
unwinds or has a stale `m_bInterrupted` (`JoinLoops`), with the queue's mutex held.  A
thread may also be killed while it holds that mutex in `addRequest` (`ExitHolding`).

`RequestService` is the promise: `Ask` begins a call, `Serve` executes the requests of
some callers, and `Return` ends a call that has been served or whose caller unwinds.

Abstractions: `m_HaltAcknowledged` and `m_pBlockingThread` are left out; a thread's
pending list is a set; a caller is asked to unwind only while it waits;
`m_bRemovingRequests` is the set of dying threads; `destroy` is a halt.  A thread that is
killed later in the section of `addRequest`, with its request in the list, is not told
apart from one killed before, and a thread that is being shut down is not killed again.

### Pipe

Readers and writers of one pipe, named or anonymous (`Kinds`), each in `read`,
`write`, `posix_poll`, a close or a reopen.  `bufLen` and `bufAvailable` are the two
semaphores, `front`, `back` and the cells the ring.  `dataChanged` walks the monitor
targets under their lock (`ChangeLocks`, `ChangeSends`, `ChangeDone`); `poll` looks
at the pipe (`PollSelects`), registers its event (`PollMonitors`), waits
(`PollAcquires`, `PollSleeps`, `PollTimesOut`) and cleans up (`PollTallies`,
`PollCulls`, `PollCleans`).  `Close` may be the last of its kind (end of file) or
the last of all (`ZombieQueue`, whose worker deletes in `Reap`).

Nothing keeps a writer from closing a full pipe or from opening it again with bytes in it
or a reader at it.  The history `upset` records both (`"full"`, `"restart"`), since what
the pipe promises after them is less: the properties say which of the two they exclude,
and runs of their own show what happens otherwise.

Abstractions: one descriptor per poll; bytes are numbers in the order of writing.

### TcpConnection

A client and a server that run the same `TcpManager`, and a network.  `tcb` is the
`StateBlock` of each end.  `receive` and the user's calls run under `m_TcpMutex` and
are one step each; `receive` is split by the state of the block (`ReceiveClosed`,
`ReceiveListen`, `ReceiveSynSent`, `ReceiveTimeWait`) and, in the synchronized
states, by what happens to the segment (`ReceiveRefused`, `ReceiveReset`,
`ReceiveSegment`: acknowledgement, payload, FIN in this order).  `removeConn` follows
after the mutex has been released (`RemoveConn`).  The network delivers in order
(`chan`) except for up to `MaxFaults` segments that it sets aside (`Stray`: late, or
lost) or copies (`Copy`); those arrive at any later time (`ReceiveLate`).

Data goes out in pieces of `Mss` bytes (`Pieces`), the last with PSH, whatever window the
peer advertises; they stay in `rtq`, the queue for retransmission, until
`AfterAckSegment` takes them off.  The receiver puts what it has room for (`Room`) into
the shadow stream, of which `shadow` counts the bytes, and acknowledges that much
(`Deposit`); PSH or a FIN empties it.  A segment that is acknowledged in part is split as
`ackSegment` does it: renumbered, but with the payload from its first byte.  The history
`filled` records whose shadow stream has been full.

Abstractions: `m_DataStream`, to which the shadow stream is emptied, takes everything
(`TcpEndpoint.cc:155` concedes that data is lost if it does not), and a `TcpBuffer` is the
number of bytes in it, not the ring of `TcpMisc.cc`.  A window is modelled where it is
advertised and compared; the update of `snd_wnd` from an acceptable ACK
(`TcpManagerReceive.cc:519`) is never taken, since `snd_una` has just been set to the
number it is compared with.  URG, options and the accept queue are left out; a
connection's two minutes in TIME_WAIT outlast all traffic but strays.

## Runs

| Run | Result | Shows |
|---|---|---|
| `scheduler` | pass | `ReadyIsQueued`, `ReadyQueuesSound`, `CurrentIsRunning`, types; 3 threads and idle, 2 priorities, exits, direct switches, `setStatus(Ready)` on threads in every state |
| `scheduler_events` | pass | `InhibitedEventsKept`; queues of up to three events of two kinds, passed over, delivered and culled |
| `scheduler_zombie` | violation | a signalled process that exits is still queued and reaches `FATAL("Should never get here")` |
| `thread_life` | pass | `JoinDeletesExited`, `DetachedHasNoWaiter`, `WaiterIsJoining`, `JoinerWoken`, refinement of the scheduler; two threads join or detach a third, one joins the other, one is signalled |
| `mutex` | pass | `MutualExclusion`, `NoLostWakeup`, `WaiterWoken`, and `ReadyRuns`: every ready thread gets the CPU; 3 threads, no events |
| `semaphore` | pass | refinement of `CountingSemaphore` and of the scheduler, `WaitQueueSound`; timeouts, signals, direct switches, unwinding |
| `semaphore_signal` | violation | with an event pending, a wake-up is lost |
| `events` | pass | `MaskIsOwn`, `ResumesInterrupted`, `GuardCancelsOwnCode`, for a disciplined thread |
| `events_limit` | pass | types, that is, `m_nStateLevel` stays in `m_StateLevels`; handlers at the limit, refused stacks, `execve` and guards at any level |
| `events_nesting` | violation | at the limit a handler changes the mask of the one it interrupted |
| `events_exec` | violation | `execve` called in a handler pops the level at which it inhibits signals |
| `events_delete` | violation | a guard that ends with its event queued deletes it twice |
| `request_queue` | pass | refinement of `RequestService`, `NoUseAfterFree`, `QueuedAreCounted`, `CallsReturn`, types; shared requests, a dying and an unwinding caller |
| `request_queue_halt` | violation | `halt()` joins a worker that waits for the mutex `halt()` holds |
| `pipe` | pass | `BytesInOrder`, `CapacityKept`, `EOFMeansDrained`, `NoStaleEvent`, `DeletedOnce`; one reader, one writer, writes larger than the pipe, reopening, unwinding |
| `pipe_poll` | pass | `PollWoken`: a poll for data ends, unless a writer is blocked in its write |
| `pipe_readers` | pass | `EOFSeenByOne`: of two readers one finds out that the last writer has closed |
| `pipe_full` | violation | the end is signalled before the data of a pipe that was left full |
| `pipe_reopen` | violation | a pipe that is opened again with bytes in it is smaller from then on |
| `pipe_large_write` | violation | a write that blocks has not told the poller of the data it has written |
| `pipe_two_readers` | violation | of two readers only one is woken at the end |
| `tcp` | pass | `ReceivedInOrder` and `AcceptedIsWanted` with two faults of the network and streams that fill up |
| `tcp_close` | pass | `EndMeansAll` and `CloseCompletes` on a network without faults |
| `tcp_split` | violation | the rest of a segment that was taken in part has the wrong bytes |
| `tcp_full` | violation | a FIN after data that was taken in part moves `rcv_nxt` past the rest |

The findings in `PROJECT.json` quote the comment or documentation each violation
contradicts.  Outside the conditions of the passing runs more properties fail:
`ResumesInterrupted` once a guard times out inside a handler (`cancel` leaves its level
pushed, and the handler returns to itself) or the stack of a handler is refused;
`JoinDeletesExited` for a joiner that receives events other
than the semaphore's (it takes the wake-up for the end of the thread); a join that
starts after a tick has overwritten `AwaitingJoin` (`Thread.cc:263`) waits for a
thread that is gone; a timeout of `acquire` that goes off before the thread sleeps is
consumed in `sleep()` (`PerProcessorScheduler.cc:558`) and lost.

*Requests.*  `ImplementsService` and `NoUseAfterFree` fail when a caller that unwinds
shares its request; a sharer killed between its acquire and release leaves the
other asleep; with two dying threads one resumes the queue the other is working on;
a thread that dies while its request is executed ends in a `FATAL`;
`isRequestValid` skips the last priority; a stale `m_bInterrupted` makes a call that
did not wait return 0.

*Pipes.*  `BytesInOrder` fails, too, when a named pipe is opened again while a reader is
at it; a poll for `POLLOUT` on a full pipe is never woken, since
`read` does not call `dataChanged`, although `File.h:224` says so of monitors; a writer
that unwinds in its acquire overwrites the oldest byte; the last writer's
`dataChanged` may touch a pipe that is deleted already.

*TCP.*  Only TIME_WAIT starts the timer, so nothing that is lost is sent again,
although `TcpStateBlock.h:266` calls it the "timer for all retransmissions": the
liveness and completeness properties hold for a network without faults only.  A FIN
that overtakes data moves `rcv_nxt` past it (`TcpManagerReceive.cc:655`): the user
sees the end early, and the data is acknowledged and lost.  `fin_seq <= seg_ack`
(`:531`, `:549`) takes an ACK of the data before the FIN for one of the FIN: an end
enters FIN_WAIT_2 or leaves CLOSING early, and then answers the peer's last ACK
with an RST.  `ackSegment` drops all queued segments on an old ACK.  A duplicate SYN
in SYN_RECEIVED resets the connection.  `Disconnect` before the SYN is
answered blocks for ever with `m_TcpMutex` held (`CloseEarly`).  Blocks that an RST
closes in other states than LAST_ACK and CLOSING are never removed.  The
comparisons are plain `uint32_t` ones and fail at the wrap-around.

Deadlock is checked in the scheduler, semaphore and event runs: while a timer can
tick there is always a step.  In the request queue, pipe and TCP runs it is not, since all
users may have finished; their liveness properties show that nobody is left waiting.

### Bounds

Three threads besides idle in the scheduler and mutex runs let one thread run, one
be the target and one stand by; a queue of two is the first with a "behind".  Two
threads are enough for the semaphore's refinement run since release wakes threads
one by one, and the mutex run has three.  Amounts 1 and 2 make a waiter that
cannot be served while another can.  In `thread_life` a third party joins or
detaches the thread that another one joins.  Events: the timeout and one signal;
`MaxQueued` is 1 with many threads and 3 in `scheduler_events` and `ThreadEvents`, where
an event is passed over between two others.  `MaxNested` (16 in the code) is
5 in `events`, above anything that can nest there, and 2 in `events_limit` and
`events_nesting`, below it; `EventTypeCorrect` is proved for any limit.

`request_queue` has two callers and a helper, which can share a request while
another is executed, and two request objects, so that each is used again.  A pipe of
two bytes and writes of one and three make it empty, full and wrapped, and block a
writer half-way.  `MaxReopens` bounds how often a named pipe is opened again: after a
restart that races a read `m_BufAvailable` grows without bound.  In `tcp` the client
sends four bytes, two segments of `Mss` = 2, in one call or in two, and the server one
byte: the first count at which one can overtake another.  Of a call of four bytes a shadow stream
of `StreamSize` 3 takes three, since only the last segment has PSH.  In `tcp_close` each
end sends six bytes; a call of three fits into the stream of 4, one of six does not.  Two faults are needed to have
both a SYN and an ACK of a finished connection arrive again; a server block has a
number of its own (`SeqStep`), and `NoWrap`, which
TLC checks as an assumption, holds.

### Fairness

`mutex` assumes that the timer keeps ticking (`WF(Tick)`): it is a hardware interrupt.
It adds strong fairness of each thread's own next step: a thread that is on the CPU
again and again executes instructions, a tick cannot always come first.
`thread_life` does the same for the steps of join, detach and exit.
`request_queue`, `pipe_poll` and `pipe_readers` are above the scheduler, which gives every ready thread the
CPU: a thread that is inside a call and can go on does (weak fairness of its step),
and so do the worker and a dying thread.  In `tcp_close` segments that are not set aside
arrive, and the timer and the removal of a block that is due happen.  Fairness is
never assumed of releases, signals, alarms, the start of a call, closes, requests to
unwind or timeouts.

## Proofs

The theorems hold for all sets of threads, priorities, events, amounts, levels,
requests and sizes; what else one assumes stands in its statement.  Each rests on
an inductive invariant, which TLC has checked on the instances of the runs before
it was proved.  `SequenceLemmas` says once what `pushBack`, `popFront` and `erase`
do to the elements of a list and to its freedom from duplicates.

* **SchedulerProofs.**  `SchedInv` is the conjunction of the checked invariants
  (types, `ReadyIsQueued`, `QueuedOnce`, `NoDeletedQueued`, `CurrentIsRunning`) with
  what makes it inductive: where dead and unborn threads may be.  The argument is
  carried out on `QueueInv`, the same in terms of "t is in the queues", and lemmas
  say what `Enqueue`, `AfterGetNext` and `Dequeue` do to that set.  Theorems:
  `SchedulerTypeCorrect`, `ReadyThreadsAreQueued`, `CurrentThreadRuns`,
  `ReadyQueuesAreSound`.  `InhibitedEventsAreKept` is about steps and has no hypothesis: an
  event queue changes by an append, a cull or by `EventsAfter`, which takes out one event
  that is not inhibited and turns the rest around it; an injection of the old places
  of an inhibited event into the new ones shows that none is lost.
* **ThreadLifeProofs.**  `ThreadLifeUsesScheduler`, and from `JoinInv` that no
  thread is detached and awaited (`DetachedThreadsHaveNoWaiter`) and that a waiter is
  a live thread in its join (`WaitersAreJoining`); both need to know that nobody
  waits for a thread before it is created.  `JoinDeletesOnlyExited` rests on
  `DeleteInv`: without direct switches only Ready threads are queued, so a joiner
  asleep stays so until its target notifies it.
* **SemaphoreProofs.**  `SemaphoreUsesScheduler`: each semaphore step is a scheduler
  step, so the scheduler's theorems hold here.  `SemaphoreImplementsCounting`: the
  refinement; a read that is compared and swapped later is harmless because the swap
  compares again.  `MutexExcludes` (assuming `Initial = 1`, no producers) from
  `OneUnit`: the unit is free or one thread has it.  `NoWakeupIsLost` (assuming no
  events and no timeouts, which `semaphore_signal` shows to be necessary) from
  `WakeupInv`: whoever sleeps is in the queue or about to be woken, and a queued
  sleeper that could be served has a release on its way.  `SleepersAreQueued`
  (`WaitQueueSound`) needs no hypothesis.  It rests on `WaitInv`, which adds to the
  property what happens while `release` looks through the queue: the threads it has
  set aside are not in the queue too, none of them is asleep, and since it has
  interrupts off nobody changes that; a thread that handles an event before it sleeps
  is awake and in the queue, so a release never takes it out as a sleeper.
* **ThreadEventsProofs.**  `EventTypeCorrect` without assumptions.  The others under
  `Disciplined`: the handlers stay below the nesting limit, guards that time out are
  used in the main code only, `execve` is called at level 0, no user stack is refused; without any one of
  these the properties fail, as said above.  The inductive invariant says that the code at depth d owns
  level d + `expired`, and that the guard's event is queued at most once and only
  while the guard is armed.
* **RequestQueueProofs.**  `RequestQueueTypes`, `RequestsAreDeletedUnused`
  (`NoUseAfterFree`), `QueuedRequestsAreCounted` and `RequestQueueImplementsService`,
  under `NoSharedUnwind`: the callers of a request that others may share are not
  asked to unwind.  The hypothesis is needed.  Without it TLC finds a run of 20 steps
  to a freed request that is still queued: the caller that made it unwinds, releases
  the request's mutex early, and drops its reference when it dies; the one that shares
  it wakes, drops the last one and deletes it.  `RequestInv` is a conjunction of small
  invariants: where each request may be (`PlaceInv`, `ListInv`, `WorkInv`, `NewInv`,
  `FreeInv`), that there is a reference for everyone who uses it (`RefInv`), that its
  mutex is not free before it is executed unless nobody waits for it (`PostInv`), that
  one that cannot be shared has one user (`SoleInv`), who uses a rejected one
  (`RejectInv`), and what a thread has pending and why (`PendingInv`).  `SizeInv` adds
  that `m_RequestQueueSize` counts the queued requests and the unit of a halt, less the
  one the worker has just taken.  The refinement is proved action by action from
  `RequestInv`.
* **PipeProofs.**  `PollLeavesNoEvent` (`NoStaleEvent`) and `PipeIsDeletedOnce`
  without hypotheses, from `PipeInv`: an event or a monitor target belongs to a poll
  that is still going on (`EventInv`, for which a lemma shows that
  `cullMonitorTargets`, although it skips an element, leaves nothing behind in a list
  that has the poll at most once), and a closed descriptor is not used, the pipe being
  deleted only when all are closed (`UseInv`).  A last writer in the `dataChanged` after its
  close is the one exception, in the code and in the property.  `PipeKeepsCapacity` assumes
  `OneOpens`: the pipe is anonymous or has one writer.
  `PipeIsFIFO` (`BytesInOrder`) and `EOFIsTheEnd` (`EOFMeansDrained`) assume `OneEach`:
  one reader and one writer.  All three are about a pipe that has been used in an
  `Orderly` way, as their properties say.  Their invariant `OrderInv` ties the ring to the
  numbers of bytes sent and received: the i-th cell behind the front holds the i-th
  byte not yet read (`RingInv`), `m_BufLen` counts these bytes or is the one unit that
  announces the end of an empty pipe (`CountInv`), and front and back are equal exactly
  when the pipe is empty or full.  `m_Front` and `m_Back` are not locked, so with two readers or two writers the
  order is not promised by the code.
* **TcpProofs.**  `TcpTypes` without hypotheses.  The others assume `NoWrap`: the
  numbers that a connection can use, and a window above them, stay below `SeqMod`, and
  the server's next connection starts above those of its first.  The code compares
  numbers as plain integers and is not right otherwise.  With steps of 64000 the last
  part bounds what the server sends on one connection by 63997 bytes.  It is needed, and as it
  is: with `SeqStep` one smaller TLC finds 16 steps in which the server's next block, which a copy
  of an old SYN has made, gets a number within those of the first connection, and a segment
  of that one opens it, against `AcceptedIsWanted`.  `TcpInv` says where each number may be.  Every segment
  that is on its way, set aside or queued is one its sender may have sent (`SegmentsInv`:
  its bytes are those of its number, a FIN has the last number, an ACK is of something
  sent, and one to the server means that the client has taken its SYN); what is queued lies
  within what was written, and nothing is queued once the FIN is acknowledged, so that the
  timer of TIME_WAIT resends nothing (`QueueOK`); and each end is in one of three conditions:
  no block, the first block, or, at the server, a block made by an old SYN after both
  users have closed, which never opens (`GoneOK`, `FirstOK`, `AgainOK`, with `LiveOK`
  and `StreamOK` for the numbers and the bytes).  It gives `TcpReceivedInOrder`
  and, for a step, `TcpAcceptedIsWanted`: both for any number of
  lost, late and copied segments and for shadow streams that fill up.  `TcpEndMeansAll` adds `CleanInv`, about a network
  that has done nothing wrong and shadow streams that have not been full (`Clean`): what is on its way to an end is a `Chain`, in which each
  segment starts where the one before ends, from the number the end expects to the last
  its peer has used.  It breaks off at a FIN, after which nothing counts, and
  an end that has seen the FIN has all the bytes.  Each handler takes the first segment
  off one chain and may add to the other.

Only model-checked: the liveness properties (`ReadyRuns`, `WaiterWoken`, `JoinerWoken`,
`CallsReturn`, `PollWoken`, `EOFSeenByOne`, `CloseCompletes`), which are out of the prover's
reach.  Every other invariant, step property and refinement of a passing run is proved,
and so are the types of the semaphore and of TcpConnection (`SemTypeOK`, `TypeOK`), which
no run of the table repeats.

## Not modelled, and plan

`RingBuffer` is built like `Pipe` and has the same hazards, and one of its own: its list
is shared by both ends without a lock.  `MemoryPool` (whose allocation and release compute a
buffer's index in different ways, `MemoryPool.cc:125`), `UnlikelyLock`, `Cache` and the
process tree with `waitpid` are the next candidates.  The multiprocessor build,
virtual memory, drivers, file system formats, the linker and the debugger depend on
hardware or are data formats.  Most of the repository's lines are other projects'
code, generated tables, drivers and programs.

Done: scheduler, thread life, semaphore, events, request queue, pipe and poll, TCP
connection, with proofs of all their safety properties.  Next:

1. *Process* and `waitpid`, *MemoryPool*, *UnlikelyLock*.
2. *Cache* with memory pressure.
