----------------------- MODULE PerProcessorScheduler -----------------------
(***************************************************************************)
(* The uniprocessor thread scheduler of the kernel: PerProcessorScheduler, *)
(* its RoundRobin algorithm, and the part of Thread (status, event queue,  *)
(* exit) that the scheduler reads and writes.                              *)
(*                                                                         *)
(* The build modelled is the default one, without MULTIPROCESSOR: one CPU, *)
(* so every section that runs with interrupts disabled is one atomic step, *)
(* and two sections of one thread may be separated by a timer tick or by   *)
(* an interrupt handler.  All the steps of a thread are guarded by the     *)
(* thread being the current one.                                           *)
(*                                                                         *)
(* A context switch and the checkEventState(0) that schedule() calls when  *)
(* the switched-to thread resumes are one step: interrupts are off from    *)
(* the switch up to line 194 and off again in checkEventState, where the   *)
(* kernel-mode handler also runs.                                          *)
(***************************************************************************)
EXTENDS Integers, Sequences, FiniteSets

CONSTANTS
  Threads,        \* every thread object, the idle thread included
  Idle,           \* m_pIdleThread
  Detachable,     \* threads that others may detach
  Mortal,         \* threads that may exit
  Killers,        \* threads that may call doThreadKill
  WakeStates,     \* statuses a thread may have when setStatus(Ready) hits it
  NumPriorities,  \* MAX_PRIORITIES
  Priority,       \* m_Priority of each thread; nothing ever changes it
  Events,         \* event objects; each has a number of its own
  Interrupt,      \* the event whose handler is interruptSemaphore
  MaxQueued,      \* bound: events waiting in one thread's m_EventQueue
  NoThread,       \* a null Thread pointer
  Boot,           \* the thread running at the start
  BootReady       \* the ready queues at the start

Priorities == 0 .. NumPriorities - 1

Statuses == {"Ready", "Running", "Sleeping", "Zombie", "AwaitingJoin",
             "Suspended"}

\* A thread that exits is dying until shutdown() has marked it, then leaving
\* until it has given up the CPU.
Lives == {"unborn", "live", "dying", "leaving", "zombie", "exited", "deleted"}

\* The threads that exist at the start.
Born == {Boot, Idle} \cup {t \in Threads :
           \E i \in Priorities : \E j \in 1 .. Len(BootReady[i]) : BootReady[i][j] = t}

ASSUME ThreadsAssumption ==
  /\ Idle \in Threads /\ Boot \in Threads /\ Boot # Idle
  /\ NoThread \notin Threads
  /\ Detachable \subseteq Threads \ {Idle}
  /\ Mortal \subseteq Threads \ {Idle}
  /\ Killers \subseteq Threads \ {Idle}
  /\ WakeStates \subseteq Statuses

ASSUME PriorityAssumption ==
  /\ NumPriorities \in Nat \ {0}
  /\ Priority \in [Threads -> Priorities]

ASSUME EventsAssumption == Interrupt \in Events /\ MaxQueued \in Nat

ASSUME BootReadyAssumption ==
  /\ BootReady \in [Priorities -> Seq(Threads \ {Idle, Boot})]
  /\ \A i \in Priorities :
       /\ \A j \in 1 .. Len(BootReady[i]) : Priority[BootReady[i][j]] = i
       /\ \A j, k \in 1 .. Len(BootReady[i]) :
            BootReady[i][j] = BootReady[i][k] => j = k

VARIABLES
  status,       \* m_Status of each thread
  current,      \* Processor::information().getCurrentThread()
  ready,        \* RoundRobin::m_pReadyQueues
  frame,        \* what the saved context of a thread returns into
  eventQ,       \* m_EventQueue of each thread
  inhibit,      \* m_InhibitMask of each thread (state level 0)
  interrupted,  \* m_bInterrupted of each thread
  killing,      \* the thread a doThreadKill in progress will switch to
  detached,     \* threads with m_bDetached
  life          \* how far a thread is from creation to destruction

schedVars == <<status, current, ready, frame, eventQ, inhibit, interrupted,
               killing, detached, life>>

----------------------------------------------------------------------------
(* RoundRobin *)

Queued(q, t) == \E j \in 1 .. Len(q) : q[j] = t

\* Mutant: last in, first out.
MutantEnqueueFront(rq, t) ==
  IF Queued(rq[Priority[t]], t) THEN rq
  ELSE [rq EXCEPT ![Priority[t]] = <<t>> \o @]

\* threadStatusChanged for a thread that has become Ready.
Enqueue(rq, t) ==
  IF Queued(rq[Priority[t]], t) THEN rq
  ELSE [rq EXCEPT ![Priority[t]] = Append(@, t)]

\* The queues whose front is another thread than c.
Candidates(c) == {i \in Priorities : ready[i] # <<>> /\ Head(ready[i]) # c}

\* The queue at which getNext's loop over the priorities stops, if any.
Stop(c) == {i \in Candidates(c) : \A j \in Candidates(c) : i <= j}

\* The thread getNext returns, with c current.
GetNext(c) ==
  IF Stop(c) = {} THEN NoThread
  ELSE Head(ready[CHOOSE i \in Stop(c) : TRUE])

\* Mutant: getNext takes the front off every queue, wherever it stops.
MutantPopAll(c) ==
  [i \in Priorities |-> IF ready[i] # <<>> THEN Tail(ready[i]) ELSE ready[i]]

\* getNext takes the front off every nonempty queue it meets: the one it
\* returns a thread of, and those before it, whose front is c itself and which
\* it searches no further.
AfterGetNext(c) ==
  [i \in Priorities |->
     IF ready[i] # <<>> /\ \A j \in Candidates(c) : i <= j
     THEN Tail(ready[i]) ELSE ready[i]]

\* Mutant: removeThread finds nothing to remove.
MutantDequeue(rq, t) == rq

\* RoundRobin::removeThread; a thread is in a queue once at most.
Dequeue(rq, t) ==
  [i \in Priorities |->
     IF ~Queued(rq[i], t) THEN rq[i]
     ELSE LET k == CHOOSE j \in 1 .. Len(rq[i]) : rq[i][j] = t
          IN SubSeq(rq[i], 1, k - 1) \o SubSeq(rq[i], k + 1, Len(rq[i]))]

----------------------------------------------------------------------------
(* Events *)

Deliverable(t) == {i \in 1 .. Len(eventQ[t]) : eventQ[t][i] \notin inhibit[t]}

\* Where getNextEvent's scan of the event queue of t ends, if it finds anything.
FirstDeliverable(t) ==
  {i \in Deliverable(t) : \A j \in Deliverable(t) : i <= j}

\* The event queue after getNextEvent: the inhibited events in front of the
\* one it returns have moved behind the others.
EventsAfter(t) ==
  IF FirstDeliverable(t) = {} THEN eventQ[t]
  ELSE LET k == CHOOSE i \in FirstDeliverable(t) : TRUE
       IN SubSeq(eventQ[t], k + 1, Len(eventQ[t])) \o SubSeq(eventQ[t], 1, k - 1)

\* checkEventState(0) run by thread t: at most one event, whose handler is
\* interruptSemaphore or has no effect on the scheduler.  intr holds the
\* m_bInterrupted flags the handler may set.
CheckEventState(t, intr) ==
  /\ eventQ' = [eventQ EXCEPT ![t] = EventsAfter(t)]
  /\ interrupted' =
       [intr EXCEPT ![t] = @ \/ \E i \in FirstDeliverable(t) :
                                  eventQ[t][i] = Interrupt]

\* A switch to n: a thread that left through schedule() checks its events,
\* a new one, or one that created a thread, does not.
RestoreState(n, intr) ==
  IF frame[n] = "schedule" THEN CheckEventState(n, intr)
  ELSE eventQ' = eventQ /\ interrupted' = intr

----------------------------------------------------------------------------
(* Switching threads *)

\* schedule(nextStatus) with nothing to switch to and no need to.
ScheduleReturns(intr) ==
  /\ GetNext(current) = NoThread
  /\ ready' = AfterGetNext(current)
  /\ interrupted' = intr
  /\ UNCHANGED <<status, current, frame, eventQ>>

\* Mutant: the status of the thread that gets the CPU is not set.
MutantSwitchStatus(n, nextStatus, popped, intr) ==
  /\ status' = IF current = Idle THEN status
               ELSE [status EXCEPT ![current] = nextStatus]
  /\ ready' = IF current # Idle /\ nextStatus = "Ready"
              THEN Enqueue(popped, current) ELSE popped
  /\ current' = n
  /\ frame' = [frame EXCEPT ![current] = "schedule"]
  /\ RestoreState(n, intr)

\* The part of schedule() after the next thread n is chosen.
Switch(n, nextStatus, popped, intr) ==
  LET left == IF current = Idle THEN status
              ELSE [status EXCEPT ![current] = nextStatus]
  IN /\ status' = [left EXCEPT ![n] = "Running"]
     /\ ready' = IF current # Idle /\ nextStatus = "Ready"
                 THEN Enqueue(popped, current) ELSE popped
     /\ current' = n
     /\ frame' = [frame EXCEPT ![current] = "schedule"]
     /\ RestoreState(n, intr)

\* schedule(nextStatus): the next thread comes from the ready queues, or is
\* the idle thread when the current one may not go on.
Schedule(nextStatus, intr) ==
  \/ nextStatus = "Ready" /\ ScheduleReturns(intr)
  \/ /\ GetNext(current) # NoThread
     /\ Switch(GetNext(current), nextStatus, AfterGetNext(current), intr)
  \/ /\ GetNext(current) = NoThread /\ nextStatus # "Ready"
     /\ Switch(Idle, nextStatus, AfterGetNext(current), intr)

----------------------------------------------------------------------------
(* The calls threads and interrupt handlers make.                          *)

\* A thread that gave up its context for good is on the CPU again.
Panicked == life[current] \in {"zombie", "exited"}

\* The current thread is running code of its own choice.
Free == current # Idle /\ life[current] = "live" /\ killing[current] = NoThread

Exists(t) == life[t] \notin {"unborn", "deleted"}

\* The timer interrupt, or a thread that yields.
Tick ==
  /\ ~Panicked
  /\ Schedule("Ready", interrupted)
  /\ UNCHANGED <<inhibit, killing, detached, life>>

\* sleep() up to its call of schedule(): one pending event is handled, if one is
\* still there once the caller's lock has been released.
HandleEvent ==
  /\ Free
  /\ CheckEventState(current, interrupted)
  /\ UNCHANGED <<status, current, ready, frame, inhibit, killing, detached, life>>

\* setInterrupted(false), by a thread about to wait.
ClearInterrupted ==
  /\ Free
  /\ interrupted' = [interrupted EXCEPT ![current] = FALSE]
  /\ UNCHANGED <<status, current, ready, frame, eventQ, inhibit, killing,
                 detached, life>>

\* The rest of sleep(), entered with m_bInterrupted as it is or just cleared.
Sleep ==
  /\ Free
  /\ \E intr \in {interrupted, [interrupted EXCEPT ![current] = FALSE]} :
       Schedule("Sleeping", intr)
  /\ UNCHANGED <<inhibit, killing, detached, life>>

\* setStatus(Ready) on another thread, which Semaphore::release,
\* Thread::shutdown and posix_pthread_enable_thread do whatever the status of
\* that thread has become by then.
Wake(t) ==
  /\ ~Panicked
  /\ Exists(t) /\ t \notin {current, Idle} /\ status[t] \in WakeStates
  /\ status' = [status EXCEPT ![t] = "Ready"]
  /\ ready' = Enqueue(ready, t)
  /\ UNCHANGED <<current, frame, eventQ, inhibit, interrupted, killing, detached,
                 life>>

\* Thread::sendEvent, called by a thread or an interrupt handler.
PostEvent(t, e) ==
  /\ eventQ' = [eventQ EXCEPT ![t] = Append(@, e)]
  /\ IF status[t] = "Sleeping"
     THEN /\ status' = [status EXCEPT ![t] = "Ready"]
          /\ ready' = Enqueue(ready, t)
     ELSE UNCHANGED <<status, ready>>

SendEvent(t, e) ==
  /\ ~Panicked
  /\ Exists(t) /\ t # Idle
  /\ Len(eventQ[t]) < MaxQueued
  /\ PostEvent(t, e)
  /\ UNCHANGED <<current, frame, inhibit, interrupted, killing, detached, life>>

InhibitEvent(e, bInhibit) ==
  /\ Free
  /\ inhibit' = [inhibit EXCEPT ![current] =
                   IF bInhibit THEN @ \cup {e} ELSE @ \ {e}]
  /\ UNCHANGED <<status, current, ready, frame, eventQ, interrupted, killing,
                 detached, life>>

\* Thread::cullEvent by the thread itself: every e leaves its queue, inhibited
\* or not, and the others keep their order.
CullEvent(e) ==
  /\ Free
  /\ LET q == eventQ[current]
         kept == {i \in 1 .. Len(q) : q[i] # e}
     IN \E n \in 0 .. Len(q) : \E f \in [1 .. n -> kept] :
          /\ \A i, j \in 1 .. n : i < j => f[i] < f[j]
          /\ \A k \in kept : \E i \in 1 .. n : f[i] = k
          /\ eventQ' = [eventQ EXCEPT ![current] = [i \in 1 .. n |-> q[f[i]]]]
  /\ UNCHANGED <<status, current, ready, frame, inhibit, interrupted, killing,
                 detached, life>>

\* posix_kill passes over zombies.
Killable(t) == t \notin {current, Idle} /\ status[t] # "Zombie"

\* doThreadKill up to its call of schedule().  A suspended thread accepts only
\* SIGKILL and SIGCONT, and the signals sent here are those.
KillSend(t, e) ==
  /\ Free /\ current \in Killers
  /\ Exists(t) /\ Killable(t)
  /\ Len(eventQ[t]) < MaxQueued
  /\ PostEvent(t, e)
  /\ killing' = [killing EXCEPT ![current] = t]
  /\ UNCHANGED <<current, frame, inhibit, interrupted, detached, life>>

\* The rest of doThreadKill: schedule(Ready, p), which does not ask RoundRobin
\* for the next thread and so leaves p in its ready queue.  (If p has been
\* deleted since, p dangles, and no step is defined.)
KillSwitch ==
  /\ ~Panicked
  /\ killing[current] # NoThread /\ Exists(killing[current])
  /\ Switch(killing[current], "Ready", ready, interrupted)
  /\ killing' = [killing EXCEPT ![current] = NoThread]
  /\ UNCHANGED <<inhibit, detached, life>>

\* Process::suspend.
Suspend ==
  /\ Free
  /\ Schedule("Suspended", interrupted)
  /\ UNCHANGED <<inhibit, killing, detached, life>>

\* The constructor of a thread, which runs at once: addThread.
CreateThread(t) ==
  /\ Free
  /\ life[t] = "unborn"
  /\ status' = [status EXCEPT ![current] = "Ready", ![t] = "Running"]
  /\ ready' = Enqueue(ready, current)
  /\ current' = t
  /\ frame' = [frame EXCEPT ![current] = "addThread"]
  /\ life' = [life EXCEPT ![t] = "live"]
  /\ UNCHANGED <<eventQ, inhibit, interrupted, killing, detached>>

\* Thread::shutdown, called by killCurrentThread with interrupts enabled: the
\* thread takes back its requests and wakes its waiter, which is a Wake.
Shutdown ==
  /\ Free /\ current \in Mortal
  /\ life' = [life EXCEPT ![current] = "dying"]
  /\ UNCHANGED <<status, current, ready, frame, eventQ, inhibit, interrupted,
                 killing, detached>>

\* The end of shutdown.
AwaitJoin ==
  /\ life[current] = "dying"
  /\ status' = IF current \in detached THEN status
               ELSE [status EXCEPT ![current] = "AwaitingJoin"]
  /\ life' = [life EXCEPT ![current] = "leaving"]
  /\ UNCHANGED <<current, ready, frame, eventQ, inhibit, interrupted, killing,
                 detached>>

\* Thread::detach by another thread.
Detach(t) ==
  /\ Free
  /\ t \in Detachable \ {current} /\ Exists(t)
  /\ detached' = detached \cup {t}
  /\ UNCHANGED <<status, current, ready, frame, eventQ, inhibit, interrupted,
                 killing, life>>

\* Mutant: a thread that exits with nobody ready does not fall back on the idle
\* thread.
MutantKillCurrentThread ==
  /\ life[current] = "leaving"
  /\ current' = GetNext(current)
  /\ status' = [status EXCEPT ![current'] = "Running"]
  /\ ready' = AfterGetNext(current)
  /\ life' = [life EXCEPT ![current] = "exited"]
  /\ UNCHANGED <<frame, eventQ, inhibit, interrupted, killing, detached>>

\* The rest of killCurrentThread.  A detached thread is deleted, and with it
\* its place in the ready queues.
KillCurrentThread ==
  /\ life[current] = "leaving"
  /\ LET n == IF GetNext(current) = NoThread THEN Idle ELSE GetNext(current)
     IN /\ status' = [status EXCEPT ![n] = "Running"]
        /\ current' = n
        /\ RestoreState(n, interrupted)
  /\ IF current \in detached
     THEN /\ ready' = Dequeue(AfterGetNext(current), current)
          /\ life' = [life EXCEPT ![current] = "deleted"]
     ELSE /\ ready' = AfterGetNext(current)
          /\ life' = [life EXCEPT ![current] = "exited"]
  /\ UNCHANGED <<frame, inhibit, killing, detached>>

\* schedule(Zombie) with a thread w that waits for the process: setStatus(Zombie)
\* runs notifyWaiters, which makes w ready when the next thread, w or another
\* one, has been chosen already.  A further waiter is a Wake that follows.
NotifyingSwitch(w) ==
  LET n == IF GetNext(current) = NoThread THEN Idle ELSE GetNext(current)
  IN /\ Exists(w) /\ w \notin {current, Idle} /\ status[w] \in WakeStates
     /\ status' = [status EXCEPT ![current] = "Zombie", ![w] = "Ready",
                                 ![n] = "Running"]
     /\ ready' = Enqueue(AfterGetNext(current), w)
     /\ current' = n
     /\ frame' = [frame EXCEPT ![current] = "schedule"]
     /\ RestoreState(n, interrupted)

\* Process::kill for a process with a parent: schedule(Zombie).
ExitProcess ==
  /\ Free /\ current \in Mortal
  /\ Schedule("Zombie", interrupted) \/ \E w \in Threads : NotifyingSwitch(w)
  /\ life' = [life EXCEPT ![current] = "zombie"]
  /\ UNCHANGED <<inhibit, killing, detached>>

\* The destructor of a thread that is exiting or has exited, run by the thread
\* that joins it or reaps its process.
Destroy(t) ==
  /\ Free
  /\ t # current /\ life[t] \in {"dying", "leaving", "zombie", "exited"}
  /\ ready' = Dequeue(ready, t)
  /\ life' = [life EXCEPT ![t] = "deleted"]
  /\ UNCHANGED <<status, current, frame, eventQ, inhibit, interrupted, killing,
                 detached>>

\* The FATAL behind schedule(Zombie) in Process::kill, or the stale context of
\* a thread that called killCurrentThread: nothing defined happens any more.
Panic == Panicked /\ UNCHANGED schedVars

----------------------------------------------------------------------------
SchedInit ==
  /\ current = Boot
  /\ status = [t \in Threads |-> IF t \in {Boot, Idle} THEN "Running" ELSE "Ready"]
  /\ ready = BootReady
  /\ frame = [t \in Threads |-> IF t \in Born THEN "schedule" ELSE "new"]
  /\ eventQ = [t \in Threads |-> <<>>]
  /\ inhibit = [t \in Threads |-> {}]
  /\ interrupted = [t \in Threads |-> FALSE]
  /\ killing = [t \in Threads |-> NoThread]
  /\ detached = {}
  /\ life = [t \in Threads |-> IF t \in Born THEN "live" ELSE "unborn"]

SchedNext ==
  \/ Tick \/ HandleEvent \/ ClearInterrupted \/ Sleep \/ Suspend \/ KillSwitch
  \/ Shutdown \/ AwaitJoin \/ KillCurrentThread \/ ExitProcess \/ Panic
  \/ \E t \in Threads : Wake(t) \/ CreateThread(t) \/ Detach(t) \/ Destroy(t)
  \/ \E t \in Threads, e \in Events : SendEvent(t, e) \/ KillSend(t, e)
  \/ \E e \in Events : CullEvent(e) \/ \E b \in BOOLEAN : InhibitEvent(e, b)

SchedSpec == SchedInit /\ [][SchedNext]_schedVars

\* The scheduler's timer keeps firing.
SchedFairSpec == SchedSpec /\ WF_schedVars(Tick)

----------------------------------------------------------------------------
(* Properties *)

\* The type of every variable: in particular the CPU always has a thread, and
\* schedule() and killCurrentThread never switch to a null pointer.
SchedTypeOK ==
  /\ status \in [Threads -> Statuses]
  /\ current \in Threads
  /\ ready \in [Priorities -> Seq(Threads)]
  /\ frame \in [Threads -> {"new", "schedule", "addThread"}]
  /\ eventQ \in [Threads -> Seq(Events)]
  /\ inhibit \in [Threads -> SUBSET Events]
  /\ interrupted \in [Threads -> BOOLEAN]
  /\ killing \in [Threads -> Threads \cup {NoThread}]
  /\ detached \subseteq Threads
  /\ life \in [Threads -> Lives]

\* RoundRobin never loses a thread: a thread that is Ready waits in the ready
\* queue of its priority, whatever order of ticks, sleeps, wake-ups, events,
\* direct switches and exits made it Ready.
ReadyIsQueued ==
  \A t \in Threads :
    status[t] = "Ready" /\ Exists(t) => Queued(ready[Priority[t]], t)

\* A thread waits in one ready queue only, the one of its priority, and once.
QueuedOnce ==
  \A i \in Priorities : \A j, k \in 1 .. Len(ready[i]) :
    /\ Priority[ready[i][j]] = i
    /\ ready[i][j] = ready[i][k] => j = k

\* No ready queue holds the idle thread or a thread object that has been
\* deleted: getNext never returns a dangling pointer.
NoDeletedQueued ==
  \A i \in Priorities : \A j \in 1 .. Len(ready[i]) :
    ready[i][j] # Idle /\ Exists(ready[i][j])

\* The ready queues are sound: getNext returns a thread that exists, from one place.
ReadyQueuesSound == QueuedOnce /\ NoDeletedQueued

\* The current thread is never also Sleeping, Suspended or Ready: the status of
\* the thread on the CPU tells the truth until it has begun to exit.
CurrentIsRunning ==
  \/ status[current] = "Running"
  \/ status[current] = "AwaitingJoin" /\ life[current] = "leaving"

\* A process that has called schedule(Zombie) is never on the CPU again.
ZombieNeverRuns == life[current] # "zombie"

\* FIFO scheduling within the highest priority: a Ready thread of priority 0
\* gets the CPU, whatever the other threads do, as long as the timer ticks.
ReadyRuns ==
  \A t \in Threads \ {Idle} :
    (Priority[t] = 0 /\ status[t] = "Ready" /\ Exists(t)) ~> (current = t)
=============================================================================
