----------------------------- MODULE Semaphore -----------------------------
(***************************************************************************)
(* A Semaphore used by the threads of PerProcessorScheduler: acquire, with *)
(* and without a timeout, and release, racing timer ticks, alarms, signals *)
(* and the unwinding of threads.  A Mutex is a Semaphore with Initial = 1. *)
(*                                                                         *)
(* The spinlock m_BeingModified disables interrupts, so on one CPU what it *)
(* guards is one step.  tryAcquire outside of it is two: m_Counter is read *)
(* and compared in one, swapped in the other.                              *)
(*                                                                         *)
(* A thread that is woken runs the checkEventState of schedule() in the    *)
(* step that switches to it.                                               *)
(***************************************************************************)
EXTENDS PerProcessorScheduler

CONSTANTS
  Initial,     \* nInitialValue
  Amounts,     \* how much a caller may acquire or release
  Timeouts,    \* whether callers give a timeout: a subset of BOOLEAN
  Producers,   \* threads that release what they have not acquired
  MaxValue,    \* bound: units free when a producer has released
  Signals,     \* events other than the timeout that threads may be sent
  Unwindable   \* threads that may be told to unwind

ASSUME SemaphoreAssumption ==
  /\ Initial \in Nat
  /\ Amounts \subseteq Nat \ {0}
  /\ Timeouts \subseteq BOOLEAN
  /\ Producers \subseteq Threads
  /\ MaxValue \in Nat
  /\ Signals \subseteq Events
  /\ Unwindable \subseteq Threads

VARIABLES
  counter,   \* m_Counter
  semQ,      \* m_Queue
  pending,   \* stillPendingThreads of the release that holds m_BeingModified
  pc,        \* where each thread is in acquire or release
  need,      \* n of the acquire each thread is in
  seen,      \* value, in tryAcquire
  alarm,     \* pEvent of each thread: none, to be made, armed, or fired
  wakeups,   \* wakeupThreads of the release each thread is in
  unwind,    \* threads whose getUnwindState() is not Continue
  held       \* units a thread has acquired and not yet released (history)

semOnly == <<counter, semQ, pending, pc, need, seen, alarm, wakeups, unwind,
             held>>
semVars == <<schedVars, semOnly>>

Labels == {"out", "once", "onceSwap", "try", "swap", "loop", "loopSwap", "leave",
           "lock", "handle", "relock", "woken", "check", "count", "collect",
           "pick", "wake"}

\* The labels of acquire and tryAcquire up to the swap that succeeds.
Asking == {"once", "onceSwap", "try", "swap", "loop", "loopSwap", "lock",
           "handle", "relock", "woken", "check"}

----------------------------------------------------------------------------
(* Helpers *)

\* The current thread is at label l.
At(l) == Free /\ pc[current] = l

Goto(l) == pc' = [pc EXCEPT ![current] = l]

\* removeThread: an entry of t leaves the queue.
RemoveThread(t) ==
  IF ~Queued(semQ, t) THEN semQ
  ELSE LET k == CHOOSE i \in 1 .. Len(semQ) : semQ[i] = t
       IN SubSeq(semQ, 1, k - 1) \o SubSeq(semQ, k + 1, Len(semQ))

\* acquire returns: its local variables are gone, and so is its alarm.
Return ==
  /\ Goto("out")
  /\ need' = [need EXCEPT ![current] = 0]
  /\ alarm' = [alarm EXCEPT ![current] = "none"]

\* addAlarm, if the caller has given a timeout.
ArmAlarm ==
  alarm' = [alarm EXCEPT ![current] = IF @ = "wanted" THEN "armed" ELSE @]

\* The caller now holds what it asked for.
Take ==
  /\ counter' = counter - need[current]
  /\ held' = [held EXCEPT ![current] = @ + need[current]]

----------------------------------------------------------------------------
(* acquire *)

CallAcquire(n, timeout) ==
  /\ At("out") /\ held[current] = 0
  /\ need' = [need EXCEPT ![current] = n]
  /\ alarm' = [alarm EXCEPT ![current] = IF timeout THEN "wanted" ELSE "none"]
  /\ Goto("try")
  /\ UNCHANGED <<schedVars, counter, semQ, seen, pending, wakeups, unwind,
                 held>>

\* tryAcquire called by itself; it has no timeout.
CallTryAcquire(n) ==
  /\ At("out") /\ held[current] = 0
  /\ need' = [need EXCEPT ![current] = n]
  /\ Goto("once")
  /\ UNCHANGED <<schedVars, counter, semQ, seen, alarm, pending, wakeups,
                 unwind, held>>

Once ==
  /\ At("once")
  /\ IF counter >= need[current]
     THEN /\ seen' = [seen EXCEPT ![current] = counter]
          /\ Goto("onceSwap") /\ UNCHANGED <<need, alarm>>
     ELSE Return /\ UNCHANGED seen
  /\ UNCHANGED <<schedVars, counter, semQ, pending, wakeups, unwind, held>>

OnceSwap ==
  /\ At("onceSwap")
  /\ \/ counter = seen[current] /\ Take
     \/ counter # seen[current] /\ UNCHANGED <<counter, held>>
  /\ Return
  /\ seen' = [seen EXCEPT ![current] = 0]
  /\ UNCHANGED <<schedVars, semQ, pending, wakeups, unwind>>

\* The tryAcquire of the fast path, up to its comparison.  If it is of no use
\* the alarm is registered.
Try ==
  /\ At("try")
  /\ IF counter >= need[current]
     THEN /\ seen' = [seen EXCEPT ![current] = counter]
          /\ Goto("swap") /\ UNCHANGED alarm
     ELSE /\ Goto("loop") /\ UNCHANGED seen
          /\ ArmAlarm
  /\ UNCHANGED <<schedVars, counter, semQ, need, pending, wakeups, unwind,
                 held>>

\* Mutant: the counter is written without comparing it with the value read.
MutantSwap ==
  /\ At("swap")
  /\ counter' = seen[current] - need[current]
  /\ held' = [held EXCEPT ![current] = @ + need[current]]
  /\ Return
  /\ seen' = [seen EXCEPT ![current] = 0]
  /\ UNCHANGED <<schedVars, semQ, pending, wakeups, unwind>>

Swap ==
  /\ At("swap")
  /\ \/ /\ counter = seen[current]
        /\ Take /\ Return
     \/ /\ counter # seen[current]
        /\ Goto("loop")
        /\ ArmAlarm
        /\ UNCHANGED <<counter, need, held>>
  /\ seen' = [seen EXCEPT ![current] = 0]
  /\ UNCHANGED <<schedVars, semQ, pending, wakeups, unwind>>

\* The tryAcquire at the head of the loop.
Loop ==
  /\ At("loop")
  /\ IF counter >= need[current]
     THEN seen' = [seen EXCEPT ![current] = counter] /\ Goto("loopSwap")
     ELSE Goto("lock") /\ UNCHANGED seen
  /\ UNCHANGED <<schedVars, counter, semQ, need, alarm, pending, wakeups,
                 unwind, held>>

LoopSwap ==
  /\ At("loopSwap")
  /\ \/ counter = seen[current] /\ Take /\ Goto("leave")
     \/ counter # seen[current] /\ Goto("lock") /\ UNCHANGED <<counter, held>>
  /\ seen' = [seen EXCEPT ![current] = 0]
  /\ UNCHANGED <<schedVars, semQ, need, alarm, pending, wakeups, unwind>>

\* The return with success: the alarm is removed, then the thread.
Leave ==
  /\ At("leave")
  /\ semQ' = RemoveThread(current)
  /\ Return
  /\ UNCHANGED <<schedVars, counter, seen, pending, wakeups, unwind, held>>

\* Mutant: the second check under the lock is missing.
MutantLock ==
  /\ At("lock")
  /\ semQ' = Append(semQ, current)
  /\ IF eventQ[current] = <<>>
     THEN /\ Schedule("Sleeping", [interrupted EXCEPT ![current] = FALSE])
          /\ UNCHANGED <<inhibit, killing, detached, life>>
          /\ Goto("woken")
     ELSE /\ ClearInterrupted
          /\ Goto("handle")
  /\ UNCHANGED <<counter, need, seen, alarm, pending, wakeups, unwind, held>>

\* Under m_BeingModified: one more tryAcquire, or the thread joins the queue and
\* sleeps.  With events pending, sleep() releases the lock to handle one.
Lock ==
  /\ At("lock")
  /\ \/ /\ counter >= need[current]
        /\ Take /\ Return
        /\ semQ' = RemoveThread(current)
        /\ UNCHANGED schedVars
     \/ /\ counter < need[current]
        /\ semQ' = Append(semQ, current)
        /\ IF eventQ[current] = <<>>
           THEN /\ Schedule("Sleeping", [interrupted EXCEPT ![current] = FALSE])
                /\ UNCHANGED <<inhibit, killing, detached, life>>
                /\ Goto("woken")
           ELSE /\ ClearInterrupted
                /\ Goto("handle")
        /\ UNCHANGED <<counter, need, alarm, held>>
  /\ UNCHANGED <<seen, pending, wakeups, unwind>>

\* sleep() handles an event with the lock released ...
Handle ==
  /\ At("handle")
  /\ HandleEvent
  /\ Goto("relock")
  /\ UNCHANGED <<counter, semQ, need, seen, alarm, pending, wakeups, unwind,
                 held>>

\* ... and sleeps without asking again whether it should.
Relock ==
  /\ At("relock")
  /\ Schedule("Sleeping", interrupted)
  /\ Goto("woken")
  /\ UNCHANGED <<inhibit, killing, detached, life>>
  /\ UNCHANGED <<counter, semQ, need, seen, alarm, pending, wakeups, unwind,
                 held>>

Woken ==
  /\ At("woken")
  /\ semQ' = RemoveThread(current)
  /\ Goto("check")
  /\ UNCHANGED <<schedVars, counter, need, seen, alarm, pending, wakeups,
                 unwind, held>>

\* "Why were we woken?"
Check ==
  /\ At("check")
  /\ IF interrupted[current] \/ current \in unwind
     THEN Return
     ELSE Goto("loop") /\ UNCHANGED <<need, alarm>>
  /\ UNCHANGED <<schedVars, counter, semQ, seen, pending, wakeups, unwind,
                 held>>

----------------------------------------------------------------------------
(* release *)

CallRelease(n) ==
  /\ At("out")
  /\ \/ /\ n <= held[current]
        /\ held' = [held EXCEPT ![current] = @ - n]
     \/ /\ current \in Producers /\ counter + n <= MaxValue
        /\ UNCHANGED held
  /\ counter' = counter + n
  /\ Goto("count")
  /\ UNCHANGED <<schedVars, semQ, need, seen, alarm, pending, wakeups, unwind>>

Count ==
  /\ At("count")
  /\ Goto(IF semQ = <<>> THEN "out" ELSE "collect")
  /\ UNCHANGED <<schedVars, counter, semQ, pending, need, seen, alarm, wakeups,
                 unwind, held>>

\* m_BeingModified is acquired, and interrupts are off.
Collect ==
  /\ At("collect")
  /\ Goto("pick")
  /\ UNCHANGED <<schedVars, counter, semQ, pending, need, seen, alarm, wakeups,
                 unwind, held>>

\* Mutant: the threads that are not to be woken are not put back.
MutantPick ==
  /\ At("pick")
  /\ \/ /\ semQ # <<>>
        /\ IF status[Head(semQ)] = "Sleeping"
           THEN wakeups' = [wakeups EXCEPT ![current] = Append(@, Head(semQ))]
           ELSE UNCHANGED wakeups
        /\ semQ' = Tail(semQ)
        /\ UNCHANGED <<pending, pc>>
     \/ /\ semQ = <<>>
        /\ Goto("wake")
        /\ UNCHANGED <<semQ, pending, wakeups>>
  /\ UNCHANGED <<schedVars, counter, need, seen, alarm, unwind, held>>

\* Sleepers leave the queue to be woken; the others go back into it at the end,
\* when the lock is released.  (None is a zombie or out of the schedule: a
\* thread in acquire is not exiting.)
Pick ==
  /\ At("pick")
  /\ \/ /\ semQ # <<>>
        /\ IF status[Head(semQ)] = "Sleeping"
           THEN /\ wakeups' =
                     [wakeups EXCEPT ![current] = Append(@, Head(semQ))]
                /\ UNCHANGED pending
           ELSE /\ pending' = Append(pending, Head(semQ))
                /\ UNCHANGED wakeups
        /\ semQ' = Tail(semQ)
        /\ UNCHANGED pc
     \/ /\ semQ = <<>>
        /\ semQ' = pending /\ pending' = <<>>
        /\ Goto("wake")
        /\ UNCHANGED wakeups
  /\ UNCHANGED <<schedVars, counter, need, seen, alarm, unwind, held>>

\* Mutant: release sets the status without telling the scheduler.
MutantWakeOne ==
  /\ At("wake") /\ wakeups[current] # <<>>
  /\ status' = [status EXCEPT ![Head(wakeups[current])] = "Ready"]
  /\ wakeups' = [wakeups EXCEPT ![current] = Tail(@)]
  /\ UNCHANGED <<current, ready, frame, eventQ, inhibit, interrupted, killing,
                 detached, life>>
  /\ UNCHANGED <<counter, semQ, pending, pc, need, seen, alarm, unwind, held>>

\* setStatus(Ready) on the next thread of the list, whatever it is doing now.
WakeOne ==
  /\ At("wake") /\ wakeups[current] # <<>>
  /\ Wake(Head(wakeups[current]))
  /\ wakeups' = [wakeups EXCEPT ![current] = Tail(@)]
  /\ UNCHANGED <<counter, semQ, pending, pc, need, seen, alarm, unwind, held>>

Released ==
  /\ At("wake") /\ wakeups[current] = <<>>
  /\ Goto("out")
  /\ UNCHANGED <<schedVars, counter, semQ, pending, need, seen, alarm, wakeups,
                 unwind, held>>

----------------------------------------------------------------------------
(* What interrupts the callers. *)

\* release() holds m_BeingModified: no interrupt comes in.
Masked == pc[current] = "pick"

\* The timer interrupt.
SemTick == ~Masked /\ Tick /\ UNCHANGED semOnly

\* The alarm of a timed acquire goes off: its event is sent.
AlarmFires(t) ==
  /\ ~Masked /\ alarm[t] = "armed"
  /\ SendEvent(t, Interrupt)
  /\ alarm' = [alarm EXCEPT ![t] = "fired"]
  /\ UNCHANGED <<counter, semQ, pc, need, seen, pending, wakeups, unwind, held>>

\* A signal or another event, from an interrupt handler or another thread.
Signal(t, e) == ~Masked /\ SendEvent(t, e) /\ UNCHANGED semOnly

\* doThreadKill by a thread that is not using the semaphore.
Kill ==
  /\ \/ At("out") /\ \E t \in Threads, e \in Signals : KillSend(t, e)
     \/ KillSwitch
  /\ UNCHANGED semOnly

\* setUnwindState, for a thread that blocks an exiting one.
Unwind(t) ==
  /\ At("out") /\ t # current /\ t \notin unwind
  /\ unwind' = unwind \cup {t}
  /\ UNCHANGED <<schedVars, counter, semQ, pc, need, seen, alarm, pending,
                 wakeups, held>>

----------------------------------------------------------------------------
SemInit ==
  /\ SchedInit
  /\ counter = Initial
  /\ semQ = <<>>
  /\ pending = <<>>
  /\ pc = [t \in Threads |-> "out"]
  /\ need = [t \in Threads |-> 0]
  /\ seen = [t \in Threads |-> 0]
  /\ alarm = [t \in Threads |-> "none"]
  /\ wakeups = [t \in Threads |-> <<>>]
  /\ unwind = {}
  /\ held = [t \in Threads |-> 0]

\* The steps of acquire and release behind their entry.
SemStep ==
  \/ Once \/ OnceSwap
  \/ Try \/ Swap \/ Loop \/ LoopSwap \/ Leave \/ Lock \/ Handle \/ Relock
  \/ Woken \/ Check \/ Count \/ Collect \/ Pick \/ WakeOne \/ Released

SemNext ==
  \/ \E n \in Amounts, w \in Timeouts : CallAcquire(n, w)
  \/ \E n \in Amounts : CallTryAcquire(n) \/ CallRelease(n)
  \/ SemStep
  \/ SemTick \/ Kill
  \/ \E t \in Threads : AlarmFires(t)
  \/ \E t \in Threads, e \in Signals : Signal(t, e)
  \/ \E t \in Unwindable : Unwind(t)

SemSpec == SemInit /\ [][SemNext]_semVars

\* The timer keeps ticking, and a thread that gets the CPU again and again
\* gets on with its call.
SemFairSpec ==
  /\ SemSpec
  /\ WF_semVars(SemTick)
  /\ \A t \in Threads : SF_semVars(current = t /\ SemStep)

----------------------------------------------------------------------------
(* Properties *)

\* The type of every variable: in particular m_Counter, which is unsigned in
\* effect, never drops below zero.
SemTypeOK ==
  /\ counter \in Nat
  /\ semQ \in Seq(Threads) /\ pending \in Seq(Threads)
  /\ pc \in [Threads -> Labels]
  /\ need \in [Threads -> Nat]
  /\ seen \in [Threads -> Nat]
  /\ alarm \in [Threads -> {"none", "wanted", "armed", "fired"}]
  /\ wakeups \in [Threads -> Seq(Threads)]
  /\ unwind \subseteq Threads
  /\ held \in [Threads -> Nat]

\* A thread asleep in acquire.
Asleep(t) == pc[t] = "woken" /\ status[t] = "Sleeping"

\* A thread that sleeps although it could have what it asks for is about to be
\* woken by a release that has not finished: the second tryAcquire, under the
\* lock, closes the race between release and going to sleep.
NoLostWakeup ==
  \A t \in Threads :
    Asleep(t) /\ counter >= need[t] =>
      \E u \in Threads :
        \/ pc[u] \in {"count", "collect", "pick"}
        \/ pc[u] = "wake" /\ Queued(wakeups[u], t)

\* "Assume no other pointers that match": a thread is in m_Queue at most once,
\* and only while it is in the part of acquire that ends by removing it.
QueueHoldsWaiters ==
  \A i, j \in 1 .. Len(semQ) :
    /\ pc[semQ[i]] \in {"handle", "relock", "woken"}
    /\ semQ[i] = semQ[j] => i = j

\* Every sleeper will be found: it is in m_Queue, or a release has taken it out
\* to wake it.
SleepersAreKnown ==
  \A t \in Threads :
    Asleep(t) => Queued(semQ, t) \/ \E u \in Threads : Queued(wakeups[u], t)

\* m_Queue holds the threads that wait and no others, whatever timeouts, events and
\* releases do to it at the same time.
WaitQueueSound == QueueHoldsWaiters /\ SleepersAreKnown

\* A Mutex: no two threads hold it.
MutualExclusion ==
  \A t, u \in Threads : held[t] > 0 /\ held[u] > 0 => t = u

\* The calls take effect as those of an atomic counting semaphore do.
CS == INSTANCE CountingSemaphore WITH
        value <- counter,
        want <- [t \in Threads |-> IF pc[t] \in Asking THEN need[t] ELSE 0]

ImplementsCountingSemaphore == CS!Spec

\* The semaphore moves threads only in ways the scheduler knows of.
UsesScheduler == SchedSpec

\* A waiter is woken once there is enough for it, as long as the timer ticks and
\* the threads that have the CPU get on.
WaiterWoken ==
  \A t \in Threads : (Asleep(t) /\ counter >= need[t]) ~> ~Asleep(t)
=============================================================================
