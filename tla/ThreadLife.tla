----------------------------- MODULE ThreadLife -----------------------------
(***************************************************************************)
(* The end of a thread: Thread::shutdown, join and detach, on top of the   *)
(* scheduler.  The thread that exits notifies its waiter and marks itself  *)
(* with interrupts enabled, so a timer tick can separate any two of the    *)
(* steps below; what runs under m_ConcurrencyLock is one step.             *)
(***************************************************************************)
EXTENDS PerProcessorScheduler

CONSTANTS
  Owners,     \* pairs: a thread, and one it may join or detach
  Signalled   \* threads that events are sent to

ASSUME OwnersAssumption ==
  /\ Owners \subseteq {p \in (Threads \ {Idle}) \X (Threads \ {Idle}) : p[1] # p[2]}
  /\ Signalled \subseteq Threads \ {Idle}

VARIABLES
  waiter,    \* m_pWaiter of each thread
  jpc,       \* the place of each thread in join or detach
  target,    \* the thread on which join or detach was called
  notified   \* threads that have notified their waiter

joinVars == <<waiter, jpc, target, notified>>

lifeVars == <<schedVars, joinVars>>

\* The current thread is at pl in a call of join or detach.
At(pl) == Free /\ jpc[current] = pl

\* The same, in a step that dereferences the target.  (If it has been deleted, no
\* step is defined.)
On(pl) == At(pl) /\ Exists(target[current])

Go(pl) == jpc' = [jpc EXCEPT ![current] = pl]

----------------------------------------------------------------------------
(* join *)

\* A call of join or detach on a thread of which the caller has a pointer.
Call(u, pl) ==
  /\ At("no") /\ <<current, u>> \in Owners /\ Exists(u)
  /\ target' = [target EXCEPT ![current] = u]
  /\ Go(pl)
  /\ UNCHANGED <<schedVars, waiter, notified>>

CallJoin(u) == Call(u, "join")

\* join returns false: the thread is detached, or has a waiter.
JoinFails ==
  LET u == target[current]
  IN /\ On("join")
     /\ \/ u \in detached
        \/ status[u] # "AwaitingJoin" /\ waiter[u] # NoThread
     /\ Go("no")
     /\ UNCHANGED <<schedVars, waiter, target, notified>>

\* The thread is not marked as exited: the caller becomes its waiter.
JoinWaits ==
  LET u == target[current]
  IN /\ On("join")
     /\ u \notin detached /\ status[u] # "AwaitingJoin" /\ waiter[u] = NoThread
     /\ waiter' = [waiter EXCEPT ![u] = current]
     /\ Go("sleep")
     /\ UNCHANGED <<schedVars, target, notified>>

\* Mutant: whatever join finds, it cleans up.
MutantJoinExited ==
  /\ On("join")
  /\ target[current] \notin detached
  /\ Go("delete")
  /\ UNCHANGED <<schedVars, waiter, target, notified>>

\* The thread is marked: there is nothing to wait for.
JoinExited ==
  /\ On("join")
  /\ target[current] \notin detached /\ status[target[current]] = "AwaitingJoin"
  /\ Go("delete")
  /\ UNCHANGED <<schedVars, waiter, target, notified>>

\* sleep(0) handles one event first, if there is any.
JoinHandle ==
  /\ At("sleep") /\ eventQ[current] # <<>>
  /\ HandleEvent
  /\ Go("asleep")
  /\ UNCHANGED <<waiter, target, notified>>

JoinSleep ==
  /\ At("asleep") \/ (At("sleep") /\ eventQ[current] = <<>>)
  /\ Schedule("Sleeping", interrupted)
  /\ Go("woken")
  /\ UNCHANGED <<inhibit, killing, detached, life, waiter, target, notified>>

\* Mutant: a join gives up after an interruption, and stays the waiter.
MutantJoinWoken ==
  /\ At("woken")
  /\ IF interrupted[current] THEN Go("no") ELSE Go("delete")
  /\ UNCHANGED <<schedVars, waiter, target, notified>>

\* join takes a wake-up that is not an interruption for the end of the thread.
JoinWoken ==
  /\ At("woken")
  /\ IF interrupted[current] THEN Go("sleep") ELSE Go("delete")
  /\ UNCHANGED <<schedVars, waiter, target, notified>>

\* delete this.  (If the thread is live or has been deleted, no step is defined.)
JoinDelete ==
  /\ At("delete")
  /\ Destroy(target[current])
  /\ Go("no")
  /\ UNCHANGED <<waiter, target, notified>>

----------------------------------------------------------------------------
(* detach *)

CallDetach(u) == Call(u, "detach")

\* detach looks at the status without the lock: join is called for a thread that
\* is marked, and m_bDetached is set later for one that is not.
DetachCheck ==
  /\ On("detach")
  /\ IF status[target[current]] = "AwaitingJoin" THEN Go("join") ELSE Go("set")
  /\ UNCHANGED <<schedVars, waiter, target, notified>>

\* Mutant: nothing keeps a thread that is being joined from being detached.
MutantDetachSet ==
  /\ On("set")
  /\ Detach(target[current])
  /\ Go("no")
  /\ UNCHANGED <<waiter, target, notified>>

DetachSet ==
  /\ On("set")
  /\ IF waiter[target[current]] # NoThread THEN UNCHANGED schedVars
     ELSE Detach(target[current])
  /\ Go("no")
  /\ UNCHANGED <<waiter, target, notified>>

----------------------------------------------------------------------------
(* shutdown, by the thread that exits *)

\* An exiting thread starts to take back its requests.
LifeShutdown ==
  /\ At("no")
  /\ Shutdown
  /\ UNCHANGED joinVars

\* Mutant: the waiter's status is set past the scheduler.
MutantNotify ==
  /\ life[current] = "dying" /\ current \notin notified
  /\ IF waiter[current] = NoThread THEN UNCHANGED schedVars
     ELSE /\ status' = [status EXCEPT ![waiter[current]] = "Ready"]
          /\ UNCHANGED <<current, ready, frame, eventQ, inhibit, interrupted,
                         killing, detached, life>>
  /\ notified' = notified \cup {current}
  /\ UNCHANGED <<waiter, jpc, target>>

\* Mutant: the waiter is not woken.
MutantNotifyNobody ==
  /\ life[current] = "dying" /\ current \notin notified
  /\ notified' = notified \cup {current}
  /\ UNCHANGED <<schedVars, waiter, jpc, target>>

\* The waiter, if there is one by now, is made ready, whatever its status.
Notify ==
  /\ life[current] = "dying" /\ current \notin notified
  /\ IF waiter[current] = NoThread THEN UNCHANGED schedVars
     ELSE Wake(waiter[current])
  /\ notified' = notified \cup {current}
  /\ UNCHANGED <<waiter, jpc, target>>

\* shutdown marks the thread, unless it is detached.
Mark ==
  /\ current \in notified
  /\ AwaitJoin
  /\ UNCHANGED joinVars

\* The thread gives up the CPU for good.
Exit == KillCurrentThread /\ UNCHANGED joinVars

----------------------------------------------------------------------------
LifeTick == Tick /\ UNCHANGED joinVars

\* A new thread, which runs at once.
Create(t) ==
  /\ At("no")
  /\ CreateThread(t)
  /\ UNCHANGED joinVars

Signal(t, e) == SendEvent(t, e) /\ UNCHANGED joinVars

LifeInit ==
  /\ SchedInit
  /\ waiter = [t \in Threads |-> NoThread]
  /\ jpc = [t \in Threads |-> "no"]
  /\ target = [t \in Threads |-> NoThread]
  /\ notified = {}

\* The steps of a thread inside join, detach or its exit.
LifeStep ==
  \/ JoinFails \/ JoinWaits \/ JoinExited \/ JoinHandle \/ JoinSleep
  \/ JoinWoken \/ JoinDelete \/ DetachCheck \/ DetachSet
  \/ Notify \/ Mark \/ Exit

LifeNext ==
  \/ LifeStep \/ LifeTick \/ LifeShutdown
  \/ \E u \in Threads : CallJoin(u) \/ CallDetach(u) \/ Create(u)
  \/ \E t \in Signalled, e \in Events : Signal(t, e)

LifeSpec == LifeInit /\ [][LifeNext]_lifeVars

\* The timer keeps ticking, and a thread that gets the CPU again and again gets
\* on with its call.
LifeFairSpec ==
  /\ LifeSpec
  /\ WF_lifeVars(LifeTick)
  /\ \A t \in Threads : SF_lifeVars(current = t /\ LifeStep)

----------------------------------------------------------------------------
(* Properties *)

\* "Thread has terminated, we may now clean up": a join that no event has woken
\* never goes on to delete a thread that has not begun to exit.
JoinDeletesExited ==
  \A t \in Threads \ Signalled :
    jpc[t] = "delete" => life[target[t]] \notin {"unborn", "live"}

\* "A thread cannot be detached if another thread is already join()ing it", and
\* the other way round, although detach looks at the status without the lock.
DetachedHasNoWaiter == \A u \in detached : waiter[u] = NoThread

\* The m_pWaiter that shutdown dereferences is a live thread, which is still in
\* its join.
WaiterIsJoining ==
  \A u \in Threads :
    Exists(u) /\ waiter[u] # NoThread =>
      /\ life[waiter[u]] = "live"
      /\ jpc[waiter[u]] \in {"sleep", "asleep", "woken", "delete"}
      /\ target[waiter[u]] = u

\* A thread asleep in its join.
AsleepInJoin(t) == jpc[t] = "woken" /\ status[t] = "Sleeping"

\* A thread that is asleep in join when the other begins to exit is woken.
JoinerWoken ==
  \A t \in Threads :
    (/\ AsleepInJoin(t)
     /\ life[target[t]] = "dying" /\ target[t] \notin notified) ~> ~AsleepInJoin(t)

\* join, detach and shutdown change threads only in ways the scheduler knows of.
LifeUsesScheduler == SchedSpec
=============================================================================
