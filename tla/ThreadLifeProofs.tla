-------------------------- MODULE ThreadLifeProofs --------------------------
(***************************************************************************)
(* Proofs about ThreadLife, for any threads, owners and events.            *)
(***************************************************************************)
EXTENDS ThreadLife, SchedulerProofs

\* The places of a thread that is, or may be, the waiter of its target.
Waiting == {"sleep", "asleep", "woken", "delete"}

Places == {"no", "join", "detach", "set"} \cup Waiting

\* The types of the module's own variables; a thread in join or detach has a
\* target.
JoinTypeOK ==
  /\ waiter \in [Threads -> Threads \cup {NoThread}]
  /\ jpc \in [Threads -> Places]
  /\ target \in [Threads -> Threads \cup {NoThread}]
  /\ \A t \in Threads : jpc[t] # "no" => target[t] \in Threads

\* A thread that has not been created waits for nobody, and nobody for it.
UnbornHasNoWaiter ==
  \A u \in Threads : life[u] = "unborn" => waiter[u] = NoThread /\ jpc[u] = "no"

JoinInv ==
  /\ JoinTypeOK /\ UnbornHasNoWaiter /\ DetachedHasNoWaiter /\ WaiterIsJoining

----------------------------------------------------------------------------
(* Steps *)

\* Every step is one of the scheduler, or leaves its variables alone.
LEMMA LifeStepIsSchedStep ==
  ASSUME SchedTypeOK, JoinTypeOK, [LifeNext]_lifeVars
  PROVE  [SchedNext]_schedVars
<1>0. current \in Threads
  BY DEF SchedTypeOK
<1>1. CASE \/ JoinFails \/ JoinWaits \/ JoinExited \/ JoinWoken \/ DetachCheck
           \/ \E u \in Threads : CallJoin(u) \/ CallDetach(u)
           \/ UNCHANGED lifeVars
  BY <1>1 DEF JoinFails, JoinWaits, JoinExited, JoinWoken, DetachCheck, CallJoin,
     CallDetach, Call, lifeVars
<1>2. CASE JoinHandle
  BY <1>2 DEF JoinHandle, SchedNext
<1>3. CASE JoinSleep
  <2>1. Sleep
    BY <1>3 DEF JoinSleep, Sleep, At
  <2> QED
    BY <2>1 DEF SchedNext
<1>4. CASE JoinDelete
  <2>1. target[current] \in Threads /\ Destroy(target[current])
    BY <1>0, <1>4 DEF JoinDelete, At, JoinTypeOK
  <2> QED
    BY <2>1 DEF SchedNext
<1>5. CASE DetachSet
  <2>1. target[current] \in Threads
    BY <1>0, <1>5 DEF DetachSet, On, At, JoinTypeOK
  <2>2. UNCHANGED schedVars \/ Detach(target[current])
    BY <1>5 DEF DetachSet
  <2> QED
    BY <2>1, <2>2 DEF SchedNext
<1>6. CASE LifeTick \/ LifeShutdown \/ Mark \/ Exit
  BY <1>6 DEF LifeTick, LifeShutdown, Mark, Exit, SchedNext
<1>7. CASE Notify
  <2>1. waiter[current] \in Threads \cup {NoThread}
    BY <1>0 DEF JoinTypeOK
  <2>2. UNCHANGED schedVars \/ (waiter[current] # NoThread /\ Wake(waiter[current]))
    BY <1>7 DEF Notify
  <2> QED
    BY <2>1, <2>2 DEF SchedNext
<1>8. CASE \E u \in Threads : Create(u)
  BY <1>8 DEF Create, SchedNext
<1>9. CASE \E t \in Signalled, e \in Events : Signal(t, e)
  BY <1>9, OwnersAssumption DEF Signal, SchedNext
<1> QED
  BY <1>1, <1>2, <1>3, <1>4, <1>5, <1>6, <1>7, <1>8, <1>9 DEF LifeNext, LifeStep

\* A step of a thread that is nobody's waiter, and moves only itself.
LEMMA UnawaitedMove ==
  ASSUME JoinInv, current \in Threads, life[current] = "live",
         jpc[current] \notin Waiting,
         NEW pl \in Places, jpc' = [jpc EXCEPT ![current] = pl],
         NEW u \in Threads, target' = [target EXCEPT ![current] = u],
         UNCHANGED <<waiter, life>>,
         \A v \in detached' : v \in detached \/ waiter[v] = NoThread
  PROVE  JoinInv'
<1>1. JoinTypeOK' /\ UnbornHasNoWaiter' /\ DetachedHasNoWaiter'
  BY DEF JoinInv, JoinTypeOK, UnbornHasNoWaiter, DetachedHasNoWaiter
<1>2. WaiterIsJoining'
  BY DEF JoinInv, JoinTypeOK, WaiterIsJoining, Exists, Waiting
<1> QED
  BY <1>1, <1>2 DEF JoinInv

\* A step of a thread from one place at which it may be waiting to another.
LEMMA WaitingMove ==
  ASSUME JoinInv, current \in Threads, life[current] = "live",
         jpc[current] \in Waiting,
         NEW pl \in Waiting, jpc' = [jpc EXCEPT ![current] = pl],
         UNCHANGED <<waiter, target, detached, life>>
  PROVE  JoinInv'
<1>1. JoinTypeOK' /\ UnbornHasNoWaiter' /\ DetachedHasNoWaiter'
  BY DEF JoinInv, JoinTypeOK, UnbornHasNoWaiter, DetachedHasNoWaiter, Places, Waiting
<1>2. WaiterIsJoining'
  BY DEF JoinInv, JoinTypeOK, WaiterIsJoining, Exists, Waiting
<1> QED
  BY <1>1, <1>2 DEF JoinInv

\* A step in which a thread that is in no join moves on in its life, or is
\* created.
LEMMA LifeMove ==
  ASSUME JoinInv, NEW u \in Threads, NEW l,
         life \in [Threads -> Lives], life' = [life EXCEPT ![u] = l],
         l # "unborn", life[u] = "deleted" => l = "deleted",
         \A v \in Threads : Exists(v) => waiter[v] # u,
         UNCHANGED <<waiter, jpc, target, detached>>
  PROVE  JoinInv'
<1>1. JoinTypeOK' /\ UnbornHasNoWaiter' /\ DetachedHasNoWaiter'
  BY DEF JoinInv, JoinTypeOK, UnbornHasNoWaiter, DetachedHasNoWaiter
<1>2. WaiterIsJoining'
  <2> SUFFICES ASSUME NEW v \in Threads, Exists(v)', waiter[v] # NoThread
               PROVE  /\ life'[waiter[v]] = "live"
                      /\ jpc[waiter[v]] \in Waiting /\ target[waiter[v]] = v
    BY DEF WaiterIsJoining, Waiting
  <2>1. life[v] # "unborn"
    BY DEF JoinInv, UnbornHasNoWaiter
  <2>2. Exists(v)
    BY <2>1 DEF Exists
  <2> QED
    BY <2>2 DEF JoinInv, WaiterIsJoining, JoinTypeOK, Waiting
<1> QED
  BY <1>1, <1>2 DEF JoinInv

\* What the scheduler's steps leave alone.
LEMMA SchedFrame ==
  /\ Tick => UNCHANGED <<detached, life>>
  /\ \A t, e : SendEvent(t, e) => UNCHANGED <<detached, life>>
  /\ \A t : Wake(t) => UNCHANGED <<detached, life>>
  /\ HandleEvent => UNCHANGED <<detached, life>>
BY DEF Tick, SendEvent, Wake, HandleEvent

\* Every step keeps the invariant of join.
LEMMA NextJoinInv ==
  ASSUME SchedTypeOK, JoinInv, [LifeNext]_lifeVars
  PROVE  JoinInv'
<1>0. /\ current \in Threads /\ life \in [Threads -> Lives]
      /\ waiter \in [Threads -> Threads \cup {NoThread}]
      /\ jpc \in [Threads -> Places]
      /\ target \in [Threads -> Threads \cup {NoThread}]
      /\ jpc[current] # "no" => target[current] \in Threads
  BY DEF SchedTypeOK, JoinInv, JoinTypeOK
\* A thread that is not in join, or not live, is nobody's waiter.
<1>1. ASSUME jpc[current] \notin Waiting \/ life[current] # "live"
      PROVE  \A v \in Threads : Exists(v) => waiter[v] # current
  BY <1>0, <1>1, ThreadsAssumption DEF JoinInv, WaiterIsJoining, Waiting
<1>2. CASE UNCHANGED <<waiter, jpc, target, detached, life>>
  BY <1>2 DEF JoinInv, JoinTypeOK, UnbornHasNoWaiter, DetachedHasNoWaiter,
     WaiterIsJoining, Exists
<1>3. CASE LifeTick \/ Notify \/ UNCHANGED lifeVars
           \/ \E t \in Signalled, e \in Events : Signal(t, e)
  BY <1>2, <1>3, SchedFrame DEF LifeTick, Notify, Signal, joinVars, lifeVars, schedVars
<1>4. CASE JoinFails
  <2>1. life[current] = "live" /\ jpc[current] = "join"
        /\ jpc' = [jpc EXCEPT ![current] = "no"]
        /\ UNCHANGED <<waiter, target, detached, life>>
    BY <1>4 DEF JoinFails, On, At, Free, Go, schedVars
  <2>2. target' = [target EXCEPT ![current] = target[current]]
    BY <1>0, <2>1
  <2> QED
    BY <1>0, <2>1, <2>2, UnawaitedMove DEF Places, Waiting
<1>5. CASE JoinExited
  <2>1. life[current] = "live" /\ jpc[current] = "join"
        /\ jpc' = [jpc EXCEPT ![current] = "delete"]
        /\ UNCHANGED <<waiter, target, detached, life>>
    BY <1>5 DEF JoinExited, On, At, Free, Go, schedVars
  <2>2. target' = [target EXCEPT ![current] = target[current]]
    BY <1>0, <2>1
  <2> QED
    BY <1>0, <2>1, <2>2, UnawaitedMove DEF Places, Waiting
<1>6. CASE DetachCheck
  <2>1. life[current] = "live" /\ jpc[current] = "detach"
        /\ UNCHANGED <<waiter, target, detached, life>>
    BY <1>6 DEF DetachCheck, On, At, Free, schedVars
  <2>2. \E pl \in {"join", "set"} : jpc' = [jpc EXCEPT ![current] = pl]
    BY <1>6 DEF DetachCheck, Go
  <2>3. target' = [target EXCEPT ![current] = target[current]]
    BY <1>0, <2>1
  <2> QED
    BY <1>0, <2>1, <2>2, <2>3, UnawaitedMove DEF Places, Waiting
<1>7. CASE DetachSet
  <2>1. life[current] = "live" /\ jpc[current] = "set"
        /\ jpc' = [jpc EXCEPT ![current] = "no"]
        /\ UNCHANGED <<waiter, target>>
    BY <1>7 DEF DetachSet, On, At, Free, Go
  <2>2. life' = life /\ \A v \in detached' : v \in detached \/ waiter[v] = NoThread
    BY <1>7 DEF DetachSet, Detach, schedVars
  <2>3. target' = [target EXCEPT ![current] = target[current]]
    BY <1>0, <2>1
  <2> QED
    BY <1>0, <2>1, <2>2, <2>3, UnawaitedMove DEF Places, Waiting
<1>8. ASSUME NEW u \in Threads, CallJoin(u) \/ CallDetach(u)
      PROVE  JoinInv'
  <2>1. life[current] = "live" /\ jpc[current] = "no"
        /\ target' = [target EXCEPT ![current] = u]
        /\ UNCHANGED <<waiter, detached, life>>
    BY <1>8 DEF CallJoin, CallDetach, Call, At, Free, schedVars
  <2>2. \E pl \in {"join", "detach"} : jpc' = [jpc EXCEPT ![current] = pl]
    BY <1>8 DEF CallJoin, CallDetach, Call, Go
  <2> QED
    BY <1>0, <2>1, <2>2, UnawaitedMove DEF Places, Waiting
<1>9. CASE JoinHandle \/ JoinSleep \/ JoinWoken
  <2>1. life[current] = "live" /\ jpc[current] \in Waiting
    BY <1>9 DEF JoinHandle, JoinSleep, JoinWoken, At, Free, Waiting
  <2>2. UNCHANGED <<waiter, target, detached, life>>
    BY <1>9, SchedFrame DEF JoinHandle, JoinSleep, JoinWoken, schedVars
  <2>3. \E pl \in Waiting : jpc' = [jpc EXCEPT ![current] = pl]
    BY <1>9 DEF JoinHandle, JoinSleep, JoinWoken, Go, Waiting
  <2> QED
    BY <1>0, <2>1, <2>2, <2>3, WaitingMove
<1>10. CASE JoinWaits
  <2> DEFINE u == target[current]
  <2>1. /\ jpc[current] = "join" /\ life[current] = "live" /\ Exists(u)
        /\ u \notin detached /\ waiter[u] = NoThread
        /\ waiter' = [waiter EXCEPT ![u] = current]
        /\ jpc' = [jpc EXCEPT ![current] = "sleep"]
        /\ UNCHANGED <<target, detached, life>>
    BY <1>10 DEF JoinWaits, On, At, Free, Go, schedVars
  <2>2. u \in Threads
    BY <1>0, <2>1
  <2>3. JoinTypeOK' /\ UnbornHasNoWaiter' /\ DetachedHasNoWaiter'
    BY <1>0, <2>1, <2>2 DEF JoinInv, JoinTypeOK, UnbornHasNoWaiter,
       DetachedHasNoWaiter, Places, Waiting, Exists
  <2>4. \A v \in Threads : Exists(v) => waiter[v] # current
    BY <1>1, <2>1 DEF Waiting
  <2>5. WaiterIsJoining'
    BY <1>0, <2>1, <2>2, <2>4 DEF JoinInv, WaiterIsJoining, Exists, Waiting
  <2> QED
    BY <2>3, <2>5 DEF JoinInv
<1>11. CASE JoinDelete
  <2> DEFINE u == target[current]
  <2>1. /\ jpc[current] = "delete" /\ u # current /\ life[current] = "live"
        /\ life' = [life EXCEPT ![u] = "deleted"]
        /\ life[u] \in {"dying", "leaving", "zombie", "exited"}
        /\ jpc' = [jpc EXCEPT ![current] = "no"]
        /\ UNCHANGED <<waiter, target, detached>>
    BY <1>11 DEF JoinDelete, Destroy, At, Free, Go
  <2>2. u \in Threads
    BY <1>0, <2>1
  <2>3. JoinTypeOK' /\ UnbornHasNoWaiter' /\ DetachedHasNoWaiter'
    BY <1>0, <2>1, <2>2 DEF JoinInv, JoinTypeOK, UnbornHasNoWaiter,
       DetachedHasNoWaiter, Places
  <2>4. ASSUME NEW v \in Threads, Exists(v)', waiter[v] # NoThread
        PROVE  /\ life'[waiter[v]] = "live" /\ jpc'[waiter[v]] \in Waiting
               /\ target[waiter[v]] = v
    <3>1. v # u /\ Exists(v)
      BY <1>0, <2>1, <2>2, <2>4 DEF Exists
    <3>2. /\ life[waiter[v]] = "live" /\ jpc[waiter[v]] \in Waiting
          /\ target[waiter[v]] = v /\ waiter[v] \in Threads
      BY <1>0, <2>4, <3>1 DEF JoinInv, WaiterIsJoining, Waiting
    <3>3. waiter[v] # current /\ waiter[v] # u
      BY <2>1, <3>1, <3>2
    <3> QED
      BY <1>0, <2>1, <3>2, <3>3
  <2>5. WaiterIsJoining'
    BY <2>1, <2>4 DEF WaiterIsJoining, Waiting
  <2> QED
    BY <2>3, <2>5 DEF JoinInv
<1>12. CASE LifeShutdown
  <2>1. jpc[current] = "no" /\ life[current] = "live"
        /\ life' = [life EXCEPT ![current] = "dying"]
        /\ UNCHANGED <<waiter, jpc, target, detached>>
    BY <1>12 DEF LifeShutdown, Shutdown, At, Free, joinVars
  <2> QED
    BY <1>0, <1>1, <2>1, LifeMove DEF Waiting
<1>13. CASE Mark
  <2>1. life[current] = "dying"
        /\ life' = [life EXCEPT ![current] = "leaving"]
        /\ UNCHANGED <<waiter, jpc, target, detached>>
    BY <1>13 DEF Mark, AwaitJoin, joinVars
  <2> QED
    BY <1>0, <1>1, <2>1, LifeMove
<1>14. CASE Exit
  <2>1. life[current] = "leaving" /\ UNCHANGED <<waiter, jpc, target, detached>>
    BY <1>14 DEF Exit, KillCurrentThread, joinVars
  <2>2. \E l \in {"deleted", "exited"} : life' = [life EXCEPT ![current] = l]
    BY <1>14 DEF Exit, KillCurrentThread
  <2> QED
    BY <1>0, <1>1, <2>1, <2>2, LifeMove
<1>15. ASSUME NEW t \in Threads, Create(t)
       PROVE  JoinInv'
  <2>1. life[t] = "unborn" /\ life' = [life EXCEPT ![t] = "live"]
        /\ UNCHANGED <<waiter, jpc, target, detached>>
    BY <1>15 DEF Create, CreateThread, joinVars
  <2>2. \A v \in Threads : Exists(v) => waiter[v] # t
    BY <1>0, <2>1, ThreadsAssumption DEF JoinInv, WaiterIsJoining
  <2> QED
    BY <1>0, <2>1, <2>2, LifeMove
<1> QED
  BY <1>3, <1>4, <1>5, <1>6, <1>7, <1>8, <1>9, <1>10, <1>11, <1>12, <1>13, <1>14,
     <1>15 DEF LifeNext, LifeStep

----------------------------------------------------------------------------
(* What join deletes *)

\* Without direct switches a thread is in a ready queue only while it is Ready.
QueuedIsReady == \A t \in Threads : InQueue(ready, t) => status[t] = "Ready"

Exiting(u) == life[u] \notin {"unborn", "live"}

\* A thread is AwaitingJoin only once it exits, and a joiner that no event
\* reaches sleeps until its target exits.
DeleteInv ==
  /\ QueuedIsReady
  /\ \A u \in Threads : status[u] = "AwaitingJoin" => Exiting(u)
  /\ jpc[Idle] = "no"
  /\ \A t \in Threads \ Signalled :
       /\ jpc[t] = "woken" => status[t] = "Sleeping" \/ Exiting(target[t])
       /\ jpc[t] = "delete" => Exiting(target[t])

\* What schedule() does to statuses: the caller's becomes nextStatus, and only a
\* Ready thread or the idle thread becomes Running.
LEMMA ScheduleStatus ==
  ASSUME QueueInv, QueuedIsReady, NEW nextStatus \in {"Ready", "Sleeping"},
         NEW intr, Schedule(nextStatus, intr)
  PROVE  /\ QueuedIsReady'
         /\ \A t \in Threads \ {Idle} :
              \/ status'[t] = status[t]
              \/ t = current /\ status'[t] = nextStatus
              \/ status[t] = "Ready" /\ status'[t] = "Running"
         /\ status'[Idle] \in {status[Idle], "Running"}
         /\ nextStatus = "Sleeping" /\ current # Idle => status'[current] = "Sleeping"
<1> DEFINE after == AfterGetNext(current)
           n == GetNext(current)
<1>1. /\ current \in Threads /\ Idle \in Threads /\ status \in [Threads -> Statuses]
      /\ WellFormed(ready) /\ NoThread \notin Threads
  BY ThreadsAssumption DEF QueueInv, SchedTypeOK
<1>2. status[current] # "Ready" /\ ~InQueue(ready, current) /\ ~InQueue(ready, Idle)
  BY <1>1 DEF QueueInv, CurrentIsRunning, QueuedIsReady
<1>3. /\ WellFormed(after)
      /\ n # NoThread => n \in Threads /\ n # current /\ InQueue(ready, n)
      /\ \A u \in Threads : InQueue(after, u) => InQueue(ready, u)
  BY <1>1, GetNextLemma
<1>4. n # NoThread => ~InQueue(after, n)
  BY <1>1, NextIsTaken
<1> HIDE DEF after, n
<1>5. CASE ScheduleReturns(intr) /\ nextStatus = "Ready"
  <2>1. ready' = after /\ status' = status
    BY <1>5 DEF ScheduleReturns, after
  <2> QED
    BY <1>3, <1>5, <2>1 DEF QueuedIsReady, InQueue, Queued
<1>6. ASSUME NEW m \in Threads, Switch(m, nextStatus, after, intr), ~InQueue(after, m),
             m = Idle \/ (m # current /\ status[m] = "Ready"),
             m = Idle => nextStatus = "Sleeping" \/ m # current
      PROVE  /\ QueuedIsReady'
             /\ \A t \in Threads \ {Idle} :
                  \/ status'[t] = status[t]
                  \/ t = current /\ status'[t] = nextStatus
                  \/ status[t] = "Ready" /\ status'[t] = "Running"
             /\ status'[Idle] \in {status[Idle], "Running"}
             /\ nextStatus = "Sleeping" /\ current # Idle => status'[current] = "Sleeping"
  <2>1. CASE current = Idle
    <3>1. status' = [status EXCEPT ![m] = "Running"] /\ ready' = after
      BY <1>6, <2>1 DEF Switch
    <3>2. \A u \in Threads : InQueue(ready', u) => u # m /\ status[u] = "Ready"
      BY <1>3, <1>6, <3>1 DEF QueuedIsReady
    <3>3. QueuedIsReady'
      BY <1>1, <3>1, <3>2 DEF QueuedIsReady, InQueue, Queued
    <3> QED
      BY <1>1, <1>6, <2>1, <3>1, <3>3
  <2>2. CASE current # Idle
    <3>1. /\ status' = [[status EXCEPT ![current] = nextStatus] EXCEPT ![m] = "Running"]
          /\ ready' = IF nextStatus = "Ready" THEN Enqueue(after, current) ELSE after
      BY <1>6, <2>2 DEF Switch
    <3>2. m # current
      BY <1>6, <2>2
    <3>3. \A u \in Threads :
            /\ u \notin {current, m} => status'[u] = status[u]
            /\ status'[current] = nextStatus /\ status'[m] = "Running"
      BY <1>1, <1>6, <3>1, <3>2
    <3>4. \A u \in Threads : InQueue(ready', u) =>
            InQueue(after, u) \/ (u = current /\ nextStatus = "Ready")
      BY <1>1, <1>3, <3>1, EnqueueLemma
    <3>5. ASSUME NEW u \in Threads, InQueue(ready', u)
          PROVE  status'[u] = "Ready"
      <4>1. CASE u = current /\ nextStatus = "Ready"
        BY <1>1, <3>3, <4>1
      <4>2. CASE InQueue(after, u)
        <5>1. u # m /\ u # current /\ status[u] = "Ready"
          BY <1>2, <1>3, <1>6, <4>2 DEF QueuedIsReady
        <5> QED
          BY <3>3, <5>1
      <4> QED
        BY <3>4, <3>5, <4>1, <4>2
    <3>6. QueuedIsReady'
      BY <3>5 DEF QueuedIsReady, InQueue, Queued
    <3> QED
      BY <1>1, <1>6, <2>2, <3>2, <3>3, <3>6
  <2> QED
    BY <2>1, <2>2
<1>7. CASE n # NoThread /\ Switch(n, nextStatus, after, intr)
  <2>1. n \in Threads /\ n # current /\ status[n] = "Ready" /\ ~InQueue(after, n)
    BY <1>3, <1>4, <1>7 DEF QueuedIsReady
  <2> QED
    BY <1>6, <1>7, <2>1
<1>8. CASE n = NoThread /\ nextStatus # "Ready" /\ Switch(Idle, nextStatus, after, intr)
  <2>1. ~InQueue(after, Idle)
    BY <1>1, <1>2, <1>3
  <2> QED
    BY <1>1, <1>6, <1>8, <2>1
<1> QED
  BY <1>5, <1>7, <1>8 DEF Schedule, after, n

\* What the end of killCurrentThread does to statuses and queues.
LEMMA ExitStatus ==
  ASSUME QueueInv, QueuedIsReady, KillCurrentThread
  PROVE  /\ QueuedIsReady'
         /\ \A t \in Threads \ {Idle} :
              status'[t] = status[t] \/ (status[t] = "Ready" /\ status'[t] = "Running")
         /\ status'[Idle] \in {status[Idle], "Running"}
<1> DEFINE after == AfterGetNext(current)
           n == IF GetNext(current) = NoThread THEN Idle ELSE GetNext(current)
<1>1. /\ current \in Threads /\ Idle \in Threads /\ status \in [Threads -> Statuses]
      /\ WellFormed(ready) /\ NoThread \notin Threads
  BY ThreadsAssumption DEF QueueInv, SchedTypeOK
<1>2. /\ WellFormed(after)
      /\ \A u \in Threads : InQueue(after, u) => InQueue(ready, u)
      /\ GetNext(current) # NoThread =>
           GetNext(current) \in Threads /\ InQueue(ready, GetNext(current))
  BY <1>1, GetNextLemma
<1>3. n \in Threads /\ (n = Idle \/ status[n] = "Ready") /\ ~InQueue(after, n)
  <2>1. CASE GetNext(current) = NoThread
    BY <1>1, <1>2, <2>1 DEF QueueInv
  <2>2. CASE GetNext(current) # NoThread
    BY <1>1, <1>2, <2>2, NextIsTaken DEF QueuedIsReady
  <2> QED
    BY <2>1, <2>2
<1>4. status' = [status EXCEPT ![n] = "Running"]
      /\ ready' \in {after, Dequeue(after, current)}
  BY DEF KillCurrentThread
<1> HIDE DEF after, n
<1>5. \A u \in Threads : InQueue(Dequeue(after, current), u) => InQueue(after, u)
  BY <1>1, <1>2, DequeueLemma
<1>6. ASSUME NEW u \in Threads, InQueue(ready', u)
      PROVE  status'[u] = "Ready"
  <2>1. InQueue(after, u)
    BY <1>4, <1>5, <1>6
  <2>2. u # n /\ status[u] = "Ready"
    BY <1>2, <1>3, <2>1 DEF QueuedIsReady
  <2> QED
    BY <1>1, <1>3, <1>4, <2>2
<1>7. QueuedIsReady'
  BY <1>6 DEF QueuedIsReady, InQueue, Queued
<1> QED
  BY <1>1, <1>3, <1>4, <1>7

\* A step that wakes sleepers only where that is allowed, moves no thread that
\* is not signalled to a place it may not be at, and takes no thread back from
\* its exit.
LEMMA DeleteFrame ==
  ASSUME DeleteInv, QueuedIsReady',
         \A u \in Threads : Exiting(u) => Exiting(u)',
         \A u \in Threads : status'[u] = "AwaitingJoin" =>
                              status[u] = "AwaitingJoin" \/ Exiting(u)',
         \A t \in Threads \ (Signalled \cup {Idle}) :
           jpc[t] = "woken" /\ status[t] = "Sleeping"
             => status'[t] = "Sleeping" \/ Exiting(target[t])',
         JoinTypeOK, UNCHANGED <<jpc, target>>
  PROVE  DeleteInv'
<1>1. /\ \A u \in Threads : status'[u] = "AwaitingJoin" => Exiting(u)'
      /\ jpc'[Idle] = "no"
  BY DEF DeleteInv
<1>2. ASSUME NEW t \in Threads \ Signalled, jpc[t] \in {"woken", "delete"}
      PROVE  /\ jpc[t] = "woken" => status'[t] = "Sleeping" \/ Exiting(target[t])'
             /\ jpc[t] = "delete" => Exiting(target[t])'
  <2>1. target[t] \in Threads
    BY <1>2 DEF JoinTypeOK
  <2> QED
    BY <1>2, <2>1 DEF DeleteInv, Exiting
<1> QED
  BY <1>1, <1>2 DEF DeleteInv, Exiting

\* A step that changes no status, queue or life, and after which the current
\* thread may be at its place.
LEMMA PlaceFrame ==
  ASSUME DeleteInv, JoinTypeOK, current \in Threads \ {Idle}, NEW pl,
         jpc' = [jpc EXCEPT ![current] = pl],
         \A t \in Threads \ {current} : target'[t] = target[t],
         UNCHANGED <<status, ready, life>>,
         pl \in {"woken", "delete"} => Exiting(target[current]) /\ target' = target
  PROVE  DeleteInv'
<1>1. QueuedIsReady' /\ jpc'[Idle] = "no"
      /\ \A u \in Threads : status'[u] = "AwaitingJoin" => Exiting(u)'
  BY ThreadsAssumption DEF DeleteInv, JoinTypeOK, QueuedIsReady, InQueue, Queued, Exiting
<1>2. ASSUME NEW t \in Threads \ Signalled
      PROVE  /\ jpc'[t] = "woken" => status'[t] = "Sleeping" \/ Exiting(target'[t])
             /\ jpc'[t] = "delete" => Exiting(target'[t])
  <2>1. CASE t = current
    BY <2>1 DEF JoinTypeOK
  <2>2. CASE t # current
    BY <1>2, <2>2 DEF JoinTypeOK, DeleteInv
  <2> QED
    BY <2>1, <2>2
<1> QED
  BY <1>1, <1>2 DEF DeleteInv, Exiting

\* Every step keeps the invariant of deletion.
LEMMA NextDeleteInv ==
  ASSUME QueueInv, JoinInv, DeleteInv, [LifeNext]_lifeVars
  PROVE  DeleteInv'
<1>0. /\ current \in Threads /\ Idle \in Threads /\ NoThread \notin Threads
      /\ status \in [Threads -> Statuses] /\ life \in [Threads -> Lives]
      /\ SchedTypeOK /\ JoinTypeOK /\ WellFormed(ready) /\ QueuedIsReady
      /\ jpc[current] # "no" => target[current] \in Threads
  BY ThreadsAssumption DEF QueueInv, SchedTypeOK, JoinInv, JoinTypeOK, DeleteInv
<1>1. status[current] \notin {"Ready", "Sleeping"} /\ ~InQueue(ready, current)
  BY <1>0 DEF QueueInv, CurrentIsRunning, QueuedIsReady
<1>2. CASE UNCHANGED lifeVars
  <2>1. UNCHANGED <<status, ready, life, jpc, target>>
    BY <1>2 DEF lifeVars, schedVars, joinVars
  <2> QED
    BY <2>1 DEF DeleteInv, QueuedIsReady, InQueue, Queued, Exiting
<1>3. CASE JoinFails \/ JoinWaits \/ DetachCheck \/ DetachSet \/ JoinHandle
           \/ (JoinWoken /\ interrupted[current])
           \/ \E u \in Threads : CallJoin(u) \/ CallDetach(u)
  <2>1. current # Idle /\ UNCHANGED <<status, ready, life>>
    BY <1>3 DEF JoinFails, JoinWaits, DetachCheck, DetachSet, JoinHandle, JoinWoken,
       CallJoin, CallDetach, Call, On, At, Free, HandleEvent, Detach, schedVars
  <2>2. \E pl \in {"no", "sleep", "join", "set", "asleep", "detach"} :
          jpc' = [jpc EXCEPT ![current] = pl]
    BY <1>3 DEF JoinFails, JoinWaits, DetachCheck, DetachSet, JoinHandle, JoinWoken,
       CallJoin, CallDetach, Call, Go
  <2>3. \A t \in Threads \ {current} : target'[t] = target[t]
    BY <1>0, <1>3 DEF JoinFails, JoinWaits, DetachCheck, DetachSet, JoinHandle,
       JoinWoken, CallJoin, CallDetach, Call, JoinTypeOK
  <2> QED
    BY <1>0, <2>1, <2>2, <2>3, PlaceFrame
<1>4. CASE JoinExited \/ (JoinWoken /\ ~interrupted[current])
  <2>1. /\ current # Idle /\ UNCHANGED <<status, ready, life, target>>
        /\ jpc' = [jpc EXCEPT ![current] = "delete"]
    BY <1>4 DEF JoinExited, JoinWoken, On, At, Free, Go, schedVars
  <2>2. CASE current \in Signalled
    <3>1. QueuedIsReady' /\ jpc'[Idle] = "no"
          /\ \A u \in Threads : status'[u] = "AwaitingJoin" => Exiting(u)'
      BY <1>0, <2>1 DEF DeleteInv, JoinTypeOK, QueuedIsReady, InQueue, Queued, Exiting
    <3>2. \A t \in Threads \ Signalled : jpc'[t] = jpc[t]
      BY <1>0, <2>1, <2>2 DEF JoinTypeOK
    <3> QED
      BY <2>1, <3>1, <3>2 DEF DeleteInv, Exiting
  <2>3. CASE current \notin Signalled
    <3>1. target[current] \in Threads
      BY <1>0, <1>4 DEF JoinExited, JoinWoken, On, At
    <3>2. Exiting(target[current])
      BY <1>0, <1>1, <1>4, <2>3, <3>1 DEF JoinExited, JoinWoken, On, At, DeleteInv
    <3> QED
      BY <1>0, <2>1, <3>2, PlaceFrame
  <2> QED
    BY <2>2, <2>3
<1>5. CASE JoinSleep
  <2>1. /\ current # Idle /\ UNCHANGED <<life, target>>
        /\ jpc' = [jpc EXCEPT ![current] = "woken"]
        /\ Schedule("Sleeping", interrupted)
    BY <1>5 DEF JoinSleep, At, Free, Go
  <2>2. /\ QueuedIsReady' /\ status'[current] = "Sleeping"
        /\ \A t \in Threads \ {Idle} :
             \/ status'[t] = status[t]
             \/ t = current /\ status'[t] = "Sleeping"
             \/ status[t] = "Ready" /\ status'[t] = "Running"
        /\ status'[Idle] \in {status[Idle], "Running"}
    BY <1>0, <2>1, ScheduleStatus
  <2>3. \A u \in Threads : status'[u] = "AwaitingJoin" => Exiting(u)'
    BY <2>1, <2>2 DEF DeleteInv, Exiting
  <2>4. jpc'[Idle] = "no"
    BY <1>0, <2>1 DEF DeleteInv, JoinTypeOK
  <2>5. ASSUME NEW t \in Threads \ Signalled
        PROVE  /\ jpc'[t] = "woken" => status'[t] = "Sleeping" \/ Exiting(target'[t])
               /\ jpc'[t] = "delete" => Exiting(target'[t])
    <3>1. CASE t = current
      BY <1>0, <2>1, <2>2, <3>1 DEF JoinTypeOK
    <3>2. CASE t = Idle
      BY <2>4, <3>2
    <3>3. CASE t \notin {current, Idle}
      BY <1>0, <2>1, <2>2, <3>3 DEF JoinTypeOK, DeleteInv
    <3> QED
      BY <3>1, <3>2, <3>3
  <2> QED
    BY <2>1, <2>2, <2>3, <2>4, <2>5 DEF DeleteInv, Exiting
<1>6. CASE JoinDelete
  <2> DEFINE u == target[current]
  <2>1. /\ current # Idle /\ UNCHANGED <<status, target>>
        /\ jpc' = [jpc EXCEPT ![current] = "no"] /\ u \in Threads
        /\ life' = [life EXCEPT ![u] = "deleted"] /\ ready' = Dequeue(ready, u)
    BY <1>0, <1>6 DEF JoinDelete, Destroy, At, Free, Go
  <2>2. \A t \in Threads : InQueue(ready', t) => InQueue(ready, t)
    BY <1>0, <2>1, DequeueLemma
  <2>3. QueuedIsReady'
    BY <1>0, <2>1, <2>2 DEF QueuedIsReady, InQueue, Queued
  <2>4. \A t \in Threads : Exiting(t) => Exiting(t)'
    BY <1>0, <2>1 DEF Exiting
  <2>5. \A t \in Threads \ Signalled :
          jpc'[t] \in {"woken", "delete"} => jpc[t] = jpc'[t] /\ target[t] \in Threads
    BY <1>0, <2>1 DEF JoinTypeOK
  <2>6. jpc'[Idle] = "no"
    BY <1>0, <2>1 DEF DeleteInv, JoinTypeOK
  <2>7. ASSUME NEW t \in Threads \ Signalled
        PROVE  /\ jpc'[t] = "woken" => status'[t] = "Sleeping" \/ Exiting(target[t])'
               /\ jpc'[t] = "delete" => Exiting(target[t])'
    BY <2>1, <2>4, <2>5 DEF DeleteInv, Exiting
  <2> QED
    BY <2>1, <2>3, <2>4, <2>6, <2>7 DEF DeleteInv, Exiting
<1>7. CASE LifeShutdown \/ Mark
  <2>1. /\ UNCHANGED <<current, ready, jpc, target>>
        /\ \E l \in {"dying", "leaving"} : life' = [life EXCEPT ![current] = l]
        /\ status' = status \/ status' = [status EXCEPT ![current] = "AwaitingJoin"]
    BY <1>7 DEF LifeShutdown, Mark, Shutdown, AwaitJoin, joinVars
  <2>2. QueuedIsReady'
    BY <1>0, <1>1, <2>1 DEF QueuedIsReady, InQueue, Queued
  <2>3. Exiting(current)' /\ \A u \in Threads : Exiting(u) => Exiting(u)'
    BY <1>0, <2>1 DEF Exiting
  <2>4. \A u \in Threads \ {current} : status'[u] = status[u]
    BY <1>0, <2>1
  <2>5. \A u \in Threads : status'[u] = "AwaitingJoin" =>
                             status[u] = "AwaitingJoin" \/ Exiting(u)'
    BY <2>1, <2>3, <2>4 DEF Exiting
  <2> QED
    BY <1>0, <1>1, <2>1, <2>2, <2>3, <2>4, <2>5, DeleteFrame
<1>8. CASE Exit
  <2>1. /\ QueuedIsReady'
        /\ \A t \in Threads \ {Idle} :
             status'[t] = status[t] \/ (status[t] = "Ready" /\ status'[t] = "Running")
        /\ status'[Idle] \in {status[Idle], "Running"}
    BY <1>0, <1>8, ExitStatus DEF Exit
  <2>2. UNCHANGED <<jpc, target>>
        /\ \E l \in {"exited", "deleted"} : life' = [life EXCEPT ![current] = l]
    BY <1>8 DEF Exit, KillCurrentThread, joinVars
  <2>3. \A u \in Threads : Exiting(u) => Exiting(u)'
    BY <1>0, <2>2 DEF Exiting
  <2> QED
    BY <1>0, <2>1, <2>2, <2>3, DeleteFrame
<1>9. CASE Notify
  <2>1. life[current] = "dying" /\ UNCHANGED <<jpc, target>>
    BY <1>9 DEF Notify
  <2>2. CASE UNCHANGED schedVars
    BY <2>1, <2>2 DEF DeleteInv, QueuedIsReady, InQueue, Queued, Exiting, schedVars
  <2>3. CASE waiter[current] # NoThread /\ Wake(waiter[current])
    <3> DEFINE w == waiter[current]
    <3>1. w \in Threads /\ target[w] = current
      BY <1>0, <2>1, <2>3 DEF JoinTypeOK, JoinInv, WaiterIsJoining, Exists
    <3>2. /\ status' = [status EXCEPT ![w] = "Ready"] /\ ready' = Enqueue(ready, w)
          /\ life' = life
      BY <2>3 DEF Wake
    <3>3. \A u \in Threads : InQueue(ready', u) <=> InQueue(ready, u) \/ u = w
      BY <1>0, <3>1, <3>2, EnqueueLemma
    <3>4. QueuedIsReady'
      BY <1>0, <3>1, <3>2, <3>3 DEF QueuedIsReady, InQueue, Queued
    <3>5. life'[target[w]] = "dying"
      BY <2>1, <3>1, <3>2
    <3>6. \A u \in Threads : Exiting(u) => Exiting(u)'
      BY <3>2 DEF Exiting
    <3>7. \A u \in Threads \ {w} : status'[u] = status[u]
      BY <1>0, <3>1, <3>2
    <3>8. status'[w] = "Ready"
      BY <1>0, <3>1, <3>2
    <3>9. ASSUME NEW t \in Threads, status[t] = "Sleeping"
          PROVE  status'[t] = "Sleeping" \/ Exiting(target[t])'
      <4>1. CASE t = w
        BY <2>1, <3>5, <4>1 DEF Exiting
      <4>2. CASE t # w
        BY <3>7, <3>9, <4>2
      <4> QED
        BY <4>1, <4>2
    <3> QED
      BY <1>0, <2>1, <3>4, <3>6, <3>7, <3>8, <3>9, DeleteFrame
  <2> QED
    BY <1>9, <2>2, <2>3 DEF Notify
<1>10. CASE LifeTick
  <2>1. UNCHANGED <<life, jpc, target>> /\ Schedule("Ready", interrupted)
    BY <1>10 DEF LifeTick, Tick, joinVars
  <2>2. /\ QueuedIsReady'
        /\ \A t \in Threads \ {Idle} :
             \/ status'[t] = status[t]
             \/ t = current /\ status'[t] = "Ready"
             \/ status[t] = "Ready" /\ status'[t] = "Running"
        /\ status'[Idle] \in {status[Idle], "Running"}
    BY <1>0, <2>1, ScheduleStatus
  <2>3. \A u \in Threads : Exiting(u) => Exiting(u)'
    BY <2>1 DEF Exiting
  <2> QED
    BY <1>0, <1>1, <2>1, <2>2, <2>3, DeleteFrame
<1>11. ASSUME NEW t \in Threads, Create(t)
       PROVE  DeleteInv'
  <2>1. /\ life[t] = "unborn" /\ life' = [life EXCEPT ![t] = "live"]
        /\ status' = [status EXCEPT ![current] = "Ready", ![t] = "Running"]
        /\ ready' = Enqueue(ready, current) /\ UNCHANGED <<jpc, target>>
    BY <1>11 DEF Create, CreateThread, joinVars
  <2>2. t # current /\ ~InQueue(ready, t)
    BY <1>0, <2>1 DEF QueueInv, Exists
  <2>3. \A u \in Threads : InQueue(ready', u) <=> InQueue(ready, u) \/ u = current
    BY <1>0, <2>1, EnqueueLemma
  <2>4. /\ status'[current] = "Ready" /\ status'[t] = "Running"
        /\ \A u \in Threads \ {t, current} : status'[u] = status[u]
    BY <1>0, <2>1, <2>2
  <2>5. QueuedIsReady'
    BY <1>0, <2>2, <2>3, <2>4 DEF QueuedIsReady, InQueue, Queued
  <2>6. \A u \in Threads : Exiting(u) => Exiting(u)'
    BY <1>0, <2>1 DEF Exiting
  <2>7. ASSUME NEW v \in Threads, status[v] = "Sleeping", jpc[v] = "woken"
        PROVE  status'[v] = "Sleeping"
    <3>1. v # t /\ v # current
      BY <1>1, <2>1, <2>7 DEF JoinInv, UnbornHasNoWaiter
    <3> QED
      BY <2>4, <2>7, <3>1
  <2> QED
    BY <1>0, <2>1, <2>4, <2>5, <2>6, <2>7, DeleteFrame
<1>12. ASSUME NEW t \in Signalled, NEW e \in Events, Signal(t, e)
       PROVE  DeleteInv'
  <2>1. t \in Threads /\ UNCHANGED <<life, jpc, target>>
        /\ \/ UNCHANGED <<status, ready>>
           \/ /\ status' = [status EXCEPT ![t] = "Ready"]
              /\ ready' = Enqueue(ready, t)
    BY <1>12, OwnersAssumption DEF Signal, SendEvent, PostEvent, joinVars
  <2>2. QueuedIsReady'
    <3>1. CASE UNCHANGED <<status, ready>>
      BY <1>0, <3>1 DEF QueuedIsReady, InQueue, Queued
    <3>2. CASE status' = [status EXCEPT ![t] = "Ready"] /\ ready' = Enqueue(ready, t)
      <4>1. \A u \in Threads : InQueue(ready', u) <=> InQueue(ready, u) \/ u = t
        BY <1>0, <2>1, <3>2, EnqueueLemma
      <4> QED
        BY <1>0, <2>1, <3>2, <4>1 DEF QueuedIsReady, InQueue, Queued
    <3> QED
      BY <2>1, <3>1, <3>2
  <2>3. /\ \A u \in Threads \ {t} : status'[u] = status[u]
        /\ status'[t] \in {status[t], "Ready"}
    BY <1>0, <2>1
  <2>4. \A u \in Threads : Exiting(u) => Exiting(u)'
    BY <2>1 DEF Exiting
  <2> QED
    BY <1>0, <1>12, <2>1, <2>2, <2>3, <2>4, DeleteFrame
<1> QED
  BY <1>2, <1>3, <1>4, <1>5, <1>6, <1>7, <1>8, <1>9, <1>10, <1>11, <1>12
  DEF LifeNext, LifeStep

----------------------------------------------------------------------------
(* Theorems *)

\* The invariants hold in every reachable state.
LEMMA LifeInvHolds == LifeSpec => [](QueueInv /\ JoinInv)
<1>1. LifeInit => QueueInv /\ JoinInv
  <2> SUFFICES ASSUME LifeInit PROVE QueueInv /\ JoinInv
    OBVIOUS
  <2>1. QueueInv
    BY InitQueueInv DEF LifeInit
  <2>2. JoinInv
    BY DEF LifeInit, SchedInit, JoinInv, JoinTypeOK, UnbornHasNoWaiter,
       DetachedHasNoWaiter, WaiterIsJoining, Places
  <2> QED
    BY <2>1, <2>2
<1>2. QueueInv /\ JoinInv /\ [LifeNext]_lifeVars => (QueueInv /\ JoinInv)'
  <2> SUFFICES ASSUME QueueInv, JoinInv, [LifeNext]_lifeVars
               PROVE  QueueInv' /\ JoinInv'
    OBVIOUS
  <2>1. SchedTypeOK /\ JoinTypeOK
    BY DEF QueueInv, JoinInv
  <2>2. [SchedNext]_schedVars
    BY <2>1, LifeStepIsSchedStep
  <2>3. QueueInv'
    BY <2>2, NextQueueInv
  <2>4. JoinInv'
    BY <2>1, NextJoinInv
  <2> QED
    BY <2>3, <2>4
<1> QED
  BY <1>1, <1>2, PTL DEF LifeSpec

\* No thread is detached and awaited at the same time: the checks that join and
\* detach make under m_ConcurrencyLock exclude each other, in any number of
\* threads, although detach decides by a status it reads without the lock.
THEOREM DetachedThreadsHaveNoWaiter == LifeSpec => []DetachedHasNoWaiter
<1>1. QueueInv /\ JoinInv => DetachedHasNoWaiter
  BY DEF JoinInv
<1> QED
  BY <1>1, LifeInvHolds, PTL

\* shutdown wakes a live thread that is still in its join: no m_pWaiter dangles,
\* whatever other threads join, detach, exit and are deleted.
THEOREM WaitersAreJoining == LifeSpec => []WaiterIsJoining
<1>1. QueueInv /\ JoinInv => WaiterIsJoining
  BY DEF JoinInv
<1> QED
  BY <1>1, LifeInvHolds, PTL

\* A join that no event reaches deletes a thread only after that thread has begun
\* to exit: while nothing but the end of its target makes the joiner Ready, being
\* woken means what join takes it for.
THEOREM JoinDeletesOnlyExited == LifeSpec => []JoinDeletesExited
<1>1. LifeInit => DeleteInv
  <2> SUFFICES ASSUME LifeInit PROVE DeleteInv
    OBVIOUS
  <2>1. QueueInv
    BY InitQueueInv DEF LifeInit
  <2>2. /\ status = [t \in Threads |-> IF t \in {Boot, Idle} THEN "Running" ELSE "Ready"]
        /\ jpc = [t \in Threads |-> "no"] /\ ready = BootReady
    BY DEF LifeInit, SchedInit
  <2>3. \A t \in Threads : InQueue(BootReady, t) => t \notin {Boot, Idle}
    <3> SUFFICES ASSUME NEW t \in Threads, InQueue(BootReady, t)
                 PROVE  t \notin {Boot, Idle}
      OBVIOUS
    <3>1. /\ Priority[t] \in Priorities
          /\ BootReady[Priority[t]] \in Seq(Threads \ {Idle, Boot})
      BY PriorityAssumption, BootReadyAssumption
    <3>2. PICK j \in 1 .. Len(BootReady[Priority[t]]) : BootReady[Priority[t]][j] = t
      BY DEF InQueue, Queued
    <3> QED
      BY <3>1, <3>2
  <2>4. QueuedIsReady
    BY <2>2, <2>3 DEF QueuedIsReady
  <2> QED
    BY <2>2, <2>4, ThreadsAssumption DEF DeleteInv
<1>2. QueueInv /\ JoinInv /\ DeleteInv /\ [LifeNext]_lifeVars => DeleteInv'
  BY NextDeleteInv
<1>3. DeleteInv => JoinDeletesExited
  BY DEF DeleteInv, Exiting, JoinDeletesExited
<1> QED
  BY <1>1, <1>2, <1>3, LifeInvHolds, PTL DEF LifeSpec

\* Thread::join, detach and shutdown implement the scheduler's specification:
\* the theorems about it hold while threads are joined and detached.
THEOREM ThreadLifeUsesScheduler == LifeSpec => LifeUsesScheduler
<1>1. LifeInit => SchedInit
  BY DEF LifeInit
<1>2. QueueInv /\ JoinInv /\ [LifeNext]_lifeVars => [SchedNext]_schedVars
  BY LifeStepIsSchedStep DEF QueueInv, JoinInv
<1> QED
  BY <1>1, <1>2, LifeInvHolds, PTL DEF LifeSpec, SchedSpec, LifeUsesScheduler
=============================================================================
