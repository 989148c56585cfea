-------------------------- MODULE SemaphoreProofs --------------------------
(***************************************************************************)
(* Proofs about Semaphore, for every set of threads, every initial value   *)
(* and every choice of amounts, timeouts and signals.                      *)
(***************************************************************************)
EXTENDS Semaphore, SchedulerProofs

\* A thread that is about to swap the counter has read enough, and one that is
\* asking asks for something.
RequestOK ==
  \A t \in Threads :
    /\ pc[t] \in {"onceSwap", "swap", "loopSwap"} => need[t] <= seen[t]
    /\ pc[t] \in Asking => need[t] > 0

\* The part of the invariant about the semaphore's own variables.
SemLocalInv == SemTypeOK /\ RequestOK

----------------------------------------------------------------------------
(* The queue *)

\* removeThread leaves a list of threads, takes out no thread but t, and adds
\* none.
LEMMA RemoveThreadLemma ==
  ASSUME semQ \in Seq(Threads), NEW t \in Threads
  PROVE  /\ RemoveThread(t) \in Seq(Threads)
         /\ \A u \in Threads \ {t} :
              Queued(RemoveThread(t), u) <=> Queued(semQ, u)
<1>1. CASE ~Queued(semQ, t)
  BY <1>1 DEF RemoveThread
<1>2. CASE Queued(semQ, t)
  <2> DEFINE k == CHOOSE i \in 1 .. Len(semQ) : semQ[i] = t
             d == SubSeq(semQ, 1, k - 1) \o SubSeq(semQ, k + 1, Len(semQ))
  <2>1. k \in 1 .. Len(semQ) /\ semQ[k] = t
    BY <1>2 DEF Queued
  <2>2. RemoveThread(t) = d
    BY <1>2 DEF RemoveThread
  <2> HIDE DEF k
  <2>3. /\ d \in Seq(Threads) /\ Len(d) = Len(semQ) - 1
        /\ \A j \in 1 .. Len(semQ) - 1 :
             d[j] = IF j < k THEN semQ[j] ELSE semQ[j + 1]
    BY <2>1, RemoveAtLemma
  <2> HIDE DEF d
  <2>4. Len(semQ) \in Nat
    BY LenProperties
  <2>5. ASSUME NEW u \in Threads \ {t}, Queued(d, u)
        PROVE  Queued(semQ, u)
    <3>1. PICK j \in 1 .. Len(semQ) - 1 : d[j] = u
      BY <2>3, <2>5 DEF Queued
    <3> QED
      BY <2>1, <2>3, <2>4, <3>1 DEF Queued
  <2>6. ASSUME NEW u \in Threads \ {t}, Queued(semQ, u)
        PROVE  Queued(d, u)
    <3>1. PICK j \in 1 .. Len(semQ) : semQ[j] = u
      BY <2>6 DEF Queued
    <3>2. CASE j < k
      <4>1. j \in 1 .. Len(d) /\ d[j] = u
        BY <2>1, <2>3, <2>4, <3>1, <3>2
      <4> QED
        BY <4>1 DEF Queued
    <3>3. CASE j > k
      <4>1. j - 1 \in 1 .. Len(d) /\ d[j - 1] = u
        BY <2>1, <2>3, <2>4, <3>1, <3>3
      <4> QED
        BY <4>1 DEF Queued
    <3> QED
      BY <2>1, <3>1, <3>2, <3>3
  <2> QED
    BY <2>2, <2>3, <2>5, <2>6
<1> QED
  BY <1>1, <1>2

----------------------------------------------------------------------------
(* Types, and the steps of the scheduler *)

\* The semaphore starts well typed and with nobody in a call.
LEMMA InitSemLocalInv == SemInit => SemLocalInv
  BY SemaphoreAssumption
  DEF SemInit, SemLocalInv, SemTypeOK, RequestOK, Labels, Asking

\* Every step keeps the semaphore's variables well typed.
LEMMA NextSemLocalInv ==
  SemLocalInv /\ SchedTypeOK /\ [SemNext]_semVars => SemLocalInv'
<1> SUFFICES ASSUME SemLocalInv, SchedTypeOK, [SemNext]_semVars
             PROVE  SemLocalInv'
  OBVIOUS
<1> USE DEF Labels, Asking
<1>0. current \in Threads /\ SemTypeOK /\ RequestOK
  BY DEF SchedTypeOK, SemLocalInv
<1>T. ASSUME At("onceSwap") \/ At("swap") \/ At("loopSwap"), counter = seen[current], Take
      PROVE  counter' \in Nat /\ held' \in [Threads -> Nat]
  <2>1. need[current] \in Nat /\ counter \in Nat /\ need[current] <= counter
    BY <1>0, <1>T DEF At, SemTypeOK, RequestOK
  <2>2. held[current] + need[current] \in Nat
    BY <1>0, <2>1 DEF SemTypeOK
  <2> QED
    BY <1>0, <1>T, <2>1, <2>2 DEF Take, SemTypeOK
<1>1. ASSUME NEW n \in Amounts, NEW w \in Timeouts, CallAcquire(n, w)
      PROVE  SemLocalInv'
  BY <1>0, <1>1, SemaphoreAssumption
  DEF CallAcquire, At, Goto, SemLocalInv, SemTypeOK, RequestOK
<1>2. ASSUME NEW n \in Amounts, CallTryAcquire(n)
      PROVE  SemLocalInv'
  BY <1>0, <1>2, SemaphoreAssumption
  DEF CallTryAcquire, At, Goto, SemLocalInv, SemTypeOK, RequestOK
<1>3. ASSUME NEW n \in Amounts, CallRelease(n)
      PROVE  SemLocalInv'
  <2>1. counter' \in Nat /\ held' \in [Threads -> Nat]
    <3>1. CASE n <= held[current] /\ held' = [held EXCEPT ![current] = @ - n]
      BY <1>0, <1>3, <3>1, SemaphoreAssumption DEF CallRelease, SemTypeOK
    <3>2. CASE UNCHANGED held
      BY <1>0, <1>3, <3>2, SemaphoreAssumption DEF CallRelease, SemTypeOK
    <3> QED
      BY <1>3, <3>1, <3>2 DEF CallRelease
  <2> QED
    BY <1>0, <1>3, <2>1 DEF CallRelease, At, Goto, SemLocalInv, SemTypeOK, RequestOK
<1>4. CASE Once
  <2>1. CASE counter >= need[current]
    BY <1>0, <1>4, <2>1 DEF Once, At, Goto, SemLocalInv, SemTypeOK, RequestOK
  <2>2. CASE ~(counter >= need[current])
    <3>1. Return /\ UNCHANGED seen
      BY <1>4, <2>2 DEF Once
    <3> QED
      BY <1>0, <1>4, <3>1 DEF Once, Goto, Return, SemLocalInv, SemTypeOK, RequestOK
  <2> QED
    BY <2>1, <2>2
<1>5. CASE OnceSwap
  <2>1. counter' \in Nat /\ held' \in [Threads -> Nat]
    BY <1>0, <1>5, <1>T DEF OnceSwap, SemTypeOK
  <2> QED
    BY <1>0, <1>5, <2>1 DEF OnceSwap, At, Goto, Return, SemLocalInv, SemTypeOK, RequestOK
<1>6. CASE Try
  BY <1>0, <1>6 DEF Try, At, Goto, ArmAlarm, SemLocalInv, SemTypeOK, RequestOK
<1>7. CASE Swap
  <2>1. counter' \in Nat /\ held' \in [Threads -> Nat]
    BY <1>0, <1>7, <1>T DEF Swap, SemTypeOK
  <2>2. CASE Return
    BY <1>0, <1>7, <2>1, <2>2 DEF Swap, At, Goto, Return, SemLocalInv, SemTypeOK, RequestOK
  <2>3. CASE Goto("loop") /\ ArmAlarm /\ UNCHANGED need
    BY <1>0, <1>7, <2>1, <2>3 DEF Swap, At, Goto, ArmAlarm, SemLocalInv, SemTypeOK, RequestOK
  <2> QED
    BY <1>7, <2>2, <2>3 DEF Swap
<1>8. CASE Loop
  BY <1>0, <1>8 DEF Loop, At, Goto, SemLocalInv, SemTypeOK, RequestOK
<1>9. CASE LoopSwap
  <2>1. counter' \in Nat /\ held' \in [Threads -> Nat]
    BY <1>0, <1>9, <1>T DEF LoopSwap, SemTypeOK
  <2>2. Goto("leave") \/ Goto("lock")
    BY <1>9 DEF LoopSwap
  <2> QED
    BY <1>0, <1>9, <2>1, <2>2 DEF LoopSwap, At, Goto, SemLocalInv, SemTypeOK, RequestOK
<1>10. CASE Leave
  <2>1. semQ' \in Seq(Threads)
    BY <1>0, <1>10, RemoveThreadLemma DEF Leave, SemTypeOK
  <2> QED
    BY <1>0, <1>10, <2>1 DEF Leave, At, Goto, Return, SemLocalInv, SemTypeOK, RequestOK
<1>11. CASE Lock
  <2>1. CASE counter >= need[current] /\ Take /\ Return /\ semQ' = RemoveThread(current)
    <3>1. semQ' \in Seq(Threads)
      BY <1>0, <2>1, RemoveThreadLemma DEF SemTypeOK
    <3>2. counter' \in Nat /\ held' \in [Threads -> Nat]
      BY <1>0, <2>1 DEF Take, SemTypeOK
    <3> QED
      BY <1>0, <1>11, <2>1, <3>1, <3>2
      DEF Lock, At, Goto, Return, SemLocalInv, SemTypeOK, RequestOK
  <2>2. CASE /\ semQ' = Append(semQ, current)
             /\ Goto("woken") \/ Goto("handle")
             /\ UNCHANGED <<counter, need, alarm, held>>
    <3>1. semQ' \in Seq(Threads)
      BY <1>0, <2>2, AppendProperties DEF SemTypeOK
    <3> QED
      BY <1>0, <1>11, <2>2, <3>1 DEF Lock, At, Goto, SemLocalInv, SemTypeOK, RequestOK
  <2> QED
    BY <1>11, <2>1, <2>2 DEF Lock
<1>12. CASE Handle
  BY <1>0, <1>12 DEF Handle, At, Goto, SemLocalInv, SemTypeOK, RequestOK
<1>13. CASE Relock
  BY <1>0, <1>13 DEF Relock, At, Goto, SemLocalInv, SemTypeOK, RequestOK
<1>14. CASE Woken
  <2>1. semQ' \in Seq(Threads)
    BY <1>0, <1>14, RemoveThreadLemma DEF Woken, SemTypeOK
  <2> QED
    BY <1>0, <1>14, <2>1 DEF Woken, At, Goto, SemLocalInv, SemTypeOK, RequestOK
<1>15. CASE Check
  <2>1. CASE Return
    BY <1>0, <1>15, <2>1 DEF Check, Goto, Return, SemLocalInv, SemTypeOK, RequestOK
  <2>2. CASE Goto("loop") /\ UNCHANGED <<need, alarm>>
    BY <1>0, <1>15, <2>2 DEF Check, At, Goto, SemLocalInv, SemTypeOK, RequestOK
  <2> QED
    BY <1>15, <2>1, <2>2 DEF Check
<1>16. CASE Count
  BY <1>0, <1>16 DEF Count, At, Goto, SemLocalInv, SemTypeOK, RequestOK
<1>17. CASE Collect
  BY <1>0, <1>17 DEF Collect, At, Goto, SemLocalInv, SemTypeOK, RequestOK
<1>18. CASE Pick
  <2>1. /\ semQ' \in Seq(Threads) /\ pending' \in Seq(Threads)
        /\ wakeups' \in [Threads -> Seq(Threads)]
    <3>1. CASE semQ # <<>>
      <4>1. Head(semQ) \in Threads /\ Tail(semQ) \in Seq(Threads)
        BY <1>0, <3>1, TailLemma DEF SemTypeOK
      <4>2. /\ Append(wakeups[current], Head(semQ)) \in Seq(Threads)
            /\ Append(pending, Head(semQ)) \in Seq(Threads)
        BY <1>0, <4>1, AppendProperties DEF SemTypeOK
      <4> QED
        <5>1. CASE status[Head(semQ)] = "Sleeping"
          BY <1>0, <1>18, <3>1, <4>1, <4>2, <5>1 DEF Pick, SemTypeOK
        <5>2. CASE status[Head(semQ)] # "Sleeping"
          BY <1>0, <1>18, <3>1, <4>1, <4>2, <5>2 DEF Pick, SemTypeOK
        <5> QED
          BY <5>1, <5>2
    <3>2. CASE semQ = <<>>
      BY <1>0, <1>18, <3>2 DEF Pick, SemTypeOK
    <3> QED
      BY <3>1, <3>2
  <2> QED
    BY <1>0, <1>18, <2>1 DEF Pick, At, Goto, SemLocalInv, SemTypeOK, RequestOK
<1>19. CASE WakeOne
  <2>1. wakeups' \in [Threads -> Seq(Threads)]
    <3>1. Tail(wakeups[current]) \in Seq(Threads)
      BY <1>0, <1>19, TailLemma DEF WakeOne, SemTypeOK
    <3> QED
      BY <1>0, <1>19, <3>1 DEF WakeOne, SemTypeOK
  <2> QED
    BY <1>0, <1>19, <2>1 DEF WakeOne, At, SemLocalInv, SemTypeOK, RequestOK
<1>20. CASE Released
  BY <1>0, <1>20 DEF Released, At, Goto, SemLocalInv, SemTypeOK, RequestOK
<1>21. CASE SemTick \/ Kill \/ \E t \in Threads, e \in Signals : Signal(t, e)
  BY <1>0, <1>21 DEF SemTick, Kill, Signal, semOnly, SemLocalInv, SemTypeOK, RequestOK
<1>22. ASSUME NEW t \in Threads, AlarmFires(t)
       PROVE  SemLocalInv'
  BY <1>0, <1>22 DEF AlarmFires, SemLocalInv, SemTypeOK, RequestOK
<1>23. ASSUME NEW t \in Unwindable, Unwind(t)
       PROVE  SemLocalInv'
  BY <1>0, <1>23, SemaphoreAssumption
  DEF Unwind, SemLocalInv, SemTypeOK, RequestOK
<1>24. CASE UNCHANGED semVars
  BY <1>0, <1>24 DEF semVars, semOnly, SemLocalInv, SemTypeOK, RequestOK
<1> QED
  BY <1>1, <1>2, <1>3, <1>4, <1>5, <1>6, <1>7, <1>8, <1>9, <1>10, <1>11, <1>12,
     <1>13, <1>14, <1>15, <1>16, <1>17, <1>18, <1>19, <1>20, <1>21, <1>22,
     <1>23, <1>24 DEF SemNext, SemStep

\* Every step of the semaphore is a step of the scheduler, or leaves it alone.
LEMMA SemStepIsSchedStep ==
  SemLocalInv /\ SchedTypeOK /\ [SemNext]_semVars => [SchedNext]_schedVars
<1> SUFFICES ASSUME SemLocalInv, SchedTypeOK, [SemNext]_semVars
             PROVE  SchedNext \/ UNCHANGED schedVars
  OBVIOUS
<1>0. current \in Threads /\ SemTypeOK
  BY DEF SchedTypeOK, SemLocalInv
<1>1. CASE \/ \E n \in Amounts, w \in Timeouts : CallAcquire(n, w)
           \/ \E n \in Amounts : CallTryAcquire(n) \/ CallRelease(n)
           \/ Once \/ OnceSwap \/ Try \/ Swap \/ Loop \/ LoopSwap \/ Leave
           \/ Woken \/ Check \/ Count \/ Collect \/ Pick \/ Released
           \/ \E t \in Unwindable : Unwind(t)
           \/ UNCHANGED semVars
  BY <1>1 DEF CallAcquire, CallTryAcquire, CallRelease, Once, OnceSwap, Try, Swap,
              Loop, LoopSwap, Leave, Woken, Check, Count, Collect, Pick, Released,
              Unwind, semVars, schedVars
<1>2. CASE Lock
  <2>1. CASE UNCHANGED schedVars
    BY <2>1
  <2>2. CASE /\ Schedule("Sleeping", [interrupted EXCEPT ![current] = FALSE])
             /\ UNCHANGED <<inhibit, killing, detached, life>>
    <3>1. Sleep
      BY <1>2, <2>2 DEF Lock, At, Sleep
    <3> QED
      BY <3>1 DEF SchedNext
  <2>3. CASE ClearInterrupted
    BY <2>3 DEF SchedNext
  <2> QED
    BY <1>2, <2>1, <2>2, <2>3 DEF Lock
<1>3. CASE Handle
  BY <1>3 DEF Handle, SchedNext
<1>4. CASE Relock
  <2>1. Sleep
    BY <1>4 DEF Relock, At, Sleep
  <2> QED
    BY <2>1 DEF SchedNext
<1>5. CASE WakeOne
  <2>1. Head(wakeups[current]) \in Threads /\ Wake(Head(wakeups[current]))
    BY <1>0, <1>5, TailLemma DEF WakeOne, SemTypeOK
  <2> QED
    BY <2>1 DEF SchedNext
<1>6. CASE SemTick
  BY <1>6 DEF SemTick, SchedNext
<1>7. CASE Kill
  <2>1. KillSwitch \/ \E t \in Threads, e \in Events : KillSend(t, e)
    BY <1>7, SemaphoreAssumption DEF Kill
  <2> QED
    BY <2>1 DEF SchedNext
<1>8. ASSUME NEW t \in Threads, AlarmFires(t)
      PROVE  SchedNext
  <2>1. SendEvent(t, Interrupt) /\ Interrupt \in Events
    BY <1>8, EventsAssumption DEF AlarmFires
  <2> QED
    BY <2>1 DEF SchedNext
<1>9. ASSUME NEW t \in Threads, NEW e \in Signals, Signal(t, e)
      PROVE  SchedNext
  <2>1. SendEvent(t, e) /\ e \in Events
    BY <1>9, SemaphoreAssumption DEF Signal
  <2> QED
    BY <2>1 DEF SchedNext
<1> QED
  BY <1>1, <1>2, <1>3, <1>4, <1>5, <1>6, <1>7, <1>8, <1>9 DEF SemNext, SemStep

\* The inductive invariant that the theorems below rest on: that of the
\* scheduler, which a step of the semaphore preserves because it is one of the
\* scheduler's, and that of the semaphore's own variables.
SemInv == QueueInv /\ SemLocalInv

\* The invariant holds at the start and is preserved.
LEMMA SemInvHolds == SemSpec => []SemInv
<1>1. SemInit => SemInv
  BY InitQueueInv, InitSemLocalInv DEF SemInit, SemInv
<1>2. SemInv /\ [SemNext]_semVars => SemInv'
  <2> SUFFICES ASSUME SemInv, [SemNext]_semVars PROVE SemInv'
    OBVIOUS
  <2>1. SchedTypeOK /\ SemLocalInv
    BY DEF SemInv, QueueInv
  <2>2. [SchedNext]_schedVars
    BY <2>1, SemStepIsSchedStep
  <2> QED
    BY <2>1, <2>2, NextQueueInv, NextSemLocalInv DEF SemInv
<1> QED
  BY <1>1, <1>2, PTL DEF SemSpec

\* The counter never goes below zero, and every list of the semaphore is a list
\* of threads.
THEOREM SemaphoreTypeCorrect == SemSpec => []SemTypeOK
<1>1. SemInv => SemTypeOK
  BY DEF SemInv, SemLocalInv
<1> QED
  BY <1>1, SemInvHolds, PTL

\* The semaphore uses the scheduler as any other client does, so what is proved
\* of the scheduler holds while threads wait for semaphores.
THEOREM SemaphoreUsesScheduler == SemSpec => UsesScheduler
<1>1. SemInit => SchedInit
  BY DEF SemInit
<1>2. SemInv /\ [SemNext]_semVars => [SchedNext]_schedVars
  <2> SUFFICES ASSUME SemInv, [SemNext]_semVars PROVE [SchedNext]_schedVars
    OBVIOUS
  <2>1. SchedTypeOK /\ SemLocalInv
    BY DEF SemInv, QueueInv
  <2> QED
    BY <2>1, SemStepIsSchedStep
<1> QED
  BY <1>1, <1>2, SemInvHolds, PTL DEF SemSpec, SchedSpec, UsesScheduler

----------------------------------------------------------------------------
(* Mutual exclusion *)

\* The unit of a Mutex is free, or one thread has it.
OneUnit ==
  \/ counter = 1 /\ \A t \in Threads : held[t] = 0
  \/ counter = 0 /\ \E t \in Threads :
       held[t] = 1 /\ \A u \in Threads \ {t} : held[u] = 0

\* A successful tryAcquire takes the free unit.
LEMMA TakeOneUnit ==
  ASSUME OneUnit, held \in [Threads -> Nat], current \in Threads, Take,
         need[current] \in Nat \ {0}, need[current] <= counter
  PROVE  OneUnit'
<1>1. counter = 1 /\ need[current] = 1 /\ \A t \in Threads : held[t] = 0
  <2>1. counter # 0 /\ need[current] > 0
    OBVIOUS
  <2>2. counter = 1 /\ \A t \in Threads : held[t] = 0
    BY <2>1 DEF OneUnit
  <2> QED
    BY <2>1, <2>2
<1>2. counter' = 0 /\ held' = [held EXCEPT ![current] = 1]
  <2>1. /\ counter' = counter - need[current]
        /\ held' = [held EXCEPT ![current] = held[current] + need[current]]
    BY DEF Take
  <2>2. held[current] + need[current] = 1 /\ counter - need[current] = 0
    BY <1>1
  <2> QED
    BY <2>1, <2>2
<1>3. held'[current] = 1 /\ \A u \in Threads \ {current} : held'[u] = 0
  BY <1>1, <1>2
<1> QED
  BY <1>2, <1>3 DEF OneUnit

\* No two threads hold a Mutex at the same time: a Semaphore whose initial
\* value is 1 and that is released only by those who have acquired it.
THEOREM MutexExcludes ==
  ASSUME Initial = 1, Producers = {}
  PROVE  SemSpec => []MutualExclusion
<1>1. SemInit => OneUnit
  BY DEF SemInit, OneUnit
<1>2. OneUnit /\ SemInv /\ [SemNext]_semVars => OneUnit'
  <2> SUFFICES ASSUME OneUnit, SemInv, [SemNext]_semVars PROVE OneUnit'
    OBVIOUS
  <2>0. current \in Threads /\ SemTypeOK /\ RequestOK /\ held \in [Threads -> Nat]
        /\ need \in [Threads -> Nat] /\ counter \in Nat
    BY DEF SemInv, QueueInv, SchedTypeOK, SemLocalInv, SemTypeOK
  <2>1. CASE UNCHANGED <<counter, held>>
    BY <2>1 DEF OneUnit
  <2>2. ASSUME Take, At("onceSwap") \/ At("swap") \/ At("loopSwap") \/ At("lock"),
               counter = seen[current] \/ need[current] <= counter,
               At("lock") => need[current] <= counter
        PROVE  OneUnit'
    <3>1. need[current] \in Nat \ {0}
      BY <2>0, <2>2 DEF At, RequestOK, Asking
    <3>2. need[current] <= counter
      BY <2>0, <2>2 DEF At, RequestOK
    <3> QED
      BY <2>0, <2>2, <3>1, <3>2, TakeOneUnit
  <2>3. ASSUME NEW n \in Amounts, CallRelease(n)
        PROVE  OneUnit'
    <3>1. /\ n \in Nat \ {0} /\ n <= held[current] /\ counter' = counter + n
          /\ held' = [held EXCEPT ![current] = @ - n]
      BY <2>3, SemaphoreAssumption DEF CallRelease
    <3>2. PICK t \in Threads :
            counter = 0 /\ held[t] = 1 /\ \A u \in Threads \ {t} : held[u] = 0
      BY <2>0, <3>1 DEF OneUnit
    <3>3. t = current /\ n = 1
      BY <2>0, <3>1, <3>2
    <3>4. counter' = 1 /\ \A u \in Threads : held'[u] = 0
      BY <2>0, <3>1, <3>2, <3>3
    <3> QED
      BY <3>4 DEF OneUnit
  <2>4. CASE OnceSwap
    BY <2>1, <2>2, <2>4 DEF OnceSwap, At
  <2>5. CASE Swap
    BY <2>1, <2>2, <2>5 DEF Swap, At
  <2>6. CASE LoopSwap
    BY <2>1, <2>2, <2>6 DEF LoopSwap, At
  <2>7. CASE Lock
    <3>1. CASE counter >= need[current] /\ Take
      BY <2>0, <2>2, <2>7, <3>1 DEF Lock
    <3>2. CASE UNCHANGED <<counter, held>>
      BY <2>1, <3>2
    <3> QED
      BY <2>7, <3>1, <3>2 DEF Lock
  <2>8. CASE \/ \E n \in Amounts, w \in Timeouts : CallAcquire(n, w)
             \/ \E n \in Amounts : CallTryAcquire(n)
             \/ Once \/ Try \/ Loop \/ Leave \/ Handle \/ Relock \/ Woken \/ Check
             \/ Count \/ Collect \/ Pick \/ WakeOne \/ Released \/ SemTick \/ Kill
             \/ \E t \in Threads : AlarmFires(t)
             \/ \E t \in Threads, e \in Signals : Signal(t, e)
             \/ \E t \in Unwindable : Unwind(t)
             \/ UNCHANGED semVars
    <3>1. UNCHANGED <<counter, held>>
      BY <2>8 DEF CallAcquire, CallTryAcquire, Once, Try, Loop, Leave, Handle,
                  Relock, Woken, Check, Count, Collect, Pick, WakeOne, Released,
                  SemTick, Kill, AlarmFires, Signal, Unwind, semVars, semOnly
    <3> QED
      BY <2>1, <3>1
  <2> QED
    BY <2>3, <2>4, <2>5, <2>6, <2>7, <2>8 DEF SemNext, SemStep
<1>3. OneUnit => MutualExclusion
  BY DEF OneUnit, MutualExclusion
<1> QED
  BY <1>1, <1>2, <1>3, SemInvHolds, PTL DEF SemSpec

----------------------------------------------------------------------------
(* The abstract semaphore *)

\* What the abstract semaphore sees of the calls in progress.
Want == [t \in Threads |-> IF pc[t] \in Asking THEN need[t] ELSE 0]

\* A step inside of a call, or outside of one, is not visible.
LEMMA WantSame ==
  ASSUME SemTypeOK, current \in Threads, NEW l, Goto(l), UNCHANGED need,
         l \in Asking <=> pc[current] \in Asking
  PROVE  UNCHANGED Want
  BY DEF Want, SemTypeOK, Goto

\* A return is the end of the request.
LEMMA WantReturn ==
  ASSUME SemTypeOK, current \in Threads, Return
  PROVE  Want' = [Want EXCEPT ![current] = 0]
  BY DEF Want, SemTypeOK, Return, Goto, Asking

\* The swap that succeeds grants the request.
LEMMA GrantLemma ==
  ASSUME SemTypeOK, current \in Threads, pc[current] \in Asking, Take,
         need[current] > 0, need[current] <= counter,
         Want' = [Want EXCEPT ![current] = 0]
  PROVE  CS!Next
<1>1. Want[current] = need[current]
  BY DEF Want
<1>2. CS!Grant(current)
  BY <1>1 DEF Take, CS!Grant, Want
<1>3. \E t \in Threads : CS!Grant(t) \/ CS!Fail(t)
  BY <1>2 DEF CS!Grant
<1> QED
  BY <1>3 DEF CS!Next

\* Every step of acquire, tryAcquire and release is one of the abstract
\* semaphore, or changes nothing it can see.
LEMMA SemStepIsCountingStep ==
  SemInv /\ [SemNext]_semVars => [CS!Next]_(CS!vars)
<1> SUFFICES ASSUME SemInv, [SemNext]_semVars
             PROVE  CS!Next \/ UNCHANGED <<counter, held, Want>>
  BY DEF CS!vars, Want
<1>0. current \in Threads /\ SemTypeOK /\ RequestOK
  BY DEF SemInv, QueueInv, SchedTypeOK, SemLocalInv
<1>1. ASSUME NEW n \in Amounts, At("out"),
             need' = [need EXCEPT ![current] = n], Goto("try") \/ Goto("once"),
             UNCHANGED <<counter, held>>
      PROVE  CS!Next
  <2>1. Want[current] = 0 /\ Want' = [Want EXCEPT ![current] = n]
    BY <1>0, <1>1 DEF Want, At, Goto, Asking, SemTypeOK
  <2>2. CS!Ask(current, n)
    BY <1>1, <2>1 DEF CS!Ask, Want
  <2> QED
    BY <1>0, <2>2 DEF CS!Next
<1>2. ASSUME NEW n \in Amounts, CallRelease(n)
      PROVE  CS!Next
  <2>1. UNCHANGED Want
    BY <1>0, <1>2, WantSame DEF CallRelease, At, Asking
  <2>2. CASE n <= held[current] /\ held' = [held EXCEPT ![current] = @ - n]
    <3>1. CS!GiveBack(current, n)
      BY <1>2, <2>1, <2>2 DEF CallRelease, CS!GiveBack, Want
    <3> QED
      BY <1>0, <3>1 DEF CS!Next
  <2>3. CASE UNCHANGED held
    <3>1. CS!Post(n)
      BY <1>2, <2>1, <2>3 DEF CallRelease, CS!Post, Want
    <3> QED
      BY <3>1 DEF CS!Next
  <2> QED
    BY <1>2, <2>2, <2>3 DEF CallRelease
<1>3. ASSUME Take, counter = seen[current], Want' = [Want EXCEPT ![current] = 0],
             At("onceSwap") \/ At("swap") \/ At("loopSwap")
      PROVE  CS!Next
  <2>1. /\ pc[current] \in Asking /\ need[current] > 0
        /\ need[current] <= counter
    BY <1>0, <1>3 DEF At, RequestOK, Asking
  <2> QED
    BY <1>0, <1>3, <2>1, GrantLemma
<1>4. ASSUME Return, pc[current] \in Asking, UNCHANGED <<counter, held>>
      PROVE  CS!Next
  <2>1. Want' = [Want EXCEPT ![current] = 0]
    BY <1>0, <1>4, WantReturn
  <2>2. Want[current] > 0
    BY <1>0, <1>4 DEF Want, RequestOK
  <2>3. CS!Fail(current)
    BY <1>4, <2>1, <2>2 DEF CS!Fail, Want
  <2>4. \E t \in Threads : CS!Grant(t) \/ CS!Fail(t)
    BY <1>0, <2>3 DEF CS!Fail
  <2> QED
    BY <2>4 DEF CS!Next
<1>5. CASE Once
  <2>1. CASE Return
    BY <1>4, <1>5, <2>1 DEF Once, At, Asking
  <2>2. CASE Goto("onceSwap") /\ UNCHANGED need
    BY <1>0, <1>5, <2>2, WantSame DEF Once, At, Asking
  <2> QED
    BY <1>5, <2>1, <2>2 DEF Once
<1>6. CASE OnceSwap
  <2>1. Want' = [Want EXCEPT ![current] = 0]
    BY <1>0, <1>6, WantReturn DEF OnceSwap
  <2> QED
    BY <1>3, <1>4, <1>6, <2>1 DEF OnceSwap, At, Asking
<1>7. CASE Try
  <2>1. UNCHANGED Want
    BY <1>0, <1>7, WantSame DEF Try, At, Asking
  <2> QED
    BY <1>7, <2>1 DEF Try
<1>8. CASE Swap
  <2>1. CASE Return /\ Take /\ counter = seen[current]
    BY <1>0, <1>3, <1>8, <2>1, WantReturn DEF Swap
  <2>2. CASE Goto("loop") /\ UNCHANGED <<counter, need, held>>
    BY <1>0, <1>8, <2>2, WantSame DEF Swap, At, Asking
  <2> QED
    BY <1>8, <2>1, <2>2 DEF Swap
<1>9. CASE Loop
  <2>1. UNCHANGED Want
    BY <1>0, <1>9, WantSame DEF Loop, At, Asking
  <2> QED
    BY <1>9, <2>1 DEF Loop
<1>10. CASE LoopSwap
  <2>1. CASE Take /\ Goto("leave") /\ counter = seen[current]
    <3>1. Want' = [Want EXCEPT ![current] = 0]
      BY <1>0, <1>10, <2>1 DEF LoopSwap, Goto, Want, Asking, SemTypeOK
    <3> QED
      BY <1>3, <1>10, <2>1, <3>1 DEF LoopSwap
  <2>2. CASE Goto("lock") /\ UNCHANGED <<counter, held>>
    BY <1>0, <1>10, <2>2, WantSame DEF LoopSwap, At, Asking
  <2> QED
    BY <1>10, <2>1, <2>2 DEF LoopSwap
<1>11. CASE Leave
  <2>1. Want' = [Want EXCEPT ![current] = 0] /\ Want[current] = 0
    BY <1>0, <1>11, WantReturn DEF Leave, At, Want, Asking
  <2>2. UNCHANGED Want
    BY <2>1 DEF Want
  <2> QED
    BY <1>11, <2>2 DEF Leave
<1>12. CASE Lock
  <2>1. CASE counter >= need[current] /\ Take /\ Return
    <3>1. Want' = [Want EXCEPT ![current] = 0]
      BY <1>0, <2>1, WantReturn
    <3>2. pc[current] \in Asking /\ need[current] > 0 /\ need[current] <= counter
      BY <1>0, <1>12, <2>1 DEF Lock, At, RequestOK, Asking, SemTypeOK
    <3> QED
      BY <1>0, <2>1, <3>1, <3>2, GrantLemma
  <2>2. CASE (Goto("woken") \/ Goto("handle")) /\ UNCHANGED <<counter, need, held>>
    BY <1>0, <1>12, <2>2, WantSame DEF Lock, At, Asking
  <2> QED
    BY <1>12, <2>1, <2>2 DEF Lock
<1>13. CASE Handle \/ Relock \/ Woken
  <2>1. UNCHANGED Want
    BY <1>0, <1>13, WantSame DEF Handle, Relock, Woken, At, Asking
  <2> QED
    BY <1>13, <2>1 DEF Handle, Relock, Woken
<1>14. CASE Check
  <2>1. CASE Return
    BY <1>4, <1>14, <2>1 DEF Check, At, Asking
  <2>2. CASE Goto("loop") /\ UNCHANGED need
    BY <1>0, <1>14, <2>2, WantSame DEF Check, At, Asking
  <2> QED
    BY <1>14, <2>1, <2>2 DEF Check
<1>15. CASE Count \/ Collect \/ Released
  <2>1. UNCHANGED Want
    BY <1>0, <1>15, WantSame DEF Count, Collect, Released, At, Asking
  <2> QED
    BY <1>15, <2>1 DEF Count, Collect, Released
<1>16. CASE Pick
  <2>1. UNCHANGED Want
    BY <1>0, <1>16, WantSame DEF Pick, At, Asking, Want
  <2> QED
    BY <1>16, <2>1 DEF Pick
<1>17. CASE \/ WakeOne \/ SemTick \/ Kill \/ UNCHANGED semVars
            \/ \E t \in Threads : AlarmFires(t)
            \/ \E t \in Threads, e \in Signals : Signal(t, e)
            \/ \E t \in Unwindable : Unwind(t)
  BY <1>17 DEF WakeOne, SemTick, Kill, AlarmFires, Signal, Unwind, semVars,
               semOnly, Want
<1>18. ASSUME NEW n \in Amounts, NEW w \in Timeouts, CallAcquire(n, w)
       PROVE  CS!Next
  BY <1>1, <1>18 DEF CallAcquire
<1>19. ASSUME NEW n \in Amounts, CallTryAcquire(n)
       PROVE  CS!Next
  BY <1>1, <1>19 DEF CallTryAcquire
<1> QED
  BY <1>2, <1>5, <1>6, <1>7, <1>8, <1>9, <1>10, <1>11, <1>12, <1>13, <1>14, <1>15,
     <1>16, <1>17, <1>18, <1>19 DEF SemNext, SemStep

\* Whatever interleaving of ticks, alarms and signals they meet, the calls of
\* Semaphore behave as those of an atomic counting semaphore.
THEOREM SemaphoreImplementsCounting == SemSpec => ImplementsCountingSemaphore
<1>1. SemInit => CS!Init
  BY DEF SemInit, CS!Init, Asking
<1> QED
  BY <1>1, SemStepIsCountingStep, SemInvHolds, PTL
  DEF SemSpec, CS!Spec, ImplementsCountingSemaphore

----------------------------------------------------------------------------
(* No wake-up is lost *)

\* Nobody has sent, or will send, an event: acquire sleeps only under the lock.
NoEvents ==
  /\ eventQ = [t \in Threads |-> <<>>]
  /\ killing = [t \in Threads |-> NoThread]
  /\ \A t \in Threads : alarm[t] = "none" /\ pc[t] \notin {"handle", "relock"}

\* A release is on its way to wake t.
WillWake(t) ==
  \E u \in Threads :
    \/ pc[u] \in {"count", "collect", "pick"}
    \/ pc[u] = "wake" /\ Queued(wakeups[u], t)

\* What NoLostWakeup needs to be inductive: a sleeper is in the queue or in a
\* list of threads to be woken, and such a list belongs to a release that has
\* not finished.
WakeupInv ==
  /\ SleepersAreKnown
  /\ \A t \in Threads : Asleep(t) /\ counter >= need[t] => WillWake(t)
  /\ \A u \in Threads : wakeups[u] # <<>> => pc[u] \in {"pick", "wake"}

\* A switch makes no thread Sleeping but the one that asks for it.
LEMMA ScheduleSleepers ==
  ASSUME SchedTypeOK, NEW nextStatus, NEW intr, Schedule(nextStatus, intr),
         NEW t \in Threads, status'[t] = "Sleeping"
  PROVE  status[t] = "Sleeping" \/ (t = current /\ nextStatus = "Sleeping")
<1>1. \/ UNCHANGED status
      \/ \E n : status' = [(IF current = Idle THEN status
                            ELSE [status EXCEPT ![current] = nextStatus])
                           EXCEPT ![n] = "Running"]
  BY DEF Schedule, ScheduleReturns, Switch
<1>2. ASSUME NEW n, status' = [(IF current = Idle THEN status
                                ELSE [status EXCEPT ![current] = nextStatus])
                               EXCEPT ![n] = "Running"]
      PROVE  status[t] = "Sleeping" \/ (t = current /\ nextStatus = "Sleeping")
  <2> DEFINE left == IF current = Idle THEN status
                     ELSE [status EXCEPT ![current] = nextStatus]
  <2>1. DOMAIN left = Threads /\ status' = [left EXCEPT ![n] = "Running"]
    BY <1>2 DEF SchedTypeOK
  <2>2. t # n /\ left[t] = "Sleeping"
    BY <2>1
  <2> QED
    BY <2>2 DEF SchedTypeOK
<1> QED
  BY <1>1, <1>2

\* With no event about, a switch leaves the event queues empty.
LEMMA ScheduleNoEvents ==
  ASSUME NoEvents, NEW nextStatus, NEW intr, Schedule(nextStatus, intr)
  PROVE  eventQ' = eventQ
<1>1. ASSUME NEW n, RestoreState(n, intr)
      PROVE  eventQ' = eventQ
  <2>1. CASE n \in Threads
    <3>1. eventQ[n] = <<>>
      BY <2>1 DEF NoEvents
    <3>2. Deliverable(n) = {}
      BY <3>1 DEF Deliverable
    <3>3. EventsAfter(n) = eventQ[n]
      BY <3>2 DEF EventsAfter, FirstDeliverable
    <3> QED
      BY <1>1, <2>1, <3>3 DEF RestoreState, CheckEventState, NoEvents
  <2>2. CASE n \notin Threads
    BY <1>1, <2>2 DEF RestoreState, CheckEventState, NoEvents
  <2> QED
    BY <2>1, <2>2
<1> QED
  BY <1>1 DEF Schedule, ScheduleReturns, Switch

\* Without events, nothing makes one.
LEMMA NextNoEvents ==
  ASSUME Signals = {}, Timeouts \subseteq {FALSE}, Killers = {},
         SemInv, NoEvents, [SemNext]_semVars
  PROVE  NoEvents'
<1>0. current \in Threads /\ SemTypeOK
  BY DEF SemInv, QueueInv, SchedTypeOK, SemLocalInv
<1> DEFINE Same == /\ eventQ' = eventQ /\ killing' = killing
                   /\ \A t \in Threads : alarm'[t] = "none" /\ pc'[t] \notin {"handle", "relock"}
<1>1. Same => NoEvents'
  BY DEF NoEvents
<1>2. ASSUME NEW l \in Labels \ {"handle", "relock"}, Goto(l) \/ UNCHANGED pc
      PROVE  \A t \in Threads : pc'[t] \notin {"handle", "relock"}
  BY <1>0, <1>2 DEF Goto, NoEvents, SemTypeOK
<1>3. ASSUME \/ UNCHANGED alarm \/ ArmAlarm
             \/ alarm' = [alarm EXCEPT ![current] = "none"]
      PROVE  \A t \in Threads : alarm'[t] = "none"
  BY <1>0, <1>3 DEF ArmAlarm, NoEvents, SemTypeOK
<1>4. ASSUME NEW n \in Amounts, NEW w \in Timeouts, CallAcquire(n, w)
      PROVE  NoEvents'
  <2>1. alarm' = [alarm EXCEPT ![current] = "none"] /\ w = FALSE
    BY <1>4 DEF CallAcquire
  <2> QED
    BY <1>1, <1>2, <1>3, <1>4, <2>1 DEF CallAcquire, schedVars, Labels
<1>5. ASSUME NEW n \in Amounts, CallTryAcquire(n) \/ CallRelease(n)
      PROVE  NoEvents'
  BY <1>1, <1>2, <1>3, <1>5 DEF CallTryAcquire, CallRelease, schedVars, Labels
<1>6. CASE Once \/ OnceSwap \/ Try \/ Swap \/ Loop \/ LoopSwap \/ Leave
  BY <1>1, <1>2, <1>3, <1>6
  DEF Once, OnceSwap, Try, Swap, Loop, LoopSwap, Leave, Return, schedVars, Labels
<1>7. CASE Woken \/ Check \/ Count \/ Collect \/ Pick \/ Released
  BY <1>1, <1>2, <1>3, <1>7
  DEF Woken, Check, Count, Collect, Pick, Released, Return, schedVars, Labels
<1>8. CASE Lock
  <2>1. eventQ[current] = <<>>
    BY <1>0 DEF NoEvents
  <2>2. CASE Return /\ UNCHANGED schedVars
    BY <1>1, <1>2, <1>3, <2>2 DEF Return, schedVars, Labels
  <2>3. CASE /\ Schedule("Sleeping", [interrupted EXCEPT ![current] = FALSE])
             /\ UNCHANGED <<inhibit, killing, detached, life>> /\ Goto("woken")
             /\ UNCHANGED alarm
    BY <1>1, <1>2, <1>3, <2>3, ScheduleNoEvents DEF Labels
  <2> QED
    BY <1>8, <2>1, <2>2, <2>3 DEF Lock
<1>9. CASE WakeOne
  BY <1>1, <1>2, <1>3, <1>9 DEF WakeOne, Wake, Labels
<1>10. CASE SemTick
  BY <1>1, <1>2, <1>3, <1>10, ScheduleNoEvents DEF SemTick, Tick, semOnly, Labels
<1>11. ~Kill /\ ~(\E t \in Threads, e \in Signals : Signal(t, e))
  BY <1>0 DEF Kill, KillSend, KillSwitch, NoEvents
<1>12. ~(\E t \in Threads : AlarmFires(t)) /\ ~Handle /\ ~Relock
  BY <1>0 DEF AlarmFires, Handle, Relock, At, NoEvents
<1>13. CASE UNCHANGED semVars \/ \E t \in Unwindable : Unwind(t)
  BY <1>1, <1>2, <1>3, <1>13 DEF semVars, semOnly, Unwind, schedVars, Labels
<1> QED
  BY <1>4, <1>5, <1>6, <1>7, <1>8, <1>9, <1>10, <1>11, <1>12, <1>13
  DEF SemNext, SemStep

\* A step of a call that wakes nobody, frees nothing and leaves the lists of
\* threads to be woken alone disturbs no other sleeper.
LEMMA QuietStep ==
  ASSUME SemInv, WakeupInv, NEW l, Goto(l),
         pc[current] \notin {"count", "collect", "pick", "wake"},
         UNCHANGED <<status, wakeups>>,
         l # "woken",
         counter' <= counter, counter' \in Nat,
         \A t \in Threads \ {current} : need'[t] = need[t],
         \A t \in Threads \ {current} : Queued(semQ, t) => Queued(semQ', t)
  PROVE  WakeupInv'
<1>0. current \in Threads /\ SemTypeOK
  BY DEF SemInv, QueueInv, SchedTypeOK, SemLocalInv
<1>1. /\ pc'[current] = l
      /\ \A t \in Threads \ {current} : pc'[t] = pc[t]
  BY <1>0 DEF Goto, SemTypeOK
<1>2. ASSUME NEW t \in Threads, Asleep(t)'
      PROVE  t # current /\ Asleep(t)
  BY <1>1, <1>2 DEF Asleep
<1>3. SleepersAreKnown'
  BY <1>2 DEF WakeupInv, SleepersAreKnown
<1>4. ASSUME NEW t \in Threads, Asleep(t)', counter' >= need'[t]
      PROVE  WillWake(t)'
  <2>1. t # current /\ Asleep(t) /\ counter >= need[t]
    BY <1>0, <1>2, <1>4 DEF SemTypeOK
  <2>2. WillWake(t)
    BY <2>1 DEF WakeupInv
  <2>3. PICK u \in Threads : \/ pc[u] \in {"count", "collect", "pick"}
                             \/ pc[u] = "wake" /\ Queued(wakeups[u], t)
    BY <2>2 DEF WillWake
  <2>4. u # current
    BY <2>3
  <2>5. pc'[u] = pc[u] /\ wakeups'[u] = wakeups[u]
    BY <1>1, <2>4
  <2> QED
    BY <2>3, <2>5 DEF WillWake
<1>5. \A u \in Threads : wakeups'[u] # <<>> => pc'[u] \in {"pick", "wake"}
  BY <1>1 DEF WakeupInv
<1> QED
  BY <1>3, <1>4, <1>5 DEF WakeupInv

\* A step that only makes threads run or become ready disturbs no sleeper.
LEMMA NoNewSleeper ==
  ASSUME SemInv, WakeupInv, UNCHANGED <<counter, semQ, pc, need, wakeups>>,
         \A t \in Threads : status'[t] = "Sleeping" => status[t] = "Sleeping"
  PROVE  WakeupInv'
<1>1. \A t \in Threads : Asleep(t)' => Asleep(t)
  BY DEF Asleep
<1>2. \A t \in Threads : WillWake(t)' <=> WillWake(t)
  BY DEF WillWake
<1> QED
  BY <1>1, <1>2 DEF WakeupInv, SleepersAreKnown

\* Every step preserves WakeupInv, as long as there are no events.
LEMMA NextWakeupInv ==
  ASSUME Signals = {}, Killers = {}, SemInv, SemInv', NoEvents, WakeupInv,
         [SemNext]_semVars
  PROVE  WakeupInv'
<1>0. /\ current \in Threads /\ SemTypeOK /\ SchedTypeOK /\ RequestOK
      /\ counter \in Nat /\ counter' \in Nat
  BY DEF SemInv, QueueInv, SchedTypeOK, SemLocalInv, SemTypeOK
<1>N. \A t \in Threads \ {current} : [need EXCEPT ![current] = 0][t] = need[t]
  BY <1>0 DEF SemTypeOK
<1>1. ASSUME NEW n \in Amounts, NEW w \in Timeouts, CallAcquire(n, w)
      PROVE  WakeupInv'
  BY <1>0, <1>1, QuietStep DEF CallAcquire, At, schedVars, SemTypeOK
<1>2. ASSUME NEW n \in Amounts, CallTryAcquire(n)
      PROVE  WakeupInv'
  BY <1>0, <1>2, QuietStep DEF CallTryAcquire, At, schedVars, SemTypeOK
<1>3. ASSUME NEW n \in Amounts, CallRelease(n)
      PROVE  WakeupInv'
  <2>1. /\ pc' = [pc EXCEPT ![current] = "count"] /\ pc[current] = "out"
        /\ UNCHANGED <<status, semQ, wakeups>>
    BY <1>3 DEF CallRelease, At, Goto, schedVars
  <2>2. pc'[current] = "count" /\ \A t \in Threads \ {current} : pc'[t] = pc[t]
    BY <1>0, <2>1 DEF SemTypeOK
  <2>3. \A t \in Threads : Asleep(t)' => Asleep(t)
    BY <2>1, <2>2 DEF Asleep
  <2>4. \A t \in Threads : WillWake(t)'
    BY <1>0, <2>2 DEF WillWake
  <2>5. SleepersAreKnown'
    BY <2>1, <2>3 DEF WakeupInv, SleepersAreKnown
  <2>6. \A u \in Threads : wakeups'[u] # <<>> => pc'[u] \in {"pick", "wake"}
    BY <2>1, <2>2 DEF WakeupInv
  <2> QED
    BY <2>4, <2>5, <2>6 DEF WakeupInv
<1>4. CASE Once
  <2>1. CASE Return
    BY <1>0, <1>N, <1>4, <2>1, QuietStep DEF Once, Return, At, schedVars
  <2>2. CASE Goto("onceSwap") /\ UNCHANGED need
    BY <1>0, <1>4, <2>2, QuietStep DEF Once, At, schedVars
  <2> QED
    BY <1>4, <2>1, <2>2 DEF Once
<1>5. CASE OnceSwap
  <2>1. counter' <= counter
    BY <1>0, <1>5 DEF OnceSwap, Take, SemTypeOK
  <2> QED
    BY <1>0, <1>N, <1>5, <2>1, QuietStep DEF OnceSwap, Return, At, schedVars
<1>6. CASE Try
  BY <1>0, <1>6, QuietStep DEF Try, At, schedVars
<1>7. CASE Swap
  <2>1. counter' <= counter
    BY <1>0, <1>7 DEF Swap, Take, SemTypeOK
  <2> QED
    BY <1>0, <1>N, <1>7, <2>1, QuietStep DEF Swap, Return, At, schedVars
<1>8. CASE Loop
  BY <1>0, <1>8, QuietStep DEF Loop, At, schedVars
<1>9. CASE LoopSwap
  <2>1. counter' <= counter
    BY <1>0, <1>9 DEF LoopSwap, Take, SemTypeOK
  <2> QED
    BY <1>0, <1>9, <2>1, QuietStep DEF LoopSwap, At, schedVars
<1>10. CASE Leave
  <2>1. \A t \in Threads \ {current} : Queued(semQ, t) => Queued(semQ', t)
    BY <1>0, <1>10, RemoveThreadLemma DEF Leave, SemTypeOK
  <2> QED
    BY <1>0, <1>N, <1>10, <2>1, QuietStep DEF Leave, Return, At, schedVars
<1>11. CASE Lock
  <2>1. CASE Take /\ Return /\ semQ' = RemoveThread(current) /\ UNCHANGED schedVars
    <3>1. \A t \in Threads \ {current} : Queued(semQ, t) => Queued(semQ', t)
      BY <1>0, <2>1, RemoveThreadLemma DEF SemTypeOK
    <3>2. counter' <= counter
      BY <1>0, <2>1 DEF Take, SemTypeOK
    <3> QED
      BY <1>0, <1>N, <1>11, <2>1, <3>1, <3>2, QuietStep DEF Lock, Return, At, schedVars
  <2>2. CASE /\ counter < need[current]
             /\ semQ' = Append(semQ, current)
             /\ Schedule("Sleeping", [interrupted EXCEPT ![current] = FALSE])
             /\ Goto("woken")
             /\ UNCHANGED <<counter, need>>
    <3>1. /\ pc[current] = "lock" /\ wakeups' = wakeups
          /\ pc'[current] = "woken"
          /\ \A t \in Threads \ {current} : pc'[t] = pc[t]
      BY <1>0, <1>11, <2>2 DEF Lock, At, Goto, SemTypeOK
    <3>2. \A t \in Threads : Queued(semQ', t) <=> Queued(semQ, t) \/ t = current
      <4>1. /\ Len(semQ') = Len(semQ) + 1 /\ Len(semQ) \in Nat
            /\ \A j \in 1 .. Len(semQ) : semQ'[j] = semQ[j]
            /\ semQ'[Len(semQ) + 1] = current
        BY <1>0, <2>2, AppendProperties, LenProperties DEF SemTypeOK
      <4> QED
        BY <4>1 DEF Queued
    <3>3. \A t \in Threads : Asleep(t)' => t = current \/ Asleep(t)
      BY <1>0, <2>2, <3>1, ScheduleSleepers DEF Asleep
    <3>4. SleepersAreKnown'
      BY <3>1, <3>2, <3>3 DEF WakeupInv, SleepersAreKnown
    <3>5. ASSUME NEW t \in Threads, Asleep(t)', counter' >= need'[t]
          PROVE  WillWake(t)'
      <4>1. t # current
        BY <1>0, <2>2, <3>5 DEF SemTypeOK
      <4>2. WillWake(t)
        BY <2>2, <3>3, <3>5, <4>1 DEF WakeupInv
      <4>3. PICK u \in Threads : \/ pc[u] \in {"count", "collect", "pick"}
                                 \/ pc[u] = "wake" /\ Queued(wakeups[u], t)
        BY <4>2 DEF WillWake
      <4> QED
        BY <3>1, <4>3 DEF WillWake
    <3>6. \A u \in Threads : wakeups'[u] # <<>> => pc'[u] \in {"pick", "wake"}
      BY <3>1 DEF WakeupInv
    <3> QED
      BY <3>4, <3>5, <3>6 DEF WakeupInv
  <2> QED
    <3>1. eventQ[current] = <<>>
      BY <1>0 DEF NoEvents
    <3> QED
      BY <1>11, <2>1, <2>2, <3>1 DEF Lock
<1>12. CASE Woken
  <2>1. \A t \in Threads \ {current} : Queued(semQ, t) => Queued(semQ', t)
    BY <1>0, <1>12, RemoveThreadLemma DEF Woken, SemTypeOK
  <2> QED
    BY <1>0, <1>12, <2>1, QuietStep DEF Woken, At, schedVars
<1>13. CASE Check
  <2>1. CASE Return
    BY <1>0, <1>N, <1>13, <2>1, QuietStep DEF Check, Return, At, schedVars
  <2>2. CASE Goto("loop") /\ UNCHANGED need
    BY <1>0, <1>13, <2>2, QuietStep DEF Check, At, schedVars
  <2> QED
    BY <1>13, <2>1, <2>2 DEF Check
<1>14. ASSUME Count \/ Collect \/ Released, NEW l, Goto(l), l # "woken",
              \/ l \in {"collect", "pick"}
              \/ l = "out" /\ wakeups[current] = <<>>
                 /\ (semQ = <<>> \/ pc[current] = "wake")
       PROVE  WakeupInv'
  <2>1. /\ pc[current] \in {"count", "collect", "wake"}
        /\ UNCHANGED <<status, wakeups, counter, semQ, need>>
        /\ pc'[current] = l /\ \A t \in Threads \ {current} : pc'[t] = pc[t]
    BY <1>0, <1>14 DEF Count, Collect, Released, At, Goto, schedVars, SemTypeOK
  <2>2. \A t \in Threads : Asleep(t)' => Asleep(t)
    BY <1>14, <2>1 DEF Asleep
  <2>3. SleepersAreKnown'
    BY <2>1, <2>2 DEF WakeupInv, SleepersAreKnown
  <2>4. ASSUME NEW t \in Threads, Asleep(t)', counter' >= need'[t]
        PROVE  WillWake(t)'
    <3>1. CASE l \in {"collect", "pick"}
      BY <1>0, <2>1, <3>1 DEF WillWake
    <3>2. CASE l = "out" /\ wakeups[current] = <<>> /\ semQ = <<>>
      <4>1. PICK u \in Threads : Queued(wakeups[u], t)
        BY <2>2, <2>4, <3>2 DEF WakeupInv, SleepersAreKnown, Queued
      <4>2. u # current /\ wakeups[u] # <<>>
        BY <3>2, <4>1 DEF Queued
      <4>3. pc'[u] \in {"pick", "wake"} /\ wakeups'[u] = wakeups[u]
        BY <2>1, <4>2 DEF WakeupInv
      <4> QED
        BY <4>1, <4>3 DEF WillWake
    <3>3. CASE l = "out" /\ wakeups[current] = <<>> /\ pc[current] = "wake"
      <4>1. WillWake(t)
        BY <2>1, <2>2, <2>4 DEF WakeupInv
      <4>2. PICK u \in Threads : \/ pc[u] \in {"count", "collect", "pick"}
                                 \/ pc[u] = "wake" /\ Queued(wakeups[u], t)
        BY <4>1 DEF WillWake
      <4>3. u # current
        BY <3>3, <4>2 DEF Queued
      <4> QED
        BY <2>1, <4>2, <4>3 DEF WillWake
    <3> QED
      BY <1>14, <3>1, <3>2, <3>3
  <2>5. ASSUME NEW u \in Threads, wakeups'[u] # <<>>
        PROVE  pc'[u] \in {"pick", "wake"}
    <3>1. pc[u] \in {"pick", "wake"} /\ wakeups[u] # <<>>
      BY <2>1, <2>5 DEF WakeupInv
    <3>2. CASE u # current
      BY <2>1, <3>1, <3>2
    <3>3. CASE u = current
      <4>1. Released /\ wakeups[current] # <<>>
        BY <1>14, <3>1, <3>3 DEF Count, Collect, At
      <4> QED
        BY <4>1 DEF Released
    <3> QED
      BY <3>2, <3>3
  <2> QED
    BY <2>3, <2>4, <2>5 DEF WakeupInv
<1>15. CASE Count
  <2>1. wakeups[current] = <<>>
    BY <1>0, <1>15 DEF Count, At, WakeupInv
  <2>2. CASE semQ = <<>>
    <3>1. Goto("out")
      BY <1>15, <2>2 DEF Count
    <3> QED
      BY <1>14, <1>15, <2>1, <2>2, <3>1
  <2>3. CASE semQ # <<>>
    <3>1. Goto("collect")
      BY <1>15, <2>3 DEF Count
    <3> QED
      BY <1>14, <1>15, <3>1
  <2> QED
    BY <2>2, <2>3
<1>16. CASE Collect
  BY <1>14, <1>16 DEF Collect
<1>17. CASE Released
  BY <1>14, <1>17 DEF Released, At
<1>18. CASE Pick
  <2>0. /\ pc[current] = "pick" /\ UNCHANGED <<status, counter, need>>
        /\ semQ \in Seq(Threads)
    BY <1>0, <1>18 DEF Pick, At, schedVars, SemTypeOK
  <2>1. CASE semQ # <<>>
    <3>1. /\ pc' = pc /\ semQ' = Tail(semQ)
          /\ status[Head(semQ)] = "Sleeping" =>
               wakeups' = [wakeups EXCEPT ![current] = Append(@, Head(semQ))]
          /\ status[Head(semQ)] # "Sleeping" => wakeups' = wakeups
      BY <1>18, <2>1 DEF Pick
    <3>2. /\ Head(semQ) = semQ[1] /\ Len(semQ) \in Nat \ {0}
          /\ Len(semQ') = Len(semQ) - 1
          /\ \A j \in 1 .. Len(semQ) - 1 : semQ'[j] = semQ[j + 1]
      BY <2>0, <2>1, <3>1, TailLemma
    <3>3. ASSUME NEW t \in Threads, Queued(semQ, t), t # Head(semQ)
          PROVE  Queued(semQ', t)
      <4>1. PICK j \in 1 .. Len(semQ) : semQ[j] = t
        BY <3>3 DEF Queued
      <4>2. j - 1 \in 1 .. Len(semQ') /\ semQ'[j - 1] = t
        BY <3>2, <3>3, <4>1
      <4> QED
        BY <4>2 DEF Queued
    <3>4. ASSUME NEW t \in Threads, NEW u \in Threads, Queued(wakeups[u], t)
          PROVE  Queued(wakeups'[u], t)
      <4>1. wakeups[u] \in Seq(Threads)
        BY <1>0 DEF SemTypeOK
      <4>2. wakeups'[u] = wakeups[u] \/ wakeups'[u] = Append(wakeups[u], Head(semQ))
        BY <1>0, <3>1 DEF SemTypeOK
      <4> QED
        BY <3>4, <4>1, <4>2 DEF Queued
    <3>5. ASSUME status[Head(semQ)] = "Sleeping"
          PROVE  Queued(wakeups'[current], Head(semQ))
      <4>1. wakeups[current] \in Seq(Threads)
            /\ wakeups'[current] = Append(wakeups[current], Head(semQ))
        BY <1>0, <3>1, <3>5 DEF SemTypeOK
      <4>2. /\ Len(wakeups[current]) + 1 \in 1 .. Len(wakeups'[current])
            /\ wakeups'[current][Len(wakeups[current]) + 1] = Head(semQ)
        BY <4>1, AppendProperties, LenProperties
      <4> QED
        BY <4>2 DEF Queued
    <3>6. \A t \in Threads : Asleep(t)' <=> Asleep(t)
      BY <2>0, <3>1 DEF Asleep
    <3>7. SleepersAreKnown'
      BY <1>0, <3>3, <3>4, <3>5, <3>6 DEF WakeupInv, SleepersAreKnown, Asleep
    <3>8. \A t \in Threads : WillWake(t)'
      BY <1>0, <2>0, <3>1 DEF WillWake
    <3>9. \A u \in Threads : wakeups'[u] # <<>> => pc'[u] \in {"pick", "wake"}
      BY <1>0, <2>0, <3>1 DEF WakeupInv, SemTypeOK
    <3> QED
      BY <3>7, <3>8, <3>9 DEF WakeupInv
  <2>2. CASE semQ = <<>>
    <3>1. /\ wakeups' = wakeups /\ pc'[current] = "wake"
          /\ \A t \in Threads \ {current} : pc'[t] = pc[t]
      BY <1>0, <1>18, <2>2 DEF Pick, Goto, SemTypeOK
    <3>2. \A t \in Threads : Asleep(t)' => Asleep(t)
      BY <2>0, <3>1 DEF Asleep
    <3>3. ASSUME NEW t \in Threads, Asleep(t)'
          PROVE  \E u \in Threads : Queued(wakeups[u], t)
      BY <2>2, <3>2, <3>3 DEF WakeupInv, SleepersAreKnown, Queued
    <3>4. ASSUME NEW t \in Threads, Asleep(t)'
          PROVE  WillWake(t)'
      <4>1. PICK u \in Threads : Queued(wakeups[u], t)
        BY <3>3, <3>4
      <4>2. pc[u] \in {"pick", "wake"}
        BY <4>1 DEF WakeupInv, Queued
      <4> QED
        BY <3>1, <4>1, <4>2 DEF WillWake
    <3>5. SleepersAreKnown'
      BY <3>1, <3>3 DEF SleepersAreKnown
    <3>6. \A u \in Threads : wakeups'[u] # <<>> => pc'[u] \in {"pick", "wake"}
      BY <3>1 DEF WakeupInv
    <3> QED
      BY <3>4, <3>5, <3>6 DEF WakeupInv
  <2> QED
    BY <2>1, <2>2
<1>19. CASE WakeOne
  <2> DEFINE h == Head(wakeups[current])
             w == wakeups[current]
  <2>1. /\ pc[current] = "wake" /\ w # <<>> /\ w \in Seq(Threads)
        /\ wakeups' = [wakeups EXCEPT ![current] = Tail(w)]
        /\ status' = [status EXCEPT ![h] = "Ready"]
        /\ UNCHANGED <<counter, semQ, pc, need>>
    BY <1>0, <1>19 DEF WakeOne, At, Wake, SemTypeOK
  <2>2. /\ h = w[1] /\ h \in Threads /\ Len(w) \in Nat \ {0}
        /\ Len(Tail(w)) = Len(w) - 1
        /\ \A j \in 1 .. Len(w) - 1 : Tail(w)[j] = w[j + 1]
    BY <2>1, TailLemma
  <2>3. \A t \in Threads : Asleep(t)' => t # h /\ Asleep(t)
    BY <1>0, <2>1, <2>2 DEF Asleep, SchedTypeOK
  <2>4. ASSUME NEW t \in Threads, t # h, NEW u \in Threads, Queued(wakeups[u], t)
        PROVE  Queued(wakeups'[u], t)
    <3>1. CASE u = current
      <4>1. PICK j \in 1 .. Len(w) : w[j] = t
        BY <2>4, <3>1 DEF Queued
      <4>2. j - 1 \in 1 .. Len(Tail(w)) /\ Tail(w)[j - 1] = t
        BY <2>2, <2>4, <4>1
      <4>3. wakeups'[u] = Tail(w)
        BY <1>0, <2>1, <3>1 DEF SemTypeOK
      <4> QED
        BY <4>2, <4>3 DEF Queued
    <3>2. CASE u # current
      BY <1>0, <2>1, <2>4, <3>2 DEF SemTypeOK
    <3> QED
      BY <3>1, <3>2
  <2>5. SleepersAreKnown'
    BY <2>1, <2>3, <2>4 DEF WakeupInv, SleepersAreKnown
  <2>6. ASSUME NEW t \in Threads, Asleep(t)', counter' >= need'[t]
        PROVE  WillWake(t)'
    <3>1. t # h /\ WillWake(t)
      BY <2>1, <2>3, <2>6 DEF WakeupInv
    <3> QED
      BY <2>1, <2>4, <3>1 DEF WillWake
  <2>7. \A u \in Threads : wakeups'[u] # <<>> => pc'[u] \in {"pick", "wake"}
    BY <1>0, <2>1 DEF WakeupInv, SemTypeOK
  <2> QED
    BY <2>5, <2>6, <2>7 DEF WakeupInv
<1>20. CASE SemTick
  <2>1. \A t \in Threads : status'[t] = "Sleeping" => status[t] = "Sleeping"
    BY <1>0, <1>20, ScheduleSleepers DEF SemTick, Tick
  <2> QED
    BY <1>20, <2>1, NoNewSleeper DEF SemTick, semOnly
<1>21. ~Kill /\ ~(\E t \in Threads, e \in Signals : Signal(t, e))
  BY <1>0 DEF Kill, KillSend, KillSwitch, NoEvents
<1>22. ~(\E t \in Threads : AlarmFires(t)) /\ ~Handle /\ ~Relock
  BY <1>0 DEF AlarmFires, Handle, Relock, At, NoEvents
<1>23. CASE UNCHANGED semVars \/ \E t \in Unwindable : Unwind(t)
  BY <1>23, NoNewSleeper DEF semVars, semOnly, Unwind, schedVars
<1> QED
  BY <1>1, <1>2, <1>3, <1>4, <1>5, <1>6, <1>7, <1>8, <1>9, <1>10, <1>11, <1>12,
     <1>13, <1>15, <1>16, <1>17, <1>18, <1>19, <1>20, <1>21, <1>22, <1>23
  DEF SemNext, SemStep

\* Where threads are sent no events and give no timeouts, release never leaves a
\* thread asleep that could have what it asks for, with any number of threads,
\* of units and of releases at the same time.
THEOREM NoWakeupIsLost ==
  ASSUME Signals = {}, Timeouts \subseteq {FALSE}, Killers = {}
  PROVE  SemSpec => []NoLostWakeup
<1> DEFINE Inv == NoEvents /\ WakeupInv
<1>1. SemInit => Inv
  BY DEF SemInit, SchedInit, NoEvents, WakeupInv, SleepersAreKnown, Asleep
<1>2. SemInv /\ SemInv' /\ Inv /\ [SemNext]_semVars => Inv'
  BY NextNoEvents, NextWakeupInv
<1>3. Inv => NoLostWakeup
  BY DEF WakeupInv, WillWake, NoLostWakeup
<1> HIDE DEF Inv
<1> QED
  BY <1>1, <1>2, <1>3, SemInvHolds, PTL DEF SemSpec

----------------------------------------------------------------------------
(* The list of waiters *)

\* The part of acquire that a thread spends in m_Queue.
Waits == {"handle", "relock", "woken"}

\* m_Queue and the list of the threads that a release will put back hold no
\* thread twice, and only threads that wait.
ListsInv ==
  /\ NoDup(semQ) /\ NoDup(pending) /\ Elems(semQ) \cap Elems(pending) = {}
  /\ \A t \in Elems(semQ) \cup Elems(pending) : pc[t] \in Waits

\* Threads are set aside only while a release holds the lock, and none of them
\* is asleep.
AsideInv ==
  /\ pending # <<>> => pc[current] = "pick"
  /\ \A t \in Elems(pending) : status[t] # "Sleeping"

\* A thread that sends a signal is in no call.
SenderInv == \A t \in Threads : killing[t] # NoThread => pc[t] = "out"

\* A thread that handles an event before it sleeps is awake and known, so that
\* no release takes it for a sleeper.
HandlerInv ==
  \A t \in Threads : pc[t] \in {"handle", "relock"} =>
    status[t] # "Sleeping" /\ t \in Elems(semQ) \cup Elems(pending)

\* What WaitQueueSound needs to be inductive.
WaitInv == ListsInv /\ AsideInv /\ SenderInv /\ HandlerInv /\ SleepersAreKnown

\* A thread is queued if the list has it.
LEMMA QueuedIsElem == \A q, t : Queued(q, t) <=> t \in Elems(q)
  BY DEF Queued, Elems

\* removeThread takes out exactly t.
LEMMA RemoveThreadElems ==
  ASSUME semQ \in Seq(Threads), NoDup(semQ), NEW t \in Threads
  PROVE  /\ NoDup(RemoveThread(t)) /\ Elems(RemoveThread(t)) = Elems(semQ) \ {t}
         /\ t \notin Elems(semQ) => RemoveThread(t) = semQ
<1>1. CASE ~Queued(semQ, t)
  BY <1>1, QueuedIsElem DEF RemoveThread
<1>2. CASE Queued(semQ, t)
  <2> DEFINE k == CHOOSE i \in 1 .. Len(semQ) : semQ[i] = t
             d == SubSeq(semQ, 1, k - 1) \o SubSeq(semQ, k + 1, Len(semQ))
  <2>1. k \in 1 .. Len(semQ) /\ semQ[k] = t
    BY <1>2 DEF Queued
  <2>2. RemoveThread(t) = d
    BY <1>2 DEF RemoveThread
  <2> HIDE DEF k
  <2>3. NoDup(d) /\ Elems(d) = Elems(semQ) \ {t}
    BY <2>1, RemoveAtElems
  <2> QED
    BY <1>2, <2>2, <2>3, QueuedIsElem
<1> QED
  BY <1>1, <1>2

\* A step inside of a call that begins and ends outside of the queue leaves the
\* lists as they are.
LEMMA OutsideStep ==
  ASSUME SemInv, WaitInv, NEW l, Goto(l), l \notin Waits,
         pc[current] \notin Waits, pc[current] # "pick",
         killing[current] = NoThread,
         UNCHANGED <<status, killing, semQ, pending, wakeups>>
  PROVE  WaitInv'
<1>0. current \in Threads /\ SemTypeOK
  BY DEF SemInv, QueueInv, SchedTypeOK, SemLocalInv
<1>1. pc'[current] = l /\ \A t \in Threads \ {current} : pc'[t] = pc[t]
  BY <1>0 DEF Goto, SemTypeOK
<1>2. current \notin Elems(semQ) \cup Elems(pending) /\ pending = <<>>
  BY DEF WaitInv, ListsInv, AsideInv
<1>3. Elems(semQ) \subseteq Threads /\ Elems(pending) \subseteq Threads
  <2>1. semQ \in Seq(Threads) /\ pending \in Seq(Threads)
    BY <1>0 DEF SemTypeOK
  <2> QED
    BY <2>1 DEF Elems
<1>4. ListsInv'
  BY <1>1, <1>2, <1>3 DEF WaitInv, ListsInv
<1>5. AsideInv'
  BY <1>2 DEF WaitInv, AsideInv
<1>6. SenderInv'
  BY <1>1 DEF WaitInv, SenderInv
<1>7. HandlerInv'
  BY <1>1 DEF WaitInv, HandlerInv, Waits
<1>8. SleepersAreKnown'
  BY <1>1 DEF WaitInv, SleepersAreKnown, Asleep, Waits
<1> QED
  BY <1>4, <1>5, <1>6, <1>7, <1>8 DEF WaitInv

\* A switch, a wake-up or an event puts nobody to sleep, and finds no thread set
\* aside.
LEMMA AroundStep ==
  ASSUME WaitInv, pending = <<>>,
         UNCHANGED <<semQ, pending, pc, wakeups>>,
         \A t \in Threads : status'[t] = "Sleeping" => status[t] = "Sleeping",
         \A t \in Threads : killing'[t] # NoThread => pc[t] = "out"
  PROVE  WaitInv'
<1>1. ListsInv'
  BY DEF WaitInv, ListsInv
<1>2. AsideInv'
  BY DEF AsideInv, Elems
<1>3. SenderInv'
  BY DEF SenderInv
<1>4. HandlerInv'
  BY DEF WaitInv, HandlerInv
<1>5. SleepersAreKnown'
  BY DEF WaitInv, SleepersAreKnown, Asleep
<1> QED
  BY <1>1, <1>2, <1>3, <1>4, <1>5 DEF WaitInv

\* A thread that is in the queue, or joins it, goes to sleep.
LEMMA SleepStep ==
  ASSUME SemInv, WaitInv, pc[current] \in {"lock", "relock"},
         NEW intr, Schedule("Sleeping", intr), Goto("woken"),
         killing[current] = NoThread, UNCHANGED <<killing, pending, wakeups>>,
         NoDup(semQ'), Elems(semQ') = Elems(semQ) \cup {current}
  PROVE  WaitInv'
<1>0. current \in Threads /\ SemTypeOK /\ SchedTypeOK
  BY DEF SemInv, QueueInv, SchedTypeOK, SemLocalInv
<1>1. pc'[current] = "woken" /\ \A t \in Threads \ {current} : pc'[t] = pc[t]
  BY <1>0 DEF Goto, SemTypeOK
<1>2. pending = <<>> /\ pending' = <<>> /\ Elems(pending') = {}
  BY DEF WaitInv, AsideInv, Elems
<1>3. Elems(semQ) \subseteq Threads
  BY <1>0 DEF SemTypeOK, Elems
<1>4. \A t \in Threads \ {current} : status'[t] = "Sleeping" => status[t] = "Sleeping"
  BY <1>0, ScheduleSleepers
<1>5. ListsInv'
  BY <1>1, <1>2, <1>3 DEF WaitInv, ListsInv, Waits
<1>6. AsideInv'
  BY <1>2 DEF AsideInv
<1>7. SenderInv'
  BY <1>1 DEF WaitInv, SenderInv
<1>8. HandlerInv'
  <2> SUFFICES ASSUME NEW t \in Threads, pc'[t] \in {"handle", "relock"}
               PROVE  status'[t] # "Sleeping" /\ t \in Elems(semQ')
    BY DEF HandlerInv
  <2>1. t # current /\ pc[t] \in {"handle", "relock"}
    BY <1>1
  <2>2. status[t] # "Sleeping" /\ t \in Elems(semQ)
    BY <1>2, <2>1 DEF WaitInv, HandlerInv, Elems
  <2> QED
    BY <1>4, <2>1, <2>2
<1>9. SleepersAreKnown'
  <2> SUFFICES ASSUME NEW t \in Threads, Asleep(t)', t # current
               PROVE  Queued(semQ', t) \/ \E u \in Threads : Queued(wakeups'[u], t)
    BY QueuedIsElem DEF SleepersAreKnown
  <2>1. Asleep(t)
    BY <1>1, <1>4 DEF Asleep
  <2> QED
    BY <2>1, QueuedIsElem DEF WaitInv, SleepersAreKnown
<1> QED
  BY <1>5, <1>6, <1>7, <1>8, <1>9 DEF WaitInv

\* A release looks at the next thread of the queue, or is done with it.
LEMMA PickStep ==
  ASSUME SemInv, WaitInv, Pick
  PROVE  WaitInv'
<1>0. /\ current \in Threads /\ SemTypeOK /\ semQ \in Seq(Threads)
      /\ pending \in Seq(Threads) /\ wakeups \in [Threads -> Seq(Threads)]
      /\ pc[current] = "pick" /\ UNCHANGED <<status, killing, current>>
      /\ killing[current] = NoThread
  BY DEF SemInv, QueueInv, SchedTypeOK, SemLocalInv, SemTypeOK, Pick, At, Free, schedVars
<1>1. CASE semQ # <<>>
  <2> DEFINE h == Head(semQ)
  <2>1. /\ semQ' = Tail(semQ) /\ UNCHANGED pc
        /\ status[h] = "Sleeping" =>
             /\ wakeups' = [wakeups EXCEPT ![current] = Append(@, h)]
             /\ UNCHANGED pending
        /\ status[h] # "Sleeping" =>
             pending' = Append(pending, h) /\ UNCHANGED wakeups
    BY <1>1 DEF Pick
  <2>2. /\ h \in Threads /\ h \in Elems(semQ) /\ NoDup(semQ')
        /\ h \notin Elems(semQ') /\ Elems(semQ) = Elems(semQ') \cup {h}
    BY <1>0, <1>1, <2>1, TailElems DEF WaitInv, ListsInv
  <2> HIDE DEF h
  <2>3. CASE status[h] = "Sleeping"
    <3>1. /\ UNCHANGED pending
          /\ wakeups' = [wakeups EXCEPT ![current] = Append(wakeups[current], h)]
      BY <2>1, <2>3
    <3>2. Elems(wakeups'[current]) = Elems(wakeups[current]) \cup {h}
          /\ \A u \in Threads \ {current} : wakeups'[u] = wakeups[u]
      BY <1>0, <2>2, <3>1, AppendElems
    <3>3. ListsInv'
      BY <2>1, <2>2, <3>1 DEF WaitInv, ListsInv
    <3>4. AsideInv'
      BY <1>0, <2>1, <3>1 DEF WaitInv, AsideInv
    <3>5. SenderInv'
      BY <1>0, <2>1 DEF WaitInv, SenderInv
    <3>6. HandlerInv'
      BY <1>0, <2>1, <2>2, <2>3, <3>1 DEF WaitInv, HandlerInv
    <3>7. SleepersAreKnown'
      <4> SUFFICES ASSUME NEW t \in Threads, Asleep(t)
                   PROVE  \/ t \in Elems(semQ')
                          \/ \E u \in Threads : t \in Elems(wakeups'[u])
        BY <1>0, <2>1, QueuedIsElem DEF SleepersAreKnown, Asleep
      <4>1. t \in Elems(semQ) \/ \E u \in Threads : t \in Elems(wakeups[u])
        BY QueuedIsElem DEF WaitInv, SleepersAreKnown
      <4> QED
        BY <1>0, <2>2, <3>2, <4>1
    <3> QED
      BY <3>3, <3>4, <3>5, <3>6, <3>7 DEF WaitInv
  <2>4. CASE status[h] # "Sleeping"
    <3>1. pending' = Append(pending, h) /\ UNCHANGED wakeups
      BY <2>1, <2>4
    <3>2. h \notin Elems(pending) /\ NoDup(pending)
      BY <2>2 DEF WaitInv, ListsInv
    <3>3. NoDup(pending') /\ Elems(pending') = Elems(pending) \cup {h}
      BY <1>0, <2>2, <3>1, <3>2, AppendElems
    <3>4. ListsInv'
      BY <2>1, <2>2, <3>2, <3>3 DEF WaitInv, ListsInv
    <3>5. AsideInv'
      BY <1>0, <2>1, <2>4, <3>3 DEF WaitInv, AsideInv
    <3>6. SenderInv'
      BY <1>0, <2>1 DEF WaitInv, SenderInv
    <3>7. HandlerInv'
      BY <1>0, <2>1, <2>2, <3>3 DEF WaitInv, HandlerInv
    <3>8. SleepersAreKnown'
      <4> SUFFICES ASSUME NEW t \in Threads, Asleep(t)
                   PROVE  \/ t \in Elems(semQ')
                          \/ \E u \in Threads : t \in Elems(wakeups'[u])
        BY <1>0, <2>1, QueuedIsElem DEF SleepersAreKnown, Asleep
      <4>1. t \in Elems(semQ) \/ \E u \in Threads : t \in Elems(wakeups[u])
        BY QueuedIsElem DEF WaitInv, SleepersAreKnown
      <4>2. t # h
        BY <2>4 DEF Asleep
      <4> QED
        BY <2>2, <3>1, <4>1, <4>2
    <3> QED
      BY <3>4, <3>5, <3>6, <3>7, <3>8 DEF WaitInv
  <2> QED
    BY <2>3, <2>4
<1>2. CASE semQ = <<>>
  <2>1. semQ' = pending /\ pending' = <<>> /\ Goto("wake") /\ UNCHANGED wakeups
    BY <1>2 DEF Pick
  <2>2. pc'[current] = "wake" /\ \A t \in Threads \ {current} : pc'[t] = pc[t]
    BY <1>0, <2>1 DEF Goto, SemTypeOK
  <2>3. Elems(semQ) = {} /\ Elems(pending') = {} /\ NoDup(pending')
    BY <1>2, <2>1 DEF Elems, NoDup
  <2>4. Elems(pending) \subseteq Threads /\ current \notin Elems(pending)
    <3>1. Elems(pending) \subseteq Threads
      BY <1>0 DEF Elems
    <3>2. current \notin Elems(pending)
      BY <1>0 DEF WaitInv, ListsInv, Waits
    <3> QED
      BY <3>1, <3>2
  <2>5. ListsInv'
    BY <2>1, <2>2, <2>3, <2>4 DEF WaitInv, ListsInv
  <2>6. AsideInv'
    BY <2>1, <2>3 DEF AsideInv
  <2>7. SenderInv'
    BY <1>0, <2>2 DEF WaitInv, SenderInv
  <2>8. HandlerInv'
    BY <1>0, <2>1, <2>2, <2>3 DEF WaitInv, HandlerInv
  <2>9. SleepersAreKnown'
    <3> SUFFICES ASSUME NEW t \in Threads, Asleep(t)'
                 PROVE  \E u \in Threads : Queued(wakeups'[u], t)
      BY DEF SleepersAreKnown
    <3>1. Asleep(t)
      BY <1>0, <2>2 DEF Asleep
    <3> QED
      BY <2>1, <2>3, <3>1, QueuedIsElem DEF WaitInv, SleepersAreKnown
  <2> QED
    BY <2>5, <2>6, <2>7, <2>8, <2>9 DEF WaitInv
<1> QED
  BY <1>1, <1>2

\* setStatus(Ready) on the next of the threads to be woken.
LEMMA WakeStep ==
  ASSUME SemInv, WaitInv, WakeOne
  PROVE  WaitInv'
<1> DEFINE w == wakeups[current]
           h == Head(w)
<1>0. /\ current \in Threads /\ SchedTypeOK
      /\ wakeups \in [Threads -> Seq(Threads)] /\ w # <<>> /\ w \in Seq(Threads)
  BY DEF SemInv, QueueInv, SchedTypeOK, SemLocalInv, SemTypeOK, WakeOne
<1>1. /\ pc[current] = "wake" /\ wakeups' = [wakeups EXCEPT ![current] = Tail(w)]
      /\ status' = [status EXCEPT ![h] = "Ready"]
      /\ UNCHANGED <<semQ, pending, pc, killing, current>>
  BY DEF WakeOne, At, Wake
<1>2. h \in Threads /\ Elems(w) = Elems(Tail(w)) \cup {h}
  BY <1>0, TailElems
<1>3. /\ wakeups'[current] = Tail(w)
      /\ \A u \in Threads \ {current} : wakeups'[u] = wakeups[u]
  BY <1>0, <1>1
<1> HIDE DEF h
<1>4. \A t \in Threads : status'[t] = "Sleeping" => t # h /\ status[t] = "Sleeping"
  BY <1>0, <1>1, <1>2 DEF SchedTypeOK
<1>5. pending = <<>> /\ Elems(pending') = {}
  BY <1>1 DEF WaitInv, AsideInv, Elems
<1>6. ListsInv'
  BY <1>1 DEF WaitInv, ListsInv
<1>7. AsideInv'
  BY <1>1, <1>5 DEF AsideInv
<1>8. SenderInv'
  BY <1>1 DEF WaitInv, SenderInv
<1>9. HandlerInv'
  BY <1>1, <1>4 DEF WaitInv, HandlerInv
<1>10. SleepersAreKnown'
  <2> SUFFICES ASSUME NEW t \in Threads, Asleep(t)'
               PROVE  \/ t \in Elems(semQ')
                      \/ \E u \in Threads : t \in Elems(wakeups'[u])
    BY QueuedIsElem DEF SleepersAreKnown
  <2>1. t # h /\ Asleep(t)
    BY <1>1, <1>4 DEF Asleep
  <2>2. t \in Elems(semQ) \/ \E u \in Threads : t \in Elems(wakeups[u])
    BY <2>1, QueuedIsElem DEF WaitInv, SleepersAreKnown
  <2>3. ASSUME NEW u \in Threads, t \in Elems(wakeups[u])
        PROVE  t \in Elems(wakeups'[u])
    BY <1>2, <1>3, <2>1, <2>3
  <2> QED
    BY <1>1, <2>2, <2>3
<1> QED
  BY <1>6, <1>7, <1>8, <1>9, <1>10 DEF WaitInv

\* A thread that is out of the queue, or leaves it for good, is not listed; an
\* event handled by one that waits changes nothing.
LEMMA WaiterStep ==
  ASSUME SemInv, WaitInv, Handle \/ Woken
  PROVE  WaitInv'
<1>0. /\ current \in Threads /\ SemTypeOK /\ semQ \in Seq(Threads)
      /\ UNCHANGED <<status, killing, current, pending, wakeups>>
      /\ killing[current] = NoThread /\ pc[current] \in {"handle", "woken"}
  BY DEF SemInv, QueueInv, SchedTypeOK, SemLocalInv, SemTypeOK, Handle, Woken, At,
         Free, HandleEvent, schedVars
<1>1. pending = <<>> /\ Elems(pending') = {} /\ Elems(pending) = {}
  BY <1>0 DEF WaitInv, AsideInv, Elems
<1>2. Elems(semQ) \subseteq Threads
  BY <1>0 DEF Elems
<1>3. AsideInv'
  BY <1>0, <1>1 DEF AsideInv
<1>4. CASE Handle
  <2>1. /\ pc[current] = "handle" /\ semQ' = semQ
        /\ pc'[current] = "relock" /\ \A t \in Threads \ {current} : pc'[t] = pc[t]
    BY <1>0, <1>4 DEF Handle, At, Goto, SemTypeOK
  <2>2. ListsInv'
    BY <1>0, <1>1, <1>2, <2>1 DEF WaitInv, ListsInv, Waits
  <2>3. SenderInv'
    BY <1>0, <2>1 DEF WaitInv, SenderInv
  <2>4. HandlerInv'
    BY <1>0, <2>1 DEF WaitInv, HandlerInv
  <2>5. SleepersAreKnown'
    BY <1>0, <2>1 DEF WaitInv, SleepersAreKnown, Asleep
  <2> QED
    BY <1>3, <2>2, <2>3, <2>4, <2>5 DEF WaitInv
<1>5. CASE Woken
  <2>1. /\ pc[current] = "woken" /\ semQ' = RemoveThread(current)
        /\ pc'[current] = "check" /\ \A t \in Threads \ {current} : pc'[t] = pc[t]
    BY <1>0, <1>5 DEF Woken, At, Goto, SemTypeOK
  <2>2. NoDup(semQ') /\ Elems(semQ') = Elems(semQ) \ {current}
    BY <1>0, <2>1, RemoveThreadElems DEF WaitInv, ListsInv
  <2>3. ListsInv'
    BY <1>0, <1>1, <1>2, <2>1, <2>2 DEF WaitInv, ListsInv
  <2>4. SenderInv'
    BY <1>0, <2>1 DEF WaitInv, SenderInv
  <2>5. HandlerInv'
    BY <1>0, <1>1, <2>1, <2>2 DEF WaitInv, HandlerInv
  <2>6. SleepersAreKnown'
    <3> SUFFICES ASSUME NEW t \in Threads, Asleep(t)'
                 PROVE  \/ t \in Elems(semQ')
                        \/ \E u \in Threads : t \in Elems(wakeups'[u])
      BY QueuedIsElem DEF SleepersAreKnown
    <3>1. t # current /\ Asleep(t)
      BY <1>0, <2>1 DEF Asleep
    <3>2. t \in Elems(semQ) \/ \E u \in Threads : t \in Elems(wakeups[u])
      BY <3>1, QueuedIsElem DEF WaitInv, SleepersAreKnown
    <3> QED
      BY <1>0, <2>2, <3>1, <3>2
  <2> QED
    BY <1>3, <2>3, <2>4, <2>5, <2>6 DEF WaitInv
<1> QED
  BY <1>4, <1>5

\* Every step preserves WaitInv.
LEMMA NextWaitInv ==
  ASSUME SemInv, WaitInv, [SemNext]_semVars
  PROVE  WaitInv'
<1>0. /\ current \in Threads /\ SemTypeOK /\ SchedTypeOK /\ semQ \in Seq(Threads)
      /\ killing \in [Threads -> Threads \cup {NoThread}]
      /\ status \in [Threads -> Statuses]
  BY DEF SemInv, QueueInv, SchedTypeOK, SemLocalInv, SemTypeOK
<1>1. ASSUME pc[current] \notin Waits
      PROVE  RemoveThread(current) = semQ
  BY <1>0, <1>1, RemoveThreadElems DEF WaitInv, ListsInv
<1>2. pc[current] # "pick" => pending = <<>>
  BY DEF WaitInv, AsideInv
<1>3. CASE \/ \E n \in Amounts, w \in Timeouts : CallAcquire(n, w)
           \/ \E n \in Amounts : CallTryAcquire(n) \/ CallRelease(n)
  BY <1>3, OutsideStep
  DEF CallAcquire, CallTryAcquire, CallRelease, At, Free, schedVars, Waits
<1>4. CASE Once \/ OnceSwap \/ Try \/ Swap \/ Loop \/ LoopSwap
  BY <1>4, OutsideStep
  DEF Once, OnceSwap, Try, Swap, Loop, LoopSwap, Return, At, Free, schedVars, Waits
<1>5. CASE Check \/ Count \/ Collect \/ Released
  <2>1. \E l \in {"out", "loop", "collect", "pick"} : Goto(l)
    BY <1>5 DEF Check, Count, Collect, Released, Return
  <2> QED
    BY <1>5, <2>1, OutsideStep
    DEF Check, Count, Collect, Released, At, Free, schedVars, Waits
<1>6. CASE Leave
  BY <1>1, <1>6, OutsideStep DEF Leave, Return, At, Free, schedVars, Waits
<1>7. CASE Lock
  <2>0. /\ pc[current] = "lock" /\ killing[current] = NoThread
        /\ UNCHANGED <<pending, wakeups>> /\ current \notin Elems(semQ)
    BY <1>7 DEF Lock, At, Free, WaitInv, ListsInv, Waits
  <2>1. CASE Return /\ semQ' = RemoveThread(current) /\ UNCHANGED schedVars
    BY <1>1, <2>0, <2>1, OutsideStep DEF Return, schedVars, Waits
  <2>2. ASSUME semQ' = Append(semQ, current)
        PROVE  NoDup(semQ') /\ Elems(semQ') = Elems(semQ) \cup {current}
    BY <1>0, <2>0, <2>2, AppendElems DEF WaitInv, ListsInv
  <2>3. CASE /\ semQ' = Append(semQ, current)
             /\ Schedule("Sleeping", [interrupted EXCEPT ![current] = FALSE])
             /\ UNCHANGED <<inhibit, killing, detached, life>> /\ Goto("woken")
    BY <2>0, <2>2, <2>3, SleepStep
  <2>4. CASE semQ' = Append(semQ, current) /\ ClearInterrupted /\ Goto("handle")
    <3>1. /\ pc'[current] = "handle" /\ \A t \in Threads \ {current} : pc'[t] = pc[t]
          /\ UNCHANGED <<status, killing, current>> /\ status[current] # "Sleeping"
      BY <1>0, <2>0, <2>4
      DEF Goto, SemTypeOK, ClearInterrupted, SemInv, QueueInv, CurrentIsRunning
    <3>2. NoDup(semQ') /\ Elems(semQ') = Elems(semQ) \cup {current}
      BY <2>2, <2>4
    <3>3. pending = <<>> /\ Elems(pending') = {} /\ Elems(pending) = {}
          /\ Elems(semQ) \subseteq Threads
      BY <1>0, <1>2, <2>0 DEF Elems
    <3>4. ListsInv'
      BY <2>0, <3>1, <3>2, <3>3 DEF WaitInv, ListsInv, Waits
    <3>5. AsideInv'
      BY <2>0, <3>3 DEF AsideInv
    <3>6. SenderInv'
      BY <2>0, <3>1 DEF WaitInv, SenderInv
    <3>7. HandlerInv'
      BY <2>0, <3>1, <3>2, <3>3 DEF WaitInv, HandlerInv
    <3>8. SleepersAreKnown'
      BY <2>0, <3>1, <3>2, QueuedIsElem DEF WaitInv, SleepersAreKnown, Asleep
    <3> QED
      BY <3>4, <3>5, <3>6, <3>7, <3>8 DEF WaitInv
  <2> QED
    BY <1>7, <2>1, <2>3, <2>4 DEF Lock
<1>8. CASE Handle \/ Woken
  BY <1>8, WaiterStep
<1>9. CASE Relock
  <2>1. /\ pc[current] = "relock" /\ killing[current] = NoThread
        /\ Schedule("Sleeping", interrupted) /\ Goto("woken")
        /\ UNCHANGED <<killing, semQ, pending, wakeups>>
    BY <1>9 DEF Relock, At, Free
  <2>2. current \in Elems(semQ) /\ NoDup(semQ)
    BY <1>0, <1>2, <2>1 DEF WaitInv, HandlerInv, ListsInv, Elems
  <2> QED
    BY <2>1, <2>2, SleepStep
<1>10. CASE Pick
  BY <1>10, PickStep
<1>11. CASE WakeOne
  BY <1>11, WakeStep
<1>12. CASE SemTick
  <2>1. \A t \in Threads : status'[t] = "Sleeping" => status[t] = "Sleeping"
    BY <1>0, <1>12, ScheduleSleepers DEF SemTick, Tick
  <2> QED
    BY <1>2, <1>12, <2>1, AroundStep
    DEF SemTick, Masked, Tick, semOnly, WaitInv, SenderInv
<1>13. ASSUME NEW t \in Threads, NEW e, PostEvent(t, e)
       PROVE  \A u \in Threads : status'[u] = "Sleeping" => status[u] = "Sleeping"
  BY <1>0, <1>13 DEF PostEvent
<1>14. CASE \E t \in Threads, e \in Signals : Signal(t, e)
  BY <1>2, <1>13, <1>14, AroundStep
  DEF Signal, Masked, SendEvent, semOnly, WaitInv, SenderInv
<1>15. CASE \E t \in Threads : AlarmFires(t)
  BY <1>2, <1>13, <1>15, AroundStep
  DEF AlarmFires, Masked, SendEvent, WaitInv, SenderInv
<1>16. CASE Kill
  <2>1. CASE At("out") /\ \E t \in Threads, e \in Signals : KillSend(t, e)
    <3>1. PICK t \in Threads, e \in Signals : KillSend(t, e)
      BY <2>1
    <3>2. \A u \in Threads : killing'[u] # NoThread => pc[u] = "out"
      BY <1>0, <2>1, <3>1 DEF KillSend, At, WaitInv, SenderInv
    <3> QED
      BY <1>2, <1>13, <1>16, <2>1, <3>1, <3>2, AroundStep DEF Kill, KillSend, At, semOnly
  <2>2. CASE KillSwitch
    <3>1. /\ pc[current] = "out"
          /\ \A u \in Threads : killing'[u] # NoThread => pc[u] = "out"
      BY <1>0, <2>2 DEF KillSwitch, WaitInv, SenderInv
    <3>2. \A u \in Threads : status'[u] = "Sleeping" => status[u] = "Sleeping"
      <4>1. killing[current] \in Threads
        BY <1>0, <2>2 DEF KillSwitch
      <4> QED
        BY <1>0, <2>2, <4>1 DEF KillSwitch, Switch
    <3> QED
      BY <1>2, <1>16, <3>1, <3>2, AroundStep DEF Kill, semOnly
  <2> QED
    BY <1>16, <2>1, <2>2 DEF Kill
<1>17. CASE UNCHANGED semVars \/ \E t \in Unwindable : Unwind(t)
  <2>1. UNCHANGED <<status, current, killing, semQ, pending, pc, wakeups>>
    BY <1>17 DEF semVars, semOnly, schedVars, Unwind
  <2> QED
    BY <2>1 DEF WaitInv, ListsInv, AsideInv, SenderInv, HandlerInv,
                SleepersAreKnown, Asleep
<1> QED
  BY <1>3, <1>4, <1>5, <1>6, <1>7, <1>8, <1>9, <1>10, <1>11, <1>12, <1>14, <1>15,
     <1>16, <1>17 DEF SemNext, SemStep

\* Whatever timeouts, signals and releases race it, a thread is in m_Queue at
\* most once and only while it waits, and no thread sleeps in acquire without a
\* place in m_Queue or in the list of a release that will wake it.
THEOREM SleepersAreQueued == SemSpec => []WaitQueueSound
<1>1. SemInit => WaitInv
  BY DEF SemInit, SchedInit, WaitInv, ListsInv, AsideInv, SenderInv, HandlerInv,
         SleepersAreKnown, Asleep, Elems, NoDup
<1>2. SemInv /\ WaitInv /\ [SemNext]_semVars => WaitInv'
  BY NextWaitInv
<1>3. WaitInv => WaitQueueSound
  <2> SUFFICES ASSUME WaitInv PROVE QueueHoldsWaiters
    BY DEF WaitInv, WaitQueueSound
  <2>1. \A i \in 1 .. Len(semQ) : semQ[i] \in Elems(semQ)
    BY DEF Elems
  <2> QED
    BY <2>1 DEF WaitInv, ListsInv, QueueHoldsWaiters, NoDup, Waits
<1> QED
  BY <1>1, <1>2, <1>3, SemInvHolds, PTL DEF SemSpec
=============================================================================
