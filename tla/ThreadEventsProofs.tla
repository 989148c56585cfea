------------------------- MODULE ThreadEventsProofs -------------------------
(***************************************************************************)
(* Proofs about ThreadEvents, for every number of levels and every set of  *)
(* events.                                                                 *)
(***************************************************************************)
EXTENDS ThreadEvents, SequenceLemmas, FunctionTheorems, FiniteSetTheorems

\* The state levels follow the code: each level belongs to the code at one
\* depth, shifted by the levels that timed out guards have left behind.
LevelInv ==
  /\ level = depth + expired
  /\ \A d \in 0 .. depth : mask[d + expired] = own[d]
  /\ \A d \in 0 .. depth - 1 : saved[d + expired] = d

\* The guard's event is queued only while there is a guard to cancel, and once.
GuardInv ==
  /\ \A i \in 1 .. Len(queue) :
       queue[i] = GuardEvent => guard = "armed" /\ alarm = "fired"
  /\ \A i, j \in 1 .. Len(queue) :
       queue[i] = GuardEvent /\ queue[j] = GuardEvent => i = j
  /\ alarm = "set" => guard = "armed"
  /\ guard = "armed" /\ guardDepth # Gone =>
       guardDepth \in Depths /\ guardLevel = guardDepth + expired

NestInv == LevelInv /\ GuardInv

----------------------------------------------------------------------------
(* The event queue *)

\* getNextEvent takes one event e, which may be delivered now, and keeps the
\* others; if e is the guard's event and was queued once, it is gone.
LEMMA GetNextEventLemma ==
  ASSUME TypeOK, NEW e, GetNextEvent(e)
  PROVE  /\ queue' \in Seq(Events)
         /\ e \notin mask[level] /\ (e = GuardEvent => guardLevel = level)
         /\ \E k \in 1 .. Len(queue) :
              /\ queue[k] = e
              /\ Len(queue') = Len(queue) - 1
              /\ \A j \in 1 .. Len(queue) - 1 :
                   queue'[j] = IF j <= Len(queue) - k THEN queue[k + j]
                               ELSE queue[j - (Len(queue) - k)]
<1>1. PICK k \in Deliverable :
        /\ queue[k] = e
        /\ queue' = SubSeq(queue, k + 1, Len(queue)) \o SubSeq(queue, 1, k - 1)
  BY DEF GetNextEvent, TakesEvent
<1>2. k \in 1 .. Len(queue) /\ queue[k] \notin mask[level]
      /\ (queue[k] = GuardEvent => guardLevel = level)
  BY DEF Deliverable
<1>3. queue \in Seq(Events)
  BY DEF TypeOK
<1> QED
  BY <1>1, <1>2, <1>3, RotateLemma

----------------------------------------------------------------------------
(* Types *)

\* Every action keeps the types.
LEMMA TypeStep == ASSUME TypeOK, [Next]_vars PROVE TypeOK'
<1> USE NestingAssumption DEF TypeOK, Levels, Depths, Gone
<1>1. CASE Resume
  BY <1>1 DEF Resume, guardVars
<1>2. CASE GuardFires
  <2>1. queue' \in Seq(Events)
    BY <1>2, GetNextEventLemma DEF GuardFires
  <2> QED
    BY <1>2, <2>1 DEF GuardFires, PushState, NewLevel, Full
<1>3. CASE HandlerReturned
  <2>1. PopState(level) \in Levels
    BY DEF PopState
  <2>2. level' \in Levels /\ depth' \in Depths
    BY <1>3, <2>1 DEF HandlerReturned
  <2> QED
    BY <1>3, <2>2 DEF HandlerReturned, guardVars
<1>4. CASE Longjmp
  BY <1>4 DEF Longjmp, PopState
<1>5. CASE GuardStart
  BY <1>5 DEF GuardStart, stack
<1>6. CASE AlarmFires
  BY <1>6 DEF AlarmFires, stack, Events
<1>7. CASE GuardEnd
  <2>1. queue' \in Seq(Events)
    <3>1. CASE \E i \in 1 .. Len(queue) : queue[i] = GuardEvent
      <4> DEFINE k == CHOOSE i \in 1 .. Len(queue) : queue[i] = GuardEvent
      <4>1. k \in 1 .. Len(queue)
        BY <3>1
      <4>2. Culled = SubSeq(queue, 1, k - 1) \o SubSeq(queue, k + 1, Len(queue))
        BY <3>1 DEF Culled
      <4> HIDE DEF k
      <4>3. Culled \in Seq(Events)
        BY <4>1, <4>2, RemoveAtLemma
      <4> QED
        BY <1>7, <4>3 DEF GuardEnd
    <3>2. CASE ~ \E i \in 1 .. Len(queue) : queue[i] = GuardEvent
      BY <1>7, <3>2 DEF GuardEnd, Culled
    <3> QED
      BY <3>1, <3>2
  <2>2. freed' \in Nat
    BY <1>7 DEF GuardEnd
  <2> QED
    BY <1>7, <2>1, <2>2 DEF GuardEnd, stack
<1>8. CASE ExecStart
  BY <1>8 DEF ExecStart, guardVars
<1>9. CASE ExecFails
  BY <1>9 DEF ExecFails, guardVars
<1>10. CASE ExecPop
  BY <1>10 DEF ExecPop
<1>11. CASE ExecDone \/ ExecMapFails
  BY <1>11 DEF ExecDone, ExecMapFails, guardVars
<1>12. ASSUME NEW e \in Signals \cup Kernel, DropEvent(e) PROVE TypeOK'
  <2>1. queue' \in Seq(Events)
    BY <1>12, GetNextEventLemma DEF DropEvent
  <2> QED
    BY <1>12, <2>1 DEF DropEvent, stack, guardVars
<1>13. ASSUME NEW e \in Signals \cup Kernel, UserHandler(e) PROVE TypeOK'
  <2>1. queue' \in Seq(Events)
    BY <1>13, GetNextEventLemma DEF UserHandler
  <2> QED
    BY <1>13, <2>1 DEF UserHandler, PushState, NewLevel, Full, guardVars
<1>14. ASSUME NEW e \in Signals \cup Kernel, KernelHandler(e) PROVE TypeOK'
  <2>1. queue' \in Seq(Events)
    BY <1>14, GetNextEventLemma DEF KernelHandler
  <2> QED
    BY <1>14, <2>1 DEF KernelHandler, PopState, Full, guardVars
<1>15. ASSUME NEW e \in Signals \cup Kernel, SendEvent(e) PROVE TypeOK'
  BY <1>15 DEF SendEvent, stack, guardVars, Events
<1>16. ASSUME NEW e \in Signals, NEW b \in BOOLEAN, InhibitEvent(e, b)
       PROVE  TypeOK'
  BY <1>16 DEF InhibitEvent, guardVars
<1>17. CASE UNCHANGED vars
  BY <1>17 DEF vars, stack, guardVars
<1>18. ASSUME NEW e \in Signals \cup Kernel, StackRefused(e) PROVE TypeOK'
  <2>1. PICK k \in Deliverable :
          queue' = Append(SubSeq(queue, k + 1, Len(queue)) \o SubSeq(queue, 1, k - 1), e)
    BY <1>18 DEF StackRefused
  <2>2. k \in 1 .. Len(queue) /\ queue \in Seq(Events)
    BY DEF Deliverable
  <2>3. SubSeq(queue, k + 1, Len(queue)) \o SubSeq(queue, 1, k - 1) \in Seq(Events)
    BY <2>2, RotateLemma
  <2>4. e \in Events
    BY DEF Events
  <2>5. queue' \in Seq(Events)
    BY <2>1, <2>3, <2>4, AppendProperties
  <2> QED
    <3>1. level' \in Levels /\ mask' \in [Levels -> SUBSET Signals]
      BY <1>18 DEF StackRefused, NewLevel, Full
    <3>2. lapsed' \in BOOLEAN
      BY <1>18, Zenon DEF StackRefused
    <3> QED
      BY <1>18, <2>5, <3>1, <3>2 DEF StackRefused, guardVars
<1> QED
  BY <1>1, <1>2, <1>3, <1>4, <1>5, <1>6, <1>7, <1>8, <1>9, <1>10, <1>11, <1>12,
     <1>13, <1>14, <1>15, <1>16, <1>17, <1>18 DEF Next

\* The state level always is an index of m_StateLevels, whatever the thread does.
THEOREM EventTypeCorrect == Spec => []TypeOK
<1>1. Init => TypeOK
  <2>1. Init => lapsed \in BOOLEAN
    BY Zenon DEF Init
  <2> QED
    BY <2>1, NestingAssumption DEF Init, TypeOK, Levels, Depths
<1>2. TypeOK /\ [Next]_vars => TypeOK'
  BY TypeStep
<1> QED
  BY <1>1, <1>2, PTL DEF Spec

----------------------------------------------------------------------------
(* Nesting *)

\* Where the guard's event is after getNextEvent.
LEMMA GuardQueueLemma ==
  ASSUME TypeOK, GuardInv, NEW e, GetNextEvent(e)
  PROVE  /\ \A i \in 1 .. Len(queue') :
              queue'[i] = GuardEvent =>
                e # GuardEvent /\ guard = "armed" /\ alarm = "fired"
         /\ \A i, j \in 1 .. Len(queue') :
              queue'[i] = GuardEvent /\ queue'[j] = GuardEvent => i = j
         /\ e = GuardEvent =>
              guard = "armed" /\ alarm = "fired" /\ guardLevel = level
<1>1. PICK k \in 1 .. Len(queue) :
        /\ queue[k] = e
        /\ Len(queue') = Len(queue) - 1
        /\ \A j \in 1 .. Len(queue) - 1 :
             queue'[j] = IF j <= Len(queue) - k THEN queue[k + j]
                         ELSE queue[j - (Len(queue) - k)]
  BY GetNextEventLemma
<1> DEFINE at(j) == IF j <= Len(queue) - k THEN k + j ELSE j - (Len(queue) - k)
<1>2. Len(queue) \in Nat
  BY DEF TypeOK
<1>3. Len(queue') = Len(queue) - 1
  BY <1>1
<1>4. \A j \in 1 .. Len(queue') :
        at(j) \in 1 .. Len(queue) /\ at(j) # k /\ queue'[j] = queue[at(j)]
  <2> SUFFICES ASSUME NEW j \in 1 .. Len(queue')
               PROVE  at(j) \in 1 .. Len(queue) /\ at(j) # k /\ queue'[j] = queue[at(j)]
    OBVIOUS
  <2>1. at(j) \in 1 .. Len(queue) /\ at(j) # k
    BY <1>2, <1>3
  <2>2. queue'[j] = queue[at(j)]
    BY <1>1, <1>3
  <2> QED
    BY <2>1, <2>2
<1>5. \A i, j \in 1 .. Len(queue') : at(i) = at(j) => i = j
  BY <1>2, <1>3
<1> HIDE DEF at
<1> QED
  BY <1>1, <1>4, <1>5, GetNextEventLemma DEF GuardInv

\* The running code may set its mask to what it wants.
LEMMA SameMaskLemma ==
  ASSUME TypeOK, LevelInv, UNCHANGED <<level, saved, depth, expired>>,
         NEW m, mask' = [mask EXCEPT ![level] = m], own' = [own EXCEPT ![depth] = m]
  PROVE  LevelInv'
<1>1. /\ depth \in Nat /\ depth <= MaxDepth /\ expired \in Nat /\ MaxNested \in Nat
      /\ level = depth + expired /\ level \in 0 .. MaxNested - 1
      /\ mask \in [0 .. MaxNested - 1 -> SUBSET Signals]
      /\ own \in [0 .. MaxDepth -> SUBSET Signals]
  BY NestingAssumption DEF TypeOK, LevelInv, Levels, Depths
<1>2. \A d \in 0 .. depth : mask'[d + expired] = own'[d]
  BY <1>1 DEF LevelInv
<1> QED
  BY <1>2 DEF LevelInv

\* Every action keeps the levels in step with the code.
LEMMA NestStep ==
  ASSUME TypeOK, TypeOK', NestInv, [Next]_vars, ~lapsed'
  PROVE  NestInv'
<1>0. /\ depth \in Nat /\ depth <= MaxDepth
      /\ expired \in Nat /\ expired <= MaxExpired
      /\ level = depth + expired /\ level < MaxNested
      /\ mask \in [0 .. MaxNested - 1 -> SUBSET Signals]
      /\ saved \in [0 .. MaxNested - 1 -> 0 .. MaxDepth]
      /\ own \in [0 .. MaxDepth -> SUBSET Signals]
      /\ MaxDepth \in Nat /\ MaxExpired \in Nat /\ MaxNested \in Nat
  <2>1. MaxDepth \in Nat /\ MaxExpired \in Nat /\ MaxNested \in Nat
    BY NestingAssumption
  <2>2. depth \in 0 .. MaxDepth /\ expired \in 0 .. MaxExpired
    BY DEF TypeOK, Depths
  <2>3. level = depth + expired
    BY DEF NestInv, LevelInv
  <2>4. level < MaxNested
    BY <2>1 DEF TypeOK, Levels
  <2> QED
    BY <2>1, <2>2, <2>3, <2>4 DEF TypeOK, Levels, Depths
<1> USE DEF Gone
<1>1. CASE Resume
  <2>1. LevelInv'
    BY <1>0, <1>1 DEF Resume, NestInv, LevelInv, guardVars
  <2> QED
    BY <1>1, <2>1 DEF Resume, NestInv, GuardInv, guardVars
<1>2. CASE GuardFires
  <2>1. /\ guard = "armed" /\ guardLevel = level
        /\ \A i \in 1 .. Len(queue') : queue'[i] # GuardEvent
    BY <1>2, GuardQueueLemma DEF GuardFires, NestInv
  <2>2. depth = guardDepth /\ depth = 0 /\ ~Full
    <3>1. guardDepth \in 0 .. depth /\ guardDepth # Gone
      BY <1>0, <1>2 DEF GuardFires
    <3>2. guardLevel = guardDepth + expired
      BY <2>1, <3>1 DEF NestInv, GuardInv
    <3>3. ~Full /\ ~(guardDepth > 0)
      BY <1>2 DEF GuardFires
    <3> QED
      BY <1>0, <2>1, <3>1, <3>2, <3>3
  <2>4. level + 1 < MaxNested
    BY <1>0, <2>2 DEF Full
  <2>3. LevelInv'
    BY <1>0, <1>2, <2>2, <2>4 DEF GuardFires, PushState, NewLevel, NestInv, LevelInv
  <2>5. GuardInv'
    BY <1>2, <2>1 DEF GuardFires, GuardInv
  <2> QED
    BY <2>3, <2>5 DEF NestInv
<1>3. CASE HandlerReturned
  <2>1. depth' = depth - 1 /\ level' = level - 1
    BY <1>0, <1>3 DEF HandlerReturned, PopState, NestInv, LevelInv
  <2>2. depth >= 1 /\ UNCHANGED <<mask, saved, own, expired>>
    BY <1>0, <1>3 DEF HandlerReturned, guardVars
  <2>3. LevelInv'
    BY <1>0, <2>1, <2>2 DEF NestInv, LevelInv
  <2> QED
    BY <1>3, <2>3 DEF HandlerReturned, InUser, NestInv, GuardInv, guardVars
<1>4. CASE Longjmp
  <2>1. LevelInv'
    BY <1>0, <1>4 DEF Longjmp, PopState, NestInv, LevelInv
  <2> QED
    BY <1>4, <2>1 DEF Longjmp, InUser, NestInv, GuardInv
<1>5. CASE GuardStart
  <2>1. LevelInv'
    BY <1>5 DEF GuardStart, InUser, NestInv, LevelInv, stack
  <2>2. GuardInv'
    BY <1>0, <1>5 DEF GuardStart, NestInv, GuardInv, Depths
  <2> QED
    BY <2>1, <2>2 DEF NestInv
<1>6. CASE AlarmFires
  <2>1. LevelInv'
    BY <1>6 DEF AlarmFires, NestInv, LevelInv, stack
  <2>2. /\ Len(queue') = Len(queue) + 1 /\ Len(queue) \in Nat
        /\ \A i \in 1 .. Len(queue) : queue'[i] = queue[i]
        /\ \A i \in 1 .. Len(queue) : queue[i] # GuardEvent
    BY <1>6 DEF AlarmFires, NestInv, GuardInv, TypeOK
  <2>3. GuardInv'
    BY <1>6, <2>2 DEF AlarmFires, NestInv, GuardInv
  <2> QED
    BY <2>1, <2>3 DEF NestInv
<1>7. CASE GuardEnd
  <2>1. LevelInv'
    BY <1>7 DEF GuardEnd, NestInv, LevelInv, stack
  <2>2. \A i \in 1 .. Len(Culled) : Culled[i] # GuardEvent
    <3>1. CASE \E i \in 1 .. Len(queue) : queue[i] = GuardEvent
      <4> DEFINE k == CHOOSE i \in 1 .. Len(queue) : queue[i] = GuardEvent
      <4>1. k \in 1 .. Len(queue) /\ queue[k] = GuardEvent
        BY <3>1
      <4>2. Culled = SubSeq(queue, 1, k - 1) \o SubSeq(queue, k + 1, Len(queue))
        BY <3>1 DEF Culled
      <4> HIDE DEF k
      <4>3. queue \in Seq(Events)
        BY DEF TypeOK
      <4>4. /\ Len(Culled) = Len(queue) - 1
            /\ \A j \in 1 .. Len(queue) - 1 :
                 Culled[j] = IF j < k THEN queue[j] ELSE queue[j + 1]
        BY <4>1, <4>2, <4>3, RemoveAtLemma
      <4>5. Len(queue) \in Nat
        BY <4>3
      <4> QED
        BY <4>1, <4>4, <4>5 DEF NestInv, GuardInv
    <3>2. CASE ~ \E i \in 1 .. Len(queue) : queue[i] = GuardEvent
      BY <3>2 DEF Culled
    <3> QED
      BY <3>1, <3>2
  <2>3. \A i \in 1 .. Len(queue') : queue'[i] # GuardEvent
    BY <1>7, <2>2 DEF GuardEnd, NestInv, GuardInv
  <2>4. GuardInv'
    BY <1>7, <2>3 DEF GuardEnd, GuardInv
  <2> QED
    BY <2>1, <2>4 DEF NestInv
<1>8. CASE ExecStart
  <2>1. mask[level] = own[depth]
    BY <1>0 DEF NestInv, LevelInv
  <2>2. LevelInv'
    BY <1>8, <2>1, SameMaskLemma DEF ExecStart, NestInv, guardVars
  <2> QED
    BY <1>8, <2>2 DEF ExecStart, NestInv, GuardInv, guardVars
<1>9. CASE ExecFails \/ ExecDone
  <2>1. mask[level] = own[depth]
    BY <1>0 DEF NestInv, LevelInv
  <2>2. LevelInv'
    BY <1>9, <2>1, SameMaskLemma DEF ExecFails, ExecDone, NestInv, guardVars
  <2> QED
    BY <1>9, <2>2 DEF ExecFails, ExecDone, NestInv, GuardInv, guardVars
<1>10. CASE ExecPop
  <2>1. depth = 0 /\ expired = 0
    <3>1. ~(level > 0)
      BY <1>10, Zenon DEF ExecPop
    <3> QED
      BY <1>0, <3>1
  <2>2. LevelInv'
    BY <1>0, <1>10, <2>1 DEF ExecPop, NestInv, LevelInv
  <2> QED
    BY <1>10, <2>2 DEF ExecPop, NestInv, GuardInv
<1>11. CASE ExecMapFails
  BY <1>11 DEF ExecMapFails, NestInv, LevelInv, GuardInv, guardVars
<1>12. ASSUME NEW e \in Signals \cup Kernel, DropEvent(e) PROVE NestInv'
  <2>1. GuardInv'
    BY <1>12, GuardQueueLemma DEF DropEvent, NestInv, GuardInv, guardVars
  <2> QED
    BY <1>12, <2>1 DEF DropEvent, NestInv, LevelInv, stack, guardVars
<1>13. ASSUME NEW e \in Signals \cup Kernel, UserHandler(e) PROVE NestInv'
  <2>1. GuardInv'
    BY <1>13, GuardQueueLemma DEF UserHandler, NestInv, GuardInv, guardVars
  <2>3. level + 1 < MaxNested /\ ~Full
    <3>1. ~Full
      BY <1>13 DEF UserHandler
    <3> QED
      BY <1>0, <3>1 DEF Full
  <2>2. LevelInv'
    BY <1>0, <1>13, <2>3 DEF UserHandler, PushState, NewLevel, NestInv, LevelInv, guardVars
  <2> QED
    BY <2>1, <2>2 DEF NestInv
<1>14. ASSUME NEW e \in Signals \cup Kernel, KernelHandler(e) PROVE NestInv'
  <2>1. GuardInv'
    BY <1>14, GuardQueueLemma DEF KernelHandler, NestInv, GuardInv, guardVars
  <2>0. level + 1 < MaxNested /\ ~Full
    <3>1. ~Full
      BY <1>14 DEF KernelHandler
    <3> QED
      BY <1>0, <3>1 DEF Full
  <2>2. level' = level
    BY <1>0, <1>14, <2>0 DEF KernelHandler, PopState
  <2>3. /\ mask' = [mask EXCEPT ![level + 1] = mask[level]]
        /\ saved' = [saved EXCEPT ![level] = depth]
        /\ UNCHANGED <<depth, own, expired>>
    BY <1>0, <1>14, <2>0 DEF KernelHandler, guardVars
  <2>4. LevelInv'
    <3>1. \A d \in 0 .. depth : mask'[d + expired] = mask[d + expired]
      BY <1>0, <2>0, <2>3
    <3>2. \A d \in 0 .. depth - 1 : saved'[d + expired] = saved[d + expired]
      BY <1>0, <2>3
    <3> QED
      BY <1>0, <2>2, <2>3, <3>1, <3>2 DEF NestInv, LevelInv
  <2> QED
    BY <1>14, <2>1, <2>4 DEF KernelHandler, NestInv, guardVars
<1>15. ASSUME NEW e \in Signals \cup Kernel, SendEvent(e) PROVE NestInv'
  <2>1. /\ Len(queue') = Len(queue) + 1 /\ Len(queue) \in Nat
        /\ \A i \in 1 .. Len(queue) : queue'[i] = queue[i]
        /\ queue'[Len(queue) + 1] # GuardEvent
    BY <1>15, EventAssumption DEF SendEvent, TypeOK, Events
  <2>2. GuardInv'
    BY <1>15, <2>1 DEF SendEvent, NestInv, GuardInv, guardVars
  <2> QED
    BY <1>15, <2>2 DEF SendEvent, NestInv, LevelInv, stack, guardVars
<1>16. ASSUME NEW e \in Signals, NEW b \in BOOLEAN, InhibitEvent(e, b)
       PROVE  NestInv'
  <2>1. mask[level] = own[depth]
    BY <1>0 DEF NestInv, LevelInv
  <2>2. LevelInv'
    BY <1>16, <2>1, SameMaskLemma DEF InhibitEvent, NestInv, guardVars
  <2> QED
    BY <1>16, <2>2 DEF InhibitEvent, NestInv, GuardInv, guardVars
<1>17. CASE UNCHANGED vars
  BY <1>17 DEF vars, stack, guardVars, NestInv, LevelInv, GuardInv
<1>18. \A e : ~StackRefused(e)
  BY DEF StackRefused
<1> QED
  BY <1>1, <1>2, <1>3, <1>4, <1>5, <1>6, <1>7, <1>8, <1>9, <1>10, <1>11, <1>12,
     <1>13, <1>14, <1>15, <1>16, <1>17, <1>18 DEF Next

\* Once levels and code are out of step, they stay out of step.
LEMMA LapsedStays == ASSUME [Next]_vars, lapsed PROVE lapsed'
<1>1. CASE Resume \/ HandlerReturned \/ Longjmp
  BY <1>1 DEF Resume, HandlerReturned, Longjmp
<1>2. CASE GuardFires \/ GuardStart \/ AlarmFires \/ GuardEnd
  BY <1>2 DEF GuardFires, GuardStart, AlarmFires, GuardEnd
<1>3. CASE ExecStart \/ ExecFails \/ ExecPop \/ ExecMapFails \/ ExecDone
  BY <1>3 DEF ExecStart, ExecFails, ExecPop, ExecMapFails, ExecDone
<1>4. ASSUME NEW e \in Signals \cup Kernel,
             \/ DropEvent(e) \/ UserHandler(e) \/ StackRefused(e)
             \/ KernelHandler(e) \/ SendEvent(e)
      PROVE  lapsed'
  BY <1>4 DEF DropEvent, UserHandler, StackRefused, KernelHandler, SendEvent
<1>5. ASSUME NEW e \in Signals, NEW b \in BOOLEAN, InhibitEvent(e, b)
      PROVE  lapsed'
  BY <1>5 DEF InhibitEvent
<1>6. CASE UNCHANGED vars
  BY <1>6 DEF vars
<1> QED
  BY <1>1, <1>2, <1>3, <1>4, <1>5, <1>6 DEF Next

\* The invariant holds of every behaviour until levels and code are out of step.
LEMMA NestingInvariant == Spec => [](TypeOK /\ (~lapsed => NestInv))
<1>1. Init => (~lapsed => NestInv)
  BY NestingAssumption DEF Init, NestInv, LevelInv, GuardInv, Levels, Depths
<1>2. (~lapsed => NestInv) /\ TypeOK /\ TypeOK' /\ [Next]_vars
      => (~lapsed => NestInv)'
  <2> SUFFICES ASSUME ~lapsed => NestInv, TypeOK, TypeOK', [Next]_vars, ~lapsed'
               PROVE  NestInv'
    OBVIOUS
  <2>1. ~lapsed
    BY LapsedStays
  <2> QED
    BY <2>1, NestStep
<1> QED
  BY <1>1, <1>2, EventTypeCorrect, PTL DEF Spec

\* The code that runs has its own inhibit mask: pushState, popState and
\* inhibitEvent keep the masks of interrupted handlers apart, until a level is
\* not pushed, not popped or thrown away.
THEOREM MasksAreKeptApart == Spec => []MaskIsOwn
<1>1. TypeOK /\ (~lapsed => NestInv) => MaskIsOwn
  BY DEF TypeOK, NestInv, LevelInv, MaskIsOwn, Depths
<1> QED
  BY <1>1, NestingInvariant, PTL

\* eventHandlerReturned resumes the code that was interrupted, until a level is
\* not pushed, not popped or thrown away.
THEOREM HandlersReturnHome == Spec => ResumesInterrupted
<1>1. TypeOK /\ (~lapsed => NestInv) => (~lapsed /\ HandlerReturned => depth' = depth - 1)
  BY NestingAssumption
  DEF TypeOK, NestInv, LevelInv, HandlerReturned, PopState, Depths, Levels
<1> QED
  BY <1>1, NestingInvariant, PTL DEF ResumesInterrupted

\* A guard that times out interrupts the code it guards, and no handler, until
\* a level is not pushed, not popped or thrown away.
THEOREM GuardsCancelOwnCode == Spec => GuardCancelsOwnCode
<1>1. TypeOK /\ (~lapsed => NestInv) => (~lapsed /\ GuardFires => depth = guardDepth)
  <2> SUFFICES ASSUME TypeOK, NestInv, GuardFires PROVE depth = guardDepth
    OBVIOUS
  <2>1. guard = "armed" /\ guardLevel = level
    BY GuardQueueLemma DEF GuardFires, NestInv
  <2> QED
    BY <2>1, NestingAssumption
    DEF GuardFires, TypeOK, NestInv, LevelInv, GuardInv, Depths, Levels, Gone
<1> QED
  BY <1>1, NestingInvariant, PTL DEF GuardCancelsOwnCode

----------------------------------------------------------------------------
(* Inhibited and pinned events *)

\* The places of e in q.
Occurrences(q, e) == {i \in 1 .. Len(q) : q[i] = e}

\* A list has a number of occurrences.
LEMMA OccurrencesLemma ==
  ASSUME NEW S, NEW q \in Seq(S), NEW e
  PROVE  IsFiniteSet(Occurrences(q, e)) /\ Cardinality(Occurrences(q, e)) \in Nat
<1>1. IsFiniteSet(1 .. Len(q))
  BY LenProperties, FS_Interval
<1>2. IsFiniteSet(Occurrences(q, e))
  BY <1>1, FS_Subset DEF Occurrences
<1> QED
  BY <1>2, FS_CardinalityType

\* Taking one element out of a list and turning the list around that place
\* keeps every other element as often as it was there.
LEMMA RotateKeeps ==
  ASSUME NEW S, NEW q \in Seq(S), NEW k \in 1 .. Len(q), NEW e, q[k] # e
  PROVE  Cardinality(Occurrences(SubSeq(q, k + 1, Len(q)) \o SubSeq(q, 1, k - 1), e))
           >= Cardinality(Occurrences(q, e))
<1> DEFINE d == SubSeq(q, k + 1, Len(q)) \o SubSeq(q, 1, k - 1)
           A == Occurrences(q, e)
           B == Occurrences(d, e)
           f == [i \in A |-> IF i > k THEN i - k ELSE i + (Len(q) - k)]
<1>1. /\ Len(q) \in Nat /\ Len(d) = Len(q) - 1
      /\ \A j \in 1 .. Len(q) - 1 :
           d[j] = IF j <= Len(q) - k THEN q[k + j] ELSE q[j - (Len(q) - k)]
  BY RotateLemma, LenProperties
<1> HIDE DEF d
<1>2. ASSUME NEW i \in A
      PROVE  f[i] \in B
  <2>1. i \in 1 .. Len(q) /\ q[i] = e /\ i # k
    BY DEF Occurrences
  <2>2. CASE i > k
    <3>1. f[i] = i - k /\ f[i] \in 1 .. Len(q) - 1 /\ f[i] <= Len(q) - k /\ k + f[i] = i
      BY <1>1, <2>1, <2>2
    <3> QED
      BY <1>1, <2>1, <3>1 DEF Occurrences
  <2>3. CASE i < k
    <3>1. /\ f[i] = i + (Len(q) - k) /\ f[i] \in 1 .. Len(q) - 1
          /\ ~(f[i] <= Len(q) - k) /\ f[i] - (Len(q) - k) = i
      BY <1>1, <2>1, <2>3
    <3> QED
      BY <1>1, <2>1, <3>1 DEF Occurrences
  <2> QED
    BY <2>1, <2>2, <2>3
<1>3. ASSUME NEW i \in A, NEW j \in A, f[i] = f[j]
      PROVE  i = j
  <2>1. i \in 1 .. Len(q) /\ j \in 1 .. Len(q)
    BY DEF Occurrences
  <2> QED
    BY <1>1, <1>3, <2>1
<1>4. f \in [A -> B]
  BY <1>2
<1> HIDE DEF f
<1>5. f \in Injection(A, B)
  BY <1>3, <1>4, Fun_IsInj
<1>6. IsFiniteSet(1 .. Len(d)) /\ IsFiniteSet(1 .. Len(q))
  BY <1>1, FS_Interval
<1>7. IsFiniteSet(B)
  BY <1>6, FS_Subset DEF Occurrences
<1>8. Cardinality(A) <= Cardinality(B) /\ IsFiniteSet(A)
  BY <1>5, <1>7, FS_Injection
<1>9. Cardinality(A) \in Nat /\ Cardinality(B) \in Nat
  BY <1>7, <1>8, FS_CardinalityType
<1> QED
  BY <1>8, <1>9 DEF d

\* An event that is added takes none away.
LEMMA AppendKeeps ==
  ASSUME NEW S, NEW q \in Seq(S), NEW x \in S, NEW e
  PROVE  Cardinality(Occurrences(Append(q, x), e)) >= Cardinality(Occurrences(q, e))
<1> DEFINE a == Append(q, x)
<1>1. /\ Len(q) \in Nat /\ Len(a) = Len(q) + 1
      /\ \A i \in 1 .. Len(q) : a[i] = q[i]
  BY AppendProperties, LenProperties
<1> HIDE DEF a
<1>2. Occurrences(q, e) \subseteq Occurrences(a, e)
  BY <1>1 DEF Occurrences
<1>3. IsFiniteSet(1 .. Len(a))
  BY <1>1, FS_Interval
<1>4. IsFiniteSet(Occurrences(a, e))
  BY <1>3, FS_Subset DEF Occurrences
<1>5. /\ Cardinality(Occurrences(q, e)) <= Cardinality(Occurrences(a, e))
      /\ IsFiniteSet(Occurrences(q, e))
  BY <1>2, <1>4, FS_Subset
<1>6. Cardinality(Occurrences(q, e)) \in Nat /\ Cardinality(Occurrences(a, e)) \in Nat
  BY <1>4, <1>5, FS_CardinalityType
<1> QED
  BY <1>5, <1>6 DEF a

\* Taking one element out of a list keeps every other one.
LEMMA RemoveAtKeeps ==
  ASSUME NEW S, NEW q \in Seq(S), NEW k \in 1 .. Len(q), NEW e, q[k] # e
  PROVE  Cardinality(Occurrences(SubSeq(q, 1, k - 1) \o SubSeq(q, k + 1, Len(q)), e))
           >= Cardinality(Occurrences(q, e))
<1> DEFINE d == SubSeq(q, 1, k - 1) \o SubSeq(q, k + 1, Len(q))
           A == Occurrences(q, e)
           B == Occurrences(d, e)
           f == [i \in A |-> IF i > k THEN i - 1 ELSE i]
<1>1. /\ d \in Seq(S) /\ Len(q) \in Nat /\ Len(d) = Len(q) - 1
      /\ \A j \in 1 .. Len(q) - 1 : d[j] = IF j < k THEN q[j] ELSE q[j + 1]
  BY RemoveAtLemma, LenProperties
<1> HIDE DEF d
<1>2. ASSUME NEW i \in A
      PROVE  f[i] \in B
  <2>1. i \in 1 .. Len(q) /\ q[i] = e /\ i # k
    BY DEF Occurrences
  <2>2. CASE i > k
    <3>1. f[i] \in 1 .. Len(q) - 1 /\ ~(f[i] < k) /\ f[i] + 1 = i
      BY <1>1, <2>1, <2>2
    <3> QED
      BY <1>1, <2>1, <3>1 DEF Occurrences
  <2>3. CASE i < k
    <3>1. f[i] \in 1 .. Len(q) - 1 /\ f[i] < k /\ f[i] = i
      BY <1>1, <2>1, <2>3
    <3> QED
      BY <1>1, <2>1, <3>1 DEF Occurrences
  <2> QED
    BY <2>1, <2>2, <2>3
<1>3. ASSUME NEW i \in A, NEW j \in A, f[i] = f[j]
      PROVE  i = j
  <2>1. i \in 1 .. Len(q) /\ j \in 1 .. Len(q) /\ i # k /\ j # k
    BY DEF Occurrences
  <2> QED
    BY <1>1, <1>3, <2>1
<1>4. f \in [A -> B]
  BY <1>2
<1> HIDE DEF f
<1>5. f \in Injection(A, B)
  BY <1>3, <1>4, Fun_IsInj
<1>6. IsFiniteSet(B) /\ Cardinality(A) \in Nat /\ Cardinality(B) \in Nat
  BY <1>1, OccurrencesLemma
<1>7. Cardinality(A) <= Cardinality(B)
  BY <1>5, <1>6, FS_Injection
<1> QED
  BY <1>6, <1>7 DEF d

\* What a thread passes over: events it inhibits, or pinned to another level.
PassedOver == mask[level] \cup (IF guardLevel = level THEN {} ELSE {GuardEvent})

\* The ways in which the event queue changes: an event arrives, one is taken
\* that is not passed over, and perhaps sent again, or the guard culls its own.
LEMMA QueueStep ==
  ASSUME TypeOK, [Next]_vars
  PROVE  \/ queue' = queue
         \/ \E k \in Deliverable :
              LET rest == SubSeq(queue, k + 1, Len(queue)) \o SubSeq(queue, 1, k - 1)
              IN queue' = rest \/ \E e \in Events : queue' = Append(rest, e)
         \/ \E e \in Events : queue' = Append(queue, e)
         \/ GuardEnd /\ queue' = Culled
<1>1. CASE \/ Resume \/ HandlerReturned \/ Longjmp \/ GuardStart \/ ExecStart
           \/ ExecFails \/ ExecPop \/ ExecMapFails \/ ExecDone \/ UNCHANGED vars
           \/ \E e \in Signals, b \in BOOLEAN : InhibitEvent(e, b)
  BY <1>1 DEF Resume, HandlerReturned, Longjmp, GuardStart, ExecStart, ExecFails, ExecPop,
              ExecMapFails, ExecDone, InhibitEvent, vars
<1>2. CASE GuardFires \/ \E e \in Signals \cup Kernel :
                            DropEvent(e) \/ UserHandler(e) \/ KernelHandler(e)
  BY <1>2 DEF GuardFires, DropEvent, UserHandler, KernelHandler, GetNextEvent, TakesEvent
<1>3. CASE \E e \in Signals \cup Kernel : StackRefused(e)
  BY <1>3 DEF StackRefused, Events
<1>4. CASE AlarmFires \/ \E e \in Signals \cup Kernel : SendEvent(e)
  BY <1>4 DEF AlarmFires, SendEvent, Events
<1>5. CASE GuardEnd
  BY <1>5 DEF GuardEnd
<1> QED
  BY <1>1, <1>2, <1>3, <1>4, <1>5 DEF Next

\* No step loses an event that is passed over, save the guard's own.
LEMMA PassedOverStep ==
  ASSUME TypeOK, [Next]_vars, NEW e \in PassedOver, ~(e = GuardEvent /\ GuardEnd)
  PROVE  Cardinality(Occurrences(queue', e)) >= Cardinality(Occurrences(queue, e))
<1>0. queue \in Seq(Events)
  BY DEF TypeOK
<1>1. CASE queue' = queue
  BY <1>0, <1>1, OccurrencesLemma
<1>2. ASSUME NEW k \in Deliverable,
             LET rest == SubSeq(queue, k + 1, Len(queue)) \o SubSeq(queue, 1, k - 1)
             IN queue' = rest \/ \E x \in Events : queue' = Append(rest, x)
      PROVE  Cardinality(Occurrences(queue', e)) >= Cardinality(Occurrences(queue, e))
  <2> DEFINE rest == SubSeq(queue, k + 1, Len(queue)) \o SubSeq(queue, 1, k - 1)
  <2>1. k \in 1 .. Len(queue) /\ queue[k] # e
    BY DEF Deliverable, PassedOver
  <2>2. rest \in Seq(Events)
    BY <1>0, <2>1, RotateLemma
  <2>3. Cardinality(Occurrences(rest, e)) >= Cardinality(Occurrences(queue, e))
    BY <1>0, <2>1, RotateKeeps
  <2>4. queue' = rest \/ \E x \in Events : queue' = Append(rest, x)
    BY <1>2
  <2> HIDE DEF rest
  <2>5. CASE queue' = rest
    BY <2>3, <2>5
  <2>6. ASSUME NEW x \in Events, queue' = Append(rest, x)
        PROVE  Cardinality(Occurrences(queue', e)) >= Cardinality(Occurrences(queue, e))
    <3>1. queue' \in Seq(Events)
      BY <2>2, <2>6, AppendProperties
    <3>2. Cardinality(Occurrences(queue', e)) >= Cardinality(Occurrences(rest, e))
      BY <2>2, <2>6, AppendKeeps
    <3>3. /\ Cardinality(Occurrences(queue', e)) \in Nat
          /\ Cardinality(Occurrences(rest, e)) \in Nat
          /\ Cardinality(Occurrences(queue, e)) \in Nat
      BY <1>0, <2>2, <3>1, OccurrencesLemma
    <3> QED
      BY <2>3, <3>2, <3>3
  <2> QED
    BY <2>4, <2>5, <2>6
<1>3. ASSUME NEW x \in Events, queue' = Append(queue, x)
      PROVE  Cardinality(Occurrences(queue', e)) >= Cardinality(Occurrences(queue, e))
  BY <1>0, <1>3, AppendKeeps
<1>4. CASE GuardEnd /\ queue' = Culled
  <2>1. CASE \E i \in 1 .. Len(queue) : queue[i] = GuardEvent
    <3> DEFINE k == CHOOSE i \in 1 .. Len(queue) : queue[i] = GuardEvent
    <3>1. k \in 1 .. Len(queue) /\ queue[k] = GuardEvent
      BY <2>1
    <3>2. queue' = SubSeq(queue, 1, k - 1) \o SubSeq(queue, k + 1, Len(queue))
      BY <1>4, <2>1 DEF Culled
    <3> HIDE DEF k
    <3>3. queue[k] # e
      BY <1>4, <3>1
    <3> QED
      BY <1>0, <3>1, <3>2, <3>3, RemoveAtKeeps
  <2>2. CASE ~\E i \in 1 .. Len(queue) : queue[i] = GuardEvent
    BY <1>1, <1>4, <2>2 DEF Culled
  <2> QED
    BY <2>1, <2>2
<1> QED
  BY <1>1, <1>2, <1>3, <1>4, QueueStep

\* getNextEvent and everything else that touches the event queue keep the
\* events that are inhibited or pinned to another level, in any number and
\* order; only a guard takes its own event away.
THEOREM PassedOverEventsAreKept == Spec => PassedOverKept
<1> DEFINE Step ==
      \A e \in mask[level] \cup (IF guardLevel = level THEN {} ELSE {GuardEvent}) :
        \/ e = GuardEvent /\ GuardEnd
        \/ Cardinality({i \in 1 .. Len(queue') : queue'[i] = e})
             >= Cardinality({i \in 1 .. Len(queue) : queue[i] = e})
<1>1. TypeOK /\ [Next]_vars => [Step]_vars
  <2> SUFFICES ASSUME TypeOK, [Next]_vars PROVE Step
    OBVIOUS
  <2> QED
    BY PassedOverStep DEF PassedOver, Occurrences
<1> HIDE DEF Step
<1>2. Spec => [][Step]_vars
  BY <1>1, EventTypeCorrect, PTL DEF Spec
<1> QED
  BY <1>2, PTL DEF PassedOverKept, Step
=============================================================================
