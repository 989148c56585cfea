--------------------------- MODULE ThreadEvents ---------------------------
(***************************************************************************)
(* Event delivery to one thread: the stack of state levels of Thread       *)
(* (saved contexts and inhibit masks), checkEventState and                 *)
(* eventHandlerReturned, the TimeoutGuard that jumps out of a handler, the *)
(* longjmp of user code, and the execve that throws all levels away.       *)
(*                                                                         *)
(* The code keeps m_nStateLevel; what really nests is the code itself.     *)
(* The depth of the running code (0: the thread's main code, d: the d-th   *)
(* handler that interrupted it) is kept beside the level the kernel has    *)
(* recorded, and the properties compare the two.                           *)
(*                                                                         *)
(* checkEventState runs with interrupts disabled, so a delivery is one     *)
(* step.  Handlers in kernel mode do not block: they run inside that step. *)
(* PerProcessorScheduler models the same thread at level 0.                *)
(***************************************************************************)
EXTENDS Integers, Sequences, FiniteSets

CONSTANTS
  Signals,      \* events handled in user mode
  Kernel,       \* events handled in kernel mode, at any level
  Unmapped,     \* the events among them whose handler is not mapped
  GuardEvent,   \* the TimeoutGuardEvent, pinned to the level of its guard
  MaxNested,    \* MAX_NESTED_EVENTS
  MaxDepth,     \* bound: handlers running on top of each other
  MaxQueued,    \* bound: events in m_EventQueue
  MaxExpired,   \* bound: guards that time out
  Jumps         \* whether user code leaves handlers with longjmp

Events == Signals \cup Kernel \cup {GuardEvent}
Levels == 0 .. MaxNested - 1
Depths == 0 .. MaxDepth

\* The depth of a frame that is no longer on the stack.
Gone == MaxDepth + 1

ASSUME EventAssumption ==
  /\ Signals \cap Kernel = {}
  /\ GuardEvent \notin Signals \cup Kernel
  /\ Unmapped \subseteq Signals \cup Kernel

ASSUME NestingAssumption ==
  /\ MaxNested \in Nat \ {0, 1}
  /\ MaxDepth \in Nat /\ MaxQueued \in Nat /\ MaxExpired \in Nat
  /\ Jumps \in BOOLEAN

VARIABLES
  queue,       \* m_EventQueue
  level,       \* m_nStateLevel
  mask,        \* m_InhibitMask of each level
  saved,       \* m_State of each level: the depth of the code it resumes
  depth,       \* the depth of the code that is running
  own,         \* the mask the code at each depth runs under (history)
  guard,       \* the TimeoutGuard: none, armed, or timed out
  guardLevel,  \* its m_nLevel, which its event is pinned to
  guardDepth,  \* the depth of the frame it is in
  alarm,       \* its alarm: off, set, or fired and the event sent
  freed,       \* how often its event has been deleted
  expired,     \* how many guards have timed out (since the last execve)
  exec,        \* execve: no, wiping the address space, or levels popped
  lapsed       \* history: a level was not pushed, not popped or thrown away

stack == <<level, mask, saved, depth, own>>
guardVars == <<guard, guardLevel, guardDepth, alarm, freed, expired>>
vars == <<queue, stack, guardVars, exec, lapsed>>

----------------------------------------------------------------------------
(* The state levels *)

Full == level + 1 >= MaxNested

\* Mutant: a new level starts with an empty mask.
MutantPushState ==
  /\ level' = IF Full THEN level ELSE level + 1
  /\ mask' = IF Full THEN mask ELSE [mask EXCEPT ![level + 1] = {}]
  /\ saved' = [saved EXCEPT ![IF Full THEN MaxNested - 1 ELSE level] = depth]

\* Mutant: the level goes up at the limit, too.
MutantNewLevel ==
  level' = level + 1 /\ mask' = [mask EXCEPT ![level + 1] = mask[level]]

\* pushState: the new level starts with the mask of the one below.
NewLevel ==
  /\ level' = IF Full THEN level ELSE level + 1
  /\ mask' = IF Full THEN mask ELSE [mask EXCEPT ![level + 1] = mask[level]]

\* pushState, and the saveState into the level it returns.
PushState ==
  /\ NewLevel
  /\ saved' = [saved EXCEPT ![IF Full THEN MaxNested - 1 ELSE level] = depth]

\* popState, from level l.
PopState(l) == IF l = 0 THEN 0 ELSE l - 1

----------------------------------------------------------------------------
(* getNextEvent *)

\* Mutant: an event is delivered whatever level it is pinned to.
MutantDeliverable == {i \in 1 .. Len(queue) : queue[i] \notin mask[level]}

Deliverable ==
  {i \in 1 .. Len(queue) :
     /\ queue[i] \notin mask[level]
     /\ queue[i] = GuardEvent => guardLevel = level}

\* Mutant: getNextEvent drops what it passes over.
MutantTakesEvent(e, rest) ==
  \E k \in Deliverable :
    /\ \A j \in Deliverable : k <= j
    /\ queue[k] = e
    /\ rest = SubSeq(queue, k + 1, Len(queue))

\* getNextEvent returns e and leaves the queue rest: what it passes over goes
\* to the back.
TakesEvent(e, rest) ==
  \E k \in Deliverable :
    /\ \A j \in Deliverable : k <= j
    /\ queue[k] = e
    /\ rest = SubSeq(queue, k + 1, Len(queue)) \o SubSeq(queue, 1, k - 1)

GetNextEvent(e) == TakesEvent(e, queue')

----------------------------------------------------------------------------
(* checkEventState *)

\* A thread that is scheduled again and has nothing to handle.
Resume ==
  /\ Deliverable = {}
  /\ saved' = [saved EXCEPT ![level] = depth]
  /\ UNCHANGED <<queue, level, mask, depth, own, guardVars, exec, lapsed>>

\* The handler's address is not mapped: the event is dropped.
DropEvent(e) ==
  /\ e \in Unmapped
  /\ GetNextEvent(e)
  /\ UNCHANGED <<stack, guardVars, exec, lapsed>>

\* A handler in user mode starts, on top of the running code.
UserHandler(e) ==
  /\ e \in Signals \ Unmapped /\ depth < MaxDepth
  /\ GetNextEvent(e)
  /\ PushState
  /\ depth' = depth + 1
  /\ own' = [own EXCEPT ![depth + 1] = own[depth]]
  /\ lapsed' = (lapsed \/ Full)
  /\ UNCHANGED <<guardVars, exec>>

\* The user stack turns out to be the kernel's: the event is sent again and
\* checkEventState returns, with the level it has pushed.
StackRefused(e) ==
  /\ e \in Signals \ Unmapped
  /\ \E k \in Deliverable :
       LET rest == SubSeq(queue, k + 1, Len(queue)) \o SubSeq(queue, 1, k - 1)
       IN TakesEvent(e, rest) /\ queue' = Append(rest, e)
  /\ NewLevel
  /\ lapsed' = TRUE
  /\ UNCHANGED <<saved, depth, own, guardVars, exec>>

\* A handler in kernel mode runs from start to end.
KernelHandler(e) ==
  /\ e \in Kernel \ Unmapped
  /\ GetNextEvent(e)
  /\ mask' = IF Full THEN mask ELSE [mask EXCEPT ![level + 1] = mask[level]]
  /\ saved' = [saved EXCEPT ![IF Full THEN MaxNested - 1 ELSE level] = depth]
  /\ level' = PopState(IF Full THEN level ELSE level + 1)
  /\ lapsed' = (lapsed \/ Full)
  /\ UNCHANGED <<depth, own, guardVars, exec>>

\* The handler of the guard's event: its event is deleted, and cancel() jumps
\* back into the guard's constructor, as long as its frame exists.  The level
\* that was pushed stays.
GuardFires ==
  /\ GetNextEvent(GuardEvent)
  /\ guardDepth \in 0 .. depth /\ expired < MaxExpired
  /\ PushState
  /\ depth' = guardDepth
  /\ guard' = "expired" /\ alarm' = "off"
  /\ freed' = freed + 1 /\ expired' = expired + 1
  /\ lapsed' = (lapsed \/ Full \/ guardDepth > 0)
  /\ UNCHANGED <<own, guardLevel, guardDepth, exec>>

----------------------------------------------------------------------------
(* What the running code does *)

\* User code is running: not a system call that waits under a guard, not execve.
InUser == exec = "no" /\ (guard = "none" \/ guardDepth # depth)

\* Mutant: the context that is restored is the one of the level being left.
MutantHandlerReturned ==
  /\ InUser /\ depth > 0
  /\ level' = PopState(level)
  /\ depth' = saved[level]
  /\ UNCHANGED <<queue, mask, saved, own, guardVars, exec, lapsed>>

\* eventHandlerReturned.
HandlerReturned ==
  /\ InUser /\ depth > 0
  /\ level' = PopState(level)
  /\ depth' = saved[PopState(level)]
  /\ UNCHANGED <<queue, mask, saved, own, guardVars, exec, lapsed>>

\* longjmp out of a handler, to user code it has interrupted: unwind_signal
\* pops a level.  A guard in the system call that was interrupted is lost.
Longjmp ==
  /\ Jumps /\ InUser /\ depth > 0
  /\ level' = PopState(level)
  /\ depth' = depth - 1
  /\ guardDepth' = IF guard # "none" /\ guardDepth = depth - 1
                   THEN Gone ELSE guardDepth
  /\ UNCHANGED <<queue, mask, saved, own, guard, guardLevel, alarm, freed,
                 expired, exec, lapsed>>

\* inhibitEvent, for a signal.
InhibitEvent(e, bInhibit) ==
  LET new(m) == IF bInhibit THEN m \cup {e} ELSE m \ {e}
  IN /\ InUser
     /\ mask' = [mask EXCEPT ![level] = new(@)]
     /\ own' = [own EXCEPT ![depth] = new(@)]
     /\ UNCHANGED <<queue, level, saved, depth, guardVars, exec, lapsed>>

\* sendEvent, by another thread or an interrupt handler.
SendEvent(e) ==
  /\ Len(queue) < MaxQueued
  /\ queue' = Append(queue, e)
  /\ UNCHANGED <<stack, guardVars, exec, lapsed>>

----------------------------------------------------------------------------
(* TimeoutGuard *)

\* The constructor.  (A timeout takes a second or more: it does not go off
\* before the constructor has saved its state.)
GuardStart ==
  /\ InUser /\ guard = "none"
  /\ guard' = "armed" /\ alarm' = "set" /\ freed' = 0
  /\ guardLevel' = level /\ guardDepth' = depth
  /\ UNCHANGED <<queue, stack, expired, exec, lapsed>>

AlarmFires ==
  /\ alarm = "set" /\ Len(queue) < MaxQueued
  /\ alarm' = "fired"
  /\ queue' = Append(queue, GuardEvent)
  /\ UNCHANGED <<stack, guard, guardLevel, guardDepth, freed, expired, exec, lapsed>>

\* cullEvent(m_pEvent): the event is in the queue once at most.
Culled ==
  IF ~\E i \in 1 .. Len(queue) : queue[i] = GuardEvent THEN queue
  ELSE LET k == CHOOSE i \in 1 .. Len(queue) : queue[i] = GuardEvent
       IN SubSeq(queue, 1, k - 1) \o SubSeq(queue, k + 1, Len(queue))

\* The destructor: m_pEvent is null after a timeout, otherwise it is culled,
\* which deletes an event that is queued, and deleted.
GuardEnd ==
  /\ guard # "none" /\ guardDepth = depth /\ exec = "no"
  /\ IF guard = "armed"
     THEN /\ queue' = Culled
          /\ freed' = IF \E i \in 1 .. Len(queue) : queue[i] = GuardEvent
                      THEN 2 ELSE 1
     ELSE UNCHANGED <<queue, freed>>
  /\ guard' = "none" /\ alarm' = "off"
  /\ UNCHANGED <<stack, guardLevel, guardDepth, expired, exec, lapsed>>

----------------------------------------------------------------------------
(* execve *)

\* All signals are inhibited while the address space is replaced.
ExecStart ==
  /\ InUser
  /\ exec' = "wiping"
  /\ mask' = [mask EXCEPT ![level] = @ \cup Signals]
  /\ own' = [own EXCEPT ![depth] = @ \cup Signals]
  /\ UNCHANGED <<queue, level, saved, depth, guardVars, lapsed>>

\* loadProgram fails.
ExecFails ==
  /\ exec = "wiping"
  /\ exec' = "no"
  /\ mask' = [mask EXCEPT ![level] = @ \ Signals]
  /\ own' = [own EXCEPT ![depth] = @ \ Signals]
  /\ UNCHANGED <<queue, level, saved, depth, guardVars, lapsed>>

\* All levels are popped; what they had interrupted is gone.  The signals are
\* inhibited at the level that was left.
ExecPop ==
  /\ exec = "wiping"
  /\ exec' = "popped"
  /\ level' = 0 /\ depth' = 0
  /\ own' = [own EXCEPT ![0] = own[depth]]
  /\ guardDepth' = IF guard = "none" THEN guardDepth ELSE Gone
  /\ expired' = 0
  /\ lapsed' = (lapsed \/ level > 0)
  /\ UNCHANGED <<queue, mask, saved, guard, guardLevel, alarm, freed>>

\* The dynamic linker cannot be mapped: execve returns with signals inhibited.
ExecMapFails ==
  /\ exec = "popped"
  /\ exec' = "no"
  /\ UNCHANGED <<queue, level, mask, saved, depth, own, guardVars, lapsed>>

\* The signals are let in again.
ExecDone ==
  /\ exec = "popped"
  /\ exec' = "no"
  /\ mask' = [mask EXCEPT ![level] = @ \ Signals]
  /\ own' = [own EXCEPT ![depth] = @ \ Signals]
  /\ UNCHANGED <<queue, level, saved, depth, guardVars, lapsed>>

----------------------------------------------------------------------------
Init ==
  /\ queue = <<>>
  /\ level = 0
  /\ mask = [l \in Levels |-> {}]
  /\ saved = [l \in Levels |-> 0]
  /\ depth = 0
  /\ own = [d \in Depths |-> {}]
  /\ guard = "none" /\ guardLevel = 0 /\ guardDepth = 0
  /\ alarm = "off" /\ freed = 0 /\ expired = 0
  /\ exec = "no" /\ lapsed = FALSE

Next ==
  \/ Resume \/ GuardFires \/ HandlerReturned \/ Longjmp
  \/ GuardStart \/ AlarmFires \/ GuardEnd
  \/ ExecStart \/ ExecFails \/ ExecPop \/ ExecMapFails \/ ExecDone
  \/ \E e \in Signals \cup Kernel :
       \/ DropEvent(e) \/ UserHandler(e) \/ StackRefused(e)
       \/ KernelHandler(e) \/ SendEvent(e)
  \/ \E e \in Signals, b \in BOOLEAN : InhibitEvent(e, b)

Spec == Init /\ [][Next]_vars

----------------------------------------------------------------------------
(* Properties *)

\* The type of every variable: in particular m_nStateLevel stays an index of
\* m_StateLevels, however events, jumps and timeouts interleave, and although
\* pushState pushes nothing at the limit while popState pops.
TypeOK ==
  /\ queue \in Seq(Events)
  /\ level \in Levels
  /\ mask \in [Levels -> SUBSET Signals]
  /\ saved \in [Levels -> Depths]
  /\ depth \in Depths
  /\ own \in [Depths -> SUBSET Signals]
  /\ guard \in {"none", "armed", "expired"}
  /\ guardLevel \in Levels
  /\ guardDepth \in Depths \cup {Gone}
  /\ alarm \in {"off", "set", "fired"}
  /\ freed \in Nat
  /\ expired \in 0 .. MaxExpired
  /\ exec \in {"no", "wiping", "popped"}
  /\ lapsed \in BOOLEAN

\* "This enables event dispatch at any time without affecting the previous
\* state": a handler that returns resumes the code it has interrupted, as long
\* as levels and handlers are in step.
ResumesInterrupted == [][~lapsed /\ HandlerReturned => depth' = depth - 1]_vars

\* "changing the event mask from nested event handlers without affecting the
\* state of any other running handler": the code that runs has the mask it has
\* set, or was started with, as long as levels and handlers are in step.
MaskIsOwn == ~lapsed => mask[level] = own[depth]

\* A guard times out only while the code that made it is running, so that it
\* never throws away a handler that has interrupted that code.
GuardCancelsOwnCode == [][~lapsed /\ GuardFires => depth = guardDepth]_vars

\* No event is lost while it is inhibited or pinned to another level:
\* getNextEvent puts back what it passes over.  Only the guard takes its own
\* event away.
PassedOverKept ==
  [][\A e \in mask[level] \cup (IF guardLevel = level THEN {} ELSE {GuardEvent}) :
       \/ e = GuardEvent /\ GuardEnd
       \/ Cardinality({i \in 1 .. Len(queue') : queue'[i] = e})
            >= Cardinality({i \in 1 .. Len(queue) : queue[i] = e})]_vars

\* "If the event hasn't fired yet, remove and delete it": the event of a guard
\* is deleted once.
DeletedOnce == freed <= 1
=============================================================================
