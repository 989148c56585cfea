---------------------------- MODULE RequestQueue ----------------------------
(***************************************************************************)
(* RequestQueue: threads put requests in a queue and wait on the mutex of  *)
(* the request until the one worker thread has executed it.  A thread that *)
(* dies with a request pending takes it back in Thread::shutdown, for      *)
(* which it stops the worker and starts a new one.  Semaphores are atomic  *)
(* here (module Semaphore has their steps); a section under                *)
(* m_RequestQueueMutex that does not wait is one step.                     *)
(***************************************************************************)
EXTENDS Integers, Sequences, FiniteSets, Functions

CONSTANTS
  Callers,        \* threads that call addRequest and addAsyncRequest
  Helpers,        \* threads that addAsyncRequest starts, each used once
  NoThread,       \* the null pointer
  NumPriorities,  \* REQUEST_QUEUE_NUM_PRIORITIES
  Asks,           \* pairs <<thread, what it may ask for>>
  Priority,       \* the priority of each thing asked for
  Comparable,     \* what compareRequests recognises as the same request
  MaxRequests,    \* bound: Request objects at the same time
  Mortal,         \* the Asks whose caller may be killed in the middle of the call
  Unwinding,      \* the Asks whose caller may be asked to unwind in the middle
  Stale           \* callers with m_bInterrupted left over from an earlier wait

Threads == Callers \cup Helpers

Priorities == 0 .. NumPriorities - 1

Requests == 1 .. MaxRequests

\* What may be asked for: p1 to p8.
Wishes == DOMAIN Priority

ASSUME RequestQueueAssumption ==
  /\ NumPriorities \in Nat \ {0} /\ MaxRequests \in Nat
  /\ IsFiniteSet(Threads) /\ NoThread \notin Threads /\ Callers \cap Helpers = {}
  /\ Wishes # {} /\ Priority \in [Wishes -> Priorities]
  /\ Asks \subseteq Threads \X Wishes
  /\ Mortal \subseteq Asks \cap (Callers \X Wishes)
  /\ Unwinding \subseteq Asks \cap (Callers \X Wishes)
  /\ Stale \subseteq Callers

VARIABLES
  queue,        \* m_pRequestQueue: the list of each priority
  size,         \* m_RequestQueueSize
  mutex,        \* m_RequestQueueMutex: its counter
  stop,         \* m_Stop
  halted,       \* m_Halted
  worker,       \* place of the worker in work(); "none" when m_pThread is 0
  hand,         \* the request the worker is busy with
  wish,         \* of each Request: what is asked for,
  refcnt,       \*   refcnt,
  post,         \*   the counter of its mutex,
  thread,       \*   and pThread
  executed,     \* requests whose ret is set
  completed,    \* requests with bCompleted
  rejected,     \* requests with bReject
  freed,        \* memory for Request objects that is not allocated
  pc,           \* place of each thread in addRequest or Thread::shutdown
  cur,          \* the request of a thread's call, or the one its shutdown is at
  own,          \* threads with bOwnRequest
  pending,      \* m_PendingRequests of each thread
  unwind,       \* threads whose unwind state is Exit
  interrupted,  \* threads with m_bInterrupted set
  panic         \* FATAL was called

queueVars == <<queue, size, mutex>>

haltVars == <<stop, halted>>

workerVars == <<worker, hand>>

reqVars == <<wish, refcnt, post, thread, executed, completed, rejected, freed>>

threadVars == <<pc, cur, own, pending, unwind, interrupted>>

vars == <<queueVars, haltVars, workerVars, reqVars, threadVars, panic>>

\* The places of a thread in addRequest, and in Thread::shutdown.
Calling == {"add", "check", "wait", "asleep", "woken"}

Dying == {"halt", "join", "loop", "valid", "tweak", "resume", "dead"}

Init ==
  /\ queue = [p \in Priorities |-> <<>>]
  /\ size = 0 /\ mutex = 1
  /\ stop = FALSE /\ halted = FALSE
  /\ worker = "acquire" /\ hand = 0
  /\ wish = [r \in Requests |-> CHOOSE w \in Wishes : TRUE]
  /\ refcnt = [r \in Requests |-> 0]
  /\ post = [r \in Requests |-> 0]
  /\ thread = [r \in Requests |-> NoThread]
  /\ executed = {} /\ completed = {} /\ rejected = {} /\ freed = Requests
  /\ pc = [t \in Threads |-> IF t \in Callers THEN "idle" ELSE "unborn"]
  /\ cur = [t \in Threads |-> 0]
  /\ own = {}
  /\ pending = [t \in Threads |-> {}]
  /\ unwind = {}
  /\ interrupted = Stale
  /\ panic = FALSE

----------------------------------------------------------------------------
(* addRequest, addAsyncRequest and doAsync *)

Go(t, pl) == pc' = [pc EXCEPT ![t] = pl]

\* Mutant: the mutex of a new Request is not created locked.
MutantCreate(t, w) ==
  LET r == CHOOSE q \in freed : \A x \in freed : q <= x
  IN /\ freed # {} /\ <<t, w>> \in Asks
     /\ freed' = freed \ {r}
     /\ wish' = [wish EXCEPT ![r] = w]
     /\ refcnt' = [refcnt EXCEPT ![r] = 1]
     /\ post' = [post EXCEPT ![r] = 1]
     /\ thread' = [thread EXCEPT ![r] = NoThread]
     /\ executed' = executed \ {r} /\ completed' = completed \ {r}
     /\ rejected' = rejected \ {r}
     /\ cur' = [cur EXCEPT ![t] = r]
     /\ Go(t, "add")
     /\ UNCHANGED <<queueVars, haltVars, workerVars, own, pending, unwind, interrupted,
                    panic>>

\* A new Request object for a call by t.
Create(t, w) ==
  LET r == CHOOSE q \in freed : \A x \in freed : q <= x
  IN /\ freed # {} /\ <<t, w>> \in Asks
     /\ freed' = freed \ {r}
     /\ wish' = [wish EXCEPT ![r] = w]
     /\ refcnt' = [refcnt EXCEPT ![r] = 1]
     /\ post' = [post EXCEPT ![r] = 0]
     /\ thread' = [thread EXCEPT ![r] = NoThread]
     /\ executed' = executed \ {r} /\ completed' = completed \ {r}
     /\ rejected' = rejected \ {r}
     /\ cur' = [cur EXCEPT ![t] = r]
     /\ Go(t, "add")
     /\ UNCHANGED <<queueVars, haltVars, workerVars, own, pending, unwind, interrupted,
                    panic>>

AddRequest(t, w) == t \in Callers \ unwind /\ pc[t] = "idle" /\ Create(t, w)

\* The call returns at once; a detached thread makes the synchronous call.
AddAsyncRequest(t, h, w) ==
  /\ t \in Callers /\ pc[t] = "idle"
  /\ h \in Helpers /\ pc[h] = "unborn"
  /\ Create(h, w)

\* The queued request that stands for r: one that compareRequests finds equal.
Equals(r) ==
  {q \in Range(queue[Priority[wish[r]]]) : wish[q] = wish[r] /\ wish[q] \in Comparable}

\* A short section of t under m_RequestQueueMutex.  The acquire of a thread that
\* unwinds may fail; nobody looks at its result, and the release follows anyway.
Guarded(t) ==
  \/ mutex > 0 /\ mutex' = mutex
  \/ t \in unwind /\ mutex' = mutex + 1

\* No equal request is queued: r is, and its thread remembers it.
Insert(t) ==
  LET r == cur[t]
      p == Priority[wish[r]]
  IN /\ pc[t] = "add"
     /\ Equals(r) = {}
     /\ queue' = [queue EXCEPT ![p] = Append(@, r)]
     /\ own' = own \cup {t}
     /\ thread' = [thread EXCEPT ![r] = t]
     /\ pending' = [pending EXCEPT ![t] = @ \cup {r}]
     /\ size' = size + 1
     /\ Guarded(t)
     /\ Go(t, "check")
     /\ UNCHANGED <<haltVars, workerVars, wish, refcnt, post, executed, completed,
                    rejected, freed, cur, unwind, interrupted, panic>>

\* Mutant: the thread that shares a request does not count itself.
MutantShare(t) ==
  LET r == cur[t]
  IN /\ pc[t] = "add"
     /\ \E q \in Equals(r) :
          /\ cur' = [cur EXCEPT ![t] = q]
     /\ freed' = freed \cup {r}
     /\ size' = size + 1
     /\ Guarded(t)
     /\ Go(t, "check")
     /\ UNCHANGED <<queue, haltVars, workerVars, wish, refcnt, post, thread, executed,
                    completed, rejected, own, pending, unwind, interrupted, panic>>

\* An equal request is queued: the thread waits for that one.
Share(t) ==
  LET r == cur[t]
  IN /\ pc[t] = "add"
     /\ \E q \in Equals(r) :
          /\ refcnt' = [refcnt EXCEPT ![q] = @ + 1]
          /\ cur' = [cur EXCEPT ![t] = q]
     /\ freed' = freed \cup {r}
     /\ size' = size + 1
     /\ Guarded(t)
     /\ Go(t, "check")
     /\ UNCHANGED <<queue, haltVars, workerVars, wish, post, thread, executed,
                    completed, rejected, own, pending, unwind, interrupted, panic>>

\* addRequest returns; a helper is at its end then.
Leave(t) ==
  /\ Go(t, IF t \in Helpers THEN "dead" ELSE "idle")
  /\ cur' = [cur EXCEPT ![t] = 0]
  /\ own' = own \ {t}

\* --refcnt, and delete if it was the last.
Unref(r) ==
  /\ refcnt' = [refcnt EXCEPT ![r] = @ - 1]
  /\ freed' = IF refcnt[r] = 1 THEN freed \cup {r} ELSE freed

\* A look at bReject before the wait.
Check(t) ==
  /\ pc[t] = "check" /\ cur[t] \notin rejected
  /\ Go(t, "wait")
  /\ UNCHANGED <<queueVars, haltVars, workerVars, reqVars, cur, own, pending, unwind,
                 interrupted, panic>>

CheckRejected(t) ==
  /\ pc[t] = "check" /\ cur[t] \in rejected
  /\ Unref(cur[t])
  /\ Leave(t)
  /\ UNCHANGED <<queueVars, haltVars, workerVars, wish, post, thread, executed,
                 completed, rejected, pending, unwind, interrupted, panic>>

\* pReq->mutex.acquire(): tryAcquire fails and the thread goes to sleep.
Sleep(t) ==
  /\ pc[t] = "wait" /\ post[cur[t]] = 0
  /\ interrupted' = interrupted \ {t}
  /\ Go(t, "asleep")
  /\ UNCHANGED <<queueVars, haltVars, workerVars, reqVars, cur, own, pending, unwind, panic>>

Acquire(t) ==
  /\ pc[t] \in {"wait", "asleep"} /\ post[cur[t]] > 0
  /\ post' = [post EXCEPT ![cur[t]] = @ - 1]
  /\ Go(t, "woken")
  /\ UNCHANGED <<queueVars, haltVars, workerVars, wish, refcnt, thread, executed,
                 completed, rejected, freed, cur, own, pending, unwind, interrupted, panic>>

\* The thread is asked to unwind while it sleeps on one of the two mutexes.
Unwind(t) ==
  /\ pc[t] = "asleep" \/ (pc[t] = "add" /\ mutex = 0)
  /\ t \notin unwind /\ <<t, wish[cur[t]]>> \in Unwinding
  /\ unwind' = unwind \cup {t}
  /\ UNCHANGED <<queueVars, haltVars, workerVars, reqVars, pc, cur, own, pending,
                 interrupted, panic>>

\* The acquire of a thread that unwinds fails.
AcquireFails(t) ==
  /\ pc[t] = "asleep" /\ t \in unwind
  /\ Go(t, "woken")
  /\ UNCHANGED <<queueVars, haltVars, workerVars, reqVars, cur, own, pending, unwind,
                 interrupted, panic>>

\* Mutant: the mutex is not released for the next one who waits.
MutantAnswer(t) ==
  LET r == cur[t]
  IN /\ pc[t] = "woken"
     /\ r \notin rejected /\ t \notin interrupted /\ t \notin unwind
     /\ pending' = IF t \in own /\ thread[r] # NoThread
                   THEN [pending EXCEPT ![thread[r]] = @ \ {r}] ELSE pending
     /\ Unref(r)
     /\ Leave(t)
     /\ UNCHANGED <<queueVars, haltVars, workerVars, wish, post, thread, executed,
                    completed, rejected, unwind, interrupted, panic>>

\* The wait was not interrupted: the caller takes the result, and the request goes
\* to the next one who waits for it or is deleted.
Answer(t) ==
  LET r == cur[t]
  IN /\ pc[t] = "woken"
     /\ r \notin rejected /\ t \notin interrupted /\ t \notin unwind
     /\ pending' = IF t \in own /\ thread[r] # NoThread
                   THEN [pending EXCEPT ![thread[r]] = @ \ {r}] ELSE pending
     /\ Unref(r)
     /\ post' = IF refcnt[r] = 1 THEN post ELSE [post EXCEPT ![r] = @ + 1]
     /\ Leave(t)
     /\ UNCHANGED <<queueVars, haltVars, workerVars, wish, thread, executed,
                    completed, rejected, unwind, interrupted, panic>>

\* The wait was interrupted: zero is returned, and the mutex released so that the
\* worker notices.
AnswerInterrupted(t) ==
  LET r == cur[t]
  IN /\ pc[t] = "woken"
     /\ r \in rejected \/ t \in interrupted \/ t \in unwind
     /\ IF r \in rejected THEN Unref(r) ELSE UNCHANGED <<refcnt, freed>>
     /\ post' = IF r \in rejected /\ refcnt[r] = 1 THEN post
                ELSE [post EXCEPT ![r] = @ + 1]
     /\ Leave(t)
     /\ UNCHANGED <<queueVars, haltVars, workerVars, wish, thread, executed,
                    completed, rejected, pending, unwind, interrupted, panic>>

----------------------------------------------------------------------------
(* work *)

\* Mutant: the worker does not wait for m_RequestQueueSize.
MutantWorkerAcquires ==
  /\ worker = "acquire"
  /\ size' = size - 1
  /\ worker' = "check"
  /\ UNCHANGED <<queue, mutex, haltVars, hand, reqVars, threadVars, panic>>

WorkerAcquires ==
  /\ worker = "acquire" /\ size > 0
  /\ size' = size - 1
  /\ worker' = "check"
  /\ UNCHANGED <<queue, mutex, haltVars, hand, reqVars, threadVars, panic>>

WorkerChecks ==
  /\ worker = "check"
  /\ worker' = IF stop THEN "gone" ELSE "take"
  /\ UNCHANGED <<queueVars, haltVars, hand, reqVars, threadVars, panic>>

\* The most important list with a request in it; the last one if there is none.
MostImportant ==
  CHOOSE p \in Priorities :
    /\ p = NumPriorities - 1 \/ queue[p] # <<>>
    /\ \A q \in 0 .. p - 1 : queue[q] = <<>>

WorkerTakes ==
  LET p == MostImportant
  IN /\ worker = "take" /\ mutex > 0
     /\ IF queue[p] = <<>>
        THEN worker' = "acquire" /\ UNCHANGED <<queue, hand>>
        ELSE /\ hand' = Head(queue[p])
             /\ queue' = [queue EXCEPT ![p] = Tail(@)]
             /\ worker' = "run"
     /\ UNCHANGED <<size, mutex, haltVars, reqVars, threadVars, panic>>

\* A rejected request is skipped, and not deleted.
WorkerSkips ==
  /\ worker = "run" /\ hand \in rejected
  /\ worker' = "acquire" /\ hand' = 0
  /\ UNCHANGED <<queueVars, haltVars, reqVars, threadVars, panic>>

WorkerRuns ==
  /\ worker = "run" /\ hand \notin rejected
  /\ worker' = "execute"
  /\ UNCHANGED <<queueVars, haltVars, hand, reqVars, threadVars, panic>>

\* executeRequest returns.
Execute ==
  /\ worker = "execute"
  /\ executed' = executed \cup {hand}
  /\ worker' = "post"
  /\ UNCHANGED <<queueVars, haltVars, hand, wish, refcnt, post, thread, completed,
                 rejected, freed, threadVars, panic>>

\* The mutex is free: the caller does not wait any more.
WorkerAbandons ==
  /\ worker = "post" /\ post[hand] > 0
  /\ post' = [post EXCEPT ![hand] = @ - 1]
  /\ pending' = IF thread[hand] # NoThread /\ pc[thread[hand]] \notin Dying
                THEN [pending EXCEPT ![thread[hand]] = @ \ {hand}] ELSE pending
  /\ worker' = "acquire" /\ hand' = 0
  /\ UNCHANGED <<queueVars, haltVars, wish, refcnt, thread, executed, completed,
                 rejected, freed, pc, cur, own, unwind, interrupted, panic>>

WorkerFinds ==
  /\ worker = "post" /\ post[hand] = 0
  /\ worker' = "answer"
  /\ UNCHANGED <<queueVars, haltVars, hand, reqVars, threadVars, panic>>

WorkerAnswers ==
  /\ worker = "answer"
  /\ completed' = completed \cup {hand}
  /\ post' = [post EXCEPT ![hand] = @ + 1]
  /\ worker' = "acquire" /\ hand' = 0
  /\ UNCHANGED <<queueVars, haltVars, wish, refcnt, thread, executed, rejected,
                 freed, threadVars, panic>>

----------------------------------------------------------------------------
(* Thread::shutdown, with halt, isRequestValid and resume *)

\* The next pending request of a thread that is being shut down, if there is any.
NextPending(t, S) ==
  \/ S = {} /\ Go(t, "dead") /\ cur' = [cur EXCEPT ![t] = 0]
  \/ \E r \in S : Go(t, "halt") /\ cur' = [cur EXCEPT ![t] = r]

\* An event handler kills the thread in its call, or the next tick one that unwinds.
Killed(t) ==
  \/ pc[t] \in Calling /\ <<t, wish[cur[t]]>> \in Mortal
  \/ pc[t] \in Calling \cup {"idle"} /\ t \in unwind

Exit(t) ==
  /\ Killed(t)
  /\ NextPending(t, pending[t])
  /\ UNCHANGED <<queueVars, haltVars, workerVars, reqVars, own, pending, unwind,
                 interrupted, panic>>

\* It is killed in addRequest with m_RequestQueueMutex held, before its request is in
\* the list: nobody releases the mutex.
ExitHolding(t) ==
  /\ pc[t] = "add" /\ Killed(t)
  /\ mutex > 0 /\ mutex' = mutex - 1
  /\ NextPending(t, pending[t])
  /\ UNCHANGED <<queue, size, haltVars, workerVars, reqVars, own, pending, unwind,
                 interrupted, panic>>

\* Mutant: halt does not release m_RequestQueueSize.
MutantHaltStops(t) ==
  /\ pc[t] = "halt" /\ ~halted
  /\ \/ mutex > 0 /\ mutex' = mutex - 1
     \/ t \in unwind /\ mutex' = mutex
  /\ stop' = TRUE
  /\ Go(t, "join")
  /\ UNCHANGED <<queue, size, halted, workerVars, reqVars, cur, own, pending, unwind,
                 interrupted, panic>>

HaltStops(t) ==
  /\ pc[t] = "halt" /\ ~halted
  /\ \/ mutex > 0 /\ mutex' = mutex - 1
     \/ t \in unwind /\ mutex' = mutex
  /\ stop' = TRUE
  /\ size' = size + 1
  /\ Go(t, "join")
  /\ UNCHANGED <<queue, halted, workerVars, reqVars, cur, own, pending, unwind,
                 interrupted, panic>>

HaltJoins(t) ==
  /\ pc[t] = "join" /\ worker = "gone"
  /\ worker' = "none"
  /\ halted' = TRUE
  /\ mutex' = mutex + 1
  /\ Go(t, "valid")
  /\ UNCHANGED <<queue, size, stop, hand, reqVars, cur, own, pending, unwind,
                 interrupted, panic>>

\* The worker has not stopped yet, so the join sleeps.  One that unwinds, or whose
\* m_bInterrupted is left over from an earlier wait, takes every wake-up for an
\* interruption.
JoinLoops(t) ==
  /\ pc[t] = "join" /\ t \in unwind \cup interrupted /\ worker # "gone"
  /\ Go(t, "loop")
  /\ UNCHANGED <<queueVars, haltVars, workerVars, reqVars, cur, own, pending, unwind,
                 interrupted, panic>>

\* Another thread has halted the queue already.
HaltSkips(t) ==
  /\ pc[t] = "halt" /\ halted
  /\ Guarded(t)
  /\ Go(t, "valid")
  /\ UNCHANGED <<queue, size, haltVars, workerVars, reqVars, cur, own, pending, unwind,
                 interrupted, panic>>

\* isRequestValid, which does not search the list of the last priority.
Valid(r) == \E p \in Priorities \ {NumPriorities - 1} : r \in Range(queue[p])

CheckValid(t) ==
  /\ pc[t] = "valid"
  /\ Guarded(t)
  /\ IF Valid(cur[t])
     THEN Go(t, "tweak") /\ UNCHANGED panic
     ELSE panic' = TRUE /\ UNCHANGED pc
  /\ UNCHANGED <<queue, size, haltVars, workerVars, reqVars, cur, own, pending, unwind,
                 interrupted>>

\* Others wait for the request, too: they keep it.
Tweak(t) ==
  LET r == cur[t]
  IN /\ pc[t] = "tweak"
     /\ IF r \in completed /\ refcnt[r] <= 1
        THEN /\ freed' = freed \cup {r}
             /\ UNCHANGED <<refcnt, rejected, thread, post>>
        ELSE IF refcnt[r] > 1
        THEN /\ refcnt' = [refcnt EXCEPT ![r] = @ - 1]
             /\ thread' = IF thread[r] = t THEN [thread EXCEPT ![r] = NoThread] ELSE thread
             /\ UNCHANGED <<freed, rejected, post>>
        ELSE /\ rejected' = rejected \cup {r}
             /\ thread' = [thread EXCEPT ![r] = NoThread]
             /\ post' = [post EXCEPT ![r] = @ + 1]
             /\ UNCHANGED <<freed, refcnt>>
     /\ Go(t, "resume")
     /\ UNCHANGED <<queueVars, haltVars, workerVars, wish, executed, completed, cur,
                    own, pending, unwind, interrupted, panic>>

\* resume, with initialise, and on to the next request.
Resume(t) ==
  /\ pc[t] = "resume"
  /\ Guarded(t)
  /\ IF halted /\ worker = "none"
     THEN worker' = "acquire" /\ stop' = FALSE /\ halted' = FALSE
     ELSE UNCHANGED <<worker, haltVars>>
  /\ pending' = [pending EXCEPT ![t] = @ \ {cur[t]}]
  /\ NextPending(t, pending[t] \ {cur[t]})
  /\ UNCHANGED <<queue, size, hand, reqVars, own, unwind, interrupted, panic>>

----------------------------------------------------------------------------
Work ==
  \/ WorkerAcquires \/ WorkerChecks \/ WorkerTakes \/ WorkerSkips \/ WorkerRuns
  \/ Execute \/ WorkerAbandons \/ WorkerFinds \/ WorkerAnswers

CallStep(t) ==
  \/ Insert(t) \/ Share(t) \/ Check(t) \/ CheckRejected(t) \/ Sleep(t) \/ Acquire(t)
  \/ AcquireFails(t) \/ Answer(t) \/ AnswerInterrupted(t)

ShutdownStep(t) ==
  \/ HaltStops(t) \/ HaltJoins(t) \/ JoinLoops(t) \/ HaltSkips(t) \/ CheckValid(t)
  \/ Tweak(t) \/ Resume(t)

Next ==
  /\ ~panic
  /\ \/ Work
     \/ \E t \in Threads :
          CallStep(t) \/ ShutdownStep(t) \/ Unwind(t) \/ Exit(t) \/ ExitHolding(t)
     \/ \E t \in Callers, w \in Wishes : AddRequest(t, w)
     \/ \E t \in Callers, h \in Helpers, w \in Wishes : AddAsyncRequest(t, h, w)

Spec == Init /\ [][Next]_vars

(***************************************************************************)
(* The worker and the threads in their calls go on when they can.  Nothing *)
(* makes a thread call, unwind or exit.                                    *)
(***************************************************************************)
FairSpec ==
  /\ Spec
  /\ WF_vars(~panic /\ Work)
  /\ \A t \in Threads : WF_vars(~panic /\ (CallStep(t) \/ ShutdownStep(t)))

----------------------------------------------------------------------------
(* Properties *)

\* Type correctness of the queue, the requests and the threads.
TypeOK ==
  /\ queue \in [Priorities -> Seq(Requests)]
  /\ size \in Nat /\ mutex \in Nat
  /\ stop \in BOOLEAN /\ halted \in BOOLEAN /\ panic \in BOOLEAN
  /\ worker \in {"acquire", "check", "take", "run", "execute", "post", "answer",
                 "gone", "none"}
  /\ hand \in 0 .. MaxRequests
  /\ wish \in [Requests -> Wishes]
  /\ refcnt \in [Requests -> Nat] /\ post \in [Requests -> Nat]
  /\ thread \in [Requests -> Threads \cup {NoThread}]
  /\ executed \subseteq Requests /\ completed \subseteq Requests
  /\ rejected \subseteq Requests /\ freed \subseteq Requests
  /\ pc \in [Threads -> {"unborn", "idle"} \cup Calling \cup Dying]
  /\ cur \in [Threads -> 0 .. MaxRequests]
  /\ own \subseteq Threads /\ unwind \subseteq Callers /\ interrupted \subseteq Callers
  /\ pending \in [Threads -> SUBSET Requests]

Queued(r) == \E p \in Priorities : r \in Range(queue[p])

\* Waiting threads and the request they wait for.
Waiting(t) == pc[t] \in Calling \ {"add"}

\* Every queued request has a unit of m_RequestQueueSize that will make the worker
\* come for it, or the worker is on its way, whatever halt, the restart of the worker
\* and shared requests add and take: no request is stranded.
QueuedAreCounted ==
  Cardinality({r \in Requests : Queued(r)})
    <= size + (IF worker \in {"check", "take"} THEN 1 ELSE 0)

\* A request that is deleted is not in a list, not in the worker's hands, and nobody
\* waits for it or takes it back: the reference counts of shared requests are right.
NoUseAfterFree ==
  \A r \in freed :
    /\ ~Queued(r) /\ hand # r
    /\ \A t \in Threads :
         Waiting(t) \/ pc[t] \in {"halt", "join", "loop", "valid", "tweak"} => cur[t] # r

\* A call whose thread may die in it, or that may share its request with such a call.
Exposed(t, w) ==
  \E u \in Threads : /\ <<u, w>> \in Mortal \cup Unwinding
                     /\ u = t \/ w \in Comparable

InCall(t) == pc[t] \in Calling /\ ~Exposed(t, wish[cur[t]])

Phase(t) ==
  IF ~InCall(t) THEN "no" ELSE IF cur[t] \in executed THEN "served" ELSE "asked"

Service == INSTANCE RequestService
  WITH Clients <- Threads, call <- [t \in Threads |-> Phase(t)]

\* The queue implements the synchronous service it promises: a call that shares
\* no request with one that dies returns only after its request has been executed.
ImplementsService == Service!Spec

\* A thread that dies has blocked the queue: halt waits for the worker with the mutex
\* that the worker waits for, or its join never ends (the thread unwinds, or has a stale
\* m_bInterrupted), or it was killed with the mutex held.
Blocked ==
  \/ \E t \in Threads : pc[t] = "loop" \/ (pc[t] = "join" /\ worker = "take" /\ mutex = 0)
  \/ mutex = 0 /\ \A t \in Threads : pc[t] # "join"

\* Every call that shares no request with one that dies comes back, unless that one
\* has blocked the queue or FATAL has stopped the kernel: there is no other way to
\* wait for ever.
CallsReturn == \A t \in Threads : InCall(t) ~> (~InCall(t) \/ Blocked \/ panic)

\* halt returns: "We will halt as soon as we hit the mutex acquire - all good for the
\* caller of halt() to continue now."
HaltReturns == \A t \in Threads : pc[t] = "join" ~> pc[t] # "join"
=============================================================================
