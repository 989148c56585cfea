-------------------------- MODULE SchedulerProofs --------------------------
(***************************************************************************)
(* Proofs about PerProcessorScheduler, for every set of threads, every     *)
(* number of priorities and every set of events.                           *)
(*                                                                         *)
(* The lemmas about the ready queues speak of them through two notions     *)
(* only: WellFormed(rq), and InQueue(rq, t), which says that thread t is   *)
(* in the queue of its priority.  The proof that the actions preserve the  *)
(* invariant never looks at a place in a queue.                            *)
(***************************************************************************)
EXTENDS PerProcessorScheduler, SequenceLemmas

WellFormed(rq) ==
  /\ rq \in [Priorities -> Seq(Threads)]
  /\ \A i \in Priorities : \A j, k \in 1 .. Len(rq[i]) :
       /\ Priority[rq[i][j]] = i
       /\ rq[i][j] = rq[i][k] => j = k

InQueue(rq, t) == Queued(rq[Priority[t]], t)

----------------------------------------------------------------------------
(* RoundRobin *)

\* threadStatusChanged adds the thread, adds no other, and keeps every queue
\* free of duplicates.
LEMMA EnqueueLemma ==
  ASSUME NEW rq, WellFormed(rq), NEW t \in Threads
  PROVE  /\ WellFormed(Enqueue(rq, t))
         /\ \A u \in Threads :
              InQueue(Enqueue(rq, t), u) <=> InQueue(rq, u) \/ u = t
<1>0. Priority[t] \in Priorities
  BY PriorityAssumption
<1>1. CASE Queued(rq[Priority[t]], t)
  BY <1>1 DEF Enqueue, InQueue
<1>2. CASE ~Queued(rq[Priority[t]], t)
  <2> DEFINE p == Priority[t]
             q == rq[p]
             r == Append(q, t)
  <2>1. Enqueue(rq, t) = [rq EXCEPT ![p] = r]
    BY <1>2 DEF Enqueue
  <2>2. q \in Seq(Threads)
    BY <1>0 DEF WellFormed
  <2>3. /\ r \in Seq(Threads) /\ Len(r) = Len(q) + 1
        /\ \A j \in 1 .. Len(q) : r[j] = q[j]
        /\ r[Len(q) + 1] = t
    BY <2>2
  <2>4. WellFormed(Enqueue(rq, t))
    <3>1. \A j, k \in 1 .. Len(r) : Priority[r[j]] = p /\ (r[j] = r[k] => j = k)
      BY <1>0, <1>2, <2>2, <2>3 DEF WellFormed, Queued
    <3> QED
      BY <1>0, <2>1, <2>3, <3>1 DEF WellFormed
  <2>5. ASSUME NEW u \in Threads
        PROVE  InQueue(Enqueue(rq, t), u) <=> InQueue(rq, u) \/ u = t
    <3>0. Priority[u] \in Priorities
      BY PriorityAssumption
    <3>1. CASE Priority[u] = p
      <4>1. Enqueue(rq, t)[Priority[u]] = r
        BY <1>0, <2>1, <3>1 DEF WellFormed
      <4>2. Queued(r, u) <=> Queued(q, u) \/ u = t
        BY <2>2, <2>3 DEF Queued
      <4> QED
        BY <3>1, <4>1, <4>2 DEF InQueue
    <3>2. CASE Priority[u] # p
      <4>1. Enqueue(rq, t)[Priority[u]] = rq[Priority[u]]
        BY <1>0, <3>0, <2>1, <3>2 DEF WellFormed
      <4> QED
        BY <3>2, <4>1 DEF InQueue
    <3> QED
      BY <3>1, <3>2
  <2> QED
    BY <2>4, <2>5
<1> QED
  BY <1>1, <1>2

\* getNext returns a thread that was queued, other than the current one; the
\* only threads it takes off the queues are that one and the current one.
LEMMA GetNextLemma ==
  ASSUME WellFormed(ready), NEW c \in Threads
  PROVE  /\ WellFormed(AfterGetNext(c))
         /\ GetNext(c) # NoThread =>
              GetNext(c) \in Threads /\ GetNext(c) # c /\ InQueue(ready, GetNext(c))
         /\ \A u \in Threads :
              /\ InQueue(AfterGetNext(c), u) => InQueue(ready, u)
              /\ InQueue(ready, u) /\ u \notin {c, GetNext(c)}
                   => InQueue(AfterGetNext(c), u)
<1> DEFINE popped(i) == ready[i] # <<>> /\ \A j \in Candidates(c) : i <= j
           after == AfterGetNext(c)
<1>1. ASSUME NEW i \in Priorities
      PROVE  /\ ready[i] \in Seq(Threads)
             /\ popped(i) => after[i] = Tail(ready[i])
             /\ ~popped(i) => after[i] = ready[i]
  BY DEF WellFormed, AfterGetNext
<1>2. ASSUME NEW i \in Priorities, popped(i)
      PROVE  /\ after[i] \in Seq(Threads)
             /\ Len(after[i]) = Len(ready[i]) - 1 /\ Len(ready[i]) \in Nat \ {0}
             /\ \A j \in 1 .. Len(after[i]) : after[i][j] = ready[i][j + 1]
             /\ Head(ready[i]) = ready[i][1]
  <2>1. ready[i] \in Seq(Threads) /\ ready[i] # <<>> /\ after[i] = Tail(ready[i])
    BY <1>1, <1>2
  <2> HIDE DEF after
  <2> QED
    BY <2>1, TailLemma
<1>3. ASSUME NEW i \in Priorities, popped(i)
      PROVE  Head(ready[i]) \in {c, GetNext(c)}
  <2>1. CASE i \in Candidates(c)
    <3>1. i \in Stop(c)
      BY <1>3, <2>1 DEF Stop
    <3>2. \A k \in Stop(c) : k = i
      BY <1>3, <2>1, PriorityAssumption DEF Stop, Candidates, Priorities
    <3> QED
      BY <3>1, <3>2 DEF GetNext
  <2>2. CASE i \notin Candidates(c)
    BY <1>3, <2>2 DEF Candidates
  <2> QED
    BY <2>1, <2>2
<1>4. WellFormed(after)
  <2>1. ASSUME NEW i \in Priorities, NEW j \in 1 .. Len(after[i]),
               NEW k \in 1 .. Len(after[i])
        PROVE  Priority[after[i][j]] = i /\ (after[i][j] = after[i][k] => j = k)
    <3>1. CASE popped(i)
      <4> HIDE DEF after
      <4>1. /\ Len(after[i]) = Len(ready[i]) - 1 /\ Len(ready[i]) \in Nat \ {0}
            /\ \A m \in 1 .. Len(after[i]) : after[i][m] = ready[i][m + 1]
        BY <1>2, <3>1
      <4>2. j + 1 \in 1 .. Len(ready[i]) /\ k + 1 \in 1 .. Len(ready[i])
        BY <4>1
      <4>3. /\ Priority[ready[i][j + 1]] = i
            /\ ready[i][j + 1] = ready[i][k + 1] => j + 1 = k + 1
        BY <4>2 DEF WellFormed
      <4> QED
        BY <4>1, <4>3
    <3>2. CASE ~popped(i)
      BY <1>1, <3>2 DEF WellFormed
    <3> QED
      BY <3>1, <3>2
  <2>2. after \in [Priorities -> Seq(Threads)]
    <3>1. after = [i \in Priorities |-> after[i]]
      BY DEF AfterGetNext
    <3>2. \A i \in Priorities : after[i] \in Seq(Threads)
      BY <1>1, <1>2
    <3> QED
      BY <3>1, <3>2
  <2> QED
    BY <2>1, <2>2 DEF WellFormed
<1>5. ASSUME GetNext(c) # NoThread
      PROVE  GetNext(c) \in Threads /\ GetNext(c) # c /\ InQueue(ready, GetNext(c))
  <2> DEFINE s == CHOOSE i \in Stop(c) : TRUE
  <2>1. s \in Candidates(c) /\ GetNext(c) = Head(ready[s])
    BY <1>5 DEF GetNext, Stop
  <2>2. s \in Priorities /\ ready[s] # <<>> /\ Head(ready[s]) # c
    BY <2>1 DEF Candidates
  <2>3. ready[s] \in Seq(Threads)
    BY <2>2, <1>1
  <2>4. 1 \in 1 .. Len(ready[s]) /\ Head(ready[s]) = ready[s][1] /\ ready[s][1] \in Threads
    BY <2>2, <2>3
  <2>5. Priority[ready[s][1]] = s
    BY <2>2, <2>4 DEF WellFormed
  <2> HIDE DEF s
  <2> QED
    BY <2>1, <2>2, <2>4, <2>5 DEF InQueue, Queued
<1>6. ASSUME NEW u \in Threads
      PROVE  /\ InQueue(after, u) => InQueue(ready, u)
             /\ InQueue(ready, u) /\ u \notin {c, GetNext(c)} => InQueue(after, u)
  <2> DEFINE p == Priority[u]
  <2>0. p \in Priorities
    BY PriorityAssumption
  <2>1. CASE popped(p)
    <3> HIDE DEF p, after
    <3>1. /\ Len(after[p]) = Len(ready[p]) - 1 /\ Len(ready[p]) \in Nat \ {0}
          /\ \A j \in 1 .. Len(after[p]) : after[p][j] = ready[p][j + 1]
          /\ ready[p][1] \in {c, GetNext(c)}
      BY <1>2, <1>3, <2>0, <2>1
    <3>2. Queued(after[p], u) => Queued(ready[p], u)
      BY <3>1 DEF Queued
    <3>3. ASSUME Queued(ready[p], u), u \notin {c, GetNext(c)}
          PROVE  Queued(after[p], u)
      <4>1. PICK j \in 1 .. Len(ready[p]) : ready[p][j] = u
        BY <3>3 DEF Queued
      <4>2. j # 1
        BY <4>1, <3>1, <3>3
      <4>3. j - 1 \in 1 .. Len(after[p]) /\ after[p][j - 1] = ready[p][(j - 1) + 1]
        BY <4>2, <3>1
      <4> QED
        BY <4>1, <4>3 DEF Queued
    <3> QED
      BY <3>2, <3>3 DEF InQueue, p
  <2>2. CASE ~popped(p)
    BY <1>1, <2>0, <2>2 DEF InQueue
  <2> QED
    BY <2>1, <2>2
<1> QED
  BY <1>4, <1>5, <1>6

\* The thread that getNext returns is in no queue any more.
LEMMA NextIsTaken ==
  ASSUME WellFormed(ready), NEW c \in Threads, GetNext(c) # NoThread
  PROVE  ~InQueue(AfterGetNext(c), GetNext(c))
<1> DEFINE s == CHOOSE i \in Stop(c) : TRUE
<1>1. s \in Stop(c) /\ GetNext(c) = Head(ready[s])
  BY DEF GetNext
<1>2. s \in Priorities /\ ready[s] # <<>> /\ \A j \in Candidates(c) : s <= j
  BY <1>1 DEF Stop, Candidates
<1>3. AfterGetNext(c)[s] = Tail(ready[s]) /\ ready[s] \in Seq(Threads)
  BY <1>2 DEF AfterGetNext, WellFormed
<1> HIDE DEF s
<1>4. /\ Len(ready[s]) \in Nat \ {0} /\ Len(Tail(ready[s])) = Len(ready[s]) - 1
      /\ \A j \in 1 .. Len(ready[s]) - 1 : Tail(ready[s])[j] = ready[s][j + 1]
      /\ GetNext(c) = ready[s][1]
  BY <1>1, <1>2, <1>3, TailLemma
<1>5. Priority[GetNext(c)] = s
  BY <1>2, <1>4 DEF WellFormed
<1>6. ASSUME NEW j \in 1 .. Len(ready[s]) - 1
      PROVE  ready[s][j + 1] # ready[s][1]
  <2>1. 1 \in 1 .. Len(ready[s]) /\ j + 1 \in 1 .. Len(ready[s]) /\ j + 1 # 1
    BY <1>4
  <2> QED
    BY <1>2, <2>1 DEF WellFormed
<1>7. ~Queued(Tail(ready[s]), ready[s][1])
  BY <1>4, <1>6 DEF Queued
<1>8. InQueue(AfterGetNext(c), GetNext(c))
        <=> Queued(AfterGetNext(c)[Priority[GetNext(c)]], GetNext(c))
  BY DEF InQueue
<1> QED
  BY <1>3, <1>4, <1>5, <1>7, <1>8

\* removeThread takes the thread off the queues, and no other.
LEMMA DequeueLemma ==
  ASSUME NEW rq, WellFormed(rq), NEW t \in Threads
  PROVE  /\ WellFormed(Dequeue(rq, t))
         /\ \A u \in Threads :
              InQueue(Dequeue(rq, t), u) <=> InQueue(rq, u) /\ u # t
<1> DEFINE d == Dequeue(rq, t)
<1>1. ASSUME NEW i \in Priorities, ~Queued(rq[i], t)
      PROVE  d[i] = rq[i]
  BY <1>1 DEF Dequeue
<1>2. ASSUME NEW i \in Priorities, Queued(rq[i], t)
      PROVE  \E k \in 1 .. Len(rq[i]) :
               /\ rq[i][k] = t
               /\ d[i] \in Seq(Threads) /\ Len(d[i]) = Len(rq[i]) - 1
               /\ \A j \in 1 .. Len(d[i]) :
                    d[i][j] = IF j < k THEN rq[i][j] ELSE rq[i][j + 1]
  <2> DEFINE q == rq[i]
             k == CHOOSE j \in 1 .. Len(q) : q[j] = t
             l == SubSeq(q, 1, k - 1)
             r == SubSeq(q, k + 1, Len(q))
  <2>1. q \in Seq(Threads) /\ Len(q) \in Nat
    BY DEF WellFormed
  <2>2. k \in 1 .. Len(q) /\ q[k] = t
    BY <1>2 DEF Queued
  <2>3. d[i] = l \o r
    BY <1>2 DEF Dequeue
  <2> HIDE DEF k, d
  <2>4. /\ l \o r \in Seq(Threads) /\ Len(l \o r) = Len(q) - 1
        /\ \A j \in 1 .. Len(q) - 1 :
             (l \o r)[j] = IF j < k THEN q[j] ELSE q[j + 1]
    BY <2>1, <2>2, RemoveAtLemma
  <2> HIDE DEF l, r
  <2> QED
    BY <2>2, <2>3, <2>4
<1>3. WellFormed(d)
  <2>1. ASSUME NEW i \in Priorities
        PROVE  /\ d[i] \in Seq(Threads)
               /\ \A j, k \in 1 .. Len(d[i]) :
                    Priority[d[i][j]] = i /\ (d[i][j] = d[i][k] => j = k)
    <3>0. /\ rq[i] \in Seq(Threads) /\ Len(rq[i]) \in Nat
          /\ \A j, k \in 1 .. Len(rq[i]) :
               Priority[rq[i][j]] = i /\ (rq[i][j] = rq[i][k] => j = k)
      BY DEF WellFormed
    <3> HIDE DEF d
    <3>1. CASE ~Queued(rq[i], t)
      BY <1>1, <3>0, <3>1
    <3>2. CASE Queued(rq[i], t)
      <4>1. PICK k \in 1 .. Len(rq[i]) :
               /\ rq[i][k] = t
               /\ d[i] \in Seq(Threads) /\ Len(d[i]) = Len(rq[i]) - 1
               /\ \A j \in 1 .. Len(d[i]) :
                    d[i][j] = IF j < k THEN rq[i][j] ELSE rq[i][j + 1]
        BY <1>2, <3>2
      <4> DEFINE old(j) == IF j < k THEN j ELSE j + 1
      <4>2. ASSUME NEW j \in 1 .. Len(d[i])
            PROVE  old(j) \in 1 .. Len(rq[i]) /\ d[i][j] = rq[i][old(j)]
        <5>1. Len(d[i]) = Len(rq[i]) - 1 /\ j \in Nat /\ j >= 1 /\ j <= Len(rq[i]) - 1
          BY <4>1, <3>0
        <5>2. CASE j < k
          BY <4>1, <3>0, <5>1, <5>2
        <5>3. CASE j >= k
          BY <4>1, <3>0, <5>1, <5>3
        <5> QED
          BY <5>1, <5>2, <5>3
      <4>3. \A j, m \in 1 .. Len(d[i]) : old(j) = old(m) => j = m
        BY <3>0
      <4> HIDE DEF old
      <4>4. ASSUME NEW j \in 1 .. Len(d[i]), NEW m \in 1 .. Len(d[i])
            PROVE  Priority[d[i][j]] = i /\ (d[i][j] = d[i][m] => j = m)
        <5>1. /\ old(j) \in 1 .. Len(rq[i]) /\ d[i][j] = rq[i][old(j)]
              /\ old(m) \in 1 .. Len(rq[i]) /\ d[i][m] = rq[i][old(m)]
          BY <4>2
        <5>2. /\ Priority[rq[i][old(j)]] = i
              /\ rq[i][old(j)] = rq[i][old(m)] => old(j) = old(m)
          BY <3>0, <5>1
        <5> QED
          BY <4>3, <5>1, <5>2
      <4> QED
        BY <4>1, <4>4
    <3> QED
      BY <3>1, <3>2
  <2>2. d = [i \in Priorities |-> d[i]]
    BY DEF Dequeue
  <2> HIDE DEF d
  <2>3. d \in [Priorities -> Seq(Threads)]
    BY <2>1, <2>2
  <2> QED
    BY <2>1, <2>3 DEF WellFormed
<1>4. ASSUME NEW u \in Threads
      PROVE  InQueue(d, u) <=> InQueue(rq, u) /\ u # t
  <2> DEFINE p == Priority[u]
  <2>0. p \in Priorities /\ rq[p] \in Seq(Threads) /\ Len(rq[p]) \in Nat
    BY PriorityAssumption DEF WellFormed
  <2> HIDE DEF p, d
  <2>1. CASE ~Queued(rq[p], t)
    BY <1>1, <2>0, <2>1 DEF InQueue, p
  <2>2. CASE Queued(rq[p], t)
    <3>1. PICK k \in 1 .. Len(rq[p]) :
             /\ rq[p][k] = t
             /\ d[p] \in Seq(Threads) /\ Len(d[p]) = Len(rq[p]) - 1
             /\ \A j \in 1 .. Len(d[p]) :
                  d[p][j] = IF j < k THEN rq[p][j] ELSE rq[p][j + 1]
      BY <1>2, <2>0, <2>2
    <3>2. \A j \in 1 .. Len(rq[p]) : rq[p][j] = t => j = k
      BY <2>0, <3>1 DEF WellFormed
    <3>3. ASSUME NEW j \in 1 .. Len(d[p]), d[p][j] = u
          PROVE  Queued(rq[p], u) /\ u # t
      BY <2>0, <3>1, <3>2, <3>3 DEF Queued
    <3>4. ASSUME NEW j \in 1 .. Len(rq[p]), rq[p][j] = u, u # t
          PROVE  Queued(d[p], u)
      <4>1. CASE j < k
        <5>1. j \in 1 .. Len(d[p]) /\ d[p][j] = u
          BY <2>0, <3>1, <3>4, <4>1
        <5> QED
          BY <5>1 DEF Queued
      <4>2. CASE j > k
        <5>1. j - 1 \in 1 .. Len(d[p]) /\ d[p][j - 1] = u
          BY <2>0, <3>1, <3>4, <4>2
        <5> QED
          BY <5>1 DEF Queued
      <4> QED
        BY <2>0, <3>1, <3>4, <4>1, <4>2
    <3> QED
      BY <3>3, <3>4 DEF InQueue, Queued, p
  <2> QED
    BY <2>1, <2>2
<1> QED
  BY <1>3, <1>4

----------------------------------------------------------------------------
(* Events *)

\* checkEventState leaves queues of events and Boolean flags.
LEMMA CheckEventStateLemma ==
  ASSUME SchedTypeOK, NEW t \in Threads, NEW intr \in [Threads -> BOOLEAN]
  PROVE  /\ CheckEventState(t, intr) =>
              eventQ' \in [Threads -> Seq(Events)] /\ interrupted' \in [Threads -> BOOLEAN]
         /\ RestoreState(t, intr) =>
              eventQ' \in [Threads -> Seq(Events)] /\ interrupted' \in [Threads -> BOOLEAN]
<1>1. EventsAfter(t) \in Seq(Events)
  <2>1. eventQ[t] \in Seq(Events)
    BY DEF SchedTypeOK
  <2>2. CASE FirstDeliverable(t) = {}
    BY <2>1, <2>2 DEF EventsAfter
  <2>3. CASE FirstDeliverable(t) # {}
    <3> DEFINE k == CHOOSE i \in FirstDeliverable(t) : TRUE
    <3>1. k \in 1 .. Len(eventQ[t])
      BY <2>3 DEF FirstDeliverable, Deliverable
    <3>2. EventsAfter(t) =
            SubSeq(eventQ[t], k + 1, Len(eventQ[t])) \o SubSeq(eventQ[t], 1, k - 1)
      BY <2>3 DEF EventsAfter
    <3> HIDE DEF k
    <3>3. /\ SubSeq(eventQ[t], k + 1, Len(eventQ[t])) \in Seq(Events)
          /\ SubSeq(eventQ[t], 1, k - 1) \in Seq(Events)
      BY <2>1, <3>1
    <3> QED
      BY <3>2, <3>3, ConcatProperties
  <2> QED
    BY <2>2, <2>3
<1>2. ASSUME CheckEventState(t, intr)
      PROVE  eventQ' \in [Threads -> Seq(Events)] /\ interrupted' \in [Threads -> BOOLEAN]
  <2>1. eventQ' \in [Threads -> Seq(Events)]
    BY <1>1, <1>2 DEF CheckEventState, SchedTypeOK
  <2>2. interrupted' \in [Threads -> BOOLEAN]
    <3> DEFINE f == intr[t] \/ \E i \in FirstDeliverable(t) : eventQ[t][i] = Interrupt
    <3>1. f \in BOOLEAN
      BY DEF f
    <3>2. interrupted' = [intr EXCEPT ![t] = f]
      BY <1>2 DEF CheckEventState
    <3> HIDE DEF f
    <3> QED
      BY <3>1, <3>2
  <2> QED
    BY <2>1, <2>2
<1> QED
  BY <1>2 DEF RestoreState, SchedTypeOK

\* cullEvent leaves a queue of events.
LEMMA CullLemma ==
  ASSUME SchedTypeOK, NEW e \in Events, CullEvent(e)
  PROVE  \E r \in Seq(Events) : eventQ' = [eventQ EXCEPT ![current] = r]
<1> DEFINE q == eventQ[current]
           kept == {i \in 1 .. Len(q) : q[i] # e}
<1>1. q \in Seq(Events) /\ Len(q) \in Nat
  BY DEF SchedTypeOK
<1>2. PICK n \in 0 .. Len(q) : \E f \in [1 .. n -> kept] :
        eventQ' = [eventQ EXCEPT ![current] = [i \in 1 .. n |-> q[f[i]]]]
  BY DEF CullEvent
<1>3. PICK f \in [1 .. n -> kept] :
        eventQ' = [eventQ EXCEPT ![current] = [i \in 1 .. n |-> q[f[i]]]]
  BY <1>2
<1>4. n \in Nat /\ \A i \in 1 .. n : f[i] \in 1 .. Len(q) /\ q[f[i]] \in Events
  BY <1>1
<1>5. [i \in 1 .. n |-> q[f[i]]] \in Seq(Events)
  BY <1>4, IsASeq
<1> QED
  BY <1>3, <1>5

----------------------------------------------------------------------------
(* The invariant *)

\* The inductive invariant.  To the properties it adds that the current and
\* the idle thread exist: the thread that schedule() puts back into a ready
\* queue, and the one it falls back to, are thread objects.
SchedInv ==
  /\ SchedTypeOK
  /\ QueuedOnce
  /\ NoDeletedQueued
  /\ ReadyIsQueued
  /\ CurrentIsRunning
  /\ Exists(current)
  /\ life[Idle] = "live"

\* The same invariant, in terms of WellFormed and InQueue.
QueueInv ==
  /\ SchedTypeOK
  /\ WellFormed(ready)
  /\ \A t \in Threads : InQueue(ready, t) => t # Idle /\ Exists(t)
  /\ \A t \in Threads : status[t] = "Ready" /\ Exists(t) => InQueue(ready, t)
  /\ CurrentIsRunning
  /\ Exists(current)
  /\ life[Idle] = "live"

\* The two forms of the invariant say the same of the ready queues.
LEMMA QueueInvIsSchedInv == QueueInv <=> SchedInv
<1>1. ASSUME SchedTypeOK
      PROVE  WellFormed(ready) <=> QueuedOnce
  BY <1>1 DEF SchedTypeOK, WellFormed, QueuedOnce
<1>2. ASSUME SchedTypeOK, WellFormed(ready)
      PROVE  NoDeletedQueued <=>
               \A t \in Threads : InQueue(ready, t) => t # Idle /\ Exists(t)
  <2>1. ASSUME NoDeletedQueued, NEW t \in Threads, InQueue(ready, t)
        PROVE  t # Idle /\ Exists(t)
    BY <2>1, PriorityAssumption DEF NoDeletedQueued, InQueue, Queued
  <2>2. ASSUME \A t \in Threads : InQueue(ready, t) => t # Idle /\ Exists(t),
               NEW i \in Priorities, NEW j \in 1 .. Len(ready[i])
        PROVE  ready[i][j] # Idle /\ Exists(ready[i][j])
    <3>1. ready[i] \in Seq(Threads)
      BY <1>2 DEF SchedTypeOK
    <3>2. ready[i][j] \in Threads
      BY <3>1
    <3>3. Priority[ready[i][j]] = i
      BY <1>2 DEF WellFormed
    <3>4. InQueue(ready, ready[i][j])
      BY <3>3 DEF InQueue, Queued
    <3> QED
      BY <2>2, <3>2, <3>4
  <2> QED
    BY <2>1, <2>2 DEF NoDeletedQueued
<1> QED
  BY <1>1, <1>2 DEF QueueInv, SchedInv, ReadyIsQueued, InQueue

\* What every way through schedule() establishes, before life changes.
Scheduled ==
  /\ status' \in [Threads -> Statuses]
  /\ current' \in Threads
  /\ frame' \in [Threads -> {"new", "schedule", "addThread"}]
  /\ eventQ' \in [Threads -> Seq(Events)]
  /\ interrupted' \in [Threads -> BOOLEAN]
  /\ WellFormed(ready')
  /\ \A t \in Threads : InQueue(ready', t) => t # Idle /\ Exists(t)
  /\ \A t \in Threads : status'[t] = "Ready" /\ Exists(t) => InQueue(ready', t)
  /\ Exists(current')
  /\ status'[current'] = "Running"
       \/ (status'[current] = status[current] /\ current' = current)

\* A switch to an existing thread n keeps every Ready thread queued, if the
\* only threads taken off the queues before it are n and the current one.
LEMMA SwitchLemma ==
  ASSUME QueueInv, NEW n \in Threads, Exists(n), NEW nextStatus \in Statuses,
         NEW popped, WellFormed(popped), NEW intr \in [Threads -> BOOLEAN],
         \A u \in Threads :
           /\ InQueue(popped, u) => InQueue(ready, u)
           /\ InQueue(ready, u) /\ u \notin {current, n} => InQueue(popped, u),
         Switch(n, nextStatus, popped, intr)
  PROVE  Scheduled
<1> DEFINE left == IF current = Idle THEN status
                   ELSE [status EXCEPT ![current] = nextStatus]
<1>1. /\ current \in Threads /\ status \in [Threads -> Statuses]
      /\ frame \in [Threads -> {"new", "schedule", "addThread"}]
  BY DEF QueueInv, SchedTypeOK
<1>2. left \in [Threads -> Statuses] /\ status' = [left EXCEPT ![n] = "Running"]
  BY <1>1 DEF Switch
<1>3. status' \in [Threads -> Statuses] /\ status'[n] = "Running"
  BY <1>2 DEF Statuses
<1>4. current' = n /\ frame' \in [Threads -> {"new", "schedule", "addThread"}]
  BY <1>1 DEF Switch
<1>5. eventQ' \in [Threads -> Seq(Events)] /\ interrupted' \in [Threads -> BOOLEAN]
  BY CheckEventStateLemma DEF Switch, QueueInv
<1>6. CASE current # Idle /\ nextStatus = "Ready"
  <2>1. ready' = Enqueue(popped, current)
    BY <1>6 DEF Switch
  <2>2. /\ WellFormed(ready')
        /\ \A u \in Threads : InQueue(ready', u) <=> InQueue(popped, u) \/ u = current
    BY <1>1, <2>1, EnqueueLemma
  <2>3. \A t \in Threads : InQueue(ready', t) => t # Idle /\ Exists(t)
    BY <1>6, <2>2 DEF QueueInv
  <2>4. ASSUME NEW t \in Threads, status'[t] = "Ready", Exists(t)
        PROVE  InQueue(ready', t)
    <3>1. t # n
      BY <1>3, <2>4
    <3>2. t # current => status[t] = "Ready"
      BY <1>1, <1>2, <2>4, <3>1
    <3> QED
      BY <2>2, <2>4, <3>1, <3>2 DEF QueueInv
  <2> QED
    BY <1>3, <1>4, <1>5, <2>2, <2>3, <2>4 DEF Scheduled
<1>7. CASE ~(current # Idle /\ nextStatus = "Ready")
  <2>1. ready' = popped
    BY <1>7 DEF Switch
  <2>3. \A t \in Threads : InQueue(ready', t) => t # Idle /\ Exists(t)
    BY <2>1 DEF QueueInv
  <2>4. ASSUME NEW t \in Threads, status'[t] = "Ready", Exists(t)
        PROVE  InQueue(ready', t)
    <3>1. t # n
      BY <1>3, <2>4
    <3>2. left[t] = "Ready"
      BY <1>1, <1>2, <2>4, <3>1
    <3>3. t # current
      BY <1>1, <1>7, <3>2 DEF QueueInv, CurrentIsRunning
    <3>4. status[t] = "Ready"
      BY <1>1, <3>2, <3>3
    <3> QED
      BY <2>1, <2>4, <3>1, <3>3, <3>4 DEF QueueInv
  <2> QED
    BY <1>3, <1>4, <1>5, <2>1, <2>3, <2>4 DEF Scheduled
<1> QED
  BY <1>6, <1>7

\* schedule() called with any status by any thread.
LEMMA ScheduleLemma ==
  ASSUME QueueInv, NEW nextStatus \in Statuses,
         NEW intr \in [Threads -> BOOLEAN], Schedule(nextStatus, intr)
  PROVE  Scheduled
<1>1. WellFormed(ready) /\ current \in Threads /\ Idle \in Threads
  BY ThreadsAssumption DEF QueueInv, SchedTypeOK
<1> DEFINE after == AfterGetNext(current)
           n == GetNext(current)
<1>2. /\ WellFormed(after)
      /\ n # NoThread => n \in Threads /\ n # current /\ InQueue(ready, n)
      /\ \A u \in Threads :
           /\ InQueue(after, u) => InQueue(ready, u)
           /\ InQueue(ready, u) /\ u \notin {current, n} => InQueue(after, u)
  BY <1>1, GetNextLemma
<1> HIDE DEF after, n
<1>3. CASE ScheduleReturns(intr)
  <2>1. /\ n = NoThread /\ ready' = after /\ interrupted' = intr
        /\ status' = status /\ current' = current /\ frame' = frame /\ eventQ' = eventQ
    BY <1>3 DEF ScheduleReturns, after, n
  <2>2. status[current] # "Ready"
    BY DEF QueueInv, CurrentIsRunning
  <2>3. ASSUME NEW t \in Threads, status'[t] = "Ready", Exists(t)
        PROVE  InQueue(ready', t)
    <3>1. t # current /\ t # NoThread /\ InQueue(ready, t)
      BY <2>1, <2>2, <2>3, ThreadsAssumption DEF QueueInv
    <3> QED
      BY <1>2, <2>1, <3>1
  <2>4. \A t \in Threads : InQueue(ready', t) => t # Idle /\ Exists(t)
    BY <1>2, <2>1 DEF QueueInv
  <2> QED
    BY <1>2, <2>1, <2>3, <2>4 DEF Scheduled, QueueInv, SchedTypeOK
<1>4. CASE n # NoThread /\ Switch(n, nextStatus, after, intr)
  <2>1. n \in Threads /\ Exists(n)
    BY <1>2, <1>4 DEF QueueInv
  <2> QED
    BY <1>2, <1>4, <2>1, SwitchLemma
<1>5. CASE n = NoThread /\ Switch(Idle, nextStatus, after, intr)
  <2>1. Exists(Idle)
    BY DEF QueueInv, Exists
  <2>2. \A u \in Threads : InQueue(ready, u) /\ u \notin {current, Idle} => InQueue(after, u)
    BY <1>2, <1>5, ThreadsAssumption
  <2> QED
    BY <1>1, <1>2, <1>5, <2>1, <2>2, SwitchLemma
<1> QED
  BY <1>3, <1>4, <1>5 DEF Schedule, after, n

\* schedule(Zombie) that wakes a waiter between the choice of the next thread and
\* the switch: that thread may then run and be in a ready queue.
LEMMA NotifyingSwitchLemma ==
  ASSUME QueueInv, current # Idle, NEW w \in Threads, NotifyingSwitch(w)
  PROVE  Scheduled
<1> DEFINE g == GetNext(current)
           n == IF g = NoThread THEN Idle ELSE g
           after == AfterGetNext(current)
<1>1. /\ WellFormed(ready) /\ current \in Threads /\ Idle \in Threads
      /\ status \in [Threads -> Statuses] /\ interrupted \in [Threads -> BOOLEAN]
      /\ frame \in [Threads -> {"new", "schedule", "addThread"}]
      /\ {"Zombie", "Ready", "Running"} \subseteq Statuses
  BY ThreadsAssumption DEF QueueInv, SchedTypeOK, Statuses
<1>2. /\ WellFormed(after)
      /\ g # NoThread => g \in Threads /\ g # current /\ InQueue(ready, g)
      /\ \A u \in Threads :
           /\ InQueue(after, u) => InQueue(ready, u)
           /\ InQueue(ready, u) /\ u \notin {current, g} => InQueue(after, u)
  BY <1>1, GetNextLemma
<1>3. /\ Exists(w) /\ w # Idle
      /\ status' = [status EXCEPT ![current] = "Zombie", ![w] = "Ready", ![n] = "Running"]
      /\ ready' = Enqueue(after, w) /\ current' = n
      /\ frame' = [frame EXCEPT ![current] = "schedule"]
      /\ RestoreState(n, interrupted)
  BY DEF NotifyingSwitch
<1> HIDE DEF after, g
<1>4. n \in Threads /\ Exists(n)
  BY <1>1, <1>2 DEF QueueInv, Exists
<1>5. eventQ' \in [Threads -> Seq(Events)] /\ interrupted' \in [Threads -> BOOLEAN]
  BY <1>1, <1>3, <1>4, CheckEventStateLemma DEF QueueInv
<1>6. /\ WellFormed(ready')
      /\ \A u \in Threads : InQueue(ready', u) <=> InQueue(after, u) \/ u = w
  BY <1>2, <1>3, EnqueueLemma
<1>7. \A t \in Threads : InQueue(ready', t) => t # Idle /\ Exists(t)
  BY <1>2, <1>3, <1>6 DEF QueueInv
<1>8. ASSUME NEW t \in Threads, status'[t] = "Ready", Exists(t)
      PROVE  InQueue(ready', t)
  <2>1. t = w \/ (t \notin {current, n} /\ status[t] = "Ready")
    BY <1>1, <1>3, <1>4, <1>8
  <2>2. t = g => t = n
    BY ThreadsAssumption
  <2> QED
    BY <1>2, <1>6, <1>8, <2>1, <2>2 DEF QueueInv
<1>9. /\ status' \in [Threads -> Statuses] /\ status'[n] = "Running"
      /\ frame' \in [Threads -> {"new", "schedule", "addThread"}]
  BY <1>1, <1>3, <1>4
<1> QED
  BY <1>3, <1>4, <1>5, <1>6, <1>7, <1>8, <1>9 DEF Scheduled

\* schedule() followed by a change of life that makes no thread come into
\* being or go away keeps the invariant.
LEMMA ScheduledLemma ==
  ASSUME QueueInv, Scheduled,
         inhibit' \in [Threads -> SUBSET Events],
         killing' \in [Threads -> Threads \cup {NoThread}],
         detached' \subseteq Threads,
         life' \in [Threads -> Lives],
         life'[Idle] = "live",
         \A t \in Threads : Exists(t)' <=> Exists(t),
         life'[current] = life[current] \/ status'[current'] = "Running"
  PROVE  QueueInv'
<1>1. SchedTypeOK'
  BY DEF Scheduled, SchedTypeOK, WellFormed
<1>2. CurrentIsRunning'
  BY DEF Scheduled, QueueInv, CurrentIsRunning
<1>3. Exists(current)'
  <2>1. current' \in Threads /\ Exists(current')
    BY DEF Scheduled
  <2>2. \A t \in Threads :
          life'[t] \notin {"unborn", "deleted"} <=> life[t] \notin {"unborn", "deleted"}
    BY DEF Exists
  <2> QED
    BY <2>1, <2>2 DEF Exists
<1>4. \A t \in Threads : InQueue(ready', t) => t # Idle /\ Exists(t)'
  BY DEF Scheduled
<1>5. \A t \in Threads : status'[t] = "Ready" /\ Exists(t)' => InQueue(ready', t)
  BY DEF Scheduled
<1> QED
  BY <1>1, <1>2, <1>3, <1>4, <1>5 DEF QueueInv, Scheduled, WellFormed, InQueue, Queued

\* sendEvent queues the event and, if the thread was asleep, the thread.
LEMMA PostEventLemma ==
  ASSUME QueueInv, NEW t \in Threads, t # Idle, Exists(t), NEW e \in Events,
         PostEvent(t, e), current' = current, frame' = frame, interrupted' = interrupted
  PROVE  Scheduled
<1>1. eventQ' \in [Threads -> Seq(Events)]
  BY AppendProperties DEF PostEvent, QueueInv, SchedTypeOK
<1>2. CASE status[t] = "Sleeping"
  <2>1. status' = [status EXCEPT ![t] = "Ready"] /\ ready' = Enqueue(ready, t)
    BY <1>2 DEF PostEvent
  <2>2. WellFormed(ready') /\ \A u \in Threads : InQueue(ready', u) <=> InQueue(ready, u) \/ u = t
    BY <2>1, EnqueueLemma DEF QueueInv
  <2>3. status[current] # "Sleeping" /\ status'[current] = status[current]
    BY <1>2, <2>1 DEF QueueInv, CurrentIsRunning
  <2>4. \A u \in Threads : status'[u] = "Ready" => u = t \/ status[u] = "Ready"
    BY <2>1 DEF QueueInv, SchedTypeOK
  <2>5. status' \in [Threads -> Statuses]
    BY <2>1 DEF QueueInv, SchedTypeOK, Statuses
  <2> QED
    BY <1>1, <2>2, <2>3, <2>4, <2>5 DEF Scheduled, QueueInv, SchedTypeOK
<1>3. CASE status[t] # "Sleeping"
  BY <1>1, <1>3 DEF PostEvent, Scheduled, QueueInv, SchedTypeOK
<1> QED
  BY <1>2, <1>3

----------------------------------------------------------------------------
(* The theorems *)

\* The queues the kernel boots with satisfy the invariant.
LEMMA InitQueueInv == SchedInit => QueueInv
<1> SUFFICES ASSUME SchedInit PROVE QueueInv
  OBVIOUS
<1> USE ThreadsAssumption, PriorityAssumption
<1>1. BootReady \in [Priorities -> Seq(Threads)]
  <2>1. \A i \in Priorities : BootReady[i] \in Seq(Threads)
    BY BootReadyAssumption, SeqMonotonic
  <2> QED
    BY <2>1, BootReadyAssumption
<1>2. SchedTypeOK
  BY <1>1 DEF SchedInit, SchedTypeOK, Statuses, Lives
<1>3. WellFormed(ready)
  BY <1>1, BootReadyAssumption DEF SchedInit, WellFormed
<1>4. \A t \in Threads \ {Boot, Idle} : t \in Born <=> InQueue(BootReady, t)
  <2>1. ASSUME NEW t \in Threads \ {Boot, Idle}, t \in Born
        PROVE  InQueue(BootReady, t)
    <3>1. PICK i \in Priorities : \E j \in 1 .. Len(BootReady[i]) : BootReady[i][j] = t
      BY <2>1 DEF Born
    <3>2. Priority[t] = i
      BY <3>1, BootReadyAssumption
    <3> QED
      BY <3>1, <3>2 DEF InQueue, Queued
  <2>2. ASSUME NEW t \in Threads \ {Boot, Idle}, InQueue(BootReady, t)
        PROVE  t \in Born
    BY <2>2 DEF InQueue, Queued, Born
  <2> QED
    BY <2>1, <2>2
<1>5. \A t \in Threads : InQueue(BootReady, t) => t \notin {Boot, Idle}
  <2>1. ASSUME NEW t \in Threads, NEW j \in 1 .. Len(BootReady[Priority[t]]),
               BootReady[Priority[t]][j] = t
        PROVE  t \notin {Boot, Idle}
    <3>1. BootReady[Priority[t]] \in Seq(Threads \ {Idle, Boot})
      BY BootReadyAssumption
    <3>2. BootReady[Priority[t]][j] \in Threads \ {Idle, Boot}
      BY <3>1, ElementOfSeq
    <3> QED
      BY <2>1, <3>2
  <2> QED
    BY <2>1 DEF InQueue, Queued
<1>6. \A t \in Threads : InQueue(ready, t) => t # Idle /\ Exists(t)
  BY <1>4, <1>5 DEF SchedInit, Exists
<1>7. \A t \in Threads : status[t] = "Ready" /\ Exists(t) => InQueue(ready, t)
  BY <1>4 DEF SchedInit, Exists
<1>8. CurrentIsRunning /\ Exists(current) /\ life[Idle] = "live"
  BY DEF SchedInit, CurrentIsRunning, Exists, Born
<1> QED
  BY <1>2, <1>3, <1>6, <1>7, <1>8 DEF QueueInv

\* Every action of the scheduler preserves QueueInv: one step per action.
LEMMA NextQueueInv == QueueInv /\ [SchedNext]_schedVars => QueueInv'
<1> SUFFICES ASSUME QueueInv, [SchedNext]_schedVars PROVE QueueInv'
  OBVIOUS
<1> USE ThreadsAssumption
<1>0. /\ current \in Threads /\ interrupted \in [Threads -> BOOLEAN]
      /\ inhibit \in [Threads -> SUBSET Events]
      /\ killing \in [Threads -> Threads \cup {NoThread}]
      /\ detached \subseteq Threads /\ life \in [Threads -> Lives]
      /\ {"live", "dying", "leaving", "zombie", "exited", "deleted"} \subseteq Lives
      /\ status \in [Threads -> Statuses] /\ WellFormed(ready)
      /\ life[Idle] = "live" /\ Exists(current)
      /\ {"Ready", "Running", "Sleeping", "Suspended", "Zombie"} \subseteq Statuses
  BY DEF QueueInv, SchedTypeOK, Statuses, Lives
<1>1. CASE Tick
  <2>1. Scheduled
    BY <1>0, <1>1, ScheduleLemma DEF Tick
  <2> QED
    BY <1>0, <1>1, <2>1, ScheduledLemma DEF Tick, Exists
<1>2. CASE HandleEvent
  <2>1. Scheduled
    <3>1. eventQ' \in [Threads -> Seq(Events)] /\ interrupted' \in [Threads -> BOOLEAN]
      BY <1>0, <1>2, CheckEventStateLemma DEF HandleEvent, QueueInv
    <3> QED
      BY <1>0, <1>2, <3>1 DEF HandleEvent, Scheduled, QueueInv, SchedTypeOK
  <2> QED
    BY <1>0, <1>2, <2>1, ScheduledLemma DEF HandleEvent, Exists
<1>3. CASE Sleep
  <2>1. PICK intr \in {interrupted, [interrupted EXCEPT ![current] = FALSE]} :
          Schedule("Sleeping", intr)
    BY <1>3 DEF Sleep
  <2>2. intr \in [Threads -> BOOLEAN]
    BY <1>0
  <2>3. Scheduled
    BY <1>0, <2>1, <2>2, ScheduleLemma
  <2> QED
    BY <1>0, <1>3, <2>3, ScheduledLemma DEF Sleep, Exists
<1>4. CASE Suspend
  <2>1. Scheduled
    BY <1>0, <1>4, ScheduleLemma DEF Suspend
  <2> QED
    BY <1>0, <1>4, <2>1, ScheduledLemma DEF Suspend, Exists
<1>5. CASE KillSwitch
  <2>1. killing[current] \in Threads /\ Exists(killing[current])
    BY <1>0, <1>5 DEF KillSwitch
  <2>2. Scheduled
    BY <1>0, <1>5, <2>1, SwitchLemma DEF KillSwitch
  <2>3. killing' \in [Threads -> Threads \cup {NoThread}]
    BY <1>0, <1>5 DEF KillSwitch
  <2> QED
    BY <1>0, <1>5, <2>2, <2>3, ScheduledLemma DEF KillSwitch, Exists
<1>6. CASE Shutdown \/ AwaitJoin
  <2>1. /\ life' = [life EXCEPT ![current] = "dying"] \/
             life' = [life EXCEPT ![current] = "leaving"]
        /\ current # Idle /\ Exists(current)
        /\ status[current] = "Running"
        /\ current' = current /\ ready' = ready
        /\ status' \in [Threads -> Statuses]
        /\ status'[current] = status[current] \/
             (status'[current] = "AwaitingJoin" /\ life'[current] = "leaving")
        /\ \A t \in Threads : status'[t] = "Ready" => status[t] = "Ready"
    BY <1>0, <1>6 DEF Shutdown, AwaitJoin, Free, Statuses, QueueInv, CurrentIsRunning
  <2>2. \A t \in Threads : Exists(t)' <=> Exists(t)
    BY <1>0, <2>1 DEF Exists
  <2>3. SchedTypeOK'
    <3>1. life' \in [Threads -> Lives]
      BY <1>0, <2>1
    <3>2. UNCHANGED <<current, ready, frame, eventQ, inhibit, interrupted, killing,
                      detached>>
      BY <1>6 DEF Shutdown, AwaitJoin
    <3> QED
      BY <2>1, <3>1, <3>2 DEF QueueInv, SchedTypeOK
  <2>4. CurrentIsRunning'
    BY <1>0, <2>1 DEF CurrentIsRunning
  <2>5. Exists(current)' /\ life'[Idle] = "live"
    BY <1>0, <2>1, <2>2 DEF Exists
  <2> QED
    BY <1>0, <2>1, <2>2, <2>3, <2>4, <2>5 DEF QueueInv, InQueue
<1>7. CASE KillCurrentThread
  <2> DEFINE g == GetNext(current)
             n == IF g = NoThread THEN Idle ELSE g
             after == AfterGetNext(current)
  <2>1. /\ WellFormed(after)
        /\ g # NoThread => g \in Threads /\ g # current /\ InQueue(ready, g)
        /\ \A u \in Threads :
             /\ InQueue(after, u) => InQueue(ready, u)
             /\ InQueue(ready, u) /\ u \notin {current, g} => InQueue(after, u)
    BY <1>0, GetNextLemma
  <2>2. /\ status' = [status EXCEPT ![n] = "Running"] /\ current' = n
        /\ RestoreState(n, interrupted)
        /\ life[current] = "leaving" /\ frame' = frame /\ inhibit' = inhibit
        /\ killing' = killing /\ detached' = detached
    BY <1>7 DEF KillCurrentThread
  <2>3. \/ /\ ready' = Dequeue(after, current)
           /\ life' = [life EXCEPT ![current] = "deleted"]
        \/ /\ ready' = after
           /\ life' = [life EXCEPT ![current] = "exited"]
    BY <1>7 DEF KillCurrentThread
  <2> HIDE DEF g, after
  <2>4. n \in Threads /\ n # current /\ Exists(n)
    BY <1>0, <2>1, <2>2 DEF QueueInv, Exists
  <2> HIDE DEF n
  <2>5. eventQ' \in [Threads -> Seq(Events)] /\ interrupted' \in [Threads -> BOOLEAN]
    BY <1>0, <2>2, <2>4, CheckEventStateLemma DEF QueueInv
  <2>6. /\ WellFormed(ready')
        /\ \A u \in Threads : InQueue(ready', u) => InQueue(after, u)
        /\ \A u \in Threads \ {current} : InQueue(after, u) => InQueue(ready', u)
        /\ life'[current] = "deleted" => ~InQueue(ready', current)
    BY <1>0, <2>1, <2>3, DequeueLemma
  <2>7. \A t \in Threads \ {current} : life'[t] = life[t] /\ (Exists(t)' <=> Exists(t))
    BY <1>0, <2>3 DEF Exists
  <2>8. SchedTypeOK'
    <3>1. life' \in [Threads -> Lives]
      BY <1>0, <2>3
    <3>2. status' \in [Threads -> Statuses] /\ ready' \in [Priorities -> Seq(Threads)]
      BY <1>0, <2>2, <2>4, <2>6 DEF WellFormed
    <3> QED
      BY <1>0, <2>2, <2>4, <2>5, <3>1, <3>2 DEF QueueInv, SchedTypeOK
  <2>9. ASSUME NEW t \in Threads, InQueue(ready', t)
        PROVE  t # Idle /\ Exists(t)'
    <3>1. InQueue(ready, t)
      BY <2>1, <2>6, <2>9
    <3>2. t = current => Exists(t)'
      BY <1>0, <2>3, <2>6, <2>9 DEF Exists
    <3> QED
      BY <2>7, <3>1, <3>2 DEF QueueInv
  <2>10. ASSUME NEW t \in Threads, status'[t] = "Ready", Exists(t)'
         PROVE  InQueue(ready', t)
    <3>1. t # n /\ status[t] = "Ready"
      BY <1>0, <2>2, <2>4, <2>10
    <3>2. t # current
      BY <3>1 DEF QueueInv, CurrentIsRunning
    <3>3. InQueue(ready, t)
      BY <2>7, <2>10, <3>1, <3>2 DEF QueueInv
    <3>4. t # g
      BY <3>1 DEF n
    <3> QED
      BY <2>1, <2>6, <3>2, <3>3, <3>4
  <2>11. CurrentIsRunning' /\ Exists(current)'
    BY <1>0, <2>2, <2>4, <2>7 DEF CurrentIsRunning, Exists
  <2>12. life'[Idle] = "live"
    BY <1>0, <2>2, <2>3
  <2> QED
    BY <2>6, <2>8, <2>9, <2>10, <2>11, <2>12 DEF QueueInv
<1>8. CASE ExitProcess
  <2>1. Scheduled
    BY <1>0, <1>8, ScheduleLemma, NotifyingSwitchLemma DEF ExitProcess, Free
  <2>2. /\ life' \in [Threads -> Lives]
        /\ life'[Idle] = "live"
        /\ \A t \in Threads : Exists(t)' <=> Exists(t)
    BY <1>0, <1>8 DEF ExitProcess, Free, Exists
  <2>3. status'[current'] = "Running"
    <3>1. current' \in Threads
      BY <2>1 DEF Scheduled
    <3>2. CASE Schedule("Zombie", interrupted)
      <4>1. status' = [(IF current = Idle THEN status
                        ELSE [status EXCEPT ![current] = "Zombie"])
                       EXCEPT ![current'] = "Running"]
        BY <3>2 DEF Schedule, Switch
      <4> QED
        BY <1>0, <3>1, <4>1
    <3>3. CASE \E w \in Threads : NotifyingSwitch(w)
      <4>1. PICK w \in Threads : NotifyingSwitch(w)
        BY <3>3
      <4>2. status' = [status EXCEPT ![current] = "Zombie", ![w] = "Ready",
                                     ![current'] = "Running"]
        BY <4>1 DEF NotifyingSwitch
      <4> QED
        BY <1>0, <3>1, <4>2
    <3> QED
      BY <1>8, <3>2, <3>3 DEF ExitProcess
  <2> QED
    BY <1>0, <1>8, <2>1, <2>2, <2>3, ScheduledLemma DEF ExitProcess
<1>9. ASSUME NEW t \in Threads, Wake(t)
      PROVE  QueueInv'
  <2>1. /\ status' = [status EXCEPT ![t] = "Ready"] /\ ready' = Enqueue(ready, t)
        /\ t # current /\ t # Idle /\ Exists(t)
    BY <1>9 DEF Wake
  <2>2. WellFormed(ready') /\ \A u \in Threads : InQueue(ready', u) <=> InQueue(ready, u) \/ u = t
    BY <1>0, <2>1, EnqueueLemma
  <2>3. /\ status' \in [Threads -> Statuses] /\ status'[current] = status[current]
        /\ \A u \in Threads : status'[u] = "Ready" => u = t \/ status[u] = "Ready"
    BY <1>0, <2>1
  <2>4. Scheduled
    BY <1>0, <1>9, <2>1, <2>2, <2>3 DEF Wake, Scheduled, QueueInv, SchedTypeOK
  <2> QED
    BY <1>0, <1>9, <2>4, ScheduledLemma DEF Wake, Exists
<1>10. ASSUME NEW t \in Threads, CreateThread(t)
       PROVE  QueueInv'
  <2>1. /\ status' = [status EXCEPT ![current] = "Ready", ![t] = "Running"]
        /\ ready' = Enqueue(ready, current) /\ current' = t
        /\ life' = [life EXCEPT ![t] = "live"]
        /\ life[t] = "unborn" /\ life[current] = "live" /\ current # Idle
        /\ frame' = [frame EXCEPT ![current] = "addThread"]
        /\ eventQ' = eventQ /\ inhibit' = inhibit /\ interrupted' = interrupted
        /\ killing' = killing /\ detached' = detached
    BY <1>10 DEF CreateThread, Free
  <2>2. /\ WellFormed(ready')
        /\ \A u \in Threads : InQueue(ready', u) <=> InQueue(ready, u) \/ u = current
    BY <1>0, <2>1, EnqueueLemma
  <2>3. /\ t # current /\ status' \in [Threads -> Statuses] /\ status'[t] = "Running"
        /\ \A u \in Threads : status'[u] = "Ready" => u = current \/ (u # t /\ status[u] = "Ready")
    BY <1>0, <2>1
  <2>4. \A u \in Threads : u # t => (Exists(u)' <=> Exists(u))
    BY <1>0, <2>1 DEF Exists
  <2>5. Exists(t)' /\ life'[Idle] = "live"
    BY <1>0, <2>1 DEF Exists
  <2>6. SchedTypeOK'
    BY <1>0, <2>1, <2>2, <2>3 DEF QueueInv, SchedTypeOK, WellFormed
  <2>7. \A u \in Threads : InQueue(ready', u) => u # Idle /\ Exists(u)'
    BY <1>0, <2>1, <2>2, <2>4, <2>5 DEF QueueInv
  <2>8. \A u \in Threads : status'[u] = "Ready" /\ Exists(u)' => InQueue(ready', u)
    BY <1>0, <2>2, <2>3, <2>4 DEF QueueInv
  <2>9. CurrentIsRunning' /\ Exists(current)'
    BY <2>1, <2>3, <2>5 DEF CurrentIsRunning, Exists
  <2> QED
    BY <2>2, <2>5, <2>6, <2>7, <2>8, <2>9 DEF QueueInv
<1>11. ASSUME NEW t \in Threads, NEW e \in Events, SendEvent(t, e)
       PROVE  QueueInv'
  <2>1. Scheduled
    BY <1>0, <1>11, PostEventLemma DEF SendEvent
  <2> QED
    BY <1>0, <1>11, <2>1, ScheduledLemma DEF SendEvent, Exists
<1>12. ASSUME NEW t \in Threads, NEW e \in Events, KillSend(t, e)
       PROVE  QueueInv'
  <2>1. Scheduled
    BY <1>0, <1>12, PostEventLemma DEF KillSend, Killable
  <2>2. killing' \in [Threads -> Threads \cup {NoThread}]
    BY <1>0, <1>12 DEF KillSend
  <2> QED
    BY <1>0, <1>12, <2>1, <2>2, ScheduledLemma DEF KillSend, Exists
<1>13. ASSUME NEW e \in Events, NEW b \in BOOLEAN, InhibitEvent(e, b)
       PROVE  QueueInv'
  <2>1. inhibit' \in [Threads -> SUBSET Events]
    BY <1>0, <1>13 DEF InhibitEvent
  <2>2. Scheduled
    BY <1>0, <1>13 DEF InhibitEvent, Scheduled, QueueInv, SchedTypeOK
  <2> QED
    BY <1>0, <1>13, <2>1, <2>2, ScheduledLemma DEF InhibitEvent, Exists
<1>14. CASE ClearInterrupted
  <2>1. Scheduled
    BY <1>0, <1>14 DEF ClearInterrupted, Scheduled, QueueInv, SchedTypeOK
  <2> QED
    BY <1>0, <1>14, <2>1, ScheduledLemma DEF ClearInterrupted, Exists
<1>15. CASE Panic \/ UNCHANGED schedVars
  BY <1>15 DEF Panic, schedVars, QueueInv, SchedTypeOK, CurrentIsRunning, Exists
<1>16. ASSUME NEW t \in Threads, Destroy(t)
       PROVE  QueueInv'
  <2>1. /\ WellFormed(ready')
        /\ \A u \in Threads : InQueue(ready', u) <=> InQueue(ready, u) /\ u # t
    BY <1>0, <1>16, DequeueLemma DEF Destroy
  <2>2. /\ t # current /\ life[t] # "live" /\ life' = [life EXCEPT ![t] = "deleted"]
        /\ UNCHANGED <<status, current>>
    BY <1>16 DEF Destroy
  <2>3. \A u \in Threads \ {t} : Exists(u)' <=> Exists(u)
    BY <1>0, <2>2 DEF Exists
  <2>4. ~Exists(t)'
    BY <1>0, <2>2 DEF Exists
  <2>5. SchedTypeOK'
    <3>1. ready' \in [Priorities -> Seq(Threads)]
      BY <2>1 DEF WellFormed
    <3>2. life' \in [Threads -> Lives]
      BY <1>0, <2>2
    <3> QED
      BY <1>16, <3>1, <3>2 DEF Destroy, QueueInv, SchedTypeOK
  <2>6. CurrentIsRunning' /\ Exists(current)' /\ life'[Idle] = "live"
    BY <1>0, <2>2, <2>3 DEF QueueInv, CurrentIsRunning
  <2> QED
    BY <2>1, <2>2, <2>3, <2>4, <2>5, <2>6 DEF QueueInv
<1>17. ASSUME NEW t \in Threads, Detach(t)
       PROVE  QueueInv'
  <2>1. detached' \subseteq Threads
    BY <1>0, <1>17 DEF Detach
  <2>2. Scheduled
    BY <1>0, <1>17 DEF Detach, Scheduled, QueueInv, SchedTypeOK
  <2> QED
    BY <1>0, <1>17, <2>1, <2>2, ScheduledLemma DEF Detach, Exists
<1>18. ASSUME NEW e \in Events, CullEvent(e)
       PROVE  QueueInv'
  <2>1. PICK r \in Seq(Events) : eventQ' = [eventQ EXCEPT ![current] = r]
    BY <1>0, <1>18, CullLemma DEF QueueInv
  <2>2. Scheduled
    BY <1>0, <1>18, <2>1 DEF CullEvent, Scheduled, QueueInv, SchedTypeOK
  <2> QED
    BY <1>0, <1>18, <2>2, ScheduledLemma DEF CullEvent, Exists
<1> QED
  BY <1>1, <1>2, <1>3, <1>4, <1>5, <1>6, <1>7, <1>8, <1>9, <1>10, <1>11, <1>12,
     <1>13, <1>14, <1>15, <1>16, <1>17, <1>18 DEF SchedNext

\* The invariant holds in every reachable state.
THEOREM SchedulerInvariant == SchedSpec => []SchedInv
<1>1. SchedSpec => []QueueInv
  BY InitQueueInv, NextQueueInv, PTL DEF SchedSpec
<1> QED
  BY <1>1, QueueInvIsSchedInv, PTL

\* The scheduler's state is well typed.
THEOREM SchedulerTypeCorrect == SchedSpec => []SchedTypeOK
<1>1. SchedInv => SchedTypeOK
  BY DEF SchedInv
<1> QED
  BY <1>1, SchedulerInvariant, PTL

\* RoundRobin never loses a Ready thread, however many threads, priorities and
\* events there are.
THEOREM ReadyThreadsAreQueued == SchedSpec => []ReadyIsQueued
<1>1. SchedInv => ReadyIsQueued
  BY DEF SchedInv
<1> QED
  BY <1>1, SchedulerInvariant, PTL

\* The status of the thread on the CPU is Running until it has begun to exit.
THEOREM CurrentThreadRuns == SchedSpec => []CurrentIsRunning
<1>1. SchedInv => CurrentIsRunning
  BY DEF SchedInv
<1> QED
  BY <1>1, SchedulerInvariant, PTL

\* A thread is in one place of one ready queue at most, and getNext returns no
\* dangling pointer.
THEOREM ReadyQueuesAreSound == SchedSpec => []ReadyQueuesSound
<1>1. SchedInv => ReadyQueuesSound
  BY DEF SchedInv, ReadyQueuesSound
<1> QED
  BY <1>1, SchedulerInvariant, PTL
=============================================================================
