------------------------- MODULE RequestQueueProofs -------------------------
(***************************************************************************)
(* Proofs about RequestQueue, for every set of threads, every number of    *)
(* requests and priorities, and every choice of what is asked for.         *)
(***************************************************************************)
EXTENDS RequestQueue, SequenceLemmas, FiniteSetTheorems

\* A request that several threads may wait for is not one in whose call a thread is
\* asked to unwind: the thread would release the mutex of the request before its time,
\* and its reference, too, when it exits.
NoSharedUnwind == \A a \in Unwinding : a[2] \notin Comparable

\* The place of the thread whose shutdown has let go of request r already.
LetGo(t, r) == pc[t] = "resume" /\ cur[t] = r

InRequest(t, r) == pc[t] \in Calling /\ cur[t] = r

\* Thread t will use request r: it is in a call for it, or has it pending.
Uses(t, r) == InRequest(t, r) \/ (r \in pending[t] /\ ~LetGo(t, r))

Users(r) == {t \in Threads : Uses(t, r)}

QueuedSet == {r \in Requests : Queued(r)}

Dies(t, w) == <<t, w>> \in Mortal \cup Unwinding

----------------------------------------------------------------------------
(* The parts of the invariant *)

\* Where a thread is, and the request it is at.
PlaceOf(t) ==
  /\ pc[t] \in Calling => cur[t] \in Requests
  /\ pc[t] \in {"halt", "join", "loop", "valid", "tweak"} => cur[t] \in pending[t]
  /\ pc[t] = "resume" => cur[t] \in Requests
  /\ pc[t] \in {"idle", "unborn", "add"} => t \notin own
  /\ t \in own /\ pc[t] \in Calling => thread[cur[t]] = t
  /\ t \in unwind /\ pc[t] \in Calling => <<t, wish[cur[t]]>> \in Unwinding
  /\ pc[t] \in Calling \ {"add"} /\ t \notin own => wish[cur[t]] \in Comparable
  /\ pc[t] = "unborn" => pending[t] = {}

PlaceInv == \A t \in Threads : PlaceOf(t)

\* A request is in the queue once.
ListInv ==
  /\ \A p \in Priorities : NoDup(queue[p])
  /\ \A p, q \in Priorities : p # q => Range(queue[p]) \cap Range(queue[q]) = {}

\* A request is in one place: new, in a list, in the worker's hands, or done with.
WorkInv ==
  /\ \A r \in Requests : Queued(r) => hand # r /\ r \notin executed
  /\ hand # 0 <=> worker \in {"run", "execute", "post", "answer"}
  /\ hand \notin completed
  /\ worker \in {"run", "execute"} => hand \notin executed
  /\ worker \in {"post", "answer"} => hand \in executed
  /\ completed \subseteq executed

\* The request of a thread that has not queued it yet is its own.
NewOf(t) ==
  LET r == cur[t]
  IN pc[t] = "add" =>
       /\ ~Queued(r) /\ hand # r /\ r \notin executed /\ r \notin rejected
       /\ r \notin pending[t] /\ \A u \in Threads : Uses(u, r) => u = t

NewInv == \A t \in Threads : NewOf(t)

\* Nobody uses a request that is deleted.
FreeInv ==
  \A r \in freed : ~Queued(r) /\ hand # r /\ \A t \in Threads : ~Uses(t, r)

\* The others have a reference for everyone who uses them, and one more if they are
\* rejected.
RefInv ==
  \A r \in Requests \ freed :
    Cardinality(Users(r)) + (IF r \in rejected THEN 1 ELSE 0) <= refcnt[r]

\* The mutex of a request is free before it has been executed only if nobody waits for
\* it and nobody will.
PostInv ==
  \A r \in Requests \ (freed \cup completed \cup rejected) :
    /\ \A t \in Threads : InRequest(t, r) /\ pc[t] = "woken" => t \in unwind
    /\ post[r] > 0 => wish[r] \notin Comparable /\ \A t \in Threads : ~InRequest(t, r)

\* A request that cannot be shared has one user.
SoleInv ==
  \A r \in Requests : wish[r] \notin Comparable =>
    \A t, u \in Threads : Uses(t, r) /\ Uses(u, r) => t = u

\* A rejected request is pending for nobody who waits for it, and whoever rejected it
\* was to die.
RejectInv ==
  \A r \in rejected \ freed :
    /\ thread[r] = NoThread
    /\ \A t \in Threads : Uses(t, r) => r \notin pending[t]
    /\ \E t \in Threads : Dies(t, wish[r])

\* Who has a request pending, and why.
PendingOf(t) ==
  /\ \A r \in pending[t] :
       /\ InRequest(t, r) => t \in own
       /\ Queued(r) /\ ~LetGo(t, r) =>
            \/ InRequest(t, r)
            \/ pc[t] \in Dying /\ Dies(t, wish[r])
            \/ t \in unwind /\ <<t, wish[r]>> \in Unwinding
  /\ pc[t] = "tweak" => Dies(t, wish[cur[t]])

PendingInv == \A t \in Threads : PendingOf(t)

RequestInv ==
  /\ PlaceInv /\ ListInv /\ WorkInv /\ NewInv /\ FreeInv /\ RefInv /\ PostInv
  /\ SoleInv /\ RejectInv /\ PendingInv

\* What halt has added to m_RequestQueueSize is there until the worker has stopped.
Stopping == stop /\ worker \notin {"gone", "none"}

SizeInv ==
  /\ Cardinality(QueuedSet) + (IF Stopping THEN 1 ELSE 0)
       <= size + (IF worker \in {"check", "take"} THEN 1 ELSE 0)
  /\ Stopping => size + (IF worker = "check" THEN 1 ELSE 0) >= 1

----------------------------------------------------------------------------
(* Lists and counts *)

\* What the run-time library calls the range of a list is what is in it.
LEMMA RangeOfList ==
  ASSUME NEW S, NEW q \in Seq(S)
  PROVE  Range(q) = Elems(q)
  BY LenProperties DEF Range, Elems

\* A smaller set has fewer elements.
LEMMA CountShrinks ==
  ASSUME NEW T, IsFiniteSet(T), NEW S \in SUBSET T
  PROVE  Cardinality(S) \in Nat /\ Cardinality(T) \in Nat /\ Cardinality(S) <= Cardinality(T)
  BY FS_Subset, FS_CardinalityType

\* A set that has lost x has one element less.
LEMMA CountLoses ==
  ASSUME NEW T, IsFiniteSet(T), NEW x \in T, NEW S \in SUBSET (T \ {x})
  PROVE  Cardinality(S) \in Nat /\ Cardinality(T) \in Nat /\ Cardinality(S) + 1 <= Cardinality(T)
<1>1. IsFiniteSet(T \ {x}) /\ Cardinality(T \ {x}) = Cardinality(T) - 1
  BY FS_RemoveElement
<1> QED
  BY <1>1, CountShrinks, FS_CardinalityType

\* A set that has gained x has at most one element more.
LEMMA CountGains ==
  ASSUME NEW T, IsFiniteSet(T), NEW x, NEW S \in SUBSET (T \cup {x})
  PROVE  Cardinality(S) \in Nat /\ Cardinality(T) \in Nat /\ Cardinality(S) <= Cardinality(T) + 1
<1>0. Cardinality(T) \in Nat
  BY FS_CardinalityType
<1>1. IsFiniteSet(T \cup {x}) /\ Cardinality(T \cup {x}) <= Cardinality(T) + 1
  BY <1>0, FS_AddElement
<1>2. Cardinality(T \cup {x}) \in Nat
  BY <1>1, FS_CardinalityType
<1>3. Cardinality(S) \in Nat /\ Cardinality(S) <= Cardinality(T \cup {x})
  BY <1>1, CountShrinks
<1> QED
  BY <1>0, <1>1, <1>2, <1>3

\* Who is counted, and alone, is the only one.
LEMMA CountAlone ==
  ASSUME NEW T, IsFiniteSet(T), NEW x \in T
  PROVE  /\ Cardinality(T) \in Nat /\ Cardinality(T) >= 1
         /\ Cardinality(T) <= 1 => \A y \in T : y = x
<1>0. Cardinality(T) \in Nat
  BY FS_CardinalityType
<1>1. Cardinality(T) # 0
  BY FS_EmptySet
<1>2. ASSUME Cardinality(T) <= 1
      PROVE  \A y \in T : y = x
  <2>1. Cardinality(T) = 1
    BY <1>0, <1>1, <1>2
  <2> QED
    BY <2>1, FS_Singleton
<1> QED
  BY <1>0, <1>1, <1>2

\* The list that the worker takes from: there is one, and it is empty only when all are.
LEMMA MostImportantList ==
  ASSUME TypeOK
  PROVE  /\ MostImportant \in Priorities
         /\ queue[MostImportant] = <<>> => \A r : ~Queued(r)
<1> DEFINE C == {p \in Priorities : p = NumPriorities - 1 \/ queue[p] # <<>>}
           P(p) == /\ p = NumPriorities - 1 \/ queue[p] # <<>>
                   /\ \A q \in 0 .. p - 1 : queue[q] = <<>>
<1>0. NumPriorities \in Nat \ {0} /\ Priorities \subseteq Nat
  BY RequestQueueAssumption DEF Priorities
<1>1. NumPriorities - 1 \in C /\ C \subseteq Nat
  BY <1>0 DEF Priorities
<1>2. PICK p \in C : \A q \in C : p <= q
  <2> HIDE DEF C
  <2> QED
    BY <1>1, SmallestNumber
<1>3. \A q \in C : ~(q < p)
  BY <1>1, <1>2
<1>4. ASSUME NEW q \in 0 .. p - 1
      PROVE  queue[q] = <<>>
  <2>1. q \in Priorities /\ q < p
    BY <1>0, <1>4 DEF Priorities
  <2> QED
    BY <1>3, <2>1
<1>5. p \in Priorities /\ P(p)
  BY <1>4
<1>6. MostImportant \in Priorities /\ P(MostImportant)
  BY <1>5 DEF MostImportant
<1>7. ASSUME queue[MostImportant] = <<>>, NEW r
      PROVE  ~Queued(r)
  <2>1. MostImportant = NumPriorities - 1
    BY <1>6, <1>7
  <2>2. \A q \in Priorities : queue[q] = <<>>
    BY <1>0, <1>6, <1>7, <2>1 DEF Priorities
  <2>3. Range(<<>>) = {}
    BY DEF Range
  <2> QED
    BY <2>2, <2>3 DEF Queued
<1> QED
  BY <1>6, <1>7

\* Insert puts a request at the end of its list.
LEMMA ListGrows ==
  ASSUME TypeOK, ListInv, NEW p \in Priorities, NEW r \in Requests, ~Queued(r),
         queue' = [queue EXCEPT ![p] = Append(@, r)]
  PROVE  ListInv' /\ \A q : Queued(q)' <=> Queued(q) \/ q = r
<1>0. \A q \in Priorities : queue[q] \in Seq(Requests) /\ Range(queue[q]) = Elems(queue[q])
  BY RangeOfList DEF TypeOK
<1>1. /\ queue'[p] = Append(queue[p], r)
      /\ \A q \in Priorities : q # p => queue'[q] = queue[q]
  BY DEF TypeOK
<1>2. r \notin Elems(queue[p])
  BY <1>0 DEF Queued
<1>3. /\ queue'[p] \in Seq(Requests) /\ NoDup(queue'[p])
      /\ Elems(queue'[p]) = Elems(queue[p]) \cup {r}
  BY <1>0, <1>1, <1>2, AppendElems DEF ListInv
<1>4. Range(queue'[p]) = Range(queue[p]) \cup {r}
  BY <1>0, <1>3, RangeOfList
<1>5. \A q \in Priorities : NoDup(queue'[q])
  BY <1>1, <1>3 DEF ListInv
<1>6. \A q \in Priorities : r \notin Range(queue[q])
  BY DEF Queued
<1>7. ASSUME NEW q \in Priorities, NEW s \in Priorities, q # s
      PROVE  Range(queue'[q]) \cap Range(queue'[s]) = {}
  BY <1>1, <1>4, <1>6, <1>7 DEF ListInv
<1>8. \A q : Queued(q)' <=> Queued(q) \/ q = r
  BY <1>1, <1>4 DEF Queued
<1> QED
  BY <1>5, <1>7, <1>8 DEF ListInv

\* The worker takes the first request of a list.
LEMMA ListShrinks ==
  ASSUME TypeOK, ListInv, NEW p \in Priorities, queue[p] # <<>>,
         queue' = [queue EXCEPT ![p] = Tail(@)]
  PROVE  /\ ListInv' /\ queue' \in [Priorities -> Seq(Requests)]
         /\ Head(queue[p]) \in Requests /\ Queued(Head(queue[p]))
         /\ \A q : Queued(q)' <=> Queued(q) /\ q # Head(queue[p])
<1> DEFINE r == Head(queue[p])
<1>0. \A q \in Priorities : queue[q] \in Seq(Requests) /\ Range(queue[q]) = Elems(queue[q])
  BY RangeOfList DEF TypeOK
<1>1. /\ queue'[p] = Tail(queue[p])
      /\ \A q \in Priorities : q # p => queue'[q] = queue[q]
  BY DEF TypeOK
<1>2. /\ Tail(queue[p]) \in Seq(Requests) /\ r \in Requests /\ r \in Elems(queue[p])
      /\ Elems(queue[p]) = Elems(Tail(queue[p])) \cup {r}
      /\ NoDup(Tail(queue[p])) /\ r \notin Elems(Tail(queue[p]))
  BY <1>0, TailElems DEF ListInv
<1>3. Range(queue'[p]) = Elems(Tail(queue[p]))
  BY <1>1, <1>2, RangeOfList
<1>4. queue' \in [Priorities -> Seq(Requests)]
  BY <1>2 DEF TypeOK
<1> HIDE DEF r
<1>5. \A q \in Priorities : NoDup(queue'[q])
  BY <1>1, <1>2 DEF ListInv
<1>6. /\ Range(queue[p]) = Range(queue'[p]) \cup {r} /\ r \notin Range(queue'[p])
      /\ \A q \in Priorities :
           q # p => r \notin Range(queue[q]) /\ Range(queue'[q]) = Range(queue[q])
  BY <1>0, <1>1, <1>2, <1>3 DEF ListInv
<1>7. ASSUME NEW q \in Priorities, NEW s \in Priorities, q # s
      PROVE  Range(queue'[q]) \cap Range(queue'[s]) = {}
  BY <1>6, <1>7 DEF ListInv
<1>8. \A q : Queued(q)' <=> Queued(q) /\ q # r
  BY <1>6 DEF Queued
<1>9. Queued(r)
  BY <1>6 DEF Queued
<1> QED
  BY <1>2, <1>4, <1>5, <1>7, <1>8, <1>9 DEF ListInv, r

\* The other actions leave the lists alone.
LEMMA ListStays ==
  ASSUME queue' = queue
  PROVE  (ListInv => ListInv') /\ \A q : Queued(q)' <=> Queued(q)
  BY DEF ListInv, Queued

----------------------------------------------------------------------------
(* Steps that leave most of the invariant alone *)

\* A part of the invariant is about some of the variables only.
LEMMA PartsStay ==
  /\ PlaceInv /\ UNCHANGED <<pc, cur, own, thread, unwind, wish, pending>> => PlaceInv'
  /\ ListInv /\ UNCHANGED queue => ListInv'
  /\ WorkInv /\ UNCHANGED <<queue, hand, worker, executed, completed>> => WorkInv'
  /\ NewInv /\ UNCHANGED <<pc, cur, queue, hand, executed, rejected, pending>> => NewInv'
  /\ FreeInv /\ UNCHANGED <<freed, queue, hand, pc, cur, pending>> => FreeInv'
  /\ RefInv /\ UNCHANGED <<freed, rejected, refcnt, pc, cur, pending>> => RefInv'
  /\ PostInv /\ UNCHANGED <<freed, completed, rejected, pc, cur, unwind, post, wish>>
       => PostInv'
  /\ SoleInv /\ UNCHANGED <<wish, pc, cur, pending>> => SoleInv'
  /\ RejectInv /\ UNCHANGED <<rejected, freed, thread, wish, pc, cur, pending>>
       => RejectInv'
  /\ PendingInv /\ UNCHANGED <<pc, cur, pending, own, queue, unwind, wish>> => PendingInv'
<1>1. PlaceInv /\ UNCHANGED <<pc, cur, own, thread, unwind, wish, pending>> => PlaceInv'
  BY DEF PlaceInv, PlaceOf
<1>2. ListInv /\ UNCHANGED queue => ListInv'
  BY DEF ListInv
<1>3. WorkInv /\ UNCHANGED <<queue, hand, worker, executed, completed>> => WorkInv'
  BY DEF WorkInv, Queued
<1>4. NewInv /\ UNCHANGED <<pc, cur, queue, hand, executed, rejected, pending>> => NewInv'
  BY DEF NewInv, NewOf, Queued, Uses, InRequest, LetGo
<1>5. FreeInv /\ UNCHANGED <<freed, queue, hand, pc, cur, pending>> => FreeInv'
  BY DEF FreeInv, Queued, Uses, InRequest, LetGo
<1>6. RefInv /\ UNCHANGED <<freed, rejected, refcnt, pc, cur, pending>> => RefInv'
  BY DEF RefInv, Users, Uses, InRequest, LetGo
<1>7. PostInv /\ UNCHANGED <<freed, completed, rejected, pc, cur, unwind, post, wish>>
        => PostInv'
  BY DEF PostInv, InRequest
<1>8. SoleInv /\ UNCHANGED <<wish, pc, cur, pending>> => SoleInv'
  BY DEF SoleInv, Uses, InRequest, LetGo
<1>9. RejectInv /\ UNCHANGED <<rejected, freed, thread, wish, pc, cur, pending>>
        => RejectInv'
  BY DEF RejectInv, Uses, InRequest, LetGo
<1>10. PendingInv /\ UNCHANGED <<pc, cur, pending, own, queue, unwind, wish>> => PendingInv'
  BY DEF PendingInv, PendingOf, Queued, InRequest, LetGo
<1> QED
  BY <1>1, <1>2, <1>3, <1>4, <1>5, <1>6, <1>7, <1>8, <1>9, <1>10

\* The counts of users are finite.
LEMMA UsersFinite ==
  ASSUME NEW r
  PROVE  IsFiniteSet(Users(r)) /\ Cardinality(Users(r)) \in Nat
<1>1. Users(r) \in SUBSET Threads /\ IsFiniteSet(Threads)
  BY RequestQueueAssumption DEF Users
<1> QED
  BY <1>1, FS_Subset, FS_CardinalityType

\* When nobody new uses a request, its references are still enough.
LEMMA FewerUsers ==
  ASSUME NEW r, \A u \in Threads : Uses(u, r)' => Uses(u, r)
  PROVE  Cardinality(Users(r))' \in Nat /\ Cardinality(Users(r))' <= Cardinality(Users(r))
<1>1. Users(r)' \in SUBSET Users(r)
  BY DEF Users
<1> QED
  BY <1>1, UsersFinite, CountShrinks

\* When a thread lets go of a request, it has a user less.
LEMMA OneUserLess ==
  ASSUME NEW r, NEW t \in Threads, Uses(t, r), ~Uses(t, r)',
         \A u \in Threads : Uses(u, r)' => Uses(u, r)
  PROVE  Cardinality(Users(r))' \in Nat /\ Cardinality(Users(r))' + 1 <= Cardinality(Users(r))
<1>1. Users(r)' \in SUBSET (Users(r) \ {t}) /\ t \in Users(r)
  BY DEF Users
<1> QED
  BY <1>1, UsersFinite, CountLoses

\* When a thread begins to share a request, it has a user more.
LEMMA OneUserMore ==
  ASSUME NEW r, NEW t \in Threads, \A u \in Threads : Uses(u, r)' => Uses(u, r) \/ u = t
  PROVE  Cardinality(Users(r))' \in Nat /\ Cardinality(Users(r))' <= Cardinality(Users(r)) + 1
<1>1. Users(r)' \in SUBSET (Users(r) \cup {t})
  BY DEF Users
<1> QED
  BY <1>1, UsersFinite, CountGains

\* A thread that uses a request is counted, and a request with one reference has
\* no other user.
LEMMA SoleUser ==
  ASSUME NEW r, NEW t \in Threads, Uses(t, r)
  PROVE  /\ Cardinality(Users(r)) \in Nat /\ Cardinality(Users(r)) >= 1
         /\ Cardinality(Users(r)) <= 1 => \A u \in Threads : Uses(u, r) => u = t
<1>1. t \in Users(r)
  BY DEF Users
<1>2. /\ Cardinality(Users(r)) \in Nat /\ Cardinality(Users(r)) >= 1
      /\ Cardinality(Users(r)) <= 1 => \A u \in Users(r) : u = t
  <2> HIDE DEF Users
  <2> QED
    BY <1>1, UsersFinite, CountAlone
<1> QED
  BY <1>2 DEF Users

\* A thread in its place uses its request.
LEMMA PlaceUses ==
  ASSUME TypeOK, RequestInv, NEW t \in Threads,
         pc[t] \in Calling \/ pc[t] \in {"halt", "join", "loop", "valid", "tweak"}
  PROVE  Uses(t, cur[t]) /\ cur[t] \in Requests /\ cur[t] \notin freed
<1>1. PlaceOf(t)
  BY DEF RequestInv, PlaceInv
<1>2. Uses(t, cur[t])
  BY <1>1 DEF PlaceOf, Uses, InRequest, LetGo, Calling
<1>3. cur[t] \in Requests
  BY <1>1 DEF PlaceOf, TypeOK
<1> QED
  BY <1>2, <1>3 DEF RequestInv, FreeInv

\* A thread that has created a request has one.
LEMMA NewIsRequest ==
  ASSUME TypeOK, RequestInv
  PROVE  \A t \in Threads : pc[t] = "add" => cur[t] # 0
<1> SUFFICES ASSUME NEW t \in Threads, pc[t] = "add"
             PROVE  cur[t] # 0
  OBVIOUS
<1>1. cur[t] \in Requests
  BY PlaceUses DEF Calling
<1> QED
  BY <1>1, RequestQueueAssumption DEF Requests

\* The steps of the worker from one place to another.
LEMMA WorkerMoves ==
  ASSUME TypeOK, RequestInv, WorkerAcquires \/ WorkerChecks \/ WorkerRuns \/ WorkerFinds
  PROVE  TypeOK' /\ RequestInv'
<1> USE DEF reqVars, threadVars, haltVars, queueVars
<1>1. /\ UNCHANGED <<queue, mutex, haltVars, hand, reqVars, threadVars, panic>>
      /\ size' \in Nat /\ worker' \in {"check", "take", "gone", "execute", "answer"}
  BY DEF TypeOK, WorkerAcquires, WorkerChecks, WorkerRuns, WorkerFinds
<1>2. TypeOK'
  BY <1>1 DEF TypeOK
<1>3. WorkInv'
  <2>1. worker' \in {"run", "execute"} => worker = "run"
    BY DEF WorkerAcquires, WorkerChecks, WorkerRuns, WorkerFinds
  <2>2. worker' \in {"post", "answer"} => worker = "post"
    BY DEF WorkerAcquires, WorkerChecks, WorkerRuns, WorkerFinds
  <2>3. worker' \in {"run", "execute", "post", "answer"}
          <=> worker \in {"run", "execute", "post", "answer"}
    BY DEF WorkerAcquires, WorkerChecks, WorkerRuns, WorkerFinds
  <2>4. /\ queue' = queue /\ hand' = hand /\ executed' = executed
        /\ completed' = completed
    BY <1>1
  <2> QED
    BY <2>1, <2>2, <2>3, <2>4 DEF RequestInv, WorkInv, Queued
<1> QED
  BY <1>1, <1>2, <1>3, PartsStay DEF RequestInv

\* A thread goes from one place to another in its call or its shutdown and keeps its
\* request.
LEMMA ThreadMoves ==
  ASSUME TypeOK, RequestInv, NEW t \in Threads, NEW a,
         \/ pc[t] \in Calling \ {"add"} /\ a \in Calling \ {"add"}
         \/ /\ pc[t] \in {"halt", "join", "loop", "valid", "tweak"}
            /\ a \in {"halt", "join", "loop", "valid", "tweak"}
            /\ a = "tweak" => Dies(t, wish[cur[t]]),
         pc' = [pc EXCEPT ![t] = a],
         UNCHANGED <<cur, own, pending, unwind, thread, wish, refcnt, rejected, freed,
                     executed, queue, hand>>
  PROVE  /\ PlaceInv' /\ NewInv' /\ FreeInv' /\ RefInv' /\ SoleInv' /\ RejectInv'
         /\ PendingInv' /\ \A u \in Threads, r \in Requests : InRequest(u, r)' <=> InRequest(u, r)
<1>1. pc'[t] = a /\ \A u \in Threads : u # t => pc'[u] = pc[u]
  BY DEF TypeOK
<1>2. \A u \in Threads : pc'[u] \in Calling <=> pc[u] \in Calling
  BY <1>1 DEF Calling
<1>3. \A u \in Threads : pc'[u] \in Dying <=> pc[u] \in Dying
  BY <1>1 DEF Calling, Dying
<1>4. \A u \in Threads : /\ pc'[u] = "resume" <=> pc[u] = "resume"
                         /\ pc'[u] = "add" <=> pc[u] = "add"
                         /\ pc'[u] = "idle" <=> pc[u] = "idle"
                         /\ pc'[u] = "unborn" <=> pc[u] = "unborn"
                         /\ pc'[u] \in {"halt", "join", "loop", "valid", "tweak"}
                              <=> pc[u] \in {"halt", "join", "loop", "valid", "tweak"}
                         /\ pc'[u] \in Calling \ {"add"} <=> pc[u] \in Calling \ {"add"}
  BY <1>1 DEF Calling
<1>5. /\ \A u \in Threads : \A r : InRequest(u, r)' <=> InRequest(u, r)
      /\ \A u \in Threads : \A r : LetGo(u, r)' <=> LetGo(u, r)
      /\ \A u \in Threads : \A r : Uses(u, r)' <=> Uses(u, r)
      /\ \A r : Queued(r)' <=> Queued(r)
  BY <1>2, <1>4 DEF InRequest, LetGo, Uses, Queued
<1>6. PlaceInv'
  BY <1>2, <1>4 DEF RequestInv, PlaceInv, PlaceOf
<1>7. NewInv'
  BY <1>4, <1>5 DEF RequestInv, NewInv, NewOf
<1>8. FreeInv'
  BY <1>5 DEF RequestInv, FreeInv
<1>9. RefInv'
  <2>1. \A r : Users(r)' = Users(r)
    BY <1>5 DEF Users
  <2> QED
    BY <2>1 DEF RequestInv, RefInv
<1>10. SoleInv'
  BY <1>5 DEF RequestInv, SoleInv
<1>11. RejectInv'
  BY <1>5 DEF RequestInv, RejectInv
<1>12. PendingInv'
  <2>1. \A u \in Threads : pc'[u] = "tweak" => Dies(u, wish[cur[u]])
    BY <1>1 DEF RequestInv, PendingInv, PendingOf, Calling
  <2> QED
    BY <1>3, <1>5, <2>1 DEF RequestInv, PendingInv, PendingOf
<1> QED
  BY <1>5, <1>6, <1>7, <1>8, <1>9, <1>10, <1>11, <1>12

\* A thread on its way to sleep, and awake again.
LEMMA WaitSteps ==
  ASSUME TypeOK, RequestInv, NEW t \in Threads,
         Check(t) \/ Sleep(t) \/ Acquire(t) \/ AcquireFails(t)
  PROVE  TypeOK' /\ RequestInv'
<1> USE DEF reqVars, threadVars, haltVars, queueVars, workerVars
<1> DEFINE r == cur[t]
<1>1. PICK a \in Calling \ {"add"} : pc' = [pc EXCEPT ![t] = a]
  BY DEF Check, Sleep, Acquire, AcquireFails, Go, Calling
<1>2. /\ pc[t] \in Calling \ {"add"}
      /\ UNCHANGED <<cur, own, pending, unwind, thread, wish, refcnt, rejected, freed,
                     executed, completed, queue, size, mutex, haltVars, worker, hand, panic>>
      /\ interrupted' \subseteq interrupted
  BY DEF Check, Sleep, Acquire, AcquireFails, Calling
<1>3. Uses(t, r) /\ r \in Requests /\ r \notin freed
  BY <1>2, PlaceUses
<1>4. \/ post' = post
      \/ Acquire(t) /\ post[r] > 0 /\ post' = [post EXCEPT ![r] = @ - 1]
  BY DEF Check, Sleep, Acquire, AcquireFails
<1>5. /\ PlaceInv' /\ NewInv' /\ FreeInv' /\ RefInv' /\ SoleInv' /\ RejectInv'
      /\ PendingInv' /\ \A u \in Threads, q \in Requests : InRequest(u, q)' <=> InRequest(u, q)
  BY <1>1, <1>2, ThreadMoves
<1>6. TypeOK'
  <2>1. pc' \in [Threads -> {"unborn", "idle"} \cup Calling \cup Dying]
    BY <1>1 DEF TypeOK
  <2>2. post' \in [Requests -> Nat]
    BY <1>3, <1>4 DEF TypeOK
  <2> QED
    BY <1>2, <2>1, <2>2 DEF TypeOK
<1>7. PostInv'
  <2> SUFFICES ASSUME NEW q \in Requests \ (freed \cup completed \cup rejected)
               PROVE  /\ \A u \in Threads : InRequest(u, q)' /\ pc'[u] = "woken" => u \in unwind
                      /\ post'[q] > 0 => wish[q] \notin Comparable
                                         /\ \A u \in Threads : ~InRequest(u, q)'
    BY <1>2 DEF PostInv
  <2>1. /\ \A u \in Threads : InRequest(u, q) /\ pc[u] = "woken" => u \in unwind
        /\ post[q] > 0 => wish[q] \notin Comparable /\ \A u \in Threads : ~InRequest(u, q)
    BY DEF RequestInv, PostInv
  <2>2. post'[q] > 0 => post[q] > 0
    BY <1>3, <1>4 DEF TypeOK
  <2>3. pc'[t] = "woken" /\ pc[t] # "woken" /\ InRequest(t, q) => t \in unwind
    <3>1. CASE Acquire(t)
      BY <2>1, <3>1 DEF Acquire, InRequest
    <3>2. CASE Check(t) \/ Sleep(t) \/ AcquireFails(t)
      BY <3>2 DEF Check, Sleep, AcquireFails, Go, TypeOK
    <3> QED
      BY <3>1, <3>2
  <2>4. \A u \in Threads : u # t => pc'[u] = pc[u]
    BY <1>1 DEF TypeOK
  <2> QED
    BY <1>5, <2>1, <2>2, <2>3, <2>4
<1> QED
  BY <1>2, <1>5, <1>6, <1>7, PartsStay DEF RequestInv

\* halt and isRequestValid.
LEMMA HaltSteps ==
  ASSUME TypeOK, RequestInv, NEW t \in Threads,
         HaltStops(t) \/ HaltJoins(t) \/ JoinLoops(t) \/ HaltSkips(t) \/ CheckValid(t)
  PROVE  TypeOK' /\ RequestInv'
<1> USE DEF reqVars, threadVars, haltVars, queueVars, workerVars
<1>1. /\ UNCHANGED <<cur, own, pending, unwind, interrupted, thread, wish, refcnt, post,
                     rejected, freed, executed, completed, queue, hand>>
      /\ mutex' \in Nat /\ size' \in Nat /\ stop' \in BOOLEAN /\ halted' \in BOOLEAN
      /\ panic' \in BOOLEAN
      /\ worker' = worker \/ (worker = "gone" /\ worker' = "none")
      /\ pc[t] \in {"halt", "join", "valid"}
  <2>1. CASE HaltStops(t)
    BY <2>1 DEF HaltStops, TypeOK
  <2>2. CASE HaltJoins(t)
    BY <2>2 DEF HaltJoins, TypeOK
  <2>3. CASE JoinLoops(t)
    BY <2>3 DEF JoinLoops, TypeOK
  <2>4. CASE HaltSkips(t)
    BY <2>4 DEF HaltSkips, Guarded, TypeOK
  <2>5. CASE CheckValid(t)
    <3>1. mutex' \in Nat
      BY <2>5 DEF CheckValid, Guarded, TypeOK
    <3>2. panic' \in BOOLEAN
      BY <2>5, Zenon DEF CheckValid, TypeOK
    <3> QED
      BY <2>5, <3>1, <3>2 DEF CheckValid, TypeOK
  <2> QED
    BY <2>1, <2>2, <2>3, <2>4, <2>5
<1>2. /\ PlaceInv' /\ NewInv' /\ FreeInv' /\ RefInv' /\ SoleInv' /\ RejectInv'
      /\ PendingInv' /\ PostInv' /\ pc' \in [Threads -> {"unborn", "idle"} \cup Calling \cup Dying]
  <2>1. CASE pc' = pc
    BY <1>1, <2>1, PartsStay DEF RequestInv, TypeOK
  <2>2. CASE pc' # pc
    <3>1. PICK a \in {"join", "loop", "valid", "tweak"} : pc' = [pc EXCEPT ![t] = a]
      BY <2>2 DEF HaltStops, HaltJoins, JoinLoops, HaltSkips, CheckValid, Go
    <3>2. ASSUME a = "tweak"
          PROVE  Dies(t, wish[cur[t]])
      <4>1. pc'[t] = "tweak"
        BY <3>1, <3>2 DEF TypeOK
      <4>2. CheckValid(t) /\ Valid(cur[t]) /\ pc[t] = "valid"
        BY <2>2, <4>1 DEF HaltStops, HaltJoins, JoinLoops, HaltSkips, CheckValid, Go, TypeOK
      <4>3. Queued(cur[t])
        BY <4>2 DEF Valid, Queued
      <4>4. cur[t] \in pending[t] /\ ~LetGo(t, cur[t]) /\ ~InRequest(t, cur[t])
        BY <4>2 DEF RequestInv, PlaceInv, PlaceOf, LetGo, InRequest, Calling
      <4> QED
        BY <4>3, <4>4 DEF RequestInv, PendingInv, PendingOf, Dies
    <3>3. /\ PlaceInv' /\ NewInv' /\ FreeInv' /\ RefInv' /\ SoleInv' /\ RejectInv'
          /\ PendingInv' /\ \A u \in Threads, q \in Requests : InRequest(u, q)' <=> InRequest(u, q)
      BY <1>1, <3>1, <3>2, ThreadMoves
    <3>4. pc' \in [Threads -> {"unborn", "idle"} \cup Calling \cup Dying]
      BY <3>1 DEF TypeOK, Dying
    <3>5. \A u \in Threads : pc'[u] = "woken" => pc[u] = "woken"
      BY <3>1 DEF TypeOK
    <3>6. PostInv'
      BY <1>1, <3>3, <3>5 DEF RequestInv, PostInv
    <3> QED
      BY <3>3, <3>4, <3>6
  <2> QED
    BY <2>1, <2>2
<1>3. TypeOK'
  BY <1>1, <1>2 DEF TypeOK
<1>4. WorkInv'
  BY <1>1 DEF RequestInv, WorkInv, Queued
<1> QED
  BY <1>1, <1>2, <1>3, <1>4, PartsStay DEF RequestInv

\* A thread is asked to unwind.
LEMMA UnwindStep ==
  ASSUME TypeOK, RequestInv, NEW t \in Threads, Unwind(t)
  PROVE  TypeOK' /\ RequestInv'
<1> USE DEF reqVars, threadVars, haltVars, queueVars, workerVars
<1>1. /\ unwind' = unwind \cup {t} /\ <<t, wish[cur[t]]>> \in Unwinding
      /\ UNCHANGED <<queueVars, haltVars, workerVars, reqVars, pc, cur, own, pending,
                     interrupted, panic>>
  BY DEF Unwind
<1>2. t \in Callers
  BY <1>1, RequestQueueAssumption
<1>3. TypeOK'
  BY <1>1, <1>2 DEF TypeOK
<1>4. PlaceInv'
  BY <1>1 DEF RequestInv, PlaceInv, PlaceOf
<1>5. PostInv'
  BY <1>1 DEF RequestInv, PostInv, InRequest
<1>6. PendingInv'
  BY <1>1 DEF RequestInv, PendingInv, PendingOf, Queued, InRequest, LetGo
<1> QED
  BY <1>1, <1>3, <1>4, <1>5, <1>6, PartsStay DEF RequestInv

----------------------------------------------------------------------------
(* The worker *)

\* The request the worker has in its hand is not in the queue any more.
LEMMA TakeStep ==
  ASSUME TypeOK, RequestInv, WorkerTakes
  PROVE  TypeOK' /\ RequestInv'
<1> USE DEF reqVars, threadVars, haltVars, queueVars, workerVars
<1> DEFINE p == MostImportant
<1>0. p \in Priorities
  BY MostImportantList
<1>1. worker = "take" /\ UNCHANGED <<size, mutex, haltVars, reqVars, threadVars, panic>>
  BY DEF WorkerTakes
<1> HIDE DEF p
<1>2. CASE queue[p] = <<>>
  <2>1. worker' = "acquire" /\ UNCHANGED <<queue, hand>>
    BY <1>2 DEF WorkerTakes, p
  <2>2. TypeOK'
    BY <1>1, <2>1 DEF TypeOK
  <2>3. WorkInv'
    BY <1>1, <2>1 DEF RequestInv, WorkInv, Queued
  <2> QED
    BY <1>1, <2>1, <2>2, <2>3, PartsStay DEF RequestInv
<1>3. CASE queue[p] # <<>>
  <2> DEFINE r == Head(queue[p])
  <2>1. /\ worker' = "run" /\ hand' = r /\ queue' = [queue EXCEPT ![p] = Tail(@)]
    BY <1>3 DEF WorkerTakes, p
  <2> HIDE DEF r
  <2>2. /\ ListInv' /\ queue' \in [Priorities -> Seq(Requests)]
        /\ r \in Requests /\ Queued(r)
        /\ \A q : Queued(q)' <=> Queued(q) /\ q # r
    BY <1>0, <1>3, <2>1, ListShrinks DEF RequestInv, r
  <2>3. TypeOK'
    BY <1>1, <2>1, <2>2 DEF TypeOK, Requests
  <2>4. WorkInv'
    BY <1>1, <2>1, <2>2 DEF RequestInv, WorkInv, Requests
  <2>5. /\ \A u \in Threads : \A q : InRequest(u, q)' <=> InRequest(u, q)
        /\ \A u \in Threads : \A q : LetGo(u, q)' <=> LetGo(u, q)
        /\ \A u \in Threads : \A q : Uses(u, q)' <=> Uses(u, q)
    BY <1>1 DEF InRequest, LetGo, Uses
  <2>6. NewInv'
    BY <1>1, <2>1, <2>2, <2>5 DEF RequestInv, NewInv, NewOf
  <2>7. FreeInv'
    BY <1>1, <2>1, <2>2, <2>5 DEF RequestInv, FreeInv
  <2>8. PendingInv'
    BY <1>1, <2>2, <2>5 DEF RequestInv, PendingInv, PendingOf
  <2> QED
    BY <1>1, <2>2, <2>3, <2>4, <2>6, <2>7, <2>8, PartsStay DEF RequestInv
<1> QED
  BY <1>2, <1>3

\* The worker lets go of a request that is rejected, or executes it.
LEMMA SkipExecuteSteps ==
  ASSUME TypeOK, RequestInv, WorkerSkips \/ Execute
  PROVE  TypeOK' /\ RequestInv'
<1> USE DEF reqVars, threadVars, haltVars, queueVars, workerVars
<1>0. \A r : Queued(r)' <=> Queued(r)
  BY DEF WorkerSkips, Execute, Queued
<1>1. /\ \A u \in Threads : \A q : InRequest(u, q)' <=> InRequest(u, q)
      /\ \A u \in Threads : \A q : LetGo(u, q)' <=> LetGo(u, q)
      /\ \A u \in Threads : \A q : Uses(u, q)' <=> Uses(u, q)
  BY DEF WorkerSkips, Execute, InRequest, LetGo, Uses
<1>2. \A u \in Threads : pc[u] = "add" => cur[u] # 0
  BY NewIsRequest
<1>3. 0 \notin Requests /\ hand \in Requests \cup {0} /\ 0 \in 0 .. MaxRequests
  BY RequestQueueAssumption DEF Requests, TypeOK
<1>4. CASE WorkerSkips
  <2>1. /\ worker = "run" /\ worker' = "acquire" /\ hand' = 0
        /\ UNCHANGED <<queueVars, haltVars, reqVars, threadVars, panic>>
    BY <1>4 DEF WorkerSkips
  <2>2. TypeOK'
    BY <1>3, <2>1 DEF TypeOK
  <2>3. WorkInv'
    BY <1>0, <1>3, <2>1 DEF RequestInv, WorkInv, TypeOK
  <2>4. NewInv'
    BY <1>0, <1>1, <1>2, <2>1 DEF RequestInv, NewInv, NewOf
  <2>5. FreeInv'
    BY <1>0, <1>1, <1>3, <2>1 DEF RequestInv, FreeInv, TypeOK
  <2> QED
    BY <2>1, <2>2, <2>3, <2>4, <2>5, PartsStay DEF RequestInv
<1>5. CASE Execute
  <2>1. /\ worker = "execute" /\ worker' = "post" /\ executed' = executed \cup {hand}
        /\ UNCHANGED <<queueVars, haltVars, hand, wish, refcnt, post, thread, completed,
                       rejected, freed, threadVars, panic>>
    BY <1>5 DEF Execute
  <2>2. hand \in Requests
    BY <1>3, <2>1 DEF RequestInv, WorkInv
  <2>3. TypeOK'
    BY <2>1, <2>2 DEF TypeOK
  <2>4. WorkInv'
    BY <1>0, <2>1 DEF RequestInv, WorkInv
  <2>5. NewInv'
    BY <1>0, <1>1, <2>1 DEF RequestInv, NewInv, NewOf
  <2> QED
    BY <2>1, <2>3, <2>4, <2>5, PartsStay DEF RequestInv
<1> QED
  BY <1>4, <1>5

\* The worker tells the caller.
LEMMA AnswersStep ==
  ASSUME TypeOK, RequestInv, WorkerAnswers
  PROVE  TypeOK' /\ RequestInv'
<1> USE DEF reqVars, threadVars, haltVars, queueVars, workerVars
<1>0. 0 \notin Requests /\ hand \in Requests \cup {0} /\ 0 \in 0 .. MaxRequests
  BY RequestQueueAssumption DEF Requests, TypeOK
<1>1. /\ worker = "answer" /\ worker' = "acquire" /\ hand' = 0
      /\ completed' = completed \cup {hand} /\ post' = [post EXCEPT ![hand] = @ + 1]
      /\ UNCHANGED <<queueVars, haltVars, wish, refcnt, thread, executed, rejected,
                     freed, threadVars, panic>>
  BY DEF WorkerAnswers
<1>2. hand \in Requests
  BY <1>0, <1>1 DEF RequestInv, WorkInv
<1>3. TypeOK'
  BY <1>0, <1>1, <1>2 DEF TypeOK
<1>4. \A r : Queued(r)' <=> Queued(r)
  BY <1>1 DEF Queued
<1>5. /\ \A u \in Threads : \A q : InRequest(u, q)' <=> InRequest(u, q)
      /\ \A u \in Threads : \A q : Uses(u, q)' <=> Uses(u, q)
  BY <1>1 DEF InRequest, LetGo, Uses
<1>6. WorkInv'
  BY <1>0, <1>1, <1>4 DEF RequestInv, WorkInv, TypeOK
<1>7. NewInv'
  <2>1. \A u \in Threads : pc[u] = "add" => cur[u] # 0
    BY NewIsRequest
  <2> QED
    BY <1>1, <1>4, <1>5, <2>1 DEF RequestInv, NewInv, NewOf
<1>8. FreeInv'
  BY <1>0, <1>1, <1>4, <1>5 DEF RequestInv, FreeInv, TypeOK
<1>9. PostInv'
  <2>1. \A q \in Requests : q # hand => post'[q] = post[q]
    BY <1>1 DEF TypeOK
  <2> QED
    BY <1>1, <1>5, <2>1 DEF RequestInv, PostInv
<1> QED
  BY <1>1, <1>3, <1>6, <1>7, <1>8, <1>9, PartsStay DEF RequestInv

\* The worker finds that the caller does not wait any more.
LEMMA AbandonsStep ==
  ASSUME TypeOK, RequestInv, WorkerAbandons
  PROVE  TypeOK' /\ RequestInv'
<1> USE DEF reqVars, threadVars, haltVars, queueVars, workerVars
<1> DEFINE o == thread[hand]
<1>0. 0 \notin Requests /\ hand \in Requests \cup {0} /\ 0 \in 0 .. MaxRequests
  BY RequestQueueAssumption DEF Requests, TypeOK
<1>1. /\ worker = "post" /\ worker' = "acquire" /\ hand' = 0 /\ post[hand] > 0
      /\ post' = [post EXCEPT ![hand] = @ - 1]
      /\ UNCHANGED <<queueVars, haltVars, wish, refcnt, thread, executed, completed,
                     rejected, freed, pc, cur, own, unwind, interrupted, panic>>
  BY DEF WorkerAbandons
<1>2. hand \in Requests
  BY <1>0, <1>1 DEF RequestInv, WorkInv
<1>3. /\ \/ pending' = pending
         \/ o \in Threads /\ pc[o] \notin Dying /\ pending' = [pending EXCEPT ![o] = @ \ {hand}]
      /\ pending' \in [Threads -> SUBSET Requests]
  <2>1. CASE o # NoThread /\ pc[o] \notin Dying
    <3>1. o \in Threads /\ pending' = [pending EXCEPT ![o] = @ \ {hand}]
      BY <1>2, <2>1 DEF WorkerAbandons, TypeOK
    <3> QED
      BY <2>1, <3>1 DEF TypeOK
  <2>2. CASE ~(o # NoThread /\ pc[o] \notin Dying)
    BY <2>2 DEF WorkerAbandons, TypeOK
  <2> QED
    BY <2>1, <2>2
<1>4. /\ \A u \in Threads : pending'[u] \subseteq pending[u]
      /\ \A u \in Threads : pc[u] \in Dying => pending'[u] = pending[u]
  BY <1>3 DEF TypeOK
<1> HIDE DEF o
<1>5. TypeOK'
  <2>1. post' \in [Requests -> Nat]
    BY <1>1, <1>2 DEF TypeOK
  <2> QED
    BY <1>0, <1>1, <1>3, <2>1 DEF TypeOK
<1>6. \A r : Queued(r)' <=> Queued(r)
  BY <1>1 DEF Queued
<1>7. /\ \A u \in Threads : \A q : InRequest(u, q)' <=> InRequest(u, q)
      /\ \A u \in Threads : \A q : LetGo(u, q)' <=> LetGo(u, q)
      /\ \A u \in Threads : \A q : Uses(u, q)' => Uses(u, q)
  BY <1>1, <1>4 DEF InRequest, LetGo, Uses
<1>8. PlaceInv'
  <2>1. \A u \in Threads : pc[u] \in {"halt", "join", "loop", "valid", "tweak"}
          => pending'[u] = pending[u]
    BY <1>4 DEF Dying
  <2>2. \A u \in Threads : pc[u] = "unborn" => pending'[u] = {}
    BY <1>4 DEF RequestInv, PlaceInv, PlaceOf
  <2> QED
    BY <1>1, <2>1, <2>2 DEF RequestInv, PlaceInv, PlaceOf
<1>9. WorkInv'
  BY <1>0, <1>1, <1>6 DEF RequestInv, WorkInv, TypeOK
<1>10. NewInv'
  <2>1. \A u \in Threads : pc[u] = "add" => cur[u] # 0
    BY NewIsRequest
  <2> QED
    BY <1>1, <1>4, <1>6, <1>7, <2>1 DEF RequestInv, NewInv, NewOf
<1>11. FreeInv'
  BY <1>0, <1>1, <1>6, <1>7 DEF RequestInv, FreeInv, TypeOK
<1>12. RefInv'
  <2> SUFFICES ASSUME NEW r \in Requests \ freed
               PROVE  Cardinality(Users(r))' + (IF r \in rejected THEN 1 ELSE 0) <= refcnt[r]
    BY <1>1 DEF RefInv
  <2>1. Cardinality(Users(r))' \in Nat /\ Cardinality(Users(r))' <= Cardinality(Users(r))
    BY <1>7, FewerUsers
  <2>2. Cardinality(Users(r)) + (IF r \in rejected THEN 1 ELSE 0) <= refcnt[r]
    BY DEF RequestInv, RefInv
  <2>3. Cardinality(Users(r)) \in Nat /\ refcnt[r] \in Nat
    BY UsersFinite DEF TypeOK
  <2> QED
    BY <2>1, <2>2, <2>3
<1>13. PostInv'
  <2>1. \A q \in Requests : post'[q] > 0 => post[q] > 0
    BY <1>1 DEF TypeOK
  <2> QED
    BY <1>1, <1>7, <2>1 DEF RequestInv, PostInv
<1>14. SoleInv'
  BY <1>1, <1>7 DEF RequestInv, SoleInv
<1>15. RejectInv'
  BY <1>1, <1>4, <1>7 DEF RequestInv, RejectInv
<1>16. PendingInv'
  BY <1>1, <1>4, <1>6, <1>7 DEF RequestInv, PendingInv, PendingOf
<1> QED
  BY <1>1, <1>5, <1>8, <1>9, <1>10, <1>11, <1>12, <1>13, <1>14, <1>15, <1>16, PartsStay
     DEF RequestInv

----------------------------------------------------------------------------
(* addRequest *)

\* A new request is used by the thread that creates it, and by nobody else.
LEMMA CreateStep ==
  ASSUME TypeOK, RequestInv, NEW t \in Threads, NEW w \in Wishes,
         pc[t] \in {"idle", "unborn"}, t \notin unwind, Create(t, w)
  PROVE  TypeOK' /\ RequestInv'
<1> USE DEF reqVars, threadVars, haltVars, queueVars, workerVars
<1> DEFINE r == CHOOSE q \in freed : \A x \in freed : q <= x
<1>0. freed \subseteq Requests /\ Requests \subseteq Nat /\ 0 \notin Requests
  BY RequestQueueAssumption DEF TypeOK, Requests
<1>1. r \in freed /\ r \in Requests
  <2>1. \E q \in freed : \A x \in freed : q <= x
    BY <1>0, SmallestNumber DEF Create
  <2> QED
    BY <1>0, <2>1
<1>2. /\ freed' = freed \ {r} /\ wish' = [wish EXCEPT ![r] = w]
      /\ refcnt' = [refcnt EXCEPT ![r] = 1] /\ post' = [post EXCEPT ![r] = 0]
      /\ thread' = [thread EXCEPT ![r] = NoThread]
      /\ executed' = executed \ {r} /\ completed' = completed \ {r}
      /\ rejected' = rejected \ {r}
      /\ cur' = [cur EXCEPT ![t] = r] /\ pc' = [pc EXCEPT ![t] = "add"]
      /\ UNCHANGED <<queueVars, haltVars, workerVars, own, pending, unwind, interrupted, panic>>
  BY DEF Create, Go
<1> HIDE DEF r
<1>3. TypeOK'
  <2>1. /\ wish' \in [Requests -> Wishes]
        /\ refcnt' \in [Requests -> Nat] /\ post' \in [Requests -> Nat]
        /\ thread' \in [Requests -> Threads \cup {NoThread}]
    BY <1>2 DEF TypeOK
  <2>2. /\ pc' \in [Threads -> {"unborn", "idle"} \cup Calling \cup Dying]
    BY <1>2 DEF TypeOK, Calling
  <2>3. cur' \in [Threads -> 0 .. MaxRequests]
    BY <1>1, <1>2 DEF TypeOK, Requests
  <2> QED
    BY <1>2, <2>1, <2>2, <2>3 DEF TypeOK
<1>4. /\ pc'[t] = "add" /\ cur'[t] = r
      /\ \A u \in Threads : u # t => pc'[u] = pc[u] /\ cur'[u] = cur[u]
      /\ \A q \in Requests : q # r => /\ wish'[q] = wish[q] /\ refcnt'[q] = refcnt[q]
                                      /\ post'[q] = post[q] /\ thread'[q] = thread[q]
      /\ wish'[r] = w /\ refcnt'[r] = 1 /\ post'[r] = 0
  BY <1>1, <1>2 DEF TypeOK
<1>5. ~Queued(r) /\ hand # r /\ \A u \in Threads : ~Uses(u, r)
  BY <1>1 DEF RequestInv, FreeInv
<1>6. /\ \A u \in Threads : \A q : InRequest(u, q)' <=> InRequest(u, q) \/ (u = t /\ q = r)
      /\ \A u \in Threads : \A q : LetGo(u, q)' <=> LetGo(u, q)
  BY <1>4 DEF InRequest, LetGo, Calling
<1>7. \A u \in Threads : \A q : Uses(u, q)' <=> Uses(u, q) \/ (u = t /\ q = r)
  BY <1>2, <1>6 DEF Uses
<1>8. \A q : Queued(q)' <=> Queued(q)
  BY <1>2 DEF Queued
<1>9. /\ r \notin pending[t]
      /\ \A u \in Threads : pc[u] \in Calling => cur[u] # r
      /\ \A u \in Threads : pc[u] = "tweak" => cur[u] # r
      /\ \A u \in Threads : pc[u] \in Calling => cur[u] \in Requests
      /\ \A u \in Threads : pc[u] = "tweak" => cur[u] \in Requests
      /\ \A u \in Threads : pc[u] = "add" => cur[u] \in Requests
  <2>1. r \notin pending[t]
    BY <1>5 DEF Uses, LetGo
  <2>2. \A u \in Threads : pc[u] \in Calling => Uses(u, cur[u]) /\ cur[u] \in Requests
    BY PlaceUses
  <2>3. \A u \in Threads : pc[u] = "tweak" => Uses(u, cur[u]) /\ cur[u] \in Requests
    BY PlaceUses
  <2> QED
    BY <1>5, <2>1, <2>2, <2>3 DEF Calling
<1>10. PlaceInv'
  <2>1. PlaceOf(t)'
    BY <1>1, <1>2, <1>4 DEF RequestInv, PlaceInv, PlaceOf
  <2>2. ASSUME NEW u \in Threads, u # t
        PROVE  PlaceOf(u)'
    <3>1. PlaceOf(u)
      BY DEF RequestInv, PlaceInv
    <3>2. pc[u] \in Calling => thread'[cur[u]] = thread[cur[u]] /\ wish'[cur[u]] = wish[cur[u]]
      BY <1>4, <1>9
    <3> QED
      BY <1>2, <1>4, <2>2, <3>1, <3>2 DEF PlaceOf
  <2> QED
    BY <2>1, <2>2 DEF PlaceInv
<1>11. WorkInv'
  BY <1>2, <1>5, <1>8 DEF RequestInv, WorkInv
<1>12. NewInv'
  <2>1. NewOf(t)'
    BY <1>2, <1>4, <1>5, <1>7, <1>8, <1>9 DEF NewOf
  <2>2. ASSUME NEW u \in Threads, u # t
        PROVE  NewOf(u)'
    BY <1>2, <1>4, <1>7, <1>8, <1>9, <2>2 DEF RequestInv, NewInv, NewOf, Calling
  <2> QED
    BY <2>1, <2>2 DEF NewInv
<1>13. FreeInv'
  BY <1>2, <1>7, <1>8 DEF RequestInv, FreeInv
<1>14. RefInv'
  <2> SUFFICES ASSUME NEW q \in Requests \ freed'
               PROVE  Cardinality(Users(q))' + (IF q \in rejected' THEN 1 ELSE 0) <= refcnt'[q]
    BY DEF RefInv
  <2>1. CASE q = r
    <3>1. Users(q)' = {t}
      BY <1>5, <1>7, <2>1 DEF Users
    <3>2. Cardinality(Users(q)') = 1
      BY <3>1, FS_Singleton
    <3> QED
      BY <1>2, <1>4, <2>1, <3>2
  <2>2. CASE q # r
    <3>1. Users(q)' = Users(q)
      BY <1>7, <2>2 DEF Users
    <3>2. q \in Requests \ freed /\ refcnt'[q] = refcnt[q] /\ (q \in rejected' <=> q \in rejected)
      BY <1>2, <1>4, <2>2
    <3> QED
      BY <3>1, <3>2 DEF RequestInv, RefInv
  <2> QED
    BY <2>1, <2>2
<1>15. PostInv'
  <2>1. ASSUME NEW q \in Requests \ (freed' \cup completed' \cup rejected')
        PROVE  /\ \A u \in Threads : InRequest(u, q)' /\ pc'[u] = "woken" => u \in unwind'
               /\ post'[q] > 0 => wish'[q] \notin Comparable
                                  /\ \A u \in Threads : ~InRequest(u, q)'
    <3>1. CASE q = r
      <4>1. \A u \in Threads : ~InRequest(u, r)
        BY <1>5 DEF Uses
      <4> QED
        BY <1>4, <1>6, <3>1, <4>1
    <3>2. CASE q # r
      BY <1>2, <1>4, <1>6, <3>2 DEF RequestInv, PostInv
    <3> QED
      BY <3>1, <3>2
  <2> QED
    BY <2>1 DEF PostInv
<1>16. SoleInv'
  BY <1>4, <1>5, <1>7 DEF RequestInv, SoleInv
<1>17. RejectInv'
  BY <1>0, <1>2, <1>4, <1>7 DEF RequestInv, RejectInv, TypeOK
<1>18. PendingInv'
  <2>1. PendingOf(t)'
    <3>1. ASSUME NEW q \in pending[t], Queued(q)
          PROVE  (t \in unwind /\ <<t, wish[q]>> \in Unwinding) \/ LetGo(t, q)
      BY <3>1 DEF RequestInv, PendingInv, PendingOf, InRequest, Calling, Dying
    <3>2. \A q \in pending[t] : q \in Requests /\ q # r
      BY <1>9 DEF TypeOK
    <3> QED
      BY <1>2, <1>4, <1>6, <1>8, <3>1, <3>2 DEF RequestInv, PendingInv, PendingOf
  <2>2. ASSUME NEW u \in Threads, u # t
        PROVE  PendingOf(u)'
    <3>1. PendingOf(u)
      BY DEF RequestInv, PendingInv
    <3>2. \A q \in pending[u] : q \in Requests /\ (Queued(q) => wish'[q] = wish[q])
      BY <1>4, <1>5 DEF TypeOK
    <3>3. pc[u] = "tweak" => wish'[cur[u]] = wish[cur[u]]
      BY <1>4, <1>9
    <3> QED
      BY <1>2, <1>4, <1>6, <1>8, <2>2, <3>1, <3>2, <3>3 DEF PendingOf
  <2> QED
    BY <2>1, <2>2 DEF PendingInv
<1> QED
  BY <1>2, <1>3, <1>10, <1>11, <1>12, <1>13, <1>14, <1>15, <1>16, <1>17, <1>18, PartsStay
     DEF RequestInv

\* The thread queues its request.
LEMMA InsertStep ==
  ASSUME TypeOK, RequestInv, NEW t \in Threads, Insert(t)
  PROVE  TypeOK' /\ RequestInv'
<1> USE DEF reqVars, threadVars, haltVars, queueVars, workerVars
<1> DEFINE r == cur[t]
           p == Priority[wish[r]]
<1>0. pc[t] = "add" /\ r \in Requests /\ r \notin freed
  <2>1. pc[t] = "add"
    BY DEF Insert
  <2> QED
    BY <2>1, PlaceUses DEF Calling
<1>1. p \in Priorities
  BY <1>0, RequestQueueAssumption DEF TypeOK
<1>2. /\ queue' = [queue EXCEPT ![p] = Append(@, r)] /\ own' = own \cup {t}
      /\ thread' = [thread EXCEPT ![r] = t]
      /\ pending' = [pending EXCEPT ![t] = @ \cup {r}]
      /\ size' = size + 1 /\ mutex' \in Nat /\ pc' = [pc EXCEPT ![t] = "check"]
      /\ UNCHANGED <<haltVars, workerVars, wish, refcnt, post, executed, completed,
                     rejected, freed, cur, unwind, interrupted, panic>>
  BY DEF Insert, Go, Guarded, TypeOK
<1>3. /\ ~Queued(r) /\ hand # r /\ r \notin executed /\ r \notin rejected
      /\ r \notin pending[t] /\ \A u \in Threads : Uses(u, r) => u = t
  BY <1>0 DEF RequestInv, NewInv, NewOf
<1> HIDE DEF r, p
<1>4. ListInv' /\ \A q : Queued(q)' <=> Queued(q) \/ q = r
  BY <1>0, <1>1, <1>2, <1>3, ListGrows DEF RequestInv
<1>5. TypeOK'
  <2>1. queue' \in [Priorities -> Seq(Requests)]
    BY <1>0, <1>1, <1>2 DEF TypeOK
  <2>2. thread' \in [Requests -> Threads \cup {NoThread}]
    BY <1>2 DEF TypeOK
  <2>3. pc' \in [Threads -> {"unborn", "idle"} \cup Calling \cup Dying]
    BY <1>2 DEF TypeOK, Calling
  <2>4. pending' \in [Threads -> SUBSET Requests]
    BY <1>0, <1>2 DEF TypeOK
  <2>5. size' \in Nat
    BY <1>2 DEF TypeOK
  <2> QED
    BY <1>2, <2>1, <2>2, <2>3, <2>4, <2>5 DEF TypeOK
<1>6. /\ pc'[t] = "check" /\ pending'[t] = pending[t] \cup {r} /\ cur[t] = r
      /\ \A u \in Threads : u # t => pc'[u] = pc[u] /\ pending'[u] = pending[u]
      /\ thread'[r] = t /\ \A q \in Requests : q # r => thread'[q] = thread[q]
  BY <1>0, <1>2 DEF TypeOK, r
<1>7. /\ \A u \in Threads : \A q : InRequest(u, q)' <=> InRequest(u, q)
      /\ \A u \in Threads : \A q : LetGo(u, q)' <=> LetGo(u, q)
  BY <1>0, <1>2, <1>6 DEF InRequest, LetGo, Calling
<1>8. InRequest(t, r) /\ \A q : InRequest(t, q) => q = r
  BY <1>0 DEF InRequest, Calling, r
<1>9. \A u \in Threads : \A q : Uses(u, q)' <=> Uses(u, q)
  BY <1>6, <1>7, <1>8 DEF Uses
<1>10. \A u \in Threads : u # t /\ pc[u] \in Calling => cur[u] # r /\ cur[u] \in Requests
  <2>1. \A u \in Threads : pc[u] \in Calling => Uses(u, cur[u]) /\ cur[u] \in Requests
    BY PlaceUses
  <2> QED
    BY <1>3, <2>1
<1>11. PlaceInv'
  <2>1. PlaceOf(t)'
    BY <1>0, <1>2, <1>6 DEF RequestInv, PlaceInv, PlaceOf, Calling
  <2>2. ASSUME NEW u \in Threads, u # t
        PROVE  PlaceOf(u)'
    BY <1>2, <1>6, <1>10, <2>2 DEF RequestInv, PlaceInv, PlaceOf
  <2> QED
    BY <2>1, <2>2 DEF PlaceInv
<1>12. WorkInv'
  BY <1>2, <1>3, <1>4 DEF RequestInv, WorkInv
<1>13. NewInv'
  <2>1. ASSUME NEW u \in Threads
        PROVE  NewOf(u)'
    <3>1. CASE u = t
      BY <1>6, <3>1 DEF NewOf
    <3>2. CASE u # t
      BY <1>2, <1>4, <1>6, <1>9, <1>10, <3>2 DEF RequestInv, NewInv, NewOf, Calling
    <3> QED
      BY <3>1, <3>2
  <2> QED
    BY <2>1 DEF NewInv
<1>14. FreeInv'
  BY <1>0, <1>2, <1>4, <1>9 DEF RequestInv, FreeInv
<1>15. RefInv'
  <2>1. \A q : Users(q)' = Users(q)
    BY <1>9 DEF Users
  <2> QED
    BY <1>2, <2>1 DEF RequestInv, RefInv
<1>16. PostInv'
  <2>1. \A u \in Threads : pc'[u] = "woken" => pc[u] = "woken"
    BY <1>6
  <2> QED
    BY <1>2, <1>7, <2>1 DEF RequestInv, PostInv
<1>17. SoleInv'
  BY <1>2, <1>9 DEF RequestInv, SoleInv
<1>18. RejectInv'
  BY <1>2, <1>3, <1>6, <1>9 DEF RequestInv, RejectInv, TypeOK
<1>19. PendingInv'
  <2>1. PendingOf(t)'
    <3>1. PendingOf(t)
      BY DEF RequestInv, PendingInv
    <3>2. \A q \in pending[t] : q # r
      BY <1>3
    <3>3. ASSUME NEW q \in pending[t], Queued(q), ~LetGo(t, q)
          PROVE  t \in unwind /\ <<t, wish[q]>> \in Unwinding
      BY <1>0, <1>8, <3>1, <3>2, <3>3 DEF PendingOf, Dying
    <3> QED
      BY <1>2, <1>4, <1>6, <1>7, <1>8, <3>2, <3>3 DEF PendingOf
  <2>2. ASSUME NEW u \in Threads, u # t
        PROVE  PendingOf(u)'
    <3>1. PendingOf(u)
      BY DEF RequestInv, PendingInv
    <3>2. \A q \in pending[u] : q = r => LetGo(u, q)
      BY <1>3, <2>2 DEF Uses
    <3> QED
      BY <1>2, <1>4, <1>6, <1>7, <2>2, <3>1, <3>2 DEF PendingOf
  <2> QED
    BY <2>1, <2>2 DEF PendingInv
<1> QED
  BY <1>4, <1>5, <1>11, <1>12, <1>13, <1>14, <1>15, <1>16, <1>17, <1>18, <1>19 DEF RequestInv

\* The thread finds an equal request in the queue and gives up its own.
LEMMA ShareStep ==
  ASSUME TypeOK, RequestInv, NoSharedUnwind, NEW t \in Threads, Share(t)
  PROVE  TypeOK' /\ RequestInv'
<1> USE DEF reqVars, threadVars, haltVars, queueVars, workerVars
<1> DEFINE r == cur[t]
<1>0. pc[t] = "add" /\ r \in Requests /\ r \notin freed
  <2>1. pc[t] = "add"
    BY DEF Share
  <2> QED
    BY <2>1, PlaceUses DEF Calling
<1>1. PICK q \in Equals(r) : refcnt' = [refcnt EXCEPT ![q] = @ + 1]
                             /\ cur' = [cur EXCEPT ![t] = q]
  BY DEF Share
<1>2. /\ freed' = freed \cup {r} /\ size' = size + 1 /\ mutex' \in Nat
      /\ pc' = [pc EXCEPT ![t] = "check"]
      /\ UNCHANGED <<queue, haltVars, workerVars, wish, post, thread, executed,
                     completed, rejected, own, pending, unwind, interrupted, panic>>
  BY DEF Share, Go, Guarded, TypeOK
<1>3. /\ ~Queued(r) /\ hand # r /\ r \notin executed /\ r \notin rejected
      /\ r \notin pending[t] /\ \A u \in Threads : Uses(u, r) => u = t
  BY <1>0 DEF RequestInv, NewInv, NewOf
<1>4. Queued(q) /\ wish[q] = wish[r] /\ wish[q] \in Comparable /\ q \in Requests
  <2>1. Priority[wish[r]] \in Priorities
    BY <1>0, RequestQueueAssumption DEF TypeOK
  <2>2. /\ q \in Range(queue[Priority[wish[r]]]) /\ wish[q] = wish[r] /\ wish[q] \in Comparable
    BY DEF Equals
  <2>3. q \in Requests
    BY <2>1, <2>2 DEF TypeOK, Range
  <2> QED
    BY <2>1, <2>2, <2>3 DEF Queued
<1> HIDE DEF r
<1>5. q # r /\ q \notin freed
  BY <1>3, <1>4 DEF RequestInv, FreeInv
<1>6. TypeOK'
  <2>1. refcnt' \in [Requests -> Nat]
    BY <1>1, <1>4 DEF TypeOK
  <2>2. cur' \in [Threads -> 0 .. MaxRequests]
    BY <1>1, <1>4 DEF TypeOK, Requests
  <2>3. pc' \in [Threads -> {"unborn", "idle"} \cup Calling \cup Dying]
    BY <1>2 DEF TypeOK, Calling
  <2>4. size' \in Nat /\ freed' \subseteq Requests
    BY <1>0, <1>2 DEF TypeOK
  <2> QED
    BY <1>2, <2>1, <2>2, <2>3, <2>4 DEF TypeOK
<1>7. /\ pc'[t] = "check" /\ cur'[t] = q /\ cur[t] = r
      /\ \A u \in Threads : u # t => pc'[u] = pc[u] /\ cur'[u] = cur[u]
      /\ refcnt'[q] = refcnt[q] + 1 /\ \A s \in Requests : s # q => refcnt'[s] = refcnt[s]
  BY <1>1, <1>2, <1>4 DEF TypeOK, r
<1>8. /\ \A u \in Threads : \A s : u # t => (InRequest(u, s)' <=> InRequest(u, s))
      /\ \A s : InRequest(t, s)' <=> s = q
      /\ \A s : InRequest(t, s) <=> s = r
      /\ \A u \in Threads : \A s : LetGo(u, s)' <=> LetGo(u, s)
      /\ \A s : ~LetGo(t, s)
  BY <1>0, <1>7 DEF InRequest, LetGo, Calling
<1>9. /\ \A u \in Threads : \A s : u # t => (Uses(u, s)' <=> Uses(u, s))
      /\ \A s : Uses(t, s)' <=> s = q \/ s \in pending[t]
      /\ \A s : s \in pending[t] => Uses(t, s)
  BY <1>2, <1>8 DEF Uses
<1>10. \A s : Queued(s)' <=> Queued(s)
  BY <1>2 DEF Queued
<1>11. q \notin pending[t] /\ r \notin pending[t]
  <2>1. PendingOf(t)
    BY DEF RequestInv, PendingInv
  <2>2. ASSUME q \in pending[t]
        PROVE  <<t, wish[q]>> \in Unwinding
    BY <1>0, <1>4, <1>5, <1>8, <2>1, <2>2 DEF PendingOf, Dying
  <2> QED
    BY <1>3, <1>4, <2>2 DEF NoSharedUnwind
<1>12. PlaceInv'
  <2>1. PlaceOf(t)'
    <3>1. PlaceOf(t)
      BY DEF RequestInv, PlaceInv
    <3> QED
      BY <1>0, <1>2, <1>4, <1>7, <3>1 DEF PlaceOf, Calling
  <2>2. ASSUME NEW u \in Threads, u # t
        PROVE  PlaceOf(u)'
    BY <1>2, <1>7, <2>2 DEF RequestInv, PlaceInv, PlaceOf
  <2> QED
    BY <2>1, <2>2 DEF PlaceInv
<1>13. NewInv'
  <2>1. ASSUME NEW u \in Threads
        PROVE  NewOf(u)'
    <3>1. CASE u = t
      BY <1>7, <3>1 DEF NewOf
    <3>2. CASE u # t
      <4>1. pc[u] = "add" => cur[u] # q
        BY <1>4 DEF RequestInv, NewInv, NewOf
      <4> QED
        BY <1>2, <1>7, <1>9, <1>10, <3>2, <4>1 DEF RequestInv, NewInv, NewOf
    <3> QED
      BY <3>1, <3>2
  <2> QED
    BY <2>1 DEF NewInv
<1>14. FreeInv'
  <2>1. \A s \in {r} : \A u \in Threads : ~Uses(u, s)'
    BY <1>3, <1>5, <1>9, <1>11
  <2>2. \A s \in freed : \A u \in Threads : ~Uses(u, s)'
    BY <1>5, <1>9 DEF RequestInv, FreeInv
  <2> QED
    BY <1>2, <1>3, <1>10, <2>1, <2>2 DEF RequestInv, FreeInv
<1>15. RefInv'
  <2> SUFFICES ASSUME NEW s \in Requests \ freed'
               PROVE  Cardinality(Users(s))' + (IF s \in rejected THEN 1 ELSE 0) <= refcnt'[s]
    BY <1>2 DEF RefInv
  <2>1. Cardinality(Users(s)) + (IF s \in rejected THEN 1 ELSE 0) <= refcnt[s]
    BY <1>2 DEF RequestInv, RefInv
  <2>2. Cardinality(Users(s)) \in Nat /\ refcnt[s] \in Nat
    BY UsersFinite DEF TypeOK
  <2>3. CASE s = q
    <3>1. \A u \in Threads : Uses(u, s)' => Uses(u, s) \/ u = t
      BY <1>9
    <3>2. Cardinality(Users(s))' \in Nat /\ Cardinality(Users(s))' <= Cardinality(Users(s)) + 1
      BY <3>1, OneUserMore
    <3> QED
      BY <1>7, <2>1, <2>2, <2>3, <3>2
  <2>4. CASE s # q
    <3>1. \A u \in Threads : Uses(u, s)' => Uses(u, s)
      BY <1>9, <2>4
    <3>2. Cardinality(Users(s))' \in Nat /\ Cardinality(Users(s))' <= Cardinality(Users(s))
      BY <3>1, FewerUsers
    <3> QED
      BY <1>7, <2>1, <2>2, <2>4, <3>2
  <2> QED
    BY <2>3, <2>4
<1>16. PostInv'
  <2>1. \A u \in Threads : pc'[u] = "woken" => pc[u] = "woken" /\ u # t
    BY <1>7
  <2> QED
    BY <1>2, <1>4, <1>8, <2>1 DEF RequestInv, PostInv
<1>17. SoleInv'
  BY <1>2, <1>4, <1>9 DEF RequestInv, SoleInv
<1>18. RejectInv'
  BY <1>2, <1>9, <1>11 DEF RequestInv, RejectInv
<1>19. PendingInv'
  <2>1. PendingOf(t)'
    <3>1. PendingOf(t)
      BY DEF RequestInv, PendingInv
    <3>2. ASSUME NEW s \in pending[t], Queued(s)
          PROVE  t \in unwind /\ <<t, wish[s]>> \in Unwinding
      BY <1>0, <1>8, <1>11, <3>1, <3>2 DEF PendingOf, Dying
    <3> QED
      BY <1>2, <1>7, <1>8, <1>10, <1>11, <3>2 DEF PendingOf
  <2>2. ASSUME NEW u \in Threads, u # t
        PROVE  PendingOf(u)'
    BY <1>2, <1>7, <1>8, <1>10, <2>2 DEF RequestInv, PendingInv, PendingOf
  <2> QED
    BY <2>1, <2>2 DEF PendingInv
<1> QED
  BY <1>2, <1>6, <1>12, <1>13, <1>14, <1>15, <1>16, <1>17, <1>18, <1>19, PartsStay
     DEF RequestInv

\* A thread leaves addRequest and gives up its reference, if it does, together with its
\* use of the request.
LEMMA LeaveStep ==
  ASSUME TypeOK, RequestInv, NEW t \in Threads, NEW r, r = cur[t],
         pc[t] \in Calling \ {"add"}, Leave(t),
         pending' \in [Threads -> SUBSET Requests],
         pending'[t] \subseteq pending[t],
         \A u \in Threads : u # t => pending'[u] = pending[u],
         \/ UNCHANGED <<refcnt, freed>>
         \/ /\ Unref(r) /\ r \notin pending'[t]
            /\ refcnt[r] = 1 => ~Queued(r) /\ hand # r,
         Queued(r) /\ r \in pending'[t] => t \in unwind /\ <<t, wish[r]>> \in Unwinding,
         post' \in [Requests -> Nat],
         \A q \in Requests : q # r => post'[q] = post[q],
         post'[r] > 0 => r \in completed \cup rejected \/ wish[r] \notin Comparable,
         UNCHANGED <<queueVars, haltVars, workerVars, wish, thread, executed, completed,
                     rejected, unwind, interrupted, panic>>
  PROVE  TypeOK' /\ RequestInv'
<1> USE DEF reqVars, threadVars, haltVars, queueVars, workerVars
<1>0. Uses(t, r) /\ r \in Requests /\ r \notin freed
  BY PlaceUses
<1>1. PICK a \in {"idle", "dead"} : pc' = [pc EXCEPT ![t] = a]
  BY DEF Leave, Go
<1>2. cur' = [cur EXCEPT ![t] = 0] /\ own' = own \ {t}
  BY DEF Leave
<1>3. /\ pc'[t] = a /\ cur'[t] = 0
      /\ \A u \in Threads : u # t => pc'[u] = pc[u] /\ cur'[u] = cur[u]
  BY <1>1, <1>2 DEF TypeOK
<1>4. /\ \A u \in Threads : \A s : u # t => (InRequest(u, s)' <=> InRequest(u, s))
      /\ \A s : ~InRequest(t, s)' /\ ~LetGo(t, s) /\ ~LetGo(t, s)'
      /\ \A s : InRequest(t, s) <=> s = r
      /\ \A u \in Threads : \A s : u # t => (LetGo(u, s)' <=> LetGo(u, s))
  BY <1>3 DEF InRequest, LetGo, Calling
<1>5. /\ \A u \in Threads : \A s : u # t => (Uses(u, s)' <=> Uses(u, s))
      /\ \A s : Uses(t, s)' <=> s \in pending'[t]
      /\ \A u \in Threads : \A s : Uses(u, s)' => Uses(u, s)
  BY <1>4 DEF Uses
<1>6. \A s : Queued(s)' <=> Queued(s)
  BY DEF Queued
<1>7. Cardinality(Users(r)) + (IF r \in rejected THEN 1 ELSE 0) <= refcnt[r]
      /\ refcnt[r] \in Nat
  BY <1>0 DEF RequestInv, RefInv, TypeOK
<1>8. /\ Cardinality(Users(r)) \in Nat /\ Cardinality(Users(r)) >= 1
      /\ Cardinality(Users(r)) <= 1 => \A u \in Threads : Uses(u, r) => u = t
  BY <1>0, SoleUser
<1>9. \A s \in Requests : s # r => refcnt'[s] = refcnt[s]
  BY DEF Unref, TypeOK
<1>10. TypeOK'
  <2>1. pc' \in [Threads -> {"unborn", "idle"} \cup Calling \cup Dying]
    BY <1>1 DEF TypeOK, Dying
  <2>2. cur' \in [Threads -> 0 .. MaxRequests]
    BY <1>2, RequestQueueAssumption DEF TypeOK
  <2>3. refcnt' \in [Requests -> Nat]
    BY <1>0, <1>7, <1>8 DEF TypeOK, Unref
  <2>4. freed' \subseteq Requests
    <3>1. freed' = freed \/ freed' = freed \cup {r}
      BY DEF Unref
    <3> QED
      BY <1>0, <3>1 DEF TypeOK
  <2> QED
    BY <1>2, <2>1, <2>2, <2>3, <2>4 DEF TypeOK
<1>11. PlaceInv'
  <2>1. PlaceOf(t)'
    BY <1>2, <1>3 DEF PlaceOf, Calling
  <2>2. ASSUME NEW u \in Threads, u # t
        PROVE  PlaceOf(u)'
    BY <1>2, <1>3, <2>2 DEF RequestInv, PlaceInv, PlaceOf
  <2> QED
    BY <2>1, <2>2 DEF PlaceInv
<1>12. NewInv'
  BY <1>3, <1>5, <1>6 DEF RequestInv, NewInv, NewOf
<1>13. FreeInv'
  <2>1. ASSUME NEW s \in freed', s \notin freed
        PROVE  s = r /\ ~Queued(r) /\ hand # r /\ \A u \in Threads : ~Uses(u, s)'
    <3>1. s = r /\ refcnt[r] = 1 /\ r \notin pending'[t] /\ ~Queued(r) /\ hand # r
      BY <2>1 DEF Unref
    <3>2. \A u \in Threads : Uses(u, r) => u = t
      BY <1>7, <1>8, <3>1
    <3> QED
      BY <1>5, <3>1, <3>2
  <2> QED
    BY <1>5, <1>6, <2>1 DEF RequestInv, FreeInv
<1>14. RefInv'
  <2> SUFFICES ASSUME NEW s \in Requests \ freed'
               PROVE  Cardinality(Users(s))' + (IF s \in rejected THEN 1 ELSE 0) <= refcnt'[s]
    BY DEF RefInv
  <2>1. s \notin freed
    BY DEF Unref
  <2>2. Cardinality(Users(s)) + (IF s \in rejected THEN 1 ELSE 0) <= refcnt[s]
    BY <2>1 DEF RequestInv, RefInv
  <2>3. Cardinality(Users(s)) \in Nat /\ refcnt[s] \in Nat
    BY UsersFinite DEF TypeOK
  <2>4. Cardinality(Users(s))' \in Nat /\ Cardinality(Users(s))' <= Cardinality(Users(s))
    BY <1>5, FewerUsers
  <2>5. CASE refcnt'[s] = refcnt[s]
    BY <2>2, <2>3, <2>4, <2>5
  <2>6. CASE refcnt'[s] # refcnt[s]
    <3>1. s = r /\ r \notin pending'[t] /\ refcnt'[s] = refcnt[s] - 1
      BY <1>9, <2>6 DEF Unref, TypeOK
    <3>2. ~Uses(t, s)' /\ Uses(t, s)
      BY <1>0, <1>5, <3>1
    <3>3. Cardinality(Users(s))' \in Nat /\ Cardinality(Users(s))' + 1 <= Cardinality(Users(s))
      BY <1>5, <3>2, OneUserLess
    <3> QED
      BY <2>2, <2>3, <3>1, <3>3
  <2> QED
    BY <2>5, <2>6
<1>15. PostInv'
  <2> SUFFICES ASSUME NEW s \in Requests \ (freed' \cup completed \cup rejected)
               PROVE  /\ \A u \in Threads : InRequest(u, s)' /\ pc'[u] = "woken" => u \in unwind
                      /\ post'[s] > 0 => wish[s] \notin Comparable
                                         /\ \A u \in Threads : ~InRequest(u, s)'
    BY DEF PostInv
  <2>1. s \notin freed
    BY DEF Unref
  <2>2. /\ \A u \in Threads : InRequest(u, s) /\ pc[u] = "woken" => u \in unwind
        /\ post[s] > 0 => wish[s] \notin Comparable /\ \A u \in Threads : ~InRequest(u, s)
    BY <2>1 DEF RequestInv, PostInv
  <2>3. CASE s # r
    BY <1>3, <1>4, <2>2, <2>3
  <2>4. CASE s = r
    <3>1. ASSUME post'[s] > 0
          PROVE  wish[s] \notin Comparable /\ \A u \in Threads : ~InRequest(u, s)'
      <4>1. wish[r] \notin Comparable
        BY <2>4, <3>1
      <4>2. \A u \in Threads : Uses(u, r) => u = t
        BY <1>0, <4>1 DEF RequestInv, SoleInv
      <4>3. \A u \in Threads : u # t => ~InRequest(u, r)
        BY <4>2 DEF Uses
      <4> QED
        BY <1>4, <2>4, <4>1, <4>3
    <3> QED
      BY <1>3, <1>4, <2>2, <3>1
  <2> QED
    BY <2>3, <2>4
<1>16. SoleInv'
  BY <1>5 DEF RequestInv, SoleInv
<1>17. RejectInv'
  <2>1. freed \subseteq freed'
    BY DEF Unref
  <2> QED
    BY <1>5, <2>1 DEF RequestInv, RejectInv
<1>18. PendingInv'
  <2>1. PendingOf(t)'
    <3>1. PendingOf(t) /\ pc[t] \notin Dying
      BY DEF RequestInv, PendingInv, Calling, Dying
    <3>2. ASSUME NEW s \in pending'[t], Queued(s)
          PROVE  t \in unwind /\ <<t, wish[s]>> \in Unwinding
      BY <1>4, <3>1, <3>2 DEF PendingOf
    <3> QED
      BY <1>3, <1>4, <1>6, <3>2 DEF PendingOf
  <2>2. ASSUME NEW u \in Threads, u # t
        PROVE  PendingOf(u)'
    BY <1>2, <1>3, <1>4, <1>6, <2>2 DEF RequestInv, PendingInv, PendingOf
  <2> QED
    BY <2>1, <2>2 DEF PendingInv
<1> QED
  BY <1>10, <1>11, <1>12, <1>13, <1>14, <1>15, <1>16, <1>17, <1>18, PartsStay
     DEF RequestInv

\* A request that is rejected has a reference more than users.
LEMMA RejectedKept ==
  ASSUME TypeOK, RequestInv, NEW t \in Threads, NEW r \in rejected, Uses(t, r), r \notin freed
  PROVE  refcnt[r] # 1 /\ r \notin pending[t]
<1>1. r \in Requests /\ refcnt[r] \in Nat
  BY DEF TypeOK
<1>2. Cardinality(Users(r)) + 1 <= refcnt[r]
  BY <1>1 DEF RequestInv, RefInv
<1>3. Cardinality(Users(r)) \in Nat /\ Cardinality(Users(r)) >= 1
  BY SoleUser
<1> QED
  BY <1>1, <1>2, <1>3 DEF RequestInv, RejectInv

\* The mutex of a request wakes a thread early only when the thread unwinds.
LEMMA WokenLate ==
  ASSUME TypeOK, RequestInv, NEW t \in Threads, pc[t] = "woken"
  PROVE  cur[t] \in completed \cup rejected \/ (t \in unwind /\ <<t, wish[cur[t]]>> \in Unwinding)
<1>1. InRequest(t, cur[t]) /\ cur[t] \in Requests /\ cur[t] \notin freed
  BY PlaceUses DEF InRequest, Calling
<1> QED
  BY <1>1 DEF RequestInv, PostInv, PlaceInv, PlaceOf, Calling

\* A thread finds its request rejected before it waits: it gives up its reference, which
\* is never the last one.
LEMMA CheckRejectedStep ==
  ASSUME TypeOK, RequestInv, NEW t \in Threads, CheckRejected(t)
  PROVE  TypeOK' /\ RequestInv'
<1> USE DEF reqVars, threadVars, haltVars, queueVars, workerVars
<1>0. PICK r : r = cur[t]
  OBVIOUS
<1>1. /\ pc[t] = "check" /\ r \in rejected /\ Unref(r) /\ Leave(t)
      /\ UNCHANGED <<queueVars, haltVars, workerVars, wish, post, thread, executed,
                     completed, rejected, pending, unwind, interrupted, panic>>
  BY <1>0 DEF CheckRejected
<1>2. pc[t] \in Calling \ {"add"}
  BY <1>1 DEF Calling
<1>3. Uses(t, r) /\ r \notin freed
  BY <1>0, <1>2, PlaceUses
<1>4. refcnt[r] # 1 /\ r \notin pending[t]
  BY <1>1, <1>3, RejectedKept
<1>5. pending' \in [Threads -> SUBSET Requests] /\ post' \in [Requests -> Nat]
  BY <1>1 DEF TypeOK
<1> QED
  BY <1>0, <1>1, <1>2, <1>4, <1>5, LeaveStep

\* A thread takes the answer: the request has been completed by then, so that whoever is
\* last may delete it.
LEMMA AnswerStep ==
  ASSUME TypeOK, RequestInv, NEW t \in Threads, Answer(t)
  PROVE  TypeOK' /\ RequestInv' /\ cur[t] \in completed
<1> USE DEF reqVars, threadVars, haltVars, queueVars, workerVars
<1>0. PICK r : r = cur[t]
  OBVIOUS
<1>1. /\ pc[t] = "woken" /\ r \notin rejected /\ t \notin unwind /\ Unref(r) /\ Leave(t)
      /\ UNCHANGED <<queueVars, haltVars, workerVars, wish, thread, executed,
                     completed, rejected, unwind, interrupted, panic>>
  BY <1>0 DEF Answer
<1>2. pc[t] \in Calling \ {"add"}
  BY <1>1 DEF Calling
<1>3. r \in Requests /\ r \notin freed
  BY <1>0, <1>2, PlaceUses
<1>4. r \in completed
  BY <1>0, <1>1, WokenLate
<1>5. /\ pending' \in [Threads -> SUBSET Requests]
      /\ pending'[t] \subseteq pending[t] /\ r \notin pending'[t]
      /\ \A u \in Threads : u # t => pending'[u] = pending[u]
  <2>1. CASE t \in own
    <3>1. thread[r] = t /\ t # NoThread
      BY <1>0, <1>2, <2>1, RequestQueueAssumption DEF RequestInv, PlaceInv, PlaceOf
    <3>2. pending' = [pending EXCEPT ![t] = @ \ {r}]
      BY <1>0, <2>1, <3>1 DEF Answer
    <3> QED
      BY <3>2 DEF TypeOK
  <2>2. CASE t \notin own
    <3>1. pending' = pending
      BY <1>0, <2>2 DEF Answer
    <3>2. r \notin pending[t]
      BY <1>0, <1>2, <2>2 DEF RequestInv, PendingInv, PendingOf, InRequest
    <3> QED
      BY <3>1, <3>2 DEF TypeOK
  <2> QED
    BY <2>1, <2>2
<1>6. post' \in [Requests -> Nat] /\ \A q \in Requests : q # r => post'[q] = post[q]
  <2>1. post' = post \/ post' = [post EXCEPT ![r] = @ + 1]
    BY <1>0 DEF Answer
  <2> QED
    BY <2>1 DEF TypeOK
<1>7. ~Queued(r) /\ hand # r
  BY <1>3, <1>4 DEF RequestInv, WorkInv
<1>8. TypeOK' /\ RequestInv'
  BY <1>0, <1>1, <1>2, <1>4, <1>5, <1>6, <1>7, LeaveStep
<1> QED
  BY <1>0, <1>4, <1>8

\* A thread comes back without an answer.
LEMMA AnswerInterruptedStep ==
  ASSUME TypeOK, RequestInv, NoSharedUnwind, NEW t \in Threads, AnswerInterrupted(t)
  PROVE  TypeOK' /\ RequestInv'
<1> USE DEF reqVars, threadVars, haltVars, queueVars, workerVars
<1>0. PICK r : r = cur[t]
  OBVIOUS
<1>1. /\ pc[t] = "woken" /\ Leave(t)
      /\ UNCHANGED <<queueVars, haltVars, workerVars, wish, thread, executed,
                     completed, rejected, pending, unwind, interrupted, panic>>
  BY <1>0 DEF AnswerInterrupted
<1>2. pc[t] \in Calling \ {"add"}
  BY <1>1 DEF Calling
<1>3. Uses(t, r) /\ r \in Requests /\ r \notin freed
  BY <1>0, <1>2, PlaceUses
<1>4. r \in completed \cup rejected \/ (t \in unwind /\ <<t, wish[r]>> \in Unwinding)
  BY <1>0, <1>1, WokenLate
<1>5. \/ UNCHANGED <<refcnt, freed>> /\ r \notin rejected
      \/ Unref(r) /\ r \in rejected
  BY <1>0 DEF AnswerInterrupted
<1>6. r \in rejected => refcnt[r] # 1 /\ r \notin pending[t]
  BY <1>3, RejectedKept
<1>7. pending' \in [Threads -> SUBSET Requests]
  BY <1>1 DEF TypeOK
<1>8. post' \in [Requests -> Nat] /\ \A q \in Requests : q # r => post'[q] = post[q]
  <2>1. post' = post \/ post' = [post EXCEPT ![r] = @ + 1]
    BY <1>0 DEF AnswerInterrupted
  <2> QED
    BY <2>1 DEF TypeOK
<1>9. r \in completed \cup rejected \/ wish[r] \notin Comparable
  BY <1>4 DEF NoSharedUnwind
<1>10. Queued(r) /\ r \in pending'[t] => t \in unwind /\ <<t, wish[r]>> \in Unwinding
  <2>1. r \in completed => ~Queued(r)
    BY <1>3 DEF RequestInv, WorkInv
  <2> QED
    BY <1>1, <1>4, <1>6, <2>1
<1>11. \/ UNCHANGED <<refcnt, freed>>
       \/ /\ Unref(r) /\ r \notin pending'[t]
          /\ refcnt[r] = 1 => ~Queued(r) /\ hand # r
  BY <1>1, <1>5, <1>6
<1>12. /\ pending'[t] \subseteq pending[t]
       /\ \A u \in Threads : u # t => pending'[u] = pending[u]
  BY <1>1
<1> QED
  BY <1>0, <1>1, <1>2, <1>7, <1>8, <1>9, <1>10, <1>11, <1>12, LeaveStep

----------------------------------------------------------------------------
(* Thread::shutdown *)

\* A thread that was in a call, or had requests pending, begins to take them back.
LEMMA ExitStep ==
  ASSUME TypeOK, RequestInv, NEW t \in Threads, Exit(t) \/ ExitHolding(t)
  PROVE  TypeOK' /\ RequestInv'
<1> USE DEF reqVars, threadVars, haltVars, queueVars, workerVars
<1>0. /\ UNCHANGED <<queue, size, haltVars, workerVars, reqVars, own, pending, unwind,
                     interrupted, panic>>
      /\ mutex' \in Nat
  BY DEF Exit, ExitHolding, TypeOK
<1>1. PICK a \in {"dead", "halt"}, c \in 0 .. MaxRequests :
        /\ pc' = [pc EXCEPT ![t] = a] /\ cur' = [cur EXCEPT ![t] = c]
        /\ a = "halt" => c \in pending[t]
  <2>1. CASE Go(t, "dead") /\ cur' = [cur EXCEPT ![t] = 0]
    <3>1. 0 \in 0 .. MaxRequests
      BY RequestQueueAssumption
    <3> QED
      BY <2>1, <3>1 DEF Go
  <2>2. CASE \E q \in pending[t] : Go(t, "halt") /\ cur' = [cur EXCEPT ![t] = q]
    <3>1. \A q \in pending[t] : q \in 0 .. MaxRequests
      BY DEF TypeOK, Requests
    <3> QED
      BY <2>2, <3>1 DEF Go
  <2> QED
    BY <2>1, <2>2 DEF Exit, ExitHolding, NextPending
<1>2. /\ pc'[t] = a /\ cur'[t] = c
      /\ \A u \in Threads : u # t => pc'[u] = pc[u] /\ cur'[u] = cur[u]
  BY <1>1 DEF TypeOK
<1>3. \/ pc[t] \in Calling /\ <<t, wish[cur[t]]>> \in Mortal \cup Unwinding
      \/ pc[t] = "idle"
  BY DEF Exit, ExitHolding, Killed, RequestInv, PlaceInv, PlaceOf
<1>4. /\ \A u \in Threads : \A s : u # t => (InRequest(u, s)' <=> InRequest(u, s))
      /\ \A s : ~InRequest(t, s)' /\ ~LetGo(t, s) /\ ~LetGo(t, s)'
      /\ \A u \in Threads : \A s : u # t => (LetGo(u, s)' <=> LetGo(u, s))
      /\ \A s : InRequest(t, s) => s = cur[t]
  BY <1>2, <1>3 DEF InRequest, LetGo, Calling
<1>5. /\ \A u \in Threads : \A s : u # t => (Uses(u, s)' <=> Uses(u, s))
      /\ \A u \in Threads : \A s : Uses(u, s)' => Uses(u, s)
  BY <1>0, <1>4 DEF Uses
<1>6. \A s : Queued(s)' <=> Queued(s)
  BY <1>0 DEF Queued
<1>7. TypeOK'
  <2>1. pc' \in [Threads -> {"unborn", "idle"} \cup Calling \cup Dying]
    BY <1>1 DEF TypeOK, Dying
  <2>2. cur' \in [Threads -> 0 .. MaxRequests]
    BY <1>1 DEF TypeOK
  <2> QED
    BY <1>0, <2>1, <2>2 DEF TypeOK
<1>8. PlaceInv'
  <2>1. PlaceOf(t)'
    BY <1>0, <1>1, <1>2 DEF PlaceOf, Calling
  <2>2. ASSUME NEW u \in Threads, u # t
        PROVE  PlaceOf(u)'
    BY <1>0, <1>2, <2>2 DEF RequestInv, PlaceInv, PlaceOf
  <2> QED
    BY <2>1, <2>2 DEF PlaceInv
<1>9. NewInv'
  BY <1>0, <1>2, <1>5, <1>6 DEF RequestInv, NewInv, NewOf
<1>10. FreeInv'
  BY <1>0, <1>5, <1>6 DEF RequestInv, FreeInv
<1>11. RefInv'
  <2> SUFFICES ASSUME NEW s \in Requests \ freed
               PROVE  Cardinality(Users(s))' + (IF s \in rejected THEN 1 ELSE 0) <= refcnt[s]
    BY <1>0 DEF RefInv
  <2>1. Cardinality(Users(s)) + (IF s \in rejected THEN 1 ELSE 0) <= refcnt[s]
    BY DEF RequestInv, RefInv
  <2>2. Cardinality(Users(s)) \in Nat /\ refcnt[s] \in Nat
    BY UsersFinite DEF TypeOK
  <2>3. Cardinality(Users(s))' \in Nat /\ Cardinality(Users(s))' <= Cardinality(Users(s))
    BY <1>5, FewerUsers
  <2> QED
    BY <2>1, <2>2, <2>3
<1>12. PostInv'
  BY <1>0, <1>2, <1>4 DEF RequestInv, PostInv
<1>13. SoleInv'
  BY <1>0, <1>5 DEF RequestInv, SoleInv
<1>14. RejectInv'
  BY <1>0, <1>5 DEF RequestInv, RejectInv
<1>15. PendingInv'
  <2>1. PendingOf(t)'
    <3>1. ASSUME NEW s \in pending[t], Queued(s)
          PROVE  Dies(t, wish[s]) \/ (t \in unwind /\ <<t, wish[s]>> \in Unwinding)
      <4>1. PendingOf(t) /\ pc[t] \notin Dying
        BY <1>3 DEF RequestInv, PendingInv, Calling, Dying
      <4> QED
        BY <1>3, <1>4, <3>1, <4>1 DEF PendingOf, Dies, InRequest, Calling
    <3>2. a \in Dying /\ a # "tweak"
      BY DEF Dying
    <3> QED
      BY <1>0, <1>2, <1>4, <1>6, <3>1, <3>2 DEF PendingOf
  <2>2. ASSUME NEW u \in Threads, u # t
        PROVE  PendingOf(u)'
    BY <1>0, <1>2, <1>4, <1>6, <2>2 DEF RequestInv, PendingInv, PendingOf
  <2> QED
    BY <2>1, <2>2 DEF PendingInv
<1> QED
  BY <1>0, <1>7, <1>8, <1>9, <1>10, <1>11, <1>12, <1>13, <1>14, <1>15, PartsStay
     DEF RequestInv

\* resume: the thread forgets the request and goes on to the next.
LEMMA ResumeStep ==
  ASSUME TypeOK, RequestInv, NEW t \in Threads, Resume(t)
  PROVE  TypeOK' /\ RequestInv'
<1> USE DEF reqVars, threadVars, haltVars, queueVars, workerVars
<1>r. PICK r : r = cur[t]
  OBVIOUS
<1>0. /\ UNCHANGED <<queue, size, hand, reqVars, own, unwind, interrupted, panic>>
      /\ pending' = [pending EXCEPT ![t] = @ \ {r}] /\ pc[t] = "resume"
      /\ mutex' \in Nat /\ stop' \in BOOLEAN /\ halted' \in BOOLEAN
      /\ worker' = worker \/ (worker = "none" /\ worker' = "acquire")
  <2>1. /\ UNCHANGED <<queue, size, hand, reqVars, own, unwind, interrupted, panic>>
        /\ pending' = [pending EXCEPT ![t] = @ \ {r}] /\ pc[t] = "resume"
    BY <1>r DEF Resume
  <2>2. mutex' \in Nat
    BY DEF Resume, Guarded, TypeOK
  <2>3. CASE halted /\ worker = "none"
    BY <2>1, <2>2, <2>3 DEF Resume
  <2>4. CASE ~(halted /\ worker = "none")
    BY <2>1, <2>2, <2>4 DEF Resume, TypeOK
  <2> QED
    BY <2>3, <2>4
<1>p. /\ pending'[t] = pending[t] \ {r} /\ \A u \in Threads : u # t => pending'[u] = pending[u]
      /\ pending' \in [Threads -> SUBSET Requests]
  BY <1>0 DEF TypeOK
<1>1. PICK a \in {"dead", "halt"}, c \in 0 .. MaxRequests :
        /\ pc' = [pc EXCEPT ![t] = a] /\ cur' = [cur EXCEPT ![t] = c]
        /\ a = "halt" => c \in pending[t] \ {r}
  <2>1. CASE Go(t, "dead") /\ cur' = [cur EXCEPT ![t] = 0]
    <3>1. 0 \in 0 .. MaxRequests
      BY RequestQueueAssumption
    <3> QED
      BY <2>1, <3>1 DEF Go
  <2>2. CASE \E q \in pending[t] \ {r} : Go(t, "halt") /\ cur' = [cur EXCEPT ![t] = q]
    <3>1. \A q \in pending[t] : q \in 0 .. MaxRequests
      BY DEF TypeOK, Requests
    <3> QED
      BY <2>2, <3>1 DEF Go
  <2> QED
    BY <1>r, <2>1, <2>2 DEF Resume, NextPending
<1>2. /\ pc'[t] = a /\ cur'[t] = c
      /\ \A u \in Threads : u # t => pc'[u] = pc[u] /\ cur'[u] = cur[u]
  BY <1>1 DEF TypeOK
<1>4. /\ \A u \in Threads : \A s : u # t => (InRequest(u, s)' <=> InRequest(u, s))
      /\ \A s : ~InRequest(t, s)' /\ ~InRequest(t, s) /\ ~LetGo(t, s)'
      /\ \A s : LetGo(t, s) <=> s = r
      /\ \A u \in Threads : \A s : u # t => (LetGo(u, s)' <=> LetGo(u, s))
  BY <1>r, <1>0, <1>2 DEF InRequest, LetGo, Calling
<1>5. /\ \A u \in Threads : \A s : Uses(u, s)' <=> Uses(u, s)
  BY <1>p, <1>4 DEF Uses
<1>6. \A s : Queued(s)' <=> Queued(s)
  BY <1>0 DEF Queued
<1>7. TypeOK'
  <2>1. pc' \in [Threads -> {"unborn", "idle"} \cup Calling \cup Dying]
    BY <1>1 DEF TypeOK, Dying
  <2>2. cur' \in [Threads -> 0 .. MaxRequests]
    BY <1>1 DEF TypeOK
  <2> QED
    BY <1>0, <1>p, <2>1, <2>2 DEF TypeOK
<1>8. PlaceInv'
  <2>1. PlaceOf(t)'
    BY <1>p, <1>1, <1>2 DEF PlaceOf, Calling
  <2>2. ASSUME NEW u \in Threads, u # t
        PROVE  PlaceOf(u)'
    BY <1>0, <1>p, <1>2, <2>2 DEF RequestInv, PlaceInv, PlaceOf
  <2> QED
    BY <2>1, <2>2 DEF PlaceInv
<1>w. WorkInv'
  BY <1>0, <1>6 DEF RequestInv, WorkInv
<1>9. NewInv'
  BY <1>0, <1>p, <1>2, <1>5, <1>6 DEF RequestInv, NewInv, NewOf
<1>10. FreeInv'
  BY <1>0, <1>5, <1>6 DEF RequestInv, FreeInv
<1>11. RefInv'
  <2>1. \A s : Users(s)' = Users(s)
    BY <1>5 DEF Users
  <2> QED
    BY <1>0, <2>1 DEF RequestInv, RefInv
<1>12. PostInv'
  BY <1>0, <1>2, <1>4 DEF RequestInv, PostInv
<1>13. SoleInv'
  BY <1>0, <1>5 DEF RequestInv, SoleInv
<1>14. RejectInv'
  BY <1>0, <1>p, <1>5 DEF RequestInv, RejectInv
<1>15. PendingInv'
  <2>1. PendingOf(t)'
    <3>1. ASSUME NEW s \in pending'[t], Queued(s)
          PROVE  Dies(t, wish[s]) \/ (t \in unwind /\ <<t, wish[s]>> \in Unwinding)
      <4>1. PendingOf(t) /\ s \in pending[t] /\ s # r
        BY <1>p DEF RequestInv, PendingInv
      <4> QED
        BY <1>4, <3>1, <4>1 DEF PendingOf
    <3>2. a \in Dying /\ a # "tweak"
      BY DEF Dying
    <3> QED
      BY <1>0, <1>2, <1>4, <1>6, <3>1, <3>2 DEF PendingOf
  <2>2. ASSUME NEW u \in Threads, u # t
        PROVE  PendingOf(u)'
    BY <1>0, <1>p, <1>2, <1>4, <1>6, <2>2 DEF RequestInv, PendingInv, PendingOf
  <2> QED
    BY <2>1, <2>2 DEF PendingInv
<1> QED
  BY <1>0, <1>7, <1>8, <1>w, <1>9, <1>10, <1>11, <1>12, <1>13, <1>14, <1>15, PartsStay
     DEF RequestInv

\* The thread lets go of a request: it is deleted, left to those who share it, or rejected.
LEMMA TweakStep ==
  ASSUME TypeOK, RequestInv, NEW t \in Threads, Tweak(t)
  PROVE  TypeOK' /\ RequestInv'
<1> USE DEF reqVars, threadVars, haltVars, queueVars, workerVars
<1>r. PICK r : r = cur[t]
  OBVIOUS
<1>0. /\ UNCHANGED <<queueVars, haltVars, workerVars, wish, executed, completed, cur,
                     own, pending, unwind, interrupted, panic>>
      /\ pc[t] = "tweak" /\ pc' = [pc EXCEPT ![t] = "resume"]
  BY DEF Tweak, Go
<1>1. /\ pc'[t] = "resume" /\ \A u \in Threads : u # t => pc'[u] = pc[u]
      /\ pc' \in [Threads -> {"unborn", "idle"} \cup Calling \cup Dying]
  BY <1>0 DEF TypeOK, Dying
<1>2. Uses(t, r) /\ r \in Requests /\ r \notin freed
  BY <1>r, <1>0, PlaceUses
<1>3. /\ Cardinality(Users(r)) + (IF r \in rejected THEN 1 ELSE 0) <= refcnt[r]
      /\ refcnt[r] \in Nat
  BY <1>2 DEF RequestInv, RefInv, TypeOK
<1>4. /\ Cardinality(Users(r)) \in Nat /\ Cardinality(Users(r)) >= 1
      /\ Cardinality(Users(r)) <= 1 => \A u \in Threads : Uses(u, r) => u = t
  BY <1>2, SoleUser
<1>5. /\ \A u \in Threads : \A s : InRequest(u, s)' <=> InRequest(u, s)
      /\ \A u \in Threads : \A s : u # t => (LetGo(u, s)' <=> LetGo(u, s))
      /\ \A s : ~InRequest(t, s) /\ ~LetGo(t, s)
      /\ \A s : LetGo(t, s)' <=> s = r
  BY <1>r, <1>0, <1>1 DEF InRequest, LetGo, Calling
<1>6. /\ \A u \in Threads : \A s : u # t => (Uses(u, s)' <=> Uses(u, s))
      /\ \A s : s # r => (Uses(t, s)' <=> Uses(t, s))
      /\ ~Uses(t, r)'
      /\ \A u \in Threads : \A s : Uses(u, s)' => Uses(u, s)
  BY <1>0, <1>5 DEF Uses
<1>7. \A s : Queued(s)' <=> Queued(s)
  BY <1>0 DEF Queued
<1>8. r \in pending[t] /\ Dies(t, wish[r])
  BY <1>r, <1>0 DEF RequestInv, PlaceInv, PlaceOf, PendingInv, PendingOf
<1>9. NewInv' /\ SoleInv'
  <2>1. \A u \in Threads : pc'[u] = "add" => pc[u] = "add" /\ cur[u] # r
    <3>1. \A u \in Threads : pc[u] = "add" /\ cur[u] = r => t = u
      BY <1>2 DEF RequestInv, NewInv, NewOf
    <3> QED
      BY <1>0, <1>1, <3>1
  <2>2. \A s : s # r => (s \in rejected' <=> s \in rejected)
    BY <1>r DEF Tweak
  <2>3. NewInv'
    BY <1>0, <1>6, <1>7, <2>1, <2>2 DEF RequestInv, NewInv, NewOf
  <2>4. SoleInv'
    BY <1>0, <1>6 DEF RequestInv, SoleInv
  <2> QED
    BY <2>3, <2>4
<1>10. PendingInv'
  <2>1. PendingOf(t)'
    <3>1. PendingOf(t)
      BY DEF RequestInv, PendingInv
    <3>2. pc[t] \in Dying /\ pc'[t] \in Dying
      BY <1>0, <1>1 DEF Dying
    <3> QED
      BY <1>0, <1>1, <1>5, <1>7, <3>1, <3>2 DEF PendingOf
  <2>2. ASSUME NEW u \in Threads, u # t
        PROVE  PendingOf(u)'
    BY <1>0, <1>1, <1>5, <1>7, <2>2 DEF RequestInv, PendingInv, PendingOf
  <2> QED
    BY <2>1, <2>2 DEF PendingInv
<1>11. ASSUME thread' \in [Requests -> Threads \cup {NoThread}],
              \A s \in Requests : s # r => thread'[s] = thread[s],
              thread'[r] = thread[r] \/ thread[r] = t \/ \A u \in Threads : Uses(u, r) => u = t
       PROVE  PlaceInv'
  <2>1. PlaceOf(t)'
    BY <1>r, <1>0, <1>1, <1>2 DEF RequestInv, PlaceInv, PlaceOf, Calling
  <2>2. ASSUME NEW u \in Threads, u # t
        PROVE  PlaceOf(u)'
    <3>1. PlaceOf(u)
      BY DEF RequestInv, PlaceInv
    <3>2. u \in own /\ pc[u] \in Calling => thread'[cur[u]] = u
      <4>1. CASE cur[u] # r
        BY <1>11, <3>1, <4>1 DEF PlaceOf
      <4>2. CASE cur[u] = r /\ pc[u] \in Calling
        <5>1. Uses(u, r)
          BY <4>2 DEF Uses, InRequest
        <5> QED
          BY <1>11, <2>2, <3>1, <4>2, <5>1 DEF PlaceOf
      <4> QED
        BY <4>1, <4>2
    <3> QED
      BY <1>0, <1>1, <2>2, <3>1, <3>2 DEF PlaceOf
  <2> QED
    BY <2>1, <2>2 DEF PlaceInv
<1>12. ASSUME NEW s \in Requests \ freed, s # r
       PROVE  Cardinality(Users(s))' + (IF s \in rejected THEN 1 ELSE 0) <= refcnt[s]
  <2>1. Users(s)' = Users(s)
    BY <1>6, <1>12 DEF Users
  <2> QED
    BY <2>1 DEF RequestInv, RefInv
<1>13. CASE r \in completed /\ refcnt[r] <= 1
  <2>1. freed' = freed \cup {r} /\ UNCHANGED <<refcnt, rejected, thread, post>>
    BY <1>r, <1>13 DEF Tweak
  <2>2. \A u \in Threads : Uses(u, r) => u = t
    BY <1>3, <1>4, <1>13
  <2>3. TypeOK'
    BY <1>0, <1>1, <1>2, <2>1 DEF TypeOK
  <2>4. PlaceInv'
    BY <1>11, <2>1, <2>2 DEF TypeOK
  <2>5. FreeInv'
    <3>1. ~Queued(r) /\ hand # r
      BY <1>2, <1>13 DEF RequestInv, WorkInv
    <3> QED
      BY <1>0, <1>6, <1>7, <2>1, <2>2, <3>1 DEF RequestInv, FreeInv
  <2>6. RefInv'
    BY <1>12, <2>1 DEF RefInv
  <2>7. PostInv'
    BY <1>0, <1>1, <1>5, <2>1 DEF RequestInv, PostInv
  <2>8. RejectInv'
    BY <1>0, <1>6, <2>1 DEF RequestInv, RejectInv
  <2> QED
    BY <1>0, <1>9, <1>10, <2>3, <2>4, <2>5, <2>6, <2>7, <2>8, PartsStay DEF RequestInv
<1>14. CASE refcnt[r] > 1
  <2>1. /\ refcnt' = [refcnt EXCEPT ![r] = @ - 1]
        /\ thread' = thread \/ (thread[r] = t /\ thread' = [thread EXCEPT ![r] = NoThread])
        /\ UNCHANGED <<freed, rejected, post>>
    BY <1>r, <1>3, <1>14 DEF Tweak
  <2>2. /\ refcnt'[r] = refcnt[r] - 1 /\ \A s \in Requests : s # r => refcnt'[s] = refcnt[s]
        /\ \A s \in Requests : s # r => thread'[s] = thread[s]
        /\ thread'[r] = thread[r] \/ thread'[r] = NoThread
    BY <1>2, <2>1 DEF TypeOK
  <2>3. TypeOK'
    <3>1. refcnt' \in [Requests -> Nat]
      BY <1>2, <1>14, <2>1 DEF TypeOK
    <3>2. thread' \in [Requests -> Threads \cup {NoThread}]
      BY <2>1 DEF TypeOK
    <3> QED
      BY <1>0, <1>1, <2>1, <3>1, <3>2 DEF TypeOK
  <2>4. PlaceInv'
    BY <1>11, <2>1, <2>2, <2>3 DEF TypeOK
  <2>5. FreeInv'
    BY <1>0, <1>6, <1>7, <2>1 DEF RequestInv, FreeInv
  <2>6. RefInv'
    <3>1. Cardinality(Users(r)') \in Nat /\ Cardinality(Users(r)') + 1 <= Cardinality(Users(r))
      BY <1>2, <1>6, OneUserLess
    <3>2. Cardinality(Users(r)') + (IF r \in rejected THEN 1 ELSE 0) <= refcnt'[r]
      BY <1>3, <1>4, <2>2, <3>1
    <3> QED
      BY <1>12, <2>1, <2>2, <3>2 DEF RefInv
  <2>7. PostInv'
    BY <1>0, <1>1, <1>5, <2>1 DEF RequestInv, PostInv
  <2>8. RejectInv'
    BY <1>0, <1>6, <2>1, <2>2 DEF RequestInv, RejectInv, TypeOK
  <2> QED
    BY <1>0, <1>9, <1>10, <2>3, <2>4, <2>5, <2>6, <2>7, <2>8, PartsStay DEF RequestInv
<1>15. CASE r \notin completed /\ refcnt[r] <= 1
  <2>1. /\ rejected' = rejected \cup {r} /\ thread' = [thread EXCEPT ![r] = NoThread]
        /\ post' = [post EXCEPT ![r] = @ + 1] /\ UNCHANGED <<freed, refcnt>>
    BY <1>r, <1>3, <1>15 DEF Tweak
  <2>2. \A u \in Threads : Uses(u, r) => u = t
    BY <1>3, <1>4, <1>15
  <2>3. TypeOK'
    <3>1. post' \in [Requests -> Nat]
      BY <1>2, <2>1 DEF TypeOK
    <3>2. thread' \in [Requests -> Threads \cup {NoThread}] /\ rejected' \subseteq Requests
      BY <1>2, <2>1 DEF TypeOK
    <3> QED
      BY <1>0, <1>1, <2>1, <3>1, <3>2 DEF TypeOK
  <2>4. PlaceInv'
    <3>1. \A s \in Requests : s # r => thread'[s] = thread[s]
      BY <2>1 DEF TypeOK
    <3> QED
      BY <1>11, <2>2, <2>3, <3>1 DEF TypeOK
  <2>5. FreeInv'
    BY <1>0, <1>6, <1>7, <2>1 DEF RequestInv, FreeInv
  <2>6. RefInv'
    <3>1. Cardinality(Users(r)') \in Nat /\ Cardinality(Users(r)') + 1 <= Cardinality(Users(r))
      BY <1>2, <1>6, OneUserLess
    <3>2. Cardinality(Users(r)') + 1 <= refcnt[r]
      BY <1>3, <1>4, <3>1
    <3> QED
      BY <1>12, <2>1, <3>2 DEF RefInv
  <2>7. PostInv'
    <3>1. \A s \in Requests : s # r => post'[s] = post[s]
      BY <2>1 DEF TypeOK
    <3> QED
      BY <1>0, <1>1, <1>5, <2>1, <3>1 DEF RequestInv, PostInv
  <2>8. RejectInv'
    <3>1. /\ thread'[r] = NoThread /\ \A s \in Requests : s # r => thread'[s] = thread[s]
      BY <1>2, <2>1 DEF TypeOK
    <3>2. \A u \in Threads : ~Uses(u, r)'
      BY <1>6, <2>2
    <3> QED
      BY <1>0, <1>6, <1>8, <2>1, <3>1, <3>2 DEF RequestInv, RejectInv, TypeOK
  <2> QED
    BY <1>0, <1>9, <1>10, <2>3, <2>4, <2>5, <2>6, <2>7, <2>8, PartsStay DEF RequestInv
<1> QED
  BY <1>3, <1>13, <1>14, <1>15

----------------------------------------------------------------------------
(* The invariant *)

\* The invariant holds when the queue has been set up,
LEMMA RequestInit ==
  ASSUME Init
  PROVE  TypeOK /\ RequestInv
<1>0. 0 \notin Requests /\ 0 \in 0 .. MaxRequests
  BY RequestQueueAssumption DEF Requests
<1>1. TypeOK
  <2>1. (CHOOSE w \in Wishes : TRUE) \in Wishes
    BY RequestQueueAssumption
  <2>2. queue \in [Priorities -> Seq(Requests)]
    BY DEF Init
  <2>3. wish \in [Requests -> Wishes]
    BY <2>1 DEF Init
  <2>4. Stale \subseteq Callers
    BY RequestQueueAssumption
  <2> QED
    BY <1>0, <2>2, <2>3, <2>4 DEF Init, TypeOK
<1>2. \A r : ~Queued(r)
  <2>1. Range(<<>>) = {}
    BY DEF Range
  <2> QED
    BY <2>1 DEF Init, Queued
<1>3. \A t \in Threads : /\ pc[t] \in {"idle", "unborn"} /\ pending[t] = {}
                         /\ \A r : ~Uses(t, r) /\ ~InRequest(t, r)
  BY DEF Init, Uses, InRequest, Calling
<1>4. PlaceInv
  BY <1>3 DEF Init, PlaceInv, PlaceOf, Calling
<1>5. ListInv
  <2>1. Range(<<>>) = {} /\ NoDup(<<>>)
    BY DEF Range, NoDup
  <2> QED
    BY <2>1 DEF Init, ListInv
<1>6. WorkInv
  BY <1>2 DEF Init, WorkInv
<1>7. NewInv
  BY <1>3 DEF NewInv, NewOf
<1>8. FreeInv
  BY <1>0, <1>2, <1>3 DEF Init, FreeInv
<1>9. RefInv /\ PostInv /\ RejectInv
  BY DEF Init, RefInv, PostInv, RejectInv
<1>10. SoleInv
  BY <1>3 DEF SoleInv
<1>11. PendingInv
  BY <1>3 DEF PendingInv, PendingOf
<1> QED
  BY <1>1, <1>4, <1>5, <1>6, <1>7, <1>8, <1>9, <1>10, <1>11 DEF RequestInv

\* and every step of the worker, of a call and of a shutdown keeps it.
LEMMA RequestNext ==
  ASSUME NoSharedUnwind, TypeOK, RequestInv, [Next]_vars
  PROVE  TypeOK' /\ RequestInv'
<1>1. CASE Work
  BY <1>1, WorkerMoves, TakeStep, SkipExecuteSteps, AnswersStep, AbandonsStep DEF Work
<1>2. ASSUME NEW t \in Threads, CallStep(t)
      PROVE  TypeOK' /\ RequestInv'
  BY <1>2, InsertStep, ShareStep, WaitSteps, CheckRejectedStep, AnswerStep,
     AnswerInterruptedStep DEF CallStep
<1>3. ASSUME NEW t \in Threads, ShutdownStep(t)
      PROVE  TypeOK' /\ RequestInv'
  BY <1>3, HaltSteps, TweakStep, ResumeStep DEF ShutdownStep
<1>4. ASSUME NEW t \in Threads, Unwind(t) \/ Exit(t) \/ ExitHolding(t)
      PROVE  TypeOK' /\ RequestInv'
  BY <1>4, UnwindStep, ExitStep
<1>5. ASSUME NEW t \in Callers, NEW w \in Wishes, AddRequest(t, w)
      PROVE  TypeOK' /\ RequestInv'
  <2>1. t \in Threads /\ pc[t] = "idle" /\ t \notin unwind /\ Create(t, w)
    BY <1>5 DEF AddRequest, Threads
  <2> QED
    BY <2>1, CreateStep
<1>6. ASSUME NEW t \in Callers, NEW h \in Helpers, NEW w \in Wishes, AddAsyncRequest(t, h, w)
      PROVE  TypeOK' /\ RequestInv'
  <2>1. h \in Threads /\ pc[h] = "unborn" /\ Create(h, w)
    BY <1>6 DEF AddAsyncRequest, Threads
  <2>2. h \notin unwind
    BY RequestQueueAssumption DEF TypeOK
  <2> QED
    BY <2>1, <2>2, CreateStep
<1>7. CASE UNCHANGED vars
  <2>1. UNCHANGED <<queue, size, mutex, stop, halted, worker, hand, wish, refcnt, post,
                    thread, executed, completed, rejected, freed, pc, cur, own, pending,
                    unwind, interrupted, panic>>
    BY <1>7 DEF vars, queueVars, haltVars, workerVars, reqVars, threadVars
  <2>2. TypeOK'
    BY <2>1 DEF TypeOK
  <2> QED
    BY <2>1, <2>2, PartsStay DEF RequestInv
<1> QED
  BY <1>1, <1>2, <1>3, <1>4, <1>5, <1>6, <1>7 DEF Next

\* The invariant holds in every reachable state.
LEMMA RequestInvariant ==
  ASSUME NoSharedUnwind
  PROVE  Spec => [](TypeOK /\ RequestInv)
<1>1. Init => TypeOK /\ RequestInv
  BY RequestInit
<1>2. TypeOK /\ RequestInv /\ [Next]_vars => (TypeOK /\ RequestInv)'
  BY RequestNext
<1> QED
  BY <1>1, <1>2, PTL DEF Spec

\* The queue, the requests and the threads are of their types.
THEOREM RequestQueueTypes ==
  ASSUME NoSharedUnwind
  PROVE  Spec => []TypeOK
  BY RequestInvariant, PTL

\* A deleted request is in no list, not in the worker's hands, and nobody waits for it or
\* takes it back: the reference counts of shared requests are right, whoever dies.
THEOREM RequestsAreDeletedUnused ==
  ASSUME NoSharedUnwind
  PROVE  Spec => []NoUseAfterFree
<1>1. TypeOK /\ RequestInv => NoUseAfterFree
  <2> SUFFICES ASSUME TypeOK, RequestInv, NEW r \in freed
               PROVE  /\ ~Queued(r) /\ hand # r
                      /\ \A t \in Threads :
                           Waiting(t) \/ pc[t] \in {"halt", "join", "loop", "valid", "tweak"}
                             => cur[t] # r
    BY DEF NoUseAfterFree
  <2>1. ASSUME NEW t \in Threads,
               Waiting(t) \/ pc[t] \in {"halt", "join", "loop", "valid", "tweak"}
        PROVE  cur[t] \notin freed
    BY <2>1, PlaceUses DEF Waiting
  <2> QED
    BY <2>1 DEF RequestInv, FreeInv
<1> QED
  BY <1>1, RequestInvariant, PTL

----------------------------------------------------------------------------
(* m_RequestQueueSize *)

\* The number of queued requests is a number.
LEMMA QueuedFinite ==
  IsFiniteSet(QueuedSet) /\ Cardinality(QueuedSet) \in Nat
<1>1. IsFiniteSet(Requests)
  BY FS_Interval, RequestQueueAssumption DEF Requests
<1>2. QueuedSet \in SUBSET Requests
  BY DEF QueuedSet
<1> QED
  BY <1>1, <1>2, FS_Subset, FS_CardinalityType

\* A step that leaves the lists alone keeps the number of queued requests.
LEMMA SizeStays ==
  ASSUME queue' = queue
  PROVE  Cardinality(QueuedSet)' = Cardinality(QueuedSet)
  BY DEF QueuedSet, Queued

\* A step that touches neither the lists nor the worker, and leaves the count alone.
LEMMA SizeKept ==
  ASSUME SizeInv, queue' = queue, worker' = worker, size' = size, stop' = stop
  PROVE  SizeInv'
  BY SizeStays DEF SizeInv, Stopping

\* A step that adds to the count, whether it asks the worker to stop or not.
LEMMA SizeGrows ==
  ASSUME TypeOK, SizeInv, queue' = queue, worker' = worker, size' = size + 1
  PROVE  SizeInv'
<1>1. Cardinality(QueuedSet)' = Cardinality(QueuedSet) /\ Cardinality(QueuedSet) \in Nat
  BY SizeStays, QueuedFinite
<1>2. size \in Nat
  BY DEF TypeOK
<1> QED
  BY <1>1, <1>2 DEF SizeInv

\* Every step keeps the units of m_RequestQueueSize that the queued requests need.
LEMMA SizeNext ==
  ASSUME TypeOK, ListInv, NewInv, PlaceInv, SizeInv, [Next]_vars
  PROVE  SizeInv'
<1> USE DEF queueVars, haltVars, workerVars, reqVars, threadVars
<1>0. size \in Nat /\ stop \in BOOLEAN
  BY DEF TypeOK
<1>c. Cardinality(QueuedSet) \in Nat
  BY QueuedFinite
<1>1. CASE WorkerAcquires
  <2>1. /\ worker = "acquire" /\ worker' = "check" /\ size > 0 /\ size' = size - 1
        /\ queue' = queue /\ stop' = stop
    BY <1>1 DEF WorkerAcquires
  <2> QED
    BY <1>0, <1>c, <2>1, SizeStays DEF SizeInv, Stopping
<1>2. CASE WorkerChecks
  <2>1. /\ worker = "check" /\ worker' = (IF stop THEN "gone" ELSE "take") /\ size' = size
        /\ queue' = queue /\ stop' = stop
    BY <1>2 DEF WorkerChecks
  <2> QED
    BY <1>0, <1>c, <2>1, SizeStays DEF SizeInv, Stopping
<1>3. CASE WorkerTakes
  <2> DEFINE p == MostImportant
  <2>0. p \in Priorities /\ (queue[p] = <<>> => \A r : ~Queued(r))
    BY MostImportantList
  <2>1. worker = "take" /\ size' = size /\ stop' = stop
    BY <1>3 DEF WorkerTakes
  <2> HIDE DEF p
  <2>2. CASE queue[p] = <<>>
    <3>1. worker' = "acquire" /\ queue' = queue
      BY <1>3, <2>2 DEF WorkerTakes, p
    <3>2. QueuedSet = {}
      BY <2>0, <2>2 DEF QueuedSet
    <3>3. Cardinality(QueuedSet) = 0
      BY <3>2, FS_EmptySet
    <3> QED
      BY <1>0, <2>1, <3>1, <3>3, SizeStays DEF SizeInv, Stopping
  <2>3. CASE queue[p] # <<>>
    <3>1. worker' = "run" /\ queue' = [queue EXCEPT ![p] = Tail(@)]
      BY <1>3, <2>3 DEF WorkerTakes, p
    <3>2. PICK r \in Requests : Queued(r) /\ \A q : Queued(q)' <=> Queued(q) /\ q # r
      BY <2>0, <2>3, <3>1, ListShrinks
    <3>3. r \in QueuedSet /\ QueuedSet' \in SUBSET (QueuedSet \ {r})
      BY <3>2 DEF QueuedSet
    <3>4. Cardinality(QueuedSet)' \in Nat /\ Cardinality(QueuedSet)' + 1 <= Cardinality(QueuedSet)
      BY <3>3, QueuedFinite, CountLoses
    <3> QED
      BY <1>0, <1>c, <2>1, <3>1, <3>4 DEF SizeInv, Stopping
  <2> QED
    BY <2>2, <2>3
<1>4. CASE WorkerSkips \/ WorkerRuns \/ Execute \/ WorkerAbandons \/ WorkerFinds \/ WorkerAnswers
  <2>1. /\ worker \in {"run", "execute", "post", "answer"}
        /\ worker' \in {"execute", "post", "answer", "acquire"}
        /\ queue' = queue /\ size' = size /\ stop' = stop
    BY <1>4 DEF WorkerSkips, WorkerRuns, Execute, WorkerAbandons, WorkerFinds, WorkerAnswers
  <2> QED
    BY <1>0, <1>c, <2>1, SizeStays DEF SizeInv, Stopping
<1>5. ASSUME NEW t \in Threads, Insert(t)
      PROVE  SizeInv'
  <2> DEFINE r == cur[t]
             p == Priority[wish[r]]
  <2>1. /\ queue' = [queue EXCEPT ![p] = Append(@, r)] /\ size' = size + 1 /\ pc[t] = "add"
        /\ worker' = worker /\ stop' = stop
    BY <1>5 DEF Insert
  <2>2. r \in Requests /\ ~Queued(r)
    BY <2>1 DEF NewInv, NewOf, PlaceInv, PlaceOf, Calling
  <2>3. p \in Priorities
    BY <2>2, RequestQueueAssumption DEF TypeOK
  <2> HIDE DEF r, p
  <2>4. \A q : Queued(q)' <=> Queued(q) \/ q = r
    BY <2>1, <2>2, <2>3, ListGrows
  <2>5. QueuedSet' \in SUBSET (QueuedSet \cup {r})
    BY <2>4 DEF QueuedSet
  <2>6. Cardinality(QueuedSet)' \in Nat /\ Cardinality(QueuedSet)' <= Cardinality(QueuedSet) + 1
    BY <2>5, QueuedFinite, CountGains
  <2> QED
    BY <1>0, <1>c, <2>1, <2>6 DEF SizeInv, Stopping
<1>6. ASSUME NEW t \in Threads, CallStep(t), ~Insert(t)
      PROVE  SizeInv'
  <2>1. queue' = queue /\ worker' = worker /\ stop' = stop /\ (size' = size \/ size' = size + 1)
    BY <1>6 DEF CallStep, Share, Check, CheckRejected, Sleep, Acquire, AcquireFails, Answer,
                AnswerInterrupted
  <2> QED
    BY <2>1, SizeKept, SizeGrows
<1>7. ASSUME NEW t \in Threads,
             HaltStops(t) \/ JoinLoops(t) \/ HaltSkips(t) \/ CheckValid(t) \/ Tweak(t)
               \/ Unwind(t) \/ Exit(t) \/ ExitHolding(t)
      PROVE  SizeInv'
  <2>1. queue' = queue /\ worker' = worker
        /\ ((size' = size /\ stop' = stop) \/ size' = size + 1)
    BY <1>7 DEF HaltStops, JoinLoops, HaltSkips, CheckValid, Tweak, Unwind, Exit,
                ExitHolding
  <2> QED
    BY <2>1, SizeKept, SizeGrows
<1>8. ASSUME NEW t \in Threads, HaltJoins(t)
      PROVE  SizeInv'
  <2>1. /\ worker = "gone" /\ worker' = "none" /\ queue' = queue /\ size' = size
    BY <1>8 DEF HaltJoins
  <2> QED
    BY <1>0, <1>c, <2>1, SizeStays DEF SizeInv, Stopping
<1>9. ASSUME NEW t \in Threads, Resume(t)
      PROVE  SizeInv'
  <2>0. queue' = queue /\ size' = size
    BY <1>9 DEF Resume
  <2>1. CASE halted /\ worker = "none"
    <3>1. worker' = "acquire" /\ stop' = FALSE
      BY <1>9, <2>1 DEF Resume
    <3> QED
      BY <1>0, <1>c, <2>0, <2>1, <3>1, SizeStays DEF SizeInv, Stopping
  <2>2. CASE ~(halted /\ worker = "none")
    <3>1. worker' = worker /\ stop' = stop
      BY <1>9, <2>2 DEF Resume
    <3> QED
      BY <2>0, <3>1, SizeKept
  <2> QED
    BY <2>1, <2>2
<1>10. ASSUME NEW t \in Threads, NEW w \in Wishes, Create(t, w)
       PROVE  SizeInv'
  <2>1. queue' = queue /\ worker' = worker /\ stop' = stop /\ size' = size
    BY <1>10 DEF Create
  <2> QED
    BY <2>1, SizeKept
<1>11. CASE UNCHANGED vars
  <2>1. queue' = queue /\ worker' = worker /\ stop' = stop /\ size' = size
    BY <1>11 DEF vars
  <2> QED
    BY <2>1, SizeKept
<1> QED
  BY <1>1, <1>2, <1>3, <1>4, <1>5, <1>6, <1>7, <1>8, <1>9, <1>10, <1>11
     DEF Next, Work, ShutdownStep, AddRequest, AddAsyncRequest, Threads

\* No request is stranded: there is a unit of m_RequestQueueSize for every queued one, or
\* the worker is on its way, whatever halt, the restart of the worker and sharing do.
THEOREM QueuedRequestsAreCounted ==
  ASSUME NoSharedUnwind
  PROVE  Spec => []QueuedAreCounted
<1> DEFINE I == TypeOK /\ RequestInv /\ SizeInv
<1>1. Init => SizeInv
  <2> SUFFICES ASSUME Init
               PROVE  SizeInv
    OBVIOUS
  <2>1. Range(<<>>) = {}
    BY DEF Range
  <2>2. QueuedSet = {}
    BY <2>1 DEF QueuedSet, Init, Queued
  <2>3. Cardinality(QueuedSet) = 0
    BY <2>2, FS_EmptySet
  <2> QED
    BY <2>3 DEF Init, SizeInv, Stopping
<1>2. TypeOK /\ RequestInv /\ SizeInv /\ [Next]_vars => SizeInv'
  BY SizeNext DEF RequestInv
<1>3. TypeOK /\ SizeInv => QueuedAreCounted
  <2> SUFFICES ASSUME TypeOK, SizeInv
               PROVE  QueuedAreCounted
    OBVIOUS
  <2>1. Cardinality(QueuedSet) \in Nat /\ size \in Nat
    BY QueuedFinite DEF TypeOK
  <2>2. Cardinality(QueuedSet) <= size + (IF worker \in {"check", "take"} THEN 1 ELSE 0)
    BY <2>1 DEF SizeInv
  <2> QED
    BY <2>2 DEF QueuedAreCounted, QueuedSet
<1> QED
  BY <1>1, <1>2, <1>3, RequestInvariant, PTL DEF Spec

----------------------------------------------------------------------------
(* The service that the queue implements *)

Calls == [t \in Threads |-> Phase(t)]

\* A thread whose place in or out of a call and whose request stay what they are.
LEMMA PhaseKept ==
  ASSUME NEW u \in Threads, pc'[u] \in Calling <=> pc[u] \in Calling,
         pc[u] \in Calling =>
           /\ wish'[cur'[u]] = wish[cur[u]]
           /\ cur'[u] \in executed' <=> cur[u] \in executed
  PROVE  Phase(u)' = Phase(u)
<1>1. InCall(u)' <=> InCall(u)
  BY DEF InCall
<1>2. InCall(u) => (cur'[u] \in executed' <=> cur[u] \in executed)
  BY DEF InCall
<1> QED
  BY <1>1, <1>2 DEF Phase

\* A thread in a call for a request that was rejected is exposed to the one that died.
LEMMA RejectedExposed ==
  ASSUME TypeOK, RequestInv, NEW t \in Threads, pc[t] \in Calling \ {"add"},
         cur[t] \in rejected
  PROVE  ~InCall(t)
<1>1. Uses(t, cur[t]) /\ cur[t] \in Requests /\ cur[t] \notin freed
  BY PlaceUses
<1>2. /\ thread[cur[t]] = NoThread
      /\ \E u \in Threads : Dies(u, wish[cur[t]])
  BY <1>1 DEF RequestInv, RejectInv
<1>3. t \notin own
  BY <1>2, RequestQueueAssumption DEF RequestInv, PlaceInv, PlaceOf
<1>4. wish[cur[t]] \in Comparable
  BY <1>3 DEF RequestInv, PlaceInv, PlaceOf
<1> QED
  BY <1>2, <1>4 DEF InCall, Exposed, Dies

\* A call that ends returns the answer, or was not one that is promised any.
LEMMA LeavePhases ==
  ASSUME TypeOK, NEW t \in Threads, pc[t] \in Calling, ~InCall(t) \/ cur[t] \in executed,
         pc'[t] \notin Calling,
         \A u \in Threads : u # t => pc'[u] = pc[u] /\ cur'[u] = cur[u],
         UNCHANGED <<wish, executed>>
  PROVE  Service!Return(t) \/ Calls' = Calls
<1>1. \A u \in Threads : u # t => Phase(u)' = Phase(u)
  BY PhaseKept
<1>2. Phase(t)' = "no"
  BY DEF Phase, InCall
<1>3. CASE InCall(t)
  <2>1. Phase(t) = "served"
    BY <1>3 DEF Phase
  <2>2. Calls' = [Calls EXCEPT ![t] = "no"]
    BY <1>1, <1>2 DEF Calls
  <2> QED
    BY <2>1, <2>2 DEF Service!Return, Calls
<1>4. CASE ~InCall(t)
  <2>1. Phase(t) = "no"
    BY <1>4 DEF Phase
  <2> QED
    BY <1>1, <1>2, <2>1 DEF Calls
<1> QED
  BY <1>3, <1>4

\* A call that begins asks, if it is one that is promised an answer.
LEMMA CreatePhases ==
  ASSUME TypeOK, RequestInv, NEW t \in Threads, NEW w \in Wishes,
         pc[t] \in {"idle", "unborn"}, Create(t, w)
  PROVE  Service!Ask(t) \/ Calls' = Calls
<1> DEFINE r == CHOOSE q \in freed : \A x \in freed : q <= x
<1>0. freed \subseteq Requests /\ Requests \subseteq Nat
  BY RequestQueueAssumption DEF TypeOK, Requests
<1>1. r \in freed /\ r \in Requests
  <2>1. \E q \in freed : \A x \in freed : q <= x
    BY <1>0, SmallestNumber DEF Create
  <2> QED
    BY <1>0, <2>1
<1>2. /\ wish' = [wish EXCEPT ![r] = w] /\ executed' = executed \ {r}
      /\ cur' = [cur EXCEPT ![t] = r] /\ pc' = [pc EXCEPT ![t] = "add"]
  BY DEF Create, Go
<1> HIDE DEF r
<1>3. /\ pc'[t] = "add" /\ cur'[t] = r /\ wish'[r] = w
      /\ \A u \in Threads : u # t => pc'[u] = pc[u] /\ cur'[u] = cur[u]
      /\ \A q \in Requests : q # r => wish'[q] = wish[q]
  BY <1>1, <1>2 DEF TypeOK
<1>4. ASSUME NEW u \in Threads, u # t
      PROVE  Phase(u)' = Phase(u)
  <2>1. pc[u] \in Calling => cur[u] \in Requests /\ cur[u] # r
    BY <1>1, PlaceUses
  <2>2. pc'[u] = pc[u] /\ cur'[u] = cur[u]
    BY <1>3, <1>4
  <2>3. pc[u] \in Calling => wish'[cur'[u]] = wish[cur[u]]
    BY <1>3, <2>1, <2>2
  <2>4. pc[u] \in Calling => (cur'[u] \in executed' <=> cur[u] \in executed)
    BY <1>2, <2>1, <2>2
  <2> QED
    BY <2>2, <2>3, <2>4, PhaseKept
<1>5. Phase(t) = "no"
  BY DEF Phase, InCall, Calling
<1>6. Phase(t)' = "no" \/ Phase(t)' = "asked"
  BY <1>2, <1>3 DEF Phase
<1>7. CASE Phase(t)' = "no"
  BY <1>4, <1>5, <1>7 DEF Calls
<1>8. CASE Phase(t)' = "asked"
  <2>1. Calls' = [Calls EXCEPT ![t] = "asked"]
    BY <1>4, <1>8 DEF Calls
  <2> QED
    BY <1>5, <2>1 DEF Calls, Service!Ask
<1> QED
  BY <1>6, <1>7, <1>8

\* One execution serves everyone who waits for the request.
LEMMA ExecutePhases ==
  ASSUME TypeOK, RequestInv, Execute
  PROVE  \E S \in SUBSET Threads : Service!Serve(S)
<1> DEFINE S == {t \in Threads : InCall(t) /\ cur[t] = hand}
<1>1. /\ executed' = executed \cup {hand} /\ hand \notin executed
      /\ UNCHANGED <<pc, cur, wish>>
  BY DEF RequestInv, WorkInv, Execute, threadVars
<1>2. \A t \in Threads : InCall(t)' <=> InCall(t)
  BY <1>1 DEF InCall
<1>3. \A t \in S : Phase(t) = "asked" /\ Phase(t)' = "served"
  BY <1>1, <1>2 DEF Phase
<1>4. \A t \in Threads \ S : Phase(t)' = Phase(t)
  BY <1>1, <1>2 DEF Phase
<1>5. Calls' = [t \in Threads |-> IF t \in S THEN "served" ELSE Calls[t]]
  BY <1>3, <1>4 DEF Calls
<1>6. \A t \in S : Calls[t] = "asked"
  BY <1>3 DEF Calls
<1>7. Service!Serve(S)
  BY <1>5, <1>6 DEF Service!Serve, Calls
<1> QED
  BY <1>7

\* Every step of the queue is a step of the service, or one that it does not see.
LEMMA ServiceNext ==
  ASSUME NoSharedUnwind, TypeOK, RequestInv, [Next]_vars
  PROVE  Service!Next \/ Calls' = Calls
<1> USE DEF queueVars, haltVars, workerVars, reqVars, threadVars
<1>1. ASSUME UNCHANGED <<cur, wish, executed>>,
             \A u \in Threads : pc'[u] \in Calling <=> pc[u] \in Calling
      PROVE  Calls' = Calls
  <2>1. \A u \in Threads : Phase(u)' = Phase(u)
    BY <1>1, PhaseKept
  <2> QED
    BY <2>1 DEF Calls
<1>2. CASE Work
  <2>1. CASE Execute
    BY <2>1, ExecutePhases DEF Service!Next
  <2>2. CASE ~Execute
    <3>1. UNCHANGED <<cur, wish, executed, pc>>
      BY <1>2, <2>2 DEF Work, WorkerAcquires, WorkerChecks, WorkerTakes, WorkerSkips,
                        WorkerRuns, WorkerAbandons, WorkerFinds, WorkerAnswers
    <3> QED
      BY <1>1, <3>1
  <2> QED
    BY <2>1, <2>2
<1>3. ASSUME NEW t \in Threads,
             Insert(t) \/ Check(t) \/ Sleep(t) \/ Acquire(t) \/ AcquireFails(t)
      PROVE  Calls' = Calls
  <2>1. /\ UNCHANGED <<cur, wish, executed>> /\ pc[t] \in Calling
        /\ \E a \in Calling : pc' = [pc EXCEPT ![t] = a]
    BY <1>3 DEF Insert, Check, Sleep, Acquire, AcquireFails, Go, Calling
  <2>2. \A u \in Threads : pc'[u] \in Calling <=> pc[u] \in Calling
    BY <2>1 DEF TypeOK
  <2> QED
    BY <1>1, <2>1, <2>2
<1>4. ASSUME NEW t \in Threads, Share(t)
      PROVE  Calls' = Calls
  <2>1. PICK q \in Equals(cur[t]) : cur' = [cur EXCEPT ![t] = q]
    BY <1>4 DEF Share
  <2>2. /\ pc[t] = "add" /\ pc' = [pc EXCEPT ![t] = "check"] /\ UNCHANGED <<wish, executed>>
    BY <1>4 DEF Share, Go
  <2>3. cur[t] \in Requests
    BY <2>2, PlaceUses DEF Calling
  <2>4. Priority[wish[cur[t]]] \in Priorities
    BY <2>3, RequestQueueAssumption DEF TypeOK
  <2>5. q \in Range(queue[Priority[wish[cur[t]]]]) /\ wish[q] = wish[cur[t]]
    BY DEF Equals
  <2>6. Queued(q) /\ q \in Requests
    BY <2>4, <2>5 DEF Queued, TypeOK, Range
  <2>7. q \notin executed /\ cur[t] \notin executed
    BY <2>2, <2>6 DEF RequestInv, WorkInv, NewInv, NewOf
  <2>8. /\ pc'[t] = "check" /\ cur'[t] = q
        /\ \A u \in Threads : u # t => pc'[u] = pc[u] /\ cur'[u] = cur[u]
    BY <2>1, <2>2 DEF TypeOK
  <2>9. Phase(t)' = Phase(t)
    BY <2>2, <2>5, <2>7, <2>8, PhaseKept DEF Calling
  <2>10. \A u \in Threads : u # t => Phase(u)' = Phase(u)
    BY <2>2, <2>8, PhaseKept
  <2> QED
    BY <2>9, <2>10 DEF Calls
<1>5. ASSUME NEW t \in Threads, CheckRejected(t) \/ Answer(t) \/ AnswerInterrupted(t)
      PROVE  Service!Return(t) \/ Calls' = Calls
  <2>1. Leave(t) /\ UNCHANGED <<wish, executed>> /\ pc[t] \in Calling \ {"add"}
    BY <1>5 DEF CheckRejected, Answer, AnswerInterrupted, Calling
  <2>2. /\ pc'[t] \notin Calling
        /\ \A u \in Threads : u # t => pc'[u] = pc[u] /\ cur'[u] = cur[u]
    BY <2>1 DEF Leave, Go, TypeOK, Calling
  <2>3. ~InCall(t) \/ cur[t] \in executed
    <3>1. CASE cur[t] \in rejected
      BY <2>1, <3>1, RejectedExposed
    <3>2. CASE cur[t] \notin rejected
      <4>1. pc[t] = "woken"
        BY <1>5, <3>2 DEF CheckRejected, Answer, AnswerInterrupted
      <4>2. cur[t] \in completed \/ <<t, wish[cur[t]]>> \in Unwinding
        BY <3>2, <4>1, WokenLate
      <4> QED
        BY <4>2 DEF RequestInv, WorkInv, InCall, Exposed
    <3> QED
      BY <3>1, <3>2
  <2> QED
    BY <2>1, <2>2, <2>3, LeavePhases
<1>6. ASSUME NEW t \in Threads, HaltStops(t) \/ HaltJoins(t) \/ JoinLoops(t) \/ HaltSkips(t)
                                  \/ CheckValid(t) \/ Tweak(t) \/ Unwind(t)
      PROVE  Calls' = Calls
  <2>1. UNCHANGED <<cur, wish, executed>>
    BY <1>6 DEF HaltStops, HaltJoins, JoinLoops, HaltSkips, CheckValid, Tweak, Unwind
  <2>2. pc' = pc \/ (/\ pc[t] \notin Calling
                     /\ \E a \in Dying : pc' = [pc EXCEPT ![t] = a])
    BY <1>6 DEF HaltStops, HaltJoins, JoinLoops, HaltSkips, CheckValid, Tweak, Unwind, Go,
                Calling, Dying
  <2>3. \A a \in Dying : a \notin Calling
    BY DEF Calling, Dying
  <2>4. \A u \in Threads : pc'[u] \in Calling <=> pc[u] \in Calling
    BY <2>2, <2>3 DEF TypeOK
  <2> QED
    BY <1>1, <2>1, <2>4
<1>7. ASSUME NEW t \in Threads, Resume(t) \/ Exit(t) \/ ExitHolding(t)
      PROVE  Calls' = Calls
  <2>1. /\ UNCHANGED <<wish, executed>> /\ ~InCall(t)
    BY <1>7 DEF Resume, Exit, ExitHolding, Killed, InCall, Exposed, Calling, RequestInv,
                PlaceInv, PlaceOf
  <2>2. PICK a, c : /\ a \in {"dead", "halt"}
                    /\ pc' = [pc EXCEPT ![t] = a] /\ cur' = [cur EXCEPT ![t] = c]
    BY <1>7 DEF Resume, Exit, ExitHolding, NextPending, Go
  <2>3. /\ pc'[t] \notin Calling
        /\ \A u \in Threads : u # t => pc'[u] = pc[u] /\ cur'[u] = cur[u]
    BY <2>2 DEF TypeOK, Calling
  <2>4. Phase(t) = "no" /\ Phase(t)' = "no"
    BY <2>1, <2>3 DEF Phase, InCall
  <2>5. \A u \in Threads : u # t => Phase(u)' = Phase(u)
    BY <2>1, <2>3, PhaseKept
  <2> QED
    BY <2>4, <2>5 DEF Calls
<1>8. ASSUME NEW t \in Callers, NEW w \in Wishes, AddRequest(t, w)
      PROVE  Service!Next \/ Calls' = Calls
  <2>1. t \in Threads /\ pc[t] = "idle" /\ Create(t, w)
    BY <1>8 DEF AddRequest, Threads
  <2> QED
    BY <2>1, CreatePhases DEF Service!Next
<1>9. ASSUME NEW t \in Callers, NEW h \in Helpers, NEW w \in Wishes, AddAsyncRequest(t, h, w)
      PROVE  Service!Next \/ Calls' = Calls
  <2>1. h \in Threads /\ pc[h] = "unborn" /\ Create(h, w)
    BY <1>9 DEF AddAsyncRequest, Threads
  <2> QED
    BY <2>1, CreatePhases DEF Service!Next
<1>10. CASE UNCHANGED vars
  BY <1>1, <1>10 DEF vars
<1> QED
  BY <1>2, <1>3, <1>4, <1>5, <1>6, <1>7, <1>8, <1>9, <1>10
     DEF Next, CallStep, ShutdownStep, Service!Next

\* The queue implements the synchronous service that addRequest promises: a call that
\* shares no request with one that dies returns only after its request has been executed.
THEOREM RequestQueueImplementsService ==
  ASSUME NoSharedUnwind
  PROVE  Spec => ImplementsService
<1>1. Init => Service!Init
  <2> SUFFICES ASSUME Init
               PROVE  \A t \in Threads : Phase(t) = "no"
    BY DEF Service!Init
  <2> QED
    BY DEF Init, Phase, InCall, Calling
<1>2. TypeOK /\ RequestInv /\ [Next]_vars => [Service!Next]_Calls
  BY ServiceNext
<1>3. TypeOK /\ RequestInv /\ [Next]_vars => [Service!Next]_([t \in Threads |-> Phase(t)])
  BY <1>2 DEF Calls
<1> QED
  BY <1>1, <1>3, RequestInvariant, PTL DEF Spec, ImplementsService, Service!Spec

=============================================================================
