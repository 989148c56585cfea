-------------------------------- MODULE Pipe --------------------------------
(***************************************************************************)
(* A Pipe, the monitor targets of its File, and the threads at its two     *)
(* ends: read, write and close it, and poll until it is ready.  Semaphores *)
(* and mutexes are atomic (module Semaphore has their steps); a section    *)
(* under a Spinlock is one step.  The n-th byte ever written is the        *)
(* number n.                                                               *)
(***************************************************************************)
EXTENDS Integers, Sequences, FiniteSets

CONSTANTS
  Readers,      \* threads with a descriptor for reading
  Writers,      \* threads with a descriptor for writing
  NoThread,     \* m_Lock is free
  PipeBufMax,   \* PIPE_BUF_MAX
  Sizes,        \* how much a thread reads or writes in a call
  Polling,      \* threads that use poll
  Unwinding,    \* threads that may be asked to unwind while they block
  Kinds,        \* values of m_bIsAnonymous: pipes, named pipes
  MaxBytes,     \* bound: bytes written in all
  MaxReopens    \* bound: how often writers open the pipe again

Threads == Readers \cup Writers

ASSUME PipeAssumption ==
  /\ PipeBufMax \in Nat \ {0} /\ MaxBytes \in Nat /\ MaxReopens \in Nat
  /\ Sizes \subseteq Nat \ {0}
  /\ IsFiniteSet(Threads) /\ Readers \cap Writers = {} /\ NoThread \notin Threads
  /\ Polling \subseteq Threads /\ Unwinding \subseteq Threads
  /\ Kinds \subseteq BOOLEAN

VARIABLES
  bufLen,       \* counter of m_BufLen
  bufAvailable, \* counter of m_BufAvailable
  front, back,  \* m_Front, m_Back
  buffer,       \* m_Buffer
  isAnonymous,  \* m_bIsAnonymous, which never changes
  isEOF,        \* m_bIsEOF
  lock,         \* who holds m_Lock
  targets,      \* m_MonitorTargets, as threads: a poll has one event
  zombies,      \* ZombiePipe objects in the ZombieQueue
  deleted,      \* the Pipe is deleted
  open,         \* threads whose descriptor is open: m_nReaders, m_nWriters
  pc,           \* place of each thread
  left,         \* size: what is left to read or write
  wait,         \* how a read or a poll waits: "no", "timeout" or "forever"
  byte,         \* the byte a reader has just fetched
  unwind,       \* threads whose unwind state is Exit
  sem,          \* counter of the semaphore of a thread's poll
  events,       \* PollEvents in each thread's event queue
  due,          \* threads that handle an event when they get the CPU
  interrupted,  \* threads with m_bInterrupted set
  sent, got,    \* history: bytes put into the pipe and taken out
  upset,        \* history: "restart" and "full", see Quiet and LooksEmpty
  reopens       \* history: how often the pipe was opened again

bufVars == <<bufLen, bufAvailable, front, back, buffer, sent, got>>

monitorVars == <<lock, targets>>

openVars == <<isAnonymous, isEOF, zombies, deleted, open>>

historyVars == <<upset, reopens>>

fileVars == <<monitorVars, openVars, historyVars>>

callVars == <<left, byte, unwind>>

pollVars == <<sem, events, due, interrupted>>

vars == <<bufVars, fileVars, pc, wait, callVars, pollVars>>

Init ==
  /\ bufLen = 0 /\ bufAvailable = PipeBufMax
  /\ front = 0 /\ back = 0
  /\ buffer = [i \in 0 .. PipeBufMax - 1 |-> 0]
  /\ isAnonymous \in Kinds /\ isEOF = FALSE
  /\ lock = NoThread /\ targets = <<>>
  /\ zombies = 0 /\ deleted = FALSE
  /\ open = Threads
  /\ pc = [t \in Threads |-> "idle"]
  /\ left = [t \in Threads |-> 0]
  /\ wait = [t \in Threads |-> "no"]
  /\ byte = [t \in Threads |-> 0]
  /\ unwind = {}
  /\ sem = [t \in Threads |-> 0]
  /\ events = [t \in Threads |-> 0]
  /\ due = {} /\ interrupted = {}
  /\ sent = 0 /\ got = 0 /\ upset = {} /\ reopens = 0

\* Places in read, in write, in dataChanged, in increaseRefCount and in poll.
Reading == {"read", "tryEOF", "checkEOF", "wait", "check", "copy", "advance"}

Writing == {"write", "store", "link"}

Changing == {"change", "send"}

Reopening == {"drain", "count"}

InPoll ==
  {"select", "release", "leave", "monitor", "acquire", "asleep", "tally", "clean", "cull"}

\* t goes from one place to another; it handles an event that is due first.  What
\* is local to a call goes when it returns.
Go(t, from, to) ==
  /\ pc[t] = from /\ t \notin due
  /\ pc' = [pc EXCEPT ![t] = to]
  /\ wait' = IF to = "idle" THEN [wait EXCEPT ![t] = "no"] ELSE wait

\* A thread that does not unwind starts a call.
Call(t, to, w) ==
  /\ t \in open \ (due \cup unwind) /\ pc[t] = "idle"
  /\ pc' = [pc EXCEPT ![t] = to]
  /\ wait' = [wait EXCEPT ![t] = w]

----------------------------------------------------------------------------
(* Pipe::read *)

\* History: the pipe is used while a writer opens it again.
Restarted ==
  upset' = IF \E t \in Threads : pc[t] \in Reopening THEN upset \cup {"restart"} ELSE upset

ReadStart(t, n, w) ==
  /\ t \in Readers /\ Call(t, "read", w)
  /\ left' = [left EXCEPT ![t] = n]
  /\ Restarted
  /\ UNCHANGED <<bufVars, monitorVars, openVars, reopens, byte, unwind, pollVars>>

\* The head of the loop: everything is read, or EOF is signalled, or not.
ReadLoop(t) ==
  /\ Go(t, "read", IF left[t] = 0 THEN "idle" ELSE IF isEOF THEN "tryEOF" ELSE "wait")
  /\ UNCHANGED <<bufVars, fileVars, callVars, pollVars>>

ReadEnds(t) ==
  /\ Go(t, "tryEOF", "idle") /\ bufLen = 0
  /\ UNCHANGED <<bufVars, fileVars, callVars, pollVars>>

ReadTakes(t, from, to) ==
  /\ Go(t, from, to) /\ bufLen > 0
  /\ bufLen' = bufLen - 1
  /\ UNCHANGED <<bufAvailable, front, back, buffer, sent, got, fileVars, callVars,
                 pollVars>>

\* Mutant: EOF ends a read that has taken a byte.
MutantReadChecks(t) ==
  /\ \/ Go(t, "checkEOF", IF front = back THEN "idle" ELSE "copy")
     \/ Go(t, "check", IF isEOF THEN "idle" ELSE "copy")
  /\ UNCHANGED <<bufVars, fileVars, callVars, pollVars>>

\* The unit may stand for an EOF that nobody has seen yet.
ReadChecks(t) ==
  /\ \/ Go(t, "checkEOF", IF front = back THEN "idle" ELSE "copy")
     \/ Go(t, "check", IF isEOF /\ front = back THEN "idle" ELSE "copy")
  /\ UNCHANGED <<bufVars, fileVars, callVars, pollVars>>

\* bCanBlock is false and there is nothing to read.
ReadGivesUp(t) ==
  /\ Go(t, "wait", "idle") /\ bufLen = 0 /\ wait[t] = "no"
  /\ UNCHANGED <<bufVars, fileVars, callVars, pollVars>>

ReadCopies(t) ==
  /\ Go(t, "copy", "advance")
  /\ byte' = [byte EXCEPT ![t] = buffer[front]]
  /\ UNCHANGED <<bufVars, fileVars, left, unwind, pollVars>>

\* Mutant: m_BufAvailable is not released.
MutantReadAdvances(t) ==
  /\ Go(t, "advance", "read")
  /\ front' = (front + 1) % PipeBufMax
  /\ left' = [left EXCEPT ![t] = @ - 1]
  /\ byte' = [byte EXCEPT ![t] = 0]
  /\ got' = got + 1
  /\ UNCHANGED <<bufLen, bufAvailable, back, buffer, sent, fileVars, unwind, pollVars>>

ReadAdvances(t) ==
  /\ Go(t, "advance", "read")
  /\ front' = (front + 1) % PipeBufMax
  /\ bufAvailable' = bufAvailable + 1
  /\ left' = [left EXCEPT ![t] = @ - 1]
  /\ byte' = [byte EXCEPT ![t] = 0]
  /\ got' = got + 1
  /\ UNCHANGED <<bufLen, back, buffer, sent, fileVars, unwind, pollVars>>

ReadStep(t) ==
  \/ ReadLoop(t) \/ ReadEnds(t) \/ ReadTakes(t, "tryEOF", "checkEOF")
  \/ ReadTakes(t, "wait", "check") \/ ReadGivesUp(t) \/ ReadChecks(t)
  \/ ReadCopies(t) \/ ReadAdvances(t)

----------------------------------------------------------------------------
(* Pipe::write *)

WriteStart(t, n) ==
  /\ t \in Writers /\ Call(t, "write", "forever")
  /\ sent + n <= MaxBytes
  /\ left' = [left EXCEPT ![t] = n]
  /\ UNCHANGED <<bufVars, fileVars, byte, unwind, pollVars>>

\* Mutant: write does not wait for room.
MutantWriteTakes(t) ==
  /\ left[t] > 0 /\ Go(t, "write", "store")
  /\ bufAvailable' = IF bufAvailable > 0 THEN bufAvailable - 1 ELSE 0
  /\ UNCHANGED <<bufLen, front, back, buffer, sent, got, fileVars, callVars, pollVars>>

\* Whatever bCanBlock says, write waits for room.
WriteTakes(t) ==
  /\ left[t] > 0 /\ Go(t, "write", "store") /\ bufAvailable > 0
  /\ bufAvailable' = bufAvailable - 1
  /\ UNCHANGED <<bufLen, front, back, buffer, sent, got, fileVars, callVars, pollVars>>

WriteStores(t) ==
  /\ Go(t, "store", "link")
  /\ buffer' = [buffer EXCEPT ![back] = sent + 1]
  /\ UNCHANGED <<bufLen, bufAvailable, front, back, sent, got, fileVars, callVars,
                 pollVars>>

WriteLinks(t) ==
  /\ Go(t, "link", "write")
  /\ back' = (back + 1) % PipeBufMax
  /\ bufLen' = bufLen + 1
  /\ left' = [left EXCEPT ![t] = @ - 1]
  /\ sent' = sent + 1
  /\ UNCHANGED <<bufAvailable, front, buffer, got, fileVars, byte, unwind, pollVars>>

WriteDone(t) ==
  /\ left[t] = 0 /\ Go(t, "write", "change")
  /\ UNCHANGED <<bufVars, fileVars, callVars, pollVars>>

\* A blocked read or write is asked to unwind.  Its acquire fails, which nobody
\* notices.
Unwind(t) ==
  /\ t \in Unwinding /\ t \notin unwind
  /\ \/ pc[t] = "wait" /\ bufLen = 0 /\ wait[t] # "no"
     \/ pc[t] = "write" /\ left[t] > 0 /\ bufAvailable = 0
  /\ unwind' = unwind \cup {t}
  /\ UNCHANGED <<bufVars, fileVars, pc, wait, left, byte, pollVars>>

AcquireFails(t) ==
  /\ t \in unwind
  /\ Go(t, "wait", "check") \/ (left[t] > 0 /\ Go(t, "write", "store"))
  /\ UNCHANGED <<bufVars, fileVars, callVars, pollVars>>

----------------------------------------------------------------------------
(* File::dataChanged *)

\* m_Lock is not a Spinlock: others may run while it is held.
ChangeLocks(t) ==
  /\ Go(t, "change", "send") /\ lock = NoThread
  /\ lock' = t
  /\ UNCHANGED <<bufVars, targets, openVars, historyVars, callVars, pollVars>>

\* Thread::sendEvent: the thread will handle the event when it runs again.
ChangeSends(t) ==
  /\ Go(t, "send", "send") /\ targets # <<>>
  /\ LET p == Head(targets)
     IN events' = [events EXCEPT ![p] = @ + 1] /\ due' = due \cup {p}
  /\ targets' = Tail(targets)
  /\ UNCHANGED <<bufVars, lock, openVars, historyVars, callVars, sem, interrupted>>

ChangeDone(t) ==
  /\ Go(t, "send", IF t \in open THEN "idle" ELSE "closed") /\ targets = <<>>
  /\ lock' = NoThread
  /\ UNCHANGED <<bufVars, targets, openVars, historyVars, callVars, pollVars>>

WriteStep(t) ==
  \/ WriteTakes(t) \/ WriteStores(t) \/ WriteLinks(t) \/ WriteDone(t)
  \/ ChangeLocks(t) \/ ChangeSends(t) \/ ChangeDone(t)

----------------------------------------------------------------------------
(* decreaseRefCount and increaseRefCount *)

\* m_Front == m_Back holds of a full pipe as well.
LooksEmpty == front = back /\ sent # got


\* Mutant: the pipe dies with its last writer.
MutantCloseDies(t) ==
  LET last == open \cap Writers = {t}
  IN /\ t \in open /\ lock = NoThread
     /\ Go(t, "idle", IF last /\ ~(isAnonymous /\ open = {t}) THEN "change" ELSE "closed")
     /\ open' = open \ {t}
     /\ isEOF' = (isEOF \/ last)
     /\ bufLen' = IF last /\ front = back THEN bufLen + 1 ELSE bufLen
     /\ zombies' = IF isAnonymous /\ last THEN zombies + 1 ELSE zombies
     /\ upset' = IF last /\ LooksEmpty THEN upset \cup {"full"} ELSE upset
     /\ UNCHANGED <<bufAvailable, front, back, buffer, sent, got, monitorVars,
                    isAnonymous, deleted, reopens, callVars, pollVars>>

\* All of it is under m_Lock, except that dataChanged follows for the last writer.
Close(t) ==
  LET last == open \cap Writers = {t}
  IN /\ t \in open /\ lock = NoThread
     /\ Go(t, "idle", IF last /\ ~(isAnonymous /\ open = {t}) THEN "change" ELSE "closed")
     /\ open' = open \ {t}
     /\ isEOF' = (isEOF \/ last)
     /\ bufLen' = IF last /\ front = back THEN bufLen + 1 ELSE bufLen
     /\ zombies' = IF isAnonymous /\ open = {t} THEN zombies + 1 ELSE zombies
     /\ upset' = IF last /\ LooksEmpty THEN upset \cup {"full"} ELSE upset
     /\ UNCHANGED <<bufAvailable, front, back, buffer, sent, got, monitorVars,
                    isAnonymous, deleted, reopens, callVars, pollVars>>

\* The ZombieQueue deletes the pipe.
Reap ==
  /\ zombies > 0
  /\ zombies' = zombies - 1 /\ deleted' = TRUE
  /\ UNCHANGED <<bufVars, monitorVars, isAnonymous, isEOF, open, historyVars, pc, wait,
                 callVars, pollVars>>

\* The pipe is empty and no reader is at it: nothing is lost when it is started again.
Quiet == sent = got /\ \A r \in Readers : pc[r] \in {"idle", "asleep", "closed"}

\* The writer opens the pipe again, without m_Lock.
Reopen(t) ==
  /\ t \in Writers \ unwind /\ ~isAnonymous /\ reopens < MaxReopens
  /\ Go(t, "closed", IF isEOF THEN "drain" ELSE "count")
  /\ isEOF' = FALSE
  /\ upset' = IF isEOF /\ ~Quiet THEN upset \cup {"restart"} ELSE upset
  /\ reopens' = reopens + 1
  /\ UNCHANGED <<bufVars, monitorVars, isAnonymous, zombies, deleted, open, callVars,
                 pollVars>>

\* What is left in the pipe is gone.
ReopenDrains(t) ==
  /\ Go(t, "drain", "count")
  /\ bufLen' = 0 /\ front' = 0 /\ back' = 0
  /\ got' = sent
  /\ UNCHANGED <<bufAvailable, buffer, sent, fileVars, callVars, pollVars>>

ReopenCounts(t) ==
  /\ Go(t, "count", "idle")
  /\ open' = open \cup {t}
  /\ UNCHANGED <<bufVars, monitorVars, isAnonymous, isEOF, zombies, deleted,
                 historyVars, callVars, pollVars>>

----------------------------------------------------------------------------
(* posix_poll for one descriptor; POLLIN for readers, POLLOUT for writers *)

Ready(t) == IF t \in Readers THEN bufLen > 0 ELSE bufAvailable > 0

PollStart(t, w) ==
  /\ t \in Polling /\ Call(t, "select", w)
  /\ Restarted
  /\ UNCHANGED <<bufVars, monitorVars, openVars, reopens, callVars, pollVars>>

\* Pipe::select takes a unit if there is one and gives it back.
PollSelects(t) ==
  /\ Go(t, "select", "release") /\ Ready(t)
  /\ IF t \in Readers
     THEN bufLen' = bufLen - 1 /\ UNCHANGED bufAvailable
     ELSE bufAvailable' = bufAvailable - 1 /\ UNCHANGED bufLen
  /\ UNCHANGED <<front, back, buffer, sent, got, fileVars, callVars, pollVars>>

PollReleases(t) ==
  /\ Go(t, "release", "leave")
  /\ IF t \in Readers
     THEN bufLen' = bufLen + 1 /\ UNCHANGED bufAvailable
     ELSE bufAvailable' = bufAvailable + 1 /\ UNCHANGED bufLen
  /\ UNCHANGED <<front, back, buffer, sent, got, fileVars, callVars, pollVars>>

PollNotReady(t) ==
  /\ Go(t, "select", IF wait[t] = "no" THEN "leave" ELSE "monitor") /\ ~Ready(t)
  /\ UNCHANGED <<bufVars, fileVars, callVars, pollVars>>

\* Mutant: no second look.
MutantPollMonitors(t) ==
  /\ Go(t, "monitor", "acquire") /\ lock = NoThread
  /\ targets' = Append(targets, t)
  /\ UNCHANGED <<bufVars, lock, openVars, historyVars, callVars, pollVars>>

\* monitor and the second look, under the reentrancy lock.
PollMonitors(t) ==
  /\ Go(t, "monitor", IF Ready(t) THEN "clean" ELSE "acquire") /\ lock = NoThread
  /\ targets' = Append(targets, t)
  /\ UNCHANGED <<bufVars, lock, openVars, historyVars, callVars, pollVars>>

\* pollEventHandler, in the thread the event was sent to.
PollFires(t) ==
  /\ events[t] > 0
  /\ events' = [events EXCEPT ![t] = @ - 1]
  /\ due' = due \ {t}
  /\ sem' = [sem EXCEPT ![t] = @ + 1]
  /\ UNCHANGED <<bufVars, fileVars, pc, wait, callVars, interrupted>>

\* The acquire succeeds at once, or the thread sleeps until it is signalled or its
\* timeout fires.
PollAcquires(t, from) ==
  /\ Go(t, from, "tally") /\ sem[t] > 0
  /\ sem' = [sem EXCEPT ![t] = @ - 1]
  /\ UNCHANGED <<bufVars, fileVars, callVars, events, due, interrupted>>

PollSleeps(t) ==
  /\ Go(t, "acquire", "asleep") /\ sem[t] = 0
  /\ interrupted' = interrupted \ {t}
  /\ UNCHANGED <<bufVars, fileVars, callVars, sem, events, due>>

PollTimesOut(t) ==
  /\ Go(t, "asleep", "tally") /\ wait[t] = "timeout"
  /\ interrupted' = interrupted \cup {t}
  /\ UNCHANGED <<bufVars, fileVars, callVars, sem, events, due>>

\* The descriptors that are ready are counted, unless wasInterrupted() holds.
PollTallies(t) ==
  /\ Go(t, "tally", "clean")
  /\ sem' = IF t \in interrupted THEN sem ELSE [sem EXCEPT ![t] = 0]
  /\ UNCHANGED <<bufVars, fileVars, callVars, events, due, interrupted>>

\* File::cullMonitorTargets starts again after each erase, but one too far.
CullTargets(t) ==
  LET Has(s) == \E i \in 1 .. Len(s) : s[i] = t
      k == CHOOSE i \in 1 .. Len(targets) :
             targets[i] = t /\ \A j \in 1 .. i - 1 : targets[j] # t
      rest == SubSeq(targets, 1, k - 1) \o SubSeq(targets, k + 1, Len(targets))
  IN IF ~Has(targets) THEN targets
     ELSE IF rest = <<>> \/ ~Has(Tail(rest)) THEN rest
     ELSE <<Head(rest)>> \o SelectSeq(Tail(rest), LAMBDA u : u # t)

\* The end of a poll that has set up no event.
PollLeaves(t) ==
  /\ Go(t, "leave", "idle")
  /\ events' = [events EXCEPT ![t] = 0]
  /\ UNCHANGED <<bufVars, fileVars, callVars, sem, due, interrupted>>

\* Mutant: poll does not wait for m_Lock.
MutantPollCleans(t) ==
  /\ Go(t, "clean", "idle")
  /\ events' = [events EXCEPT ![t] = 0]
  /\ IF lock = NoThread
     THEN targets' = CullTargets(t) /\ sem' = [sem EXCEPT ![t] = 0]
     ELSE UNCHANGED <<targets, sem>>
  /\ UNCHANGED <<bufVars, lock, openVars, historyVars, callVars, due, interrupted>>

\* The clean-up is under the reentrancy lock, but has to wait for m_Lock.
PollCleans(t) ==
  /\ Go(t, "clean", IF lock = NoThread THEN "idle" ELSE "cull")
  /\ events' = [events EXCEPT ![t] = 0]
  /\ IF lock = NoThread
     THEN targets' = CullTargets(t) /\ sem' = [sem EXCEPT ![t] = 0]
     ELSE UNCHANGED <<targets, sem>>
  /\ UNCHANGED <<bufVars, lock, openVars, historyVars, callVars, due, interrupted>>

PollCulls(t) ==
  /\ Go(t, "cull", "idle") /\ lock = NoThread
  /\ targets' = CullTargets(t)
  /\ sem' = [sem EXCEPT ![t] = 0]
  /\ UNCHANGED <<bufVars, lock, openVars, historyVars, callVars, events, due, interrupted>>

PollStep(t) ==
  \/ PollSelects(t) \/ PollReleases(t) \/ PollNotReady(t) \/ PollMonitors(t)
  \/ PollAcquires(t, "acquire") \/ PollAcquires(t, "asleep") \/ PollSleeps(t)
  \/ PollTallies(t) \/ PollLeaves(t) \/ PollCleans(t) \/ PollCulls(t)

----------------------------------------------------------------------------
Step(t) ==
  \/ ReadStep(t) \/ WriteStep(t) \/ PollStep(t) \/ PollFires(t)
  \/ AcquireFails(t) \/ ReopenDrains(t) \/ ReopenCounts(t)

Next ==
  \/ Reap
  \/ \E t \in Threads :
       \/ Step(t) \/ PollTimesOut(t) \/ Unwind(t) \/ Close(t) \/ Reopen(t)
       \/ \E n \in Sizes, w \in {"no", "forever"} : ReadStart(t, n, w)
       \/ \E n \in Sizes : WriteStart(t, n)
       \/ \E w \in {"no", "timeout", "forever"} : PollStart(t, w)

Spec == Init /\ [][Next]_vars

(***************************************************************************)
(* A thread in a call goes on when it can.  Nothing makes it start one,    *)
(* close the pipe or open it again.                                        *)
(***************************************************************************)
FairSpec == Spec /\ \A t \in Threads : WF_vars(Step(t))

----------------------------------------------------------------------------
(* Properties *)

\* The bytes come out in the order they went in, none is lost and none comes twice,
\* while nobody has been torn out of a blocked call and the pipe was not started again
\* with bytes in it or a reader at it.
BytesInOrder ==
  unwind = {} /\ "restart" \notin upset =>
    \A t \in Readers : pc[t] = "advance" => byte[t] = got + 1

\* Free cells, bytes and the cells in writers' hands.
Room ==
  bufAvailable + (sent - got)
    + Cardinality({t \in Writers : pc[t] \in {"store", "link", "release"}})

\* Every cell of the buffer is free, or holds a byte, or is in a writer's hands, under
\* the same two conditions.
CapacityKept == unwind = {} /\ "restart" \notin upset => Room = PipeBufMax

EndsRead(t) == pc[t] \in {"tryEOF", "checkEOF", "check"} /\ pc'[t] = "idle"

\* A read is told that the pipe has ended only when all that was written is read, while
\* the last writer has not left a full pipe either.
EOFMeansDrained ==
  [][unwind = {} /\ upset = {} => \A t \in Readers : EndsRead(t) => sent = got]_vars

\* The pipe is given to the ZombieQueue once, after all descriptors are closed.  Only
\* the last writer may still use it then, in the dataChanged that follows its close.
DeletedOnce ==
  zombies > 0 \/ deleted =>
    /\ zombies = IF deleted THEN 0 ELSE 1
    /\ \A t \in Threads : pc[t] \in {"closed"} \cup Changing

\* After a poll nothing refers to its event, which is deleted, or to its semaphore.
NoStaleEvent ==
  \A t \in Threads :
    pc[t] \notin InPoll => events[t] = 0 /\ \A i \in 1 .. Len(targets) : targets[i] # t

\* A writer is in the middle of a write that the pipe has no room for.
WriterBlocked ==
  \E t \in Writers : pc[t] = "write" /\ left[t] > 0 /\ bufAvailable = 0

\* A reader that waits in poll is woken when there is something to read, unless a
\* writer is blocked: dataChanged is called at the end of a write only.
PollWoken ==
  \A t \in Polling \cap Readers :
    pc[t] = "asleep" /\ bufLen > 0 ~> pc[t] # "asleep" \/ WriterBlocked

=============================================================================
