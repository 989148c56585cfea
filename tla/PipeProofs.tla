----------------------------- MODULE PipeProofs -----------------------------
(***************************************************************************)
(* Proofs about Pipe, for every number of threads, every size of the       *)
(* buffer and every size of a read or write.  (MaxBytes, the bound of the  *)
(* model checker, is arbitrary.)                                           *)
(***************************************************************************)
EXTENDS Pipe, SequenceLemmas, FiniteSetTheorems

Places == {"idle", "closed"} \cup Reading \cup Writing \cup Changing \cup Reopening \cup InPoll

\* The types of what a thread keeps in a call.  What is left to do does not pass zero.
CallTypeOK ==
  /\ pc \in [Threads -> Places]
  /\ left \in [Threads -> Nat]
  /\ \A t \in Threads :
       pc[t] \in (Reading \ {"read"}) \cup (Writing \ {"write"}) => left[t] > 0
  /\ wait \in [Threads -> {"no", "timeout", "forever"}]
  /\ byte \in [Threads -> Nat]

\* The types of the pipe, of its file and of the polls.
DataTypeOK ==
  /\ bufLen \in Nat /\ bufAvailable \in Nat
  /\ front \in 0 .. PipeBufMax - 1 /\ back \in 0 .. PipeBufMax - 1
  /\ buffer \in [0 .. PipeBufMax - 1 -> Nat]
  /\ isAnonymous \in Kinds /\ isEOF \in BOOLEAN
  /\ lock \in Threads \cup {NoThread} /\ targets \in Seq(Threads)
  /\ zombies \in Nat /\ deleted \in BOOLEAN
  /\ open \subseteq Threads /\ unwind \subseteq Threads
  /\ sem \in [Threads -> Nat] /\ events \in [Threads -> Nat]
  /\ due \subseteq Threads /\ interrupted \subseteq Threads
  /\ sent \in Nat /\ got \in Nat
  /\ upset \subseteq {"restart", "full"}

PipeTypeOK == CallTypeOK /\ DataTypeOK

\* The places where the event of a poll may be among the targets or in the queue.
Armed == {"acquire", "asleep", "tally", "clean", "cull"}

\* A poll has one event, which is among the targets of the file, or in the event
\* queue of the thread, or nowhere; and the poll has not ended then.
EventInv ==
  /\ NoDup(targets)
  /\ \A t \in Threads :
       /\ events[t] = IF t \in due THEN 1 ELSE 0
       /\ t \in due => t \notin Elems(targets)
       /\ pc[t] \notin Armed => t \notin due /\ t \notin Elems(targets)

\* Readers read and writers write.  Descriptors that are closed are not used, and
\* the pipe is deleted when they all are.  An anonymous pipe is not opened again.
UseInv ==
  /\ \A t \in Threads :
       /\ t \in open => pc[t] \notin {"closed"} \cup Reopening
       /\ t \notin open => pc[t] \in {"closed"} \cup Changing \cup Reopening
       /\ pc[t] \in Reopening => ~isAnonymous
       /\ pc[t] \in Reading => t \in Readers
       /\ pc[t] \in Writing \cup Changing \cup Reopening => t \in Writers
  /\ zombies > 0 \/ deleted =>
       isAnonymous /\ open = {} /\ zombies = IF deleted THEN 0 ELSE 1

PipeInv == PipeTypeOK /\ EventInv /\ UseInv

\* The pipe is anonymous and not opened again, or it has one writer.
OneOpens == Kinds \subseteq {TRUE} \/ \E w : Writers = {w}

\* Nobody has been torn out of a blocked call, and the pipe was not started again with
\* bytes in it or a reader at it.
Orderly == unwind = {} /\ "restart" \notin upset

\* The places of a reader while the pipe is opened again.
Aside == {"idle", "asleep", "tally", "clean", "cull", "closed"}

\* While the pipe is opened again it is empty and stays so.  A single writer that has
\* closed the pipe has signalled its end.
ReopenInv ==
  \A w \in Writers :
    /\ pc[w] \in Reopening =>
         sent = got /\ Writers = {w} /\ \A t \in Readers : pc[t] \in Aside
    /\ Writers = {w} /\ w \notin open /\ pc[w] \notin Reopening => isEOF

\* The cell i behind cell f.
Cell(f, i) == IF f + i < PipeBufMax THEN f + i ELSE f + i - PipeBufMax

\* The buffer holds, from the front to the back, the bytes that were written and not
\* read.
RingInv(w) ==
  /\ back = Cell(front, sent - got)
  /\ \A i \in 0 .. sent - got - 1 : buffer[Cell(front, i)] = got + 1 + i
  /\ pc[w] = "link" => buffer[back] = sent + 1

\* The unit of m_BufLen in the hands of reader r.
Held(r) ==
  IF pc[r] \in {"check", "checkEOF", "copy", "advance", "release"} THEN 1 ELSE 0

\* m_BufLen counts the bytes until the end of the pipe is signalled.  If the pipe was not
\* full then, it still does, or is the one unit that tells the reader of the end.
CountInv(r, w) ==
  /\ got <= sent
  /\ ~isEOF /\ pc[w] # "drain" => bufLen + Held(r) = sent - got
  /\ "full" \notin upset =>
       /\ \/ bufLen + Held(r) = sent - got
          \/ bufLen + Held(r) = 1 /\ sent = got
       /\ isEOF => sent - got < PipeBufMax
  /\ isEOF => pc[w] \in {"closed"} \cup Changing /\ w \notin open
  /\ pc[r] \in {"tryEOF", "checkEOF"} => isEOF
  /\ pc[r] \in {"copy", "advance"} => got < sent
  /\ pc[r] = "advance" => byte[r] = got + 1

----------------------------------------------------------------------------
(* Operators *)

\* cullMonitorTargets takes out the target of the thread, and no other.
LEMMA CullLemma ==
  ASSUME targets \in Seq(Threads), NoDup(targets), NEW t
  PROVE  /\ CullTargets(t) \in Seq(Threads) /\ NoDup(CullTargets(t))
         /\ Elems(CullTargets(t)) = Elems(targets) \ {t}
<1> DEFINE Has(s) == \E i \in 1 .. Len(s) : s[i] = t
           k == CHOOSE i \in 1 .. Len(targets) :
                  targets[i] = t /\ \A j \in 1 .. i - 1 : targets[j] # t
           rest == SubSeq(targets, 1, k - 1) \o SubSeq(targets, k + 1, Len(targets))
<1>1. CASE ~Has(targets)
  <2>1. CullTargets(t) = targets
    BY <1>1 DEF CullTargets
  <2>2. t \notin Elems(targets)
    BY <1>1 DEF Elems
  <2> QED
    BY <2>1, <2>2
<1>2. CASE Has(targets)
  <2>1. PICK i \in 1 .. Len(targets) : targets[i] = t
    BY <1>2
  <2>2. \A j \in 1 .. i - 1 : targets[j] # t
    <3>1. \A j \in 1 .. i - 1 : j \in 1 .. Len(targets) /\ j # i
      BY LenProperties
    <3> QED
      BY <2>1, <3>1 DEF NoDup
  <2>3. k \in 1 .. Len(targets) /\ targets[k] = t
    BY <2>1, <2>2
  <2> HIDE DEF k
  <2>4. rest \in Seq(Threads) /\ NoDup(rest) /\ Elems(rest) = Elems(targets) \ {t}
    BY <2>3, RemoveAtElems
  <2> HIDE DEF rest
  <2>5. rest = <<>> \/ ~Has(Tail(rest))
    <3>1. ASSUME rest # <<>> PROVE ~Has(Tail(rest))
      <4>1. t \notin Elems(Tail(rest))
        BY <2>4, <3>1, TailElems
      <4> QED
        BY <4>1 DEF Elems
    <3> QED
      BY <3>1
  <2>6. CullTargets(t) = rest
    BY <1>2, <2>5 DEF CullTargets, rest, k
  <2> QED
    BY <2>4, <2>6
<1> QED
  BY <1>1, <1>2

\* The index of the buffer after the given one.
LEMMA NextCell ==
  ASSUME NEW i \in 0 .. PipeBufMax - 1
  PROVE  (i + 1) % PipeBufMax = IF i + 1 < PipeBufMax THEN i + 1 ELSE 0
<1>0. PipeBufMax \in Nat \ {0}
  BY PipeAssumption
<1>1. CASE i + 1 < PipeBufMax
  <2>1. \A j \in 0 .. PipeBufMax - 1 : j % PipeBufMax = j
    BY <1>0
  <2> QED
    BY <1>0, <1>1, <2>1
<1>2. CASE i + 1 = PipeBufMax
  <2>1. PipeBufMax % PipeBufMax = 0
    BY <1>0
  <2> QED
    BY <1>0, <1>2, <2>1
<1> QED
  BY <1>0, <1>1, <1>2

----------------------------------------------------------------------------
(* The types, the events of polls, and the use of a closed pipe *)

\* All of it holds at first.
LEMMA InitPipeInv == Init => PipeInv
<1> SUFFICES ASSUME Init PROVE PipeInv
  OBVIOUS
<1>1. CallTypeOK
  BY PipeAssumption
  DEF Init, CallTypeOK, Places, Reading, Writing, Changing, Reopening, InPoll
<1>4. DataTypeOK
  <2>1. PipeBufMax \in Nat \ {0} /\ Kinds \subseteq BOOLEAN
    BY PipeAssumption
  <2>2. 0 \in 0 .. PipeBufMax - 1
    BY <2>1
  <2>3. buffer \in [0 .. PipeBufMax - 1 -> Nat] /\ targets \in Seq(Threads)
    BY DEF Init
  <2>4. sem \in [Threads -> Nat] /\ events \in [Threads -> Nat]
    BY DEF Init
  <2> QED
    BY <2>1, <2>2, <2>3, <2>4 DEF Init, DataTypeOK
<1>2. EventInv
  BY DEF Init, EventInv, NoDup, Elems, Armed
<1>3. UseInv
  BY PipeAssumption DEF Init, UseInv, Reading, Writing, Changing, Reopening
<1> QED
  BY <1>1, <1>2, <1>3, <1>4 DEF PipeInv, PipeTypeOK

\* Every action keeps the types of what a thread keeps in a call.
LEMMA CallTypeStep ==
  ASSUME PipeTypeOK, [Next]_vars
  PROVE  CallTypeOK'
<1> USE PipeAssumption
    DEF Go, Call, Places, Reading, Writing, Changing, Reopening, InPoll, bufVars,
        monitorVars, openVars, historyVars, fileVars, callVars, pollVars
<1>0. CallTypeOK /\ buffer \in [0 .. PipeBufMax - 1 -> Nat] /\ front \in 0 .. PipeBufMax - 1
  BY DEF PipeTypeOK, DataTypeOK
<1>1. ASSUME NEW t \in Threads, ReadLoop(t)
      PROVE  CallTypeOK'
  BY <1>0, <1>1 DEF ReadLoop, CallTypeOK
<1>2. ASSUME NEW t \in Threads, ReadEnds(t)
      PROVE  CallTypeOK'
  BY <1>0, <1>2 DEF ReadEnds, CallTypeOK
<1>3. ASSUME NEW t \in Threads, ReadTakes(t, "tryEOF", "checkEOF")
      PROVE  CallTypeOK'
  BY <1>0, <1>3 DEF ReadTakes, CallTypeOK
<1>4. ASSUME NEW t \in Threads, ReadTakes(t, "wait", "check")
      PROVE  CallTypeOK'
  BY <1>0, <1>4 DEF ReadTakes, CallTypeOK
<1>5. ASSUME NEW t \in Threads, ReadGivesUp(t)
      PROVE  CallTypeOK'
  BY <1>0, <1>5 DEF ReadGivesUp, CallTypeOK
<1>6. ASSUME NEW t \in Threads, ReadChecks(t)
      PROVE  CallTypeOK'
  BY <1>0, <1>6 DEF ReadChecks, CallTypeOK
<1>7. ASSUME NEW t \in Threads, ReadCopies(t)
      PROVE  CallTypeOK'
  BY <1>0, <1>7 DEF ReadCopies, CallTypeOK
<1>8. ASSUME NEW t \in Threads, ReadAdvances(t)
      PROVE  CallTypeOK'
  <2>0. pc[t] = "advance"
    BY <1>8 DEF ReadAdvances
  <2>1. left[t] \in Nat \ {0}
    BY <1>0, <2>0 DEF CallTypeOK
  <2>2. left' = [left EXCEPT ![t] = left[t] - 1]
    BY <1>8 DEF ReadAdvances
  <2>3. left' \in [Threads -> Nat] /\ \A u \in Threads \ {t} : left'[u] = left[u]
    BY <1>0, <2>1, <2>2 DEF CallTypeOK
  <2> QED
    BY <1>0, <1>8, <2>3 DEF ReadAdvances, CallTypeOK
<1>9. ASSUME NEW t \in Threads, WriteTakes(t)
      PROVE  CallTypeOK'
  BY <1>0, <1>9 DEF WriteTakes, CallTypeOK
<1>10. ASSUME NEW t \in Threads, WriteStores(t)
      PROVE  CallTypeOK'
  BY <1>0, <1>10 DEF WriteStores, CallTypeOK
<1>11. ASSUME NEW t \in Threads, WriteLinks(t)
      PROVE  CallTypeOK'
  <2>0. pc[t] = "link"
    BY <1>11 DEF WriteLinks
  <2>1. left[t] \in Nat \ {0}
    BY <1>0, <2>0 DEF CallTypeOK
  <2>2. left' = [left EXCEPT ![t] = left[t] - 1]
    BY <1>11 DEF WriteLinks
  <2>3. left' \in [Threads -> Nat] /\ \A u \in Threads \ {t} : left'[u] = left[u]
    BY <1>0, <2>1, <2>2 DEF CallTypeOK
  <2> QED
    BY <1>0, <1>11, <2>3 DEF WriteLinks, CallTypeOK
<1>12. ASSUME NEW t \in Threads, WriteDone(t)
      PROVE  CallTypeOK'
  BY <1>0, <1>12 DEF WriteDone, CallTypeOK
<1>13. ASSUME NEW t \in Threads, ChangeLocks(t)
      PROVE  CallTypeOK'
  BY <1>0, <1>13 DEF ChangeLocks, CallTypeOK
<1>14. ASSUME NEW t \in Threads, ChangeSends(t)
      PROVE  CallTypeOK'
  BY <1>0, <1>14 DEF ChangeSends, CallTypeOK
<1>15. ASSUME NEW t \in Threads, ChangeDone(t)
      PROVE  CallTypeOK'
  BY <1>0, <1>15 DEF ChangeDone, CallTypeOK
<1>16. ASSUME NEW t \in Threads, PollSelects(t)
      PROVE  CallTypeOK'
  BY <1>0, <1>16 DEF PollSelects, CallTypeOK
<1>17. ASSUME NEW t \in Threads, PollReleases(t)
      PROVE  CallTypeOK'
  BY <1>0, <1>17 DEF PollReleases, CallTypeOK
<1>18. ASSUME NEW t \in Threads, PollNotReady(t)
      PROVE  CallTypeOK'
  BY <1>0, <1>18 DEF PollNotReady, CallTypeOK
<1>19. ASSUME NEW t \in Threads, PollMonitors(t)
      PROVE  CallTypeOK'
  BY <1>0, <1>19 DEF PollMonitors, CallTypeOK
<1>20. ASSUME NEW t \in Threads, PollAcquires(t, "acquire") \/ PollAcquires(t, "asleep")
      PROVE  CallTypeOK'
  BY <1>0, <1>20 DEF PollAcquires, CallTypeOK
<1>21. ASSUME NEW t \in Threads, PollSleeps(t)
      PROVE  CallTypeOK'
  BY <1>0, <1>21 DEF PollSleeps, CallTypeOK
<1>22. ASSUME NEW t \in Threads, PollTallies(t)
      PROVE  CallTypeOK'
  BY <1>0, <1>22 DEF PollTallies, CallTypeOK
<1>23. ASSUME NEW t \in Threads, PollLeaves(t)
      PROVE  CallTypeOK'
  BY <1>0, <1>23 DEF PollLeaves, CallTypeOK
<1>24. ASSUME NEW t \in Threads, PollCleans(t)
      PROVE  CallTypeOK'
  BY <1>0, <1>24 DEF PollCleans, CallTypeOK
<1>25. ASSUME NEW t \in Threads, PollCulls(t)
      PROVE  CallTypeOK'
  BY <1>0, <1>25 DEF PollCulls, CallTypeOK
<1>26. ASSUME NEW t \in Threads, PollFires(t)
      PROVE  CallTypeOK'
  BY <1>0, <1>26 DEF PollFires, CallTypeOK
<1>27. ASSUME NEW t \in Threads, AcquireFails(t)
      PROVE  CallTypeOK'
  BY <1>0, <1>27 DEF AcquireFails, CallTypeOK
<1>28. ASSUME NEW t \in Threads, ReopenDrains(t)
      PROVE  CallTypeOK'
  BY <1>0, <1>28 DEF ReopenDrains, CallTypeOK
<1>29. ASSUME NEW t \in Threads, ReopenCounts(t)
      PROVE  CallTypeOK'
  BY <1>0, <1>29 DEF ReopenCounts, CallTypeOK
<1>30. ASSUME NEW t \in Threads, PollTimesOut(t)
      PROVE  CallTypeOK'
  BY <1>0, <1>30 DEF PollTimesOut, CallTypeOK
<1>31. ASSUME NEW t \in Threads, Unwind(t)
      PROVE  CallTypeOK'
  BY <1>0, <1>31 DEF Unwind, CallTypeOK
<1>32. ASSUME NEW t \in Threads, Close(t)
      PROVE  CallTypeOK'
  BY <1>0, <1>32 DEF Close, CallTypeOK
<1>33. ASSUME NEW t \in Threads, Reopen(t)
      PROVE  CallTypeOK'
  BY <1>0, <1>33 DEF Reopen, CallTypeOK
<1>34. ASSUME NEW t \in Threads, NEW m \in Sizes, NEW h \in {"no", "forever"},
             ReadStart(t, m, h)
      PROVE  CallTypeOK'
  BY <1>0, <1>34 DEF ReadStart, CallTypeOK
<1>35. ASSUME NEW t \in Threads, NEW m \in Sizes, WriteStart(t, m)
      PROVE  CallTypeOK'
  BY <1>0, <1>35 DEF WriteStart, CallTypeOK
<1>36. ASSUME NEW t \in Threads, NEW h \in {"no", "timeout", "forever"}, PollStart(t, h)
      PROVE  CallTypeOK'
  BY <1>0, <1>36 DEF PollStart, CallTypeOK
<1>37. CASE Reap
  BY <1>0, <1>37 DEF Reap, CallTypeOK
<1>38. CASE UNCHANGED vars
  BY <1>0, <1>38 DEF vars, CallTypeOK
<1> QED
  BY <1>1, <1>2, <1>3, <1>4, <1>5, <1>6, <1>7, <1>8, <1>9, <1>10, <1>11, <1>12,
     <1>13, <1>14, <1>15, <1>16, <1>17, <1>18, <1>19, <1>20, <1>21, <1>22, <1>23,
     <1>24, <1>25, <1>26, <1>27, <1>28, <1>29, <1>30, <1>31, <1>32, <1>33, <1>34,
     <1>35, <1>36, <1>37, <1>38
  DEF Next, Step, ReadStep, WriteStep, PollStep

\* Every action keeps the types of the pipe.
LEMMA DataTypeStep ==
  ASSUME PipeTypeOK, NoDup(targets), [Next]_vars
  PROVE  DataTypeOK'
<1> USE PipeAssumption
    DEF bufVars, monitorVars, openVars, historyVars, fileVars, callVars, pollVars
<1>0. DataTypeOK
  BY DEF PipeTypeOK
<1>1. ASSUME NEW t \in Threads, ReadLoop(t)
      PROVE  DataTypeOK'
  BY <1>0, <1>1 DEF ReadLoop, DataTypeOK
<1>2. ASSUME NEW t \in Threads, ReadEnds(t)
      PROVE  DataTypeOK'
  BY <1>0, <1>2 DEF ReadEnds, DataTypeOK
<1>3. ASSUME NEW t \in Threads, ReadTakes(t, "tryEOF", "checkEOF")
      PROVE  DataTypeOK'
  BY <1>0, <1>3 DEF ReadTakes, DataTypeOK
<1>4. ASSUME NEW t \in Threads, ReadTakes(t, "wait", "check")
      PROVE  DataTypeOK'
  BY <1>0, <1>4 DEF ReadTakes, DataTypeOK
<1>5. ASSUME NEW t \in Threads, ReadGivesUp(t)
      PROVE  DataTypeOK'
  BY <1>0, <1>5 DEF ReadGivesUp, DataTypeOK
<1>6. ASSUME NEW t \in Threads, ReadChecks(t)
      PROVE  DataTypeOK'
  BY <1>0, <1>6 DEF ReadChecks, DataTypeOK
<1>7. ASSUME NEW t \in Threads, ReadCopies(t)
      PROVE  DataTypeOK'
  BY <1>0, <1>7 DEF ReadCopies, DataTypeOK
<1>8. ASSUME NEW t \in Threads, ReadAdvances(t)
      PROVE  DataTypeOK'
  <2>1. front' \in 0 .. PipeBufMax - 1
    BY <1>0, <1>8, NextCell DEF ReadAdvances, DataTypeOK
  <2> QED
    BY <1>0, <1>8, <2>1 DEF ReadAdvances, DataTypeOK
<1>9. ASSUME NEW t \in Threads, WriteTakes(t)
      PROVE  DataTypeOK'
  BY <1>0, <1>9 DEF WriteTakes, DataTypeOK
<1>10. ASSUME NEW t \in Threads, WriteStores(t)
      PROVE  DataTypeOK'
  BY <1>0, <1>10 DEF WriteStores, DataTypeOK
<1>11. ASSUME NEW t \in Threads, WriteLinks(t)
      PROVE  DataTypeOK'
  <2>1. back' \in 0 .. PipeBufMax - 1
    BY <1>0, <1>11, NextCell DEF WriteLinks, DataTypeOK
  <2> QED
    BY <1>0, <1>11, <2>1 DEF WriteLinks, DataTypeOK
<1>12. ASSUME NEW t \in Threads, WriteDone(t)
      PROVE  DataTypeOK'
  BY <1>0, <1>12 DEF WriteDone, DataTypeOK
<1>13. ASSUME NEW t \in Threads, ChangeLocks(t)
      PROVE  DataTypeOK'
  BY <1>0, <1>13 DEF ChangeLocks, DataTypeOK
<1>14. ASSUME NEW t \in Threads, ChangeSends(t)
      PROVE  DataTypeOK'
  <2>1. targets \in Seq(Threads) /\ targets # <<>>
    BY <1>0, <1>14 DEF ChangeSends, DataTypeOK
  <2>2. Head(targets) \in Threads /\ targets' \in Seq(Threads)
    BY <1>14, <2>1, TailElems DEF ChangeSends
  <2> DEFINE p == Head(targets)
  <2>3. p \in Threads /\ due' = due \cup {p} /\ events' = [events EXCEPT ![p] = events[p] + 1]
    BY <1>14, <2>2 DEF ChangeSends
  <2> HIDE DEF p
  <2>4. events' \in [Threads -> Nat] /\ due' \subseteq Threads
    BY <1>0, <2>3 DEF DataTypeOK
  <2> QED
    BY <1>0, <1>14, <2>2, <2>4 DEF ChangeSends, DataTypeOK
<1>15. ASSUME NEW t \in Threads, ChangeDone(t)
      PROVE  DataTypeOK'
  BY <1>0, <1>15 DEF ChangeDone, DataTypeOK
<1>16. ASSUME NEW t \in Threads, PollSelects(t)
      PROVE  DataTypeOK'
  BY <1>0, <1>16 DEF PollSelects, Ready, DataTypeOK
<1>17. ASSUME NEW t \in Threads, PollReleases(t)
      PROVE  DataTypeOK'
  BY <1>0, <1>17 DEF PollReleases, DataTypeOK
<1>18. ASSUME NEW t \in Threads, PollNotReady(t)
      PROVE  DataTypeOK'
  BY <1>0, <1>18 DEF PollNotReady, DataTypeOK
<1>19. ASSUME NEW t \in Threads, PollMonitors(t)
      PROVE  DataTypeOK'
  BY <1>0, <1>19 DEF PollMonitors, DataTypeOK
<1>20. ASSUME NEW t \in Threads, PollAcquires(t, "acquire") \/ PollAcquires(t, "asleep")
      PROVE  DataTypeOK'
  <2>1. sem[t] \in Nat \ {0} /\ sem' = [sem EXCEPT ![t] = sem[t] - 1]
    BY <1>0, <1>20 DEF PollAcquires, DataTypeOK
  <2>2. sem' \in [Threads -> Nat]
    BY <1>0, <2>1 DEF DataTypeOK
  <2> QED
    BY <1>0, <1>20, <2>2 DEF PollAcquires, DataTypeOK
<1>21. ASSUME NEW t \in Threads, PollSleeps(t)
      PROVE  DataTypeOK'
  BY <1>0, <1>21 DEF PollSleeps, DataTypeOK
<1>22. ASSUME NEW t \in Threads, PollTallies(t)
      PROVE  DataTypeOK'
  BY <1>0, <1>22 DEF PollTallies, DataTypeOK
<1>23. ASSUME NEW t \in Threads, PollLeaves(t)
      PROVE  DataTypeOK'
  BY <1>0, <1>23 DEF PollLeaves, DataTypeOK
<1>24. ASSUME NEW t \in Threads, PollCleans(t)
      PROVE  DataTypeOK'
  <2>1. targets' \in Seq(Threads)
    BY <1>0, <1>24, CullLemma DEF PollCleans, DataTypeOK
  <2>2. sem' \in [Threads -> Nat]
    <3>1. sem' = sem \/ sem' = [sem EXCEPT ![t] = 0]
      BY <1>24 DEF PollCleans
    <3>2. CASE sem' = sem
      BY <1>0, <3>2 DEF DataTypeOK
    <3>3. CASE sem' = [sem EXCEPT ![t] = 0]
      BY <1>0, <3>3 DEF DataTypeOK
    <3> QED
      BY <3>1, <3>2, <3>3
  <2>3. events' \in [Threads -> Nat]
    BY <1>0, <1>24 DEF PollCleans, DataTypeOK
  <2> QED
    BY <1>0, <1>24, <2>1, <2>2, <2>3 DEF PollCleans, DataTypeOK
<1>25. ASSUME NEW t \in Threads, PollCulls(t)
      PROVE  DataTypeOK'
  <2>1. targets' \in Seq(Threads)
    BY <1>0, <1>25, CullLemma DEF PollCulls, DataTypeOK
  <2>2. sem' \in [Threads -> Nat]
    <3>1. sem' = sem \/ sem' = [sem EXCEPT ![t] = 0]
      BY <1>25 DEF PollCulls
    <3>2. CASE sem' = sem
      BY <1>0, <3>2 DEF DataTypeOK
    <3>3. CASE sem' = [sem EXCEPT ![t] = 0]
      BY <1>0, <3>3 DEF DataTypeOK
    <3> QED
      BY <3>1, <3>2, <3>3
  <2>3. events' \in [Threads -> Nat]
    BY <1>0, <1>25 DEF PollCulls, DataTypeOK
  <2> QED
    BY <1>0, <1>25, <2>1, <2>2, <2>3 DEF PollCulls, DataTypeOK
<1>26. ASSUME NEW t \in Threads, PollFires(t)
      PROVE  DataTypeOK'
  BY <1>0, <1>26 DEF PollFires, DataTypeOK
<1>27. ASSUME NEW t \in Threads, AcquireFails(t)
      PROVE  DataTypeOK'
  BY <1>0, <1>27 DEF AcquireFails, DataTypeOK
<1>28. ASSUME NEW t \in Threads, ReopenDrains(t)
      PROVE  DataTypeOK'
  BY <1>0, <1>28 DEF ReopenDrains, DataTypeOK
<1>29. ASSUME NEW t \in Threads, ReopenCounts(t)
      PROVE  DataTypeOK'
  BY <1>0, <1>29 DEF ReopenCounts, DataTypeOK
<1>30. ASSUME NEW t \in Threads, PollTimesOut(t)
      PROVE  DataTypeOK'
  BY <1>0, <1>30 DEF PollTimesOut, DataTypeOK
<1>31. ASSUME NEW t \in Threads, Unwind(t)
      PROVE  DataTypeOK'
  BY <1>0, <1>31 DEF Unwind, DataTypeOK
<1>32. ASSUME NEW t \in Threads, Close(t)
      PROVE  DataTypeOK'
  BY <1>0, <1>32 DEF Close, DataTypeOK
<1>33. ASSUME NEW t \in Threads, Reopen(t)
      PROVE  DataTypeOK'
  BY <1>0, <1>33 DEF Reopen, DataTypeOK
<1>34. ASSUME NEW t \in Threads, NEW m \in Sizes, NEW h \in {"no", "forever"},
             ReadStart(t, m, h)
      PROVE  DataTypeOK'
  BY <1>0, <1>34 DEF ReadStart, Restarted, DataTypeOK
<1>35. ASSUME NEW t \in Threads, NEW m \in Sizes, WriteStart(t, m)
      PROVE  DataTypeOK'
  BY <1>0, <1>35 DEF WriteStart, DataTypeOK
<1>36. ASSUME NEW t \in Threads, NEW h \in {"no", "timeout", "forever"}, PollStart(t, h)
      PROVE  DataTypeOK'
  BY <1>0, <1>36 DEF PollStart, Restarted, DataTypeOK
<1>37. CASE Reap
  BY <1>0, <1>37 DEF Reap, DataTypeOK
<1>38. CASE UNCHANGED vars
  BY <1>0, <1>38 DEF vars, DataTypeOK
<1> QED
  BY <1>1, <1>2, <1>3, <1>4, <1>5, <1>6, <1>7, <1>8, <1>9, <1>10, <1>11, <1>12,
     <1>13, <1>14, <1>15, <1>16, <1>17, <1>18, <1>19, <1>20, <1>21, <1>22, <1>23,
     <1>24, <1>25, <1>26, <1>27, <1>28, <1>29, <1>30, <1>31, <1>32, <1>33, <1>34,
     <1>35, <1>36, <1>37, <1>38
  DEF Next, Step, ReadStep, WriteStep, PollStep

\* Every action keeps the invariant about the events of polls: the event of a poll
\* that ends has been handled or is taken out of the targets.
LEMMA EventStep ==
  ASSUME PipeTypeOK, EventInv, [Next]_vars
  PROVE  EventInv'
<1> USE DEF Go, Call, Armed, bufVars, monitorVars, openVars, historyVars, fileVars, callVars, pollVars
<1>0. /\ pc \in [Threads -> Places] /\ targets \in Seq(Threads)
      /\ events \in [Threads -> Nat] /\ due \subseteq Threads
  BY DEF PipeTypeOK, CallTypeOK, DataTypeOK
<1>1. ASSUME NEW t \in Threads, ReadLoop(t)
      PROVE  EventInv'
  BY <1>0, <1>1 DEF ReadLoop, EventInv
<1>2. ASSUME NEW t \in Threads, ReadEnds(t)
      PROVE  EventInv'
  BY <1>0, <1>2 DEF ReadEnds, EventInv
<1>3. ASSUME NEW t \in Threads, ReadTakes(t, "tryEOF", "checkEOF")
      PROVE  EventInv'
  BY <1>0, <1>3 DEF ReadTakes, EventInv
<1>4. ASSUME NEW t \in Threads, ReadTakes(t, "wait", "check")
      PROVE  EventInv'
  BY <1>0, <1>4 DEF ReadTakes, EventInv
<1>5. ASSUME NEW t \in Threads, ReadGivesUp(t)
      PROVE  EventInv'
  BY <1>0, <1>5 DEF ReadGivesUp, EventInv
<1>6. ASSUME NEW t \in Threads, ReadChecks(t)
      PROVE  EventInv'
  BY <1>0, <1>6 DEF ReadChecks, EventInv
<1>7. ASSUME NEW t \in Threads, ReadCopies(t)
      PROVE  EventInv'
  BY <1>0, <1>7 DEF ReadCopies, EventInv
<1>8. ASSUME NEW t \in Threads, ReadAdvances(t)
      PROVE  EventInv'
  BY <1>0, <1>8 DEF ReadAdvances, EventInv
<1>9. ASSUME NEW t \in Threads, WriteTakes(t)
      PROVE  EventInv'
  BY <1>0, <1>9 DEF WriteTakes, EventInv
<1>10. ASSUME NEW t \in Threads, WriteStores(t)
      PROVE  EventInv'
  BY <1>0, <1>10 DEF WriteStores, EventInv
<1>11. ASSUME NEW t \in Threads, WriteLinks(t)
      PROVE  EventInv'
  BY <1>0, <1>11 DEF WriteLinks, EventInv
<1>12. ASSUME NEW t \in Threads, WriteDone(t)
      PROVE  EventInv'
  BY <1>0, <1>12 DEF WriteDone, EventInv
<1>13. ASSUME NEW t \in Threads, ChangeLocks(t)
      PROVE  EventInv'
  BY <1>0, <1>13 DEF ChangeLocks, EventInv
<1>14. ASSUME NEW t \in Threads, ChangeSends(t)
      PROVE  EventInv'
  <2> DEFINE p == Head(targets)
  <2>1. /\ p \in Threads /\ p \in Elems(targets) /\ NoDup(targets')
        /\ Elems(targets') = Elems(targets) \ {p}
    BY <1>0, <1>14, TailElems DEF ChangeSends, EventInv
  <2>2. due' = due \cup {p} /\ events' = [events EXCEPT ![p] = events[p] + 1]
    BY <1>14 DEF ChangeSends
  <2>3. pc' = [pc EXCEPT ![t] = "send"] /\ pc[t] = "send" /\ pc[p] \in Armed
    BY <1>14, <2>1 DEF ChangeSends, EventInv
  <2> HIDE DEF p
  <2> QED
    BY <1>0, <2>1, <2>2, <2>3 DEF EventInv
<1>15. ASSUME NEW t \in Threads, ChangeDone(t)
      PROVE  EventInv'
  BY <1>0, <1>15 DEF ChangeDone, EventInv
<1>16. ASSUME NEW t \in Threads, PollSelects(t)
      PROVE  EventInv'
  BY <1>0, <1>16 DEF PollSelects, EventInv
<1>17. ASSUME NEW t \in Threads, PollReleases(t)
      PROVE  EventInv'
  BY <1>0, <1>17 DEF PollReleases, EventInv
<1>18. ASSUME NEW t \in Threads, PollNotReady(t)
      PROVE  EventInv'
  BY <1>0, <1>18 DEF PollNotReady, EventInv
<1>19. ASSUME NEW t \in Threads, PollMonitors(t)
      PROVE  EventInv'
  <2>1. t \notin Elems(targets) /\ targets' = Append(targets, t)
    BY <1>19 DEF PollMonitors, EventInv
  <2>2. NoDup(targets') /\ Elems(targets') = Elems(targets) \cup {t}
    BY <1>0, <2>1, AppendElems DEF EventInv
  <2> QED
    BY <1>0, <1>19, <2>2 DEF PollMonitors, EventInv
<1>20. ASSUME NEW t \in Threads, PollAcquires(t, "acquire") \/ PollAcquires(t, "asleep")
      PROVE  EventInv'
  BY <1>0, <1>20 DEF PollAcquires, EventInv
<1>21. ASSUME NEW t \in Threads, PollSleeps(t)
      PROVE  EventInv'
  BY <1>0, <1>21 DEF PollSleeps, EventInv
<1>22. ASSUME NEW t \in Threads, PollTallies(t)
      PROVE  EventInv'
  BY <1>0, <1>22 DEF PollTallies, EventInv
<1>23. ASSUME NEW t \in Threads, PollLeaves(t)
      PROVE  EventInv'
  BY <1>0, <1>23 DEF PollLeaves, EventInv
<1>24. ASSUME NEW t \in Threads, PollCleans(t)
      PROVE  EventInv'
  <2>1. events' = [events EXCEPT ![t] = 0] /\ due' = due /\ t \notin due /\ pc[t] = "clean"
    BY <1>24 DEF PollCleans
  <2>2. CASE lock = NoThread
    <3>1. targets' = CullTargets(t) /\ pc' = [pc EXCEPT ![t] = "idle"]
      BY <1>24, <2>2 DEF PollCleans
    <3>2. NoDup(targets') /\ Elems(targets') = Elems(targets) \ {t}
      BY <1>0, <3>1, CullLemma DEF EventInv
    <3> QED
      BY <1>0, <2>1, <3>1, <3>2 DEF EventInv
  <2>3. CASE lock # NoThread
    <3>1. targets' = targets /\ pc' = [pc EXCEPT ![t] = "cull"]
      BY <1>24, <2>3 DEF PollCleans
    <3> QED
      BY <1>0, <2>1, <3>1 DEF EventInv
  <2> QED
    BY <2>2, <2>3
<1>25. ASSUME NEW t \in Threads, PollCulls(t)
      PROVE  EventInv'
  <2>1. events' = events /\ due' = due /\ t \notin due /\ pc[t] = "cull"
    BY <1>25 DEF PollCulls
  <2>2. targets' = CullTargets(t) /\ pc' = [pc EXCEPT ![t] = "idle"]
    BY <1>25 DEF PollCulls
  <2>3. NoDup(targets') /\ Elems(targets') = Elems(targets) \ {t}
    BY <1>0, <2>2, CullLemma DEF EventInv
  <2> QED
    BY <1>0, <2>1, <2>2, <2>3 DEF EventInv
<1>26. ASSUME NEW t \in Threads, PollFires(t)
      PROVE  EventInv'
  BY <1>0, <1>26 DEF PollFires, EventInv
<1>27. ASSUME NEW t \in Threads, AcquireFails(t)
      PROVE  EventInv'
  BY <1>0, <1>27 DEF AcquireFails, EventInv
<1>28. ASSUME NEW t \in Threads, ReopenDrains(t)
      PROVE  EventInv'
  BY <1>0, <1>28 DEF ReopenDrains, EventInv
<1>29. ASSUME NEW t \in Threads, ReopenCounts(t)
      PROVE  EventInv'
  BY <1>0, <1>29 DEF ReopenCounts, EventInv
<1>30. ASSUME NEW t \in Threads, PollTimesOut(t)
      PROVE  EventInv'
  BY <1>0, <1>30 DEF PollTimesOut, EventInv
<1>31. ASSUME NEW t \in Threads, Unwind(t)
      PROVE  EventInv'
  BY <1>0, <1>31 DEF Unwind, EventInv
<1>32. ASSUME NEW t \in Threads, Close(t)
      PROVE  EventInv'
  BY <1>0, <1>32 DEF Close, EventInv
<1>33. ASSUME NEW t \in Threads, Reopen(t)
      PROVE  EventInv'
  BY <1>0, <1>33 DEF Reopen, EventInv
<1>34. ASSUME NEW t \in Threads, NEW m \in Sizes, NEW h \in {"no", "forever"},
             ReadStart(t, m, h)
      PROVE  EventInv'
  BY <1>0, <1>34 DEF ReadStart, EventInv
<1>35. ASSUME NEW t \in Threads, NEW m \in Sizes, WriteStart(t, m)
      PROVE  EventInv'
  BY <1>0, <1>35 DEF WriteStart, EventInv
<1>36. ASSUME NEW t \in Threads, NEW h \in {"no", "timeout", "forever"}, PollStart(t, h)
      PROVE  EventInv'
  BY <1>0, <1>36 DEF PollStart, EventInv
<1>37. CASE Reap
  BY <1>0, <1>37 DEF Reap, EventInv
<1>38. CASE UNCHANGED vars
  BY <1>0, <1>38 DEF vars, EventInv
<1> QED
  BY <1>1, <1>2, <1>3, <1>4, <1>5, <1>6, <1>7, <1>8, <1>9, <1>10, <1>11, <1>12,
     <1>13, <1>14, <1>15, <1>16, <1>17, <1>18, <1>19, <1>20, <1>21, <1>22, <1>23,
     <1>24, <1>25, <1>26, <1>27, <1>28, <1>29, <1>30, <1>31, <1>32, <1>33, <1>34,
     <1>35, <1>36, <1>37, <1>38
  DEF Next, Step, ReadStep, WriteStep, PollStep

\* Every action keeps the invariant about closed descriptors and the deleted pipe.
LEMMA UseStep ==
  ASSUME PipeTypeOK, UseInv, [Next]_vars
  PROVE  UseInv'
<1> USE DEF Go, Call, Reading, Writing, Changing, Reopening, bufVars, monitorVars, openVars,
            historyVars, fileVars, callVars, pollVars
<1>0. /\ pc \in [Threads -> Places] /\ open \subseteq Threads
      /\ zombies \in Nat /\ deleted \in BOOLEAN
  BY DEF PipeTypeOK, CallTypeOK, DataTypeOK
<1>1. ASSUME NEW t \in Threads, ReadLoop(t)
      PROVE  UseInv'
  BY <1>0, <1>1 DEF ReadLoop, UseInv
<1>2. ASSUME NEW t \in Threads, ReadEnds(t)
      PROVE  UseInv'
  BY <1>0, <1>2 DEF ReadEnds, UseInv
<1>3. ASSUME NEW t \in Threads, ReadTakes(t, "tryEOF", "checkEOF")
      PROVE  UseInv'
  BY <1>0, <1>3 DEF ReadTakes, UseInv
<1>4. ASSUME NEW t \in Threads, ReadTakes(t, "wait", "check")
      PROVE  UseInv'
  BY <1>0, <1>4 DEF ReadTakes, UseInv
<1>5. ASSUME NEW t \in Threads, ReadGivesUp(t)
      PROVE  UseInv'
  BY <1>0, <1>5 DEF ReadGivesUp, UseInv
<1>6. ASSUME NEW t \in Threads, ReadChecks(t)
      PROVE  UseInv'
  BY <1>0, <1>6 DEF ReadChecks, UseInv
<1>7. ASSUME NEW t \in Threads, ReadCopies(t)
      PROVE  UseInv'
  BY <1>0, <1>7 DEF ReadCopies, UseInv
<1>8. ASSUME NEW t \in Threads, ReadAdvances(t)
      PROVE  UseInv'
  BY <1>0, <1>8 DEF ReadAdvances, UseInv
<1>9. ASSUME NEW t \in Threads, WriteTakes(t)
      PROVE  UseInv'
  BY <1>0, <1>9 DEF WriteTakes, UseInv
<1>10. ASSUME NEW t \in Threads, WriteStores(t)
      PROVE  UseInv'
  BY <1>0, <1>10 DEF WriteStores, UseInv
<1>11. ASSUME NEW t \in Threads, WriteLinks(t)
      PROVE  UseInv'
  BY <1>0, <1>11 DEF WriteLinks, UseInv
<1>12. ASSUME NEW t \in Threads, WriteDone(t)
      PROVE  UseInv'
  BY <1>0, <1>12 DEF WriteDone, UseInv
<1>13. ASSUME NEW t \in Threads, ChangeLocks(t)
      PROVE  UseInv'
  BY <1>0, <1>13 DEF ChangeLocks, UseInv
<1>14. ASSUME NEW t \in Threads, ChangeSends(t)
      PROVE  UseInv'
  BY <1>0, <1>14 DEF ChangeSends, UseInv
<1>15. ASSUME NEW t \in Threads, ChangeDone(t)
      PROVE  UseInv'
  BY <1>0, <1>15 DEF ChangeDone, UseInv
<1>16. ASSUME NEW t \in Threads, PollSelects(t)
      PROVE  UseInv'
  BY <1>0, <1>16 DEF PollSelects, UseInv
<1>17. ASSUME NEW t \in Threads, PollReleases(t)
      PROVE  UseInv'
  BY <1>0, <1>17 DEF PollReleases, UseInv
<1>18. ASSUME NEW t \in Threads, PollNotReady(t)
      PROVE  UseInv'
  BY <1>0, <1>18 DEF PollNotReady, UseInv
<1>19. ASSUME NEW t \in Threads, PollMonitors(t)
      PROVE  UseInv'
  BY <1>0, <1>19 DEF PollMonitors, UseInv
<1>20. ASSUME NEW t \in Threads, PollAcquires(t, "acquire") \/ PollAcquires(t, "asleep")
      PROVE  UseInv'
  BY <1>0, <1>20 DEF PollAcquires, UseInv
<1>21. ASSUME NEW t \in Threads, PollSleeps(t)
      PROVE  UseInv'
  BY <1>0, <1>21 DEF PollSleeps, UseInv
<1>22. ASSUME NEW t \in Threads, PollTallies(t)
      PROVE  UseInv'
  BY <1>0, <1>22 DEF PollTallies, UseInv
<1>23. ASSUME NEW t \in Threads, PollLeaves(t)
      PROVE  UseInv'
  BY <1>0, <1>23 DEF PollLeaves, UseInv
<1>24. ASSUME NEW t \in Threads, PollCleans(t)
      PROVE  UseInv'
  BY <1>0, <1>24 DEF PollCleans, UseInv
<1>25. ASSUME NEW t \in Threads, PollCulls(t)
      PROVE  UseInv'
  BY <1>0, <1>25 DEF PollCulls, UseInv
<1>26. ASSUME NEW t \in Threads, PollFires(t)
      PROVE  UseInv'
  BY <1>0, <1>26 DEF PollFires, UseInv
<1>27. ASSUME NEW t \in Threads, AcquireFails(t)
      PROVE  UseInv'
  BY <1>0, <1>27 DEF AcquireFails, UseInv
<1>28. ASSUME NEW t \in Threads, ReopenDrains(t)
      PROVE  UseInv'
  BY <1>0, <1>28 DEF ReopenDrains, UseInv
<1>29. ASSUME NEW t \in Threads, ReopenCounts(t)
      PROVE  UseInv'
  BY <1>0, <1>29 DEF ReopenCounts, UseInv
<1>30. ASSUME NEW t \in Threads, PollTimesOut(t)
      PROVE  UseInv'
  BY <1>0, <1>30 DEF PollTimesOut, UseInv
<1>31. ASSUME NEW t \in Threads, Unwind(t)
      PROVE  UseInv'
  BY <1>0, <1>31 DEF Unwind, UseInv
<1>32. ASSUME NEW t \in Threads, Close(t)
      PROVE  UseInv'
  BY <1>0, <1>32 DEF Close, UseInv
<1>33. ASSUME NEW t \in Threads, Reopen(t)
      PROVE  UseInv'
  BY <1>0, <1>33 DEF Reopen, UseInv
<1>34. ASSUME NEW t \in Threads, NEW m \in Sizes, NEW h \in {"no", "forever"},
             ReadStart(t, m, h)
      PROVE  UseInv'
  BY <1>0, <1>34 DEF ReadStart, UseInv
<1>35. ASSUME NEW t \in Threads, NEW m \in Sizes, WriteStart(t, m)
      PROVE  UseInv'
  BY <1>0, <1>35 DEF WriteStart, UseInv
<1>36. ASSUME NEW t \in Threads, NEW h \in {"no", "timeout", "forever"}, PollStart(t, h)
      PROVE  UseInv'
  BY <1>0, <1>36 DEF PollStart, UseInv
<1>37. CASE Reap
  BY <1>0, <1>37 DEF Reap, UseInv
<1>38. CASE UNCHANGED vars
  BY <1>0, <1>38 DEF vars, UseInv
<1> QED
  BY <1>1, <1>2, <1>3, <1>4, <1>5, <1>6, <1>7, <1>8, <1>9, <1>10, <1>11, <1>12,
     <1>13, <1>14, <1>15, <1>16, <1>17, <1>18, <1>19, <1>20, <1>21, <1>22, <1>23,
     <1>24, <1>25, <1>26, <1>27, <1>28, <1>29, <1>30, <1>31, <1>32, <1>33, <1>34,
     <1>35, <1>36, <1>37, <1>38
  DEF Next, Step, ReadStep, WriteStep, PollStep

\* The invariant holds in every reachable state.
LEMMA PipeInvariant == Spec => []PipeInv
<1>1. PipeInv /\ [Next]_vars => PipeInv'
  <2> SUFFICES ASSUME PipeInv, [Next]_vars PROVE PipeInv'
    OBVIOUS
  <2>1. PipeTypeOK /\ EventInv /\ UseInv /\ NoDup(targets)
    BY DEF PipeInv, EventInv
  <2> QED
    BY <2>1, CallTypeStep, DataTypeStep, EventStep, UseStep DEF PipeInv, PipeTypeOK
<1> QED
  BY InitPipeInv, <1>1, PTL DEF Spec

\* After a poll nothing refers to its event: every PollEvent a thread still has queued
\* or registered belongs to a poll that it is in.
THEOREM PollLeavesNoEvent == Spec => []NoStaleEvent
<1>1. PipeInv => NoStaleEvent
  BY DEF PipeInv, EventInv, NoStaleEvent, Armed, InPoll, Elems
<1> QED
  BY PipeInvariant, <1>1, PTL

\* The pipe is given to the ZombieQueue once, after its last descriptor is closed; of all
\* threads only a writer in the dataChanged of its close may still use it.
THEOREM PipeIsDeletedOnce == Spec => []DeletedOnce
<1>1. PipeInv => DeletedOnce
  BY DEF PipeInv, UseInv, DeletedOnce, Reopening
<1> QED
  BY PipeInvariant, <1>1, PTL

----------------------------------------------------------------------------
(* The capacity of the pipe *)

Filling == {"store", "link", "release"}

\* The writers that have a cell of the buffer in their hands.
Fillers == {t \in Writers : pc[t] \in Filling}

\* There are finitely many.
LEMMA FillersFinite == IsFiniteSet(Fillers) /\ Cardinality(Fillers) \in Nat
<1>1. Fillers \in SUBSET Threads /\ IsFiniteSet(Threads)
  BY PipeAssumption DEF Fillers, Threads
<1>2. IsFiniteSet(Fillers)
  BY <1>1, FS_Subset
<1> QED
  BY <1>2, FS_CardinalityType

\* A writer that enters those places adds one.
LEMMA FillerEnters ==
  ASSUME pc \in [Threads -> Places], NEW t \in Writers, NEW to \in Filling,
         pc' = [pc EXCEPT ![t] = to], pc[t] \notin Filling
  PROVE  Cardinality(Fillers)' = Cardinality(Fillers) + 1
<1>1. Fillers' = Fillers \cup {t} /\ t \notin Fillers
  BY DEF Fillers, Threads
<1> QED
  BY <1>1, FillersFinite, FS_AddElement

\* A writer that leaves them takes one.
LEMMA FillerLeaves ==
  ASSUME pc \in [Threads -> Places], NEW t \in Writers, NEW to,
         pc' = [pc EXCEPT ![t] = to], pc[t] \in Filling, to \notin Filling
  PROVE  Cardinality(Fillers)' = Cardinality(Fillers) - 1
<1>1. Fillers' = Fillers \ {t} /\ t \in Fillers
  BY DEF Fillers, Threads
<1> QED
  BY <1>1, FillersFinite, FS_RemoveElement

\* Nobody stops unwinding, and what has upset the pipe is not forgotten.
LEMMA HistoryGrows ==
  ASSUME [Next]_vars
  PROVE  unwind \subseteq unwind' /\ upset \subseteq upset'
<1> USE DEF callVars, monitorVars, openVars, historyVars, fileVars
<1>1. ASSUME NEW t \in Threads, ReadStep(t)
      PROVE  unwind \subseteq unwind' /\ upset \subseteq upset'
  BY <1>1 DEF ReadStep, ReadLoop, ReadEnds, ReadTakes, ReadGivesUp, ReadChecks,
     ReadCopies, ReadAdvances
<1>2. ASSUME NEW t \in Threads, WriteStep(t)
      PROVE  unwind \subseteq unwind' /\ upset \subseteq upset'
  BY <1>2 DEF WriteStep, WriteTakes, WriteStores, WriteLinks, WriteDone,
     ChangeLocks, ChangeSends, ChangeDone
<1>3. ASSUME NEW t \in Threads, PollStep(t)
      PROVE  unwind \subseteq unwind' /\ upset \subseteq upset'
  BY <1>3 DEF PollStep, PollSelects, PollReleases, PollNotReady, PollMonitors,
     PollAcquires, PollSleeps, PollTallies, PollLeaves, PollCleans, PollCulls
<1>4. ASSUME NEW t \in Threads,
             PollFires(t) \/ AcquireFails(t) \/ ReopenDrains(t) \/ ReopenCounts(t)
      PROVE  unwind \subseteq unwind' /\ upset \subseteq upset'
  BY <1>4 DEF PollFires, AcquireFails, ReopenDrains, ReopenCounts
<1>5. ASSUME NEW t \in Threads, PollTimesOut(t) \/ Unwind(t) \/ Close(t) \/ Reopen(t)
      PROVE  unwind \subseteq unwind' /\ upset \subseteq upset'
  BY <1>5 DEF PollTimesOut, Unwind, Close, Reopen
<1>6. ASSUME NEW t \in Threads, NEW m \in Sizes, NEW h,
             ReadStart(t, m, h) \/ WriteStart(t, m)
      PROVE  unwind \subseteq unwind' /\ upset \subseteq upset'
  BY <1>6 DEF ReadStart, Restarted, WriteStart
<1>7. ASSUME NEW t \in Threads, NEW h, PollStart(t, h)
      PROVE  unwind \subseteq unwind' /\ upset \subseteq upset'
  BY <1>7 DEF PollStart, Restarted
<1>8. CASE Reap
  BY <1>8 DEF Reap
<1>9. CASE UNCHANGED vars
  BY <1>9 DEF vars
<1> QED
  BY <1>1, <1>2, <1>3, <1>4, <1>5, <1>6, <1>7, <1>8, <1>9 DEF Next, Step

\* Every free cell is counted, by m_BufAvailable or by the writer that has it.
Counted == bufAvailable + (sent - got) + Cardinality(Fillers) = PipeBufMax

\* Every action keeps the count, if nobody has been torn out of a blocked call.
LEMMA CountedStep ==
  ASSUME PipeInv, Counted, ReopenInv, unwind = {}, [Next]_vars
  PROVE  Counted'
<1> USE DEF Go, Call, Filling, Writing, Changing, Reopening, bufVars, monitorVars, openVars, historyVars, fileVars,
            callVars, pollVars
<1>0. /\ pc \in [Threads -> Places] /\ bufAvailable \in Nat /\ sent \in Nat /\ got \in Nat
      /\ PipeBufMax \in Nat /\ Readers \cap Writers = {} /\ Threads = Readers \cup Writers
      /\ UseInv
  BY PipeAssumption DEF PipeInv, PipeTypeOK, CallTypeOK, DataTypeOK, Threads
<1>C. Cardinality(Fillers) \in Int
  BY FillersFinite
<1>1. ASSUME NEW t \in Threads, ReadLoop(t)
      PROVE  Counted'
  <2>1. Fillers' = Fillers
    BY <1>0, <1>1 DEF ReadLoop, Fillers
  <2> QED
    BY <1>0, <1>C, <1>1, <2>1 DEF ReadLoop, Counted
<1>2. ASSUME NEW t \in Threads, ReadEnds(t)
      PROVE  Counted'
  <2>1. Fillers' = Fillers
    BY <1>0, <1>2 DEF ReadEnds, Fillers
  <2> QED
    BY <1>0, <1>C, <1>2, <2>1 DEF ReadEnds, Counted
<1>3. ASSUME NEW t \in Threads, ReadTakes(t, "tryEOF", "checkEOF")
      PROVE  Counted'
  <2>1. Fillers' = Fillers
    BY <1>0, <1>3 DEF ReadTakes, Fillers
  <2> QED
    BY <1>0, <1>C, <1>3, <2>1 DEF ReadTakes, Counted
<1>4. ASSUME NEW t \in Threads, ReadTakes(t, "wait", "check")
      PROVE  Counted'
  <2>1. Fillers' = Fillers
    BY <1>0, <1>4 DEF ReadTakes, Fillers
  <2> QED
    BY <1>0, <1>C, <1>4, <2>1 DEF ReadTakes, Counted
<1>5. ASSUME NEW t \in Threads, ReadGivesUp(t)
      PROVE  Counted'
  <2>1. Fillers' = Fillers
    BY <1>0, <1>5 DEF ReadGivesUp, Fillers
  <2> QED
    BY <1>0, <1>C, <1>5, <2>1 DEF ReadGivesUp, Counted
<1>6. ASSUME NEW t \in Threads, ReadChecks(t)
      PROVE  Counted'
  <2>1. Fillers' = Fillers
    BY <1>0, <1>6 DEF ReadChecks, Fillers
  <2> QED
    BY <1>0, <1>C, <1>6, <2>1 DEF ReadChecks, Counted
<1>7. ASSUME NEW t \in Threads, ReadCopies(t)
      PROVE  Counted'
  <2>1. Fillers' = Fillers
    BY <1>0, <1>7 DEF ReadCopies, Fillers
  <2> QED
    BY <1>0, <1>C, <1>7, <2>1 DEF ReadCopies, Counted
<1>8. ASSUME NEW t \in Threads, ReadAdvances(t)
      PROVE  Counted'
  <2>1. Fillers' = Fillers
    BY <1>0, <1>8 DEF ReadAdvances, Fillers
  <2> QED
    BY <1>0, <1>C, <1>8, <2>1 DEF ReadAdvances, Counted
<1>9. ASSUME NEW t \in Threads, WriteTakes(t)
      PROVE  Counted'
  <2>0. pc[t] = "write" /\ pc' = [pc EXCEPT ![t] = "store"] /\ t \in Writers
    BY <1>0, <1>9 DEF WriteTakes, UseInv
  <2>1. Cardinality(Fillers)' = Cardinality(Fillers) + 1
    BY <1>0, <2>0, FillerEnters
  <2> QED
    BY <1>0, <1>C, <1>9, <2>1 DEF WriteTakes, Counted
<1>10. ASSUME NEW t \in Threads, WriteStores(t)
      PROVE  Counted'
  <2>1. Fillers' = Fillers
    BY <1>0, <1>10 DEF WriteStores, Fillers
  <2> QED
    BY <1>0, <1>C, <1>10, <2>1 DEF WriteStores, Counted
<1>11. ASSUME NEW t \in Threads, WriteLinks(t)
      PROVE  Counted'
  <2>0. pc[t] = "link" /\ pc' = [pc EXCEPT ![t] = "write"] /\ t \in Writers
    BY <1>0, <1>11 DEF WriteLinks, UseInv
  <2>1. Cardinality(Fillers)' = Cardinality(Fillers) - 1
    BY <1>0, <2>0, FillerLeaves
  <2> QED
    BY <1>0, <1>C, <1>11, <2>1 DEF WriteLinks, Counted
<1>12. ASSUME NEW t \in Threads, WriteDone(t)
      PROVE  Counted'
  <2>1. Fillers' = Fillers
    BY <1>0, <1>12 DEF WriteDone, Fillers
  <2> QED
    BY <1>0, <1>C, <1>12, <2>1 DEF WriteDone, Counted
<1>13. ASSUME NEW t \in Threads, ChangeLocks(t)
      PROVE  Counted'
  <2>1. Fillers' = Fillers
    BY <1>0, <1>13 DEF ChangeLocks, Fillers
  <2> QED
    BY <1>0, <1>C, <1>13, <2>1 DEF ChangeLocks, Counted
<1>14. ASSUME NEW t \in Threads, ChangeSends(t)
      PROVE  Counted'
  <2>1. Fillers' = Fillers
    BY <1>0, <1>14 DEF ChangeSends, Fillers
  <2> QED
    BY <1>0, <1>C, <1>14, <2>1 DEF ChangeSends, Counted
<1>15. ASSUME NEW t \in Threads, ChangeDone(t)
      PROVE  Counted'
  <2>1. Fillers' = Fillers
    BY <1>0, <1>15 DEF ChangeDone, Fillers
  <2> QED
    BY <1>0, <1>C, <1>15, <2>1 DEF ChangeDone, Counted
<1>16. ASSUME NEW t \in Threads, PollSelects(t)
      PROVE  Counted'
  <2>1. CASE t \in Readers
    <3>1. Fillers' = Fillers
      BY <1>0, <1>16, <2>1 DEF PollSelects, Fillers
    <3> QED
      BY <1>0, <1>C, <1>16, <2>1, <3>1 DEF PollSelects, Counted
  <2>2. CASE t \in Writers
    <3>0. pc[t] = "select" /\ pc' = [pc EXCEPT ![t] = "release"]
      BY <1>16 DEF PollSelects
    <3>1. Cardinality(Fillers)' = Cardinality(Fillers) + 1
      BY <1>0, <2>2, <3>0, FillerEnters
    <3> QED
      BY <1>0, <1>C, <1>16, <2>2, <3>1 DEF PollSelects, Ready, Counted
  <2> QED
    BY <1>0, <2>1, <2>2
<1>17. ASSUME NEW t \in Threads, PollReleases(t)
      PROVE  Counted'
  <2>1. CASE t \in Readers
    <3>1. Fillers' = Fillers
      BY <1>0, <1>17, <2>1 DEF PollReleases, Fillers
    <3> QED
      BY <1>0, <1>C, <1>17, <2>1, <3>1 DEF PollReleases, Counted
  <2>2. CASE t \in Writers
    <3>0. pc[t] = "release" /\ pc' = [pc EXCEPT ![t] = "leave"]
      BY <1>17 DEF PollReleases
    <3>1. Cardinality(Fillers)' = Cardinality(Fillers) - 1
      BY <1>0, <2>2, <3>0, FillerLeaves
    <3> QED
      BY <1>0, <1>C, <1>17, <2>2, <3>1 DEF PollReleases, Ready, Counted
  <2> QED
    BY <1>0, <2>1, <2>2
<1>18. ASSUME NEW t \in Threads, PollNotReady(t)
      PROVE  Counted'
  <2>1. Fillers' = Fillers
    BY <1>0, <1>18 DEF PollNotReady, Fillers
  <2> QED
    BY <1>0, <1>C, <1>18, <2>1 DEF PollNotReady, Counted
<1>19. ASSUME NEW t \in Threads, PollMonitors(t)
      PROVE  Counted'
  <2>1. Fillers' = Fillers
    BY <1>0, <1>19 DEF PollMonitors, Fillers
  <2> QED
    BY <1>0, <1>C, <1>19, <2>1 DEF PollMonitors, Counted
<1>20. ASSUME NEW t \in Threads, PollAcquires(t, "acquire") \/ PollAcquires(t, "asleep")
      PROVE  Counted'
  <2>1. Fillers' = Fillers
    BY <1>0, <1>20 DEF PollAcquires, Fillers
  <2> QED
    BY <1>0, <1>C, <1>20, <2>1 DEF PollAcquires, Counted
<1>21. ASSUME NEW t \in Threads, PollSleeps(t)
      PROVE  Counted'
  <2>1. Fillers' = Fillers
    BY <1>0, <1>21 DEF PollSleeps, Fillers
  <2> QED
    BY <1>0, <1>C, <1>21, <2>1 DEF PollSleeps, Counted
<1>22. ASSUME NEW t \in Threads, PollTallies(t)
      PROVE  Counted'
  <2>1. Fillers' = Fillers
    BY <1>0, <1>22 DEF PollTallies, Fillers
  <2> QED
    BY <1>0, <1>C, <1>22, <2>1 DEF PollTallies, Counted
<1>23. ASSUME NEW t \in Threads, PollLeaves(t)
      PROVE  Counted'
  <2>1. Fillers' = Fillers
    BY <1>0, <1>23 DEF PollLeaves, Fillers
  <2> QED
    BY <1>0, <1>C, <1>23, <2>1 DEF PollLeaves, Counted
<1>24. ASSUME NEW t \in Threads, PollCleans(t)
      PROVE  Counted'
  <2>1. Fillers' = Fillers
    BY <1>0, <1>24 DEF PollCleans, Fillers
  <2> QED
    BY <1>0, <1>C, <1>24, <2>1 DEF PollCleans, Counted
<1>25. ASSUME NEW t \in Threads, PollCulls(t)
      PROVE  Counted'
  <2>1. Fillers' = Fillers
    BY <1>0, <1>25 DEF PollCulls, Fillers
  <2> QED
    BY <1>0, <1>C, <1>25, <2>1 DEF PollCulls, Counted
<1>26. ASSUME NEW t \in Threads, PollFires(t)
      PROVE  Counted'
  <2>1. Fillers' = Fillers
    BY <1>26 DEF PollFires, Fillers
  <2> QED
    BY <1>0, <1>C, <1>26, <2>1 DEF PollFires, Counted
<1>27. ASSUME NEW t \in Threads, AcquireFails(t)
      PROVE  Counted'
  BY <1>27 DEF AcquireFails
<1>28. ASSUME NEW t \in Threads, ReopenDrains(t)
      PROVE  Counted'
  <2>1. Fillers' = Fillers
    BY <1>0, <1>28 DEF ReopenDrains, Fillers
  <2> QED
    BY <1>0, <1>C, <1>28, <2>1 DEF ReopenDrains, Counted, ReopenInv, UseInv
<1>29. ASSUME NEW t \in Threads, ReopenCounts(t)
      PROVE  Counted'
  <2>1. Fillers' = Fillers
    BY <1>0, <1>29 DEF ReopenCounts, Fillers
  <2> QED
    BY <1>0, <1>C, <1>29, <2>1 DEF ReopenCounts, Counted
<1>30. ASSUME NEW t \in Threads, PollTimesOut(t)
      PROVE  Counted'
  <2>1. Fillers' = Fillers
    BY <1>0, <1>30 DEF PollTimesOut, Fillers
  <2> QED
    BY <1>0, <1>C, <1>30, <2>1 DEF PollTimesOut, Counted
<1>31. ASSUME NEW t \in Threads, Unwind(t)
      PROVE  Counted'
  <2>1. Fillers' = Fillers
    BY <1>31 DEF Unwind, Fillers
  <2> QED
    BY <1>0, <1>C, <1>31, <2>1 DEF Unwind, Counted
<1>32. ASSUME NEW t \in Threads, Close(t)
      PROVE  Counted'
  <2>1. Fillers' = Fillers
    BY <1>0, <1>32 DEF Close, Fillers, UseInv
  <2> QED
    BY <1>0, <1>C, <1>32, <2>1 DEF Close, Counted
<1>33. ASSUME NEW t \in Threads, Reopen(t)
      PROVE  Counted'
  <2>1. Fillers' = Fillers
    BY <1>0, <1>33 DEF Reopen, Fillers
  <2> QED
    BY <1>0, <1>C, <1>33, <2>1 DEF Reopen, Counted
<1>34. ASSUME NEW t \in Threads, NEW m \in Sizes, NEW h \in {"no", "forever"},
             ReadStart(t, m, h)
      PROVE  Counted'
  <2>1. Fillers' = Fillers
    BY <1>0, <1>34 DEF ReadStart, Fillers
  <2> QED
    BY <1>0, <1>C, <1>34, <2>1 DEF ReadStart, Counted
<1>35. ASSUME NEW t \in Threads, NEW m \in Sizes, WriteStart(t, m)
      PROVE  Counted'
  <2>1. Fillers' = Fillers
    BY <1>0, <1>35 DEF WriteStart, Fillers
  <2> QED
    BY <1>0, <1>C, <1>35, <2>1 DEF WriteStart, Counted
<1>36. ASSUME NEW t \in Threads, NEW h \in {"no", "timeout", "forever"}, PollStart(t, h)
      PROVE  Counted'
  <2>1. Fillers' = Fillers
    BY <1>0, <1>36 DEF PollStart, Fillers
  <2> QED
    BY <1>0, <1>C, <1>36, <2>1 DEF PollStart, Counted
<1>37. CASE Reap
  <2>1. Fillers' = Fillers
    BY <1>37 DEF Reap, Fillers
  <2> QED
    BY <1>0, <1>C, <1>37, <2>1 DEF Reap, Counted
<1>38. CASE UNCHANGED vars
  <2>1. Fillers' = Fillers
    BY <1>38 DEF vars, Fillers
  <2> QED
    BY <1>0, <1>C, <1>38, <2>1 DEF vars, Counted
<1> QED
  BY <1>1, <1>2, <1>3, <1>4, <1>5, <1>6, <1>7, <1>8, <1>9, <1>10, <1>11, <1>12,
     <1>13, <1>14, <1>15, <1>16, <1>17, <1>18, <1>19, <1>20, <1>21, <1>22, <1>23,
     <1>24, <1>25, <1>26, <1>27, <1>28, <1>29, <1>30, <1>31, <1>32, <1>33, <1>34,
     <1>35, <1>36, <1>37, <1>38
  DEF Next, Step, ReadStep, WriteStep, PollStep

\* Every action keeps the pipe empty while it is opened again.
LEMMA ReopenStep ==
  ASSUME OneOpens, PipeInv, ReopenInv, unwind = {}, "restart" \notin upset', [Next]_vars
  PROVE  ReopenInv'
<1> USE DEF Go, Call, Reading, Writing, Changing, Reopening, Aside, bufVars, monitorVars, openVars,
            historyVars, fileVars, callVars, pollVars
<1>0. /\ pc \in [Threads -> Places] /\ sent \in Nat /\ got \in Nat
      /\ Readers \cap Writers = {} /\ Threads = Readers \cup Writers /\ UseInv
      /\ isAnonymous \in Kinds
  BY PipeAssumption DEF PipeInv, PipeTypeOK, CallTypeOK, DataTypeOK, Threads
<1>C. ~isAnonymous => \A w \in Writers : Writers = {w}
  BY <1>0 DEF OneOpens
<1>R. \A w \in Writers :
        pc[w] \in Reopening =>
          /\ \E u \in Threads : pc[u] \in Reopening
          /\ sent = got /\ Writers = {w} /\ \A t \in Readers : pc[t] \in Aside
  BY <1>0, <1>C DEF ReopenInv, UseInv
<1>1. ASSUME NEW t \in Threads, ReadLoop(t)
      PROVE  ReopenInv'
  BY <1>0, <1>R, <1>1 DEF ReadLoop, UseInv, ReopenInv
<1>2. ASSUME NEW t \in Threads, ReadEnds(t)
      PROVE  ReopenInv'
  BY <1>0, <1>R, <1>2 DEF ReadEnds, UseInv, ReopenInv
<1>3. ASSUME NEW t \in Threads, ReadTakes(t, "tryEOF", "checkEOF")
      PROVE  ReopenInv'
  BY <1>0, <1>R, <1>3 DEF ReadTakes, UseInv, ReopenInv
<1>4. ASSUME NEW t \in Threads, ReadTakes(t, "wait", "check")
      PROVE  ReopenInv'
  BY <1>0, <1>R, <1>4 DEF ReadTakes, UseInv, ReopenInv
<1>5. ASSUME NEW t \in Threads, ReadGivesUp(t)
      PROVE  ReopenInv'
  BY <1>0, <1>R, <1>5 DEF ReadGivesUp, UseInv, ReopenInv
<1>6. ASSUME NEW t \in Threads, ReadChecks(t)
      PROVE  ReopenInv'
  BY <1>0, <1>R, <1>6 DEF ReadChecks, UseInv, ReopenInv
<1>7. ASSUME NEW t \in Threads, ReadCopies(t)
      PROVE  ReopenInv'
  BY <1>0, <1>R, <1>7 DEF ReadCopies, UseInv, ReopenInv
<1>8. ASSUME NEW t \in Threads, ReadAdvances(t)
      PROVE  ReopenInv'
  BY <1>0, <1>R, <1>8 DEF ReadAdvances, UseInv, ReopenInv
<1>9. ASSUME NEW t \in Threads, WriteTakes(t)
      PROVE  ReopenInv'
  BY <1>0, <1>R, <1>9 DEF WriteTakes, UseInv, ReopenInv
<1>10. ASSUME NEW t \in Threads, WriteStores(t)
      PROVE  ReopenInv'
  BY <1>0, <1>R, <1>10 DEF WriteStores, UseInv, ReopenInv
<1>11. ASSUME NEW t \in Threads, WriteLinks(t)
      PROVE  ReopenInv'
  BY <1>0, <1>R, <1>11 DEF WriteLinks, UseInv, ReopenInv
<1>12. ASSUME NEW t \in Threads, WriteDone(t)
      PROVE  ReopenInv'
  BY <1>0, <1>R, <1>12 DEF WriteDone, UseInv, ReopenInv
<1>13. ASSUME NEW t \in Threads, ChangeLocks(t)
      PROVE  ReopenInv'
  BY <1>0, <1>R, <1>13 DEF ChangeLocks, UseInv, ReopenInv
<1>14. ASSUME NEW t \in Threads, ChangeSends(t)
      PROVE  ReopenInv'
  BY <1>0, <1>R, <1>14 DEF ChangeSends, UseInv, ReopenInv
<1>15. ASSUME NEW t \in Threads, ChangeDone(t)
      PROVE  ReopenInv'
  BY <1>0, <1>R, <1>15 DEF ChangeDone, UseInv, ReopenInv
<1>16. ASSUME NEW t \in Threads, PollSelects(t)
      PROVE  ReopenInv'
  BY <1>0, <1>R, <1>16 DEF PollSelects, UseInv, ReopenInv
<1>17. ASSUME NEW t \in Threads, PollReleases(t)
      PROVE  ReopenInv'
  BY <1>0, <1>R, <1>17 DEF PollReleases, UseInv, ReopenInv
<1>18. ASSUME NEW t \in Threads, PollNotReady(t)
      PROVE  ReopenInv'
  BY <1>0, <1>R, <1>18 DEF PollNotReady, UseInv, ReopenInv
<1>19. ASSUME NEW t \in Threads, PollMonitors(t)
      PROVE  ReopenInv'
  BY <1>0, <1>R, <1>19 DEF PollMonitors, UseInv, ReopenInv
<1>20. ASSUME NEW t \in Threads, PollAcquires(t, "acquire") \/ PollAcquires(t, "asleep")
      PROVE  ReopenInv'
  BY <1>0, <1>R, <1>20 DEF PollAcquires, UseInv, ReopenInv
<1>21. ASSUME NEW t \in Threads, PollSleeps(t)
      PROVE  ReopenInv'
  BY <1>0, <1>R, <1>21 DEF PollSleeps, UseInv, ReopenInv
<1>22. ASSUME NEW t \in Threads, PollTallies(t)
      PROVE  ReopenInv'
  BY <1>0, <1>R, <1>22 DEF PollTallies, UseInv, ReopenInv
<1>23. ASSUME NEW t \in Threads, PollLeaves(t)
      PROVE  ReopenInv'
  BY <1>0, <1>R, <1>23 DEF PollLeaves, UseInv, ReopenInv
<1>24. ASSUME NEW t \in Threads, PollCleans(t)
      PROVE  ReopenInv'
  BY <1>0, <1>R, <1>24 DEF PollCleans, UseInv, ReopenInv
<1>25. ASSUME NEW t \in Threads, PollCulls(t)
      PROVE  ReopenInv'
  BY <1>0, <1>R, <1>25 DEF PollCulls, UseInv, ReopenInv
<1>26. ASSUME NEW t \in Threads, PollFires(t)
      PROVE  ReopenInv'
  BY <1>0, <1>R, <1>26 DEF PollFires, UseInv, ReopenInv
<1>27. ASSUME NEW t \in Threads, AcquireFails(t)
      PROVE  ReopenInv'
  BY <1>27 DEF AcquireFails
<1>28. ASSUME NEW t \in Threads, ReopenDrains(t)
      PROVE  ReopenInv'
  BY <1>0, <1>R, <1>28 DEF ReopenDrains, UseInv, ReopenInv
<1>29. ASSUME NEW t \in Threads, ReopenCounts(t)
      PROVE  ReopenInv'
  BY <1>0, <1>R, <1>29 DEF ReopenCounts, UseInv, ReopenInv
<1>30. ASSUME NEW t \in Threads, PollTimesOut(t)
      PROVE  ReopenInv'
  BY <1>0, <1>R, <1>30 DEF PollTimesOut, UseInv, ReopenInv
<1>31. ASSUME NEW t \in Threads, Unwind(t)
      PROVE  ReopenInv'
  BY <1>0, <1>R, <1>31 DEF Unwind, UseInv, ReopenInv
<1>32. ASSUME NEW t \in Threads, Close(t)
      PROVE  ReopenInv'
  <2>1. /\ t \in open /\ pc[t] = "idle" /\ open' = open \ {t} /\ UNCHANGED <<sent, got>>
        /\ isEOF' = (isEOF \/ open \cap Writers = {t})
        /\ \E a \in {"change", "closed"} : pc' = [pc EXCEPT ![t] = a]
    BY <1>32 DEF Close
  <2>2. /\ pc'[t] \in {"change", "closed"}
        /\ \A u \in Threads : u # t => pc'[u] = pc[u]
    BY <1>0, <2>1
  <2>3. ASSUME NEW w \in Writers, pc'[w] \in Reopening
        PROVE  sent' = got' /\ Writers = {w} /\ \A u \in Readers : pc'[u] \in Aside
    <3>1. w # t /\ pc[w] \in Reopening
      BY <1>0, <2>2, <2>3
    <3>2. Writers = {w} /\ t \notin Writers
      BY <1>R, <3>1
    <3>3. pc' = [pc EXCEPT ![t] = "closed"]
      BY <1>32, <3>2 DEF Close
    <3>4. pc'[t] = "closed"
      BY <1>0, <3>3
    <3> QED
      BY <1>0, <1>R, <2>1, <2>2, <3>1, <3>4
  <2>4. ASSUME NEW w \in Writers, Writers = {w}, w \notin open', pc'[w] \notin Reopening
        PROVE  isEOF'
    <3>1. CASE w = t
      BY <2>1, <2>4, <3>1
    <3>2. CASE w # t
      BY <1>0, <2>1, <2>2, <2>4, <3>2 DEF ReopenInv
    <3> QED
      BY <3>1, <3>2
  <2> QED
    BY <2>3, <2>4 DEF ReopenInv
<1>33. ASSUME NEW t \in Threads, Reopen(t)
      PROVE  ReopenInv'
  <2>1. /\ t \in Writers /\ ~isAnonymous /\ pc[t] = "closed"
        /\ UNCHANGED <<sent, got, open>>
        /\ isEOF /\ ~Quiet => "restart" \in upset'
        /\ \E a \in Reopening : pc' = [pc EXCEPT ![t] = a]
    BY <1>33 DEF Reopen
  <2>2. Writers = {t} /\ t \notin open
    BY <1>0, <1>C, <2>1 DEF UseInv
  <2>3. isEOF
    BY <2>1, <2>2 DEF ReopenInv
  <2>4. sent = got /\ \A u \in Readers : pc[u] \in Aside
    BY <2>1, <2>3 DEF Quiet
  <2>5. pc'[t] \in Reopening /\ \A u \in Readers : pc'[u] = pc[u]
    BY <1>0, <2>1
  <2> QED
    BY <2>1, <2>2, <2>4, <2>5 DEF ReopenInv
<1>34. ASSUME NEW t \in Threads, NEW m \in Sizes, NEW h \in {"no", "forever"},
             ReadStart(t, m, h)
      PROVE  ReopenInv'
  BY <1>0, <1>R, <1>34 DEF ReadStart, Restarted, UseInv, ReopenInv
<1>35. ASSUME NEW t \in Threads, NEW m \in Sizes, WriteStart(t, m)
      PROVE  ReopenInv'
  BY <1>0, <1>R, <1>35 DEF WriteStart, UseInv, ReopenInv
<1>36. ASSUME NEW t \in Threads, NEW h \in {"no", "timeout", "forever"}, PollStart(t, h)
      PROVE  ReopenInv'
  BY <1>0, <1>R, <1>36 DEF PollStart, Restarted, UseInv, ReopenInv
<1>37. CASE Reap
  BY <1>0, <1>R, <1>37 DEF Reap, UseInv, ReopenInv
<1>38. CASE UNCHANGED vars
  BY <1>0, <1>R, <1>38 DEF vars, UseInv, ReopenInv
<1> QED
  BY <1>1, <1>2, <1>3, <1>4, <1>5, <1>6, <1>7, <1>8, <1>9, <1>10, <1>11, <1>12,
     <1>13, <1>14, <1>15, <1>16, <1>17, <1>18, <1>19, <1>20, <1>21, <1>22, <1>23,
     <1>24, <1>25, <1>26, <1>27, <1>28, <1>29, <1>30, <1>31, <1>32, <1>33, <1>34,
     <1>35, <1>36, <1>37, <1>38
  DEF Next, Step, ReadStep, WriteStep, PollStep

\* At first every cell is free.
LEMMA InitCounted == Init => Counted /\ ReopenInv
<1> SUFFICES ASSUME Init PROVE Counted /\ ReopenInv
  OBVIOUS
<1>1. Fillers = {}
  BY PipeAssumption DEF Init, Fillers, Filling, Threads
<1>2. Cardinality(Fillers) = 0
  BY <1>1, FS_EmptySet
<1>3. Counted
  BY <1>2, PipeAssumption DEF Init, Counted
<1>4. ReopenInv
  BY DEF Init, ReopenInv, Reopening, Threads
<1> QED
  BY <1>3, <1>4

\* The pipe keeps its capacity: the cells that are free, those that hold a byte and
\* those in the hands of writers are all there are, whatever reads, writes, polls,
\* closes and opens do to m_BufAvailable, until a blocked call is torn away or the pipe
\* is started again with bytes in it or a reader at it.
THEOREM PipeKeepsCapacity == ASSUME OneOpens PROVE Spec => []CapacityKept
<1> DEFINE Inv == Orderly => Counted /\ ReopenInv
<1>1. Init => Inv
  BY InitCounted
<1>2. PipeInv /\ Inv /\ [Next]_vars => Inv'
  <2> SUFFICES ASSUME PipeInv, Inv, [Next]_vars, Orderly'
               PROVE  Counted' /\ ReopenInv'
    OBVIOUS
  <2>1. Orderly /\ unwind = {} /\ "restart" \notin upset'
    BY HistoryGrows DEF Orderly
  <2> QED
    BY <2>1, CountedStep, ReopenStep
<1>3. Inv => CapacityKept
  BY DEF Counted, CapacityKept, Room, Fillers, Filling, Orderly
<1> HIDE DEF Inv
<1> QED
  BY <1>1, <1>2, <1>3, PipeInvariant, PTL DEF Spec

----------------------------------------------------------------------------
(* The bytes of one writer and one reader *)

\* Cells of the buffer, counted from the front.
LEMMA CellLemma ==
  ASSUME NEW f \in 0 .. PipeBufMax - 1, NEW i \in 0 .. PipeBufMax
  PROVE  /\ Cell(f, i) \in 0 .. PipeBufMax - 1
         /\ Cell(f, i) = f <=> i \in {0, PipeBufMax}
         /\ i < PipeBufMax =>
              /\ Cell(f, i + 1) = (Cell(f, i) + 1) % PipeBufMax
              /\ Cell((f + 1) % PipeBufMax, i) = Cell(f, i + 1)
              /\ \A j \in 0 .. i - 1 : Cell(f, j) # Cell(f, i)
<1>0. PipeBufMax \in Nat \ {0}
  BY PipeAssumption
<1>1. Cell(f, i) \in 0 .. PipeBufMax - 1 /\ (Cell(f, i) = f <=> i \in {0, PipeBufMax})
  BY <1>0 DEF Cell
<1>2. (f + 1) % PipeBufMax = IF f + 1 < PipeBufMax THEN f + 1 ELSE 0
  BY NextCell
<1>3. (Cell(f, i) + 1) % PipeBufMax = IF Cell(f, i) + 1 < PipeBufMax THEN Cell(f, i) + 1 ELSE 0
  BY <1>1, NextCell
<1>4. ASSUME i < PipeBufMax PROVE Cell(f, i + 1) = (Cell(f, i) + 1) % PipeBufMax
  BY <1>0, <1>3, <1>4 DEF Cell
<1>5. ASSUME i < PipeBufMax PROVE Cell((f + 1) % PipeBufMax, i) = Cell(f, i + 1)
  BY <1>0, <1>2, <1>5 DEF Cell
<1>6. ASSUME i < PipeBufMax, NEW j \in 0 .. i - 1 PROVE Cell(f, j) # Cell(f, i)
  BY <1>0, <1>6 DEF Cell
<1> QED
  BY <1>1, <1>4, <1>5, <1>6

\* What holds of one writer and one reader, if nobody has been torn out of a call.
OrderInv(r, w) ==
  PipeInv /\ Counted /\ ReopenInv /\ RingInv(w) /\ CountInv(r, w)

\* The bytes in the pipe are no more than fit; a writer that stores one has room.  The
\* front meets the back when the pipe is empty or full.
LEMMA Fits ==
  ASSUME NEW r, NEW w, Readers = {r}, Writers = {w}, OrderInv(r, w)
  PROVE  /\ sent - got \in 0 .. PipeBufMax
         /\ sent - got + bufAvailable <= PipeBufMax
         /\ pc[w] \in {"store", "link"} => sent - got < PipeBufMax
         /\ front = back <=> sent - got \in {0, PipeBufMax}
<1>0. /\ bufLen \in Nat /\ bufAvailable \in Nat /\ sent \in Nat /\ got \in Nat
      /\ front \in 0 .. PipeBufMax - 1 /\ PipeBufMax \in Nat
  BY PipeAssumption DEF OrderInv, PipeInv, PipeTypeOK, DataTypeOK
<1>1. sent - got >= 0
  BY <1>0 DEF OrderInv, CountInv
<1>2. Cardinality(Fillers) \in Nat /\ IsFiniteSet(Fillers)
  BY FillersFinite
<1>3. sent - got + bufAvailable + Cardinality(Fillers) = PipeBufMax
  BY <1>0, <1>2 DEF OrderInv, Counted
<1>4. ASSUME pc[w] \in {"store", "link"} PROVE sent - got < PipeBufMax
  <2>1. w \in Fillers
    BY <1>4 DEF Fillers, Filling
  <2>2. Cardinality(Fillers) # 0
    BY <1>2, <2>1, FS_EmptySet
  <2> QED
    BY <1>0, <1>2, <1>3, <2>2
<1>5. sent - got \in 0 .. PipeBufMax /\ sent - got + bufAvailable <= PipeBufMax
  BY <1>0, <1>1, <1>2, <1>3
<1>6. front = back <=> sent - got \in {0, PipeBufMax}
  BY <1>0, <1>5, CellLemma DEF OrderInv, RingInv
<1> QED
  BY <1>4, <1>5, <1>6

\* Every action keeps the bytes in the buffer in their order.
LEMMA RingStep ==
  ASSUME NEW r, NEW w, Readers = {r}, Writers = {w}, OrderInv(r, w), unwind = {},
         [Next]_vars
  PROVE  RingInv(w)'
<1> USE DEF Go, Call, Reading, Writing, Reopening, bufVars, monitorVars, openVars, historyVars, fileVars, callVars,
            pollVars
<1>0. /\ sent \in Nat /\ got \in Nat /\ pc \in [Threads -> Places]
      /\ front \in 0 .. PipeBufMax - 1 /\ back \in 0 .. PipeBufMax - 1
      /\ buffer \in [0 .. PipeBufMax - 1 -> Nat]
      /\ r # w /\ Threads = {r, w} /\ RingInv(w) /\ UseInv /\ PipeBufMax \in Nat
  BY PipeAssumption DEF OrderInv, PipeInv, PipeTypeOK, CallTypeOK, DataTypeOK, Threads
<1>N. /\ sent - got \in 0 .. PipeBufMax
      /\ pc[w] \in {"store", "link"} => sent - got < PipeBufMax
  BY Fits
<1>1. ASSUME NEW t \in Threads, ReadLoop(t)
      PROVE  RingInv(w)'
  BY <1>0, <1>1 DEF ReadLoop, UseInv, RingInv
<1>2. ASSUME NEW t \in Threads, ReadEnds(t)
      PROVE  RingInv(w)'
  BY <1>0, <1>2 DEF ReadEnds, UseInv, RingInv
<1>3. ASSUME NEW t \in Threads, ReadTakes(t, "tryEOF", "checkEOF")
      PROVE  RingInv(w)'
  BY <1>0, <1>3 DEF ReadTakes, UseInv, RingInv
<1>4. ASSUME NEW t \in Threads, ReadTakes(t, "wait", "check")
      PROVE  RingInv(w)'
  BY <1>0, <1>4 DEF ReadTakes, UseInv, RingInv
<1>5. ASSUME NEW t \in Threads, ReadGivesUp(t)
      PROVE  RingInv(w)'
  BY <1>0, <1>5 DEF ReadGivesUp, UseInv, RingInv
<1>6. ASSUME NEW t \in Threads, ReadChecks(t)
      PROVE  RingInv(w)'
  BY <1>0, <1>6 DEF ReadChecks, UseInv, RingInv
<1>7. ASSUME NEW t \in Threads, ReadCopies(t)
      PROVE  RingInv(w)'
  BY <1>0, <1>7 DEF ReadCopies, UseInv, RingInv
<1>8. ASSUME NEW t \in Threads, ReadAdvances(t)
      PROVE  RingInv(w)'
  <2>1. /\ t = r /\ sent - got > 0 /\ front' = (front + 1) % PipeBufMax /\ got' = got + 1
        /\ back' = back /\ buffer' = buffer /\ sent' = sent /\ pc'[w] = pc[w]
    BY <1>0, <1>8 DEF ReadAdvances, UseInv, OrderInv, CountInv
  <2>2. \A i \in 0 .. PipeBufMax - 1 : Cell(front', i) = Cell(front, i + 1)
    BY <1>0, <2>1, CellLemma
  <2>3. back' = Cell(front', sent' - got')
    <3>1. sent - got - 1 \in 0 .. PipeBufMax - 1
      BY <1>0, <1>N, <2>1
    <3>2. Cell(front', sent - got - 1) = Cell(front, (sent - got - 1) + 1)
      BY <2>2, <3>1
    <3>3. (sent - got - 1) + 1 = sent - got /\ sent' - got' = sent - got - 1
      BY <1>0, <2>1
    <3> QED
      BY <1>0, <2>1, <3>2, <3>3 DEF RingInv
  <2>4. ASSUME NEW i \in 0 .. sent' - got' - 1
        PROVE  buffer'[Cell(front', i)] = got' + 1 + i
    <3>1. i \in 0 .. PipeBufMax - 1 /\ i + 1 \in 0 .. sent - got - 1
      BY <1>0, <1>N, <2>1
    <3>2. buffer[Cell(front, i + 1)] = got + 1 + (i + 1)
      BY <1>0, <3>1 DEF RingInv
    <3> QED
      BY <1>0, <2>1, <2>2, <3>1, <3>2
  <2> QED
    BY <1>0, <2>1, <2>3, <2>4 DEF RingInv
<1>9. ASSUME NEW t \in Threads, WriteTakes(t)
      PROVE  RingInv(w)'
  BY <1>0, <1>9 DEF WriteTakes, UseInv, RingInv
<1>10. ASSUME NEW t \in Threads, WriteStores(t)
      PROVE  RingInv(w)'
  <2>1. /\ t = w /\ pc[w] = "store" /\ buffer' = [buffer EXCEPT ![back] = sent + 1]
        /\ UNCHANGED <<front, back, sent, got>>
    BY <1>0, <1>10 DEF WriteStores, UseInv
  <2>2. back = Cell(front, sent - got) /\ sent - got < PipeBufMax
    BY <1>0, <1>N, <2>1 DEF RingInv
  <2>3. ASSUME NEW i \in 0 .. sent - got - 1
        PROVE  Cell(front, i) # back /\ Cell(front, i) \in 0 .. PipeBufMax - 1
    <3>1. i \in 0 .. PipeBufMax
      BY <1>0, <1>N
    <3>2. Cell(front, i) \in 0 .. PipeBufMax - 1
      BY <1>0, <3>1, CellLemma
    <3>3. Cell(front, i) # Cell(front, sent - got)
      BY <1>0, <1>N, <2>2, CellLemma
    <3> QED
      BY <2>2, <3>2, <3>3
  <2>4. ASSUME NEW i \in 0 .. sent - got - 1
        PROVE  buffer'[Cell(front, i)] = got + 1 + i
    BY <1>0, <2>1, <2>3 DEF RingInv
  <2> QED
    BY <1>0, <2>1, <2>2, <2>4 DEF RingInv
<1>11. ASSUME NEW t \in Threads, WriteLinks(t)
      PROVE  RingInv(w)'
  <2>1. /\ t = w /\ pc[w] = "link" /\ back' = (back + 1) % PipeBufMax /\ sent' = sent + 1
        /\ UNCHANGED <<front, buffer, got>> /\ pc'[w] = "write"
    BY <1>0, <1>11 DEF WriteLinks, UseInv
  <2>2. back = Cell(front, sent - got) /\ sent - got < PipeBufMax /\ buffer[back] = sent + 1
    BY <1>0, <1>N, <2>1 DEF RingInv
  <2>3. back' = Cell(front', sent' - got')
    <3>1. sent' - got' = (sent - got) + 1
      BY <1>0, <2>1
    <3> QED
      BY <1>0, <1>N, <2>1, <2>2, <3>1, CellLemma
  <2>4. ASSUME NEW i \in 0 .. sent' - got' - 1
        PROVE  buffer'[Cell(front', i)] = got' + 1 + i
    <3>1. CASE i \in 0 .. sent - got - 1
      BY <1>0, <2>1, <3>1 DEF RingInv
    <3>2. CASE i = sent - got
      BY <1>0, <2>1, <2>2, <3>2
    <3> QED
      BY <1>0, <2>1, <3>1, <3>2
  <2> QED
    BY <2>1, <2>3, <2>4 DEF RingInv
<1>12. ASSUME NEW t \in Threads, WriteDone(t)
      PROVE  RingInv(w)'
  BY <1>0, <1>12 DEF WriteDone, UseInv, RingInv
<1>13. ASSUME NEW t \in Threads, ChangeLocks(t)
      PROVE  RingInv(w)'
  BY <1>0, <1>13 DEF ChangeLocks, UseInv, RingInv
<1>14. ASSUME NEW t \in Threads, ChangeSends(t)
      PROVE  RingInv(w)'
  BY <1>0, <1>14 DEF ChangeSends, UseInv, RingInv
<1>15. ASSUME NEW t \in Threads, ChangeDone(t)
      PROVE  RingInv(w)'
  BY <1>0, <1>15 DEF ChangeDone, UseInv, RingInv
<1>16. ASSUME NEW t \in Threads, PollSelects(t)
      PROVE  RingInv(w)'
  BY <1>0, <1>16 DEF PollSelects, UseInv, RingInv
<1>17. ASSUME NEW t \in Threads, PollReleases(t)
      PROVE  RingInv(w)'
  BY <1>0, <1>17 DEF PollReleases, UseInv, RingInv
<1>18. ASSUME NEW t \in Threads, PollNotReady(t)
      PROVE  RingInv(w)'
  BY <1>0, <1>18 DEF PollNotReady, UseInv, RingInv
<1>19. ASSUME NEW t \in Threads, PollMonitors(t)
      PROVE  RingInv(w)'
  BY <1>0, <1>19 DEF PollMonitors, UseInv, RingInv
<1>20. ASSUME NEW t \in Threads, PollAcquires(t, "acquire") \/ PollAcquires(t, "asleep")
      PROVE  RingInv(w)'
  BY <1>0, <1>20 DEF PollAcquires, UseInv, RingInv
<1>21. ASSUME NEW t \in Threads, PollSleeps(t)
      PROVE  RingInv(w)'
  BY <1>0, <1>21 DEF PollSleeps, UseInv, RingInv
<1>22. ASSUME NEW t \in Threads, PollTallies(t)
      PROVE  RingInv(w)'
  BY <1>0, <1>22 DEF PollTallies, UseInv, RingInv
<1>23. ASSUME NEW t \in Threads, PollLeaves(t)
      PROVE  RingInv(w)'
  BY <1>0, <1>23 DEF PollLeaves, UseInv, RingInv
<1>24. ASSUME NEW t \in Threads, PollCleans(t)
      PROVE  RingInv(w)'
  BY <1>0, <1>24 DEF PollCleans, UseInv, RingInv
<1>25. ASSUME NEW t \in Threads, PollCulls(t)
      PROVE  RingInv(w)'
  BY <1>0, <1>25 DEF PollCulls, UseInv, RingInv
<1>26. ASSUME NEW t \in Threads, PollFires(t)
      PROVE  RingInv(w)'
  BY <1>0, <1>26 DEF PollFires, UseInv, RingInv
<1>27. ASSUME NEW t \in Threads, AcquireFails(t)
      PROVE  RingInv(w)'
  BY <1>27 DEF AcquireFails
<1>28. ASSUME NEW t \in Threads, ReopenDrains(t)
      PROVE  RingInv(w)'
  <2>1. front' = 0 /\ back' = 0 /\ got' = sent' /\ sent' = sent /\ pc'[w] = "count"
    BY <1>0, <1>28 DEF ReopenDrains, UseInv
  <2>2. Cell(0, 0) = 0
    BY <1>0 DEF Cell
  <2> QED
    BY <1>0, <2>1, <2>2 DEF RingInv
<1>29. ASSUME NEW t \in Threads, ReopenCounts(t)
      PROVE  RingInv(w)'
  BY <1>0, <1>29 DEF ReopenCounts, UseInv, RingInv
<1>30. ASSUME NEW t \in Threads, PollTimesOut(t)
      PROVE  RingInv(w)'
  BY <1>0, <1>30 DEF PollTimesOut, UseInv, RingInv
<1>31. ASSUME NEW t \in Threads, Unwind(t)
      PROVE  RingInv(w)'
  BY <1>0, <1>31 DEF Unwind, UseInv, RingInv
<1>32. ASSUME NEW t \in Threads, Close(t)
      PROVE  RingInv(w)'
  BY <1>0, <1>32 DEF Close, UseInv, RingInv
<1>33. ASSUME NEW t \in Threads, Reopen(t)
      PROVE  RingInv(w)'
  BY <1>0, <1>33 DEF Reopen, UseInv, RingInv
<1>34. ASSUME NEW t \in Threads, NEW m \in Sizes, NEW h \in {"no", "forever"},
             ReadStart(t, m, h)
      PROVE  RingInv(w)'
  BY <1>0, <1>34 DEF ReadStart, UseInv, RingInv
<1>35. ASSUME NEW t \in Threads, NEW m \in Sizes, WriteStart(t, m)
      PROVE  RingInv(w)'
  BY <1>0, <1>35 DEF WriteStart, UseInv, RingInv
<1>36. ASSUME NEW t \in Threads, NEW h \in {"no", "timeout", "forever"}, PollStart(t, h)
      PROVE  RingInv(w)'
  BY <1>0, <1>36 DEF PollStart, UseInv, RingInv
<1>37. CASE Reap
  BY <1>0, <1>37 DEF Reap, UseInv, RingInv
<1>38. CASE UNCHANGED vars
  BY <1>0, <1>38 DEF vars, UseInv, RingInv
<1> QED
  BY <1>1, <1>2, <1>3, <1>4, <1>5, <1>6, <1>7, <1>8, <1>9, <1>10, <1>11, <1>12,
     <1>13, <1>14, <1>15, <1>16, <1>17, <1>18, <1>19, <1>20, <1>21, <1>22, <1>23,
     <1>24, <1>25, <1>26, <1>27, <1>28, <1>29, <1>30, <1>31, <1>32, <1>33, <1>34,
     <1>35, <1>36, <1>37, <1>38
  DEF Next, Step, ReadStep, WriteStep, PollStep

\* Every action keeps m_BufLen in step with the bytes.
LEMMA CountStep ==
  ASSUME NEW r, NEW w, Readers = {r}, Writers = {w}, OrderInv(r, w), unwind = {},
         "restart" \notin upset', [Next]_vars
  PROVE  CountInv(r, w)'
<1> USE DEF Go, Call, Reading, Writing, Changing, Reopening, bufVars, monitorVars, openVars,
            historyVars, fileVars, callVars, pollVars, Held
<1>0. /\ sent \in Nat /\ got \in Nat /\ bufLen \in Nat /\ bufAvailable \in Nat
      /\ pc \in [Threads -> Places] /\ byte \in [Threads -> Nat]
      /\ r # w /\ Threads = {r, w} /\ Readers = {r} /\ Writers = {w}
      /\ CountInv(r, w) /\ UseInv /\ PipeBufMax \in Nat \ {0}
  BY PipeAssumption DEF OrderInv, PipeInv, PipeTypeOK, CallTypeOK, DataTypeOK, Threads
<1>N. /\ sent - got \in 0 .. PipeBufMax
      /\ sent - got + bufAvailable <= PipeBufMax
      /\ front = back <=> sent - got \in {0, PipeBufMax}
  BY Fits
<1>R. pc[w] \in Reopening => sent = got /\ pc[r] \in Aside
  BY <1>0 DEF OrderInv, ReopenInv
<1>1. ASSUME NEW t \in Threads, ReadLoop(t)
      PROVE  CountInv(r, w)'
  BY <1>0, <1>R, <1>1 DEF ReadLoop, UseInv, CountInv, Aside
<1>2. ASSUME NEW t \in Threads, ReadEnds(t)
      PROVE  CountInv(r, w)'
  BY <1>0, <1>R, <1>2 DEF ReadEnds, UseInv, CountInv, Aside
<1>3. ASSUME NEW t \in Threads, ReadTakes(t, "tryEOF", "checkEOF")
      PROVE  CountInv(r, w)'
  BY <1>0, <1>R, <1>3 DEF ReadTakes, UseInv, CountInv, Aside
<1>4. ASSUME NEW t \in Threads, ReadTakes(t, "wait", "check")
      PROVE  CountInv(r, w)'
  BY <1>0, <1>R, <1>4 DEF ReadTakes, UseInv, CountInv, Aside
<1>5. ASSUME NEW t \in Threads, ReadGivesUp(t)
      PROVE  CountInv(r, w)'
  BY <1>0, <1>R, <1>5 DEF ReadGivesUp, UseInv, CountInv, Aside
<1>6. ASSUME NEW t \in Threads, ReadChecks(t)
      PROVE  CountInv(r, w)'
  BY <1>0, <1>N, <1>R, <1>6 DEF ReadChecks, UseInv, CountInv, Aside
<1>7. ASSUME NEW t \in Threads, ReadCopies(t)
      PROVE  CountInv(r, w)'
  <2>1. buffer[front] = got + 1
    <3>1. pc[t] = "copy" /\ t = r /\ 0 \in 0 .. sent - got - 1
      BY <1>0, <1>7 DEF ReadCopies, UseInv, CountInv
    <3>2. Cell(front, 0) = front
      BY PipeAssumption DEF Cell, OrderInv, PipeInv, PipeTypeOK, DataTypeOK
    <3>3. buffer[Cell(front, 0)] = got + 1 + 0
      BY <3>1 DEF OrderInv, RingInv
    <3> QED
      BY <1>0, <3>2, <3>3
  <2> QED
    BY <1>0, <1>7, <2>1 DEF ReadCopies, UseInv, CountInv
<1>8. ASSUME NEW t \in Threads, ReadAdvances(t)
      PROVE  CountInv(r, w)'
  BY <1>0, <1>R, <1>8 DEF ReadAdvances, UseInv, CountInv, Aside
<1>9. ASSUME NEW t \in Threads, WriteTakes(t)
      PROVE  CountInv(r, w)'
  BY <1>0, <1>R, <1>9 DEF WriteTakes, UseInv, CountInv, Aside
<1>10. ASSUME NEW t \in Threads, WriteStores(t)
      PROVE  CountInv(r, w)'
  BY <1>0, <1>R, <1>10 DEF WriteStores, UseInv, CountInv, Aside
<1>11. ASSUME NEW t \in Threads, WriteLinks(t)
      PROVE  CountInv(r, w)'
  BY <1>0, <1>R, <1>11 DEF WriteLinks, UseInv, CountInv, Aside
<1>12. ASSUME NEW t \in Threads, WriteDone(t)
      PROVE  CountInv(r, w)'
  BY <1>0, <1>R, <1>12 DEF WriteDone, UseInv, CountInv, Aside
<1>13. ASSUME NEW t \in Threads, ChangeLocks(t)
      PROVE  CountInv(r, w)'
  BY <1>0, <1>R, <1>13 DEF ChangeLocks, UseInv, CountInv, Aside
<1>14. ASSUME NEW t \in Threads, ChangeSends(t)
      PROVE  CountInv(r, w)'
  BY <1>0, <1>R, <1>14 DEF ChangeSends, UseInv, CountInv, Aside
<1>15. ASSUME NEW t \in Threads, ChangeDone(t)
      PROVE  CountInv(r, w)'
  <2>1. t = w /\ pc[w] = "send" /\ (isEOF => w \notin open)
    BY <1>0, <1>15 DEF ChangeDone, UseInv, CountInv
  <2>2. /\ UNCHANGED <<bufLen, bufAvailable, sent, got, byte, isEOF, open, upset>>
        /\ pc' = [pc EXCEPT ![w] = IF w \in open THEN "idle" ELSE "closed"]
    BY <1>15, <2>1 DEF ChangeDone
  <2>3. pc'[r] = pc[r] /\ pc'[w] \in {"idle", "closed"} /\ (isEOF => pc'[w] = "closed")
    BY <1>0, <2>1, <2>2
  <2> QED
    BY <1>0, <2>1, <2>2, <2>3 DEF CountInv
<1>16. ASSUME NEW t \in Threads, PollSelects(t)
      PROVE  CountInv(r, w)'
  BY <1>0, <1>R, <1>16 DEF PollSelects, Ready, UseInv, CountInv, Aside
<1>17. ASSUME NEW t \in Threads, PollReleases(t)
      PROVE  CountInv(r, w)'
  BY <1>0, <1>R, <1>17 DEF PollReleases, Ready, UseInv, CountInv, Aside
<1>18. ASSUME NEW t \in Threads, PollNotReady(t)
      PROVE  CountInv(r, w)'
  BY <1>0, <1>R, <1>18 DEF PollNotReady, UseInv, CountInv, Aside
<1>19. ASSUME NEW t \in Threads, PollMonitors(t)
      PROVE  CountInv(r, w)'
  BY <1>0, <1>R, <1>19 DEF PollMonitors, UseInv, CountInv, Aside
<1>20. ASSUME NEW t \in Threads, PollAcquires(t, "acquire") \/ PollAcquires(t, "asleep")
      PROVE  CountInv(r, w)'
  BY <1>0, <1>R, <1>20 DEF PollAcquires, UseInv, CountInv, Aside
<1>21. ASSUME NEW t \in Threads, PollSleeps(t)
      PROVE  CountInv(r, w)'
  BY <1>0, <1>R, <1>21 DEF PollSleeps, UseInv, CountInv, Aside
<1>22. ASSUME NEW t \in Threads, PollTallies(t)
      PROVE  CountInv(r, w)'
  BY <1>0, <1>R, <1>22 DEF PollTallies, UseInv, CountInv, Aside
<1>23. ASSUME NEW t \in Threads, PollLeaves(t)
      PROVE  CountInv(r, w)'
  BY <1>0, <1>R, <1>23 DEF PollLeaves, UseInv, CountInv, Aside
<1>24. ASSUME NEW t \in Threads, PollCleans(t)
      PROVE  CountInv(r, w)'
  BY <1>0, <1>R, <1>24 DEF PollCleans, UseInv, CountInv, Aside
<1>25. ASSUME NEW t \in Threads, PollCulls(t)
      PROVE  CountInv(r, w)'
  BY <1>0, <1>R, <1>25 DEF PollCulls, UseInv, CountInv, Aside
<1>26. ASSUME NEW t \in Threads, PollFires(t)
      PROVE  CountInv(r, w)'
  BY <1>0, <1>R, <1>26 DEF PollFires, UseInv, CountInv, Aside
<1>27. ASSUME NEW t \in Threads, AcquireFails(t)
      PROVE  CountInv(r, w)'
  BY <1>27 DEF AcquireFails
<1>28. ASSUME NEW t \in Threads, ReopenDrains(t)
      PROVE  CountInv(r, w)'
  BY <1>0, <1>R, <1>28 DEF ReopenDrains, UseInv, CountInv, Aside
<1>29. ASSUME NEW t \in Threads, ReopenCounts(t)
      PROVE  CountInv(r, w)'
  BY <1>0, <1>R, <1>29 DEF ReopenCounts, UseInv, CountInv, Aside
<1>30. ASSUME NEW t \in Threads, PollTimesOut(t)
      PROVE  CountInv(r, w)'
  BY <1>0, <1>R, <1>30 DEF PollTimesOut, UseInv, CountInv, Aside
<1>31. ASSUME NEW t \in Threads, Unwind(t)
      PROVE  CountInv(r, w)'
  BY <1>0, <1>R, <1>31 DEF Unwind, UseInv, CountInv, Aside
<1>32. ASSUME NEW t \in Threads, Close(t)
      PROVE  CountInv(r, w)'
  <2>1. CASE t = r
    <3>1. open \cap Writers # {t}
      BY <1>0, <2>1
    <3>2. /\ UNCHANGED <<bufLen, bufAvailable, sent, got, byte, upset>> /\ (isEOF' <=> isEOF)
          /\ pc[r] = "idle" /\ pc' = [pc EXCEPT ![r] = "closed"] /\ open' = open \ {r}
      BY <1>32, <2>1, <3>1 DEF Close
    <3> QED
      BY <1>0, <3>2 DEF CountInv
  <2>2. CASE t = w
    <3>1. open \cap Writers = {t} /\ pc[w] = "idle" /\ ~isEOF
      BY <1>0, <1>32, <2>2 DEF Close, CountInv
    <3>2. /\ UNCHANGED <<bufAvailable, sent, got, byte>> /\ isEOF' /\ open' = open \ {w}
          /\ bufLen' = IF front = back THEN bufLen + 1 ELSE bufLen
      BY <1>32, <2>2, <3>1 DEF Close
    <3>3. pc' = [pc EXCEPT ![w] = "change"] \/ pc' = [pc EXCEPT ![w] = "closed"]
      BY <1>32, <2>2 DEF Close
    <3>4. pc'[r] = pc[r] /\ pc'[w] \in {"change", "closed"}
      BY <1>0, <3>3
    <3>5. "full" \notin upset' => "full" \notin upset /\ (front = back <=> sent = got)
      BY <1>0, <1>N, <1>32, <2>2, <3>1 DEF Close, LooksEmpty
    <3>6. bufLen + Held(r) = sent - got
      BY <1>0, <3>1 DEF CountInv
    <3> QED
      BY <1>0, <1>N, <3>1, <3>2, <3>4, <3>5, <3>6 DEF CountInv
  <2> QED
    BY <1>0, <2>1, <2>2
<1>33. ASSUME NEW t \in Threads, Reopen(t)
      PROVE  CountInv(r, w)'
  BY <1>0, <1>33 DEF Reopen, Quiet, UseInv, CountInv
<1>34. ASSUME NEW t \in Threads, NEW m \in Sizes, NEW h \in {"no", "forever"},
             ReadStart(t, m, h)
      PROVE  CountInv(r, w)'
  BY <1>0, <1>R, <1>34 DEF ReadStart, Restarted, UseInv, CountInv, Aside
<1>35. ASSUME NEW t \in Threads, NEW m \in Sizes, WriteStart(t, m)
      PROVE  CountInv(r, w)'
  BY <1>0, <1>R, <1>35 DEF WriteStart, UseInv, CountInv, Aside
<1>36. ASSUME NEW t \in Threads, NEW h \in {"no", "timeout", "forever"}, PollStart(t, h)
      PROVE  CountInv(r, w)'
  BY <1>0, <1>R, <1>36 DEF PollStart, Restarted, UseInv, CountInv, Aside
<1>37. CASE Reap
  BY <1>0, <1>R, <1>37 DEF Reap, UseInv, CountInv, Aside
<1>38. CASE UNCHANGED vars
  BY <1>0, <1>R, <1>38 DEF vars, UseInv, CountInv, Aside
<1> QED
  BY <1>1, <1>2, <1>3, <1>4, <1>5, <1>6, <1>7, <1>8, <1>9, <1>10, <1>11, <1>12,
     <1>13, <1>14, <1>15, <1>16, <1>17, <1>18, <1>19, <1>20, <1>21, <1>22, <1>23,
     <1>24, <1>25, <1>26, <1>27, <1>28, <1>29, <1>30, <1>31, <1>32, <1>33, <1>34,
     <1>35, <1>36, <1>37, <1>38
  DEF Next, Step, ReadStep, WriteStep, PollStep

\* The steps in which a read ends for want of data.
LEMMA ReadEndsAt ==
  ASSUME pc \in [Threads -> Places], [Next]_vars, NEW r \in Threads,
         pc[r] \in {"tryEOF", "checkEOF", "check"}, pc'[r] = "idle",
         pc[r] = "checkEOF" => isEOF
  PROVE  \/ pc[r] = "tryEOF" /\ bufLen = 0
         \/ pc[r] \in {"checkEOF", "check"} /\ front = back /\ isEOF
<1> DEFINE Ends == \/ pc[r] = "tryEOF" /\ bufLen = 0
                   \/ pc[r] \in {"checkEOF", "check"} /\ front = back /\ isEOF
<1> USE DEF Go, Call
<1>1. ASSUME NEW t \in Threads, ReadStep(t)
      PROVE  Ends
  BY <1>1 DEF ReadStep, ReadLoop, ReadEnds, ReadTakes, ReadGivesUp, ReadChecks,
     ReadCopies, ReadAdvances
<1>2. ASSUME NEW t \in Threads, WriteStep(t)
      PROVE  Ends
  BY <1>2 DEF WriteStep, WriteTakes, WriteStores, WriteLinks, WriteDone,
     ChangeLocks, ChangeSends, ChangeDone
<1>3. ASSUME NEW t \in Threads, PollStep(t)
      PROVE  Ends
  BY <1>3 DEF PollStep, PollSelects, PollReleases, PollNotReady, PollMonitors,
     PollAcquires, PollSleeps, PollTallies, PollLeaves, PollCleans, PollCulls
<1>4. ASSUME NEW t \in Threads,
             PollFires(t) \/ AcquireFails(t) \/ ReopenDrains(t) \/ ReopenCounts(t)
      PROVE  Ends
  BY <1>4 DEF PollFires, AcquireFails, ReopenDrains, ReopenCounts
<1>5. ASSUME NEW t \in Threads, PollTimesOut(t) \/ Unwind(t) \/ Close(t) \/ Reopen(t)
      PROVE  Ends
  BY <1>5 DEF PollTimesOut, Unwind, Close, Reopen
<1>6. ASSUME NEW t \in Threads, NEW m \in Sizes, NEW h,
             ReadStart(t, m, h) \/ WriteStart(t, m)
      PROVE  Ends
  BY <1>6 DEF ReadStart, WriteStart
<1>7. ASSUME NEW t \in Threads, NEW h, PollStart(t, h)
      PROVE  Ends
  BY <1>7 DEF PollStart
<1>8. CASE Reap
  BY <1>8 DEF Reap
<1>9. CASE UNCHANGED vars
  BY <1>9 DEF vars
<1> QED
  BY <1>1, <1>2, <1>3, <1>4, <1>5, <1>6, <1>7, <1>8, <1>9 DEF Next, Step

\* One reader and one writer: the hypothesis under which the bytes are in order.
OneEach == (\E r : Readers = {r}) /\ (\E w : Writers = {w})

\* The invariant holds while nobody has been torn out of a blocked call and the pipe was
\* not started again with bytes in it or a reader at it.
LEMMA OrderInvariant ==
  ASSUME NEW r, NEW w, Readers = {r}, Writers = {w}
  PROVE  Spec => [](Orderly => OrderInv(r, w))
<1> DEFINE Inv == Orderly => OrderInv(r, w)
<1>1. Init => Inv
  <2> SUFFICES ASSUME Init PROVE OrderInv(r, w)
    OBVIOUS
  <2>0. r \in Threads /\ w \in Threads /\ PipeBufMax \in Nat \ {0}
    BY PipeAssumption DEF Threads
  <2>1. PipeInv
    BY InitPipeInv
  <2>2. Counted /\ ReopenInv
    BY InitCounted
  <2>3. Cell(0, 0) = 0
    BY <2>0 DEF Cell
  <2>4. RingInv(w)
    BY <2>0, <2>3 DEF Init, RingInv
  <2>5. CountInv(r, w)
    BY <2>0 DEF Init, CountInv, Held
  <2> QED
    BY <2>1, <2>2, <2>4, <2>5 DEF OrderInv
<1>2. PipeInv /\ PipeInv' /\ Inv /\ [Next]_vars => Inv'
  <2> SUFFICES ASSUME PipeInv, PipeInv', Inv, [Next]_vars, Orderly'
               PROVE  OrderInv(r, w)'
    OBVIOUS
  <2>1. Orderly /\ unwind = {} /\ "restart" \notin upset'
    BY HistoryGrows DEF Orderly
  <2>2. OrderInv(r, w) /\ Counted /\ ReopenInv /\ OneOpens
    BY <2>1 DEF OrderInv, OneOpens
  <2>3. Counted' /\ ReopenInv'
    BY <2>1, <2>2, CountedStep, ReopenStep
  <2>4. RingInv(w)' /\ CountInv(r, w)'
    BY <2>1, <2>2, RingStep, CountStep
  <2> QED
    BY <2>3, <2>4 DEF OrderInv
<1> HIDE DEF Inv
<1>3. Spec => []Inv
  BY <1>1, <1>2, PipeInvariant, PTL DEF Spec
<1> QED
  BY <1>3 DEF Inv

\* The reader gets the bytes in the order in which the writer wrote them, each once,
\* for every size of the buffer, until a blocked call is torn away or the pipe is started
\* again with bytes in it or a reader at it.
THEOREM PipeIsFIFO == ASSUME OneEach PROVE Spec => []BytesInOrder
<1>1. PICK r, w : Readers = {r} /\ Writers = {w}
  BY DEF OneEach
<1>2. (Orderly => OrderInv(r, w)) => BytesInOrder
  BY <1>1 DEF OrderInv, CountInv, BytesInOrder, Orderly
<1>3. Spec => [](Orderly => OrderInv(r, w))
  BY <1>1, OrderInvariant
<1> QED
  BY <1>2, <1>3, PTL

\* A read is told that the pipe has ended only when all that was written is read, as
\* long as the last writer has not left a full pipe either.
THEOREM EOFIsTheEnd == ASSUME OneEach PROVE Spec => EOFMeansDrained
<1>1. PICK r, w : Readers = {r} /\ Writers = {w}
  BY DEF OneEach
<1> DEFINE Inv == Orderly => OrderInv(r, w)
           Drained ==
             unwind = {} /\ upset = {} => \A t \in Readers : EndsRead(t) => sent = got
<1>2. PipeInv /\ Inv /\ [Next]_vars => [Drained]_vars
  <2> SUFFICES ASSUME PipeInv, OrderInv(r, w), unwind = {}, upset = {}, [Next]_vars,
                      pc[r] \in {"tryEOF", "checkEOF", "check"}, pc'[r] = "idle"
               PROVE  sent = got
    BY <1>1 DEF EndsRead, Orderly
  <2>0. /\ sent \in Nat /\ got \in Nat /\ bufLen \in Nat /\ bufAvailable \in Nat
        /\ pc \in [Threads -> Places] /\ r \in Threads /\ CountInv(r, w)
        /\ PipeBufMax \in Nat
    BY <1>1, PipeAssumption
    DEF OrderInv, PipeInv, PipeTypeOK, CallTypeOK, DataTypeOK, Threads
  <2>1. /\ sent - got + bufAvailable <= PipeBufMax
        /\ front = back <=> sent - got \in {0, PipeBufMax}
    BY <1>1, Fits
  <2>2. \/ pc[r] = "tryEOF" /\ bufLen = 0
        \/ pc[r] \in {"checkEOF", "check"} /\ front = back /\ isEOF
    <3>1. pc[r] = "checkEOF" => isEOF
      BY <2>0 DEF CountInv
    <3> QED
      BY <2>0, <3>1, ReadEndsAt
  <2> QED
    BY <2>0, <2>1, <2>2 DEF CountInv, Held
<1>3. Spec => []Inv
  BY <1>1, OrderInvariant
<1> HIDE DEF Inv
<1>4. Spec => [][Drained]_vars
  BY <1>2, <1>3, PipeInvariant, PTL DEF Spec
<1> QED
  BY <1>4 DEF EOFMeansDrained
=============================================================================
