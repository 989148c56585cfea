------------------------- MODULE CountingSemaphore -------------------------
(***************************************************************************)
(* What a counting semaphore promises its callers: units are granted one   *)
(* request at a time, all the units of a request at once and only when     *)
(* that many are free, and a call that fails takes nothing.                *)
(***************************************************************************)
EXTENDS Integers

CONSTANTS Threads, Initial, Amounts

VARIABLES
  value,   \* units that are free
  held,    \* units each thread has been granted and has not given back
  want     \* units each thread is asking for; 0 when it is not

vars == <<value, held, want>>

Init ==
  /\ value = Initial
  /\ held = [t \in Threads |-> 0]
  /\ want = [t \in Threads |-> 0]

Ask(t, n) ==
  /\ want[t] = 0
  /\ want' = [want EXCEPT ![t] = n]
  /\ UNCHANGED <<value, held>>

Grant(t) ==
  /\ want[t] > 0 /\ want[t] <= value
  /\ value' = value - want[t]
  /\ held' = [held EXCEPT ![t] = @ + want[t]]
  /\ want' = [want EXCEPT ![t] = 0]

\* A timeout or another interruption.
Fail(t) ==
  /\ want[t] > 0
  /\ want' = [want EXCEPT ![t] = 0]
  /\ UNCHANGED <<value, held>>

GiveBack(t, n) ==
  /\ n <= held[t]
  /\ value' = value + n
  /\ held' = [held EXCEPT ![t] = @ - n]
  /\ UNCHANGED want

\* New units, from a thread that signals rather than locks.
Post(n) ==
  /\ value' = value + n
  /\ UNCHANGED <<held, want>>

Next ==
  \/ \E t \in Threads : Grant(t) \/ Fail(t)
  \/ \E t \in Threads, n \in Amounts : Ask(t, n) \/ GiveBack(t, n)
  \/ \E n \in Amounts : Post(n)

Spec == Init /\ [][Next]_vars
=============================================================================
