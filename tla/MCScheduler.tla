---------------------------- MODULE MCScheduler ----------------------------
(***************************************************************************)
(* Small instances of PerProcessorScheduler.                               *)
(***************************************************************************)
EXTENDS PerProcessorScheduler

CONSTANTS a, b, c

\* a runs at the start, b waits, c is created later.
MCBootReady == [i \in Priorities |-> IF i = 0 THEN <<b>> ELSE <<>>]

\* One priority, as in the kernel: nothing calls setPriority.
MCPriority == [t \in Threads |-> 0]

\* a, which sends the signals, has the lower priority.
MCTwoPriority == [t \in Threads |-> IF t = a THEN 1 ELSE 0]
=============================================================================
