---------------------------- MODULE MCSemaphore ----------------------------
(***************************************************************************)
(* Small instances of Semaphore: one priority, everybody present at the    *)
(* start.                                                                  *)
(***************************************************************************)
EXTENDS Semaphore

CONSTANTS a, b, c

MCPriority == [t \in Threads |-> 0]

\* a runs at the start and the others wait behind it.
MCBootTwo == [i \in Priorities |-> <<b>>]
MCBootThree == [i \in Priorities |-> <<b, c>>]
=============================================================================
