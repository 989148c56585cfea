---------------------------- MODULE MCThreadLife ----------------------------
(***************************************************************************)
(* Small instances of ThreadLife.                                          *)
(***************************************************************************)
EXTENDS ThreadLife

CONSTANTS a, b, c

\* a runs at the start, b waits, c is created later.
MCBootReady == [i \in Priorities |-> <<b>>]

MCPriority == [t \in Threads |-> 0]

\* Both a and b have a pointer to c, and a has one to b.
MCOwners == {<<a, b>>, <<a, c>>, <<b, c>>}
=============================================================================
