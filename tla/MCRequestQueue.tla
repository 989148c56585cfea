--------------------------- MODULE MCRequestQueue ---------------------------
(***************************************************************************)
(* Small instances of RequestQueue.                                        *)
(***************************************************************************)
EXTENDS RequestQueue

CONSTANTS c, d, h

\* Two priorities are used, and the last one is not, as in the kernel.
MCPriority == [w \in {"read", "log", "sync"} |-> IF w = "read" THEN 0 ELSE 1]

\* c and h ask for the same thing, and so do d and h.
MCAsks == {<<c, "read">>, <<h, "read">>, <<d, "log">>, <<h, "log">>, <<c, "sync">>}

\* d may be killed while it waits for a request that it shares, and c asked to unwind
\* while it waits for one of its own.
MCMortal == {<<d, "log">>}

MCUnwinding == {<<c, "sync">>}
=============================================================================
