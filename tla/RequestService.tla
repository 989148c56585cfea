--------------------------- MODULE RequestService ---------------------------
(***************************************************************************)
(* What a request queue promises its callers: a call returns an answer     *)
(* only after its request has been executed since the call was made.  One  *)
(* execution may serve several calls that ask for the same thing.          *)
(***************************************************************************)
CONSTANT Clients   \* threads that make calls

VARIABLE call   \* "no", "asked" or "served" for each client

Init == call = [t \in Clients |-> "no"]

Ask(t) ==
  /\ call[t] = "no"
  /\ call' = [call EXCEPT ![t] = "asked"]

Serve(S) ==
  /\ \A t \in S : call[t] = "asked"
  /\ call' = [t \in Clients |-> IF t \in S THEN "served" ELSE call[t]]

Return(t) ==
  /\ call[t] = "served"
  /\ call' = [call EXCEPT ![t] = "no"]

Next ==
  \/ \E t \in Clients : Ask(t) \/ Return(t)
  \/ \E S \in SUBSET Clients : Serve(S)

Spec == Init /\ [][Next]_call
=============================================================================
