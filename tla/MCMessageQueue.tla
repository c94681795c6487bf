--------------------------- MODULE MCMessageQueue ---------------------------
(***************************************************************************)
(* MessageQueue for TLC: two queues, one with messages that are too heavy  *)
(* for any pass, one with messages that always yield.                      *)
(***************************************************************************)
EXTENDS MessageQueue

CONSTANTS qa, qb

\* With ServiceWeight = 6 a pass leaves 2 for a message.
Light == [weight |-> 2, result |-> "ok"]
Heavy == [weight |-> 3, result |-> "ok"]
Stuck == [weight |-> 0, result |-> "yield"]

KindsOf == [q \in Queues |-> IF q = qa THEN {Light, Heavy} ELSE {Light, Stuck}]
=============================================================================
