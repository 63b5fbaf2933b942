------------------------ MODULE MCLogicalTurnRuntime ------------------------
(***************************************************************************)
(* Model checking the service around the turn store.                       *)
(***************************************************************************)
EXTENDS LogicalTurnRuntime

CONSTANTS t1, t2, s1, k1
=============================================================================
