------------------------- MODULE MCLogicalTurnStore -------------------------
(* LogicalTurnStore on a small instance. *)
EXTENDS LogicalTurnStore
=============================================================================
