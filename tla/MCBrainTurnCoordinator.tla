----------------------- MODULE MCBrainTurnCoordinator -----------------------
(* Small instances of BrainTurnCoordinator. *)
EXTENDS BrainTurnCoordinator, TLC

CONSTANTS c1, c2, c3, ok, bad

(* No action names a call. *)
CallSymmetry == Permutations(Calls)
=============================================================================
