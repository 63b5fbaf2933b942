------------------------- MODULE MCBufferedBrainRun -------------------------
(* Small instances of BufferedBrainRun. *)
EXTENDS BufferedBrainRun

CONSTANTS c1, c2, ok, bad
=============================================================================
