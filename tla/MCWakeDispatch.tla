---------------------------- MODULE MCWakeDispatch ----------------------------
(* Small instances of WakeDispatch. *)
EXTENDS WakeDispatch

CONSTANTS s1, s2, f1, f2, r1, d1, d2, m1, m2
=============================================================================
