------------------------------ MODULE MCScheduler ------------------------------
(* Small instances of Scheduler. *)
EXTENDS Scheduler

CONSTANTS w1, w2, h1, h2
=============================================================================
