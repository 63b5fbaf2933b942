-------------------------- MODULE MCExternalTurns --------------------------
(* ExternalTurns with two service processes, one after the other or side by  *)
(* side, and a bound on how often something goes wrong in a behaviour.       *)
EXTENDS ExternalTurns, TLC

CONSTANTS
    MaxFaults,          \* bound on the faults of a behaviour and the requests to
                        \* the operator, taken together
    ClocksCount         \* does a timeout that fires count as one

VARIABLE faults

MCInit == Init /\ faults = 0

Asked == Cardinality({i \in Interactions : request[i].turn # NoMessage})

MCNext ==
    \/ /\ Work \/ (~ClocksCount /\ Clock)
       /\ faults + Asked' <= MaxFaults /\ UNCHANGED faults
    \/ /\ Fault \/ (ClocksCount /\ Clock)
       /\ faults + Asked < MaxFaults /\ faults' = faults + 1

MCSpec == MCInit /\ [][MCNext]_<<vars, faults>>

MCFairSpec == MCSpec /\ Fairness

ExternalSymmetry ==
    {p @@ q : p \in Permutations(Controllers), q \in Permutations(Messages)}
=============================================================================
