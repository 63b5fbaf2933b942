---------------------------- MODULE MCDelegation ----------------------------
(* Delegation with a group of two requests of the full session, a later one   *)
(* of it, and one of a delegated session; and bounds on what comes from       *)
(* outside.                                                                   *)
EXTENDS Delegation, TLC

CONSTANTS
    r1, r2, r3, r4, m1,     \* model values
    MaxWakes,           \* bound on the wakes of a behaviour
    MaxFaults,          \* bound on crashes and failed commits
    MaxEvents           \* bound on them and what operators, members and clocks
                        \* do; one of these counts as two faults

VARIABLES wakes, outside, faults

Asks(parent, group, from, fallback, timed, leaf) ==
    [parent |-> parent, group |-> group, max |-> IF group = None THEN None ELSE 2,
     policy |-> IF group = None THEN None ELSE "fail_fast", member |-> from, fallback |-> fallback,
     timed |-> timed, leaf |-> leaf]

MCRequest ==
    (r1 :> Asks(Root, r1, m1, FALSE, TRUE, FALSE)) @@
    (r2 :> Asks(Root, r1, m1, TRUE, FALSE, TRUE)) @@
    (r3 :> Asks(r1, None, None, FALSE, FALSE, TRUE)) @@
    (r4 :> Asks(Root, None, m1, FALSE, FALSE, TRUE))

MCBatches == {<<r1, r2>>, <<r3>>, <<r4>>}

MCLimit == [m \in Members |-> 1]

MCInit == Init /\ wakes = 0 /\ outside = 0 /\ faults = 0

MCNext ==
    \/ Work /\ UNCHANGED <<wakes, outside, faults>>
    \/ Wakes /\ wakes < MaxWakes /\ wakes' = wakes + 1 /\ UNCHANGED <<outside, faults>>
    \/ Outside /\ 2 * outside + faults + 1 < MaxEvents
       /\ outside' = outside + 1 /\ UNCHANGED <<wakes, faults>>
    \/ Fault /\ faults < MaxFaults /\ 2 * outside + faults < MaxEvents
       /\ faults' = faults + 1 /\ UNCHANGED <<wakes, outside>>

MCSpec == MCInit /\ [][MCNext]_<<vars, wakes, outside, faults>>
=============================================================================
