---------------------------- MODULE TurnLifecycle ---------------------------
(***************************************************************************)
(* What the logical turn store promises its callers, without continuation  *)
(* records, tickets, fences, operations or an outbox: a turn is worked on  *)
(* by one owner at a time, no owner ever gets a turn twice, progress is    *)
(* made by the owner only and one step at a time, a restart loses owners   *)
(* but no progress, and an ended turn is never touched again.              *)
(***************************************************************************)
EXTENDS Naturals

CONSTANTS
    Turns,
    Owners,  \* execution epochs
    None

VARIABLES
    status,    \* what the turn is waiting for
    owner,     \* who works on it
    progress,  \* how many continuations were committed
    spent      \* the owners that were given a turn

lifecycleVars == <<status, owner, progress, spent>>

Statuses == {"absent", "waiting", "owned", "blocked", "ended"}

Init ==
    /\ status = [t \in Turns |-> "absent"]
    /\ owner = [t \in Turns |-> None]
    /\ progress = [t \in Turns |-> 0]
    /\ spent = {}

Move(t, to) ==
    /\ status' = [status EXCEPT ![t] = to]
    /\ owner' = [owner EXCEPT ![t] = None]
    /\ UNCHANGED spent

Admit(t) ==
    /\ status[t] = "absent"
    /\ Move(t, "waiting")
    /\ UNCHANGED progress

(* A new owner takes the turn. *)
Take(t) ==
    /\ status[t] = "waiting"
    /\ owner'[t] \in Owners \ spent
    /\ status' = [status EXCEPT ![t] = "owned"]
    /\ owner' = [owner EXCEPT ![t] = owner'[t]]
    /\ spent' = spent \cup {owner'[t]}
    /\ UNCHANGED progress

(* The owner hands the turn back, to run on or to wait for an operator. *)
Commit(t) ==
    /\ status[t] = "owned"
    /\ \E to \in {"waiting", "blocked"} : Move(t, to)
    /\ progress' = [progress EXCEPT ![t] = progress[t] + 1]

Unblock(t) ==
    /\ status[t] = "blocked"
    /\ Move(t, "waiting")
    /\ UNCHANGED progress

(* The owner finishes the turn, or anyone cancels it. *)
End(t) ==
    /\ status[t] \in {"waiting", "owned", "blocked"}
    /\ Move(t, "ended")
    /\ UNCHANGED progress

(* A restart takes every owned turn from its owner. *)
Restart ==
    /\ status' \in [Turns -> Statuses]
    /\ \A t \in Turns :
          IF status[t] = "owned" THEN status'[t] \in {"waiting", "blocked"}
          ELSE status'[t] = status[t]
    /\ owner' = [t \in Turns |-> None]
    /\ UNCHANGED <<progress, spent>>

Next ==
    \/ \E t \in Turns :
          \/ Admit(t)
          \/ Take(t)
          \/ Commit(t)
          \/ Unblock(t)
          \/ End(t)
    \/ Restart

Spec == Init /\ [][Next]_lifecycleVars
=============================================================================
