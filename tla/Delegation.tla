----------------------------- MODULE Delegation -----------------------------
(* Delegated sessions (core-engine/src/delegation.rs, brain_runtime.rs and    *)
(* sessions.rs; core-persistence/src/repos/worker_runs.rs), on top of the     *)
(* worker pool.                                                               *)
(*                                                                            *)
(* A call of the engine runs to its end before the next one starts, but it is *)
(* a series of commits, and the process may die, or the store fail, between   *)
(* any two.  `todo` is what the call in progress has still to do: each entry  *)
(* makes at most one commit and puts what follows from it in its own place.   *)
(* The registry of sessions is in memory (`session`) and is read back from    *)
(* the store (`saved`) at a restart.                                          *)
(*                                                                            *)
(* A run names its delegated session as well: the ids of both are made of the *)
(* parent's wake and the index of the action.  The wakes of a session come    *)
(* from the dispatcher (module WakeDispatch), so here an active session may   *)
(* be woken at any time.                                                      *)
EXTENDS WorkerPool, Functions

CONSTANTS
    Root,           \* a full session, configured for the service
    Request,        \* the delegation request of each run, see Requests
    Batches,        \* the requests that come in one action batch, in order
    Outcomes        \* the statuses of completion packets that brains deliver

Sessions == Runs \cup {Root}

\* parent: the session that asks; group: its fan-out group, or None; max and
\* policy: the group's max concurrency and failure policy as this request states
\* them, or None; member: the member whose capacity it asks for, or None;
\* fallback: does it run without a lease when there is none; timed: has it a
\* max_duration_ms; leaf: is its max_delegation_depth zero.
Requests == [parent : Sessions, group : Runs \cup {None}, max : Nat \cup {None},
             policy : {"fail_soft", "fail_fast", None}, member : Members \cup {None},
             fallback : BOOLEAN, timed : BOOLEAN, leaf : BOOLEAN]

ASSUME DelegationAssumption ==
    /\ Root \notin Runs \cup {None}
    /\ Request \in [Runs -> Requests]
    /\ \A r \in Runs : Request[r].parent # r
    /\ Batches \subseteq Seq(Runs)
    /\ Outcomes \subseteq {"completed", "failed", "blocked", "exhausted"}

VARIABLES
    phase,          \* of the service: "down", "booting", "up" or "closing"
    todo,           \* what the call in progress has still to do
    session,        \* the registry: "none", "active" or "archived"
    saved,          \* the sessions table
    run,            \* the worker_runs table
    packets,        \* the completion_packets table, as statuses by session
    brain,          \* the wake of each session: "idle", "woken" or "started"
    overdue         \* timed sessions whose duration has passed

engineVars == <<phase, todo, session, saved, run, packets, brain, overdue>>

vars == <<poolVars, engineVars>>

SessionStates == {"none", "active", "archived"}

RunStatuses == Terminal \cup
    {"none", "requested", "session_created", "wake_requested", "running", "checkpoint_waiting"}

RunRecords == [status : RunStatuses, item : Runs \cup {None}, lease : Runs \cup {None}]

NoRun == [status |-> "none", item |-> None, lease |-> None]

Task(op, s, st, of) == [op |-> op, session |-> s, status |-> st, of |-> of]

Operations == {"spawn", "claim", "open", "save", "status", "packet", "outcome", "release",
               "fail_fast", "conclude", "archive", "cancel", "finished", "close", "orphaned",
               "orphans", "expired", "shutdown"}

Tasks == [op : Operations, session : Sessions, status : RunStatuses, of : SUBSET Sessions]

TypeOK ==
    /\ PoolTypeOK
    /\ phase \in {"down", "booting", "up", "closing"}
    /\ todo \in Seq(Tasks)
    /\ session \in [Sessions -> SessionStates]
    /\ saved \in [Sessions -> SessionStates]
    /\ run \in [Runs -> RunRecords]
    /\ packets \in [Runs -> SUBSET Outcomes]
    /\ brain \in [Sessions -> {"idle", "woken", "started"}]
    /\ overdue \subseteq Runs

Init ==
    /\ PoolInit
    /\ phase = "up"
    /\ todo = <<>>
    /\ session = [s \in Sessions |-> IF s = Root THEN "active" ELSE "none"]
    /\ saved = session
    /\ run = [r \in Runs |-> NoRun]
    /\ packets = [r \in Runs |-> {}]
    /\ brain = [s \in Sessions |-> "idle"]
    /\ overdue = {}

Ready == phase = "up" /\ todo = <<>>

Ended(r) == run[r].status \in Terminal

ChildrenOf(s) == {r \in Runs : Request[r].parent = s /\ session[r] # "none"}

Active == {s \in Sessions : session[s] = "active"}

\* The call in progress is at an entry of this kind.
At(op) == todo # <<>> /\ Head(todo).op = op

Then(tasks) == todo' = tasks \o Tail(todo)

\* An error: the call returns, and what it has committed stays.
Fails == todo' = <<>>

\* Archived in the registry, then saved: one commit.
Archived(s) ==
    /\ session' = [session EXCEPT ![s] = "archived"]
    /\ saved' = [saved EXCEPT ![s] = "archived"]

Cancelling(of, st) == IF of = {} THEN <<>> ELSE <<Task("cancel", Root, st, of)>>

\* A loop over the sessions of the entry in todo, without s from now on.
Rest(s) ==
    LET task == Head(todo) IN
    IF task.of = {s} THEN <<>> ELSE <<[task EXCEPT !.of = @ \ {s}]>>

MutantAnyOrder(s, of) == s \in of

\* all_sessions is in the order of creation: a parent comes before its children.
InOrder(s, of) == s \in of /\ (s \in Runs => Request[s].parent \notin of)

-----------------------------------------------------------------------------
(* spawn_delegated_workers, for one request of a batch.                       *)

Spawn ==
    /\ At("spawn")
    /\ LET r == Head(todo).session
           m == Request[r].member
           direct == IF m = None THEN TRUE ELSE ~HasSlot(m) /\ Request[r].fallback
       IN
       \/ run[r].status # "none" /\ Then(<<>>) /\ UNCHANGED poolVars
       \/ /\ run[r].status = "none" /\ direct
          /\ Then(<<Task("open", r, "none", {})>>) /\ UNCHANGED poolVars
       \/ /\ run[r].status = "none" /\ ~direct /\ ~HasSlot(m)
          /\ Fails /\ UNCHANGED poolVars
       \/ /\ run[r].status = "none" /\ m # None /\ HasSlot(m)
          /\ \/ CreateItem(r) /\ Then(<<Task("claim", r, "none", {})>>)
             \/ item[r].status # "none" /\ Fails /\ UNCHANGED poolVars
    /\ UNCHANGED <<phase, session, saved, run, packets, brain, overdue>>

(* The claim follows the creation of the item in the same call, so the slot   *)
(* is still free; it takes the oldest pending item, whichever that is.        *)
ClaimItem ==
    /\ At("claim")
    /\ LET r == Head(todo).session IN
       ClaimNext(Request[r].member, r, r) /\ Then(<<Task("open", r, "none", {r})>>)
    /\ UNCHANGED <<phase, session, saved, run, packets, brain, overdue>>

MutantRecordsOwnItem(r, claimed) ==
    [status |-> "requested", item |-> IF claimed THEN r ELSE None,
     lease |-> IF claimed THEN r ELSE None]

\* The new run records what its claim returned.
RunRecord(r, claimed) ==
    [status |-> "requested", item |-> IF claimed THEN lease[r].item ELSE None,
     lease |-> IF claimed THEN r ELSE None]

(* The session is created in the registry, then the run is saved.             *)
Open ==
    /\ At("open")
    /\ LET r == Head(todo).session IN
       IF session[r] # "none"
       THEN Fails /\ UNCHANGED <<session, run>>
       ELSE /\ session' = [session EXCEPT ![r] = "active"]
            /\ run' = [run EXCEPT ![r] = RunRecord(r, Head(todo).of # {})]
            /\ Then(<<Task("save", r, "none", {})>>)
    /\ UNCHANGED <<poolVars, phase, saved, packets, brain, overdue>>

SaveSession ==
    /\ At("save")
    /\ LET r == Head(todo).session IN
       /\ saved' = [saved EXCEPT ![r] = "active"]
       /\ Then(<<Task("status", r, "session_created", {}),
                 Task("status", r, "wake_requested", {})>>)
    /\ UNCHANGED <<poolVars, phase, session, run, packets, brain, overdue>>

\* UPDATE worker_runs SET status: no condition on the status before.
StatusSet(r, st) ==
    run' = IF run[r].status = "none" THEN run ELSE [run EXCEPT ![r].status = st]

SetStatus ==
    /\ At("status")
    /\ StatusSet(Head(todo).session, Head(todo).status)
    /\ Then(<<>>)
    /\ UNCHANGED <<poolVars, phase, session, saved, packets, brain, overdue>>

-----------------------------------------------------------------------------
(* A completion packet, and what execute_brain_actions does after it.         *)

SavePacket ==
    /\ At("packet")
    /\ LET r == Head(todo).session  o == Head(todo).status IN
       /\ packets' = [packets EXCEPT ![r] = @ \cup {o}]
       /\ Then(<<Task("outcome", r, o, {})>>)
    /\ UNCHANGED <<poolVars, phase, session, saved, run, brain, overdue>>

SetOutcome ==
    /\ At("outcome")
    /\ LET r == Head(todo).session  o == Head(todo).status IN
       StatusSet(r, o) /\ Then(<<Task("release", r, o, {})>>)
    /\ UNCHANGED <<poolVars, phase, session, saved, packets, brain, overdue>>

ReleaseLease ==
    /\ At("release")
    /\ LET r == Head(todo).session  o == Head(todo).status  l == run[r].lease IN
       /\ IF l # None /\ CanComplete(l, l) THEN Complete(l, l, o) ELSE UNCHANGED poolVars
       /\ Then(<<Task("fail_fast", r, o, {})>>)
    /\ UNCHANGED <<phase, session, saved, run, packets, brain, overdue>>

\* The siblings that a failure in a fail-fast group stops.
Siblings(r) ==
    {q \in Runs \ {r} :
        /\ run[q].status # "none" /\ ~Ended(q) /\ session[q] # "none"
        /\ Request[q].parent = Request[r].parent
        /\ Request[q].group = Request[r].group}

ApplyFailurePolicy ==
    /\ At("fail_fast")
    /\ LET r == Head(todo).session
           stop == /\ Head(todo).status # "completed" /\ run[r].status # "none"
                   /\ Request[r].policy = "fail_fast" /\ Request[r].group # None
       IN Then(Cancelling(IF stop THEN Siblings(r) ELSE {}, "cancelled")
               \o <<Task("conclude", r, "none", {})>>)
    /\ UNCHANGED <<poolVars, phase, session, saved, run, packets, brain, overdue>>

Conclude ==
    /\ At("conclude")
    /\ LET r == Head(todo).session IN
       Then(IF session[r] = "active" /\ Ended(r) THEN <<Task("archive", r, "none", {})>> ELSE <<>>)
    /\ UNCHANGED <<poolVars, phase, session, saved, run, packets, brain, overdue>>

-----------------------------------------------------------------------------
(* Archival, cancellation and the clean-ups.                                  *)

(* archive_session: a delegated session marks its run, any other one cancels  *)
(* its children.                                                              *)
Archive ==
    /\ At("archive")
    /\ LET s == Head(todo).session IN
       /\ Archived(s)
       /\ Then(IF s = Root THEN Cancelling(ChildrenOf(s), "cancelled")
               ELSE IF Ended(s) THEN <<>> ELSE <<Task("status", s, "cancelled", {})>>)
    /\ UNCHANGED <<poolVars, phase, run, packets, brain, overdue>>

MutantMarksFirst ==
    /\ At("cancel")
    /\ \E r \in Head(todo).of :
         IF Ended(r) THEN Then(Rest(r)) /\ UNCHANGED run
         ELSE /\ StatusSet(r, Head(todo).status)
              /\ Then(<<Task("archive", r, "none", {})>> \o Rest(r))
    /\ UNCHANGED <<poolVars, phase, session, saved, packets, brain, overdue>>

(* archive_delegated_session_if_nonterminal.                                  *)
CancelNext ==
    /\ At("cancel")
    /\ \E r \in Head(todo).of :
         IF Ended(r) THEN Then(Rest(r)) /\ UNCHANGED <<session, saved>>
         ELSE /\ Archived(r)
              /\ Then(<<Task("status", r, Head(todo).status, {})>> \o Rest(r))
    /\ UNCHANGED <<poolVars, phase, run, packets, brain, overdue>>

(* archive_terminal_delegated_sessions.                                       *)
Finished ==
    /\ At("finished")
    /\ LET of == {r \in Runs \cap Active : Ended(r)} IN
       Then(IF of = {} THEN <<>> ELSE <<Task("close", Root, "none", of)>>)
    /\ UNCHANGED <<poolVars, phase, session, saved, run, packets, brain, overdue>>

CloseNext ==
    /\ At("close")
    /\ \E r \in Head(todo).of : Archived(r) /\ Then(Rest(r))
    /\ UNCHANGED <<poolVars, phase, run, packets, brain, overdue>>

(* cleanup_orphaned_delegated_sessions.                                       *)
Orphaned ==
    /\ At("orphaned")
    /\ LET of == Runs \cap Active IN
       Then(IF of = {} THEN <<>> ELSE <<Task("orphans", Root, "none", of)>>)
    /\ UNCHANGED <<poolVars, phase, session, saved, run, packets, brain, overdue>>

OrphanNext ==
    /\ At("orphans")
    /\ \E r \in Runs :
         /\ InOrder(r, Head(todo).of)
         /\ LET parent == session[Request[r].parent] IN
            Then(Cancelling(IF parent = "active" THEN {} ELSE {r},
                            IF parent = "archived" THEN "cancelled" ELSE "expired") \o Rest(r))
    /\ UNCHANGED <<poolVars, phase, session, saved, run, packets, brain, overdue>>

(* expire_delegated_sessions_at.                                              *)
Expired ==
    /\ At("expired")
    /\ Then(Cancelling(Runs \cap Active \cap overdue, "expired"))
    /\ UNCHANGED <<poolVars, phase, session, saved, run, packets, brain, overdue>>

ShutdownNext ==
    /\ At("shutdown")
    /\ \E s \in Sessions :
         /\ InOrder(s, Head(todo).of)
         /\ Then((IF session[s] = "archived" THEN <<>> ELSE <<Task("archive", s, "none", {})>>)
                 \o Rest(s))
    /\ UNCHANGED <<poolVars, phase, session, saved, run, packets, brain, overdue>>

Step ==
    \/ Spawn \/ ClaimItem \/ Open \/ SaveSession \/ SetStatus
    \/ SavePacket \/ SetOutcome \/ ReleaseLease \/ ApplyFailurePolicy \/ Conclude
    \/ Archive \/ CancelNext \/ Finished \/ CloseNext \/ Orphaned \/ OrphanNext
    \/ Expired \/ ShutdownNext

-----------------------------------------------------------------------------
(* Brains.                                                                    *)

Wake(s) ==
    /\ Ready /\ session[s] = "active" /\ brain[s] = "idle"
    /\ brain' = [brain EXCEPT ![s] = "woken"]
    /\ UNCHANGED <<poolVars, phase, todo, session, saved, run, packets, overdue>>

(* submit_brain_event with Started: the event comes when the provider has     *)
(* answered, and is applied whatever has happened to the session since.       *)
Started(s) ==
    /\ Ready /\ brain[s] = "woken"
    /\ brain' = [brain EXCEPT ![s] = "started"]
    /\ IF s \in Runs THEN StatusSet(s, "running") ELSE UNCHANGED run
    /\ UNCHANGED <<poolVars, phase, todo, session, saved, packets, overdue>>

WakeEnds(s) ==
    /\ Ready /\ brain[s] # "idle"
    /\ brain' = [brain EXCEPT ![s] = "idle"]
    /\ UNCHANGED <<poolVars, phase, todo, session, saved, run, packets, overdue>>

\* validate_fan_out_invariants: the requests of a group that state a policy or a
\* limit agree on it, and the limit is met.
FanOutAdmitted(batch) ==
    \A r \in Range(batch) : Request[r].group # None =>
        LET group == {q \in Range(batch) : Request[q].group = Request[r].group}
            Agree(x, y) == x = None \/ y = None \/ x = y
        IN
        /\ \A q \in group : /\ Agree(Request[q].policy, Request[r].policy)
                            /\ Agree(Request[q].max, Request[r].max)
        /\ Request[r].max # None => Cardinality(group) <= Request[r].max

\* validate_delegation_invariants; o is the status of the batch's completion
\* packet, or "none".
DelegationAdmitted(s, batch, o) ==
    /\ batch # <<>> /\ s \in Runs => ~Request[s].leaf
    /\ o # "none" => ~Ended(s)

(* execute_brain_actions.  The batch is one of requests, or a completion      *)
(* packet of a delegated session.                                             *)
Submit(s, batch, o) ==
    /\ Ready /\ brain[s] = "started" /\ session[s] = "active"
    /\ \A r \in Range(batch) : Request[r].parent = s
    /\ DelegationAdmitted(s, batch, o)
    /\ FanOutAdmitted(batch)
    /\ todo' = [k \in DOMAIN batch |-> Task("spawn", batch[k], "none", {})]
               \o (IF o = "none" THEN <<>> ELSE <<Task("packet", s, o, {})>>)
    /\ brain' = [brain EXCEPT ![s] = "idle"]
    /\ UNCHANGED <<poolVars, phase, session, saved, run, packets, overdue>>

Brains ==
    \/ \E s \in Sessions : Started(s) \/ WakeEnds(s)
    \/ \E s \in Sessions, batch \in Batches : Submit(s, batch, "none")
    \/ \E r \in Runs, o \in Outcomes : Submit(r, <<>>, o)

-----------------------------------------------------------------------------
(* The operator, the pool's members and the clock.                            *)

Begins(tasks) == Ready /\ todo' = tasks

RequestCheckpoint(r) ==
    session[r] = "active" /\ Begins(<<Task("status", r, "checkpoint_waiting", {})>>)

CancelDelegatedSession(r) ==
    session[r] # "none" /\ ~Ended(r) /\ Begins(Cancelling({r}, "cancelled"))

DrainDelegatedSessions(of) ==
    of \cap Active # {} /\ Begins(Cancelling(of \cap Active, "cancelled"))

ArchiveSession(s) ==
    session[s] # "none" /\ Begins(<<Task("archive", s, "none", {})>>)

CleanupDelegatedResources ==
    Begins(<<Task("finished", Root, "none", {}), Task("orphaned", Root, "none", {}),
             Task("expired", Root, "none", {})>>)

Controls ==
    /\ \/ \E r \in Runs : RequestCheckpoint(r) \/ CancelDelegatedSession(r)
       \/ DrainDelegatedSessions(Runs)
       \/ \E s \in Sessions : DrainDelegatedSessions(ChildrenOf(s)) \/ ArchiveSession(s)
       \/ CleanupDelegatedResources
    /\ UNCHANGED <<poolVars, phase, session, saved, run, packets, brain, overdue>>

(* shutdown_with_timeout, and the service gone after it.                      *)
Shutdown ==
    /\ Begins(IF Active = {} THEN <<>> ELSE <<Task("shutdown", Root, "none", Active)>>)
    /\ phase' = "closing"
    /\ UNCHANGED <<poolVars, session, saved, run, packets, brain, overdue>>

(* The registry is lost with the process; the next one reads the table.       *)
Gone ==
    /\ phase' = "down" /\ todo' = <<>>
    /\ session' = saved
    /\ brain' = [s \in Sessions |-> "idle"]
    /\ UNCHANGED <<poolVars, saved, run, packets, overdue>>

Closed == phase = "closing" /\ todo = <<>> /\ Gone

(* CoreEngine::initialize.                                                    *)
Boot ==
    /\ phase = "down"
    /\ phase' = "booting"
    /\ todo' = <<Task("orphaned", Root, "none", {}), Task("expired", Root, "none", {})>>
    /\ UNCHANGED <<poolVars, session, saved, run, packets, brain, overdue>>

Booted ==
    /\ phase = "booting" /\ todo = <<>>
    /\ phase' = "up"
    /\ UNCHANGED <<poolVars, todo, session, saved, run, packets, brain, overdue>>

(* ensure_configured_session: a configured session is active again.           *)
EnsureConfigured ==
    /\ Ready /\ session[Root] = "archived"
    /\ session' = [session EXCEPT ![Root] = "active"]
    /\ saved' = [saved EXCEPT ![Root] = "active"]
    /\ UNCHANGED <<poolVars, phase, todo, run, packets, brain, overdue>>

DurationPasses(r) ==
    /\ Request[r].timed /\ session[r] = "active"
    /\ overdue' = overdue \cup {r}
    /\ UNCHANGED <<poolVars, phase, todo, session, saved, run, packets, brain>>

Register(m) == Ready /\ UpsertMember(m) /\ UNCHANGED engineVars

PoolCalls ==
    /\ Ready
    /\ \/ \E m \in Members, s \in MemberStatuses : Heartbeat(m, s)
       \/ \E stale \in SUBSET Runs : ExpireClaims(stale)
    /\ UNCHANGED engineVars

-----------------------------------------------------------------------------
(* Faults.                                                                    *)

Crash == phase # "down" /\ Gone

\* What the entry that fails has already done to the registry.
Unsaved(s) ==
    LET task == Head(todo) IN
    \/ task.op = "open" /\ s = task.session /\ session[s] = "none"
    \/ task.op = "archive" /\ s = task.session
    \/ task.op = "cancel" /\ s \in task.of /\ ~Ended(s)
    \/ task.op = "close" /\ s \in task.of

(* The store refuses a commit: the call returns with an error, and a service  *)
(* that is starting or closing is gone.                                       *)
StoreFails ==
    /\ todo # <<>>
    /\ \/ phase # "up" /\ Gone
       \/ /\ phase = "up" /\ Fails
          /\ \/ UNCHANGED session
             \/ \E s \in Sessions :
                  /\ Unsaved(s)
                  /\ session' = [session EXCEPT ![s] =
                                   IF Head(todo).op = "open" THEN "active" ELSE "archived"]
          /\ UNCHANGED <<poolVars, phase, saved, run, packets, brain, overdue>>

-----------------------------------------------------------------------------
Work ==
    \/ Step \/ Brains \/ Boot \/ Booted \/ Closed \/ EnsureConfigured
    \/ \E m \in Members : Register(m)

Outside == Controls \/ Shutdown \/ PoolCalls \/ \E r \in Runs : DurationPasses(r)

Fault == Crash \/ StoreFails

Wakes == \E s \in Sessions : Wake(s)

Next == Work \/ Wakes \/ Outside \/ Fault

Spec == Init /\ [][Next]_vars

-----------------------------------------------------------------------------
(* Properties.                                                                *)

(* Two runs never record the same work item, and a run's lease is its own and *)
(* holds the item it recorded: an item left pending by a crash is claimed for *)
(* the next delegation, whose own item then waits for a third one, and still  *)
(* no item is worked on twice.                                                *)
OneRunPerItem ==
    \A r \in Runs : run[r].lease # None =>
        /\ run[r].lease = r
        /\ lease[r].status # "none" /\ lease[r].item = run[r].item
        /\ \A q \in Runs \ {r} : run[q].lease # None => run[q].item # run[r].item

(* A terminal status is true, whatever crash falls between the commits: a run *)
(* has an outcome only when its brain delivered a packet with it (clean-ups   *)
(* never make one up), and is cancelled or expired only when its session is   *)
(* archived for good, in the store as well.                                   *)
StatusIsTrue ==
    \A r \in Runs : Ended(r) =>
        IF run[r].status \in {"cancelled", "expired"} THEN saved[r] = "archived"
        ELSE run[r].status \in packets[r]

(* The sweep for orphans is complete, at any depth and wherever the process   *)
(* before it stopped: when it hands over to the expiry of sessions, at a      *)
(* start of the engine or in a clean-up, no delegated session with work to do *)
(* has a parent that is archived or unknown.                                  *)
SweepLeavesNoOrphan ==
    At("expired") =>
        \A r \in Runs : session[r] = "active" /\ ~Ended(r) =>
            session[Request[r].parent] = "active"
=============================================================================
