------------------------- MODULE LogicalTurnRuntime -------------------------
(***************************************************************************)
(* The running service around the logical turn store: the wake hosts of    *)
(* the TypeScript service, the native bridge with its active_logical_wakes *)
(* map and its registry of buffered provider runs, the engine operations   *)
(* they call, and the crash and restart of the whole process.              *)
(*                                                                         *)
(* A bridge call runs to its end on the Node main thread, so two calls     *)
(* never overlap; a call that commits twice (admission then claim, lease   *)
(* then failed start) is two steps between which only a crash or the       *)
(* provider threads come.  Between the calls of one wake every other call  *)
(* may come: a cancellation, an operator resolution, another wake.         *)
(* A commit is followed by the flush of its outbox rows before the call    *)
(* returns; a crash in between leaves them to the next start.              *)
(***************************************************************************)
EXTENDS LogicalTurnStore

CONSTANTS
    MaxContinuations, \* bound on the yields and attentions of one turn
    MaxTools,         \* bound on the host tool calls of one provider run
    MaxSwaps          \* bound on reconfigurations of the brain module

ASSUME RuntimeBounds ==
    /\ MaxContinuations \in Nat /\ MaxTools \in Nat /\ MaxSwaps \in Nat
    /\ Instances \subseteq Nat /\ 0 \in Instances
    /\ {0} \cup 0..(MaxTools - 1) \subseteq Slots
    /\ Revisions \subseteq Attempts

(* The two callers of build_brain_wake_request_for_session: the wake       *)
(* dispatcher, which runs one wake of a session at a time (inFlightWakes), *)
(* and manual compaction, which does not consult that set.                 *)
WakeKinds == {"dispatch", "compact"}
Hosts == Sessions \X WakeKinds

Stages == {"idle", "admitting", "built", "starting", "running", "executing",
           "submitting", "drained", "acted", "failed"}
RunPhases == {"none", "Running", "ToolRequested", "AwaitingTool", "Completed",
              "Yielded", "AttentionRequired", "Failed", "Cancelled"}
Outcomes == {"Completed", "Yielded", "AttentionRequired"}
ToolCalls == [turn: Turns, cont: Nat, slot: Slots, attempt: Attempts]
ActionBatches == [turn: Turns, cont: Nat, epoch: Epochs]

HostRecords == [stage: Stages, claim: Claims \cup {None}, turn: Turns \cup {None},
                run: RunPhases, finished: BOOLEAN, seq: Nat,
                attempt: Attempts \cup {None}, outcome: Outcomes \cup {None}]

VARIABLES
    up,        \* the service process is running
    inst,      \* service_instance_id of the process
    module,    \* how often the brain module was exchanged (brain_module_id)
    bound,     \* binding.brain_module_id of each turn
    host,      \* the wake in progress of each caller, with its provider run
    executed,  \* every host tool call whose effect took place
    acted      \* every assistant action batch the engine executed

runtimeVars == <<up, inst, module, bound, host, executed, acted>>
vars == <<storeVars, runtimeVars>>

IdleHost == [stage |-> "idle", claim |-> None, turn |-> None, run |-> "none",
             finished |-> FALSE, seq |-> 0, attempt |-> None,
             outcome |-> None]

RuntimeInit ==
    /\ StoreInit
    /\ up = TRUE
    /\ inst = 0
    /\ module = 0
    /\ bound = [t \in Turns |-> None]
    /\ host = [h \in Hosts |-> IdleHost]
    /\ executed = {}
    /\ acted = {}

MidCall(h) == host[h].stage \in {"admitting", "starting"}

(* The bridge is free for a call: no other call is between two commits,    *)
(* and the outbox of the last commit was flushed.                          *)
BridgeFree ==
    /\ up
    /\ PendingOutbox = {}
    /\ \A h \in Hosts : ~MidCall(h)

Go(h, record) == host' = [host EXCEPT ![h] = record]

(***************************************************************************)
(* build_brain_wake_request_for_session.                                   *)
(***************************************************************************)
Tickets(s) == {t \in Turns : ticket[t] # None /\ turns[t].session = s}

(* No runnable turn: the wake admits a new turn, then claims it.           *)
PrepareNewTurn(h, t) ==
    /\ BridgeFree
    /\ host[h].stage = "idle"
    /\ Tickets(h[1]) = {}
    /\ InsertLogicalTurnAdmission(t, h[1])
    /\ bound' = [bound EXCEPT ![t] = module]
    /\ Go(h, [IdleHost EXCEPT !.stage = "admitting", !.turn = t])
    /\ UNCHANGED <<up, inst, module, executed, acted>>

(* The module of the checkpoint is compared with the registered one after  *)
(* the claim is committed; a mismatch ends the call without an active      *)
(* wake for the claim.                                                     *)
Claimed(h, t) ==
    IF bound[t] = module
    THEN [IdleHost EXCEPT !.stage = "built", !.turn = t,
                          !.claim = NewClaim(t, inst)]
    ELSE IdleHost

ClaimNewTurn(h) ==
    /\ up
    /\ PendingOutbox = {}
    /\ host[h].stage = "admitting"
    /\ ClaimLogicalTurn(host[h].turn, inst)
    /\ Go(h, Claimed(h, host[h].turn))
    /\ UNCHANGED <<up, inst, module, bound, executed, acted>>

(* One runnable turn: its frozen input is claimed again.  With more than   *)
(* one the call fails and nothing changes.                                 *)
ResumeTurn(h, t) ==
    /\ BridgeFree
    /\ host[h].stage = "idle"
    /\ Tickets(h[1]) = {t}
    /\ ClaimLogicalTurn(t, inst)
    /\ Go(h, Claimed(h, t))
    /\ UNCHANGED <<up, inst, module, bound, executed, acted>>

(***************************************************************************)
(* start_brain_run_json: the provider operation is leased, then the run    *)
(* starts; if it does not, the operation is completed as failed and the    *)
(* wake fails.                                                             *)
(***************************************************************************)
Claim(h) == host[h].claim

ProviderAttempt(c) == c.epoch.rev

StartBrainRun(h) ==
    /\ BridgeFree
    /\ host[h].stage = "built"
    /\ LeaseLogicalTurnOperation(Claim(h), "Provider", 0, ProviderAttempt(Claim(h)))
    /\ Go(h, [host[h] EXCEPT !.stage = "starting"])
    /\ UNCHANGED <<up, inst, module, bound, executed, acted>>

RunStarted(h) ==
    /\ up
    /\ host[h].stage = "starting"
    /\ Go(h, [host[h] EXCEPT !.stage = "running", !.run = "Running"])
    /\ UNCHANGED <<storeVars, up, inst, module, bound, executed, acted>>

LeasedProvider(c) ==
    {o \in ops : o.turn = c.turn /\ o.cont = c.cont /\ o.epoch = c.epoch
                 /\ o.kind = "Provider" /\ o.phase = "Leased"}

(* Mutant of CompleteProviderOperation: the phase is written unfenced. *)
MutantCompleteUnfenced(c) ==
    /\ ops' = SetOperationPhase(LeasedProvider(c), "Completed")
    /\ UNCHANGED <<turns, ticket, checkpoints, receipts, outbox, delivered,
                   claims>>

CompleteProviderOperation(c) ==
    IF LeasedProvider(c) = {} THEN UNCHANGED storeVars
    ELSE \E o \in LeasedProvider(c) : CompleteLogicalTurnOperation(c, o)

StartFailed(h) ==
    /\ up
    /\ host[h].stage = "starting"
    /\ CompleteProviderOperation(Claim(h))
    /\ Go(h, [host[h] EXCEPT !.stage = "failed"])
    /\ UNCHANGED <<up, inst, module, bound, executed, acted>>

(***************************************************************************)
(* The provider thread of a run.  It asks for one host tool at a time and  *)
(* waits; it ends by itself or after it notices the cancellation.          *)
(***************************************************************************)
RequestTool(h) ==
    /\ up
    /\ host[h].run = "Running"
    /\ host[h].seq < MaxTools
    /\ Go(h, [host[h] EXCEPT !.run = "ToolRequested"])
    /\ UNCHANGED <<storeVars, up, inst, module, bound, executed, acted>>

(* Mutant of ProviderEnds: the provider thread of a cancelled run never    *)
(* reports that it finished.                                               *)
MutantProviderIgnoresCancel(h, phase) ==
    /\ up
    /\ host[h].run = "Running" /\ phase # "Cancelled"
    /\ phase \in {"Yielded", "AttentionRequired"} =>
          Claim(h).cont < MaxContinuations
    /\ Go(h, [host[h] EXCEPT !.run = phase, !.finished = TRUE])
    /\ UNCHANGED <<storeVars, up, inst, module, bound, executed, acted>>

ProviderEnds(h, phase) ==
    /\ up
    /\ ~host[h].finished
    /\ IF host[h].run = "Cancelled" THEN phase = "Cancelled"
       ELSE host[h].run = "Running" /\ phase # "Cancelled"
    /\ phase \in {"Yielded", "AttentionRequired"} =>
          Claim(h).cont < MaxContinuations
    /\ Go(h, [host[h] EXCEPT !.run = phase, !.finished = TRUE])
    /\ UNCHANGED <<storeVars, up, inst, module, bound, executed, acted>>

(***************************************************************************)
(* drain_brain_run_json with a host tool request: prepare_host_tool_       *)
(* operation leases the call, replays the durable result of an earlier     *)
(* execution of the same call, or rejects the request.                     *)
(***************************************************************************)
EarlierAttempts(c, slot) ==
    {o \in ops : o.turn = c.turn /\ o.cont = c.cont /\ o.kind = "HostTool"
                 /\ o.slot = slot}

LastAttempt(c, slot) ==
    CHOOSE o \in EarlierAttempts(c, slot) :
        \A p \in EarlierAttempts(c, slot) : p.attempt <= o.attempt

(* Mutant of HostToolAttempt: a call without a completed result is leased  *)
(* again whatever became of it.                                            *)
MutantRetryAlways(c, slot) ==
    IF EarlierAttempts(c, slot) = {} THEN {0}
    ELSE {LastAttempt(c, slot).attempt + 1}

(* The attempt to lease for a call: the first, or the one after an attempt *)
(* that was superseded; none where the call may not be executed.           *)
HostToolAttempt(c, slot) ==
    IF EarlierAttempts(c, slot) = {} THEN {0}
    ELSE IF LastAttempt(c, slot).phase = "Superseded"
    THEN {LastAttempt(c, slot).attempt + 1}
    ELSE {}

LeaseHostTool(h) ==
    /\ BridgeFree
    /\ host[h].stage = "running"
    /\ host[h].run = "ToolRequested"
    /\ \E attempt \in Attempts \cap HostToolAttempt(Claim(h), host[h].seq) :
          /\ LeaseLogicalTurnOperation(Claim(h), "HostTool", host[h].seq, attempt)
          /\ Go(h, [host[h] EXCEPT !.stage = "executing", !.run = "AwaitingTool",
                                   !.attempt = attempt, !.seq = host[h].seq + 1])
    /\ UNCHANGED <<up, inst, module, bound, executed, acted>>

ReplayHostTool(h) ==
    /\ BridgeFree
    /\ host[h].stage = "running"
    /\ host[h].run = "ToolRequested"
    /\ EarlierAttempts(Claim(h), host[h].seq) # {}
    /\ LastAttempt(Claim(h), host[h].seq).phase = "Completed"
    /\ Go(h, [host[h] EXCEPT !.run = "Running", !.seq = host[h].seq + 1])
    /\ UNCHANGED <<storeVars, up, inst, module, bound, executed, acted>>

(* The resumed model asks for another tool than before, or the earlier     *)
(* attempt has no replayable result: the drain throws, the wake fails.     *)
RejectHostTool(h) ==
    /\ BridgeFree
    /\ host[h].stage = "running"
    /\ host[h].run = "ToolRequested"
    /\ EarlierAttempts(Claim(h), host[h].seq) # {}
    /\ Go(h, [host[h] EXCEPT !.stage = "failed", !.seq = host[h].seq + 1])
    /\ UNCHANGED <<storeVars, up, inst, module, bound, executed, acted>>

(* The host executes the leased call: its effect takes place now, and the  *)
(* result is submitted by a later call.                                    *)
ExecuteHostTool(h) ==
    /\ up
    /\ host[h].stage = "executing"
    /\ executed' = executed \cup
          {[turn |-> Claim(h).turn, cont |-> Claim(h).cont,
            slot |-> host[h].seq - 1, attempt |-> host[h].attempt]}
    /\ Go(h, [host[h] EXCEPT !.stage = "submitting"])
    /\ UNCHANGED <<storeVars, up, inst, module, bound, acted>>

(***************************************************************************)
(* submit_brain_host_result_json: the operation is completed, and only a   *)
(* result that is not after a cancellation is given to the provider.       *)
(***************************************************************************)
HostToolOperation(h) ==
    CHOOSE o \in EarlierAttempts(Claim(h), host[h].seq - 1) :
        o.attempt = host[h].attempt

SubmitHostResult(h) ==
    /\ BridgeFree
    /\ host[h].stage = "submitting"
    /\ CompleteLogicalTurnOperation(Claim(h), HostToolOperation(h))
    /\ Go(h, IF CompletionPhases(Claim(h)) = {"CompletedAfterCancel"}
             THEN [host[h] EXCEPT !.stage = "running"]
             ELSE IF host[h].run = "AwaitingTool"
             THEN [host[h] EXCEPT !.stage = "running", !.run = "Running"]
             ELSE [host[h] EXCEPT !.stage = "failed"])
    /\ UNCHANGED <<up, inst, module, bound, executed, acted>>

(***************************************************************************)
(* The terminal drain completes the provider operation and removes the     *)
(* run; a failed or cancelled run makes the host throw.                    *)
(***************************************************************************)
DrainTerminal(h) ==
    /\ BridgeFree
    /\ host[h].stage = "running"
    /\ host[h].finished
    /\ CompleteProviderOperation(Claim(h))
    /\ Go(h, IF host[h].run \in Outcomes
             THEN [host[h] EXCEPT !.stage = "drained", !.outcome = host[h].run,
                                  !.run = "none"]
             ELSE [host[h] EXCEPT !.stage = "failed", !.run = "none"])
    /\ UNCHANGED <<up, inst, module, bound, executed, acted>>

(* Mutant of HostThrows: the failure is not settled. *)
MutantThrowUnsettled(h) ==
    /\ up
    /\ host[h].stage \in {"running", "submitting", "drained", "acted"}
    /\ Go(h, IdleHost)
    /\ UNCHANGED <<storeVars, up, inst, module, bound, executed, acted>>

(* Any other call of the host between two drains may throw. *)
HostThrows(h) ==
    /\ up
    /\ host[h].stage \in {"running", "submitting", "drained", "acted"}
    /\ Go(h, [host[h] EXCEPT !.stage = "failed"])
    /\ UNCHANGED <<storeVars, up, inst, module, bound, executed, acted>>

(* submitBrainActions: the assistant action batch of the wake. *)
SubmitBrainActions(h) ==
    /\ BridgeFree
    /\ host[h].stage = "drained"
    /\ acted' = acted \cup {[turn |-> Claim(h).turn, cont |-> Claim(h).cont,
                             epoch |-> Claim(h).epoch]}
    /\ Go(h, [host[h] EXCEPT !.stage = "acted"])
    /\ UNCHANGED <<storeVars, up, inst, module, bound, executed>>

(***************************************************************************)
(* settle_brain_wake: a turn that was cancelled in the meantime only loses *)
(* its active wake; otherwise the outcome is committed under the claim.    *)
(***************************************************************************)
CommitOutcome(c, outcome) ==
    CASE outcome = "Yielded" -> YieldLogicalTurn(c)
      [] outcome = "AttentionRequired" ->
            \E a \in BrainAttention : RequireLogicalTurnAttention(c, a)
      [] OTHER -> CompleteLogicalTurn(c, outcome)

Settle(h, outcome) ==
    /\ BridgeFree
    /\ IF turns[Claim(h).turn].phase = "Cancelled"
       THEN UNCHANGED storeVars
       ELSE CommitOutcome(Claim(h), outcome)
    /\ Go(h, IdleHost)
    /\ UNCHANGED <<up, inst, module, bound, executed, acted>>

SettleBrainWake(h) ==
    /\ host[h].stage = "acted"
    /\ Settle(h, host[h].outcome)

SettleFailedWake(h) ==
    /\ host[h].stage = "failed"
    /\ Settle(h, "Failed")

(***************************************************************************)
(* Operator calls.  Cancelling a turn with an active wake first cancels    *)
(* the provider run: the call is refused while there is no run to cancel,  *)
(* and the run stays cancelled when the store then rejects the request.    *)
(***************************************************************************)
ActiveHosts(t) == {h \in Hosts : Claim(h) # None /\ Claim(h).turn = t}

Cancellable == {"Running", "ToolRequested", "AwaitingTool",
                "AttentionRequired", "Cancelled"}

(* The run enters Cancelled; one that had already ended stays finished.    *)
CancelRun(h) == [host[h] EXCEPT !.run = "Cancelled"]

CancelIdleTurn(t, key) ==
    /\ BridgeFree
    /\ ActiveHosts(t) = {}
    /\ CancelLogicalTurn(t, key)
    /\ UNCHANGED runtimeVars

(* Mutant of CancelActiveTurn: the provider run is not cancelled. *)
MutantCancelKeepsRun(h, key) ==
    /\ BridgeFree
    /\ Claim(h) # None
    /\ CancelLogicalTurn(Claim(h).turn, key)
    /\ UNCHANGED runtimeVars

CancelActiveTurn(h, key) ==
    /\ BridgeFree
    /\ Claim(h) # None
    /\ host[h].run \in Cancellable
    /\ CancelLogicalTurn(Claim(h).turn, key)
    /\ Go(h, CancelRun(h))
    /\ UNCHANGED <<up, inst, module, bound, executed, acted>>

(* cancel_brain_run_json by the host's abort signal, or a cancellation     *)
(* whose expected revision is stale: the run ends, the turn goes on.       *)
CancelBrainRun(h) ==
    /\ BridgeFree
    /\ Claim(h) # None
    /\ host[h].run \in Cancellable \ {"Cancelled"}
    /\ Go(h, CancelRun(h))
    /\ UNCHANGED <<storeVars, up, inst, module, bound, executed, acted>>

ResolveAttentionForOperator(t, action) ==
    /\ BridgeFree
    /\ ResolveLogicalTurnAttention(t, action)
    /\ UNCHANGED runtimeVars

(* A reconfiguration registers another brain module for the profile. *)
SwapBrainModule ==
    /\ BridgeFree
    /\ module < MaxSwaps
    /\ module' = module + 1
    /\ UNCHANGED <<storeVars, up, inst, bound, host, executed, acted>>

(***************************************************************************)
(* The process ends at any point (shutdown_engine loses the same state as  *)
(* a crash: runs, active wakes and hosts) and starts again: hydration, the *)
(* flush of what was pending, and the requeue of every ticket.             *)
(***************************************************************************)
(* Mutant of Crash: active_logical_wakes survives the shutdown. *)
MutantShutdownKeepsActive ==
    /\ up
    /\ inst + 1 \in Instances
    /\ up' = FALSE
    /\ UNCHANGED <<storeVars, inst, module, bound, host, executed, acted>>

Crash ==
    /\ up
    /\ inst + 1 \in Instances
    /\ up' = FALSE
    /\ host' = [h \in Hosts |-> IdleHost]
    /\ UNCHANGED <<storeVars, inst, module, bound, executed, acted>>

Restart ==
    /\ ~up
    /\ up' = TRUE
    /\ inst' = inst + 1
    /\ HydrateLogicalTurns
    /\ UNCHANGED <<module, bound, host, executed, acted>>

FlushLogicalTurnOutbox ==
    /\ up
    /\ \E e \in PendingOutbox : MarkLogicalTurnOutboxDelivered(e)
    /\ UNCHANGED runtimeVars

(* The TypeScript side of one wake after it was started. *)
HostStep(h) ==
    \/ ClaimNewTurn(h)
    \/ StartBrainRun(h)
    \/ RunStarted(h)
    \/ LeaseHostTool(h)
    \/ ReplayHostTool(h)
    \/ RejectHostTool(h)
    \/ ExecuteHostTool(h)
    \/ SubmitHostResult(h)
    \/ DrainTerminal(h)
    \/ SubmitBrainActions(h)
    \/ SettleBrainWake(h)
    \/ SettleFailedWake(h)

HostFailure(h) ==
    \/ StartFailed(h)
    \/ HostThrows(h)

ProviderPhases == {"Completed", "Yielded", "AttentionRequired", "Failed", "Cancelled"}

ProviderEnd(h) == \E phase \in ProviderPhases : ProviderEnds(h, phase)

HostNext(h) ==
    \/ \E t \in Turns : PrepareNewTurn(h, t) \/ ResumeTurn(h, t)
    \/ HostStep(h)
    \/ HostFailure(h)
    \/ RequestTool(h)
    \/ ProviderEnd(h)
    \/ CancelBrainRun(h)
    \/ \E key \in CancelKeys : CancelActiveTurn(h, key)

RuntimeNext ==
    \/ \E h \in Hosts : HostNext(h)
    \/ \E t \in Turns, key \in CancelKeys : CancelIdleTurn(t, key)
    \/ \E t \in Turns, a \in UNION {ResolutionActions(x) : x \in Attentions} :
          ResolveAttentionForOperator(t, a)
    \/ SwapBrainModule
    \/ Crash
    \/ Restart
    \/ FlushLogicalTurnOutbox

RuntimeSpec == RuntimeInit /\ [][RuntimeNext]_vars

(* The Node event loop runs every ready continuation of a wake, the flush  *)
(* is part of the call that committed, a provider request ends (each has a *)
(* transport timeout), and the supervisor restarts the service.            *)
RuntimeFairness ==
    /\ \A h \in Hosts : WF_vars(HostStep(h)) /\ WF_vars(ProviderEnd(h))
    /\ WF_vars(FlushLogicalTurnOutbox)
    /\ WF_vars(Restart)

FairRuntimeSpec == RuntimeSpec /\ RuntimeFairness

(***************************************************************************)
(* Properties.                                                             *)
(***************************************************************************)

(* The in-memory side of every wake has its type. *)
RuntimeTypeOK ==
    /\ up \in BOOLEAN
    /\ inst \in Instances
    /\ module \in Nat
    /\ bound \in [Turns -> Nat \cup {None}]
    /\ host \in [Hosts -> HostRecords]
    /\ executed \subseteq ToolCalls
    /\ acted \subseteq ActionBatches

ActiveClaims == {Claim(h) : h \in Hosts} \ {None}

(* Every entry of active_logical_wakes still passes the fence of its turn  *)
(* unless the turn was cancelled, and no two wakes work on one turn: a     *)
(* settlement, a lease or a tool result of a live wake is never refused as *)
(* stale, whatever was resolved, cancelled or compacted meanwhile.         *)
ActiveWakeOwnsTurn ==
    /\ \A c \in ActiveClaims :
          RequireRunningFence(c) \/ turns[c.turn].phase = "Cancelled"
    /\ \A g, h \in Hosts :
          /\ Claim(g) # None /\ Claim(h) # None
          /\ Claim(g).turn = Claim(h).turn
          => g = h

(* While the service is up a Running turn is being driven by a wake that   *)
(* will settle it: no turn is left Running with nobody to finish it (one   *)
(* whose brain module was exchanged is claimed before the modules are      *)
(* compared, and waits for the next restart).                              *)
RunningTurnIsDriven ==
    \A t \in Turns :
        up /\ turns[t].phase = "Running" /\ bound[t] = module => ActiveHosts(t) # {}

(* A host tool call takes effect once: a second execution of the same call *)
(* of a continuation happens only after the operator confirmed that the    *)
(* earlier attempt had not completed (it is Superseded), across crashes,   *)
(* replays and retries.                                                    *)
ToolExecutedOnce ==
    \A e, f \in executed :
        /\ e.turn = f.turn /\ e.cont = f.cont /\ e.slot = f.slot
        /\ e.attempt < f.attempt
        => \E o \in ops : /\ o.kind = "HostTool" /\ o.phase = "Superseded"
                          /\ o.turn = e.turn /\ o.cont = e.cont
                          /\ o.slot = e.slot /\ o.attempt = e.attempt

(* Hydration never meets two host tools in flight on one turn, so every    *)
(* interrupted turn has an operator resolution and none is stuck with      *)
(* InvariantRepairRequired.                                                *)
EveryInterruptionResolvable ==
    \A t \in Turns : turns[t].attention # "InvariantRepairRequired"

(* The action batch of a wake is executed only while its turn is Running   *)
(* under the wake's claim: nothing a cancelled or finished turn produced   *)
(* reaches the engine.                                                     *)
ActionsOnlyFromOwner ==
    [][\A b \in acted' \ acted :
          turns[b.turn].phase = "Running" /\ turns[b.turn].epoch = b.epoch]_vars

(* A session has at most one runnable turn: prepare_logical_turn_wake      *)
(* treats a second one as an internal error and builds no wake.            *)
OneRunnableTurnPerSession ==
    \A s \in Sessions : Cardinality(Tickets(s)) <= 1

(* Every Running turn is eventually settled, cancelled or recovered, also  *)
(* when its brain module is exchanged meanwhile.                           *)
RunningTurnEnds ==
    \A t \in Turns :
        turns[t].phase = "Running" /\ bound[t] = module ~> turns[t].phase # "Running"
=============================================================================
