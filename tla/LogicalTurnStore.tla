-------------------------- MODULE LogicalTurnStore --------------------------
(***************************************************************************)
(* The durable store of logical brain turns: one turn is one unit of model *)
(* work of a session, executed as a chain of continuations, each by one    *)
(* execution epoch that claimed it.  Every action below is one SQLite      *)
(* transaction of core-persistence/src/repos/logical_turns.rs; a request   *)
(* the code rejects changes nothing and is therefore a disabled action.    *)
(*                                                                         *)
(* Data abstraction.  A continuation id is a hash of the turn, the parent  *)
(* continuation, the sequence number and the payload; a request with a     *)
(* different payload at an existing number is rejected like a replay, so   *)
(* the sequence number stands for the id.  An epoch id is a hash of the    *)
(* turn, the continuation, the revision the claim was made at and the      *)
(* service instance, kept here as a record of those four.                  *)
(***************************************************************************)
EXTENDS Integers, FiniteSets

CONSTANTS
    Turns,        \* logical turn ids
    Sessions,     \* sessions that own turns
    Instances,    \* service instances (one per process start)
    CancelKeys,   \* idempotency keys of cancellation requests
    Slots,        \* host tool / provider operation numbers inside an epoch
    Attempts,     \* attempt numbers of an operation (":retry:n" suffixes)
    MaxRevision,  \* bound on a turn's revision (the code's is a u64)
    None          \* the Option::None of the records below

ASSUME BoundsAssumption == MaxRevision \in Nat \ {0} /\ Slots \subseteq Nat
                           /\ Attempts \subseteq Nat

RunnablePhases == {"Admitted", "Runnable", "Yielded"}
TerminalPhases == {"Completed", "Failed", "Cancelled"}
Phases == {"Absent", "Running", "AttentionRequired"}
              \cup RunnablePhases \cup TerminalPhases

(* What an attention record allows the operator to do, by its origin:      *)
(* brain-requested attention, and attention raised by restart hydration.   *)
BrainAttention == {"RetryUnchangedSafe", "RetryProvider"}
HydrationAttention == {"ToolOutcomeUnknown", "InvariantRepairRequired"}
Attentions == BrainAttention \cup HydrationAttention

ResolutionActions(attention) ==
    CASE attention = "RetryUnchangedSafe"      -> {"RetryUnchanged"}
      [] attention = "RetryProvider"           -> {"RetryProviderOperation"}
      [] attention = "ToolOutcomeUnknown"      ->
            {"ConfirmToolCompleted", "ConfirmToolNotCompleted"}
      [] attention = "InvariantRepairRequired" -> {}

OperationKinds == {"HostTool", "Provider"}
OperationPhases == {"Leased", "Completed", "CompletedAfterCancel",
                    "OutcomeUnknown", "Superseded"}
LifecycleKinds == {"Admitted", "Claimed", "Yielded", "AttentionRequired",
                   "Resumed", "Completed", "Failed", "CancelRequested",
                   "Cancelled"}
TerminalKinds == {"Completed", "Failed", "Cancelled"}

Revisions == 0..MaxRevision
Epochs == [turn: Turns, cont: Nat, rev: Revisions, inst: Instances]
Claims == [turn: Turns, cont: Nat, epoch: Epochs, gen: Nat, cgen: Nat,
           rev: Revisions]
ASSUME NoneAssumption == None \notin Epochs /\ None \notin Claims
                         /\ None \notin Attentions /\ None \notin Nat

Checkpoints == [turn: Turns, seq: Nat, parent: Nat \cup {None},
                epoch: Epochs \cup {None}]
Operations == [turn: Turns, cont: Nat, kind: OperationKinds, slot: Slots,
               attempt: Attempts, epoch: Epochs, phase: OperationPhases, rev: Nat]
Lifecycle == [turn: Turns, rev: Revisions, kind: LifecycleKinds]
Receipts == [turn: Turns, key: CancelKeys, alreadyTerminal: BOOLEAN]
TurnRecords == [phase: Phases, session: Sessions \cup {None}, cont: Nat,
                epoch: Epochs \cup {None}, gen: Nat, cgen: Nat,
                rev: Revisions, attention: Attentions \cup {None}]

VARIABLES
    turns,        \* logical_brain_turns: one record per turn
    ticket,       \* logical_brain_turn_tickets: the continuation to run next
    checkpoints,  \* logical_brain_turn_checkpoints
    ops,          \* logical_brain_turn_operations
    receipts,     \* logical_brain_turn_cancel_receipts
    outbox,       \* logical_brain_turn_projection_outbox
    delivered,    \* the outbox rows whose delivered_at is set
    claims        \* every claim the store ever handed to a caller

storeVars == <<turns, ticket, checkpoints, ops, receipts, outbox, delivered,
               claims>>

AbsentTurn == [phase |-> "Absent", session |-> None, cont |-> 0,
               epoch |-> None, gen |-> 0, cgen |-> 0, rev |-> 0,
               attention |-> None]

StoreInit ==
    /\ turns = [t \in Turns |-> AbsentTurn]
    /\ ticket = [t \in Turns |-> None]
    /\ checkpoints = {}
    /\ ops = {}
    /\ receipts = {}
    /\ outbox = {}
    /\ delivered = {}
    /\ claims = {}

Exists(t) == turns[t].phase # "Absent"
Terminal(t) == turns[t].phase \in TerminalPhases
Live(t) == Exists(t) /\ ~Terminal(t)

Event(t, rev, kind) == [turn |-> t, rev |-> rev, kind |-> kind]

(* A record without its claim: active_epoch_id, claim_holder and           *)
(* claim_expires_at are cleared together; the generation is kept.          *)
ReleaseClaim(record) == [record EXCEPT !.epoch = None]

(* A transition of turn t: the compare-and-swap of update_turn, the row    *)
(* it appends to the outbox, and the bound on the revision.                *)
UpdateTurn(t, record, kinds) ==
    /\ turns[t].rev < MaxRevision
    /\ turns' = [turns EXCEPT ![t] = [record EXCEPT !.rev = turns[t].rev + 1]]
    /\ outbox' = outbox \cup {Event(t, turns[t].rev + 1, k) : k \in kinds}
    /\ UNCHANGED delivered

(***************************************************************************)
(* Admission and claim.                                                    *)
(***************************************************************************)
InsertLogicalTurnAdmission(t, s) ==
    /\ ~Exists(t)
    /\ UpdateTurn(t, [AbsentTurn EXCEPT !.phase = "Admitted", !.session = s],
                  {"Admitted"})
    /\ checkpoints' = checkpoints \cup
          {[turn |-> t, seq |-> 0, parent |-> None, epoch |-> None]}
    /\ ticket' = [ticket EXCEPT ![t] = 0]
    /\ UNCHANGED <<ops, receipts, claims>>

(* Mutant of ExecutionEpochId: the digest leaves the revision out. *)
MutantEpochWithoutRevision(t, inst) ==
    [turn |-> t, cont |-> turns[t].cont, rev |-> 0, inst |-> inst]

ExecutionEpochId(t, inst) ==
    [turn |-> t, cont |-> turns[t].cont, rev |-> turns[t].rev, inst |-> inst]

(* The claim a caller holds after a successful claim_logical_turn: the     *)
(* record as it was committed, with its revision, generation and epoch.    *)
NewClaim(t, inst) ==
    [turn |-> t, cont |-> turns[t].cont, epoch |-> ExecutionEpochId(t, inst),
     gen |-> turns[t].gen + 1, cgen |-> turns[t].cgen,
     rev |-> turns[t].rev + 1]

ClaimLogicalTurn(t, inst) ==
    /\ turns[t].phase \in RunnablePhases
    /\ UpdateTurn(t, [turns[t] EXCEPT !.phase = "Running",
                                      !.epoch = ExecutionEpochId(t, inst),
                                      !.gen = turns[t].gen + 1], {"Claimed"})
    /\ ticket' = [ticket EXCEPT ![t] = None]
    /\ claims' = claims \cup {NewClaim(t, inst)}
    /\ UNCHANGED <<checkpoints, ops, receipts>>

(***************************************************************************)
(* What the holder of a claim may commit.  A caller presents the claim it  *)
(* was given, however old; the fence compares it with the current record.  *)
(***************************************************************************)
(* Mutant of RequireRunningFence: only the phase is checked. *)
MutantFencePhaseOnly(c) == turns[c.turn].phase = "Running"

RequireRunningFence(c) ==
    /\ turns[c.turn].rev = c.rev
    /\ turns[c.turn].phase = "Running"
    /\ turns[c.turn].epoch = c.epoch
    /\ turns[c.turn].gen = c.gen
    /\ turns[c.turn].cgen = c.cgen

(* Mutant of NextCheckpoint: the sequence number is not advanced. *)
MutantCheckpointSameSequence(c) ==
    [turn |-> c.turn, seq |-> c.cont, parent |-> c.cont, epoch |-> c.epoch]

NextCheckpoint(c) ==
    [turn |-> c.turn, seq |-> c.cont + 1, parent |-> c.cont,
     epoch |-> c.epoch]

(* validate_yield / validate_attention on the checkpoint of the request.   *)
ValidateCheckpoint(c) == c.cont = turns[c.turn].cont

CheckpointExists(c) ==
    \E k \in checkpoints : k.turn = c.turn /\ k.seq = c.cont + 1

YieldLogicalTurn(c) ==
    /\ ~CheckpointExists(c)
    /\ RequireRunningFence(c)
    /\ ValidateCheckpoint(c)
    /\ UpdateTurn(c.turn, [ReleaseClaim(turns[c.turn]) EXCEPT !.phase = "Yielded",
                                                              !.cont = c.cont + 1],
                  {"Yielded"})
    /\ checkpoints' = checkpoints \cup {NextCheckpoint(c)}
    /\ ticket' = [ticket EXCEPT ![c.turn] = c.cont + 1]
    /\ UNCHANGED <<ops, receipts, claims>>

RequireLogicalTurnAttention(c, attention) ==
    /\ ~CheckpointExists(c)
    /\ RequireRunningFence(c)
    /\ ValidateCheckpoint(c)
    /\ UpdateTurn(c.turn, [ReleaseClaim(turns[c.turn]) EXCEPT
                              !.phase = "AttentionRequired",
                              !.cont = c.cont + 1,
                              !.attention = attention],
                  {"AttentionRequired"})
    /\ checkpoints' = checkpoints \cup {NextCheckpoint(c)}
    /\ ticket' = [ticket EXCEPT ![c.turn] = None]
    /\ UNCHANGED <<ops, receipts, claims>>

CompleteLogicalTurn(c, outcome) ==
    /\ ~Terminal(c.turn)
    /\ RequireRunningFence(c)
    /\ UpdateTurn(c.turn, [ReleaseClaim(turns[c.turn]) EXCEPT !.phase = outcome],
                  {outcome})
    /\ ticket' = [ticket EXCEPT ![c.turn] = None]
    /\ UNCHANGED <<checkpoints, ops, receipts, claims>>

(***************************************************************************)
(* Operator attention.  Confirming a tool outcome also settles the one     *)
(* operation whose outcome restart hydration could not determine.          *)
(***************************************************************************)
UnknownHostTools(t) ==
    {o \in ops : o.turn = t /\ o.kind = "HostTool"
                           /\ o.phase = "OutcomeUnknown"}

SetOperationPhase(selected, phase) ==
    (ops \ selected) \cup
        {[o EXCEPT !.phase = phase, !.rev = o.rev + 1] : o \in selected}

(* Mutant of ReconcileUnknownHostToolOperation: the turn is resumed but    *)
(* the operation keeps its unknown outcome.                                *)
MutantReconcileNothing(t, action) == UNCHANGED ops

ReconcileUnknownHostToolOperation(t, action) ==
    CASE action = "ConfirmToolCompleted" ->
            /\ Cardinality(UnknownHostTools(t)) = 1
            /\ ops' = SetOperationPhase(UnknownHostTools(t), "Completed")
      [] action = "ConfirmToolNotCompleted" ->
            /\ Cardinality(UnknownHostTools(t)) = 1
            /\ ops' = SetOperationPhase(UnknownHostTools(t), "Superseded")
      [] OTHER -> UNCHANGED ops

ResolveLogicalTurnAttention(t, action) ==
    /\ turns[t].phase = "AttentionRequired"
    /\ turns[t].attention # None
    /\ action \in ResolutionActions(turns[t].attention)
    /\ ReconcileUnknownHostToolOperation(t, action)
    /\ UpdateTurn(t, [turns[t] EXCEPT !.phase = "Runnable",
                                      !.attention = None], {"Resumed"})
    /\ ticket' = [ticket EXCEPT ![t] = turns[t].cont]
    /\ UNCHANGED <<checkpoints, receipts, claims>>

(***************************************************************************)
(* Cancellation: idempotent by key, final, and it advances the             *)
(* cancellation generation that every claim carries.                       *)
(***************************************************************************)
HasReceipt(t, key) == \E r \in receipts : r.turn = t /\ r.key = key

CancelReceipt(t, key) ==
    [turn |-> t, key |-> key, alreadyTerminal |-> Terminal(t)]

CancelLogicalTurn(t, key) ==
    /\ Exists(t)
    /\ ~HasReceipt(t, key)
    /\ \/ /\ Terminal(t)
          /\ UNCHANGED <<turns, ticket, outbox, delivered>>
       \/ /\ ~Terminal(t)
          /\ UpdateTurn(t, [ReleaseClaim(turns[t]) EXCEPT
                              !.phase = "Cancelled",
                              !.cgen = turns[t].cgen + 1,
                              !.attention = None],
                        {"CancelRequested", "Cancelled"})
          /\ ticket' = [ticket EXCEPT ![t] = None]
    /\ receipts' = receipts \cup {CancelReceipt(t, key)}
    /\ UNCHANGED <<checkpoints, ops, claims>>

(***************************************************************************)
(* Operations: a provider request or a host tool call leased by an epoch.  *)
(***************************************************************************)
SameOperation(o, p) ==
    /\ o.turn = p.turn /\ o.cont = p.cont /\ o.kind = p.kind
    /\ o.slot = p.slot /\ o.attempt = p.attempt

NewOperation(c, kind, slot, attempt) ==
    [turn |-> c.turn, cont |-> c.cont, kind |-> kind, slot |-> slot,
     attempt |-> attempt, epoch |-> c.epoch, phase |-> "Leased", rev |-> 1]

LeaseLogicalTurnOperation(c, kind, slot, attempt) ==
    LET operation == NewOperation(c, kind, slot, attempt) IN
    /\ RequireRunningFence(c)
    /\ ~\E o \in ops : SameOperation(o, operation)
    /\ ops' = ops \cup {operation}
    /\ UNCHANGED <<turns, ticket, checkpoints, receipts, outbox, delivered,
                   claims>>

(* The phase complete_logical_turn_operation gives to a finished call: a   *)
(* result that arrives after cancellation is kept but never fed back.      *)
CompletionPhases(c) ==
    IF RequireRunningFence(c) THEN {"Completed"}
    ELSE IF turns[c.turn].cgen # c.cgen \/ turns[c.turn].phase = "Cancelled"
    THEN {"CompletedAfterCancel"}
    ELSE {}

CompleteLogicalTurnOperation(c, o) ==
    /\ o \in ops
    /\ o.phase = "Leased"
    /\ o.turn = c.turn /\ o.cont = c.cont /\ o.epoch = c.epoch
    /\ \E phase \in CompletionPhases(c) : ops' = SetOperationPhase({o}, phase)
    /\ UNCHANGED <<turns, ticket, checkpoints, receipts, outbox, delivered,
                   claims>>

(***************************************************************************)
(* Restart hydration: one transaction over every turn.  A turn that was    *)
(* running with a host tool in flight waits for the operator; every other  *)
(* interrupted turn becomes runnable from its last checkpoint.             *)
(***************************************************************************)
LeasedHostTools(t) ==
    {o \in ops : o.turn = t /\ o.kind = "HostTool" /\ o.phase = "Leased"}

Interrupted(t) == turns[t].phase = "Running" /\ LeasedHostTools(t) # {}

Recovered(t) ==
    /\ turns[t].phase \in {"Admitted", "Yielded", "Running"}
    /\ ~Interrupted(t)

(* Mutant of UnknownOutcomeAttention: settled calls are counted too. *)
MutantCountAllTools(t) ==
    IF Cardinality({o \in ops : o.turn = t /\ o.kind = "HostTool"}) = 1
    THEN "ToolOutcomeUnknown"
    ELSE "InvariantRepairRequired"

UnknownOutcomeAttention(t) ==
    IF Cardinality(LeasedHostTools(t)) = 1 THEN "ToolOutcomeUnknown"
    ELSE "InvariantRepairRequired"

HydratedTurn(t) ==
    CASE Interrupted(t) ->
            [ReleaseClaim(turns[t]) EXCEPT
                             !.phase = "AttentionRequired",
                             !.attention = UnknownOutcomeAttention(t),
                             !.rev = turns[t].rev + 1]
      [] Recovered(t) ->
            [ReleaseClaim(turns[t]) EXCEPT
                             !.phase = "Runnable",
                             !.rev = turns[t].rev + 1]
      [] OTHER -> turns[t]

HydrateLogicalTurns ==
    /\ \A t \in Turns :
          Interrupted(t) \/ Recovered(t) => turns[t].rev < MaxRevision
    /\ turns' = [t \in Turns |-> HydratedTurn(t)]
    /\ ops' = SetOperationPhase(
                 UNION {LeasedHostTools(t) : t \in {u \in Turns : Interrupted(u)}},
                 "OutcomeUnknown")
    /\ outbox' = outbox
          \cup {Event(t, turns[t].rev + 1, "AttentionRequired") :
                   t \in {u \in Turns : Interrupted(u)}}
          \cup {Event(t, turns[t].rev + 1, "Resumed") :
                   t \in {u \in Turns : Recovered(u)}}
    /\ ticket' = [t \in Turns |->
                    IF Recovered(t) \/ turns[t].phase = "Runnable"
                    THEN turns[t].cont ELSE ticket[t]]
    /\ UNCHANGED <<checkpoints, receipts, delivered, claims>>

(***************************************************************************)
(* The outbox: rows are delivered in the order they were written.          *)
(***************************************************************************)
PendingOutbox == outbox \ delivered

WrittenBefore(e, f) ==
    /\ e.turn = f.turn
    /\ \/ e.rev < f.rev
       \/ e.rev = f.rev /\ e.kind = "CancelRequested" /\ f.kind = "Cancelled"

(* Mutant of MarkLogicalTurnOutboxDelivered: pending rows in any order. *)
MutantDeliverAnyOrder(e) ==
    /\ e \in PendingOutbox
    /\ delivered' = delivered \cup {e}
    /\ UNCHANGED <<turns, ticket, checkpoints, ops, receipts, outbox, claims>>

MarkLogicalTurnOutboxDelivered(e) ==
    /\ e \in PendingOutbox
    /\ \A f \in PendingOutbox : ~WrittenBefore(f, e)
    /\ delivered' = delivered \cup {e}
    /\ UNCHANGED <<turns, ticket, checkpoints, ops, receipts, outbox, claims>>

(***************************************************************************)
(* The store under arbitrary callers: any claim ever issued may be         *)
(* presented at any time, and the service may restart between any two      *)
(* transactions.                                                           *)
(***************************************************************************)
ClaimHolderStep(c) ==
    \/ YieldLogicalTurn(c)
    \/ \E a \in BrainAttention : RequireLogicalTurnAttention(c, a)
    \/ \E outcome \in {"Completed", "Failed"} : CompleteLogicalTurn(c, outcome)
    \/ \E kind \in OperationKinds, slot \in Slots, attempt \in Attempts :
          LeaseLogicalTurnOperation(c, kind, slot, attempt)
    \/ \E o \in ops : CompleteLogicalTurnOperation(c, o)

OperatorStep(t) ==
    \/ \E a \in UNION {ResolutionActions(x) : x \in Attentions} :
          ResolveLogicalTurnAttention(t, a)
    \/ \E key \in CancelKeys : CancelLogicalTurn(t, key)

StoreNext ==
    \/ \E t \in Turns, s \in Sessions : InsertLogicalTurnAdmission(t, s)
    \/ \E t \in Turns, inst \in Instances : ClaimLogicalTurn(t, inst)
    \/ \E c \in claims : ClaimHolderStep(c)
    \/ \E t \in Turns : OperatorStep(t)
    \/ HydrateLogicalTurns
    \/ \E e \in outbox : MarkLogicalTurnOutboxDelivered(e)

StoreSpec == StoreInit /\ [][StoreNext]_storeVars

(***************************************************************************)
(* Properties.                                                             *)
(***************************************************************************)

(* Every row of every table has its type. *)
StoreTypeOK ==
    /\ turns \in [Turns -> TurnRecords]
    /\ ticket \in [Turns -> Nat \cup {None}]
    /\ checkpoints \subseteq Checkpoints
    /\ ops \subseteq Operations
    /\ receipts \subseteq Receipts
    /\ outbox \subseteq Lifecycle
    /\ delivered \subseteq outbox
    /\ claims \subseteq Claims

(* A turn has a ticket exactly when it is waiting to be claimed, and the   *)
(* ticket names its current continuation: no waiting turn is forgotten by  *)
(* the scheduler and no other turn is started, whatever mix of yields,     *)
(* attention, cancellation and restarts led here.                          *)
TicketIffRunnable ==
    \A t \in Turns :
        ticket[t] = IF turns[t].phase \in RunnablePhases
                    THEN turns[t].cont ELSE None

(* Only one execution epoch owns a turn: of all the claims ever handed     *)
(* out, at most one passes require_running_fence for the turn, and one     *)
(* does whenever the turn is Running.                                      *)
SingleOwner ==
    \A t \in Turns :
        /\ \A c, d \in claims :
              /\ c.turn = t /\ d.turn = t
              /\ RequireRunningFence(c) /\ RequireRunningFence(d)
              => c = d
        /\ turns[t].phase = "Running" =>
              \E c \in claims : c.turn = t /\ RequireRunningFence(c)

(* The checkpoints of a turn form one chain: one per sequence number up to *)
(* the current continuation, each written by the epoch that had claimed    *)
(* its parent, and no epoch wrote two.                                     *)
CheckpointChain ==
    \A t \in Turns : Exists(t) =>
        LET own == {k \in checkpoints : k.turn = t} IN
        /\ {k.seq : k \in own} = 0..turns[t].cont
        /\ \A j, k \in own : j.seq = k.seq \/ j.epoch = k.epoch => j = k
        /\ \A k \in own : k.seq > 0 =>
              k.parent = k.seq - 1 /\ k.epoch.cont = k.parent

(* Every revision of a turn is announced by the outbox, a terminal event   *)
(* is announced once, for the last revision, and agrees with the phase;    *)
(* the rows reach the bus in the order they were written, across crashes   *)
(* that leave rows pending.                                                *)
LifecycleAnnounced ==
    /\ \A t \in Turns :
          LET own == {e \in outbox : e.turn = t}
              last == {e \in own : e.kind \in TerminalKinds} IN
          /\ {e.rev : e \in own} = 1..turns[t].rev
          /\ last = IF Terminal(t)
                    THEN {Event(t, turns[t].rev, turns[t].phase)} ELSE {}
    /\ \A e \in delivered, f \in outbox : WrittenBefore(f, e) => f \in delivered

(* While the outcome of a host tool call is unknown its turn cannot run:   *)
(* it waits for the operator, or was cancelled.                            *)
UnknownOutcomeBlocks ==
    \A t \in Turns : UnknownHostTools(t) # {} =>
        \/ /\ turns[t].phase = "AttentionRequired"
           /\ turns[t].attention \in HydrationAttention
        \/ turns[t].phase = "Cancelled"

(* The store implements TurnLifecycle: one owner at a time, and never the  *)
(* same twice; only the owner advances the turn, by one continuation;      *)
(* hydration gives no turn up and repeats no progress; a terminal turn     *)
(* never changes.                                                          *)
StatusOf(phase) ==
    IF phase = "Absent" THEN "absent"
    ELSE IF phase \in RunnablePhases THEN "waiting"
    ELSE IF phase = "Running" THEN "owned"
    ELSE IF phase = "AttentionRequired" THEN "blocked"
    ELSE "ended"

Status == [t \in Turns |-> StatusOf(turns[t].phase)]
Owner == [t \in Turns |-> turns[t].epoch]
Progress == [t \in Turns |-> turns[t].cont]
Spent == {c.epoch : c \in claims}

Abstract == INSTANCE TurnLifecycle WITH
    Owners <- Epochs, status <- Status, owner <- Owner, progress <- Progress,
    spent <- Spent

ImplementsTurnLifecycle == Abstract!Spec
=============================================================================
