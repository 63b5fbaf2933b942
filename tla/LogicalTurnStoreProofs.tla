----------------------- MODULE LogicalTurnStoreProofs -----------------------
(***************************************************************************)
(* Proofs about the logical turn store, for any sets of turns, sessions,   *)
(* instances and keys and any bound on the revision.                       *)
(***************************************************************************)
EXTENDS LogicalTurnStore, TLAPS

USE Zenon

(* What every transition of turn t has in common: only t's record changes, *)
(* its revision advances by one, and the outbox gains that revision.       *)
TurnStep(t, kinds) ==
    /\ turns' \in [Turns -> TurnRecords]
    /\ outbox' = outbox \cup {Event(t, turns[t].rev + 1, k) : k \in kinds}
    /\ outbox' \subseteq Lifecycle
    /\ delivered' = delivered
    /\ \A u \in Turns : u # t => turns'[u] = turns[u]
    /\ turns'[t].rev = turns[t].rev + 1

LEMMA UpdateTurnEffect ==
    ASSUME StoreTypeOK, NEW t \in Turns, NEW record \in TurnRecords,
           NEW kinds \in SUBSET LifecycleKinds,
           UpdateTurn(t, record, kinds)
    PROVE  /\ TurnStep(t, kinds)
           /\ turns'[t].phase = record.phase
           /\ turns'[t].cont = record.cont
           /\ turns'[t].epoch = record.epoch
           /\ turns'[t].gen = record.gen
           /\ turns'[t].cgen = record.cgen
           /\ turns'[t].attention = record.attention
  <1>1. turns[t].rev \in Revisions /\ turns[t].rev < MaxRevision
    BY DEF StoreTypeOK, TurnRecords, UpdateTurn
  <1>2. turns[t].rev + 1 \in Revisions
    BY <1>1, BoundsAssumption, SMT DEF Revisions
  <1>3. [record EXCEPT !.rev = turns[t].rev + 1] \in TurnRecords
    BY <1>2 DEF TurnRecords
  <1>4. turns' \in [Turns -> TurnRecords]
    BY <1>3 DEF StoreTypeOK, UpdateTurn
  <1>5. outbox' \subseteq Lifecycle
    BY <1>2, SMT DEF StoreTypeOK, UpdateTurn, Lifecycle, Event
  <1>6. turns'[t] = [record EXCEPT !.rev = turns[t].rev + 1]
    BY DEF StoreTypeOK, UpdateTurn
  <1>7. \A u \in Turns : u # t => turns'[u] = turns[u]
    BY DEF StoreTypeOK, UpdateTurn
  <1>8. /\ turns'[t].rev = turns[t].rev + 1
        /\ turns'[t].phase = record.phase
        /\ turns'[t].cont = record.cont
        /\ turns'[t].epoch = record.epoch
        /\ turns'[t].gen = record.gen
        /\ turns'[t].cgen = record.cgen
        /\ turns'[t].attention = record.attention
    BY <1>6 DEF TurnRecords
  <1> QED BY <1>4, <1>5, <1>7, <1>8 DEF UpdateTurn, TurnStep

(* Releasing the claim of a record changes its epoch and nothing else. *)
LEMMA ReleaseClaimEffect ==
    ASSUME NEW record \in TurnRecords
    PROVE  /\ ReleaseClaim(record) \in TurnRecords
           /\ ReleaseClaim(record).phase = record.phase
           /\ ReleaseClaim(record).session = record.session
           /\ ReleaseClaim(record).cont = record.cont
           /\ ReleaseClaim(record).epoch = None
           /\ ReleaseClaim(record).gen = record.gen
           /\ ReleaseClaim(record).cgen = record.cgen
           /\ ReleaseClaim(record).rev = record.rev
           /\ ReleaseClaim(record).attention = record.attention
  BY DEF ReleaseClaim, TurnRecords

(* The effect of each action of the store on the record of its turn. *)
LEMMA AdmissionEffect ==
    ASSUME StoreTypeOK, NEW t \in Turns, NEW s \in Sessions,
           InsertLogicalTurnAdmission(t, s)
    PROVE  /\ TurnStep(t, {"Admitted"})
           /\ turns'[t].phase = "Admitted"
           /\ turns'[t].cont = 0
           /\ turns'[t].epoch = None
           /\ turns'[t].gen = 0
           /\ turns'[t].cgen = 0
           /\ turns'[t].attention = None
  <1> DEFINE r == [AbsentTurn EXCEPT !.phase = "Admitted", !.session = s]
  <1>0. /\ AbsentTurn \in TurnRecords
        /\ AbsentTurn.cont = 0 /\ AbsentTurn.epoch = None
        /\ AbsentTurn.gen = 0 /\ AbsentTurn.cgen = 0
        /\ AbsentTurn.attention = None
    BY BoundsAssumption, SMT DEF AbsentTurn, TurnRecords, Phases, Revisions
  <1>1. /\ r \in TurnRecords
        /\ r.phase = "Admitted" /\ r.cont = 0 /\ r.epoch = None
        /\ r.gen = 0 /\ r.cgen = 0 /\ r.attention = None
    BY <1>0 DEF TurnRecords, Phases, RunnablePhases
  <1>2. UpdateTurn(t, r, {"Admitted"})
    BY DEF InsertLogicalTurnAdmission
  <1> HIDE DEF r
  <1>3. {"Admitted"} \in SUBSET LifecycleKinds
    BY DEF LifecycleKinds
  <1> QED BY <1>1, <1>2, <1>3, UpdateTurnEffect

LEMMA ClaimEffect ==
    ASSUME StoreTypeOK, NEW t \in Turns, NEW inst \in Instances,
           ClaimLogicalTurn(t, inst)
    PROVE  /\ TurnStep(t, {"Claimed"})
           /\ turns'[t].phase = "Running"
           /\ turns'[t].cont = turns[t].cont
           /\ turns'[t].epoch = ExecutionEpochId(t, inst)
           /\ turns'[t].gen = turns[t].gen + 1
           /\ turns'[t].cgen = turns[t].cgen
           /\ turns'[t].attention = turns[t].attention
           /\ ExecutionEpochId(t, inst) \in Epochs
  <1> DEFINE e == ExecutionEpochId(t, inst)
             r == [turns[t] EXCEPT !.phase = "Running", !.epoch = e,
                                   !.gen = turns[t].gen + 1]
  <1>1. turns[t] \in TurnRecords
    BY DEF StoreTypeOK
  <1>2. e \in Epochs
    BY <1>1 DEF ExecutionEpochId, Epochs, TurnRecords
  <1>3. UpdateTurn(t, r, {"Claimed"})
    BY DEF ClaimLogicalTurn
  <1> HIDE DEF e
  <1>4. /\ r \in TurnRecords
        /\ r.phase = "Running" /\ r.cont = turns[t].cont /\ r.epoch = e
        /\ r.gen = turns[t].gen + 1 /\ r.cgen = turns[t].cgen
        /\ r.attention = turns[t].attention
    <2>1. turns[t].gen + 1 \in Nat
      BY <1>1, SMT DEF TurnRecords
    <2> QED BY <1>1, <1>2, <2>1 DEF TurnRecords, Phases
  <1> HIDE DEF r
  <1>5. {"Claimed"} \in SUBSET LifecycleKinds
    BY DEF LifecycleKinds
  <1>6. TurnStep(t, {"Claimed"}) /\ turns'[t].epoch = e
    BY <1>3, <1>4, <1>5, UpdateTurnEffect
  <1> QED BY <1>2, <1>3, <1>4, <1>5, <1>6, UpdateTurnEffect DEF e

LEMMA YieldEffect ==
    ASSUME StoreTypeOK, NEW c \in claims, YieldLogicalTurn(c)
    PROVE  /\ TurnStep(c.turn, {"Yielded"})
           /\ turns'[c.turn].phase = "Yielded"
           /\ turns'[c.turn].cont = c.cont + 1
           /\ turns'[c.turn].epoch = None
           /\ turns'[c.turn].gen = turns[c.turn].gen
           /\ turns'[c.turn].cgen = turns[c.turn].cgen
           /\ turns'[c.turn].attention = turns[c.turn].attention
  <1> DEFINE t == c.turn
             q == ReleaseClaim(turns[t])
             r == [q EXCEPT !.phase = "Yielded", !.cont = c.cont + 1]
  <1>1. t \in Turns /\ c.cont + 1 \in Nat /\ turns[t] \in TurnRecords
    BY SMT DEF StoreTypeOK, Claims
  <1>2. UpdateTurn(t, r, {"Yielded"})
    BY DEF YieldLogicalTurn
  <1>3. /\ q \in TurnRecords /\ q.epoch = None /\ q.gen = turns[t].gen
        /\ q.cgen = turns[t].cgen /\ q.attention = turns[t].attention
    BY <1>1, ReleaseClaimEffect
  <1> HIDE DEF q, t
  <1>4. /\ r \in TurnRecords
        /\ r.phase = "Yielded" /\ r.cont = c.cont + 1 /\ r.epoch = None
        /\ r.gen = turns[t].gen /\ r.cgen = turns[t].cgen
        /\ r.attention = turns[t].attention
    BY <1>1, <1>3 DEF TurnRecords, Phases, RunnablePhases
  <1> HIDE DEF r
  <1>5. {"Yielded"} \in SUBSET LifecycleKinds
    BY DEF LifecycleKinds
  <1> QED BY <1>1, <1>2, <1>4, <1>5, UpdateTurnEffect DEF t

LEMMA AttentionEffect ==
    ASSUME StoreTypeOK, NEW c \in claims, NEW a \in BrainAttention,
           RequireLogicalTurnAttention(c, a)
    PROVE  /\ TurnStep(c.turn, {"AttentionRequired"})
           /\ turns'[c.turn].phase = "AttentionRequired"
           /\ turns'[c.turn].cont = c.cont + 1
           /\ turns'[c.turn].epoch = None
           /\ turns'[c.turn].gen = turns[c.turn].gen
           /\ turns'[c.turn].cgen = turns[c.turn].cgen
           /\ turns'[c.turn].attention = a
  <1> DEFINE t == c.turn
             q == ReleaseClaim(turns[t])
             r == [q EXCEPT !.phase = "AttentionRequired",
                            !.cont = c.cont + 1, !.attention = a]
  <1>1. t \in Turns /\ c.cont + 1 \in Nat /\ turns[t] \in TurnRecords
    BY SMT DEF StoreTypeOK, Claims
  <1>2. UpdateTurn(t, r, {"AttentionRequired"})
    BY DEF RequireLogicalTurnAttention
  <1>3. /\ q \in TurnRecords /\ q.epoch = None /\ q.gen = turns[t].gen
        /\ q.cgen = turns[t].cgen
    BY <1>1, ReleaseClaimEffect
  <1> HIDE DEF q, t
  <1>4. /\ r \in TurnRecords
        /\ r.phase = "AttentionRequired" /\ r.cont = c.cont + 1
        /\ r.epoch = None /\ r.gen = turns[t].gen /\ r.cgen = turns[t].cgen
        /\ r.attention = a
    BY <1>1, <1>3 DEF TurnRecords, Phases, Attentions
  <1> HIDE DEF r
  <1>5. {"AttentionRequired"} \in SUBSET LifecycleKinds
    BY DEF LifecycleKinds
  <1> QED BY <1>1, <1>2, <1>4, <1>5, UpdateTurnEffect DEF t

LEMMA CompleteEffect ==
    ASSUME StoreTypeOK, NEW c \in claims,
           NEW outcome \in {"Completed", "Failed"},
           CompleteLogicalTurn(c, outcome)
    PROVE  /\ TurnStep(c.turn, {outcome})
           /\ turns'[c.turn].phase = outcome
           /\ turns'[c.turn].cont = turns[c.turn].cont
           /\ turns'[c.turn].epoch = None
           /\ turns'[c.turn].gen = turns[c.turn].gen
           /\ turns'[c.turn].cgen = turns[c.turn].cgen
           /\ turns'[c.turn].attention = turns[c.turn].attention
  <1> DEFINE t == c.turn
             q == ReleaseClaim(turns[t])
             r == [q EXCEPT !.phase = outcome]
  <1>1. t \in Turns /\ turns[t] \in TurnRecords
    BY DEF StoreTypeOK, Claims
  <1>2. UpdateTurn(t, r, {outcome})
    BY DEF CompleteLogicalTurn
  <1>3. /\ q \in TurnRecords /\ q.epoch = None /\ q.gen = turns[t].gen
        /\ q.cgen = turns[t].cgen /\ q.attention = turns[t].attention
        /\ q.cont = turns[t].cont
    BY <1>1, ReleaseClaimEffect
  <1> HIDE DEF q, t
  <1>4. /\ r \in TurnRecords
        /\ r.phase = outcome /\ r.cont = turns[t].cont
        /\ r.epoch = None /\ r.gen = turns[t].gen /\ r.cgen = turns[t].cgen
        /\ r.attention = turns[t].attention
    BY <1>1, <1>3 DEF TurnRecords, Phases, TerminalPhases
  <1> HIDE DEF r
  <1>5. {outcome} \in SUBSET LifecycleKinds
    BY DEF LifecycleKinds
  <1> QED BY <1>1, <1>2, <1>4, <1>5, UpdateTurnEffect DEF t

LEMMA ResolveEffect ==
    ASSUME StoreTypeOK, NEW t \in Turns, NEW action,
           ResolveLogicalTurnAttention(t, action)
    PROVE  /\ TurnStep(t, {"Resumed"})
           /\ turns'[t].phase = "Runnable"
           /\ turns'[t].cont = turns[t].cont
           /\ turns'[t].epoch = turns[t].epoch
           /\ turns'[t].gen = turns[t].gen
           /\ turns'[t].cgen = turns[t].cgen
           /\ turns'[t].attention = None
  <1> DEFINE r == [turns[t] EXCEPT !.phase = "Runnable", !.attention = None]
  <1>1. turns[t] \in TurnRecords
    BY DEF StoreTypeOK
  <1>2. UpdateTurn(t, r, {"Resumed"})
    BY DEF ResolveLogicalTurnAttention
  <1>4. /\ r \in TurnRecords
        /\ r.phase = "Runnable" /\ r.cont = turns[t].cont
        /\ r.epoch = turns[t].epoch /\ r.gen = turns[t].gen
        /\ r.cgen = turns[t].cgen /\ r.attention = None
    BY <1>1 DEF TurnRecords, Phases, RunnablePhases
  <1> HIDE DEF r
  <1>5. {"Resumed"} \in SUBSET LifecycleKinds
    BY DEF LifecycleKinds
  <1> QED BY <1>1, <1>2, <1>4, <1>5, UpdateTurnEffect

LEMMA CancelEffect ==
    ASSUME StoreTypeOK, NEW t \in Turns, NEW key \in CancelKeys,
           CancelLogicalTurn(t, key), ~Terminal(t)
    PROVE  /\ TurnStep(t, {"CancelRequested", "Cancelled"})
           /\ turns'[t].phase = "Cancelled"
           /\ turns'[t].cont = turns[t].cont
           /\ turns'[t].epoch = None
           /\ turns'[t].gen = turns[t].gen
           /\ turns'[t].cgen = turns[t].cgen + 1
           /\ turns'[t].attention = None
           /\ ticket' = [ticket EXCEPT ![t] = None]
  <1> DEFINE q == ReleaseClaim(turns[t])
             r == [q EXCEPT !.phase = "Cancelled",
                            !.cgen = turns[t].cgen + 1, !.attention = None]
             kinds == {"CancelRequested", "Cancelled"}
  <1>1. turns[t] \in TurnRecords
    BY DEF StoreTypeOK
  <1>2. UpdateTurn(t, r, kinds) /\ ticket' = [ticket EXCEPT ![t] = None]
    BY DEF CancelLogicalTurn
  <1>3. /\ q \in TurnRecords /\ q.epoch = None /\ q.gen = turns[t].gen
        /\ q.cont = turns[t].cont
    BY <1>1, ReleaseClaimEffect
  <1> HIDE DEF q
  <1>4. turns[t].cgen + 1 \in Nat
    BY <1>1, SMT DEF TurnRecords
  <1>5. /\ r \in TurnRecords
        /\ r.phase = "Cancelled" /\ r.cont = turns[t].cont
        /\ r.epoch = None /\ r.gen = turns[t].gen
        /\ r.cgen = turns[t].cgen + 1 /\ r.attention = None
    BY <1>3, <1>4 DEF TurnRecords, Phases, TerminalPhases
  <1>6. kinds \in SUBSET LifecycleKinds
    BY DEF LifecycleKinds
  <1> HIDE DEF r, kinds
  <1>7. TurnStep(t, kinds)
    BY <1>2, <1>5, <1>6, UpdateTurnEffect
  <1> QED BY <1>2, <1>5, <1>6, <1>7, UpdateTurnEffect DEF kinds

(* Moving operations to another phase keeps them operations. *)
LEMMA SetOperationPhaseType ==
    ASSUME ops \subseteq Operations, NEW selected \in SUBSET ops,
           NEW phase \in OperationPhases
    PROVE  SetOperationPhase(selected, phase) \subseteq Operations
  <1>1. ASSUME NEW o \in Operations
        PROVE  [o EXCEPT !.phase = phase, !.rev = o.rev + 1] \in Operations
    <2>1. o.rev + 1 \in Nat
      BY SMT DEF Operations
    <2>2. [o EXCEPT !.phase = phase] \in Operations
      BY DEF Operations
    <2> QED BY <2>1, <2>2 DEF Operations
  <1> QED BY <1>1 DEF SetOperationPhase

(* A claim taken by ClaimLogicalTurn is a claim, and what its holder       *)
(* writes has its type.                                                    *)
LEMMA ClaimTypes ==
    ASSUME StoreTypeOK
    PROVE  /\ \A t \in Turns, inst \in Instances :
                turns[t].rev < MaxRevision => NewClaim(t, inst) \in Claims
           /\ \A c \in Claims :
                /\ c.turn \in Turns /\ c.cont \in Nat /\ c.cont + 1 \in Nat
                /\ NextCheckpoint(c) \in Checkpoints
           /\ \A c \in Claims, kind \in OperationKinds, slot \in Slots,
                 attempt \in Attempts :
                NewOperation(c, kind, slot, attempt) \in Operations
  <1>1. ASSUME NEW t \in Turns, NEW inst \in Instances,
               turns[t].rev < MaxRevision
        PROVE  NewClaim(t, inst) \in Claims
    <2>1. turns[t] \in TurnRecords
      BY DEF StoreTypeOK
    <2>2. turns[t].rev + 1 \in Revisions
      BY <2>1, <1>1, BoundsAssumption, SMT DEF TurnRecords, Revisions
    <2>3. ExecutionEpochId(t, inst) \in Epochs
      BY <2>1 DEF TurnRecords, Epochs, ExecutionEpochId
    <2> QED BY <2>1, <2>2, <2>3, SMT DEF NewClaim, Claims, TurnRecords
  <1>2. ASSUME NEW c \in Claims
        PROVE  /\ c.turn \in Turns /\ c.cont \in Nat /\ c.cont + 1 \in Nat
               /\ NextCheckpoint(c) \in Checkpoints
    BY SMT DEF Claims, NextCheckpoint, Checkpoints
  <1>3. ASSUME NEW c \in Claims, NEW kind \in OperationKinds,
               NEW slot \in Slots, NEW attempt \in Attempts
        PROVE  NewOperation(c, kind, slot, attempt) \in Operations
    BY DEF Claims, NewOperation, Operations, OperationPhases
  <1> QED BY <1>1, <1>2, <1>3

(* The effect of restart hydration, turn by turn. *)
LEMMA HydrateEffect ==
    ASSUME StoreTypeOK, HydrateLogicalTurns
    PROVE  /\ turns' \in [Turns -> TurnRecords]
           /\ \A t \in Turns : Interrupted(t) =>
                /\ turns'[t].phase = "AttentionRequired"
                /\ turns'[t].attention \in HydrationAttention
                /\ turns'[t].attention = UnknownOutcomeAttention(t)
                /\ turns'[t].cont = turns[t].cont
                /\ turns'[t].epoch = None
                /\ turns'[t].gen = turns[t].gen
                /\ turns'[t].cgen = turns[t].cgen
                /\ turns'[t].rev = turns[t].rev + 1
           /\ \A t \in Turns : Recovered(t) =>
                /\ turns'[t].phase = "Runnable"
                /\ turns'[t].attention = turns[t].attention
                /\ turns'[t].cont = turns[t].cont
                /\ turns'[t].epoch = None
                /\ turns'[t].gen = turns[t].gen
                /\ turns'[t].cgen = turns[t].cgen
                /\ turns'[t].rev = turns[t].rev + 1
           /\ \A t \in Turns : ~Interrupted(t) /\ ~Recovered(t) =>
                turns'[t] = turns[t]
  <1> DEFINE q(t) == ReleaseClaim(turns[t])
  <1>1. ASSUME NEW t \in Turns
        PROVE  /\ turns[t] \in TurnRecords
               /\ turns'[t] = HydratedTurn(t)
               /\ q(t) \in TurnRecords /\ q(t).epoch = None
               /\ q(t).gen = turns[t].gen /\ q(t).cgen = turns[t].cgen
               /\ q(t).cont = turns[t].cont
               /\ q(t).attention = turns[t].attention
    BY ReleaseClaimEffect DEF StoreTypeOK, HydrateLogicalTurns
  <1>2. ASSUME NEW t \in Turns, Interrupted(t) \/ Recovered(t)
        PROVE  turns[t].rev + 1 \in Revisions
    BY <1>1, <1>2, BoundsAssumption, SMT
    DEF HydrateLogicalTurns, TurnRecords, Revisions
  <1>3. ASSUME NEW t \in Turns, Interrupted(t)
        PROVE  /\ HydratedTurn(t) \in TurnRecords
               /\ HydratedTurn(t).phase = "AttentionRequired"
               /\ HydratedTurn(t).attention \in HydrationAttention
               /\ HydratedTurn(t).attention = UnknownOutcomeAttention(t)
               /\ HydratedTurn(t).cont = turns[t].cont
               /\ HydratedTurn(t).epoch = None
               /\ HydratedTurn(t).gen = turns[t].gen
               /\ HydratedTurn(t).cgen = turns[t].cgen
               /\ HydratedTurn(t).rev = turns[t].rev + 1
    <2> DEFINE p == q(t)
               a == UnknownOutcomeAttention(t)
    <2>1. HydratedTurn(t) = [p EXCEPT !.phase = "AttentionRequired",
                                      !.attention = a,
                                      !.rev = turns[t].rev + 1]
      BY <1>3 DEF HydratedTurn, Recovered
    <2>2. a \in HydrationAttention
      BY DEF UnknownOutcomeAttention, HydrationAttention
    <2>3. /\ p \in TurnRecords /\ p.epoch = None /\ p.gen = turns[t].gen
          /\ p.cgen = turns[t].cgen /\ p.cont = turns[t].cont
      BY <1>1
    <2>4. turns[t].rev + 1 \in Revisions
      BY <1>2, <1>3
    <2> HIDE DEF p, a
    <2>5. /\ HydratedTurn(t) \in TurnRecords
          /\ HydratedTurn(t).phase = "AttentionRequired" /\ HydratedTurn(t).attention = a
          /\ HydratedTurn(t).cont = turns[t].cont /\ HydratedTurn(t).epoch = None
          /\ HydratedTurn(t).gen = turns[t].gen /\ HydratedTurn(t).cgen = turns[t].cgen
          /\ HydratedTurn(t).rev = turns[t].rev + 1
      BY <2>1, <2>2, <2>3, <2>4, ZenonT(30) DEF TurnRecords, Phases, Attentions
    <2> QED BY <2>2, <2>5 DEF a
  <1>4. ASSUME NEW t \in Turns, Recovered(t)
        PROVE  /\ HydratedTurn(t) \in TurnRecords
               /\ HydratedTurn(t).phase = "Runnable"
               /\ HydratedTurn(t).attention = turns[t].attention
               /\ HydratedTurn(t).cont = turns[t].cont
               /\ HydratedTurn(t).epoch = None
               /\ HydratedTurn(t).gen = turns[t].gen
               /\ HydratedTurn(t).cgen = turns[t].cgen
               /\ HydratedTurn(t).rev = turns[t].rev + 1
    <2> DEFINE p == q(t)
    <2>1. HydratedTurn(t) = [p EXCEPT !.phase = "Runnable",
                                      !.rev = turns[t].rev + 1]
      BY <1>4 DEF HydratedTurn, Recovered
    <2>2. /\ p \in TurnRecords /\ p.epoch = None /\ p.gen = turns[t].gen
          /\ p.cgen = turns[t].cgen /\ p.cont = turns[t].cont
          /\ p.attention = turns[t].attention
      BY <1>1
    <2>3. turns[t].rev + 1 \in Revisions
      BY <1>2, <1>4
    <2> HIDE DEF p
    <2> QED BY <2>1, <2>2, <2>3 DEF TurnRecords, Phases, RunnablePhases
  <1>5. ASSUME NEW t \in Turns, ~Interrupted(t), ~Recovered(t)
        PROVE  HydratedTurn(t) = turns[t]
    BY <1>5 DEF HydratedTurn
  <1>6. turns' \in [Turns -> TurnRecords]
    <2>1. \A t \in Turns : HydratedTurn(t) \in TurnRecords
      BY <1>1, <1>3, <1>4, <1>5
    <2> QED BY <2>1 DEF HydrateLogicalTurns
  <1> QED BY <1>1, <1>3, <1>4, <1>5, <1>6, SMT

LEMMA HydrateType ==
    ASSUME StoreTypeOK, HydrateLogicalTurns
    PROVE  StoreTypeOK'
  <1>2. turns' \in [Turns -> TurnRecords]
    BY HydrateEffect
  <1>3. ops' \subseteq Operations
    BY SetOperationPhaseType, SMT
    DEF HydrateLogicalTurns, StoreTypeOK, LeasedHostTools, OperationPhases
  <1>4. ASSUME NEW t \in Turns, Interrupted(t) \/ Recovered(t)
        PROVE  turns[t].rev + 1 \in Revisions
    BY <1>4, BoundsAssumption, SMT
    DEF HydrateLogicalTurns, StoreTypeOK, TurnRecords, Revisions
  <1>5. outbox' \subseteq Lifecycle
    BY <1>4, SMT DEF HydrateLogicalTurns, StoreTypeOK, Lifecycle, Event,
                LifecycleKinds
  <1>6. ticket' \in [Turns -> Nat \cup {None}]
    BY DEF HydrateLogicalTurns, StoreTypeOK, TurnRecords
  <1> QED BY <1>2, <1>3, <1>5, <1>6 DEF HydrateLogicalTurns, StoreTypeOK

(* Every step of the store keeps every table typed. *)
LEMMA StoreTypeStep ==
    ASSUME StoreTypeOK, [StoreNext]_storeVars
    PROVE  StoreTypeOK'
  <1>1. ASSUME NEW t \in Turns, NEW s \in Sessions,
               InsertLogicalTurnAdmission(t, s)
        PROVE  StoreTypeOK'
    <2>1. [turn |-> t, seq |-> 0, parent |-> None, epoch |-> None]
              \in Checkpoints
      BY DEF Checkpoints
    <2> QED BY <1>1, <2>1, AdmissionEffect
            DEF InsertLogicalTurnAdmission, StoreTypeOK, TurnStep
  <1>2. ASSUME NEW t \in Turns, NEW inst \in Instances,
               ClaimLogicalTurn(t, inst)
        PROVE  StoreTypeOK'
    <2>1. NewClaim(t, inst) \in Claims
      BY <1>2, ClaimTypes DEF ClaimLogicalTurn, UpdateTurn
    <2> QED BY <1>2, <2>1, ClaimEffect
            DEF ClaimLogicalTurn, StoreTypeOK, TurnStep
  <1>3. ASSUME NEW c \in claims, YieldLogicalTurn(c)
        PROVE  StoreTypeOK'
    <2>1. NextCheckpoint(c) \in Checkpoints /\ c.cont + 1 \in Nat
      BY ClaimTypes DEF StoreTypeOK
    <2> QED BY <1>3, <2>1, YieldEffect
            DEF YieldLogicalTurn, StoreTypeOK, TurnStep
  <1>4. ASSUME NEW c \in claims, NEW a \in BrainAttention,
               RequireLogicalTurnAttention(c, a)
        PROVE  StoreTypeOK'
    <2>1. NextCheckpoint(c) \in Checkpoints
      BY ClaimTypes DEF StoreTypeOK
    <2> QED BY <1>4, <2>1, AttentionEffect
            DEF RequireLogicalTurnAttention, StoreTypeOK, TurnStep
  <1>5. ASSUME NEW c \in claims, NEW outcome \in {"Completed", "Failed"},
               CompleteLogicalTurn(c, outcome)
        PROVE  StoreTypeOK'
    BY <1>5, CompleteEffect DEF CompleteLogicalTurn, StoreTypeOK, TurnStep
  <1>6. ASSUME NEW c \in claims, NEW kind \in OperationKinds,
               NEW slot \in Slots, NEW attempt \in Attempts,
               LeaseLogicalTurnOperation(c, kind, slot, attempt)
        PROVE  StoreTypeOK'
    <2>1. NewOperation(c, kind, slot, attempt) \in Operations
      BY ClaimTypes DEF StoreTypeOK
    <2> QED BY <1>6, <2>1 DEF LeaseLogicalTurnOperation, StoreTypeOK
  <1>7. ASSUME NEW c \in claims, NEW o \in ops,
               CompleteLogicalTurnOperation(c, o)
        PROVE  StoreTypeOK'
    <2>1. PICK phase \in OperationPhases : ops' = SetOperationPhase({o}, phase)
      BY <1>7 DEF CompleteLogicalTurnOperation, CompletionPhases,
                  OperationPhases
    <2>2. ops' \subseteq Operations
      BY <2>1, SetOperationPhaseType DEF StoreTypeOK
    <2> QED BY <1>7, <2>2 DEF CompleteLogicalTurnOperation, StoreTypeOK
  <1>8. ASSUME NEW t \in Turns, NEW action,
               ResolveLogicalTurnAttention(t, action)
        PROVE  StoreTypeOK'
    <2>1. ops' \subseteq Operations
      BY <1>8, SetOperationPhaseType, SMT
      DEF ResolveLogicalTurnAttention, ReconcileUnknownHostToolOperation,
          StoreTypeOK, UnknownHostTools, OperationPhases
    <2>2. turns[t].cont \in Nat
      BY DEF StoreTypeOK, TurnRecords
    <2> QED BY <1>8, <2>1, <2>2, ResolveEffect
            DEF ResolveLogicalTurnAttention, StoreTypeOK, TurnStep
  <1>9. ASSUME NEW t \in Turns, NEW key \in CancelKeys,
               CancelLogicalTurn(t, key)
        PROVE  StoreTypeOK'
    <2>1. CancelReceipt(t, key) \in Receipts
      BY SMT DEF CancelReceipt, Receipts, Terminal
    <2>2. CASE Terminal(t)
      BY <1>9, <2>1, <2>2 DEF CancelLogicalTurn, StoreTypeOK
    <2>3. CASE ~Terminal(t)
      BY <1>9, <2>1, <2>3, CancelEffect
      DEF CancelLogicalTurn, StoreTypeOK, TurnStep
    <2> QED BY <2>2, <2>3
  <1>10. ASSUME NEW e \in outbox, MarkLogicalTurnOutboxDelivered(e)
         PROVE  StoreTypeOK'
    BY <1>10 DEF MarkLogicalTurnOutboxDelivered, StoreTypeOK, PendingOutbox
  <1>11. CASE UNCHANGED storeVars
    BY <1>11 DEF StoreTypeOK, storeVars
  <1> QED BY <1>1, <1>2, <1>3, <1>4, <1>5, <1>6, <1>7, <1>8, <1>9, <1>10,
             <1>11, HydrateType
          DEF StoreNext, ClaimHolderStep, OperatorStep

LEMMA StoreTypeInit == StoreInit => StoreTypeOK
  BY BoundsAssumption, SMT DEF StoreInit, StoreTypeOK, AbsentTurn, TurnRecords,
                          Phases, Revisions

(* The type invariant: the tables of the store stay typed. *)
THEOREM StoreTypeCorrect == StoreSpec => []StoreTypeOK
  <1>1. StoreTypeOK /\ [StoreNext]_storeVars => StoreTypeOK'
    BY StoreTypeStep
  <1> QED BY <1>1, StoreTypeInit, PTL DEF StoreSpec

(***************************************************************************)
(* Ownership.  No two claims of a turn were committed at the same          *)
(* revision, none is ahead of the turn, and a Running turn has the one     *)
(* committed at its revision: this is the strengthening that makes         *)
(* SingleOwner inductive.                                                  *)
(***************************************************************************)
ClaimsFenced ==
    /\ \A c \in claims : c.rev <= turns[c.turn].rev
    /\ \A c, d \in claims : c.turn = d.turn /\ c.rev = d.rev => c = d
    /\ \A t \in Turns : turns[t].phase = "Running" =>
          \E c \in claims : c.turn = t /\ RequireRunningFence(c)
    /\ \A c \in claims : c.epoch.turn = c.turn /\ c.epoch.cont = c.cont
                         /\ c.epoch.rev + 1 = c.rev

(* Every step but a claim leaves each turn as it was, or advances its      *)
(* revision and does not make it Running.                                  *)
OwnershipQuiet ==
    /\ claims' = claims
    /\ \A t \in Turns :
          \/ turns'[t] = turns[t]
          \/ turns'[t].rev = turns[t].rev + 1 /\ turns'[t].phase # "Running"

LEMMA StoreStepOwnership ==
    ASSUME StoreTypeOK, [StoreNext]_storeVars
    PROVE  \/ OwnershipQuiet
           \/ \E t \in Turns, inst \in Instances : ClaimLogicalTurn(t, inst)
  <1>1. ASSUME NEW t \in Turns, NEW s \in Sessions,
               InsertLogicalTurnAdmission(t, s)
        PROVE  OwnershipQuiet
    BY <1>1, AdmissionEffect
    DEF InsertLogicalTurnAdmission, OwnershipQuiet, TurnStep
  <1>2. ASSUME NEW c \in claims, YieldLogicalTurn(c)
        PROVE  OwnershipQuiet
    BY <1>2, YieldEffect DEF YieldLogicalTurn, OwnershipQuiet, TurnStep
  <1>3. ASSUME NEW c \in claims, NEW a \in BrainAttention,
               RequireLogicalTurnAttention(c, a)
        PROVE  OwnershipQuiet
    BY <1>3, AttentionEffect
    DEF RequireLogicalTurnAttention, OwnershipQuiet, TurnStep
  <1>4. ASSUME NEW c \in claims, NEW outcome \in {"Completed", "Failed"},
               CompleteLogicalTurn(c, outcome)
        PROVE  OwnershipQuiet
    BY <1>4, CompleteEffect DEF CompleteLogicalTurn, OwnershipQuiet, TurnStep
  <1>5. ASSUME NEW c \in claims, NEW kind \in OperationKinds,
               NEW slot \in Slots, NEW attempt \in Attempts,
               LeaseLogicalTurnOperation(c, kind, slot, attempt)
        PROVE  OwnershipQuiet
    BY <1>5 DEF LeaseLogicalTurnOperation, OwnershipQuiet
  <1>6. ASSUME NEW c \in claims, NEW o \in ops,
               CompleteLogicalTurnOperation(c, o)
        PROVE  OwnershipQuiet
    BY <1>6 DEF CompleteLogicalTurnOperation, OwnershipQuiet
  <1>7. ASSUME NEW t \in Turns, NEW action,
               ResolveLogicalTurnAttention(t, action)
        PROVE  OwnershipQuiet
    BY <1>7, ResolveEffect
    DEF ResolveLogicalTurnAttention, OwnershipQuiet, TurnStep
  <1>8. ASSUME NEW t \in Turns, NEW key \in CancelKeys,
               CancelLogicalTurn(t, key)
        PROVE  OwnershipQuiet
    <2>1. CASE Terminal(t)
      BY <1>8, <2>1 DEF CancelLogicalTurn, OwnershipQuiet
    <2>2. CASE ~Terminal(t)
      BY <1>8, <2>2, CancelEffect
      DEF CancelLogicalTurn, OwnershipQuiet, TurnStep
    <2> QED BY <2>1, <2>2
  <1>9. CASE HydrateLogicalTurns
    <2>1. claims' = claims
      BY <1>9 DEF HydrateLogicalTurns
    <2> QED BY <1>9, <2>1, HydrateEffect DEF OwnershipQuiet
  <1>10. ASSUME NEW e \in outbox, MarkLogicalTurnOutboxDelivered(e)
         PROVE  OwnershipQuiet
    BY <1>10 DEF MarkLogicalTurnOutboxDelivered, OwnershipQuiet
  <1>11. CASE UNCHANGED storeVars
    BY <1>11 DEF OwnershipQuiet, storeVars
  <1> QED BY <1>1, <1>2, <1>3, <1>4, <1>5, <1>6, <1>7, <1>8, <1>9, <1>10,
             <1>11
          DEF StoreNext, ClaimHolderStep, OperatorStep

LEMMA ClaimsFencedStep ==
    ASSUME StoreTypeOK, ClaimsFenced, [StoreNext]_storeVars
    PROVE  ClaimsFenced'
  <1>0. /\ \A t \in Turns : turns[t].rev \in Nat
        /\ \A c \in claims : c.turn \in Turns /\ c.rev \in Nat
    BY BoundsAssumption, SMT DEF StoreTypeOK, TurnRecords, Claims, Revisions
  <1>1. CASE OwnershipQuiet
    BY <1>0, <1>1, SMT DEF OwnershipQuiet, ClaimsFenced, RequireRunningFence
  <1>2. ASSUME NEW t \in Turns, NEW inst \in Instances,
               ClaimLogicalTurn(t, inst)
        PROVE  ClaimsFenced'
    <2>0. PICK n : n = NewClaim(t, inst)
      OBVIOUS
    <2>1. /\ claims' = claims \cup {n}
          /\ TurnStep(t, {"Claimed"})
          /\ turns'[t].phase = "Running"
          /\ turns'[t].epoch = ExecutionEpochId(t, inst)
          /\ turns'[t].gen = turns[t].gen + 1
          /\ turns'[t].cgen = turns[t].cgen
      BY <1>2, <2>0, ClaimEffect DEF ClaimLogicalTurn
    <2>2. /\ n.turn = t /\ n.rev = turns[t].rev + 1
          /\ n.epoch = ExecutionEpochId(t, inst)
          /\ n.gen = turns[t].gen + 1 /\ n.cgen = turns[t].cgen
          /\ n.cont = turns[t].cont
      BY <2>0 DEF NewClaim
    <2>3. /\ n.epoch.turn = n.turn /\ n.epoch.cont = n.cont
          /\ n.epoch.rev + 1 = n.rev
      BY <2>2, SMT DEF ExecutionEpochId
    <2>4. RequireRunningFence(n)'
      BY <2>1, <2>2 DEF RequireRunningFence, TurnStep
    <2>5. \A c \in claims' : c.rev <= turns'[c.turn].rev
      BY <1>0, <2>1, <2>2, SMT DEF ClaimsFenced, TurnStep
    <2>6. \A c, d \in claims' : c.turn = d.turn /\ c.rev = d.rev => c = d
      BY <1>0, <2>1, <2>2, SMT DEF ClaimsFenced
    <2>7. \A u \in Turns : turns'[u].phase = "Running" =>
             \E c \in claims' : c.turn = u /\ RequireRunningFence(c)'
      <3>1. ASSUME NEW u \in Turns, u # t, turns'[u].phase = "Running"
            PROVE  \E c \in claims' : c.turn = u /\ RequireRunningFence(c)'
        BY <2>1, <3>1, SMT DEF ClaimsFenced, RequireRunningFence, TurnStep
      <3> QED BY <2>1, <2>2, <2>4, <3>1
    <2> QED BY <2>1, <2>3, <2>5, <2>6, <2>7 DEF ClaimsFenced
  <1> QED BY <1>1, <1>2, StoreStepOwnership

(* The fence admits one owner: of all the claims the store handed out, at  *)
(* most one can commit for a turn, and one can while the turn is Running.  *)
THEOREM OneOwnerPerTurn == StoreSpec => []SingleOwner
  <1>1. StoreInit => ClaimsFenced
    BY SMT DEF StoreInit, ClaimsFenced, AbsentTurn
  <1>2. ClaimsFenced => SingleOwner
    BY SMT DEF ClaimsFenced, SingleOwner, RequireRunningFence
  <1>3. StoreTypeOK /\ ClaimsFenced /\ [StoreNext]_storeVars => ClaimsFenced'
    BY ClaimsFencedStep
  <1> QED BY <1>1, <1>2, <1>3, StoreTypeCorrect, PTL DEF StoreSpec

(***************************************************************************)
(* The refinement.  Beyond ClaimsFenced it needs that a turn has an epoch  *)
(* only while it is Running, and no continuation before it exists.         *)
(***************************************************************************)
IdleHasNoEpoch ==
    \A t \in Turns : /\ turns[t].phase # "Running" => turns[t].epoch = None
                     /\ turns[t].phase = "Absent" => turns[t].cont = 0

(* The record of t becomes one with the given phase, epoch and             *)
(* continuation, and no other record changes.                              *)
Becomes(t, phase, epoch, cont) ==
    /\ \A u \in Turns : u # t => turns'[u] = turns[u]
    /\ turns'[t].phase = phase /\ turns'[t].epoch = epoch /\ turns'[t].cont = cont

LEMMA AbstractMove ==
    ASSUME NEW t \in Turns, NEW phase, NEW cont, claims' = claims,
           Becomes(t, phase, None, cont)
    PROVE  /\ Abstract!Move(t, StatusOf(phase))
           /\ Progress' = [Progress EXCEPT ![t] = cont]
           /\ cont = turns[t].cont => UNCHANGED Progress
  <1>1. Status' = [Status EXCEPT ![t] = StatusOf(phase)]
    BY DEF Becomes, Status
  <1>2. Owner' = [Owner EXCEPT ![t] = None]
    BY DEF Becomes, Owner
  <1>3. Progress' = [Progress EXCEPT ![t] = cont]
    BY DEF Becomes, Progress
  <1>4. Spent' = Spent
    BY DEF Spent
  <1>5. cont = turns[t].cont => UNCHANGED Progress
    BY DEF Becomes, Progress
  <1> QED BY <1>1, <1>2, <1>3, <1>4, <1>5 DEF Abstract!Move

LEMMA StatusValue ==
    /\ StatusOf("Absent") = "absent"
    /\ \A p \in RunnablePhases : StatusOf(p) = "waiting"
    /\ StatusOf("Running") = "owned"
    /\ StatusOf("AttentionRequired") = "blocked"
    /\ \A p \in TerminalPhases : StatusOf(p) = "ended"
    /\ \A p \in Phases : p # "Absent" /\ p \notin TerminalPhases =>
          StatusOf(p) \in {"waiting", "owned", "blocked"}
    /\ \A p \in Phases : StatusOf(p) = "owned" <=> p = "Running"
    /\ \A p \in Phases : StatusOf(p) \in Abstract!Statuses
  BY DEF StatusOf, RunnablePhases, TerminalPhases, Phases, Abstract!Statuses

LEMMA AbstractInit == StoreInit => Abstract!Init
  BY SMT DEF StoreInit, Abstract!Init, AbsentTurn, Status, Owner, Progress, Spent, StatusOf

LEMMA AbstractStep ==
    ASSUME StoreTypeOK, ClaimsFenced, IdleHasNoEpoch, [StoreNext]_storeVars
    PROVE  [Abstract!Next]_Abstract!lifecycleVars
  <1>0. \A t \in Turns : turns[t].phase \in Phases /\ turns[t].cont \in Nat
                         /\ Status[t] = StatusOf(turns[t].phase) /\ Progress[t] = turns[t].cont
    BY DEF StoreTypeOK, TurnRecords, Status, Progress
  <1>1. ASSUME NEW t \in Turns, NEW s \in Sessions, InsertLogicalTurnAdmission(t, s)
        PROVE  Abstract!Admit(t)
    <2>1. /\ Becomes(t, "Admitted", None, turns[t].cont)
          /\ claims' = claims /\ turns[t].phase = "Absent"
      BY <1>1, AdmissionEffect
      DEF InsertLogicalTurnAdmission, Becomes, TurnStep, Exists, IdleHasNoEpoch
    <2>2. StatusOf("Admitted") = "waiting"
      BY StatusValue DEF RunnablePhases
    <2> QED BY <1>0, <2>1, <2>2, AbstractMove, StatusValue, SMTT(30) DEF Abstract!Admit
  <1>2. ASSUME NEW t \in Turns, NEW inst \in Instances, ClaimLogicalTurn(t, inst)
        PROVE  Abstract!Take(t)
    <2>0. PICK e \in Epochs : e = ExecutionEpochId(t, inst)
      BY <1>2, ClaimEffect
    <2>1. /\ Becomes(t, "Running", e, turns[t].cont)
          /\ turns[t].phase \in RunnablePhases
          /\ claims' = claims \cup {NewClaim(t, inst)}
      BY <1>2, <2>0, ClaimEffect DEF ClaimLogicalTurn, Becomes, TurnStep
    <2>2. e \notin Spent
      <3> SUFFICES ASSUME NEW c \in claims, c.epoch = e PROVE FALSE
        BY DEF Spent
      <3>1. /\ c.epoch.turn = c.turn /\ c.epoch.rev + 1 = c.rev
            /\ c.rev <= turns[c.turn].rev
        BY DEF ClaimsFenced
      <3>2. e.turn = t /\ e.rev = turns[t].rev
        BY <2>0, SMT DEF ExecutionEpochId
      <3>3. turns[t].rev \in Nat
        BY BoundsAssumption, SMT DEF StoreTypeOK, TurnRecords, Revisions
      <3> QED BY <3>1, <3>2, <3>3, SMT
    <2>3. Status' = [Status EXCEPT ![t] = "owned"]
      <3>1. StatusOf(turns'[t].phase) = "owned"
        BY <2>1, StatusValue DEF Becomes
      <3>2. \A u \in Turns : u # t => StatusOf(turns'[u].phase) = StatusOf(turns[u].phase)
        BY <2>1 DEF Becomes
      <3> QED BY <3>1, <3>2 DEF Status
    <2>4. Owner' = [Owner EXCEPT ![t] = e] /\ Owner'[t] = e
      BY <2>1 DEF Owner, Becomes
    <2>5. Progress' = Progress
      BY <2>1 DEF Progress, Becomes
    <2>6. Spent' = Spent \cup {e}
      <3>1. NewClaim(t, inst).epoch = e
        BY <2>0 DEF NewClaim
      <3> QED BY <2>1, <3>1 DEF Spent
    <2>7. Status[t] = "waiting"
      BY <1>0, <2>1, StatusValue
    <2> QED BY <2>2, <2>3, <2>4, <2>5, <2>6, <2>7 DEF Abstract!Take
  <1>3. ASSUME NEW c \in claims,
               YieldLogicalTurn(c) \/ \E a \in BrainAttention : RequireLogicalTurnAttention(c, a)
        PROVE  c.turn \in Turns /\ Abstract!Commit(c.turn)
    <2>1. c.turn \in Turns /\ turns[c.turn].phase = "Running" /\ c.cont = turns[c.turn].cont
      BY <1>3 DEF StoreTypeOK, Claims, YieldLogicalTurn, RequireLogicalTurnAttention,
         RequireRunningFence, ValidateCheckpoint
    <2>2. claims' = claims
      BY <1>3 DEF YieldLogicalTurn, RequireLogicalTurnAttention
    <2>3. PICK phase \in {"Yielded", "AttentionRequired"} :
             Becomes(c.turn, phase, None, turns[c.turn].cont + 1)
      BY <1>3, <2>1, YieldEffect, AttentionEffect, SMTT(30) DEF Becomes, TurnStep
    <2>4. StatusOf(phase) \in {"waiting", "blocked"}
      BY <2>3, StatusValue DEF RunnablePhases
    <2>5. Status[c.turn] = "owned" /\ Progress[c.turn] = turns[c.turn].cont
      BY <1>0, <2>1, StatusValue
    <2> QED BY <2>1, <2>2, <2>3, <2>4, <2>5, AbstractMove DEF Abstract!Commit
  <1>4. ASSUME NEW c \in claims, NEW outcome \in {"Completed", "Failed"},
               CompleteLogicalTurn(c, outcome)
        PROVE  c.turn \in Turns /\ Abstract!End(c.turn)
    <2>1. c.turn \in Turns /\ turns[c.turn].phase = "Running" /\ claims' = claims
      BY <1>4 DEF StoreTypeOK, Claims, CompleteLogicalTurn, RequireRunningFence
    <2>2. Becomes(c.turn, outcome, None, turns[c.turn].cont)
      BY <1>4, CompleteEffect DEF Becomes, TurnStep
    <2>3. StatusOf(outcome) = "ended" /\ Status[c.turn] = "owned"
      BY <1>0, <2>1, StatusValue DEF TerminalPhases
    <2> QED BY <2>1, <2>2, <2>3, AbstractMove, SMT DEF Abstract!End
  <1>5. ASSUME NEW t \in Turns, NEW action, ResolveLogicalTurnAttention(t, action)
        PROVE  Abstract!Unblock(t)
    <2>1. turns[t].phase = "AttentionRequired" /\ claims' = claims
      BY <1>5 DEF ResolveLogicalTurnAttention
    <2>2. Becomes(t, "Runnable", None, turns[t].cont)
      BY <1>5, <2>1, ResolveEffect DEF Becomes, TurnStep, IdleHasNoEpoch
    <2>3. StatusOf("Runnable") = "waiting" /\ Status[t] = "blocked"
      BY <1>0, <2>1, StatusValue DEF RunnablePhases
    <2> QED BY <2>1, <2>2, <2>3, AbstractMove DEF Abstract!Unblock
  <1>6. ASSUME NEW t \in Turns, NEW key \in CancelKeys, CancelLogicalTurn(t, key)
        PROVE  Abstract!End(t) \/ UNCHANGED <<turns, claims>>
    <2>1. CASE Terminal(t)
      BY <1>6, <2>1 DEF CancelLogicalTurn
    <2>2. CASE ~Terminal(t)
      <3>1. claims' = claims /\ Becomes(t, "Cancelled", None, turns[t].cont)
        BY <1>6, <2>2, CancelEffect DEF CancelLogicalTurn, Becomes, TurnStep
      <3>2. turns[t].phase # "Absent" /\ turns[t].phase \notin TerminalPhases
        BY <1>6, <2>2 DEF CancelLogicalTurn, Exists, Terminal
      <3>3. StatusOf("Cancelled") = "ended" /\ Status[t] \in {"waiting", "owned", "blocked"}
        BY <1>0, <3>2, StatusValue DEF TerminalPhases
      <3> QED BY <3>1, <3>3, AbstractMove DEF Abstract!End
    <2> QED BY <2>1, <2>2
  <1>7. CASE HydrateLogicalTurns
    <2>1. claims' = claims
      BY <1>7 DEF HydrateLogicalTurns
    <2>2. ASSUME NEW t \in Turns
          PROVE  /\ turns'[t].epoch = None /\ turns'[t].cont = turns[t].cont
                 /\ turns'[t].phase \in Phases
                 /\ IF turns[t].phase = "Running"
                    THEN StatusOf(turns'[t].phase) \in {"waiting", "blocked"}
                    ELSE StatusOf(turns'[t].phase) = StatusOf(turns[t].phase)
      <3>0. turns' \in [Turns -> TurnRecords]
        BY <1>7, HydrateEffect
      <3>1. turns'[t].phase \in Phases
        BY <3>0 DEF TurnRecords
      <3>2. CASE Interrupted(t)
        BY <1>7, <3>1, <3>2, HydrateEffect, StatusValue, SMT DEF Interrupted
      <3>3. CASE Recovered(t)
        <4>1. /\ turns'[t].phase = "Runnable" /\ turns'[t].epoch = None
              /\ turns'[t].cont = turns[t].cont
          BY <1>7, <3>3, HydrateEffect
        <4>2. turns[t].phase \in {"Admitted", "Yielded", "Running"}
          BY <3>3 DEF Recovered
        <4> QED BY <3>1, <4>1, <4>2, StatusValue DEF RunnablePhases
      <3>4. CASE ~Interrupted(t) /\ ~Recovered(t)
        <4>1. turns'[t] = turns[t]
          BY <1>7, <3>4, HydrateEffect
        <4>2. turns[t].phase # "Running"
          BY <3>4 DEF Recovered
        <4> QED BY <3>1, <4>1, <4>2 DEF IdleHasNoEpoch
      <3> QED BY <3>2, <3>3, <3>4
    <2>3. Status' \in [Turns -> Abstract!Statuses]
      BY <2>2, StatusValue DEF Status
    <2>4. \A t \in Turns : IF Status[t] = "owned" THEN Status'[t] \in {"waiting", "blocked"}
                           ELSE Status'[t] = Status[t]
      BY <1>0, <2>2, StatusValue, SMT DEF Status
    <2>5. Owner' = [t \in Turns |-> None] /\ Progress' = Progress /\ Spent' = Spent
      BY <2>1, <2>2 DEF Owner, Progress, Spent
    <2>6. Abstract!Restart
      BY <2>3, <2>4, <2>5 DEF Abstract!Restart
    <2> QED BY <2>6 DEF Abstract!Next
  <1>8. CASE UNCHANGED <<turns, claims>>
    BY <1>8 DEF Abstract!lifecycleVars, Status, Owner, Progress, Spent
  <1>9. ASSUME NEW c \in claims, NEW kind \in OperationKinds, NEW slot \in Slots,
               NEW attempt \in Attempts, LeaseLogicalTurnOperation(c, kind, slot, attempt)
        PROVE  UNCHANGED <<turns, claims>>
    BY <1>9 DEF LeaseLogicalTurnOperation
  <1>10. ASSUME NEW c \in claims, NEW o \in ops, CompleteLogicalTurnOperation(c, o)
         PROVE  UNCHANGED <<turns, claims>>
    BY <1>10 DEF CompleteLogicalTurnOperation
  <1>11. ASSUME NEW e \in outbox, MarkLogicalTurnOutboxDelivered(e)
         PROVE  UNCHANGED <<turns, claims>>
    BY <1>11 DEF MarkLogicalTurnOutboxDelivered
  <1>12. UNCHANGED storeVars => UNCHANGED <<turns, claims>>
    BY DEF storeVars
  <1> QED BY <1>1, <1>2, <1>3, <1>4, <1>5, <1>6, <1>7, <1>8, <1>9, <1>10, <1>11, <1>12
         DEF StoreNext, ClaimHolderStep, OperatorStep, Abstract!Next

LEMMA IdleHasNoEpochStep ==
    ASSUME StoreTypeOK, IdleHasNoEpoch, [StoreNext]_storeVars
    PROVE  IdleHasNoEpoch'
  <1> DEFINE Idle(t) == /\ turns'[t].phase # "Running" => turns'[t].epoch = None
                        /\ turns'[t].phase # "Absent"
  <1>1. ASSUME NEW t \in Turns, Idle(t), \A u \in Turns : u # t => turns'[u] = turns[u]
        PROVE  IdleHasNoEpoch'
    BY <1>1 DEF IdleHasNoEpoch
  <1>2. ASSUME NEW t \in Turns, NEW s \in Sessions, InsertLogicalTurnAdmission(t, s)
        PROVE  IdleHasNoEpoch'
    BY <1>1, <1>2, AdmissionEffect DEF TurnStep
  <1>3. ASSUME NEW t \in Turns, NEW inst \in Instances, ClaimLogicalTurn(t, inst)
        PROVE  IdleHasNoEpoch'
    BY <1>1, <1>3, ClaimEffect DEF TurnStep
  <1>4. ASSUME NEW c \in claims,
               YieldLogicalTurn(c) \/ \E a \in BrainAttention : RequireLogicalTurnAttention(c, a)
        PROVE  IdleHasNoEpoch'
    <2>1. c.turn \in Turns
      BY DEF StoreTypeOK, Claims
    <2> QED BY <1>1, <1>4, <2>1, YieldEffect, AttentionEffect DEF TurnStep
  <1>5. ASSUME NEW c \in claims, NEW outcome \in {"Completed", "Failed"},
               CompleteLogicalTurn(c, outcome)
        PROVE  IdleHasNoEpoch'
    <2>1. c.turn \in Turns
      BY DEF StoreTypeOK, Claims
    <2> QED BY <1>1, <1>5, <2>1, CompleteEffect DEF TurnStep
  <1>6. ASSUME NEW t \in Turns, NEW action, ResolveLogicalTurnAttention(t, action)
        PROVE  IdleHasNoEpoch'
    <2>1. turns[t].epoch = None
      BY <1>6 DEF ResolveLogicalTurnAttention, IdleHasNoEpoch
    <2> QED BY <1>1, <1>6, <2>1, ResolveEffect DEF TurnStep
  <1>7. CASE UNCHANGED turns
    BY <1>7 DEF IdleHasNoEpoch
  <1>8. ASSUME NEW t \in Turns, NEW key \in CancelKeys, CancelLogicalTurn(t, key)
        PROVE  IdleHasNoEpoch'
    <2>1. CASE Terminal(t)
      BY <1>7, <1>8, <2>1 DEF CancelLogicalTurn
    <2>2. CASE ~Terminal(t)
      BY <1>1, <1>8, <2>2, CancelEffect DEF TurnStep
    <2> QED BY <2>1, <2>2
  <1>9. CASE HydrateLogicalTurns
    <2> SUFFICES ASSUME NEW t \in Turns
                 PROVE  /\ turns'[t].phase # "Running" => turns'[t].epoch = None
                        /\ turns'[t].phase = "Absent" => turns'[t].cont = 0
      BY DEF IdleHasNoEpoch
    <2>1. CASE Interrupted(t) \/ Recovered(t)
      BY <1>9, <2>1, HydrateEffect
    <2>2. CASE ~Interrupted(t) /\ ~Recovered(t)
      BY <1>9, <2>2, HydrateEffect, SMTT(30) DEF IdleHasNoEpoch
    <2> QED BY <2>1, <2>2
  <1>10. ASSUME NEW c \in claims, NEW kind \in OperationKinds, NEW slot \in Slots,
                NEW attempt \in Attempts, LeaseLogicalTurnOperation(c, kind, slot, attempt)
         PROVE  IdleHasNoEpoch'
    BY <1>7, <1>10 DEF LeaseLogicalTurnOperation
  <1>11. ASSUME NEW c \in claims, NEW o \in ops, CompleteLogicalTurnOperation(c, o)
         PROVE  IdleHasNoEpoch'
    BY <1>7, <1>11 DEF CompleteLogicalTurnOperation
  <1>12. ASSUME NEW e \in outbox, MarkLogicalTurnOutboxDelivered(e)
         PROVE  IdleHasNoEpoch'
    BY <1>7, <1>12 DEF MarkLogicalTurnOutboxDelivered
  <1>13. UNCHANGED storeVars => UNCHANGED turns
    BY DEF storeVars
  <1> QED BY <1>2, <1>3, <1>4, <1>5, <1>6, <1>7, <1>8, <1>9, <1>10, <1>11, <1>12, <1>13
         DEF StoreNext, ClaimHolderStep, OperatorStep

(* The store implements TurnLifecycle: whatever claims are presented, and  *)
(* whenever the service restarts, a turn has one owner, never the same     *)
(* twice, only the owner advances it, and a terminal turn never changes.   *)
THEOREM StoreImplementsTurnLifecycle == StoreSpec => ImplementsTurnLifecycle
  <1>1. StoreInit => Abstract!Init /\ ClaimsFenced /\ IdleHasNoEpoch
    BY AbstractInit, SMTT(30) DEF StoreInit, ClaimsFenced, IdleHasNoEpoch, AbsentTurn
  <1>2. StoreTypeOK /\ ClaimsFenced /\ IdleHasNoEpoch /\ [StoreNext]_storeVars
        => /\ ClaimsFenced' /\ IdleHasNoEpoch'
           /\ [Abstract!Next]_Abstract!lifecycleVars
    BY ClaimsFencedStep, IdleHasNoEpochStep, AbstractStep
  <1> QED BY <1>1, <1>2, StoreTypeCorrect, PTL
         DEF StoreSpec, ImplementsTurnLifecycle, Abstract!Spec

(***************************************************************************)
(* Tickets.                                                                *)
(***************************************************************************)
TicketOf(t) == IF turns[t].phase \in RunnablePhases THEN turns[t].cont ELSE None

(* A waiting turn always has its ticket and no other turn has one: nothing *)
(* that is runnable is forgotten, nothing else is started.                 *)
THEOREM TicketsAreRunnable == StoreSpec => []TicketIffRunnable
  <1>1. StoreInit => TicketIffRunnable
    BY SMTT(30) DEF StoreInit, TicketIffRunnable, AbsentTurn, RunnablePhases
  <1>2. ASSUME StoreTypeOK, TicketIffRunnable, [StoreNext]_storeVars
        PROVE  TicketIffRunnable'
    <2>0. ticket \in [Turns -> Nat \cup {None}] /\ \A t \in Turns : ticket[t] = TicketOf(t)
      BY <1>2 DEF StoreTypeOK, TicketIffRunnable, TicketOf
    <2>1. ASSUME NEW t \in Turns, \A u \in Turns : u # t => turns'[u] = turns[u],
                 NEW x, ticket' = [ticket EXCEPT ![t] = x],
                 x = IF turns'[t].phase \in RunnablePhases THEN turns'[t].cont ELSE None
          PROVE  TicketIffRunnable'
      BY <2>0, <2>1 DEF TicketIffRunnable, TicketOf
    <2>2. ASSUME NEW t \in Turns, NEW s \in Sessions, InsertLogicalTurnAdmission(t, s)
          PROVE  TicketIffRunnable'
      <3>1. ticket' = [ticket EXCEPT ![t] = 0]
        BY <2>2 DEF InsertLogicalTurnAdmission
      <3> QED BY <1>2, <2>1, <2>2, <3>1, AdmissionEffect DEF TurnStep, RunnablePhases
    <2>3. ASSUME NEW t \in Turns, NEW inst \in Instances, ClaimLogicalTurn(t, inst)
          PROVE  TicketIffRunnable'
      <3>1. ticket' = [ticket EXCEPT ![t] = None]
        BY <2>3 DEF ClaimLogicalTurn
      <3> QED BY <1>2, <2>1, <2>3, <3>1, ClaimEffect DEF TurnStep, RunnablePhases
    <2>4. ASSUME NEW c \in claims, YieldLogicalTurn(c)
          PROVE  TicketIffRunnable'
      <3>1. c.turn \in Turns /\ ticket' = [ticket EXCEPT ![c.turn] = c.cont + 1]
        BY <1>2, <2>4 DEF YieldLogicalTurn, StoreTypeOK, Claims
      <3> QED BY <1>2, <2>1, <2>4, <3>1, YieldEffect DEF TurnStep, RunnablePhases
    <2>5. ASSUME NEW c \in claims, NEW a \in BrainAttention, RequireLogicalTurnAttention(c, a)
          PROVE  TicketIffRunnable'
      <3>1. c.turn \in Turns /\ ticket' = [ticket EXCEPT ![c.turn] = None]
        BY <1>2, <2>5 DEF RequireLogicalTurnAttention, StoreTypeOK, Claims
      <3> QED BY <1>2, <2>1, <2>5, <3>1, AttentionEffect DEF TurnStep, RunnablePhases
    <2>6. ASSUME NEW c \in claims, NEW outcome \in {"Completed", "Failed"},
                 CompleteLogicalTurn(c, outcome)
          PROVE  TicketIffRunnable'
      <3>1. c.turn \in Turns /\ ticket' = [ticket EXCEPT ![c.turn] = None]
        BY <1>2, <2>6 DEF CompleteLogicalTurn, StoreTypeOK, Claims
      <3>2. turns'[c.turn].phase = outcome /\ \A u \in Turns : u # c.turn => turns'[u] = turns[u]
        BY <1>2, <2>6, CompleteEffect DEF TurnStep
      <3>3. turns'[c.turn].phase \notin RunnablePhases
        BY <2>6, <3>2 DEF RunnablePhases
      <3> QED BY <2>1, <3>1, <3>2, <3>3
    <2>7. ASSUME NEW t \in Turns, NEW action, ResolveLogicalTurnAttention(t, action)
          PROVE  TicketIffRunnable'
      <3>1. ticket' = [ticket EXCEPT ![t] = turns[t].cont]
        BY <2>7 DEF ResolveLogicalTurnAttention
      <3> QED BY <1>2, <2>1, <2>7, <3>1, ResolveEffect DEF TurnStep, RunnablePhases
    <2>8. CASE UNCHANGED <<turns, ticket>>
      BY <1>2, <2>8 DEF TicketIffRunnable
    <2>9. ASSUME NEW t \in Turns, NEW key \in CancelKeys, CancelLogicalTurn(t, key)
          PROVE  TicketIffRunnable'
      <3>1. CASE Terminal(t)
        BY <2>8, <2>9, <3>1 DEF CancelLogicalTurn
      <3>2. CASE ~Terminal(t)
        BY <1>2, <2>1, <2>9, <3>2, CancelEffect, SMT DEF TurnStep, RunnablePhases
      <3> QED BY <3>1, <3>2
    <2>10. CASE HydrateLogicalTurns
      <3> SUFFICES ASSUME NEW t \in Turns
                   PROVE  ticket'[t] = IF turns'[t].phase \in RunnablePhases
                                       THEN turns'[t].cont ELSE None
        BY DEF TicketIffRunnable
      <3>1. ticket'[t] = IF Recovered(t) \/ turns[t].phase = "Runnable"
                         THEN turns[t].cont ELSE ticket[t]
        BY <2>10 DEF HydrateLogicalTurns
      <3>2. CASE Interrupted(t)
        <4>1. turns'[t].phase = "AttentionRequired" /\ turns[t].phase = "Running" /\ ~Recovered(t)
          BY <1>2, <2>10, <3>2, HydrateEffect DEF Interrupted, Recovered
        <4> QED BY <2>0, <3>1, <4>1 DEF TicketOf, RunnablePhases
      <3>3. CASE Recovered(t)
        <4>1. turns'[t].phase = "Runnable" /\ turns'[t].cont = turns[t].cont
          BY <1>2, <2>10, <3>3, HydrateEffect
        <4> QED BY <3>1, <3>3, <4>1 DEF RunnablePhases
      <3>4. CASE ~Interrupted(t) /\ ~Recovered(t)
        <4>1. turns'[t] = turns[t]
          BY <1>2, <2>10, <3>4, HydrateEffect
        <4> QED BY <2>0, <3>1, <3>4, <4>1 DEF TicketOf, RunnablePhases
      <3> QED BY <3>2, <3>3, <3>4
    <2>11. ASSUME NEW c \in claims, NEW kind \in OperationKinds, NEW slot \in Slots,
                  NEW attempt \in Attempts, LeaseLogicalTurnOperation(c, kind, slot, attempt)
           PROVE  TicketIffRunnable'
      BY <2>8, <2>11 DEF LeaseLogicalTurnOperation
    <2>12. ASSUME NEW c \in claims, NEW o \in ops, CompleteLogicalTurnOperation(c, o)
           PROVE  TicketIffRunnable'
      BY <2>8, <2>12 DEF CompleteLogicalTurnOperation
    <2>13. ASSUME NEW e \in outbox, MarkLogicalTurnOutboxDelivered(e)
           PROVE  TicketIffRunnable'
      BY <2>8, <2>13 DEF MarkLogicalTurnOutboxDelivered
    <2>14. UNCHANGED storeVars => UNCHANGED <<turns, ticket>>
      BY DEF storeVars
    <2> QED BY <1>2, <2>2, <2>3, <2>4, <2>5, <2>6, <2>7, <2>8, <2>9, <2>10, <2>11, <2>12, <2>13,
               <2>14 DEF StoreNext, ClaimHolderStep, OperatorStep
  <1> QED BY <1>1, <1>2, StoreTypeCorrect, PTL DEF StoreSpec

(***************************************************************************)
(* The chain of checkpoints.  CheckpointChain is not inductive as it       *)
(* stands: that no epoch wrote two checkpoints follows from the parent     *)
(* each names, once the first is known to be the only one with no epoch.   *)
(***************************************************************************)
CheckpointsLinked ==
    /\ \A k \in checkpoints :
          /\ Exists(k.turn) /\ k.seq <= turns[k.turn].cont
          /\ k.seq = 0 => k.epoch = None
          /\ k.seq > 0 => /\ k.epoch \in Epochs
                          /\ k.parent = k.seq - 1 /\ k.epoch.cont = k.parent
    /\ \A j, k \in checkpoints : j.turn = k.turn /\ j.seq = k.seq => j = k
    /\ \A t \in Turns : Exists(t) =>
          \A n \in 0..turns[t].cont :
             \E k \in checkpoints : k.turn = t /\ k.seq = n

(* Every other step leaves the checkpoints, the continuations and the set  *)
(* of admitted turns alone.                                                *)
ChainQuiet ==
    /\ checkpoints' = checkpoints
    /\ \A t \in Turns : /\ turns'[t].cont = turns[t].cont
                        /\ turns'[t].phase = "Absent" <=> turns[t].phase = "Absent"

(* What a yield and a request for attention do to the chain. *)
ChainExtended(c) ==
    /\ checkpoints' = checkpoints \cup {NextCheckpoint(c)}
    /\ c.cont = turns[c.turn].cont
    /\ turns[c.turn].phase = "Running"
    /\ turns'[c.turn].cont = c.cont + 1
    /\ turns'[c.turn].phase # "Absent"
    /\ \A u \in Turns : u # c.turn => turns'[u] = turns[u]

LEMMA StoreStepChain ==
    ASSUME StoreTypeOK, [StoreNext]_storeVars
    PROVE  \/ ChainQuiet
           \/ \E c \in claims : ChainExtended(c)
           \/ \E t \in Turns, s \in Sessions : InsertLogicalTurnAdmission(t, s)
  <1>0. \A c \in claims : c.turn \in Turns
    BY DEF StoreTypeOK, Claims
  <1>1. ASSUME NEW t \in Turns, NEW inst \in Instances, ClaimLogicalTurn(t, inst)
        PROVE  ChainQuiet
    BY <1>1, ClaimEffect DEF ClaimLogicalTurn, ChainQuiet, TurnStep, RunnablePhases
  <1>2. ASSUME NEW c \in claims, YieldLogicalTurn(c)
        PROVE  ChainExtended(c)
    BY <1>2, YieldEffect
    DEF YieldLogicalTurn, ChainExtended, TurnStep, ValidateCheckpoint, RequireRunningFence
  <1>3. ASSUME NEW c \in claims, NEW a \in BrainAttention, RequireLogicalTurnAttention(c, a)
        PROVE  ChainExtended(c)
    BY <1>3, AttentionEffect
    DEF RequireLogicalTurnAttention, ChainExtended, TurnStep, ValidateCheckpoint,
        RequireRunningFence
  <1>4. ASSUME NEW c \in claims, NEW outcome \in {"Completed", "Failed"},
               CompleteLogicalTurn(c, outcome)
        PROVE  ChainQuiet
    BY <1>0, <1>4, CompleteEffect
    DEF CompleteLogicalTurn, ChainQuiet, TurnStep, RequireRunningFence
  <1>5. ASSUME NEW c \in claims, NEW kind \in OperationKinds, NEW slot \in Slots,
               NEW attempt \in Attempts, LeaseLogicalTurnOperation(c, kind, slot, attempt)
        PROVE  ChainQuiet
    BY <1>5 DEF LeaseLogicalTurnOperation, ChainQuiet
  <1>6. ASSUME NEW c \in claims, NEW o \in ops, CompleteLogicalTurnOperation(c, o)
        PROVE  ChainQuiet
    BY <1>6 DEF CompleteLogicalTurnOperation, ChainQuiet
  <1>7. ASSUME NEW t \in Turns, NEW action, ResolveLogicalTurnAttention(t, action)
        PROVE  ChainQuiet
    BY <1>7, ResolveEffect DEF ResolveLogicalTurnAttention, ChainQuiet, TurnStep
  <1>8. ASSUME NEW t \in Turns, NEW key \in CancelKeys, CancelLogicalTurn(t, key)
        PROVE  ChainQuiet
    <2>1. CASE Terminal(t)
      BY <1>8, <2>1 DEF CancelLogicalTurn, ChainQuiet
    <2>2. CASE ~Terminal(t)
      BY <1>8, <2>2, CancelEffect DEF CancelLogicalTurn, ChainQuiet, TurnStep, Exists
    <2> QED BY <2>1, <2>2
  <1>9. CASE HydrateLogicalTurns
    <2>1. checkpoints' = checkpoints
      BY <1>9 DEF HydrateLogicalTurns
    <2>2. ASSUME NEW t \in Turns
          PROVE  /\ turns'[t].cont = turns[t].cont
                 /\ turns'[t].phase = "Absent" <=> turns[t].phase = "Absent"
      <3>1. CASE Interrupted(t)
        BY <1>9, <3>1, HydrateEffect DEF Interrupted
      <3>2. CASE Recovered(t)
        BY <1>9, <3>2, HydrateEffect DEF Recovered
      <3>3. CASE ~Interrupted(t) /\ ~Recovered(t)
        BY <1>9, <3>3, HydrateEffect
      <3> QED BY <3>1, <3>2, <3>3
    <2> QED BY <2>1, <2>2 DEF ChainQuiet
  <1>10. ASSUME NEW e \in outbox, MarkLogicalTurnOutboxDelivered(e)
         PROVE  ChainQuiet
    BY <1>10 DEF MarkLogicalTurnOutboxDelivered, ChainQuiet
  <1>11. CASE UNCHANGED storeVars
    BY <1>11 DEF ChainQuiet, storeVars
  <1> QED BY <1>1, <1>2, <1>3, <1>4, <1>5, <1>6, <1>7, <1>8, <1>9, <1>10, <1>11
         DEF StoreNext, ClaimHolderStep, OperatorStep

LEMMA CheckpointsLinkedStep ==
    ASSUME StoreTypeOK, ClaimsFenced, CheckpointsLinked, [StoreNext]_storeVars
    PROVE  CheckpointsLinked'
  <1>0. /\ \A t \in Turns : turns[t].cont \in Nat
        /\ \A c \in claims : c.turn \in Turns /\ c.cont \in Nat /\ c.epoch \in Epochs
        /\ \A k \in checkpoints : k.turn \in Turns /\ k.seq \in Nat
    BY DEF StoreTypeOK, TurnRecords, Claims, Checkpoints
  <1>1. CASE ChainQuiet
    BY <1>0, <1>1, SMT DEF ChainQuiet, CheckpointsLinked, Exists
  <1>2. ASSUME NEW c \in claims, ChainExtended(c)
        PROVE  CheckpointsLinked'
    <2>0. PICK n : n = NextCheckpoint(c)
      OBVIOUS
    <2>1. /\ n.turn = c.turn /\ n.seq = c.cont + 1 /\ n.parent = c.cont /\ n.epoch = c.epoch
          /\ checkpoints' = checkpoints \cup {n}
      BY <1>2, <2>0 DEF NextCheckpoint, ChainExtended
    <2>2. c.epoch \in Epochs /\ c.epoch.cont = c.cont /\ c.turn \in Turns /\ c.cont \in Nat
      BY <1>0 DEF ClaimsFenced
    <2>3. \A u \in Turns : /\ turns[u].cont <= turns'[u].cont /\ turns'[u].cont \in Nat
                           /\ turns[u].phase # "Absent" => turns'[u].phase # "Absent"
      BY <1>0, <1>2, <2>2, SMT DEF ChainExtended
    <2>4. \A k \in checkpoints' :
             /\ turns'[k.turn].phase # "Absent" /\ k.seq <= turns'[k.turn].cont
             /\ k.seq = 0 => k.epoch = None
             /\ k.seq > 0 => /\ k.epoch \in Epochs
                             /\ k.parent = k.seq - 1 /\ k.epoch.cont = k.parent
      <3>1. ASSUME NEW k \in checkpoints
            PROVE  turns'[k.turn].phase # "Absent" /\ k.seq <= turns'[k.turn].cont
        <4>1. /\ turns[k.turn].phase # "Absent" /\ k.seq <= turns[k.turn].cont
              /\ k.turn \in Turns /\ k.seq \in Nat
          BY <1>0 DEF CheckpointsLinked, Exists
        <4> QED BY <1>0, <2>3, <4>1, SMT
      <3>2. turns'[n.turn].phase # "Absent" /\ n.seq <= turns'[n.turn].cont
        BY <1>2, <2>1, <2>2, SMT DEF ChainExtended
      <3>3. n.seq # 0 /\ n.parent = n.seq - 1 /\ n.epoch \in Epochs /\ n.epoch.cont = n.parent
        BY <2>1, <2>2, SMT
      <3> QED BY <2>1, <3>1, <3>2, <3>3 DEF CheckpointsLinked
    <2>5. \A j, k \in checkpoints' : j.turn = k.turn /\ j.seq = k.seq => j = k
      <3>1. ASSUME NEW k \in checkpoints, k.turn = n.turn
            PROVE  k.seq # n.seq
        <4>1. k.seq <= c.cont /\ k.seq \in Nat
          BY <1>0, <1>2, <2>1, <3>1, SMT DEF CheckpointsLinked, ChainExtended
        <4> QED BY <2>1, <2>2, <4>1, SMT
      <3> QED BY <2>1, <3>1, SMT DEF CheckpointsLinked
    <2>6. \A t \in Turns : turns'[t].phase # "Absent" =>
             \A i \in 0..turns'[t].cont : \E k \in checkpoints' : k.turn = t /\ k.seq = i
      <3>1. ASSUME NEW t \in Turns, t # c.turn, turns'[t].phase # "Absent",
                   NEW i \in 0..turns'[t].cont
            PROVE  \E k \in checkpoints' : k.turn = t /\ k.seq = i
        BY <1>2, <2>1, <3>1, SMT DEF ChainExtended, CheckpointsLinked, Exists
      <3>2. ASSUME NEW i \in 0..turns'[c.turn].cont
            PROVE  \E k \in checkpoints' : k.turn = c.turn /\ k.seq = i
        <4>1. CASE i = c.cont + 1
          BY <2>1, <4>1
        <4>2. CASE i # c.cont + 1
          <5>1. i \in 0..turns[c.turn].cont
            BY <1>2, <2>2, <4>2, SMT DEF ChainExtended
          <5>2. Exists(c.turn)
            BY <1>2 DEF ChainExtended, Exists
          <5> QED BY <2>1, <2>2, <5>1, <5>2, SMT DEF CheckpointsLinked
        <4> QED BY <4>1, <4>2
      <3> QED BY <3>1, <3>2
    <2> QED BY <2>4, <2>5, <2>6 DEF CheckpointsLinked, Exists
  <1>3. ASSUME NEW t \in Turns, NEW s \in Sessions, InsertLogicalTurnAdmission(t, s)
        PROVE  CheckpointsLinked'
    <2>0. PICK n : n = [turn |-> t, seq |-> 0, parent |-> None, epoch |-> None]
      OBVIOUS
    <2>1. /\ n.turn = t /\ n.seq = 0 /\ n.epoch = None
          /\ checkpoints' = checkpoints \cup {n}
          /\ turns'[t].cont = 0 /\ turns'[t].phase # "Absent"
          /\ \A u \in Turns : u # t => turns'[u] = turns[u]
      BY <1>3, <2>0, AdmissionEffect DEF InsertLogicalTurnAdmission, TurnStep
    <2>2. \A k \in checkpoints : k.turn # t
      BY <1>3, SMT DEF InsertLogicalTurnAdmission, CheckpointsLinked
    <2>3. \A k \in checkpoints : turns'[k.turn] = turns[k.turn]
      BY <1>0, <2>1, <2>2
    <2>4. \A k \in checkpoints' :
             /\ turns'[k.turn].phase # "Absent" /\ k.seq <= turns'[k.turn].cont
             /\ k.seq = 0 => k.epoch = None
             /\ k.seq > 0 => /\ k.epoch \in Epochs
                             /\ k.parent = k.seq - 1 /\ k.epoch.cont = k.parent
      BY <2>1, <2>3, SMT DEF CheckpointsLinked, Exists
    <2>5. \A j, k \in checkpoints' : j.turn = k.turn /\ j.seq = k.seq => j = k
      BY <2>1, <2>2, SMT DEF CheckpointsLinked
    <2>6. \A u \in Turns : turns'[u].phase # "Absent" =>
             \A i \in 0..turns'[u].cont : \E k \in checkpoints' : k.turn = u /\ k.seq = i
      <3>1. ASSUME NEW u \in Turns, u # t, turns'[u].phase # "Absent",
                   NEW i \in 0..turns'[u].cont
            PROVE  \E k \in checkpoints' : k.turn = u /\ k.seq = i
        BY <2>1, <3>1, SMT DEF CheckpointsLinked, Exists
      <3>2. \A i \in 0..turns'[t].cont : i = 0
        BY <2>1, SMT
      <3> QED BY <2>1, <3>1, <3>2
    <2> QED BY <2>4, <2>5, <2>6 DEF CheckpointsLinked, Exists
  <1> QED BY <1>1, <1>2, <1>3, StoreStepChain

LEMMA LinkedIsChain ==
    ASSUME StoreTypeOK, CheckpointsLinked
    PROVE  CheckpointChain
  <1> SUFFICES ASSUME NEW t \in Turns, Exists(t)
               PROVE  LET own == {k \in checkpoints : k.turn = t} IN
                      /\ {k.seq : k \in own} = 0..turns[t].cont
                      /\ \A j, k \in own : j.seq = k.seq \/ j.epoch = k.epoch => j = k
                      /\ \A k \in own : k.seq > 0 =>
                            k.parent = k.seq - 1 /\ k.epoch.cont = k.parent
    BY DEF CheckpointChain
  <1> DEFINE own == {k \in checkpoints : k.turn = t}
  <1>0. /\ turns[t].cont \in Nat
        /\ \A k \in own : /\ k \in checkpoints /\ k.turn = t /\ k.seq \in Nat
                          /\ k.seq <= turns[t].cont
    BY DEF StoreTypeOK, TurnRecords, Checkpoints, CheckpointsLinked
  <1>1. {k.seq : k \in own} = 0..turns[t].cont
    <2>1. \A k \in own : k.seq \in 0..turns[t].cont
      BY <1>0, SMT
    <2>2. ASSUME NEW n \in 0..turns[t].cont
          PROVE  n \in {k.seq : k \in own}
      <3>1. PICK k \in checkpoints : k.turn = t /\ k.seq = n
        BY SMT DEF CheckpointsLinked
      <3> QED BY <3>1
    <2> QED BY <2>1, <2>2
  <1>2. ASSUME NEW j \in own, NEW k \in own, j.epoch = k.epoch
        PROVE  j.seq = k.seq
    <2>1. CASE j.seq = 0 \/ k.seq = 0
      BY <1>0, <1>2, <2>1, NoneAssumption, SMT DEF CheckpointsLinked
    <2>2. CASE j.seq > 0 /\ k.seq > 0
      BY <1>0, <1>2, <2>2, SMT DEF CheckpointsLinked
    <2> QED BY <1>0, <2>1, <2>2, SMT
  <1>3. \A j, k \in own : j.seq = k.seq => j = k
    BY <1>0, SMT DEF CheckpointsLinked
  <1>4. \A k \in own : k.seq > 0 => k.parent = k.seq - 1 /\ k.epoch.cont = k.parent
    BY <1>0 DEF CheckpointsLinked
  <1> QED BY <1>1, <1>2, <1>3, <1>4

(* The continuations of a turn form one chain: whatever claims are         *)
(* presented late and whenever the service restarts, each sequence number  *)
(* has one checkpoint, written by the epoch that claimed its parent, and   *)
(* no epoch writes two.                                                    *)
THEOREM ContinuationsFormAChain == StoreSpec => []CheckpointChain
  <1>1. StoreInit => ClaimsFenced /\ CheckpointsLinked
    BY SMT DEF StoreInit, ClaimsFenced, CheckpointsLinked, AbsentTurn, Exists
  <1>2. StoreTypeOK /\ ClaimsFenced /\ CheckpointsLinked /\ [StoreNext]_storeVars
        => ClaimsFenced' /\ CheckpointsLinked'
    BY ClaimsFencedStep, CheckpointsLinkedStep
  <1>3. StoreTypeOK /\ CheckpointsLinked => CheckpointChain
    BY LinkedIsChain
  <1> QED BY <1>1, <1>2, <1>3, StoreTypeCorrect, PTL DEF StoreSpec

(***************************************************************************)
(* The outbox.  The sets of LifecycleAnnounced, row by row, with the order *)
(* in which rows are delivered.                                            *)
(***************************************************************************)
RowsAnnounce ==
    /\ \A e \in outbox :
          /\ e.rev > 0 /\ e.rev <= turns[e.turn].rev
          /\ e.kind \in TerminalKinds => /\ e.rev = turns[e.turn].rev
                                         /\ e.kind = turns[e.turn].phase
    /\ \A t \in Turns : \A n \in 1..turns[t].rev :
          \E e \in outbox : e.turn = t /\ e.rev = n
    /\ \A t \in Turns : Terminal(t) =>
          Event(t, turns[t].rev, turns[t].phase) \in outbox

DeliveredInOrder ==
    \A e \in delivered, f \in outbox : WrittenBefore(f, e) => f \in delivered

OutboxInv == RowsAnnounce /\ DeliveredInOrder

(* A transition of a turn that had not ended announces its revision, and   *)
(* an end exactly when the turn ends.                                      *)
Announces(t, kinds) ==
    /\ ~Terminal(t)
    /\ TurnStep(t, kinds)
    /\ kinds # {}
    /\ kinds \cap TerminalKinds =
          IF turns'[t].phase \in TerminalPhases THEN {turns'[t].phase} ELSE {}

LEMMA AnnouncesKeepsOutbox ==
    ASSUME StoreTypeOK, OutboxInv, NEW t \in Turns, NEW kinds, Announces(t, kinds)
    PROVE  OutboxInv'
  <1>0. /\ \A u \in Turns : turns[u].rev \in Nat /\ turns[u].phase \in Phases
        /\ \A e \in outbox : e.turn \in Turns /\ e.rev \in Nat
        /\ delivered \subseteq outbox
    BY BoundsAssumption, SMT DEF StoreTypeOK, TurnRecords, Lifecycle, Revisions
  <1> DEFINE r == turns[t].rev + 1
             new == {Event(t, r, k) : k \in kinds}
  <1>1. /\ outbox' = outbox \cup new /\ delivered' = delivered
        /\ turns'[t].rev = r /\ \A u \in Turns : u # t => turns'[u] = turns[u]
    BY DEF Announces, TurnStep
  <1>2. \A e \in new : e.turn = t /\ e.rev = r /\ e.kind \in kinds
    BY SMT DEF Event
  <1>3. \A e \in outbox : e.turn = t => e.rev < r /\ e.kind \notin TerminalKinds
    <2>1. turns[t].phase \notin TerminalKinds
      BY DEF Announces, Terminal, TerminalKinds, TerminalPhases
    <2> QED BY <1>0, <2>1, SMT DEF OutboxInv, RowsAnnounce
  <1>4. ASSUME NEW k \in kinds, k \in TerminalKinds
        PROVE  k = turns'[t].phase
    BY <1>4 DEF Announces
  <1>5. ASSUME turns'[t].phase \in TerminalPhases
        PROVE  Event(t, turns'[t].rev, turns'[t].phase) \in new
    BY <1>1, <1>5 DEF Announces
  <1>6. \A e \in outbox' :
          /\ e.rev > 0 /\ e.rev <= turns'[e.turn].rev
          /\ e.kind \in TerminalKinds => /\ e.rev = turns'[e.turn].rev
                                         /\ e.kind = turns'[e.turn].phase
    <2>1. ASSUME NEW e \in outbox, e.turn = t
          PROVE  e.rev > 0 /\ e.rev <= turns'[t].rev /\ e.kind \notin TerminalKinds
      BY <1>0, <1>1, <1>3, <2>1, SMT DEF OutboxInv, RowsAnnounce
    <2>2. ASSUME NEW e \in outbox, e.turn # t
          PROVE  /\ e.rev > 0 /\ e.rev <= turns'[e.turn].rev
                 /\ e.kind \in TerminalKinds => /\ e.rev = turns'[e.turn].rev
                                                /\ e.kind = turns'[e.turn].phase
      BY <1>0, <1>1, <2>2 DEF OutboxInv, RowsAnnounce
    <2>3. ASSUME NEW e \in new
          PROVE  /\ e.rev > 0 /\ e.rev = turns'[e.turn].rev
                 /\ e.kind \in TerminalKinds => e.kind = turns'[e.turn].phase
      BY <1>0, <1>1, <1>2, <1>4, SMT
    <2>4. r \in Nat
      BY <1>0, SMT
    <2> HIDE DEF new, r
    <2> QED BY <1>1, <1>2, <2>1, <2>2, <2>3, <2>4, SMT
  <1>7. \A u \in Turns : \A n \in 1..turns'[u].rev :
          \E e \in outbox' : e.turn = u /\ e.rev = n
    <2>1. ASSUME NEW n \in 1..r
          PROVE  \E e \in outbox' : e.turn = t /\ e.rev = n
      <3>1. CASE n = r
        <4>1. PICK k \in kinds : TRUE
          BY DEF Announces
        <4>2. Event(t, r, k) \in new
          OBVIOUS
        <4> QED BY <1>1, <1>2, <3>1, <4>2
      <3>2. CASE n # r
        <4>1. n \in 1..turns[t].rev
          BY <1>0, <3>2, SMT
        <4> QED BY <1>1, <4>1, SMT DEF OutboxInv, RowsAnnounce
      <3> QED BY <3>1, <3>2
    <2> QED BY <1>1, <2>1, SMT DEF OutboxInv, RowsAnnounce
  <1>8. \A u \in Turns : turns'[u].phase \in TerminalPhases =>
          Event(u, turns'[u].rev, turns'[u].phase) \in outbox'
    BY <1>1, <1>5, SMT DEF OutboxInv, RowsAnnounce, Terminal
  <1>9. \A e \in delivered', f \in outbox' : WrittenBefore(f, e) => f \in delivered'
    <2>1. ASSUME NEW e \in delivered, NEW f \in new
          PROVE  ~WrittenBefore(f, e)
      <3>1. e.turn = t => e.rev < r /\ e.rev \in Nat
        BY <1>0, <1>3
      <3>2. f.turn = t /\ f.rev = r /\ r \in Nat
        BY <1>0, <1>2, SMT
      <3> QED BY <3>1, <3>2, SMT DEF WrittenBefore
    <2> QED BY <1>1, <2>1 DEF OutboxInv, DeliveredInOrder
  <1> QED BY <1>6, <1>7, <1>8, <1>9 DEF OutboxInv, RowsAnnounce, DeliveredInOrder, Terminal

LEMMA HydrateKeepsOutbox ==
    ASSUME StoreTypeOK, OutboxInv, HydrateLogicalTurns
    PROVE  OutboxInv'
  <1>0. /\ \A u \in Turns : turns[u].rev \in Nat /\ turns[u].phase \in Phases
        /\ \A e \in outbox : e.turn \in Turns /\ e.rev \in Nat
        /\ delivered \subseteq outbox
    BY BoundsAssumption, SMT DEF StoreTypeOK, TurnRecords, Lifecycle, Revisions
  <1> DEFINE moved == {u \in Turns : Interrupted(u) \/ Recovered(u)}
             new == {Event(t, turns[t].rev + 1, "AttentionRequired") :
                        t \in {u \in Turns : Interrupted(u)}}
                    \cup {Event(t, turns[t].rev + 1, "Resumed") :
                        t \in {u \in Turns : Recovered(u)}}
  <1>1. outbox' = outbox \cup new /\ delivered' = delivered
    BY DEF HydrateLogicalTurns
  <1>2. ASSUME NEW e \in new
        PROVE  /\ e.turn \in moved /\ e.rev = turns[e.turn].rev + 1
               /\ e.kind \notin TerminalKinds
    BY SMT DEF Event, TerminalKinds
  <1>3. ASSUME NEW u \in moved
        PROVE  /\ \E e \in new : e.turn = u /\ e.rev = turns[u].rev + 1
               /\ turns'[u].rev = turns[u].rev + 1
               /\ turns[u].phase \notin TerminalPhases
               /\ turns'[u].phase \notin TerminalPhases
    <2>1. CASE Interrupted(u)
      <3>1. Event(u, turns[u].rev + 1, "AttentionRequired") \in new
        BY <2>1
      <3>2. \E e \in new : e.turn = u /\ e.rev = turns[u].rev + 1
        BY <3>1, Zenon DEF Event
      <3> HIDE DEF new
      <3> QED BY <2>1, <3>2, HydrateEffect DEF Interrupted, TerminalPhases
    <2>2. CASE Recovered(u)
      <3>1. Event(u, turns[u].rev + 1, "Resumed") \in new
        BY <2>2
      <3>2. \E e \in new : e.turn = u /\ e.rev = turns[u].rev + 1
        BY <3>1, Zenon DEF Event
      <3> HIDE DEF new
      <3> QED BY <2>2, <3>2, HydrateEffect DEF Recovered, TerminalPhases
    <2> QED BY <2>1, <2>2
  <1>4. \A u \in Turns : u \notin moved => turns'[u] = turns[u]
    BY HydrateEffect
  <1>5. \A e \in outbox : e.turn \in moved =>
           /\ e.rev <= turns[e.turn].rev /\ e.kind \notin TerminalKinds
    BY <1>3 DEF OutboxInv, RowsAnnounce, TerminalKinds, TerminalPhases
  <1> HIDE DEF new, moved
  <1>6. \A e \in outbox' :
          /\ e.rev > 0 /\ e.rev <= turns'[e.turn].rev
          /\ e.kind \in TerminalKinds => /\ e.rev = turns'[e.turn].rev
                                         /\ e.kind = turns'[e.turn].phase
    <2>1. ASSUME NEW e \in outbox, e.turn \in moved
          PROVE  e.rev > 0 /\ e.rev <= turns'[e.turn].rev /\ e.kind \notin TerminalKinds
      <3>1. e.rev > 0
        BY DEF OutboxInv, RowsAnnounce
      <3> QED BY <1>0, <1>3, <1>5, <2>1, <3>1, SMT
    <2>2. ASSUME NEW e \in outbox, e.turn \notin moved
          PROVE  /\ e.rev > 0 /\ e.rev <= turns'[e.turn].rev
                 /\ e.kind \in TerminalKinds => /\ e.rev = turns'[e.turn].rev
                                                /\ e.kind = turns'[e.turn].phase
      BY <1>0, <1>4, <2>2 DEF OutboxInv, RowsAnnounce
    <2>3. ASSUME NEW e \in new
          PROVE  e.rev > 0 /\ e.rev <= turns'[e.turn].rev /\ e.kind \notin TerminalKinds
      <3>1. e.turn \in moved /\ e.rev = turns[e.turn].rev + 1 /\ e.kind \notin TerminalKinds
        BY <1>2
      <3>2. e.turn \in Turns
        BY <3>1 DEF moved
      <3> QED BY <1>0, <1>3, <3>1, <3>2, SMT
    <2> QED BY <1>1, <2>1, <2>2, <2>3
  <1>7. \A u \in Turns : \A n \in 1..turns'[u].rev :
          \E e \in outbox' : e.turn = u /\ e.rev = n
    <2>1. ASSUME NEW u \in Turns, NEW n \in 1..turns'[u].rev
          PROVE  \E e \in outbox' : e.turn = u /\ e.rev = n
      <3>1. CASE n \in 1..turns[u].rev
        BY <1>1, <3>1, SMT DEF OutboxInv, RowsAnnounce
      <3>2. CASE n \notin 1..turns[u].rev
        <4>1. u \in moved
          BY <1>4, <3>2
        <4>2. n = turns[u].rev + 1
          BY <1>0, <1>3, <3>2, <4>1, SMT
        <4> QED BY <1>1, <1>3, <4>1, <4>2
      <3> QED BY <3>1, <3>2
    <2> QED BY <2>1
  <1>8. \A u \in Turns : turns'[u].phase \in TerminalPhases =>
          Event(u, turns'[u].rev, turns'[u].phase) \in outbox'
    BY <1>1, <1>3, <1>4 DEF OutboxInv, RowsAnnounce, Terminal
  <1>9. \A e \in delivered', f \in outbox' : WrittenBefore(f, e) => f \in delivered'
    <2>1. ASSUME NEW e \in delivered, NEW f \in new
          PROVE  ~WrittenBefore(f, e)
      <3>1. f.turn \in moved /\ f.rev = turns[f.turn].rev + 1
        BY <1>2
      <3>2. f.turn \in Turns
        BY <3>1 DEF moved
      <3>3. e.turn = f.turn => e.rev <= turns[f.turn].rev /\ e.rev \in Nat
        BY <1>0, <1>5, <3>1
      <3> QED BY <1>0, <3>1, <3>2, <3>3, SMT DEF WrittenBefore
    <2> QED BY <1>1, <2>1 DEF OutboxInv, DeliveredInOrder
  <1> QED BY <1>6, <1>7, <1>8, <1>9 DEF OutboxInv, RowsAnnounce, DeliveredInOrder, Terminal

LEMMA OutboxStep ==
    ASSUME StoreTypeOK, OutboxInv, [StoreNext]_storeVars
    PROVE  OutboxInv'
  <1>0. \A c \in claims : c.turn \in Turns
    BY DEF StoreTypeOK, Claims
  <1>1. ASSUME NEW t \in Turns, NEW s \in Sessions, InsertLogicalTurnAdmission(t, s)
        PROVE  Announces(t, {"Admitted"})
    BY <1>1, AdmissionEffect
    DEF InsertLogicalTurnAdmission, Announces, Exists, Terminal, TerminalPhases, TerminalKinds
  <1>2. ASSUME NEW t \in Turns, NEW inst \in Instances, ClaimLogicalTurn(t, inst)
        PROVE  Announces(t, {"Claimed"})
    BY <1>2, ClaimEffect
    DEF ClaimLogicalTurn, Announces, RunnablePhases, Terminal, TerminalPhases, TerminalKinds
  <1>3. ASSUME NEW c \in claims, YieldLogicalTurn(c)
        PROVE  Announces(c.turn, {"Yielded"})
    BY <1>3, YieldEffect
    DEF YieldLogicalTurn, RequireRunningFence, Announces, Terminal, TerminalPhases, TerminalKinds
  <1>4. ASSUME NEW c \in claims, NEW a \in BrainAttention, RequireLogicalTurnAttention(c, a)
        PROVE  Announces(c.turn, {"AttentionRequired"})
    BY <1>4, AttentionEffect
    DEF RequireLogicalTurnAttention, RequireRunningFence, Announces, Terminal,
        TerminalPhases, TerminalKinds
  <1>5. ASSUME NEW c \in claims, NEW outcome \in {"Completed", "Failed"},
               CompleteLogicalTurn(c, outcome)
        PROVE  Announces(c.turn, {outcome})
    BY <1>5, CompleteEffect
    DEF CompleteLogicalTurn, Announces, Terminal, TerminalPhases, TerminalKinds
  <1>6. ASSUME NEW t \in Turns, NEW action, ResolveLogicalTurnAttention(t, action)
        PROVE  Announces(t, {"Resumed"})
    BY <1>6, ResolveEffect
    DEF ResolveLogicalTurnAttention, Announces, Terminal, TerminalPhases, TerminalKinds
  <1>7. CASE UNCHANGED <<turns, outbox, delivered>>
    BY <1>7, SMT DEF OutboxInv, RowsAnnounce, DeliveredInOrder, Terminal
  <1>8. ASSUME NEW t \in Turns, NEW key \in CancelKeys, CancelLogicalTurn(t, key)
        PROVE  OutboxInv'
    <2>1. CASE Terminal(t)
      BY <1>7, <1>8, <2>1 DEF CancelLogicalTurn
    <2>2. CASE ~Terminal(t)
      <3>1. Announces(t, {"CancelRequested", "Cancelled"})
        BY <1>8, <2>2, CancelEffect DEF Announces, TerminalPhases, TerminalKinds
      <3> QED BY <3>1, AnnouncesKeepsOutbox
    <2> QED BY <2>1, <2>2
  <1>9. ASSUME NEW e \in outbox, MarkLogicalTurnOutboxDelivered(e)
        PROVE  OutboxInv'
    <2>1. /\ UNCHANGED <<turns, outbox>> /\ delivered' = delivered \cup {e}
          /\ \A f \in outbox \ delivered : ~WrittenBefore(f, e)
      BY <1>9 DEF MarkLogicalTurnOutboxDelivered, PendingOutbox
    <2>2. DeliveredInOrder'
      BY <2>1 DEF OutboxInv, DeliveredInOrder
    <2>3. RowsAnnounce'
      BY <2>1, SMT DEF OutboxInv, RowsAnnounce, Terminal
    <2> QED BY <2>2, <2>3 DEF OutboxInv
  <1>10. ASSUME NEW c \in claims, NEW kind \in OperationKinds, NEW slot \in Slots,
                NEW attempt \in Attempts, LeaseLogicalTurnOperation(c, kind, slot, attempt)
         PROVE  OutboxInv'
    BY <1>7, <1>10 DEF LeaseLogicalTurnOperation
  <1>11. ASSUME NEW c \in claims, NEW o \in ops, CompleteLogicalTurnOperation(c, o)
         PROVE  OutboxInv'
    BY <1>7, <1>11 DEF CompleteLogicalTurnOperation
  <1>12. UNCHANGED storeVars => UNCHANGED <<turns, outbox, delivered>>
    BY DEF storeVars
  <1> QED BY <1>0, <1>1, <1>2, <1>3, <1>4, <1>5, <1>6, <1>7, <1>8, <1>9, <1>10, <1>11, <1>12,
             AnnouncesKeepsOutbox, HydrateKeepsOutbox
         DEF StoreNext, ClaimHolderStep, OperatorStep

LEMMA OutboxAnnouncesLifecycle ==
    ASSUME StoreTypeOK, OutboxInv
    PROVE  LifecycleAnnounced
  <1>1. ASSUME NEW t \in Turns
        PROVE  LET own == {e \in outbox : e.turn = t}
                   last == {e \in own : e.kind \in TerminalKinds} IN
               /\ {e.rev : e \in own} = 1..turns[t].rev
               /\ last = IF Terminal(t)
                         THEN {Event(t, turns[t].rev, turns[t].phase)} ELSE {}
    <2> DEFINE own == {e \in outbox : e.turn = t}
               last == {e \in own : e.kind \in TerminalKinds}
    <2>0. turns[t].rev \in Nat /\ \A e \in own : e \in outbox /\ e.turn = t /\ e.rev \in Nat
      BY BoundsAssumption, SMT DEF StoreTypeOK, TurnRecords, Lifecycle, Revisions
    <2>1. \A e \in own : e.rev \in 1..turns[t].rev
      BY <2>0, SMT DEF OutboxInv, RowsAnnounce
    <2>2. ASSUME NEW n \in 1..turns[t].rev
          PROVE  n \in {e.rev : e \in own}
      <3>1. PICK e \in outbox : e.turn = t /\ e.rev = n
        BY SMT DEF OutboxInv, RowsAnnounce
      <3> QED BY <3>1
    <2>3. \A e \in last : e = Event(t, turns[t].rev, turns[t].phase) /\ Terminal(t)
      <3> SUFFICES ASSUME NEW e \in last
                   PROVE  e = Event(t, turns[t].rev, turns[t].phase) /\ Terminal(t)
        OBVIOUS
      <3>1. /\ e \in outbox /\ e.turn = t /\ e.kind \in TerminalKinds
            /\ e.rev = turns[t].rev /\ e.kind = turns[t].phase
        BY SMT DEF OutboxInv, RowsAnnounce
      <3>2. e \in Lifecycle
        BY <3>1 DEF StoreTypeOK
      <3>3. e = Event(t, turns[t].rev, turns[t].phase)
        BY <3>1, <3>2 DEF Lifecycle, Event
      <3>4. Terminal(t)
        BY <3>1 DEF Terminal, TerminalKinds, TerminalPhases
      <3> QED BY <3>3, <3>4
    <2>4. ASSUME Terminal(t)
          PROVE  Event(t, turns[t].rev, turns[t].phase) \in last
      <3>1. Event(t, turns[t].rev, turns[t].phase) \in outbox
        BY <2>4 DEF OutboxInv, RowsAnnounce
      <3>2. /\ Event(t, turns[t].rev, turns[t].phase).turn = t
            /\ Event(t, turns[t].rev, turns[t].phase).kind = turns[t].phase
        BY DEF Event
      <3>3. turns[t].phase \in TerminalKinds
        BY <2>4 DEF Terminal, TerminalKinds, TerminalPhases
      <3> QED BY <3>1, <3>2, <3>3
    <2>5. {e.rev : e \in own} = 1..turns[t].rev
      BY <2>1, <2>2
    <2>6. last = IF Terminal(t) THEN {Event(t, turns[t].rev, turns[t].phase)} ELSE {}
      <3> HIDE DEF last
      <3> QED BY <2>3, <2>4
    <2> QED BY <2>5, <2>6
  <1> QED BY <1>1 DEF LifecycleAnnounced, OutboxInv, DeliveredInOrder

(* Every revision of a turn is announced once it is committed, its end     *)
(* exactly once and truthfully, and rows are delivered in the order they   *)
(* were written, however many were pending when the service restarted.     *)
THEOREM OutboxAnnouncesEveryRevision == StoreSpec => []LifecycleAnnounced
  <1>1. StoreInit => OutboxInv
    BY SMT DEF StoreInit, OutboxInv, RowsAnnounce, DeliveredInOrder, AbsentTurn, Terminal,
           TerminalPhases
  <1>2. StoreTypeOK /\ OutboxInv /\ [StoreNext]_storeVars => OutboxInv'
    BY OutboxStep
  <1>3. StoreTypeOK /\ OutboxInv => LifecycleAnnounced
    BY OutboxAnnouncesLifecycle
  <1> QED BY <1>1, <1>2, <1>3, StoreTypeCorrect, PTL DEF StoreSpec

(***************************************************************************)
(* Unknown outcomes.  UnknownOutcomeBlocks is inductive; operation by      *)
(* operation it reads as follows.                                          *)
(***************************************************************************)
Unknown(o) == o.kind = "HostTool" /\ o.phase = "OutcomeUnknown"

Blocked(t) ==
    \/ turns[t].phase = "AttentionRequired" /\ turns[t].attention \in HydrationAttention
    \/ turns[t].phase = "Cancelled"

UnknownsBlocked == \A o \in ops : Unknown(o) => Blocked(o.turn)

(* A record of SetOperationPhase is one it left alone, or one it moved. *)
LEMMA SetOperationPhaseEffect ==
    ASSUME ops \subseteq Operations, NEW selected \in SUBSET ops, NEW phase,
           NEW o \in SetOperationPhase(selected, phase)
    PROVE  \/ o \in ops \ selected
           \/ \E p \in selected : /\ o.turn = p.turn /\ o.cont = p.cont /\ o.kind = p.kind
                                  /\ o.slot = p.slot /\ o.attempt = p.attempt
                                  /\ o.epoch = p.epoch /\ o.phase = phase
  <1>1. CASE o \in ops \ selected
    BY <1>1
  <1>2. CASE \E p \in selected : o = [p EXCEPT !.phase = phase, !.rev = p.rev + 1]
    <2>1. PICK p \in selected : o = [p EXCEPT !.phase = phase, !.rev = p.rev + 1]
      BY <1>2
    <2>2. p \in Operations
      BY SMT
    <2>3. /\ o.turn = p.turn /\ o.cont = p.cont /\ o.kind = p.kind /\ o.slot = p.slot
          /\ o.attempt = p.attempt /\ o.epoch = p.epoch /\ o.phase = phase
      BY <2>1, <2>2 DEF Operations
    <2> QED BY <2>3
  <1> QED BY <1>1, <1>2 DEF SetOperationPhase

(* The one turn a step changes has no unknown outcome once it is done.     *)
LEMMA UnknownsKept ==
    ASSUME StoreTypeOK, UnknownsBlocked, NEW t \in Turns,
           \A u \in Turns : u # t => turns'[u] = turns[u],
           \A o \in ops' : Unknown(o) => o \in ops /\ o.turn # t
    PROVE  UnknownsBlocked'
  <1>1. \A o \in ops : o.turn \in Turns
    BY DEF StoreTypeOK, Operations
  <1> QED BY <1>1 DEF UnknownsBlocked, Blocked, Unknown

LEMMA UnknownsBlockedStep ==
    ASSUME StoreTypeOK, UnknownsBlocked, [StoreNext]_storeVars
    PROVE  UnknownsBlocked'
  <1>0. /\ \A c \in claims : c.turn \in Turns
        /\ \A o \in ops : o \in Operations /\ o.turn \in Turns
        /\ ops \subseteq Operations
    BY DEF StoreTypeOK, Claims, Operations
  <1>1. ASSUME NEW t \in Turns, ~Blocked(t), ops' = ops,
               \A u \in Turns : u # t => turns'[u] = turns[u]
        PROVE  UnknownsBlocked'
    BY <1>1, UnknownsKept DEF UnknownsBlocked
  <1>2. ASSUME NEW t \in Turns, NEW s \in Sessions, InsertLogicalTurnAdmission(t, s)
        PROVE  UnknownsBlocked'
    <2>1. ~Blocked(t) /\ ops' = ops
      BY <1>2 DEF InsertLogicalTurnAdmission, Exists, Blocked
    <2> QED BY <1>1, <1>2, <2>1, AdmissionEffect DEF TurnStep
  <1>3. ASSUME NEW t \in Turns, NEW inst \in Instances, ClaimLogicalTurn(t, inst)
        PROVE  UnknownsBlocked'
    <2>1. ~Blocked(t) /\ ops' = ops
      BY <1>3 DEF ClaimLogicalTurn, RunnablePhases, Blocked
    <2> QED BY <1>1, <1>3, <2>1, ClaimEffect DEF TurnStep
  <1>4. ASSUME NEW c \in claims,
               YieldLogicalTurn(c) \/ \E a \in BrainAttention : RequireLogicalTurnAttention(c, a)
        PROVE  UnknownsBlocked'
    <2>1. ~Blocked(c.turn) /\ ops' = ops
      BY <1>4 DEF YieldLogicalTurn, RequireLogicalTurnAttention, RequireRunningFence, Blocked
    <2> QED BY <1>0, <1>1, <1>4, <2>1, YieldEffect, AttentionEffect DEF TurnStep
  <1>5. ASSUME NEW c \in claims, NEW outcome \in {"Completed", "Failed"},
               CompleteLogicalTurn(c, outcome)
        PROVE  UnknownsBlocked'
    <2>1. ~Blocked(c.turn) /\ ops' = ops
      BY <1>5 DEF CompleteLogicalTurn, RequireRunningFence, Blocked
    <2> QED BY <1>0, <1>1, <1>5, <2>1, CompleteEffect DEF TurnStep
  <1>6. ASSUME NEW c \in claims, NEW kind \in OperationKinds, NEW slot \in Slots,
               NEW attempt \in Attempts, LeaseLogicalTurnOperation(c, kind, slot, attempt)
        PROVE  UnknownsBlocked'
    <2>1. turns' = turns /\ ops' = ops \cup {NewOperation(c, kind, slot, attempt)}
      BY <1>6 DEF LeaseLogicalTurnOperation
    <2>2. ~Unknown(NewOperation(c, kind, slot, attempt))
      BY DEF NewOperation, Unknown
    <2> QED BY <2>1, <2>2 DEF UnknownsBlocked, Blocked, Unknown
  <1>7. ASSUME NEW c \in claims, NEW o \in ops, CompleteLogicalTurnOperation(c, o)
        PROVE  UnknownsBlocked'
    <2>1. PICK phase \in {"Completed", "CompletedAfterCancel"} :
             ops' = SetOperationPhase({o}, phase)
      BY <1>7 DEF CompleteLogicalTurnOperation, CompletionPhases
    <2>2. turns' = turns
      BY <1>7 DEF CompleteLogicalTurnOperation
    <2>3. \A p \in ops' : Unknown(p) => p \in ops
      BY <1>0, <2>1, SetOperationPhaseEffect, SMT DEF Unknown
    <2> QED BY <2>2, <2>3, SMT DEF UnknownsBlocked, Blocked, Unknown
  <1>8. ASSUME NEW t \in Turns, NEW action, ResolveLogicalTurnAttention(t, action)
        PROVE  UnknownsBlocked'
    <2>1. \A o \in ops' : Unknown(o) => o \in ops /\ o.turn # t
      <3>1. CASE turns[t].attention = "ToolOutcomeUnknown"
        <4>1. PICK phase \in {"Completed", "Superseded"} :
                 ops' = SetOperationPhase(UnknownHostTools(t), phase)
          BY <1>8, <3>1 DEF ResolveLogicalTurnAttention, ResolutionActions,
                            ReconcileUnknownHostToolOperation
        <4>2. ASSUME NEW o \in ops', Unknown(o)
              PROVE  o \in ops \ UnknownHostTools(t)
          BY <1>0, <4>1, <4>2, SetOperationPhaseEffect, SMT DEF Unknown, UnknownHostTools
        <4> QED BY <4>2 DEF UnknownHostTools, Unknown
      <3>2. CASE turns[t].attention # "ToolOutcomeUnknown"
        <4>1. /\ turns[t].attention \in BrainAttention /\ turns[t].phase = "AttentionRequired"
              /\ ops' = ops
          <5>1. turns[t].attention \in Attentions
            BY <1>8 DEF ResolveLogicalTurnAttention, StoreTypeOK, TurnRecords
          <5> QED BY <1>8, <3>2, <5>1
                  DEF ResolveLogicalTurnAttention, ResolutionActions, Attentions,
                      BrainAttention, HydrationAttention, ReconcileUnknownHostToolOperation
        <4>2. ~Blocked(t)
          BY <4>1 DEF Blocked, BrainAttention, HydrationAttention
        <4> QED BY <4>1, <4>2 DEF UnknownsBlocked
      <3> QED BY <3>1, <3>2
    <2> QED BY <1>8, <2>1, ResolveEffect, UnknownsKept DEF TurnStep
  <1>9. ASSUME NEW t \in Turns, NEW key \in CancelKeys, CancelLogicalTurn(t, key)
        PROVE  UnknownsBlocked'
    <2>0. ops' = ops
      BY <1>9 DEF CancelLogicalTurn
    <2>1. CASE Terminal(t)
      <3>1. turns' = turns
        BY <1>9, <2>1 DEF CancelLogicalTurn
      <3> QED BY <2>0, <3>1 DEF UnknownsBlocked, Blocked, Unknown
    <2>2. CASE ~Terminal(t)
      <3>1. turns'[t].phase = "Cancelled" /\ \A u \in Turns : u # t => turns'[u] = turns[u]
        BY <1>9, <2>2, CancelEffect DEF TurnStep
      <3> QED BY <1>0, <2>0, <3>1 DEF UnknownsBlocked, Blocked, Unknown
    <2> QED BY <2>1, <2>2
  <1>10. CASE HydrateLogicalTurns
    <2> DEFINE hit == UNION {LeasedHostTools(t) : t \in {u \in Turns : Interrupted(u)}}
    <2>1. ops' = SetOperationPhase(hit, "OutcomeUnknown") /\ hit \in SUBSET ops
      BY <1>10 DEF HydrateLogicalTurns, LeasedHostTools
    <2>2. \A p \in hit : p.turn \in Turns /\ Interrupted(p.turn)
      BY DEF LeasedHostTools
    <2> HIDE DEF hit
    <2> SUFFICES ASSUME NEW o \in ops', Unknown(o)
                 PROVE  Blocked(o.turn)'
      BY DEF UnknownsBlocked, Unknown
    <2>3. CASE o \in ops
      <3>1. Blocked(o.turn) /\ o.turn \in Turns
        BY <1>0, <2>3 DEF UnknownsBlocked
      <3>2. ~Interrupted(o.turn) /\ ~Recovered(o.turn)
        BY <3>1 DEF Blocked, Interrupted, Recovered
      <3> QED BY <1>10, <3>1, <3>2, HydrateEffect DEF Blocked
    <2>4. CASE o \notin ops
      <3>1. PICK p \in hit : o.turn = p.turn
        BY <1>0, <2>1, <2>4, SetOperationPhaseEffect, SMT
      <3> QED BY <1>10, <2>2, <3>1, HydrateEffect DEF Blocked
    <2> QED BY <2>3, <2>4
  <1>11. ASSUME NEW e \in outbox, MarkLogicalTurnOutboxDelivered(e)
         PROVE  UNCHANGED <<turns, ops>>
    BY <1>11 DEF MarkLogicalTurnOutboxDelivered
  <1>12. UNCHANGED storeVars => UNCHANGED <<turns, ops>>
    BY DEF storeVars
  <1>13. CASE UNCHANGED <<turns, ops>>
    BY <1>13 DEF UnknownsBlocked, Blocked, Unknown
  <1> QED BY <1>2, <1>3, <1>4, <1>5, <1>6, <1>7, <1>8, <1>9, <1>10, <1>11, <1>12, <1>13
         DEF StoreNext, ClaimHolderStep, OperatorStep

(* A turn with a host tool call whose outcome is unknown does not run      *)
(* until the operator says what became of the call, or cancels the turn:   *)
(* no restart, late result or other request gets it past the operator.     *)
THEOREM UnknownOutcomesWait == StoreSpec => []UnknownOutcomeBlocks
  <1>1. StoreInit => UnknownsBlocked
    BY SMT DEF StoreInit, UnknownsBlocked
  <1>2. StoreTypeOK /\ UnknownsBlocked /\ [StoreNext]_storeVars => UnknownsBlocked'
    BY UnknownsBlockedStep
  <1>3. UnknownsBlocked => UnknownOutcomeBlocks
    BY DEF UnknownsBlocked, Unknown, Blocked, UnknownOutcomeBlocks, UnknownHostTools
  <1> QED BY <1>1, <1>2, <1>3, StoreTypeCorrect, PTL DEF StoreSpec
=============================================================================
