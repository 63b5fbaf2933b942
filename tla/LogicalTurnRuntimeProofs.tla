---------------------- MODULE LogicalTurnRuntimeProofs ----------------------
(***************************************************************************)
(* Proofs about the service around the store: every step of the service is *)
(* a step of the store, so whatever was proved of the store holds in the   *)
(* running service; a live wake keeps its turn; a running turn has a       *)
(* driver; a tool call takes effect once; and an interrupted turn can be   *)
(* resolved.                                                               *)
(***************************************************************************)
EXTENDS LogicalTurnRuntime, LogicalTurnStoreProofs

USE Zenon

(* A wake record that holds no claim the store did not hand out. *)
WakeRecords(C) == [stage: Stages, claim: C \cup {None}, turn: Turns \cup {None},
                   run: RunPhases, finished: BOOLEAN, seq: Nat,
                   attempt: Attempts \cup {None}, outcome: Outcomes \cup {None}]

(* What the stage and the run of a wake say about the rest of its record. *)
WakeShape(r) ==
    /\ r.stage \in {"idle", "admitting"} => r.claim = None
    /\ r.stage \in {"idle", "admitting", "built", "starting", "drained", "acted"}
            => r.run = "none"
    /\ r.stage \notin {"idle", "admitting"} => r.claim \in claims
    /\ r.stage = "admitting" => r.turn \in Turns
    /\ r.stage \in {"drained", "acted"} => r.outcome \in Outcomes
    /\ r.stage \in {"executing", "submitting"} => r.run \in {"AwaitingTool", "Cancelled"}
    /\ r.stage = "running" /\ r.run = "ToolRequested" => r.seq < MaxTools

WakesInv ==
    /\ up \in BOOLEAN /\ inst \in Instances /\ module \in Nat
    /\ bound \in [Turns -> Nat \cup {None}]
    /\ ~up => inst + 1 \in Instances /\ host = [h \in Hosts |-> IdleHost]
    /\ host \in [Hosts -> WakeRecords(claims)]
    /\ \A h \in Hosts : WakeShape(host[h])

LEMMA IdleHostFields ==
    /\ \A C : IdleHost \in WakeRecords(C)
    /\ IdleHost.stage = "idle" /\ IdleHost.claim = None /\ IdleHost.turn = None
    /\ IdleHost.run = "none" /\ IdleHost.finished = FALSE /\ IdleHost.seq = 0
    /\ IdleHost.attempt = None /\ IdleHost.outcome = None
  BY DEF IdleHost, WakeRecords, Stages, RunPhases

(* The updates of a wake record, by the fields they change. *)
LEMMA StageUpdate ==
    ASSUME NEW C, NEW r \in WakeRecords(C), NEW s \in Stages
    PROVE  LET q == [r EXCEPT !.stage = s] IN
           /\ q \in WakeRecords(C)
           /\ q.stage = s /\ q.claim = r.claim /\ q.turn = r.turn
           /\ q.run = r.run /\ q.seq = r.seq /\ q.outcome = r.outcome
  BY DEF WakeRecords

LEMMA RunUpdate ==
    ASSUME NEW C, NEW r \in WakeRecords(C), NEW p \in RunPhases
    PROVE  LET q == [r EXCEPT !.run = p] IN
           /\ q \in WakeRecords(C)
           /\ q.stage = r.stage /\ q.claim = r.claim /\ q.turn = r.turn
           /\ q.run = p /\ q.seq = r.seq /\ q.outcome = r.outcome
  BY DEF WakeRecords

(* Claims are only added. *)
LEMMA ClaimsGrow ==
    ASSUME StoreTypeOK, [StoreNext]_storeVars
    PROVE  claims \subseteq claims'
  BY StoreStepOwnership DEF OwnershipQuiet, ClaimLogicalTurn

(* The steps of one wake change the store as one of its operations does. *)
LEMMA HostStoreStep ==
    ASSUME StoreTypeOK, WakesInv, NEW h \in Hosts, HostNext(h)
    PROVE  [StoreNext]_storeVars
  <1>0. /\ inst \in Instances /\ h[1] \in Sessions
        /\ host[h] \in WakeRecords(claims) /\ WakeShape(host[h])
    BY DEF WakesInv, Hosts
  <1>1. ASSUME NEW t \in Turns, PrepareNewTurn(h, t) \/ ResumeTurn(h, t)
        PROVE  StoreNext
    BY <1>0, <1>1 DEF PrepareNewTurn, ResumeTurn, StoreNext
  <1>2. ASSUME ClaimNewTurn(h) PROVE StoreNext
    BY <1>0, <1>2 DEF ClaimNewTurn, WakeShape, StoreNext
  <1>3. ASSUME StartBrainRun(h) PROVE StoreNext
    <2>1. Claim(h) \in claims
      BY <1>0, <1>3 DEF StartBrainRun, WakeShape, Claim
    <2>2. Claim(h).epoch.rev \in Attempts
      BY <2>1, RuntimeBounds DEF RuntimeBounds, StoreTypeOK, Claims, Epochs
    <2>3. 0 \in Slots /\ "Provider" \in OperationKinds
      BY RuntimeBounds DEF RuntimeBounds, OperationKinds
    <2>4. LeaseLogicalTurnOperation(Claim(h), "Provider", 0, Claim(h).epoch.rev)
      BY <1>3 DEF StartBrainRun, ProviderAttempt
    <2> QED BY <2>1, <2>2, <2>3, <2>4 DEF StoreNext, ClaimHolderStep
  <1>4. ASSUME CompleteProviderOperation(Claim(h)), Claim(h) \in claims
        PROVE  [StoreNext]_storeVars
    <2>1. CASE LeasedProvider(Claim(h)) = {}
      BY <1>4, <2>1 DEF CompleteProviderOperation
    <2>2. CASE LeasedProvider(Claim(h)) # {}
      <3>1. PICK o \in LeasedProvider(Claim(h)) : CompleteLogicalTurnOperation(Claim(h), o)
        BY <1>4, <2>2 DEF CompleteProviderOperation
      <3> QED BY <1>4, <3>1 DEF LeasedProvider, StoreNext, ClaimHolderStep
    <2> QED BY <2>1, <2>2
  <1>5. ASSUME StartFailed(h) \/ DrainTerminal(h) PROVE [StoreNext]_storeVars
    BY <1>0, <1>4, <1>5 DEF StartFailed, DrainTerminal, WakeShape, Claim
  <1>6. ASSUME LeaseHostTool(h) PROVE StoreNext
    <2>1. Claim(h) \in claims /\ host[h].seq < MaxTools /\ host[h].seq \in Nat
      BY <1>0, <1>6 DEF LeaseHostTool, WakeShape, WakeRecords, Claim
    <2>2. host[h].seq \in Slots
      BY <2>1, RuntimeBounds, SMT DEF RuntimeBounds
    <2>3. PICK attempt \in Attempts :
             LeaseLogicalTurnOperation(Claim(h), "HostTool", host[h].seq, attempt)
      BY <1>6 DEF LeaseHostTool
    <2>4. "HostTool" \in OperationKinds
      BY DEF OperationKinds
    <2> QED BY <2>1, <2>2, <2>3, <2>4 DEF StoreNext, ClaimHolderStep
  <1>7. ASSUME SubmitHostResult(h) PROVE StoreNext
    <2>1. Claim(h) \in claims
      BY <1>0, <1>7 DEF SubmitHostResult, WakeShape, Claim
    <2>2. HostToolOperation(h) \in ops
          /\ CompleteLogicalTurnOperation(Claim(h), HostToolOperation(h))
      BY <1>7 DEF SubmitHostResult, CompleteLogicalTurnOperation
    <2> QED BY <2>1, <2>2 DEF StoreNext, ClaimHolderStep
  <1>8. ASSUME NEW outcome \in Outcomes \cup {"Failed"}, Settle(h, outcome),
               Claim(h) \in claims
        PROVE  [StoreNext]_storeVars
    <2>1. CASE turns[Claim(h).turn].phase = "Cancelled"
      BY <1>8, <2>1 DEF Settle
    <2>2. CASE turns[Claim(h).turn].phase # "Cancelled"
      <3>1. CommitOutcome(Claim(h), outcome)
        BY <1>8, <2>2 DEF Settle
      <3>2. CASE outcome = "Yielded"
        BY <1>8, <3>1, <3>2 DEF CommitOutcome, StoreNext, ClaimHolderStep
      <3>3. CASE outcome = "AttentionRequired"
        BY <1>8, <3>1, <3>3 DEF CommitOutcome, StoreNext, ClaimHolderStep
      <3>4. CASE outcome \in {"Completed", "Failed"}
        BY <1>8, <3>1, <3>4 DEF CommitOutcome, StoreNext, ClaimHolderStep
      <3> QED BY <3>2, <3>3, <3>4 DEF Outcomes
    <2> QED BY <2>1, <2>2
  <1>9. ASSUME SettleBrainWake(h) \/ SettleFailedWake(h) PROVE [StoreNext]_storeVars
    BY <1>0, <1>8, <1>9 DEF SettleBrainWake, SettleFailedWake, WakeShape, Claim
  <1>10. ASSUME NEW key \in CancelKeys, CancelActiveTurn(h, key) PROVE StoreNext
    <2>1. Claim(h) \in claims
      BY <1>0, <1>10 DEF CancelActiveTurn, WakeRecords, Claim
    <2>2. Claim(h).turn \in Turns
      BY <2>1 DEF StoreTypeOK, Claims
    <2> QED BY <1>10, <2>2 DEF CancelActiveTurn, StoreNext, OperatorStep
  <1>11. ASSUME \/ RunStarted(h) \/ ReplayHostTool(h) \/ RejectHostTool(h)
                \/ ExecuteHostTool(h) \/ SubmitBrainActions(h) \/ HostThrows(h)
                \/ RequestTool(h) \/ ProviderEnd(h) \/ CancelBrainRun(h)
         PROVE  UNCHANGED storeVars
    BY <1>11 DEF RunStarted, ReplayHostTool, RejectHostTool, ExecuteHostTool,
                 SubmitBrainActions, HostThrows, RequestTool, ProviderEnd, ProviderEnds,
                 CancelBrainRun, storeVars
  <1> QED BY <1>1, <1>2, <1>3, <1>5, <1>6, <1>7, <1>9, <1>10, <1>11
          DEF HostNext, HostStep, HostFailure

LEMMA RuntimeStoreStep ==
    ASSUME StoreTypeOK, WakesInv, [RuntimeNext]_vars
    PROVE  [StoreNext]_storeVars
  <1>1. ASSUME NEW t \in Turns, NEW key \in CancelKeys, CancelIdleTurn(t, key)
        PROVE  StoreNext
    BY <1>1 DEF CancelIdleTurn, StoreNext, OperatorStep
  <1>2. ASSUME NEW t \in Turns, NEW a \in UNION {ResolutionActions(x) : x \in Attentions},
               ResolveAttentionForOperator(t, a)
        PROVE  StoreNext
    BY <1>2 DEF ResolveAttentionForOperator, StoreNext, OperatorStep
  <1>3. SwapBrainModule \/ Crash => UNCHANGED storeVars
    BY DEF SwapBrainModule, Crash, storeVars
  <1>4. Restart => StoreNext
    BY DEF Restart, StoreNext
  <1>5. FlushLogicalTurnOutbox => StoreNext
    BY DEF FlushLogicalTurnOutbox, StoreNext, PendingOutbox
  <1>6. UNCHANGED vars => UNCHANGED storeVars
    BY DEF vars, storeVars
  <1> QED BY <1>1, <1>2, <1>3, <1>4, <1>5, <1>6, HostStoreStep DEF RuntimeNext

(***************************************************************************)
(* The invariant of the wakes.                                             *)
(***************************************************************************)
LEMMA WakesInit == RuntimeInit => WakesInv
  BY IdleHostFields, RuntimeBounds
  DEF RuntimeBounds, RuntimeInit, WakesInv, WakeShape

(* A call of wake h that leaves the process as it is and gives h a record  *)
(* r of the right shape keeps the invariant.                               *)
LEMMA GoKeeps ==
    ASSUME WakesInv, NEW h \in Hosts, NEW r, Go(h, r), up,
           claims \subseteq claims', r \in WakeRecords(claims'), WakeShape(r)',
           UNCHANGED <<up, inst, module>>, bound' \in [Turns -> Nat \cup {None}]
    PROVE  WakesInv'
  <1>1. host' = [host EXCEPT ![h] = r]
    BY DEF Go
  <1>2. \A g \in Hosts : host[g] \in WakeRecords(claims')
    BY DEF WakesInv, WakeRecords
  <1>3. host' \in [Hosts -> WakeRecords(claims')]
    BY <1>1, <1>2 DEF WakesInv
  <1>4. ASSUME NEW g \in Hosts PROVE WakeShape(host[g])'
    <2>1. CASE g = h
      <3>1. host'[g] = r
        BY <1>1, <2>1 DEF WakesInv
      <3> QED BY <3>1 DEF WakeShape
    <2>2. CASE g # h
      <3>1. host'[g] = host[g]
        BY <1>1, <2>2 DEF WakesInv
      <3> QED BY <3>1 DEF WakesInv, WakeShape
    <2> QED BY <2>1, <2>2
  <1> QED BY <1>3, <1>4 DEF WakesInv

LEMMA HostWakes ==
    ASSUME StoreTypeOK, WakesInv, NEW h \in Hosts, HostNext(h)
    PROVE  WakesInv'
  <1>0. /\ host[h] \in WakeRecords(claims) /\ WakeShape(host[h])
        /\ module \in Nat /\ bound \in [Turns -> Nat \cup {None}] /\ inst \in Instances
    BY DEF WakesInv
  <1>1. claims \subseteq claims'
    BY HostStoreStep, ClaimsGrow
  <1>2. host[h] \in WakeRecords(claims')
    BY <1>0, <1>1 DEF WakeRecords
  <1>3. ASSUME NEW t \in Turns, PrepareNewTurn(h, t) PROVE WakesInv'
    <2> DEFINE r == [IdleHost EXCEPT !.stage = "admitting", !.turn = t]
    <2>1. r \in WakeRecords(claims') /\ r.stage = "admitting" /\ r.claim = None
          /\ r.run = "none" /\ r.turn = t
      BY DEF IdleHost, WakeRecords, Stages, RunPhases
    <2>2. Go(h, r) /\ up /\ UNCHANGED <<up, inst, module>>
          /\ bound' = [bound EXCEPT ![t] = module]
      BY <1>3 DEF PrepareNewTurn, BridgeFree
    <2> HIDE DEF r
    <2>3. WakeShape(r)'
      BY <2>1 DEF WakeShape
    <2>4. bound' \in [Turns -> Nat \cup {None}]
      BY <1>0, <2>2
    <2> QED BY <1>1, <2>1, <2>2, <2>3, <2>4, GoKeeps
  <1>4. ASSUME NEW t \in Turns, ClaimLogicalTurn(t, inst), Go(h, Claimed(h, t)), up,
               UNCHANGED <<up, inst, module, bound>>
        PROVE  WakesInv'
    <2>1. NewClaim(t, inst) \in claims'
      BY <1>4 DEF ClaimLogicalTurn
    <2>2. CASE bound[t] = module
      <3>0. PICK r : r = [IdleHost EXCEPT !.stage = "built", !.turn = t,
                                          !.claim = NewClaim(t, inst)]
        OBVIOUS
      <3>1. r \in WakeRecords(claims') /\ r.stage = "built" /\ r.claim \in claims'
            /\ r.run = "none"
        BY <2>1, <3>0 DEF IdleHost, WakeRecords, Stages, RunPhases
      <3>2. Go(h, r)
        BY <1>4, <2>2, <3>0 DEF Claimed
      <3>3. WakeShape(r)'
        BY <3>1 DEF WakeShape
      <3> QED BY <1>0, <1>1, <1>4, <3>1, <3>2, <3>3, GoKeeps
    <2>3. CASE bound[t] # module
      <3>1. Go(h, IdleHost)
        BY <1>4, <2>3 DEF Claimed
      <3>2. WakeShape(IdleHost)'
        BY IdleHostFields DEF WakeShape
      <3> QED BY <1>0, <1>1, <1>4, <3>1, <3>2, GoKeeps, IdleHostFields
    <2> QED BY <2>2, <2>3
  <1>5. ASSUME ClaimNewTurn(h) PROVE WakesInv'
    BY <1>0, <1>4, <1>5 DEF ClaimNewTurn, WakeShape
  <1>6. ASSUME NEW t \in Turns, ResumeTurn(h, t) PROVE WakesInv'
    BY <1>4, <1>6 DEF ResumeTurn, BridgeFree
  <1>7. ASSUME NEW r, Go(h, r), up, UNCHANGED <<up, inst, module, bound>>,
               r \in WakeRecords(claims'), WakeShape(r)'
        PROVE  WakesInv'
    BY <1>0, <1>1, <1>7, GoKeeps
  <1>8. ASSUME Go(h, IdleHost), up, UNCHANGED <<up, inst, module, bound>>
        PROVE  WakesInv'
    BY <1>7, <1>8, IdleHostFields DEF WakeShape
  <1>9. ASSUME NEW s \in Stages \ {"idle", "admitting", "executing", "running"},
               Go(h, [host[h] EXCEPT !.stage = s]), up,
               UNCHANGED <<up, inst, module, bound>>,
               host[h].stage \notin {"idle", "admitting"},
               s \in {"drained", "acted"} => host[h].outcome \in Outcomes,
               s = "submitting" => host[h].run \in {"AwaitingTool", "Cancelled"},
               s \in {"built", "starting", "drained", "acted"} => host[h].run = "none"
        PROVE  WakesInv'
    <2>1. PICK r : r = [host[h] EXCEPT !.stage = s]
      OBVIOUS
    <2>2. /\ r \in WakeRecords(claims') /\ r.stage = s /\ r.claim = host[h].claim
          /\ r.run = host[h].run /\ r.outcome = host[h].outcome
      BY <1>2, <2>1, StageUpdate, SMT
    <2>3. WakeShape(r)'
      BY <1>0, <1>1, <1>9, <2>2 DEF WakeShape
    <2> QED BY <1>7, <1>9, <2>1, <2>2, <2>3
  <1>10. ASSUME StartBrainRun(h) PROVE WakesInv'
    BY <1>0, <1>9, <1>10 DEF StartBrainRun, BridgeFree, Stages, WakeShape
  <1>11. ASSUME StartFailed(h) PROVE WakesInv'
    BY <1>9, <1>11 DEF StartFailed, Stages
  <1>12. ASSUME HostThrows(h) PROVE WakesInv'
    BY <1>9, <1>12 DEF HostThrows, Stages
  <1>13. ASSUME ExecuteHostTool(h) PROVE WakesInv'
    BY <1>0, <1>9, <1>13 DEF ExecuteHostTool, Stages, WakeShape
  <1>14. ASSUME SubmitBrainActions(h) PROVE WakesInv'
    BY <1>0, <1>9, <1>14 DEF SubmitBrainActions, BridgeFree, Stages, WakeShape
  <1>15. ASSUME SettleBrainWake(h) \/ SettleFailedWake(h) PROVE WakesInv'
    BY <1>8, <1>15 DEF SettleBrainWake, SettleFailedWake, Settle, BridgeFree
  <1>16. ASSUME RunStarted(h) PROVE WakesInv'
    <2>1. PICK r : r = [host[h] EXCEPT !.stage = "running", !.run = "Running"]
      OBVIOUS
    <2>2. /\ r \in WakeRecords(claims') /\ r.stage = "running" /\ r.claim = host[h].claim
          /\ r.run = "Running"
      BY <1>2, <2>1 DEF WakeRecords, Stages, RunPhases
    <2>3. WakeShape(r)'
      BY <1>0, <1>1, <1>16, <2>2 DEF WakeShape, RunStarted
    <2> QED BY <1>7, <1>16, <2>1, <2>2, <2>3 DEF RunStarted
  <1>17. ASSUME NEW p \in RunPhases, Go(h, [host[h] EXCEPT !.run = p]), up,
                UNCHANGED <<up, inst, module, bound>>,
                host[h].run # "none",
                p = "Cancelled" \/ (p = "ToolRequested" /\ host[h].run = "Running"
                                    /\ host[h].seq < MaxTools)
         PROVE  WakesInv'
    <2>1. PICK r : r = [host[h] EXCEPT !.run = p]
      OBVIOUS
    <2>2. /\ r \in WakeRecords(claims') /\ r.stage = host[h].stage
          /\ r.claim = host[h].claim /\ r.turn = host[h].turn
          /\ r.run = p /\ r.outcome = host[h].outcome /\ r.seq = host[h].seq
      BY <1>2, <2>1, RunUpdate, SMT
    <2>3. WakeShape(r)'
      BY <1>0, <1>1, <1>17, <2>2 DEF WakeShape
    <2> QED BY <1>7, <1>17, <2>1, <2>2, <2>3
  <1>18. ASSUME RequestTool(h) PROVE WakesInv'
    BY <1>17, <1>18 DEF RequestTool, RunPhases
  <1>19. ASSUME CancelBrainRun(h) PROVE WakesInv'
    BY <1>17, <1>19 DEF CancelBrainRun, CancelRun, Cancellable, BridgeFree, RunPhases
  <1>20. ASSUME NEW key \in CancelKeys, CancelActiveTurn(h, key) PROVE WakesInv'
    BY <1>17, <1>20 DEF CancelActiveTurn, CancelRun, Cancellable, BridgeFree, RunPhases
  <1>21. ASSUME NEW phase \in ProviderPhases, ProviderEnds(h, phase) PROVE WakesInv'
    <2>1. PICK r : r = [host[h] EXCEPT !.run = phase, !.finished = TRUE]
      OBVIOUS
    <2>2. /\ r \in WakeRecords(claims') /\ r.stage = host[h].stage
          /\ r.claim = host[h].claim /\ r.turn = host[h].turn
          /\ r.run = phase /\ r.outcome = host[h].outcome /\ r.seq = host[h].seq
      BY <1>2, <2>1 DEF WakeRecords, ProviderPhases, RunPhases
    <2>3. /\ host[h].run \in {"Cancelled", "Running"}
          /\ host[h].run = "Cancelled" <=> phase = "Cancelled"
      BY <1>21 DEF ProviderEnds
    <2>4. WakeShape(r)'
      BY <1>0, <1>1, <2>2, <2>3 DEF WakeShape, ProviderPhases
    <2> QED BY <1>7, <1>21, <2>1, <2>2, <2>4 DEF ProviderEnds
  <1>22. ASSUME LeaseHostTool(h) PROVE WakesInv'
    <2>0. host[h].seq + 1 \in Nat
      BY <1>0, SMT DEF WakeRecords
    <2>1. PICK a \in Attempts :
             Go(h, [host[h] EXCEPT !.stage = "executing", !.run = "AwaitingTool",
                                   !.attempt = a, !.seq = host[h].seq + 1])
      BY <1>22 DEF LeaseHostTool
    <2>2. PICK r : r = [host[h] EXCEPT !.stage = "executing", !.run = "AwaitingTool",
                                       !.attempt = a, !.seq = host[h].seq + 1]
      OBVIOUS
    <2>3. /\ r \in WakeRecords(claims') /\ r.stage = "executing"
          /\ r.claim = host[h].claim /\ r.run = "AwaitingTool"
      BY <1>2, <2>0, <2>2 DEF WakeRecords, Stages, RunPhases
    <2>4. WakeShape(r)'
      BY <1>0, <1>1, <1>22, <2>3 DEF WakeShape, LeaseHostTool
    <2> QED BY <1>7, <1>22, <2>1, <2>2, <2>3, <2>4 DEF LeaseHostTool, BridgeFree
  <1>23. ASSUME ReplayHostTool(h) PROVE WakesInv'
    <2>0. host[h].seq + 1 \in Nat
      BY <1>0, SMT DEF WakeRecords
    <2>1. PICK r : r = [host[h] EXCEPT !.run = "Running", !.seq = host[h].seq + 1]
      OBVIOUS
    <2>2. /\ r \in WakeRecords(claims') /\ r.stage = host[h].stage
          /\ r.claim = host[h].claim /\ r.run = "Running"
      BY <1>2, <2>0, <2>1 DEF WakeRecords, Stages, RunPhases
    <2>3. WakeShape(r)'
      BY <1>0, <1>1, <1>23, <2>2 DEF WakeShape, ReplayHostTool
    <2> QED BY <1>7, <1>23, <2>1, <2>2, <2>3 DEF ReplayHostTool, BridgeFree
  <1>24. ASSUME RejectHostTool(h) PROVE WakesInv'
    <2>0. host[h].seq + 1 \in Nat
      BY <1>0, SMT DEF WakeRecords
    <2>1. PICK r : r = [host[h] EXCEPT !.stage = "failed", !.seq = host[h].seq + 1]
      OBVIOUS
    <2>2. /\ r \in WakeRecords(claims') /\ r.stage = "failed" /\ r.claim = host[h].claim
      BY <1>2, <2>0, <2>1 DEF WakeRecords, Stages
    <2>3. WakeShape(r)'
      BY <1>0, <1>1, <1>24, <2>2 DEF WakeShape, RejectHostTool
    <2> QED BY <1>7, <1>24, <2>1, <2>2, <2>3 DEF RejectHostTool, BridgeFree
  <1>25. ASSUME SubmitHostResult(h) PROVE WakesInv'
    <2>0. /\ up /\ UNCHANGED <<up, inst, module, bound>>
          /\ host[h].stage = "submitting" /\ host[h].claim \in claims
          /\ host[h].run \in {"AwaitingTool", "Cancelled"}
      BY <1>0, <1>25 DEF SubmitHostResult, BridgeFree, WakeShape
    <2>1. CASE Go(h, [host[h] EXCEPT !.stage = "running"])
      <3>1. PICK r : r = [host[h] EXCEPT !.stage = "running"]
        OBVIOUS
      <3>2. /\ r \in WakeRecords(claims') /\ r.stage = "running"
            /\ r.claim = host[h].claim /\ r.run = host[h].run
        BY <1>2, <3>1 DEF WakeRecords, Stages
      <3>3. WakeShape(r)'
        BY <1>1, <2>0, <3>2 DEF WakeShape
      <3> QED BY <1>7, <2>0, <2>1, <3>1, <3>2, <3>3
    <2>2. CASE Go(h, [host[h] EXCEPT !.stage = "running", !.run = "Running"])
      <3>1. PICK r : r = [host[h] EXCEPT !.stage = "running", !.run = "Running"]
        OBVIOUS
      <3>2. /\ r \in WakeRecords(claims') /\ r.stage = "running"
            /\ r.claim = host[h].claim /\ r.run = "Running"
        BY <1>2, <3>1 DEF WakeRecords, Stages, RunPhases
      <3>3. WakeShape(r)'
        BY <1>1, <2>0, <3>2 DEF WakeShape
      <3> QED BY <1>7, <2>0, <2>2, <3>1, <3>2, <3>3
    <2>3. CASE Go(h, [host[h] EXCEPT !.stage = "failed"])
      BY <1>9, <2>0, <2>3 DEF Stages
    <2> QED BY <1>25, <2>1, <2>2, <2>3 DEF SubmitHostResult
  <1>26. ASSUME DrainTerminal(h) PROVE WakesInv'
    <2>0. /\ up /\ UNCHANGED <<up, inst, module, bound>>
          /\ host[h].stage = "running" /\ host[h].claim \in claims
      BY <1>0, <1>26 DEF DrainTerminal, BridgeFree, WakeShape
    <2>1. CASE host[h].run \in Outcomes
      <3>1. PICK r : r = [host[h] EXCEPT !.stage = "drained", !.outcome = host[h].run,
                                         !.run = "none"]
        OBVIOUS
      <3>2. /\ r \in WakeRecords(claims') /\ r.stage = "drained"
            /\ r.claim = host[h].claim /\ r.run = "none" /\ r.outcome \in Outcomes
        BY <1>2, <2>1, <3>1 DEF WakeRecords, Stages, RunPhases
      <3>3. WakeShape(r)'
        BY <1>1, <2>0, <3>2 DEF WakeShape
      <3> QED BY <1>7, <1>26, <2>0, <2>1, <3>1, <3>2, <3>3 DEF DrainTerminal
    <2>2. CASE host[h].run \notin Outcomes
      <3>1. PICK r : r = [host[h] EXCEPT !.stage = "failed", !.run = "none"]
        OBVIOUS
      <3>2. /\ r \in WakeRecords(claims') /\ r.stage = "failed"
            /\ r.claim = host[h].claim /\ r.run = "none"
        BY <1>2, <3>1 DEF WakeRecords, Stages, RunPhases
      <3>3. WakeShape(r)'
        BY <1>1, <2>0, <3>2 DEF WakeShape
      <3> QED BY <1>7, <1>26, <2>0, <2>2, <3>1, <3>2, <3>3 DEF DrainTerminal
    <2> QED BY <2>1, <2>2
  <1> QED BY <1>3, <1>5, <1>6, <1>10, <1>11, <1>12, <1>13, <1>14, <1>15, <1>16, <1>18,
             <1>19, <1>20, <1>21, <1>22, <1>23, <1>24, <1>25, <1>26
          DEF HostNext, HostStep, HostFailure, ProviderEnd

LEMMA WakesStep ==
    ASSUME StoreTypeOK, WakesInv, [RuntimeNext]_vars
    PROVE  WakesInv'
  <1>1. ASSUME NEW h \in Hosts, HostNext(h) PROVE WakesInv'
    BY <1>1, HostWakes
  <1>2. claims \subseteq claims'
    BY RuntimeStoreStep, ClaimsGrow
  <1>3. ASSUME UNCHANGED <<up, inst, bound, host>>, module' \in Nat PROVE WakesInv'
    <2>1. host' \in [Hosts -> WakeRecords(claims')]
      <3>1. \A g \in Hosts : host[g] \in WakeRecords(claims')
        BY <1>2 DEF WakesInv, WakeRecords
      <3> QED BY <1>3, <3>1 DEF WakesInv
    <2>2. \A g \in Hosts : WakeShape(host[g])'
      BY <1>2, <1>3 DEF WakesInv, WakeShape
    <2> QED BY <1>3, <2>1, <2>2 DEF WakesInv
  <1>4. ASSUME NEW t \in Turns, NEW key \in CancelKeys, CancelIdleTurn(t, key)
        PROVE  WakesInv'
    BY <1>3, <1>4 DEF CancelIdleTurn, runtimeVars, WakesInv
  <1>5. ASSUME NEW t \in Turns, NEW a, ResolveAttentionForOperator(t, a)
        PROVE  WakesInv'
    BY <1>3, <1>5 DEF ResolveAttentionForOperator, runtimeVars, WakesInv
  <1>6. ASSUME FlushLogicalTurnOutbox \/ UNCHANGED vars PROVE WakesInv'
    BY <1>3, <1>6 DEF FlushLogicalTurnOutbox, runtimeVars, vars, WakesInv
  <1>7. ASSUME SwapBrainModule PROVE WakesInv'
    BY <1>3, <1>7, SMT DEF SwapBrainModule, WakesInv
  <1>8. ASSUME host' = [h \in Hosts |-> IdleHost]
        PROVE  /\ host' \in [Hosts -> WakeRecords(claims')]
               /\ \A g \in Hosts : WakeShape(host[g])'
    BY <1>8, IdleHostFields DEF WakeShape
  <1>9. ASSUME Crash PROVE WakesInv'
    BY <1>8, <1>9 DEF Crash, WakesInv
  <1>10. ASSUME Restart PROVE WakesInv'
    BY <1>8, <1>10 DEF Restart, WakesInv
  <1> QED BY <1>1, <1>4, <1>5, <1>6, <1>7, <1>9, <1>10 DEF RuntimeNext

(* The service implements the store: every bridge call, crash and restart  *)
(* is one of the store's operations or leaves the store alone, so a wake   *)
(* presents only claims the store handed out and every theorem about the   *)
(* store holds in the running service.                                     *)
THEOREM RuntimeImplementsStore == RuntimeSpec => StoreSpec
  <1>1. RuntimeInit => StoreInit /\ StoreTypeOK /\ WakesInv
    BY StoreTypeInit, WakesInit DEF RuntimeInit
  <1>2. StoreTypeOK /\ WakesInv /\ [RuntimeNext]_vars
            => StoreTypeOK' /\ WakesInv' /\ [StoreNext]_storeVars
    BY RuntimeStoreStep, StoreTypeStep, WakesStep
  <1> QED BY <1>1, <1>2, PTL DEF RuntimeSpec, StoreSpec

(* What the store guarantees, the running service has: whatever wakes,     *)
(* compactions, cancellations, operators, module swaps, crashes and        *)
(* restarts do, one claim at most passes the fence of a turn, the          *)
(* checkpoints of a turn are one chain, every change is announced once and *)
(* in order, a turn with a tool of unknown outcome waits, and exactly the  *)
(* runnable turns have tickets.                                            *)
THEOREM ServiceKeepsStoreGuarantees ==
    RuntimeSpec => [](/\ SingleOwner /\ CheckpointChain /\ LifecycleAnnounced
                      /\ UnknownOutcomeBlocks /\ TicketIffRunnable)
  BY RuntimeImplementsStore, OneOwnerPerTurn, ContinuationsFormAChain,
     OutboxAnnouncesEveryRevision, UnknownOutcomesWait, TicketsAreRunnable, PTL

(***************************************************************************)
(* A live wake keeps its turn.  ActiveWakeOwnsTurn is inductive together   *)
(* with WakesInv: a turn that is Running or Cancelled cannot be claimed    *)
(* again, so the only commits on the turn of a live wake are its own and a *)
(* cancellation.                                                           *)
(***************************************************************************)
Held(c) == RequireRunningFence(c) \/ turns[c.turn].phase = "Cancelled"

LEMMA HeldUnchanged ==
    ASSUME NEW c, turns'[c.turn] = turns[c.turn], Held(c)
    PROVE  Held(c)'
  BY DEF Held, RequireRunningFence

(* Every wake keeps its claim or gives it up, and the turns of the claims  *)
(* that remain are left alone or cancelled.                                *)
LEMMA OwnershipKept ==
    ASSUME ActiveWakeOwnsTurn,
           \A g \in Hosts : \/ host'[g].claim = None
                            \/ /\ host'[g].claim = host[g].claim
                               /\ \/ turns'[host[g].claim.turn] = turns[host[g].claim.turn]
                                  \/ turns'[host[g].claim.turn].phase = "Cancelled"
    PROVE  ActiveWakeOwnsTurn'
  <1>1. ASSUME NEW c \in ActiveClaims' PROVE Held(c)'
    <2>1. PICK g \in Hosts : c = host'[g].claim /\ c # None
      BY DEF ActiveClaims, Claim
    <2>2. host[g].claim = c /\ c \in ActiveClaims
      BY <2>1 DEF ActiveClaims, Claim
    <2>3. Held(c)
      BY <2>2 DEF ActiveWakeOwnsTurn, Held
    <2> QED BY <2>1, <2>2, <2>3, HeldUnchanged DEF Held
  <1>2. ASSUME NEW g \in Hosts, NEW h \in Hosts, Claim(g)' # None, Claim(h)' # None,
               Claim(g)'.turn = Claim(h)'.turn
        PROVE  g = h
    BY <1>2 DEF Claim, ActiveWakeOwnsTurn
  <1> QED BY <1>1, <1>2 DEF ActiveWakeOwnsTurn, Held

(* Which claims a call of wake h leaves in the active wakes. *)
ClaimsKept == \A g \in Hosts : host'[g].claim \in {host[g].claim, None}

LEMMA GoKeepsClaims ==
    ASSUME WakesInv, NEW h \in Hosts, NEW r, Go(h, r), r.claim \in {host[h].claim, None}
    PROVE  ClaimsKept
  BY DEF WakesInv, Go, ClaimsKept

LEMMA QuietKept ==
    ASSUME ActiveWakeOwnsTurn, ClaimsKept, turns' = turns
    PROVE  ActiveWakeOwnsTurn'
  BY OwnershipKept DEF ClaimsKept

(* The turn of a live wake is Running or Cancelled. *)
LEMMA LiveTurn ==
    ASSUME ActiveWakeOwnsTurn, NEW g \in Hosts, host[g].claim # None
    PROVE  turns[host[g].claim.turn].phase \in {"Running", "Cancelled"}
  BY DEF ActiveWakeOwnsTurn, ActiveClaims, Claim, RequireRunningFence

(* A commit on a turn without a live wake disturbs none. *)
LEMMA IdleTurnKept ==
    ASSUME ActiveWakeOwnsTurn, StoreTypeOK, WakesInv, ClaimsKept, NEW t \in Turns,
           turns[t].phase \notin {"Running", "Cancelled"},
           \A u \in Turns : u # t => turns'[u] = turns[u]
    PROVE  ActiveWakeOwnsTurn'
  <1>1. ASSUME NEW g \in Hosts, host[g].claim # None
        PROVE  host[g].claim.turn \in Turns \ {t}
    BY <1>1, LiveTurn, SMT DEF WakesInv, WakeRecords, StoreTypeOK, Claims
  <1> QED BY <1>1, OwnershipKept DEF ClaimsKept

LEMMA CancelKept ==
    ASSUME ActiveWakeOwnsTurn, StoreTypeOK, WakesInv, ClaimsKept, NEW t \in Turns,
           NEW key \in CancelKeys, CancelLogicalTurn(t, key)
    PROVE  ActiveWakeOwnsTurn'
  <1>1. CASE Terminal(t)
    BY <1>1, QuietKept DEF CancelLogicalTurn
  <1>2. CASE ~Terminal(t)
    <2>1. turns'[t].phase = "Cancelled" /\ \A u \in Turns : u # t => turns'[u] = turns[u]
      BY <1>2, CancelEffect DEF TurnStep
    <2>2. \A g \in Hosts : host[g].claim # None => host[g].claim.turn \in Turns
      BY DEF WakesInv, WakeRecords, StoreTypeOK, Claims
    <2> QED BY <2>1, <2>2, OwnershipKept DEF ClaimsKept
  <1> QED BY <1>1, <1>2

(* A claim gives the turn to one wake, which had none. *)
LEMMA ClaimOwns ==
    ASSUME ActiveWakeOwnsTurn, StoreTypeOK, WakesInv, NEW h \in Hosts, NEW t \in Turns,
           host[h].claim = None, ClaimLogicalTurn(t, inst), Go(h, Claimed(h, t))
    PROVE  ActiveWakeOwnsTurn'
  <1>1. turns[t].phase \notin {"Running", "Cancelled"}
    BY DEF ClaimLogicalTurn, RunnablePhases
  <1>2. inst \in Instances
    BY DEF WakesInv
  <1>3. /\ \A u \in Turns : u # t => turns'[u] = turns[u]
        /\ turns'[t].phase = "Running" /\ turns'[t].epoch = ExecutionEpochId(t, inst)
        /\ turns'[t].gen = turns[t].gen + 1 /\ turns'[t].cgen = turns[t].cgen
        /\ turns'[t].rev = turns[t].rev + 1
    BY <1>2, ClaimEffect DEF TurnStep
  <1>4. CASE bound[t] # module
    <2>1. ClaimsKept
      BY <1>4, GoKeepsClaims, IdleHostFields DEF Claimed
    <2> QED BY <1>1, <1>3, <2>1, IdleTurnKept
  <1>5. CASE bound[t] = module
    <2>0. PICK n : n = NewClaim(t, inst)
      OBVIOUS
    <2>1. PICK r : r = [IdleHost EXCEPT !.stage = "built", !.turn = t, !.claim = n]
      OBVIOUS
    <2>2. r.claim = n
      BY <2>1 DEF IdleHost
    <2>3. host' = [host EXCEPT ![h] = r]
      BY <1>5, <2>0, <2>1 DEF Go, Claimed
    <2>4. /\ host'[h].claim = n
          /\ \A g \in Hosts : g # h => host'[g].claim = host[g].claim
      BY <2>2, <2>3 DEF WakesInv
    <2>5. /\ n.turn = t /\ n.epoch = ExecutionEpochId(t, inst)
          /\ n.gen = turns[t].gen + 1 /\ n.cgen = turns[t].cgen
          /\ n.rev = turns[t].rev + 1
      BY <2>0 DEF NewClaim
    <2>6. RequireRunningFence(n)'
      BY <1>3, <2>5 DEF RequireRunningFence
    <2>7. ASSUME NEW g \in Hosts, g # h, host'[g].claim # None
          PROVE  /\ host'[g].claim.turn \in Turns \ {t}
                 /\ Held(host[g].claim)'
      <3>1. host'[g].claim = host[g].claim
        BY <2>4, <2>7
      <3>2. PICK c : c = host[g].claim
        OBVIOUS
      <3>3. c.turn \in Turns \ {t}
        BY <1>1, <2>7, <3>1, <3>2, LiveTurn, SMTT(30) DEF WakesInv, WakeRecords, StoreTypeOK, Claims
      <3>4. Held(c)
        BY <2>7, <3>1, <3>2 DEF ActiveWakeOwnsTurn, ActiveClaims, Claim, Held
      <3>5. Held(c)'
        BY <1>3, <3>3, <3>4, HeldUnchanged
      <3>6. host'[g].claim = c
        BY <3>1, <3>2
      <3>7. Held(host[g].claim)'
        BY <3>5, <3>6 DEF Held, RequireRunningFence
      <3> QED BY <3>3, <3>6, <3>7
    <2>8. ASSUME NEW c \in ActiveClaims' PROVE Held(c)'
      <3>1. PICK g \in Hosts : c = host'[g].claim /\ c # None
        BY DEF ActiveClaims, Claim
      <3>2. CASE g = h
        BY <2>4, <2>6, <3>1, <3>2 DEF Held
      <3>3. CASE g # h
        BY <2>7, <3>1, <3>3 DEF Held, RequireRunningFence
      <3> QED BY <3>2, <3>3
    <2>9. ASSUME NEW f \in Hosts, NEW g \in Hosts, Claim(f)' # None, Claim(g)' # None,
                 Claim(f)'.turn = Claim(g)'.turn
          PROVE  f = g
      <3>1. CASE f = h \/ g = h
        BY <2>4, <2>5, <2>7, <2>9, <3>1 DEF Claim
      <3>2. CASE f # h /\ g # h
        BY <2>4, <2>9, <3>2 DEF Claim, ActiveWakeOwnsTurn
      <3> QED BY <3>1, <3>2
    <2> QED BY <2>8, <2>9 DEF ActiveWakeOwnsTurn, Held
  <1> QED BY <1>4, <1>5

LEMMA HostOwnership ==
    ASSUME ActiveWakeOwnsTurn, StoreTypeOK, WakesInv, NEW h \in Hosts, HostNext(h)
    PROVE  ActiveWakeOwnsTurn'
  <1>0. host[h] \in WakeRecords(claims) /\ WakeShape(host[h])
    BY DEF WakesInv
  <1>1. ASSUME NEW t \in Turns, PrepareNewTurn(h, t) PROVE ActiveWakeOwnsTurn'
    <2>1. [IdleHost EXCEPT !.stage = "admitting", !.turn = t].claim = None
      BY DEF IdleHost
    <2>2. ClaimsKept
      BY <1>1, <2>1, GoKeepsClaims DEF PrepareNewTurn
    <2>3. InsertLogicalTurnAdmission(t, h[1]) /\ h[1] \in Sessions
      BY <1>1 DEF PrepareNewTurn, Hosts
    <2>4. turns[t].phase = "Absent"
      BY <2>3 DEF InsertLogicalTurnAdmission, Exists
    <2>5. \A u \in Turns : u # t => turns'[u] = turns[u]
      BY <2>3, AdmissionEffect DEF TurnStep
    <2> QED BY <2>2, <2>4, <2>5, IdleTurnKept
  <1>2. ASSUME ClaimNewTurn(h) PROVE ActiveWakeOwnsTurn'
    BY <1>0, <1>2, ClaimOwns DEF ClaimNewTurn, WakeShape
  <1>3. ASSUME NEW t \in Turns, ResumeTurn(h, t) PROVE ActiveWakeOwnsTurn'
    BY <1>0, <1>3, ClaimOwns DEF ResumeTurn, WakeShape
  <1>4. ASSUME NEW r, Go(h, r), r.claim \in {host[h].claim, None}, turns' = turns
        PROVE  ActiveWakeOwnsTurn'
    BY <1>4, GoKeepsClaims, QuietKept
  <1>5. ASSUME NEW s, Go(h, [host[h] EXCEPT !.stage = s]), turns' = turns
        PROVE  ActiveWakeOwnsTurn'
    <2>1. [host[h] EXCEPT !.stage = s].claim = host[h].claim
      BY <1>0 DEF WakeRecords
    <2> QED BY <1>4, <1>5, <2>1
  <1>6. ASSUME StartBrainRun(h) PROVE ActiveWakeOwnsTurn'
    BY <1>5, <1>6 DEF StartBrainRun, LeaseLogicalTurnOperation
  <1>7. CompleteProviderOperation(Claim(h)) => turns' = turns
    BY DEF CompleteProviderOperation, CompleteLogicalTurnOperation, storeVars
  <1>8. ASSUME StartFailed(h) PROVE ActiveWakeOwnsTurn'
    BY <1>5, <1>7, <1>8 DEF StartFailed
  <1>9. ASSUME HostThrows(h) \/ ExecuteHostTool(h) \/ SubmitBrainActions(h)
        PROVE  ActiveWakeOwnsTurn'
    BY <1>5, <1>9 DEF HostThrows, ExecuteHostTool, SubmitBrainActions, storeVars
  <1>10. ASSUME NEW s, NEW p, Go(h, [host[h] EXCEPT !.stage = s, !.run = p]), turns' = turns
         PROVE  ActiveWakeOwnsTurn'
    <2>1. [host[h] EXCEPT !.stage = s, !.run = p].claim = host[h].claim
      BY <1>0 DEF WakeRecords
    <2> QED BY <1>4, <1>10, <2>1
  <1>11. ASSUME RunStarted(h) PROVE ActiveWakeOwnsTurn'
    BY <1>10, <1>11 DEF RunStarted, storeVars
  <1>12. ASSUME SubmitHostResult(h) PROVE ActiveWakeOwnsTurn'
    <2>1. turns' = turns
      BY <1>12 DEF SubmitHostResult, CompleteLogicalTurnOperation
    <2> QED BY <1>5, <1>10, <1>12, <2>1 DEF SubmitHostResult
  <1>13. ASSUME DrainTerminal(h) PROVE ActiveWakeOwnsTurn'
    <2>1. turns' = turns
      BY <1>7, <1>13 DEF DrainTerminal
    <2>2. [host[h] EXCEPT !.stage = "drained", !.outcome = host[h].run, !.run = "none"].claim
             = host[h].claim
      BY <1>0 DEF WakeRecords
    <2> QED BY <1>4, <1>10, <1>13, <2>1, <2>2 DEF DrainTerminal
  <1>14. ASSUME NEW p, Go(h, [host[h] EXCEPT !.run = p])
         PROVE  ClaimsKept
    <2>1. [host[h] EXCEPT !.run = p].claim = host[h].claim
      BY <1>0 DEF WakeRecords
    <2> QED BY <1>14, <2>1, GoKeepsClaims
  <1>15. ASSUME RequestTool(h) \/ CancelBrainRun(h) PROVE ActiveWakeOwnsTurn'
    BY <1>14, <1>15, QuietKept DEF RequestTool, CancelBrainRun, CancelRun, storeVars
  <1>16. ASSUME NEW key \in CancelKeys, CancelActiveTurn(h, key) PROVE ActiveWakeOwnsTurn'
    <2>1. Claim(h).turn \in Turns
      BY <1>0, <1>16 DEF CancelActiveTurn, WakeRecords, Claim, StoreTypeOK, Claims
    <2>2. ClaimsKept
      BY <1>14, <1>16 DEF CancelActiveTurn, CancelRun
    <2> QED BY <1>16, <2>1, <2>2, CancelKept DEF CancelActiveTurn
  <1>17. ASSUME NEW phase \in ProviderPhases, ProviderEnds(h, phase)
         PROVE  ActiveWakeOwnsTurn'
    <2>1. [host[h] EXCEPT !.run = phase, !.finished = TRUE].claim = host[h].claim
      BY <1>0 DEF WakeRecords
    <2> QED BY <1>4, <1>17, <2>1 DEF ProviderEnds, storeVars
  <1>18. ASSUME LeaseHostTool(h) PROVE ActiveWakeOwnsTurn'
    <2>1. turns' = turns
      BY <1>18 DEF LeaseHostTool, LeaseLogicalTurnOperation
    <2>2. PICK a \in Attempts :
             Go(h, [host[h] EXCEPT !.stage = "executing", !.run = "AwaitingTool",
                                   !.attempt = a, !.seq = host[h].seq + 1])
      BY <1>18 DEF LeaseHostTool
    <2>3. [host[h] EXCEPT !.stage = "executing", !.run = "AwaitingTool",
                          !.attempt = a, !.seq = host[h].seq + 1].claim = host[h].claim
      BY <1>0 DEF WakeRecords
    <2> QED BY <1>4, <2>1, <2>2, <2>3
  <1>19. ASSUME ReplayHostTool(h) PROVE ActiveWakeOwnsTurn'
    <2>1. [host[h] EXCEPT !.run = "Running", !.seq = host[h].seq + 1].claim = host[h].claim
      BY <1>0 DEF WakeRecords
    <2> QED BY <1>4, <1>19, <2>1 DEF ReplayHostTool, storeVars
  <1>20. ASSUME RejectHostTool(h) PROVE ActiveWakeOwnsTurn'
    <2>1. [host[h] EXCEPT !.stage = "failed", !.seq = host[h].seq + 1].claim = host[h].claim
      BY <1>0 DEF WakeRecords
    <2> QED BY <1>4, <1>20, <2>1 DEF RejectHostTool, storeVars
  <1>21. ASSUME SettleBrainWake(h) \/ SettleFailedWake(h) PROVE ActiveWakeOwnsTurn'
    <2>1. PICK outcome \in Outcomes \cup {"Failed"} : Settle(h, outcome)
      BY <1>0, <1>21 DEF SettleBrainWake, SettleFailedWake, WakeShape
    <2>2. Claim(h) \in claims
      BY <1>0, <1>21 DEF SettleBrainWake, SettleFailedWake, WakeShape, Claim
    <2>3. CASE turns[Claim(h).turn].phase = "Cancelled"
      <3>1. turns' = turns
        BY <2>1, <2>3 DEF Settle, storeVars
      <3> QED BY <1>4, <2>1, <3>1, IdleHostFields DEF Settle
    <2>4. CASE turns[Claim(h).turn].phase # "Cancelled"
      <3>1. CommitOutcome(Claim(h), outcome)
        BY <2>1, <2>4 DEF Settle
      <3>2. \A u \in Turns : u # Claim(h).turn => turns'[u] = turns[u]
        <4>1. CASE outcome = "Yielded"
          BY <2>2, <3>1, <4>1, YieldEffect DEF CommitOutcome, TurnStep
        <4>2. CASE outcome = "AttentionRequired"
          BY <2>2, <3>1, <4>2, AttentionEffect DEF CommitOutcome, TurnStep
        <4>3. CASE outcome \in {"Completed", "Failed"}
          BY <2>2, <3>1, <4>3, CompleteEffect DEF CommitOutcome, TurnStep
        <4> QED BY <4>1, <4>2, <4>3 DEF Outcomes
      <3>3. host' = [host EXCEPT ![h] = IdleHost]
        BY <2>1 DEF Settle, Go
      <3>4. /\ host'[h].claim = None
            /\ \A g \in Hosts : g # h => host'[g].claim = host[g].claim
        BY <3>3, IdleHostFields DEF WakesInv
      <3>5. ASSUME NEW g \in Hosts, g # h, host[g].claim # None
            PROVE  turns'[host[g].claim.turn] = turns[host[g].claim.turn]
        <4>1. host[g].claim.turn \in Turns
          BY <3>5, SMTT(30) DEF WakesInv, WakeRecords, StoreTypeOK, Claims
        <4>2. CASE host[h].claim # None
          BY <3>2, <3>5, <4>1, <4>2 DEF ActiveWakeOwnsTurn, Claim
        <4>3. CASE host[h].claim = None
          <5>1. None \in Claims
            BY <2>2, <4>3 DEF Claim, StoreTypeOK
          <5> QED BY <5>1, NoneAssumption
        <4> QED BY <4>2, <4>3
      <3> QED BY <3>4, <3>5, OwnershipKept
    <2> QED BY <2>3, <2>4
  <1> QED BY <1>1, <1>2, <1>3, <1>6, <1>8, <1>9, <1>11, <1>12, <1>13, <1>15, <1>16, <1>17,
             <1>18, <1>19, <1>20, <1>21
          DEF HostNext, HostStep, HostFailure, ProviderEnd

LEMMA OwnershipStep ==
    ASSUME ActiveWakeOwnsTurn, StoreTypeOK, WakesInv, [RuntimeNext]_vars
    PROVE  ActiveWakeOwnsTurn'
  <1>1. ASSUME NEW h \in Hosts, HostNext(h) PROVE ActiveWakeOwnsTurn'
    BY <1>1, HostOwnership
  <1>2. host' = host => ClaimsKept
    BY DEF ClaimsKept
  <1>3. ASSUME NEW t \in Turns, NEW key \in CancelKeys, CancelIdleTurn(t, key)
        PROVE  ActiveWakeOwnsTurn'
    BY <1>2, <1>3, CancelKept DEF CancelIdleTurn, runtimeVars
  <1>4. ASSUME NEW t \in Turns, NEW a, ResolveAttentionForOperator(t, a)
        PROVE  ActiveWakeOwnsTurn'
    <2>1. ResolveLogicalTurnAttention(t, a) /\ host' = host
      BY <1>4 DEF ResolveAttentionForOperator, runtimeVars
    <2>2. turns[t].phase = "AttentionRequired"
      BY <2>1 DEF ResolveLogicalTurnAttention
    <2>3. \A u \in Turns : u # t => turns'[u] = turns[u]
      BY <2>1, ResolveEffect DEF TurnStep
    <2> QED BY <1>2, <2>1, <2>2, <2>3, IdleTurnKept
  <1>5. ASSUME FlushLogicalTurnOutbox \/ SwapBrainModule \/ UNCHANGED vars
        PROVE  ActiveWakeOwnsTurn'
    BY <1>2, <1>5, QuietKept
    DEF FlushLogicalTurnOutbox, MarkLogicalTurnOutboxDelivered, SwapBrainModule, runtimeVars,
        storeVars, vars
  <1>6. ASSUME host' = [h \in Hosts |-> IdleHost] PROVE ActiveWakeOwnsTurn'
    BY <1>6, IdleHostFields DEF ActiveWakeOwnsTurn, ActiveClaims, Claim
  <1>7. ASSUME Crash \/ Restart PROVE ActiveWakeOwnsTurn'
    BY <1>6, <1>7 DEF Crash, Restart, WakesInv
  <1> QED BY <1>1, <1>3, <1>4, <1>5, <1>7 DEF RuntimeNext

(* A live wake keeps its turn until it settles or the turn is cancelled,   *)
(* and no two wakes drive the same turn, whatever compactions, operator    *)
(* calls, crashes and module swaps come between.                           *)
THEOREM LiveWakesKeepTheirTurns == RuntimeSpec => []ActiveWakeOwnsTurn
  <1>1. RuntimeInit => StoreTypeOK /\ WakesInv /\ ActiveWakeOwnsTurn
    <2>1. RuntimeInit => ActiveWakeOwnsTurn
      BY IdleHostFields DEF RuntimeInit, ActiveWakeOwnsTurn, ActiveClaims, Claim
    <2> QED BY <2>1, StoreTypeInit, WakesInit DEF RuntimeInit
  <1>2. StoreTypeOK /\ WakesInv /\ ActiveWakeOwnsTurn /\ [RuntimeNext]_vars
            => StoreTypeOK' /\ WakesInv' /\ ActiveWakeOwnsTurn'
    BY RuntimeStoreStep, StoreTypeStep, WakesStep, OwnershipStep
  <1> QED BY <1>1, <1>2, PTL DEF RuntimeSpec

(***************************************************************************)
(* A cancelled turn produces nothing.  The strengthening: once the turn of *)
(* a live wake is Cancelled, its run is cancelled or the wake has failed,  *)
(* because a cancellation is refused while there is no run to cancel.      *)
(***************************************************************************)
Stopped(r) == r.run = "Cancelled" \/ r.stage = "failed"

CancelledStops ==
    \A h \in Hosts :
        host[h].claim # None /\ turns[host[h].claim.turn].phase = "Cancelled"
            => Stopped(host[h])

(* A step that cancels no turn and stops no wake from being stopped. *)
LEMMA StoppedKept ==
    ASSUME CancelledStops, StoreTypeOK, WakesInv, NEW h \in Hosts, NEW r,
           Go(h, r),
           (r.claim = host[h].claim /\ (Stopped(host[h]) => Stopped(r))) \/ r.claim = None,
           \A u \in Turns : turns'[u].phase = "Cancelled" => turns[u].phase = "Cancelled"
    PROVE  CancelledStops'
  <1>1. host'[h] = r /\ \A g \in Hosts : g # h => host'[g] = host[g]
    BY DEF Go, WakesInv
  <1>2. \A g \in Hosts : host[g].claim # None => host[g].claim.turn \in Turns
    BY DEF WakesInv, WakeRecords, StoreTypeOK, Claims
  <1> QED BY <1>1, <1>2 DEF CancelledStops, Stopped

LEMMA HostStops ==
    ASSUME CancelledStops, ActiveWakeOwnsTurn, StoreTypeOK, WakesInv,
           NEW h \in Hosts, HostNext(h)
    PROVE  CancelledStops'
  <1>0. host[h] \in WakeRecords(claims) /\ WakeShape(host[h])
    BY DEF WakesInv
  <1>1. ASSUME NEW t \in Turns, PrepareNewTurn(h, t) PROVE CancelledStops'
    <2>1. [IdleHost EXCEPT !.stage = "admitting", !.turn = t].claim = None
      BY DEF IdleHost
    <2>2. InsertLogicalTurnAdmission(t, h[1]) /\ h[1] \in Sessions
      BY <1>1 DEF PrepareNewTurn, Hosts
    <2>3. /\ \A u \in Turns : u # t => turns'[u] = turns[u]
          /\ turns'[t].phase = "Admitted"
      BY <2>2, AdmissionEffect DEF TurnStep
    <2> QED BY <1>1, <2>1, <2>3, StoppedKept DEF PrepareNewTurn
  <1>2. ASSUME NEW t \in Turns, ClaimLogicalTurn(t, inst), Go(h, Claimed(h, t)),
               host[h].claim = None
        PROVE  CancelledStops'
    <2>1. inst \in Instances
      BY DEF WakesInv
    <2>2. /\ \A u \in Turns : u # t => turns'[u] = turns[u]
          /\ turns'[t].phase = "Running"
      BY <1>2, <2>1, ClaimEffect DEF TurnStep
    <2>3. CASE bound[t] # module
      BY <1>2, <2>2, <2>3, StoppedKept, IdleHostFields DEF Claimed
    <2>4. CASE bound[t] = module
      <3>0. PICK r : r = [IdleHost EXCEPT !.stage = "built", !.turn = t,
                                          !.claim = NewClaim(t, inst)]
        OBVIOUS
      <3>1. r.claim = NewClaim(t, inst) /\ NewClaim(t, inst).turn = t
        BY <3>0 DEF IdleHost, NewClaim
      <3>2. host'[h] = r /\ \A g \in Hosts : g # h => host'[g] = host[g]
        BY <1>2, <2>4, <3>0 DEF Go, Claimed, WakesInv
      <3>3. \A g \in Hosts : host[g].claim # None => host[g].claim.turn \in Turns
        BY DEF WakesInv, WakeRecords, StoreTypeOK, Claims
      <3>4. turns'[r.claim.turn].phase # "Cancelled"
        BY <2>2, <3>1
      <3> QED BY <2>2, <3>2, <3>3, <3>4, SMTT(30) DEF CancelledStops, Stopped
    <2> QED BY <2>3, <2>4
  <1>3. ASSUME ClaimNewTurn(h) PROVE CancelledStops'
    BY <1>0, <1>2, <1>3 DEF ClaimNewTurn, WakeShape
  <1>4. ASSUME NEW t \in Turns, ResumeTurn(h, t) PROVE CancelledStops'
    BY <1>0, <1>2, <1>4 DEF ResumeTurn, WakeShape
  <1>5. ASSUME NEW r, Go(h, r), r.claim = host[h].claim, Stopped(host[h]) => Stopped(r),
               turns' = turns
        PROVE  CancelledStops'
    BY <1>5, StoppedKept
  <1>6. CompleteProviderOperation(Claim(h)) => turns' = turns
    BY DEF CompleteProviderOperation, CompleteLogicalTurnOperation, storeVars
  <1>7. ASSUME NEW s \in Stages, Go(h, [host[h] EXCEPT !.stage = s]), turns' = turns,
               host[h].stage # "failed"
        PROVE  CancelledStops'
    <2>1. PICK r : r = [host[h] EXCEPT !.stage = s]
      OBVIOUS
    <2>2. r.claim = host[h].claim /\ r.run = host[h].run
      BY <1>0, <2>1 DEF WakeRecords
    <2> QED BY <1>5, <1>7, <2>1, <2>2 DEF Stopped
  <1>8. ASSUME \/ StartBrainRun(h) \/ StartFailed(h) \/ HostThrows(h)
               \/ ExecuteHostTool(h) \/ SubmitBrainActions(h)
        PROVE  CancelledStops'
    BY <1>6, <1>7, <1>8
    DEF StartBrainRun, StartFailed, HostThrows, ExecuteHostTool, SubmitBrainActions,
        LeaseLogicalTurnOperation, storeVars, Stages
  <1>9. ASSUME RunStarted(h) PROVE CancelledStops'
    <2>1. PICK r : r = [host[h] EXCEPT !.stage = "running", !.run = "Running"]
      OBVIOUS
    <2>2. r.claim = host[h].claim
      BY <1>0, <2>1 DEF WakeRecords
    <2>3. host[h].run # "Cancelled" /\ host[h].stage = "starting"
      BY <1>0, <1>9 DEF RunStarted, WakeShape
    <2> QED BY <1>5, <1>9, <2>1, <2>2, <2>3 DEF Stopped, RunStarted, storeVars
  <1>10. ASSUME NEW p, Go(h, [host[h] EXCEPT !.run = p]), turns' = turns,
                p = "Cancelled" \/ host[h].run = "Running"
         PROVE  CancelledStops'
    <2>1. PICK r : r = [host[h] EXCEPT !.run = p]
      OBVIOUS
    <2>2. r.claim = host[h].claim /\ r.run = p /\ r.stage = host[h].stage
      BY <1>0, <2>1 DEF WakeRecords
    <2> QED BY <1>5, <1>10, <2>1, <2>2 DEF Stopped
  <1>11. ASSUME RequestTool(h) \/ CancelBrainRun(h) PROVE CancelledStops'
    BY <1>10, <1>11 DEF RequestTool, CancelBrainRun, CancelRun, storeVars
  <1>12. ASSUME NEW phase \in ProviderPhases, ProviderEnds(h, phase) PROVE CancelledStops'
    <2>1. PICK r : r = [host[h] EXCEPT !.run = phase, !.finished = TRUE]
      OBVIOUS
    <2>2. r.claim = host[h].claim /\ r.run = phase /\ r.stage = host[h].stage
      BY <1>0, <2>1 DEF WakeRecords
    <2>3. host[h].run = "Cancelled" => phase = "Cancelled"
      BY <1>12 DEF ProviderEnds
    <2> QED BY <1>5, <1>12, <2>1, <2>2, <2>3 DEF Stopped, ProviderEnds, storeVars
  <1>13. ASSUME LeaseHostTool(h) PROVE CancelledStops'
    <2>1. PICK a \in Attempts :
             Go(h, [host[h] EXCEPT !.stage = "executing", !.run = "AwaitingTool",
                                   !.attempt = a, !.seq = host[h].seq + 1])
      BY <1>13 DEF LeaseHostTool
    <2>2. PICK r : r = [host[h] EXCEPT !.stage = "executing", !.run = "AwaitingTool",
                                       !.attempt = a, !.seq = host[h].seq + 1]
      OBVIOUS
    <2>3. r.claim = host[h].claim
      BY <1>0, <2>2 DEF WakeRecords
    <2>4. ~Stopped(host[h])
      BY <1>13 DEF LeaseHostTool, Stopped
    <2> QED BY <1>5, <1>13, <2>1, <2>2, <2>3, <2>4
            DEF LeaseHostTool, LeaseLogicalTurnOperation
  <1>14. ASSUME ReplayHostTool(h) PROVE CancelledStops'
    <2>1. PICK r : r = [host[h] EXCEPT !.run = "Running", !.seq = host[h].seq + 1]
      OBVIOUS
    <2>2. r.claim = host[h].claim
      BY <1>0, <2>1 DEF WakeRecords
    <2>3. ~Stopped(host[h])
      BY <1>14 DEF ReplayHostTool, Stopped
    <2> QED BY <1>5, <1>14, <2>1, <2>2, <2>3 DEF ReplayHostTool, storeVars
  <1>15. ASSUME RejectHostTool(h) PROVE CancelledStops'
    <2>1. PICK r : r = [host[h] EXCEPT !.stage = "failed", !.seq = host[h].seq + 1]
      OBVIOUS
    <2>2. r.claim = host[h].claim /\ r.stage = "failed"
      BY <1>0, <2>1 DEF WakeRecords
    <2> QED BY <1>5, <1>15, <2>1, <2>2 DEF RejectHostTool, Stopped, storeVars
  <1>16. ASSUME SubmitHostResult(h) PROVE CancelledStops'
    <2>0. turns' = turns /\ host[h].stage = "submitting"
      BY <1>16 DEF SubmitHostResult, CompleteLogicalTurnOperation
    <2>1. CASE Go(h, [host[h] EXCEPT !.stage = "running"])
               \/ Go(h, [host[h] EXCEPT !.stage = "failed"])
      BY <1>7, <2>0, <2>1 DEF Stages
    <2>2. CASE host[h].run = "AwaitingTool"
               /\ Go(h, [host[h] EXCEPT !.stage = "running", !.run = "Running"])
      <3>1. PICK r : r = [host[h] EXCEPT !.stage = "running", !.run = "Running"]
        OBVIOUS
      <3>2. r.claim = host[h].claim
        BY <1>0, <3>1 DEF WakeRecords
      <3> QED BY <1>5, <2>0, <2>2, <3>1, <3>2 DEF Stopped
    <2> QED BY <1>16, <2>1, <2>2 DEF SubmitHostResult
  <1>17. ASSUME DrainTerminal(h) PROVE CancelledStops'
    <2>0. turns' = turns /\ host[h].stage = "running"
      BY <1>6, <1>17 DEF DrainTerminal
    <2>1. CASE host[h].run \in Outcomes
      <3>1. PICK r : r = [host[h] EXCEPT !.stage = "drained", !.outcome = host[h].run,
                                         !.run = "none"]
        OBVIOUS
      <3>2. r.claim = host[h].claim
        BY <1>0, <3>1 DEF WakeRecords
      <3>3. ~Stopped(host[h])
        BY <2>0, <2>1 DEF Stopped, Outcomes
      <3> QED BY <1>5, <1>17, <2>0, <2>1, <3>1, <3>2, <3>3 DEF DrainTerminal
    <2>2. CASE host[h].run \notin Outcomes
      <3>1. PICK r : r = [host[h] EXCEPT !.stage = "failed", !.run = "none"]
        OBVIOUS
      <3>2. r.claim = host[h].claim /\ r.stage = "failed"
        BY <1>0, <3>1 DEF WakeRecords
      <3> QED BY <1>5, <1>17, <2>0, <2>2, <3>1, <3>2 DEF DrainTerminal, Stopped
    <2> QED BY <2>1, <2>2
  <1>18. ASSUME SettleBrainWake(h) \/ SettleFailedWake(h) PROVE CancelledStops'
    <2>1. PICK outcome \in Outcomes \cup {"Failed"} : Settle(h, outcome)
      BY <1>0, <1>18 DEF SettleBrainWake, SettleFailedWake, WakeShape
    <2>2. Claim(h) \in claims
      BY <1>0, <1>18 DEF SettleBrainWake, SettleFailedWake, WakeShape, Claim
    <2>3. \A u \in Turns : turns'[u].phase = "Cancelled" => turns[u].phase = "Cancelled"
      <3>1. CASE turns[Claim(h).turn].phase = "Cancelled"
        BY <2>1, <3>1 DEF Settle, storeVars
      <3>2. CASE turns[Claim(h).turn].phase # "Cancelled"
        <4>0. CommitOutcome(Claim(h), outcome)
          BY <2>1, <3>2 DEF Settle
        <4>1. CASE outcome = "Yielded"
          BY <2>2, <4>0, <4>1, YieldEffect DEF CommitOutcome, TurnStep
        <4>2. CASE outcome = "AttentionRequired"
          BY <2>2, <4>0, <4>2, AttentionEffect DEF CommitOutcome, TurnStep
        <4>3. CASE outcome \in {"Completed", "Failed"}
          BY <2>2, <4>0, <4>3, CompleteEffect DEF CommitOutcome, TurnStep
        <4> QED BY <4>1, <4>2, <4>3 DEF Outcomes
      <3> QED BY <3>1, <3>2
    <2> QED BY <2>1, <2>3, StoppedKept, IdleHostFields DEF Settle
  <1>19. ASSUME NEW key \in CancelKeys, CancelActiveTurn(h, key) PROVE CancelledStops'
    <2>0. /\ Claim(h) # None /\ CancelLogicalTurn(Claim(h).turn, key)
          /\ Go(h, CancelRun(h))
      BY <1>19 DEF CancelActiveTurn
    <2>1. Claim(h).turn \in Turns
      BY <1>0, <2>0 DEF WakeRecords, Claim, StoreTypeOK, Claims
    <2>2. \A u \in Turns : u # Claim(h).turn => turns'[u] = turns[u]
      <3>1. CASE Terminal(Claim(h).turn)
        BY <2>0, <3>1 DEF CancelLogicalTurn
      <3>2. CASE ~Terminal(Claim(h).turn)
        BY <2>0, <2>1, <3>2, CancelEffect DEF TurnStep
      <3> QED BY <3>1, <3>2
    <2>3. PICK r : r = [host[h] EXCEPT !.run = "Cancelled"]
      OBVIOUS
    <2>4. r.run = "Cancelled"
      BY <1>0, <2>3 DEF WakeRecords
    <2>5. host'[h] = r /\ \A g \in Hosts : g # h => host'[g] = host[g]
      BY <2>0, <2>3 DEF Go, CancelRun, WakesInv
    <2>6. \A g \in Hosts : g # h /\ host[g].claim # None
              => host[g].claim.turn \in Turns \ {Claim(h).turn}
      BY <2>0, SMTT(30) DEF WakesInv, WakeRecords, StoreTypeOK, Claims, ActiveWakeOwnsTurn, Claim
    <2> QED BY <2>2, <2>4, <2>5, <2>6 DEF CancelledStops, Stopped
  <1> QED BY <1>1, <1>3, <1>4, <1>8, <1>9, <1>11, <1>12, <1>13, <1>14, <1>15, <1>16, <1>17,
             <1>18, <1>19
          DEF HostNext, HostStep, HostFailure, ProviderEnd

LEMMA StopsStep ==
    ASSUME CancelledStops, ActiveWakeOwnsTurn, StoreTypeOK, WakesInv, [RuntimeNext]_vars
    PROVE  CancelledStops'
  <1>0. \A g \in Hosts : host[g].claim # None => host[g].claim.turn \in Turns
    BY DEF WakesInv, WakeRecords, StoreTypeOK, Claims
  <1>1. ASSUME NEW h \in Hosts, HostNext(h) PROVE CancelledStops'
    BY <1>1, HostStops
  <1>2. ASSUME NEW t \in Turns, NEW key \in CancelKeys, CancelIdleTurn(t, key)
        PROVE  CancelledStops'
    <2>1. /\ CancelLogicalTurn(t, key) /\ host' = host
          /\ \A g \in Hosts : host[g].claim # None => host[g].claim.turn # t
      BY <1>2 DEF CancelIdleTurn, runtimeVars, ActiveHosts, Claim
    <2>2. \A u \in Turns : u # t => turns'[u] = turns[u]
      <3>1. CASE Terminal(t)
        BY <2>1, <3>1 DEF CancelLogicalTurn
      <3>2. CASE ~Terminal(t)
        BY <2>1, <3>2, CancelEffect DEF TurnStep
      <3> QED BY <3>1, <3>2
    <2> QED BY <1>0, <2>1, <2>2 DEF CancelledStops, Stopped
  <1>3. ASSUME NEW t \in Turns, NEW a, ResolveAttentionForOperator(t, a)
        PROVE  CancelledStops'
    <2>1. ResolveLogicalTurnAttention(t, a) /\ host' = host
      BY <1>3 DEF ResolveAttentionForOperator, runtimeVars
    <2>2. turns'[t].phase = "Runnable" /\ \A u \in Turns : u # t => turns'[u] = turns[u]
      BY <2>1, ResolveEffect DEF TurnStep
    <2> QED BY <1>0, <2>1, <2>2 DEF CancelledStops, Stopped
  <1>4. ASSUME FlushLogicalTurnOutbox \/ SwapBrainModule \/ UNCHANGED vars
        PROVE  CancelledStops'
    BY <1>4
    DEF FlushLogicalTurnOutbox, MarkLogicalTurnOutboxDelivered, SwapBrainModule, runtimeVars,
        storeVars, vars, CancelledStops, Stopped
  <1>5. ASSUME host' = [h \in Hosts |-> IdleHost] PROVE CancelledStops'
    BY <1>5, IdleHostFields DEF CancelledStops
  <1>6. ASSUME Crash \/ Restart PROVE CancelledStops'
    BY <1>5, <1>6 DEF Crash, Restart, WakesInv
  <1> QED BY <1>1, <1>2, <1>3, <1>4, <1>6 DEF RuntimeNext

(* Only the owner acts: an action batch reaches the engine only from the   *)
(* wake that owns the Running turn it was produced for.                    *)
THEOREM OnlyOwnersAct == RuntimeSpec => ActionsOnlyFromOwner
  <1> DEFINE Inv == StoreTypeOK /\ WakesInv /\ ActiveWakeOwnsTurn /\ CancelledStops
             Acts == \A b \in acted' \ acted :
                        turns[b.turn].phase = "Running" /\ turns[b.turn].epoch = b.epoch
  <1>1. RuntimeInit => Inv
    <2>1. RuntimeInit => ActiveWakeOwnsTurn /\ CancelledStops
      BY IdleHostFields
      DEF RuntimeInit, ActiveWakeOwnsTurn, ActiveClaims, Claim, CancelledStops
    <2> QED BY <2>1, StoreTypeInit, WakesInit DEF RuntimeInit
  <1>2. Inv /\ [RuntimeNext]_vars => Inv'
    BY RuntimeStoreStep, StoreTypeStep, WakesStep, OwnershipStep, StopsStep
  <1>3. ASSUME Inv, [RuntimeNext]_vars PROVE [Acts]_vars
    <2>1. ASSUME NEW h \in Hosts, SubmitBrainActions(h) PROVE Acts
      <3>0. host[h] \in WakeRecords(claims) /\ WakeShape(host[h])
        BY <1>3 DEF WakesInv
      <3>1. /\ host[h].stage = "drained" /\ Claim(h) \in claims
            /\ \A b \in acted' \ acted : b.turn = Claim(h).turn /\ b.epoch = Claim(h).epoch
        BY <2>1, <3>0, SMT DEF SubmitBrainActions, WakeShape, Claim
      <3>2. Claim(h) # None
        BY <1>3, <3>1, NoneAssumption DEF StoreTypeOK
      <3>3. turns[Claim(h).turn].phase # "Cancelled"
        BY <1>3, <3>0, <3>1, <3>2 DEF CancelledStops, Stopped, Claim, WakeShape
      <3>4. RequireRunningFence(Claim(h))
        BY <1>3, <3>1, <3>2, <3>3 DEF ActiveWakeOwnsTurn, ActiveClaims, Claim
      <3> QED BY <3>1, <3>4 DEF RequireRunningFence
    <2>2. (~\E h \in Hosts : SubmitBrainActions(h)) => acted' = acted
      BY <1>3, ZenonT(30)
      DEF RuntimeNext, HostNext, HostStep, HostFailure, PrepareNewTurn, ResumeTurn,
          ClaimNewTurn, StartBrainRun, RunStarted, LeaseHostTool, ReplayHostTool,
          RejectHostTool, ExecuteHostTool, SubmitHostResult, DrainTerminal,
          SettleBrainWake, SettleFailedWake, Settle, StartFailed, HostThrows, RequestTool,
          ProviderEnd, ProviderEnds, CancelBrainRun, CancelActiveTurn, CancelIdleTurn,
          ResolveAttentionForOperator, SwapBrainModule, Crash, Restart,
          FlushLogicalTurnOutbox, runtimeVars, vars
    <2> QED BY <2>1, <2>2
  <1>4. Inv /\ [RuntimeNext]_vars => [Acts]_vars
    BY <1>3
  <1> QED BY <1>1, <1>2, <1>4, PTL DEF RuntimeSpec, ActionsOnlyFromOwner

(***************************************************************************)
(* A Running turn is driven.  A step of a wake admits a turn, claims one,  *)
(* settles its own, or is quiet: the wake keeps its claim and the store    *)
(* starts no turn.                                                         *)
(***************************************************************************)
QuietStep(h) ==
    /\ UNCHANGED <<up, inst, module, bound>>
    /\ host'[h].claim = host[h].claim
    /\ \A g \in Hosts : g # h => host'[g] = host[g]
    /\ \/ turns' = turns
       \/ /\ Claim(h).turn \in Turns
          /\ \E key \in CancelKeys : CancelLogicalTurn(Claim(h).turn, key)

ClaimStep(h, t) ==
    /\ up /\ host[h].claim = None
    /\ ClaimLogicalTurn(t, inst) /\ Go(h, Claimed(h, t))
    /\ UNCHANGED <<up, inst, module, bound, executed, acted>>

SettleStep(h, outcome) ==
    /\ Claim(h) \in claims
    /\ outcome = "Failed" \/ host[h].stage = "acted"
    /\ Settle(h, outcome)

LEMMA HostStepKinds ==
    ASSUME StoreTypeOK, WakesInv, NEW h \in Hosts, HostNext(h)
    PROVE  \/ \E t \in Turns : PrepareNewTurn(h, t) \/ ClaimStep(h, t)
           \/ \E outcome \in Outcomes \cup {"Failed"} : SettleStep(h, outcome)
           \/ QuietStep(h)
  <1>0. host[h] \in WakeRecords(claims) /\ WakeShape(host[h])
    BY DEF WakesInv
  <1>1. ASSUME ClaimNewTurn(h) PROVE \E t \in Turns : ClaimStep(h, t)
    BY <1>0, <1>1 DEF ClaimNewTurn, ClaimStep, WakeShape
  <1>2. ASSUME NEW t \in Turns, ResumeTurn(h, t) PROVE ClaimStep(h, t)
    BY <1>0, <1>2 DEF ResumeTurn, ClaimStep, WakeShape, BridgeFree
  <1>3. ASSUME SettleBrainWake(h) \/ SettleFailedWake(h)
        PROVE  \E outcome \in Outcomes \cup {"Failed"} : SettleStep(h, outcome)
    BY <1>0, <1>3 DEF SettleBrainWake, SettleFailedWake, SettleStep, WakeShape, Claim
  <1>4. ASSUME NEW r, Go(h, r), r.claim = host[h].claim, UNCHANGED <<up, inst, module, bound>>,
               \/ turns' = turns
               \/ /\ Claim(h).turn \in Turns
                  /\ \E key \in CancelKeys : CancelLogicalTurn(Claim(h).turn, key)
        PROVE  QuietStep(h)
    BY <1>4 DEF Go, QuietStep, WakesInv
  <1>5. CompleteProviderOperation(Claim(h)) => turns' = turns
    BY DEF CompleteProviderOperation, CompleteLogicalTurnOperation, storeVars
  <1>6. ASSUME NEW s, Go(h, [host[h] EXCEPT !.stage = s]), turns' = turns,
               UNCHANGED <<up, inst, module, bound>>
        PROVE  QuietStep(h)
    <2>1. [host[h] EXCEPT !.stage = s].claim = host[h].claim
      BY <1>0 DEF WakeRecords
    <2> QED BY <1>4, <1>6, <2>1
  <1>7. ASSUME \/ StartBrainRun(h) \/ StartFailed(h) \/ HostThrows(h)
               \/ ExecuteHostTool(h) \/ SubmitBrainActions(h)
        PROVE  QuietStep(h)
    BY <1>5, <1>6, <1>7
    DEF StartBrainRun, StartFailed, HostThrows, ExecuteHostTool, SubmitBrainActions,
        LeaseLogicalTurnOperation, storeVars
  <1>8. ASSUME NEW s, NEW p, Go(h, [host[h] EXCEPT !.stage = s, !.run = p]), turns' = turns,
               UNCHANGED <<up, inst, module, bound>>
        PROVE  QuietStep(h)
    <2>1. [host[h] EXCEPT !.stage = s, !.run = p].claim = host[h].claim
      BY <1>0 DEF WakeRecords
    <2> QED BY <1>4, <1>8, <2>1
  <1>9. ASSUME RunStarted(h) PROVE QuietStep(h)
    BY <1>8, <1>9 DEF RunStarted, storeVars
  <1>10. ASSUME SubmitHostResult(h) PROVE QuietStep(h)
    BY <1>6, <1>8, <1>10 DEF SubmitHostResult, CompleteLogicalTurnOperation
  <1>11. ASSUME DrainTerminal(h) PROVE QuietStep(h)
    <2>1. [host[h] EXCEPT !.stage = "drained", !.outcome = host[h].run, !.run = "none"].claim
             = host[h].claim
      BY <1>0 DEF WakeRecords
    <2> QED BY <1>4, <1>5, <1>8, <1>11, <2>1 DEF DrainTerminal
  <1>12. \A p : [host[h] EXCEPT !.run = p].claim = host[h].claim
    BY <1>0 DEF WakeRecords
  <1>13. ASSUME RequestTool(h) \/ CancelBrainRun(h) PROVE QuietStep(h)
    BY <1>4, <1>12, <1>13 DEF RequestTool, CancelBrainRun, CancelRun, storeVars
  <1>18. ASSUME NEW key \in CancelKeys, CancelActiveTurn(h, key) PROVE QuietStep(h)
    <2>1. Claim(h).turn \in Turns
      BY <1>0, <1>18 DEF CancelActiveTurn, WakeRecords, Claim, StoreTypeOK, Claims
    <2> QED BY <1>4, <1>12, <1>18, <2>1 DEF CancelActiveTurn, CancelRun
  <1>14. ASSUME NEW phase \in ProviderPhases, ProviderEnds(h, phase) PROVE QuietStep(h)
    <2>1. [host[h] EXCEPT !.run = phase, !.finished = TRUE].claim = host[h].claim
      BY <1>0 DEF WakeRecords
    <2> QED BY <1>4, <1>14, <2>1 DEF ProviderEnds, storeVars
  <1>15. ASSUME LeaseHostTool(h) PROVE QuietStep(h)
    <2>1. \A a : [host[h] EXCEPT !.stage = "executing", !.run = "AwaitingTool",
                     !.attempt = a, !.seq = host[h].seq + 1].claim = host[h].claim
      BY <1>0 DEF WakeRecords
    <2> QED BY <1>4, <1>15, <2>1 DEF LeaseHostTool, LeaseLogicalTurnOperation
  <1>16. ASSUME ReplayHostTool(h) PROVE QuietStep(h)
    <2>1. [host[h] EXCEPT !.run = "Running", !.seq = host[h].seq + 1].claim = host[h].claim
      BY <1>0 DEF WakeRecords
    <2> QED BY <1>4, <1>16, <2>1 DEF ReplayHostTool, storeVars
  <1>17. ASSUME RejectHostTool(h) PROVE QuietStep(h)
    <2>1. [host[h] EXCEPT !.stage = "failed", !.seq = host[h].seq + 1].claim = host[h].claim
      BY <1>0 DEF WakeRecords
    <2> QED BY <1>4, <1>17, <2>1 DEF RejectHostTool, storeVars
  <1> QED BY <1>1, <1>2, <1>3, <1>7, <1>9, <1>10, <1>11, <1>13, <1>14, <1>15, <1>16, <1>17, <1>18
          DEF HostNext, HostStep, HostFailure, ProviderEnd

(* A cancellation leaves every other turn alone and does not start its own. *)
LEMMA CancelStartsNothing ==
    ASSUME StoreTypeOK, NEW t \in Turns, NEW key \in CancelKeys, CancelLogicalTurn(t, key)
    PROVE  \A u \in Turns : turns'[u].phase = "Running" => turns[u].phase = "Running"
  <1>1. CASE Terminal(t)
    BY <1>1 DEF CancelLogicalTurn
  <1>2. CASE ~Terminal(t)
    BY <1>2, CancelEffect DEF TurnStep
  <1> QED BY <1>1, <1>2

(* The settlement of a wake ends its ownership: the turn does not run.     *)
LEMMA SettleStops ==
    ASSUME StoreTypeOK, NEW h \in Hosts, NEW outcome \in Outcomes \cup {"Failed"},
           SettleStep(h, outcome)
    PROVE  /\ Claim(h).turn \in Turns
           /\ turns'[Claim(h).turn].phase # "Running"
           /\ \A u \in Turns : u # Claim(h).turn => turns'[u] = turns[u]
  <1>1. Claim(h) \in claims /\ Claim(h).turn \in Turns
    BY DEF SettleStep, StoreTypeOK, Claims
  <1>2. CASE turns[Claim(h).turn].phase = "Cancelled"
    BY <1>1, <1>2 DEF SettleStep, Settle, storeVars
  <1>3. CASE turns[Claim(h).turn].phase # "Cancelled"
    <2>0. CommitOutcome(Claim(h), outcome)
      BY <1>3 DEF SettleStep, Settle
    <2>1. CASE outcome = "Yielded"
      BY <1>1, <2>0, <2>1, YieldEffect DEF CommitOutcome, TurnStep
    <2>2. CASE outcome = "AttentionRequired"
      BY <1>1, <2>0, <2>2, AttentionEffect DEF CommitOutcome, TurnStep
    <2>3. CASE outcome \in {"Completed", "Failed"}
      BY <1>1, <2>0, <2>3, CompleteEffect DEF CommitOutcome, TurnStep
    <2> QED BY <2>1, <2>2, <2>3 DEF Outcomes
  <1> QED BY <1>2, <1>3

(* RunningTurnIsDriven is inductive once no turn is bound to a module that *)
(* is not registered yet.                                                  *)
BoundInv == \A t \in Turns : bound[t] \in Nat => bound[t] <= module

DrivenInv == BoundInv /\ RunningTurnIsDriven

LEMMA DrivenKept ==
    ASSUME DrivenInv, UNCHANGED <<up, module, bound>>,
           \A g \in Hosts : host[g].claim # None => host'[g].claim = host[g].claim,
           \A u \in Turns : turns'[u].phase = "Running" => turns[u].phase = "Running"
    PROVE  DrivenInv'
  <1>1. ASSUME NEW t \in Turns, up', turns'[t].phase = "Running", bound'[t] = module'
        PROVE  ActiveHosts(t)' # {}
    <2>1. PICK g \in Hosts : host[g].claim # None /\ host[g].claim.turn = t
      BY <1>1 DEF DrivenInv, RunningTurnIsDriven, ActiveHosts, Claim
    <2> QED BY <2>1 DEF ActiveHosts, Claim
  <1> QED BY <1>1 DEF DrivenInv, BoundInv, RunningTurnIsDriven

LEMMA HostDriven ==
    ASSUME DrivenInv, StoreTypeOK, WakesInv, NEW h \in Hosts, HostNext(h)
    PROVE  DrivenInv'
  <1>0. host[h] \in WakeRecords(claims) /\ WakeShape(host[h])
    BY DEF WakesInv
  <1>1. ASSUME NEW t \in Turns, PrepareNewTurn(h, t) PROVE DrivenInv'
    <2>1. /\ InsertLogicalTurnAdmission(t, h[1]) /\ h[1] \in Sessions
          /\ bound' = [bound EXCEPT ![t] = module] /\ UNCHANGED <<up, module>>
          /\ \A g \in Hosts : g # h => host'[g] = host[g]
      BY <1>1 DEF PrepareNewTurn, Hosts, Go, WakesInv
    <2>2. host[h].claim = None
      BY <1>0, <1>1 DEF PrepareNewTurn, WakeShape
    <2>3. turns'[t].phase = "Admitted" /\ \A u \in Turns : u # t => turns'[u] = turns[u]
      BY <2>1, AdmissionEffect DEF TurnStep
    <2>4. ASSUME NEW u \in Turns, up', turns'[u].phase = "Running", bound'[u] = module'
          PROVE  ActiveHosts(u)' # {}
      <3>1. u # t
        BY <2>3, <2>4
      <3>2. turns[u].phase = "Running" /\ bound[u] = module /\ up
        BY <2>1, <2>3, <2>4, <3>1 DEF WakesInv
      <3>3. PICK g \in Hosts : host[g].claim # None /\ host[g].claim.turn = u
        BY <3>2 DEF DrivenInv, RunningTurnIsDriven, ActiveHosts, Claim
      <3>4. host'[g] = host[g]
        BY <2>1, <2>2, <3>3
      <3> QED BY <3>3, <3>4 DEF ActiveHosts, Claim
    <2>5. BoundInv'
      BY <2>1, SMT DEF DrivenInv, BoundInv, WakesInv
    <2> QED BY <2>4, <2>5 DEF DrivenInv, RunningTurnIsDriven
  <1>2. ASSUME NEW t \in Turns, ClaimStep(h, t) PROVE DrivenInv'
    <2>0. inst \in Instances
      BY DEF WakesInv
    <2>1. turns'[t].phase = "Running" /\ \A u \in Turns : u # t => turns'[u] = turns[u]
      BY <1>2, <2>0, ClaimEffect DEF ClaimStep, TurnStep
    <2>2. \A g \in Hosts : g # h => host'[g] = host[g]
      BY <1>2 DEF ClaimStep, Go, WakesInv
    <2>3. ASSUME bound[t] = module PROVE host'[h].claim = NewClaim(t, inst)
      <3>1. PICK r : r = [IdleHost EXCEPT !.stage = "built", !.turn = t,
                                          !.claim = NewClaim(t, inst)]
        OBVIOUS
      <3>2. r.claim = NewClaim(t, inst)
        BY <3>1 DEF IdleHost
      <3>3. host'[h] = r
        BY <1>2, <2>3, <3>1 DEF ClaimStep, Go, Claimed, WakesInv
      <3> QED BY <3>2, <3>3
    <2>4. NewClaim(t, inst).turn = t /\ NewClaim(t, inst) # None
      <3>1. NewClaim(t, inst) \in Claims
        BY <1>2, <2>0, ClaimTypes DEF ClaimStep, ClaimLogicalTurn, UpdateTurn
      <3> QED BY <3>1, NoneAssumption DEF NewClaim
    <2>5. ASSUME NEW u \in Turns, up', turns'[u].phase = "Running", bound'[u] = module'
          PROVE  ActiveHosts(u)' # {}
      <3>0. bound[u] = module /\ up
        BY <1>2, <2>5 DEF ClaimStep
      <3>1. CASE u = t
        BY <2>3, <2>4, <3>0, <3>1 DEF ActiveHosts, Claim
      <3>2. CASE u # t
        <4>1. PICK g \in Hosts : host[g].claim # None /\ host[g].claim.turn = u
          BY <2>1, <2>5, <3>0, <3>2 DEF DrivenInv, RunningTurnIsDriven, ActiveHosts, Claim
        <4>2. host'[g] = host[g]
          BY <1>2, <2>2, <4>1 DEF ClaimStep
        <4> QED BY <4>1, <4>2 DEF ActiveHosts, Claim
      <3> QED BY <3>1, <3>2
    <2>6. BoundInv'
      BY <1>2 DEF DrivenInv, BoundInv, ClaimStep
    <2> QED BY <2>5, <2>6 DEF DrivenInv, RunningTurnIsDriven
  <1>3. ASSUME NEW outcome \in Outcomes \cup {"Failed"}, SettleStep(h, outcome) PROVE DrivenInv'
    <2>1. /\ turns'[Claim(h).turn].phase # "Running"
          /\ \A u \in Turns : u # Claim(h).turn => turns'[u] = turns[u]
      BY <1>3, SettleStops
    <2>2. UNCHANGED <<up, module, bound>> /\ \A g \in Hosts : g # h => host'[g] = host[g]
      BY <1>3 DEF SettleStep, Settle, Go, WakesInv
    <2>3. ASSUME NEW u \in Turns, up', turns'[u].phase = "Running", bound'[u] = module'
          PROVE  ActiveHosts(u)' # {}
      <3>1. u # Claim(h).turn
        BY <2>1, <2>3
      <3>2. PICK g \in Hosts : host[g].claim # None /\ host[g].claim.turn = u
        BY <2>1, <2>2, <2>3, <3>1 DEF DrivenInv, RunningTurnIsDriven, ActiveHosts, Claim
      <3>3. host'[g] = host[g]
        BY <2>2, <3>1, <3>2 DEF Claim
      <3> QED BY <3>2, <3>3 DEF ActiveHosts, Claim
    <2>4. BoundInv'
      BY <2>2 DEF DrivenInv, BoundInv
    <2> QED BY <2>3, <2>4 DEF DrivenInv, RunningTurnIsDriven
  <1>4. ASSUME QuietStep(h) PROVE DrivenInv'
    <2>1. \A g \in Hosts : host'[g].claim = host[g].claim
      BY <1>4 DEF QuietStep
    <2>2. CASE turns' = turns
      BY <1>4, <2>1, <2>2, DrivenKept DEF QuietStep
    <2>3. ASSUME NEW key \in CancelKeys, CancelLogicalTurn(Claim(h).turn, key),
                 Claim(h).turn \in Turns
          PROVE  DrivenInv'
      BY <1>4, <2>1, <2>3, CancelStartsNothing, DrivenKept DEF QuietStep
    <2> QED BY <1>4, <2>2, <2>3 DEF QuietStep
  <1> QED BY <1>1, <1>2, <1>3, <1>4, HostStepKinds

LEMMA DrivenStep ==
    ASSUME DrivenInv, StoreTypeOK, WakesInv, [RuntimeNext]_vars
    PROVE  DrivenInv'
  <1>1. ASSUME NEW h \in Hosts, HostNext(h) PROVE DrivenInv'
    BY <1>1, HostDriven
  <1>2. ASSUME NEW t \in Turns, NEW key \in CancelKeys, CancelIdleTurn(t, key)
        PROVE  DrivenInv'
    BY <1>2, CancelStartsNothing, DrivenKept DEF CancelIdleTurn, runtimeVars
  <1>3. ASSUME NEW t \in Turns, NEW a, ResolveAttentionForOperator(t, a)
        PROVE  DrivenInv'
    <2>1. ResolveLogicalTurnAttention(t, a) /\ UNCHANGED runtimeVars
      BY <1>3 DEF ResolveAttentionForOperator
    <2>2. turns'[t].phase = "Runnable" /\ \A u \in Turns : u # t => turns'[u] = turns[u]
      BY <2>1, ResolveEffect DEF TurnStep
    <2> QED BY <2>1, <2>2, DrivenKept DEF runtimeVars
  <1>4. ASSUME FlushLogicalTurnOutbox \/ UNCHANGED vars PROVE DrivenInv'
    BY <1>4, DrivenKept
    DEF FlushLogicalTurnOutbox, MarkLogicalTurnOutboxDelivered, runtimeVars, storeVars, vars
  <1>5. ASSUME SwapBrainModule PROVE DrivenInv'
    <2>1. module' = module + 1 /\ UNCHANGED <<turns, up, bound, host>>
      BY <1>5 DEF SwapBrainModule, storeVars
    <2>2. \A t \in Turns : bound[t] # module'
      BY <2>1, SMT DEF DrivenInv, BoundInv, WakesInv
    <2>3. BoundInv'
      BY <2>1, SMT DEF DrivenInv, BoundInv, WakesInv
    <2> QED BY <2>1, <2>2, <2>3 DEF DrivenInv, RunningTurnIsDriven
  <1>6. ASSUME Crash PROVE DrivenInv'
    BY <1>6 DEF Crash, DrivenInv, BoundInv, RunningTurnIsDriven
  <1>7. ASSUME Restart PROVE DrivenInv'
    <2>1. HydrateLogicalTurns /\ UNCHANGED <<module, bound>>
      BY <1>7 DEF Restart
    <2>2. ASSUME NEW t \in Turns PROVE turns'[t].phase # "Running"
      <3>1. CASE Interrupted(t) \/ Recovered(t)
        BY <2>1, <3>1, HydrateEffect
      <3>2. CASE ~Interrupted(t) /\ ~Recovered(t)
        BY <2>1, <3>2, HydrateEffect DEF Recovered
      <3> QED BY <3>1, <3>2
    <2> QED BY <2>1, <2>2 DEF DrivenInv, BoundInv, RunningTurnIsDriven
  <1> QED BY <1>1, <1>2, <1>3, <1>4, <1>5, <1>6, <1>7 DEF RuntimeNext

(* While the service is up no turn is left Running without a wake that     *)
(* will settle it, unless its module was exchanged before it was claimed.  *)
THEOREM RunningTurnsAreDriven == RuntimeSpec => []RunningTurnIsDriven
  <1>1. RuntimeInit => StoreTypeOK /\ WakesInv /\ DrivenInv
    <2>1. RuntimeInit => DrivenInv
      BY NoneAssumption, SMT
      DEF RuntimeInit, StoreInit, AbsentTurn, DrivenInv, BoundInv, RunningTurnIsDriven
    <2> QED BY <2>1, StoreTypeInit, WakesInit DEF RuntimeInit
  <1>2. StoreTypeOK /\ WakesInv /\ DrivenInv /\ [RuntimeNext]_vars
            => StoreTypeOK' /\ WakesInv' /\ DrivenInv'
    BY RuntimeStoreStep, StoreTypeStep, WakesStep, DrivenStep
  <1>3. DrivenInv => RunningTurnIsDriven
    BY DEF DrivenInv
  <1> QED BY <1>1, <1>2, <1>3, PTL DEF RuntimeSpec

(***************************************************************************)
(* Host tool calls.  The operations of one call (a slot of a continuation) *)
(* are attempts numbered upwards, of which all but the last are            *)
(* Superseded.                                                             *)
(***************************************************************************)
SameCall(o, p) ==
    /\ o.kind = "HostTool" /\ p.kind = "HostTool"
    /\ o.turn = p.turn /\ o.cont = p.cont /\ o.slot = p.slot

CallsInv ==
    /\ \A o, p \in ops : SameOperation(o, p) => o = p
    /\ \A o, p \in ops : SameCall(o, p) /\ o.attempt < p.attempt => o.phase = "Superseded"
    /\ \A o \in ops : o.kind = "HostTool" =>
          \E p \in ops : /\ SameCall(o, p)
                         /\ \A q \in ops : SameCall(o, q) => q.attempt <= p.attempt

(* Operations that were not settled yet change their phase. *)
OpsMoved(selected, phase) ==
    /\ selected \subseteq ops
    /\ \A o \in selected : o.phase \in {"Leased", "OutcomeUnknown"}
    /\ phase \in OperationPhases \ {"Leased"}
    /\ ops' = SetOperationPhase(selected, phase)

Moved(o, phase) == [o EXCEPT !.phase = phase, !.rev = o.rev + 1]

LEMMA MovedFields ==
    ASSUME NEW o \in Operations, NEW phase
    PROVE  /\ Moved(o, phase).turn = o.turn /\ Moved(o, phase).cont = o.cont
           /\ Moved(o, phase).kind = o.kind /\ Moved(o, phase).slot = o.slot
           /\ Moved(o, phase).attempt = o.attempt /\ Moved(o, phase).epoch = o.epoch
           /\ Moved(o, phase).phase = phase
  BY DEF Moved, Operations

(* Where an operation of the new table comes from, and where one of the    *)
(* old goes to.                                                            *)
LEMMA MovedSource ==
    ASSUME ops \subseteq Operations, NEW selected, NEW phase, OpsMoved(selected, phase),
           NEW n \in ops'
    PROVE  \E o \in ops : /\ SameOperation(o, n)
                          /\ \/ o \notin selected /\ n = o
                             \/ o \in selected /\ n = Moved(o, phase) /\ n.phase = phase
  <1>1. n \in ops \ selected \/ \E o \in selected : n = Moved(o, phase)
    BY DEF OpsMoved, SetOperationPhase, Moved
  <1>2. ASSUME NEW o \in selected, n = Moved(o, phase)
        PROVE  SameOperation(o, n) /\ n.phase = phase /\ o \in ops
    BY <1>2, MovedFields, SMT DEF OpsMoved, SameOperation
  <1>3. SameOperation(n, n)
    BY DEF SameOperation
  <1> QED BY <1>1, <1>2, <1>3

LEMMA MovedTarget ==
    ASSUME ops \subseteq Operations, NEW selected, NEW phase, OpsMoved(selected, phase),
           NEW o \in ops
    PROVE  \E n \in ops' : SameOperation(o, n)
  <1>1. CASE o \in selected
    <2>1. Moved(o, phase) \in ops'
      BY <1>1 DEF OpsMoved, SetOperationPhase, Moved
    <2> QED BY <2>1, MovedFields DEF SameOperation
  <1>2. CASE o \notin selected
    <2>1. o \in ops'
      BY <1>2 DEF OpsMoved, SetOperationPhase
    <2> QED BY <2>1 DEF SameOperation
  <1> QED BY <1>1, <1>2

LEMMA MovedKeepsCalls ==
    ASSUME ops \subseteq Operations, CallsInv, NEW selected, NEW phase,
           OpsMoved(selected, phase)
    PROVE  CallsInv'
  <1>1. \A n, m \in ops' : SameOperation(n, m) => n = m
    <2> SUFFICES ASSUME NEW n \in ops', NEW m \in ops', SameOperation(n, m) PROVE n = m
      OBVIOUS
    <2>1. PICK o \in ops : /\ SameOperation(o, n)
                           /\ \/ o \notin selected /\ n = o
                              \/ o \in selected /\ n = Moved(o, phase) /\ n.phase = phase
      BY MovedSource, SMT
    <2>2. PICK p \in ops : /\ SameOperation(p, m)
                           /\ \/ p \notin selected /\ m = p
                              \/ p \in selected /\ m = Moved(p, phase) /\ m.phase = phase
      BY MovedSource, SMT
    <2>3. o = p
      BY <2>1, <2>2, SMT DEF CallsInv, SameOperation
    <2> QED BY <2>1, <2>2, <2>3
  <1>2. ASSUME NEW n \in ops', NEW m \in ops', SameCall(n, m), n.attempt < m.attempt
        PROVE  n.phase = "Superseded"
    <2>1. PICK o \in ops : /\ SameOperation(o, n)
                           /\ \/ o \notin selected /\ n = o
                              \/ o \in selected /\ n = Moved(o, phase) /\ n.phase = phase
      BY MovedSource, SMT
    <2>2. PICK p \in ops : SameOperation(p, m)
      BY MovedSource
    <2>3. SameCall(o, p) /\ o.attempt < p.attempt
      BY <1>2, <2>1, <2>2 DEF SameOperation, SameCall
    <2>4. o.phase = "Superseded"
      BY <2>3 DEF CallsInv
    <2>5. o \notin selected
      BY <2>4 DEF OpsMoved
    <2> QED BY <2>1, <2>4, <2>5
  <1>3. ASSUME NEW n \in ops', n.kind = "HostTool"
        PROVE  \E m \in ops' : /\ SameCall(n, m)
                               /\ \A q \in ops' : SameCall(n, q) => q.attempt <= m.attempt
    <2>1. PICK o \in ops : SameOperation(o, n)
      BY MovedSource
    <2>2. PICK p \in ops : /\ SameCall(o, p)
                           /\ \A q \in ops : SameCall(o, q) => q.attempt <= p.attempt
      BY <1>3, <2>1 DEF CallsInv, SameOperation
    <2>3. PICK m \in ops' : SameOperation(p, m)
      BY MovedTarget
    <2>4. SameCall(n, m)
      BY <2>1, <2>2, <2>3 DEF SameOperation, SameCall
    <2>5. ASSUME NEW q \in ops', SameCall(n, q) PROVE q.attempt <= m.attempt
      <3>1. PICK r \in ops : SameOperation(r, q)
        BY MovedSource
      <3>2. SameCall(o, r)
        BY <2>1, <2>5, <3>1 DEF SameOperation, SameCall
      <3>3. r.attempt <= p.attempt
        BY <2>2, <3>2
      <3> QED BY <2>3, <3>1, <3>3 DEF SameOperation
    <2> QED BY <2>4, <2>5
  <1> QED BY <1>1, <1>2, <1>3 DEF CallsInv

(* A fresh operation after which the calls are still in order: it is no    *)
(* host tool, the first attempt of its call, or the next after a last that *)
(* is Superseded.                                                          *)
LEMMA LeaseKeepsCalls ==
    ASSUME ops \subseteq Operations, CallsInv, NEW n \in Operations,
           ops' = ops \cup {n}, ~\E o \in ops : SameOperation(o, n),
           \/ n.kind # "HostTool"
           \/ \A o \in ops : ~SameCall(o, n)
           \/ \E l \in ops : /\ SameCall(l, n) /\ n.attempt = l.attempt + 1
                             /\ l.phase = "Superseded"
                             /\ \A q \in ops : SameCall(l, q) => q.attempt <= l.attempt
    PROVE  CallsInv'
  <1>0. \A o \in ops' : o \in Operations /\ o.attempt \in Nat
    BY BoundsAssumption DEF Operations
  <1>1. \A o, p \in ops' : SameOperation(o, p) => o = p
    BY SMT DEF CallsInv, SameOperation
  <1>2. ASSUME NEW o \in ops, SameCall(o, n)
        PROVE  o.attempt < n.attempt /\ o.phase = "Superseded"
    <2>1. PICK l \in ops : /\ SameCall(l, n) /\ n.attempt = l.attempt + 1
                           /\ l.phase = "Superseded"
                           /\ \A q \in ops : SameCall(l, q) => q.attempt <= l.attempt
      BY <1>2 DEF SameCall
    <2>2. SameCall(l, o) /\ SameCall(o, l)
      BY <1>2, <2>1 DEF SameCall
    <2>3. o.attempt <= l.attempt
      BY <2>1, <2>2
    <2>4. CASE o.attempt = l.attempt
      <3>1. SameOperation(o, l)
        BY <2>2, <2>4 DEF SameCall, SameOperation
      <3>2. o = l
        BY <3>1 DEF CallsInv
      <3> QED BY <1>0, <2>1, <2>3, <3>2, SMT
    <2>5. CASE o.attempt < l.attempt
      <3>1. o.phase = "Superseded"
        BY <2>2, <2>5 DEF CallsInv
      <3> QED BY <1>0, <2>1, <2>5, <3>1, SMT
    <2> QED BY <1>0, <2>3, <2>4, <2>5, SMT
  <1>3. ASSUME NEW o \in ops', NEW p \in ops', SameCall(o, p), o.attempt < p.attempt
        PROVE  o.phase = "Superseded"
    <2>1. CASE o \in ops /\ p \in ops
      BY <1>3, <2>1 DEF CallsInv
    <2>2. CASE o \in ops /\ p = n
      BY <1>2, <1>3, <2>2
    <2>3. CASE o = n /\ p \in ops
      <3>1. SameCall(p, n)
        BY <1>3, <2>3 DEF SameCall
      <3>2. p.attempt < n.attempt
        BY <1>2, <2>3, <3>1
      <3> QED BY <1>0, <1>3, <2>3, <3>2, SMT
    <2>4. CASE o = n /\ p = n
      BY <1>0, <1>3, <2>4, SMT
    <2> QED BY <2>1, <2>2, <2>3, <2>4
  <1>4. ASSUME NEW o \in ops', o.kind = "HostTool"
        PROVE  \E p \in ops' : /\ SameCall(o, p)
                               /\ \A q \in ops' : SameCall(o, q) => q.attempt <= p.attempt
    <2>1. CASE SameCall(o, n)
      <3>1. ASSUME NEW q \in ops', SameCall(o, q) PROVE q.attempt <= n.attempt
        <4>1. q \in ops => SameCall(q, n)
          BY <2>1, <3>1 DEF SameCall
        <4> QED BY <1>0, <1>2, <4>1, SMT
      <3> QED BY <2>1, <3>1
    <2>2. CASE ~SameCall(o, n)
      <3>1. o \in ops
        BY <1>4, <2>2 DEF SameCall
      <3>2. PICK p \in ops : /\ SameCall(o, p)
                             /\ \A q \in ops : SameCall(o, q) => q.attempt <= p.attempt
        BY <1>4, <3>1 DEF CallsInv
      <3> QED BY <2>2, <3>2, SMT
    <2> QED BY <2>1, <2>2
  <1> QED BY <1>1, <1>3, <1>4 DEF CallsInv

(* The last attempt of a call is the one the code finds. *)
LEMMA LastAttemptIsLast ==
    ASSUME CallsInv, NEW c, NEW slot, EarlierAttempts(c, slot) # {}
    PROVE  /\ LastAttempt(c, slot) \in EarlierAttempts(c, slot)
           /\ \A p \in EarlierAttempts(c, slot) : p.attempt <= LastAttempt(c, slot).attempt
  <1>1. PICK o \in EarlierAttempts(c, slot) : TRUE
    OBVIOUS
  <1>2. PICK p \in ops : /\ SameCall(o, p)
                         /\ \A q \in ops : SameCall(o, q) => q.attempt <= p.attempt
    BY <1>1 DEF EarlierAttempts, CallsInv
  <1>3. p \in EarlierAttempts(c, slot)
    BY <1>1, <1>2 DEF EarlierAttempts, SameCall
  <1>4. \A q \in EarlierAttempts(c, slot) : q.attempt <= p.attempt
    BY <1>1, <1>2 DEF EarlierAttempts, SameCall
  <1> QED BY <1>3, <1>4 DEF LastAttempt

(***************************************************************************)
(* How the operations change: some are settled, a provider request or a    *)
(* host tool call is leased, or nothing.                                   *)
(***************************************************************************)
LEMMA CompletionMoves ==
    ASSUME NEW c, NEW o, CompleteLogicalTurnOperation(c, o)
    PROVE  \E phase : OpsMoved({o}, phase)
  BY DEF CompleteLogicalTurnOperation, CompletionPhases, OpsMoved, OperationPhases

LEMMA RuntimeOps ==
    ASSUME StoreTypeOK, WakesInv, [RuntimeNext]_vars
    PROVE  \/ ops' = ops
           \/ \E selected \in SUBSET ops, phase \in OperationPhases : OpsMoved(selected, phase)
           \/ \E h \in Hosts : StartBrainRun(h) \/ LeaseHostTool(h)
  <1> DEFINE Moves == \E selected \in SUBSET ops, phase \in OperationPhases :
                         OpsMoved(selected, phase)
  <1>0. ASSUME NEW selected, NEW phase, OpsMoved(selected, phase) PROVE Moves
    BY <1>0 DEF OpsMoved
  <1>1. ASSUME NEW c, NEW o, CompleteLogicalTurnOperation(c, o) PROVE Moves
    BY <1>0, <1>1, CompletionMoves
  <1>2. ASSUME NEW c, CompleteProviderOperation(c) PROVE ops' = ops \/ Moves
    BY <1>1, <1>2 DEF CompleteProviderOperation, storeVars
  <1>3. ASSUME NEW t \in Turns, NEW a, ResolveLogicalTurnAttention(t, a)
        PROVE  ops' = ops \/ Moves
    <2>1. \/ ops' = ops
          \/ \E phase \in {"Completed", "Superseded"} :
                ops' = SetOperationPhase(UnknownHostTools(t), phase)
      BY <1>3 DEF ResolveLogicalTurnAttention, ReconcileUnknownHostToolOperation
    <2>2. ASSUME NEW phase \in {"Completed", "Superseded"},
                 ops' = SetOperationPhase(UnknownHostTools(t), phase)
          PROVE  OpsMoved(UnknownHostTools(t), phase)
      BY <2>2 DEF OpsMoved, UnknownHostTools, OperationPhases
    <2> QED BY <1>0, <2>1, <2>2
  <1>4. ASSUME HydrateLogicalTurns PROVE Moves
    <2> DEFINE hit == UNION {LeasedHostTools(t) : t \in {u \in Turns : Interrupted(u)}}
    <2>1. ops' = SetOperationPhase(hit, "OutcomeUnknown")
      BY <1>4 DEF HydrateLogicalTurns
    <2>2. hit \subseteq ops /\ \A o \in hit : o.phase = "Leased"
      BY DEF LeasedHostTools
    <2> HIDE DEF hit
    <2> QED BY <1>0, <2>1, <2>2 DEF OpsMoved, OperationPhases
  <1> HIDE DEF Moves
  <1>5. ASSUME NEW outcome, NEW h \in Hosts, Settle(h, outcome) PROVE ops' = ops
    BY <1>5 DEF Settle, CommitOutcome, YieldLogicalTurn, RequireLogicalTurnAttention,
                CompleteLogicalTurn, storeVars
  <1>6. ASSUME NEW h \in Hosts, HostNext(h)
        PROVE  ops' = ops \/ Moves \/ StartBrainRun(h) \/ LeaseHostTool(h)
    <2>1. ASSUME NEW t \in Turns, PrepareNewTurn(h, t) \/ ResumeTurn(h, t) PROVE ops' = ops
      BY <2>1 DEF PrepareNewTurn, ResumeTurn, InsertLogicalTurnAdmission, ClaimLogicalTurn
    <2>2. ClaimNewTurn(h) => ops' = ops
      BY DEF ClaimNewTurn, ClaimLogicalTurn
    <2>3. SettleBrainWake(h) \/ SettleFailedWake(h) => ops' = ops
      BY <1>5 DEF SettleBrainWake, SettleFailedWake
    <2>4. StartFailed(h) \/ DrainTerminal(h) => ops' = ops \/ Moves
      BY <1>2 DEF StartFailed, DrainTerminal
    <2>5. SubmitHostResult(h) => Moves
      BY <1>1 DEF SubmitHostResult
    <2>6. ASSUME NEW key \in CancelKeys, CancelActiveTurn(h, key) PROVE ops' = ops
      BY <2>6 DEF CancelActiveTurn, CancelLogicalTurn
    <2>7. \/ RunStarted(h) \/ ReplayHostTool(h) \/ RejectHostTool(h)
          \/ ExecuteHostTool(h) \/ SubmitBrainActions(h) \/ HostThrows(h)
          \/ RequestTool(h) \/ ProviderEnd(h) \/ CancelBrainRun(h)
          => ops' = ops
      BY DEF RunStarted, ReplayHostTool, RejectHostTool, ExecuteHostTool,
             SubmitBrainActions, HostThrows, RequestTool, ProviderEnd, ProviderEnds,
             CancelBrainRun, storeVars
    <2> QED BY <1>6, <2>1, <2>2, <2>3, <2>4, <2>5, <2>6, <2>7
            DEF HostNext, HostStep, HostFailure
  <1>7. ASSUME NEW t \in Turns, NEW key \in CancelKeys, CancelIdleTurn(t, key) PROVE ops' = ops
    BY <1>7 DEF CancelIdleTurn, CancelLogicalTurn
  <1>8. ASSUME NEW t \in Turns, NEW a, ResolveAttentionForOperator(t, a)
        PROVE  ops' = ops \/ Moves
    BY <1>3, <1>8 DEF ResolveAttentionForOperator
  <1>9. SwapBrainModule \/ Crash \/ FlushLogicalTurnOutbox \/ UNCHANGED vars => ops' = ops
    BY DEF SwapBrainModule, Crash, FlushLogicalTurnOutbox, MarkLogicalTurnOutboxDelivered,
           storeVars, vars
  <1>10. Restart => Moves
    BY <1>4 DEF Restart
  <1> QED BY <1>6, <1>7, <1>8, <1>9, <1>10 DEF RuntimeNext, Moves

LEMMA CallsStep ==
    ASSUME StoreTypeOK, WakesInv, CallsInv, [RuntimeNext]_vars
    PROVE  CallsInv'
  <1>0. ops \subseteq Operations
    BY DEF StoreTypeOK
  <1>1. CASE ops' = ops
    BY <1>1 DEF CallsInv
  <1>2. ASSUME NEW selected \in SUBSET ops, NEW phase \in OperationPhases,
               OpsMoved(selected, phase)
        PROVE  CallsInv'
    BY <1>0, <1>2, MovedKeepsCalls
  <1>3. ASSUME NEW h \in Hosts, StartBrainRun(h) PROVE CallsInv'
    <2>0. host[h] \in WakeRecords(claims) /\ WakeShape(host[h])
      BY DEF WakesInv
    <2>1. Claim(h) \in claims
      BY <1>3, <2>0 DEF StartBrainRun, WakeShape, Claim
    <2>2. Claim(h) \in Claims /\ Claim(h).epoch.rev \in Attempts
      BY <2>1, RuntimeBounds DEF RuntimeBounds, StoreTypeOK, Claims, Epochs
    <2>3. 0 \in Slots /\ "Provider" \in OperationKinds
      BY RuntimeBounds DEF RuntimeBounds, OperationKinds
    <2>4. PICK n : n = NewOperation(Claim(h), "Provider", 0, Claim(h).epoch.rev)
      OBVIOUS
    <2>5. n \in Operations /\ n.kind # "HostTool"
      BY <2>2, <2>3, <2>4, ClaimTypes DEF NewOperation
    <2>6. ops' = ops \cup {n} /\ ~\E o \in ops : SameOperation(o, n)
      BY <1>3, <2>4 DEF StartBrainRun, ProviderAttempt, LeaseLogicalTurnOperation
    <2> QED BY <1>0, <2>5, <2>6, LeaseKeepsCalls
  <1>4. ASSUME NEW h \in Hosts, LeaseHostTool(h) PROVE CallsInv'
    <2>0. host[h] \in WakeRecords(claims) /\ WakeShape(host[h])
      BY DEF WakesInv
    <2>1. Claim(h) \in claims /\ host[h].seq < MaxTools /\ host[h].seq \in Nat
      BY <1>4, <2>0 DEF LeaseHostTool, WakeShape, WakeRecords, Claim
    <2>2. host[h].seq \in Slots /\ Claim(h) \in Claims
      BY <2>1, RuntimeBounds, SMT DEF RuntimeBounds, StoreTypeOK
    <2>3. PICK attempt \in Attempts \cap HostToolAttempt(Claim(h), host[h].seq) :
             LeaseLogicalTurnOperation(Claim(h), "HostTool", host[h].seq, attempt)
      BY <1>4 DEF LeaseHostTool
    <2>4. PICK n : n = NewOperation(Claim(h), "HostTool", host[h].seq, attempt)
      OBVIOUS
    <2>5. /\ n.kind = "HostTool" /\ n.turn = Claim(h).turn /\ n.cont = Claim(h).cont
          /\ n.slot = host[h].seq /\ n.attempt = attempt
      BY <2>4 DEF NewOperation
    <2>6. n \in Operations
      BY <2>2, <2>3, <2>4, ClaimTypes DEF OperationKinds
    <2>7. ops' = ops \cup {n} /\ ~\E o \in ops : SameOperation(o, n)
      BY <2>3, <2>4 DEF LeaseLogicalTurnOperation
    <2>8. \A o \in ops : SameCall(o, n) <=> o \in EarlierAttempts(Claim(h), host[h].seq)
      BY <2>5 DEF SameCall, EarlierAttempts
    <2>9. CASE EarlierAttempts(Claim(h), host[h].seq) = {}
      BY <1>0, <2>6, <2>7, <2>8, <2>9, LeaseKeepsCalls
    <2>10. CASE EarlierAttempts(Claim(h), host[h].seq) # {}
      <3>1. PICK l : l = LastAttempt(Claim(h), host[h].seq)
        OBVIOUS
      <3>2. /\ l \in EarlierAttempts(Claim(h), host[h].seq)
            /\ \A p \in EarlierAttempts(Claim(h), host[h].seq) : p.attempt <= l.attempt
        BY <2>10, <3>1, LastAttemptIsLast
      <3>3. l.phase = "Superseded" /\ n.attempt = l.attempt + 1
        BY <2>3, <2>5, <2>10, <3>1 DEF HostToolAttempt
      <3>4. l \in ops /\ SameCall(l, n)
        BY <2>8, <3>2 DEF EarlierAttempts
      <3>5. \A q \in ops : SameCall(l, q) => q.attempt <= l.attempt
        BY <3>2 DEF EarlierAttempts, SameCall
      <3> QED BY <1>0, <2>6, <2>7, <3>3, <3>4, <3>5, LeaseKeepsCalls
    <2> QED BY <2>9, <2>10
  <1> QED BY <1>1, <1>2, <1>3, <1>4, RuntimeOps

(***************************************************************************)
(* Host tools in flight.  A Running turn has at most one, and the wake     *)
(* that drives the turn is waiting for it or has failed; a turn that waits *)
(* to run has none.                                                        *)
(***************************************************************************)
Flying(o) == o.kind = "HostTool" /\ o.phase = "Leased"

InCall == {"executing", "submitting"}
Holding == InCall \cup {"failed"}

FlightInv ==
    /\ \A o \in ops : Flying(o) => turns[o.turn].phase \in {"Running"} \cup TerminalPhases
    /\ \A o, p \in ops :
          Flying(o) /\ Flying(p) /\ o.turn = p.turn /\ turns[o.turn].phase = "Running" => o = p
    /\ \A h \in Hosts, o \in ops :
          /\ Flying(o) /\ turns[o.turn].phase = "Running"
          /\ host[h].claim # None /\ host[h].claim.turn = o.turn
          => host[h].stage \in Holding

(* A call in progress, and every call that took effect, has its operation. *)
IsCall(o, t, n, slot, attempt) ==
    /\ o.kind = "HostTool" /\ o.turn = t /\ o.cont = n
    /\ o.slot = slot /\ o.attempt = attempt

KnownCalls ==
    /\ \A h \in Hosts : host[h].stage \in InCall =>
          \E o \in ops : IsCall(o, host[h].claim.turn, host[h].claim.cont,
                                host[h].seq - 1, host[h].attempt)
    /\ \A e \in executed : \E o \in ops : IsCall(o, e.turn, e.cont, e.slot, e.attempt)

(* No operation is ever removed, and only LeaseHostTool puts a call in     *)
(* flight.                                                                 *)
LEMMA OpsKeys ==
    ASSUME StoreTypeOK, WakesInv, [RuntimeNext]_vars
    PROVE  /\ \A o \in ops : \E n \in ops' : SameOperation(o, n)
           /\ \/ \A n \in ops' : Flying(n) => n \in ops
              \/ \E h \in Hosts : LeaseHostTool(h)
  <1>0. ops \subseteq Operations
    BY DEF StoreTypeOK
  <1>1. CASE ops' = ops
    BY <1>1 DEF SameOperation
  <1>2. ASSUME NEW selected \in SUBSET ops, NEW phase \in OperationPhases,
               OpsMoved(selected, phase)
        PROVE  /\ \A o \in ops : \E n \in ops' : SameOperation(o, n)
               /\ \A n \in ops' : Flying(n) => n \in ops
    <2>1. \A o \in ops : \E n \in ops' : SameOperation(o, n)
      BY <1>0, <1>2, MovedTarget
    <2>2. ASSUME NEW n \in ops', Flying(n) PROVE n \in ops
      <3>1. PICK o \in ops : /\ SameOperation(o, n)
                             /\ \/ o \notin selected /\ n = o
                                \/ o \in selected /\ n = Moved(o, phase) /\ n.phase = phase
        BY <1>0, <1>2, MovedSource, SMT
      <3> QED BY <1>2, <2>2, <3>1 DEF OpsMoved, Flying
    <2> QED BY <2>1, <2>2
  <1>3. ASSUME NEW c, NEW kind, NEW slot, NEW attempt,
               LeaseLogicalTurnOperation(c, kind, slot, attempt)
        PROVE  /\ \A o \in ops : \E n \in ops' : SameOperation(o, n)
               /\ kind # "HostTool" => \A n \in ops' : Flying(n) => n \in ops
    <2>1. ops' = ops \cup {NewOperation(c, kind, slot, attempt)}
      BY <1>3 DEF LeaseLogicalTurnOperation
    <2>2. NewOperation(c, kind, slot, attempt).kind = kind
      BY DEF NewOperation
    <2> QED BY <2>1, <2>2 DEF SameOperation, Flying
  <1>4. ASSUME NEW h \in Hosts, StartBrainRun(h)
        PROVE  /\ \A o \in ops : \E n \in ops' : SameOperation(o, n)
               /\ \A n \in ops' : Flying(n) => n \in ops
    BY <1>3, <1>4, SMT DEF StartBrainRun
  <1>5. ASSUME NEW h \in Hosts, LeaseHostTool(h)
        PROVE  \A o \in ops : \E n \in ops' : SameOperation(o, n)
    BY <1>3, <1>5 DEF LeaseHostTool
  <1> QED BY <1>1, <1>2, <1>4, <1>5, RuntimeOps

(* What a step of wake h does to its place in a call. *)
CallStep(h) ==
    /\ \A g \in Hosts : g # h => host'[g] = host[g]
    /\ host'[h].stage \in InCall =>
          /\ host[h].stage \in InCall /\ host'[h].claim = host[h].claim
          /\ host'[h].seq = host[h].seq /\ host'[h].attempt = host[h].attempt
    /\ \/ SubmitHostResult(h)
       \/ host[h].stage \in Holding => host'[h].stage \in Holding \/ host'[h].claim = None

LEMMA StageOf ==
    ASSUME NEW C, NEW r \in WakeRecords(C), NEW s, NEW p
    PROVE  /\ [r EXCEPT !.stage = s].stage = s
           /\ [r EXCEPT !.stage = s, !.run = p].stage = s
           /\ [r EXCEPT !.run = p].stage = r.stage
           /\ [r EXCEPT !.run = p].seq = r.seq
           /\ [r EXCEPT !.run = p].attempt = r.attempt
           /\ [r EXCEPT !.run = p].claim = r.claim
           /\ [r EXCEPT !.stage = s].claim = r.claim
           /\ [r EXCEPT !.stage = s].seq = r.seq
           /\ [r EXCEPT !.stage = s].attempt = r.attempt
  BY DEF WakeRecords

LEMMA HostCallStep ==
    ASSUME StoreTypeOK, WakesInv, NEW h \in Hosts, HostNext(h)
    PROVE  LeaseHostTool(h) \/ CallStep(h)
  <1>0. host[h] \in WakeRecords(claims) /\ WakeShape(host[h])
    BY DEF WakesInv
  <1>1. ASSUME NEW r, Go(h, r), r.stage \notin InCall,
               host[h].stage \in Holding => r.stage = "failed" \/ r.claim = None
        PROVE  CallStep(h)
    <2>1. host'[h] = r /\ \A g \in Hosts : g # h => host'[g] = host[g]
      BY <1>1 DEF Go, WakesInv
    <2> QED BY <1>1, <2>1 DEF CallStep, Holding
  <1>2. ASSUME NEW r, Go(h, r), r.stage = host[h].stage, r.claim = host[h].claim,
               r.seq = host[h].seq, r.attempt = host[h].attempt
        PROVE  CallStep(h)
    <2>1. host'[h] = r /\ \A g \in Hosts : g # h => host'[g] = host[g]
      BY <1>2 DEF Go, WakesInv
    <2> QED BY <1>2, <2>1 DEF CallStep
  <1>3. ASSUME NEW t \in Turns, PrepareNewTurn(h, t) PROVE CallStep(h)
    <2>1. PICK r : r = [IdleHost EXCEPT !.stage = "admitting", !.turn = t]
      OBVIOUS
    <2>2. r.stage = "admitting" /\ Go(h, r)
      BY <1>3, <2>1 DEF PrepareNewTurn, IdleHost
    <2>3. host[h].stage = "idle"
      BY <1>3 DEF PrepareNewTurn
    <2> QED BY <1>1, <2>2, <2>3 DEF Holding, InCall
  <1>4. ASSUME NEW t, Go(h, Claimed(h, t)), host[h].stage \in {"idle", "admitting"}
        PROVE  CallStep(h)
    <2>1. [IdleHost EXCEPT !.stage = "built", !.turn = t, !.claim = NewClaim(t, inst)].stage
             = "built"
      BY DEF IdleHost
    <2>2. Claimed(h, t).stage \in {"built", "idle"}
      BY <2>1, IdleHostFields DEF Claimed
    <2> QED BY <1>1, <1>4, <2>2 DEF Holding, InCall
  <1>5. ASSUME \/ ClaimNewTurn(h) \/ \E t \in Turns : ResumeTurn(h, t) PROVE CallStep(h)
    BY <1>4, <1>5 DEF ClaimNewTurn, ResumeTurn
  <1>6. ASSUME NEW s \in Stages \ InCall, Go(h, [host[h] EXCEPT !.stage = s]),
               s = "failed" \/ host[h].stage \notin Holding
        PROVE  CallStep(h)
    <2>1. PICK r : r = [host[h] EXCEPT !.stage = s]
      OBVIOUS
    <2>2. r.stage = s
      BY <1>0, <2>1, StageOf, SMT
    <2> QED BY <1>1, <1>6, <2>1, <2>2
  <1>7. ASSUME StartBrainRun(h) \/ SubmitBrainActions(h) \/ StartFailed(h) \/ HostThrows(h)
        PROVE  CallStep(h)
    <2>1. /\ {"starting", "acted", "failed"} \subseteq Stages \ InCall
          /\ {"built", "drained"} \cap Holding = {}
      BY DEF Stages, Holding, InCall
    <2>2. CASE StartBrainRun(h)
      BY <1>6, <2>1, <2>2 DEF StartBrainRun
    <2>3. CASE SubmitBrainActions(h)
      BY <1>6, <2>1, <2>3 DEF SubmitBrainActions
    <2>4. CASE StartFailed(h) \/ HostThrows(h)
      BY <1>6, <2>1, <2>4 DEF StartFailed, HostThrows
    <2> QED BY <1>7, <2>2, <2>3, <2>4
  <1>8. ASSUME RunStarted(h) PROVE CallStep(h)
    <2>1. PICK r : r = [host[h] EXCEPT !.stage = "running", !.run = "Running"]
      OBVIOUS
    <2>2. r.stage = "running"
      BY <1>0, <2>1, StageOf, SMT
    <2> QED BY <1>1, <1>8, <2>1, <2>2 DEF RunStarted, Holding, InCall
  <1>9. ASSUME RequestTool(h) \/ CancelBrainRun(h) \/ \E key \in CancelKeys : CancelActiveTurn(h, key)
        PROVE  CallStep(h)
    <2>1. PICK p : Go(h, [host[h] EXCEPT !.run = p])
      BY <1>9 DEF RequestTool, CancelBrainRun, CancelActiveTurn, CancelRun
    <2>2. PICK r : r = [host[h] EXCEPT !.run = p]
      OBVIOUS
    <2>3. /\ r.stage = host[h].stage /\ r.claim = host[h].claim
          /\ r.seq = host[h].seq /\ r.attempt = host[h].attempt
      BY <1>0, <2>2, StageOf
    <2> QED BY <1>2, <2>1, <2>2, <2>3
  <1>10. ASSUME NEW phase \in ProviderPhases, ProviderEnds(h, phase) PROVE CallStep(h)
    <2>1. PICK r : r = [host[h] EXCEPT !.run = phase, !.finished = TRUE]
      OBVIOUS
    <2>2. /\ r.stage = host[h].stage /\ r.claim = host[h].claim
          /\ r.seq = host[h].seq /\ r.attempt = host[h].attempt
      BY <1>0, <2>1 DEF WakeRecords
    <2> QED BY <1>2, <1>10, <2>1, <2>2 DEF ProviderEnds
  <1>11. ASSUME ReplayHostTool(h) PROVE CallStep(h)
    <2>1. PICK r : r = [host[h] EXCEPT !.run = "Running", !.seq = host[h].seq + 1]
      OBVIOUS
    <2>2. r.stage = host[h].stage
      BY <1>0, <2>1 DEF WakeRecords
    <2> QED BY <1>1, <1>11, <2>1, <2>2 DEF ReplayHostTool, Holding, InCall
  <1>12. ASSUME RejectHostTool(h) PROVE CallStep(h)
    <2>1. PICK r : r = [host[h] EXCEPT !.stage = "failed", !.seq = host[h].seq + 1]
      OBVIOUS
    <2>2. r.stage = "failed"
      BY <1>0, <2>1 DEF WakeRecords
    <2> QED BY <1>1, <1>12, <2>1, <2>2 DEF RejectHostTool, Holding, InCall
  <1>13. ASSUME ExecuteHostTool(h) PROVE CallStep(h)
    <2>1. PICK r : r = [host[h] EXCEPT !.stage = "submitting"]
      OBVIOUS
    <2>2. /\ r.stage = "submitting" /\ r.claim = host[h].claim
          /\ r.seq = host[h].seq /\ r.attempt = host[h].attempt
      BY <1>0, <2>1, StageOf, SMT
    <2>3. host'[h] = r /\ \A g \in Hosts : g # h => host'[g] = host[g]
      BY <1>13, <2>1 DEF ExecuteHostTool, Go, WakesInv
    <2> QED BY <1>13, <2>2, <2>3 DEF ExecuteHostTool, CallStep, Holding, InCall
  <1>14. ASSUME SubmitHostResult(h) PROVE CallStep(h)
    <2>1. ASSUME NEW r, Go(h, r), r.stage \in {"running", "failed"} PROVE CallStep(h)
      <3>1. host'[h] = r /\ \A g \in Hosts : g # h => host'[g] = host[g]
        BY <2>1 DEF Go, WakesInv
      <3> QED BY <1>14, <2>1, <3>1 DEF CallStep, InCall
    <2>2. [host[h] EXCEPT !.stage = "running"].stage = "running"
      BY <1>0, StageOf, SMT
    <2>3. [host[h] EXCEPT !.stage = "running", !.run = "Running"].stage = "running"
      BY <1>0, StageOf, SMT
    <2>4. [host[h] EXCEPT !.stage = "failed"].stage = "failed"
      BY <1>0, StageOf, SMT
    <2> QED BY <1>14, <2>1, <2>2, <2>3, <2>4 DEF SubmitHostResult
  <1>15. ASSUME DrainTerminal(h) PROVE CallStep(h)
    <2>1. [host[h] EXCEPT !.stage = "drained", !.outcome = host[h].run, !.run = "none"].stage
             = "drained"
      BY <1>0 DEF WakeRecords
    <2>2. [host[h] EXCEPT !.stage = "failed", !.run = "none"].stage = "failed"
      BY <1>0, StageOf, SMT
    <2>3. ASSUME NEW r, Go(h, r), r.stage \in {"drained", "failed"} PROVE CallStep(h)
      BY <1>1, <1>15, <2>3 DEF DrainTerminal, Holding, InCall
    <2> QED BY <1>15, <2>1, <2>2, <2>3 DEF DrainTerminal
  <1>16. ASSUME SettleBrainWake(h) \/ SettleFailedWake(h) PROVE CallStep(h)
    <2>1. Go(h, IdleHost)
      BY <1>16 DEF SettleBrainWake, SettleFailedWake, Settle
    <2> QED BY <1>1, <2>1, IdleHostFields DEF InCall
  <1> QED BY <1>3, <1>5, <1>7, <1>8, <1>9, <1>10, <1>11, <1>12, <1>13, <1>14, <1>15, <1>16
          DEF HostNext, HostStep, HostFailure, ProviderEnd

(* What leaves the calls in flight in order. *)
LEMMA FlightKept ==
    ASSUME StoreTypeOK, FlightInv,
           \A n \in ops' : Flying(n) => n \in ops,
           \A u \in Turns : \/ turns'[u] = turns[u]
                            \/ turns'[u].phase \in TerminalPhases
                            \/ \A n \in ops' : Flying(n) => n.turn # u,
           \A g \in Hosts : host'[g].claim # None =>
              \/ /\ host'[g].claim = host[g].claim
                 /\ host[g].stage \in Holding => host'[g].stage \in Holding
              \/ \A n \in ops' : Flying(n) => n.turn # host'[g].claim.turn
                                              \/ turns'[n.turn].phase # "Running"
    PROVE  FlightInv'
  <1>0. \A n \in ops' : Flying(n) => n.turn \in Turns
    BY DEF StoreTypeOK, Operations
  <1>1. \A n \in ops' : Flying(n) =>
           turns'[n.turn] = turns[n.turn] \/ turns'[n.turn].phase \in TerminalPhases
    BY <1>0
  <1>2. \A p \in TerminalPhases : p # "Running"
    BY DEF TerminalPhases
  <1>3. \A n \in ops' : Flying(n) => turns'[n.turn].phase \in {"Running"} \cup TerminalPhases
    BY <1>1 DEF FlightInv
  <1>4. \A n, m \in ops' :
           Flying(n) /\ Flying(m) /\ n.turn = m.turn /\ turns'[n.turn].phase = "Running" => n = m
    BY <1>1, <1>2 DEF FlightInv
  <1>5. ASSUME NEW g \in Hosts, NEW n \in ops', Flying(n), turns'[n.turn].phase = "Running",
               host'[g].claim # None, host'[g].claim.turn = n.turn
        PROVE  host'[g].stage \in Holding
    <2>1. n \in ops /\ turns[n.turn].phase = "Running"
      BY <1>1, <1>2, <1>5
    <2>2. host'[g].claim = host[g].claim /\ (host[g].stage \in Holding => host'[g].stage \in Holding)
      BY <1>5
    <2>3. host[g].stage \in Holding
      BY <1>5, <2>1, <2>2 DEF FlightInv
    <2> QED BY <2>2, <2>3
  <1> QED BY <1>3, <1>4, <1>5 DEF FlightInv, Flying

(* The lease of a host tool call, seen from its wake. *)
LEMMA LeaseFacts ==
    ASSUME StoreTypeOK, WakesInv, NEW h \in Hosts, LeaseHostTool(h)
    PROVE  \E n \in Operations :
             /\ ops' = ops \cup {n} /\ turns' = turns /\ executed' = executed
             /\ IsCall(n, Claim(h).turn, Claim(h).cont, host[h].seq, n.attempt)
             /\ n.phase = "Leased" /\ host[h].stage = "running"
             /\ Claim(h) \in claims /\ turns[Claim(h).turn].phase = "Running"
             /\ host'[h].stage = "executing" /\ host'[h].claim = host[h].claim
             /\ host'[h].seq = host[h].seq + 1 /\ host'[h].attempt = n.attempt
             /\ host[h].seq \in Nat
             /\ \A g \in Hosts : g # h => host'[g] = host[g]
  <1>0. host[h] \in WakeRecords(claims) /\ WakeShape(host[h])
    BY DEF WakesInv
  <1>1. Claim(h) \in claims /\ host[h].seq < MaxTools /\ host[h].seq \in Nat
    BY <1>0 DEF LeaseHostTool, WakeShape, WakeRecords, Claim
  <1>2. host[h].seq \in Slots /\ Claim(h) \in Claims
    BY <1>1, RuntimeBounds, SMT DEF RuntimeBounds, StoreTypeOK
  <1>3. PICK attempt \in Attempts :
           /\ LeaseLogicalTurnOperation(Claim(h), "HostTool", host[h].seq, attempt)
           /\ Go(h, [host[h] EXCEPT !.stage = "executing", !.run = "AwaitingTool",
                                    !.attempt = attempt, !.seq = host[h].seq + 1])
    BY DEF LeaseHostTool
  <1>4. PICK n : n = NewOperation(Claim(h), "HostTool", host[h].seq, attempt)
    OBVIOUS
  <1>5. /\ IsCall(n, Claim(h).turn, Claim(h).cont, host[h].seq, n.attempt)
        /\ n.phase = "Leased" /\ n.attempt = attempt
    BY <1>4 DEF NewOperation, IsCall
  <1>6. n \in Operations
    BY <1>2, <1>3, <1>4, ClaimTypes DEF OperationKinds
  <1>7. ops' = ops \cup {n} /\ turns' = turns /\ turns[Claim(h).turn].phase = "Running"
    BY <1>3, <1>4 DEF LeaseLogicalTurnOperation, RequireRunningFence
  <1>8. PICK r : r = [host[h] EXCEPT !.stage = "executing", !.run = "AwaitingTool",
                                     !.attempt = attempt, !.seq = host[h].seq + 1]
    OBVIOUS
  <1>9. /\ r.stage = "executing" /\ r.claim = host[h].claim
        /\ r.seq = host[h].seq + 1 /\ r.attempt = attempt
    BY <1>0, <1>8 DEF WakeRecords
  <1>10. host'[h] = r /\ \A g \in Hosts : g # h => host'[g] = host[g]
    BY <1>3, <1>8 DEF Go, WakesInv
  <1>11. executed' = executed /\ host[h].stage = "running"
    BY DEF LeaseHostTool
  <1> QED BY <1>1, <1>5, <1>6, <1>7, <1>9, <1>10, <1>11

LEMMA KnownStep ==
    ASSUME StoreTypeOK, WakesInv, KnownCalls, [RuntimeNext]_vars
    PROVE  KnownCalls'
  <1>1. ASSUME NEW t, NEW n, NEW slot, NEW attempt,
               \E o \in ops : IsCall(o, t, n, slot, attempt)
        PROVE  \E o \in ops' : IsCall(o, t, n, slot, attempt)
    <2>1. PICK o \in ops : IsCall(o, t, n, slot, attempt)
      BY <1>1
    <2>2. PICK p \in ops' : SameOperation(o, p)
      BY OpsKeys
    <2> QED BY <2>1, <2>2 DEF IsCall, SameOperation
  <1>2. ASSUME \A g \in Hosts : host'[g].stage \in InCall =>
                  /\ host[g].stage \in InCall /\ host'[g].claim = host[g].claim
                  /\ host'[g].seq = host[g].seq /\ host'[g].attempt = host[g].attempt
        PROVE  \A g \in Hosts : host'[g].stage \in InCall =>
                  \E o \in ops' : IsCall(o, host'[g].claim.turn, host'[g].claim.cont,
                                         host'[g].seq - 1, host'[g].attempt)
    <2> SUFFICES ASSUME NEW g \in Hosts, host'[g].stage \in InCall
                 PROVE  \E o \in ops' : IsCall(o, host'[g].claim.turn, host'[g].claim.cont,
                                               host'[g].seq - 1, host'[g].attempt)
      OBVIOUS
    <2>1. \E o \in ops : IsCall(o, host[g].claim.turn, host[g].claim.cont,
                                host[g].seq - 1, host[g].attempt)
      BY <1>2 DEF KnownCalls
    <2>2. \E o \in ops' : IsCall(o, host[g].claim.turn, host[g].claim.cont,
                                 host[g].seq - 1, host[g].attempt)
      BY <1>1, <2>1
    <2> QED BY <1>2, <2>2
  <1>3. ASSUME executed' = executed
        PROVE  \A e \in executed' : \E o \in ops' : IsCall(o, e.turn, e.cont, e.slot, e.attempt)
    BY <1>1, <1>3 DEF KnownCalls
  <1>4. ASSUME NEW h \in Hosts, HostNext(h) PROVE KnownCalls'
    <2>1. CASE LeaseHostTool(h)
      <3>1. PICK n \in Operations :
             /\ ops' = ops \cup {n} /\ turns' = turns /\ executed' = executed
             /\ IsCall(n, Claim(h).turn, Claim(h).cont, host[h].seq, n.attempt)
             /\ n.phase = "Leased" /\ host[h].stage = "running"
             /\ Claim(h) \in claims /\ turns[Claim(h).turn].phase = "Running"
             /\ host'[h].stage = "executing" /\ host'[h].claim = host[h].claim
             /\ host'[h].seq = host[h].seq + 1 /\ host'[h].attempt = n.attempt
             /\ host[h].seq \in Nat
             /\ \A g \in Hosts : g # h => host'[g] = host[g]
        BY <2>1, LeaseFacts
      <3>2. ASSUME NEW g \in Hosts, host'[g].stage \in InCall
            PROVE  \E o \in ops' : IsCall(o, host'[g].claim.turn, host'[g].claim.cont,
                                          host'[g].seq - 1, host'[g].attempt)
        <4>1. CASE g = h
          <5>1. host'[h].seq - 1 = host[h].seq
            BY <3>1, SMT
          <5> QED BY <3>1, <4>1, <5>1 DEF Claim
        <4>2. CASE g # h
          <5>1. host'[g] = host[g]
            BY <3>1, <4>2
          <5> QED BY <1>1, <3>2, <5>1 DEF KnownCalls
        <4> QED BY <4>1, <4>2
      <3> QED BY <1>3, <3>1, <3>2 DEF KnownCalls, IsCall
    <2>2. CASE CallStep(h)
      <3>1. \A g \in Hosts : host'[g].stage \in InCall =>
               \E o \in ops' : IsCall(o, host'[g].claim.turn, host'[g].claim.cont,
                                      host'[g].seq - 1, host'[g].attempt)
        BY <1>2, <2>2 DEF CallStep
      <3>2. \A e \in executed' : \E o \in ops' : IsCall(o, e.turn, e.cont, e.slot, e.attempt)
        <4>1. CASE ExecuteHostTool(h)
          <5>1. PICK x : x = [turn |-> Claim(h).turn, cont |-> Claim(h).cont,
                              slot |-> host[h].seq - 1, attempt |-> host[h].attempt]
            OBVIOUS
          <5>2. executed' = executed \cup {x} /\ host[h].stage \in InCall
            BY <4>1, <5>1 DEF ExecuteHostTool, InCall
          <5>3. \E o \in ops' : IsCall(o, x.turn, x.cont, x.slot, x.attempt)
            BY <1>1, <5>1, <5>2 DEF KnownCalls, Claim
          <5> QED BY <1>1, <5>2, <5>3 DEF KnownCalls
        <4>2. CASE ~ExecuteHostTool(h)
          <5>1. executed' = executed
            BY <1>4, <4>2
            DEF HostNext, HostStep, HostFailure, ProviderEnd, ProviderEnds, PrepareNewTurn,
                ResumeTurn, ClaimNewTurn, StartBrainRun, RunStarted, LeaseHostTool,
                ReplayHostTool, RejectHostTool, SubmitHostResult, DrainTerminal,
                SubmitBrainActions, SettleBrainWake, SettleFailedWake, Settle, StartFailed,
                HostThrows, RequestTool, CancelBrainRun, CancelActiveTurn
          <5> QED BY <1>3, <5>1
        <4> QED BY <4>1, <4>2
      <3> QED BY <3>1, <3>2 DEF KnownCalls, IsCall
    <2> QED BY <1>4, <2>1, <2>2, HostCallStep
  <1>5. ASSUME UNCHANGED <<host, executed>> PROVE KnownCalls'
    BY <1>2, <1>3, <1>5 DEF KnownCalls, IsCall
  <1>6. ASSUME NEW t \in Turns, NEW key \in CancelKeys, CancelIdleTurn(t, key) PROVE KnownCalls'
    BY <1>5, <1>6 DEF CancelIdleTurn, runtimeVars
  <1>7. ASSUME NEW t \in Turns, NEW a, ResolveAttentionForOperator(t, a) PROVE KnownCalls'
    BY <1>5, <1>7 DEF ResolveAttentionForOperator, runtimeVars
  <1>8. ASSUME SwapBrainModule \/ Restart \/ FlushLogicalTurnOutbox \/ UNCHANGED vars
        PROVE  KnownCalls'
    BY <1>5, <1>8 DEF SwapBrainModule, Restart, FlushLogicalTurnOutbox, runtimeVars, vars
  <1>9. ASSUME Crash PROVE KnownCalls'
    <2>1. executed' = executed /\ \A g \in Hosts : host'[g].stage \notin InCall
      BY <1>9, IdleHostFields DEF Crash, InCall
    <2> QED BY <1>2, <1>3, <2>1 DEF KnownCalls, IsCall
  <1> QED BY <1>4, <1>6, <1>7, <1>8, <1>9 DEF RuntimeNext

LEMMA LeaseKeepsFlight ==
    ASSUME StoreTypeOK, WakesInv, ActiveWakeOwnsTurn, FlightInv, NEW h \in Hosts, LeaseHostTool(h)
    PROVE  FlightInv'
  <1>1. PICK n \in Operations :
           /\ ops' = ops \cup {n} /\ turns' = turns /\ executed' = executed
           /\ IsCall(n, Claim(h).turn, Claim(h).cont, host[h].seq, n.attempt)
           /\ n.phase = "Leased" /\ host[h].stage = "running"
           /\ Claim(h) \in claims /\ turns[Claim(h).turn].phase = "Running"
           /\ host'[h].stage = "executing" /\ host'[h].claim = host[h].claim
           /\ host'[h].seq = host[h].seq + 1 /\ host'[h].attempt = n.attempt
           /\ host[h].seq \in Nat
           /\ \A g \in Hosts : g # h => host'[g] = host[g]
    BY LeaseFacts
  <1>2. n.turn = Claim(h).turn /\ turns[n.turn].phase = "Running" /\ Flying(n)
    BY <1>1 DEF IsCall, Flying
  <1>3. Claim(h) # None
    BY <1>1, NoneAssumption DEF StoreTypeOK
  <1>4. \A o \in ops : Flying(o) => o.turn # n.turn
    BY <1>1, <1>2, <1>3 DEF FlightInv, Claim, Holding, InCall
  <1>5. \A o \in ops' : Flying(o) => turns'[o.turn].phase \in {"Running"} \cup TerminalPhases
    BY <1>1, <1>2 DEF FlightInv
  <1>6. \A o, p \in ops' :
           Flying(o) /\ Flying(p) /\ o.turn = p.turn /\ turns'[o.turn].phase = "Running" => o = p
    BY <1>1, <1>4, SMT DEF FlightInv
  <1>7. ASSUME NEW g \in Hosts, NEW o \in ops', Flying(o), turns'[o.turn].phase = "Running",
               host'[g].claim # None, host'[g].claim.turn = o.turn
        PROVE  host'[g].stage \in Holding
    <2>1. CASE g = h
      BY <1>1, <2>1 DEF Holding, InCall
    <2>2. CASE g # h
      <3>1. host'[g] = host[g]
        BY <1>1, <2>2
      <3>2. host[g].claim.turn # host[h].claim.turn
        BY <1>3, <1>7, <2>2, <3>1 DEF ActiveWakeOwnsTurn, Claim
      <3>3. o \in ops
        BY <1>1, <1>2, <1>7, <3>1, <3>2 DEF Claim
      <3> QED BY <1>1, <1>7, <3>1, <3>3 DEF FlightInv
    <2> QED BY <2>1, <2>2
  <1> QED BY <1>5, <1>6, <1>7 DEF FlightInv, Flying

(* The result of a call: the one call in flight on the turn lands. *)
LEMMA SubmitLands ==
    ASSUME StoreTypeOK, WakesInv, FlightInv, KnownCalls, NEW h \in Hosts, SubmitHostResult(h)
    PROVE  \A n \in ops' : Flying(n) => n.turn # Claim(h).turn
                                        \/ turns[n.turn].phase # "Running"
  <1>1. host[h].stage \in InCall
    BY DEF SubmitHostResult, InCall
  <1>2. PICK o \in ops : IsCall(o, Claim(h).turn, Claim(h).cont, host[h].seq - 1, host[h].attempt)
    BY <1>1 DEF KnownCalls, Claim
  <1>3. o \in EarlierAttempts(Claim(h), host[h].seq - 1) /\ o.attempt = host[h].attempt
    BY <1>2 DEF IsCall, EarlierAttempts
  <1>4. PICK p : p = HostToolOperation(h)
    OBVIOUS
  <1>5. p \in EarlierAttempts(Claim(h), host[h].seq - 1)
    BY <1>3, <1>4 DEF HostToolOperation
  <1>6. p \in ops /\ p.kind = "HostTool" /\ p.turn = Claim(h).turn
    BY <1>5 DEF EarlierAttempts
  <1>7. CompleteLogicalTurnOperation(Claim(h), p)
    BY <1>4 DEF SubmitHostResult
  <1>8. PICK phase : OpsMoved({p}, phase)
    BY <1>7, CompletionMoves
  <1>9. Flying(p)
    BY <1>6, <1>7 DEF CompleteLogicalTurnOperation, Flying
  <1> SUFFICES ASSUME NEW n \in ops', Flying(n), n.turn = Claim(h).turn,
                      turns[n.turn].phase = "Running"
               PROVE  FALSE
    OBVIOUS
  <1>10. PICK q \in ops : /\ SameOperation(q, n)
                          /\ \/ q \notin {p} /\ n = q
                             \/ q \in {p} /\ n = Moved(q, phase) /\ n.phase = phase
    BY <1>8, MovedSource, SMT DEF StoreTypeOK
  <1>11. n = q /\ q # p
    BY <1>8, <1>10 DEF OpsMoved, Flying
  <1> QED BY <1>6, <1>9, <1>11 DEF FlightInv

LEMMA HostFlight ==
    ASSUME StoreTypeOK, WakesInv, ActiveWakeOwnsTurn, FlightInv, KnownCalls,
           NEW h \in Hosts, HostNext(h), \A g \in Hosts : ~LeaseHostTool(g)
    PROVE  FlightInv'
  <1>0. host[h] \in WakeRecords(claims) /\ WakeShape(host[h])
    BY DEF WakesInv
  <1>1. RuntimeNext
    BY DEF RuntimeNext
  <1>2. \A n \in ops' : Flying(n) => n \in ops
    BY <1>1, OpsKeys
  <1>3. CallStep(h)
    BY HostCallStep
  <1>4. \A g \in Hosts : g # h => host'[g] = host[g]
    BY <1>3 DEF CallStep
  <1>5. \A t \in Turns : turns[t].phase \notin {"Running"} \cup TerminalPhases
                            => \A n \in ops' : Flying(n) => n.turn # t
    BY <1>2 DEF FlightInv
  <1>6. ASSUME NEW t \in Turns, PrepareNewTurn(h, t) PROVE FlightInv'
    <2>1. InsertLogicalTurnAdmission(t, h[1]) /\ h[1] \in Sessions
      BY <1>6 DEF PrepareNewTurn, Hosts
    <2>2. turns[t].phase = "Absent" /\ \A u \in Turns : u # t => turns'[u] = turns[u]
      BY <2>1, AdmissionEffect DEF TurnStep, InsertLogicalTurnAdmission, Exists
    <2>3. \A n \in ops' : Flying(n) => n.turn # t
      BY <1>5, <2>2 DEF TerminalPhases
    <2>4. PICK r : r = [IdleHost EXCEPT !.stage = "admitting", !.turn = t]
      OBVIOUS
    <2>5. r.claim = None /\ host'[h] = r
      BY <1>6, <2>4 DEF PrepareNewTurn, Go, WakesInv, IdleHost
    <2> QED BY <1>2, <1>4, <2>2, <2>3, <2>5, FlightKept
  <1>7. ASSUME NEW t \in Turns, ClaimStep(h, t) PROVE FlightInv'
    <2>0. inst \in Instances
      BY DEF WakesInv
    <2>1. turns[t].phase \in RunnablePhases /\ \A u \in Turns : u # t => turns'[u] = turns[u]
      BY <1>7, <2>0, ClaimEffect DEF ClaimStep, TurnStep, ClaimLogicalTurn
    <2>2. \A n \in ops' : Flying(n) => n.turn # t
      BY <1>5, <2>1 DEF TerminalPhases, RunnablePhases
    <2>3. host'[h].claim = None \/ host'[h].claim.turn = t
      <3>1. PICK r : r = [IdleHost EXCEPT !.stage = "built", !.turn = t,
                                          !.claim = NewClaim(t, inst)]
        OBVIOUS
      <3>2. r.claim = NewClaim(t, inst)
        BY <3>1 DEF IdleHost
      <3>3. NewClaim(t, inst).turn = t
        BY DEF NewClaim
      <3>4. host'[h] = r \/ host'[h] = IdleHost
        BY <1>7, <3>1 DEF ClaimStep, Go, Claimed, WakesInv
      <3> QED BY <3>2, <3>3, <3>4, IdleHostFields
    <2> QED BY <1>2, <1>4, <2>1, <2>2, <2>3, FlightKept
  <1>8. ASSUME NEW outcome \in Outcomes \cup {"Failed"}, SettleStep(h, outcome)
        PROVE  FlightInv'
    <2>0. Claim(h) \in claims /\ Claim(h).turn \in Turns /\ Claim(h) # None
      BY <1>8, NoneAssumption DEF SettleStep, StoreTypeOK, Claims
    <2>1. host'[h].claim = None
      BY <1>8, IdleHostFields DEF SettleStep, Settle, Go, WakesInv
    <2>2. \A u \in Turns : u # Claim(h).turn => turns'[u] = turns[u]
      BY <1>8, SettleStops
    <2>3. CASE turns[Claim(h).turn].phase = "Cancelled"
      <3>1. turns' = turns
        BY <1>8, <2>3 DEF SettleStep, Settle, storeVars
      <3> QED BY <1>2, <1>4, <2>1, <3>1, FlightKept
    <2>4. CASE turns[Claim(h).turn].phase # "Cancelled" /\ outcome \in {"Completed", "Failed"}
      <3>1. CompleteLogicalTurn(Claim(h), outcome)
        BY <1>8, <2>4 DEF SettleStep, Settle, CommitOutcome
      <3>2. turns'[Claim(h).turn].phase \in TerminalPhases
        BY <2>0, <2>4, <3>1, CompleteEffect DEF TerminalPhases
      <3> QED BY <1>2, <1>4, <2>1, <2>2, <3>2, FlightKept
    <2>5. CASE turns[Claim(h).turn].phase # "Cancelled" /\ outcome \notin {"Completed", "Failed"}
      <3>1. host[h].stage = "acted"
        BY <1>8, <2>5 DEF SettleStep
      <3>2. turns[Claim(h).turn].phase = "Running"
        BY <2>0, <2>5, LiveTurn DEF Claim
      <3>3. \A n \in ops' : Flying(n) => n.turn # Claim(h).turn
        BY <1>2, <2>0, <3>1, <3>2 DEF FlightInv, Claim, Holding, InCall
      <3> QED BY <1>2, <1>4, <2>1, <2>2, <3>3, FlightKept
    <2> QED BY <2>3, <2>4, <2>5
  <1>9. ASSUME QuietStep(h) PROVE FlightInv'
    <2>1. \A u \in Turns : turns'[u] = turns[u] \/ turns'[u].phase \in TerminalPhases
      <3>1. ASSUME NEW key \in CancelKeys, CancelLogicalTurn(Claim(h).turn, key),
                   Claim(h).turn \in Turns
            PROVE  \A u \in Turns : turns'[u] = turns[u] \/ turns'[u].phase \in TerminalPhases
        <4>1. CASE Terminal(Claim(h).turn)
          BY <3>1, <4>1 DEF CancelLogicalTurn
        <4>2. CASE ~Terminal(Claim(h).turn)
          BY <3>1, <4>2, CancelEffect DEF TurnStep, TerminalPhases
        <4> QED BY <4>1, <4>2
      <3> QED BY <1>9, <3>1 DEF QuietStep
    <2>2. host'[h].claim = host[h].claim
      BY <1>9 DEF QuietStep
    <2>3. CASE SubmitHostResult(h)
      <3>1. turns' = turns
        BY <2>3 DEF SubmitHostResult, CompleteLogicalTurnOperation
      <3>2. \A n \in ops' : Flying(n) => n.turn # host'[h].claim.turn
                                         \/ turns'[n.turn].phase # "Running"
        BY <2>2, <2>3, <3>1, SubmitLands DEF Claim
      <3> QED BY <1>2, <1>4, <3>1, <3>2, FlightKept
    <2>4. CASE ~SubmitHostResult(h)
      <3>1. host[h].stage \in Holding => host'[h].stage \in Holding \/ host'[h].claim = None
        BY <1>3, <2>4 DEF CallStep
      <3> QED BY <1>2, <1>4, <2>1, <2>2, <3>1, FlightKept
    <2> QED BY <2>3, <2>4
  <1> QED BY <1>6, <1>7, <1>8, <1>9, HostStepKinds

LEMMA FlightStep ==
    ASSUME StoreTypeOK, WakesInv, ActiveWakeOwnsTurn, FlightInv, KnownCalls, [RuntimeNext]_vars
    PROVE  FlightInv'
  <1>1. CASE \E h \in Hosts : LeaseHostTool(h)
    BY <1>1, LeaseKeepsFlight
  <1>2. CASE ~\E h \in Hosts : LeaseHostTool(h)
    <2>1. \A n \in ops' : Flying(n) => n \in ops
      BY <1>2, OpsKeys
    <2>2. ASSUME NEW h \in Hosts, HostNext(h) PROVE FlightInv'
      BY <1>2, <2>2, HostFlight
    <2>3. ASSUME NEW t \in Turns, NEW key \in CancelKeys, CancelIdleTurn(t, key)
          PROVE  FlightInv'
      <3>1. host' = host /\ CancelLogicalTurn(t, key)
        BY <2>3 DEF CancelIdleTurn, runtimeVars
      <3>2. \A u \in Turns : turns'[u] = turns[u] \/ turns'[u].phase \in TerminalPhases
        <4>1. CASE Terminal(t)
          BY <3>1, <4>1 DEF CancelLogicalTurn
        <4>2. CASE ~Terminal(t)
          BY <3>1, <4>2, CancelEffect DEF TurnStep, TerminalPhases
        <4> QED BY <4>1, <4>2
      <3> QED BY <2>1, <3>1, <3>2, FlightKept
    <2>4. ASSUME NEW t \in Turns, NEW a, ResolveAttentionForOperator(t, a) PROVE FlightInv'
      <3>1. ResolveLogicalTurnAttention(t, a) /\ host' = host
        BY <2>4 DEF ResolveAttentionForOperator, runtimeVars
      <3>2. /\ turns[t].phase = "AttentionRequired"
            /\ \A u \in Turns : u # t => turns'[u] = turns[u]
        BY <3>1, ResolveEffect DEF TurnStep, ResolveLogicalTurnAttention
      <3>3. \A n \in ops' : Flying(n) => n.turn # t
        BY <2>1, <3>2 DEF FlightInv, TerminalPhases
      <3> QED BY <2>1, <3>1, <3>2, <3>3, FlightKept
    <2>5. ASSUME SwapBrainModule \/ FlushLogicalTurnOutbox \/ UNCHANGED vars PROVE FlightInv'
      <3>1. UNCHANGED <<turns, host>>
        BY <2>5 DEF SwapBrainModule, FlushLogicalTurnOutbox, MarkLogicalTurnOutboxDelivered,
                    runtimeVars, storeVars, vars
      <3> QED BY <2>1, <3>1, FlightKept
    <2>6. ASSUME Crash PROVE FlightInv'
      <3>1. turns' = turns /\ \A g \in Hosts : host'[g].claim = None
        BY <2>6, IdleHostFields DEF Crash, storeVars
      <3> QED BY <2>1, <3>1, FlightKept
    <2>7. ASSUME Restart PROVE FlightInv'
      <3>1. HydrateLogicalTurns /\ \A g \in Hosts : host'[g].claim = None
        BY <2>7, IdleHostFields DEF Restart, WakesInv
      <3>2. ASSUME NEW u \in Turns, turns'[u] # turns[u]
            PROVE  \A n \in ops' : Flying(n) => n.turn # u
        <4>1. CASE Interrupted(u)
          <5> DEFINE hit == UNION {LeasedHostTools(t) : t \in {x \in Turns : Interrupted(x)}}
          <5>1. ops' = SetOperationPhase(hit, "OutcomeUnknown")
            BY <3>1 DEF HydrateLogicalTurns
          <5>2. hit \subseteq ops /\ \A o \in hit : o.phase = "Leased"
            BY DEF LeasedHostTools
          <5>3. \A o \in ops : Flying(o) /\ o.turn = u => o \in hit
            BY <4>1, SMT DEF LeasedHostTools, Flying
          <5> HIDE DEF hit
          <5>4. OpsMoved(hit, "OutcomeUnknown")
            BY <5>1, <5>2 DEF OpsMoved, OperationPhases
          <5> SUFFICES ASSUME NEW n \in ops', Flying(n), n.turn = u PROVE FALSE
            OBVIOUS
          <5>5. PICK q \in ops :
                   /\ SameOperation(q, n)
                   /\ \/ q \notin hit /\ n = q
                      \/ /\ q \in hit /\ n = Moved(q, "OutcomeUnknown")
                         /\ n.phase = "OutcomeUnknown"
            BY <5>4, MovedSource, SMT DEF StoreTypeOK
          <5> QED BY <5>3, <5>5 DEF Flying
        <4>2. CASE ~Interrupted(u)
          <5>1. Recovered(u)
            BY <3>1, <3>2, <4>2, HydrateEffect
          <5>2. \A o \in ops : Flying(o) => o.turn # u
            BY <4>2, <5>1 DEF Recovered, Interrupted, FlightInv, LeasedHostTools, Flying,
                              TerminalPhases
          <5> QED BY <2>1, <5>2
        <4> QED BY <4>1, <4>2
      <3> QED BY <2>1, <3>1, <3>2, FlightKept
    <2> QED BY <2>2, <2>3, <2>4, <2>5, <2>6, <2>7 DEF RuntimeNext
  <1> QED BY <1>1, <1>2

(***************************************************************************)
(* The two theorems.                                                       *)
(***************************************************************************)
ServiceInv ==
    /\ StoreTypeOK /\ WakesInv /\ ActiveWakeOwnsTurn
    /\ CallsInv /\ KnownCalls /\ FlightInv

LEMMA ServiceInit == RuntimeInit => ServiceInv
  <1> SUFFICES ASSUME RuntimeInit PROVE ServiceInv
    OBVIOUS
  <1>1. StoreTypeOK /\ WakesInv
    BY StoreTypeInit, WakesInit DEF RuntimeInit
  <1>2. ActiveWakeOwnsTurn
    BY IdleHostFields DEF RuntimeInit, ActiveWakeOwnsTurn, ActiveClaims, Claim
  <1>3. ops = {} /\ executed = {} /\ \A h \in Hosts : host[h].stage = "idle"
    BY IdleHostFields DEF RuntimeInit, StoreInit
  <1>4. CallsInv /\ KnownCalls /\ FlightInv
    BY <1>3 DEF CallsInv, KnownCalls, FlightInv, InCall
  <1> QED BY <1>1, <1>2, <1>4 DEF ServiceInv

LEMMA ServiceStep ==
    ASSUME ServiceInv, [RuntimeNext]_vars
    PROVE  ServiceInv'
  BY RuntimeStoreStep, StoreTypeStep, WakesStep, OwnershipStep, CallsStep, KnownStep, FlightStep
  DEF ServiceInv

(* A host tool call takes effect once: before the same call is executed    *)
(* again under a later attempt the operator confirmed that the earlier one *)
(* did not complete, whatever crashed, replayed or was retried.            *)
THEOREM ToolsExecuteOnce == RuntimeSpec => []ToolExecutedOnce
  <1>1. ASSUME ServiceInv PROVE ToolExecutedOnce
    <2> SUFFICES ASSUME NEW e \in executed, NEW f \in executed, e.turn = f.turn,
                        e.cont = f.cont, e.slot = f.slot, e.attempt < f.attempt
                 PROVE  \E o \in ops : /\ o.kind = "HostTool" /\ o.phase = "Superseded"
                                       /\ o.turn = e.turn /\ o.cont = e.cont
                                       /\ o.slot = e.slot /\ o.attempt = e.attempt
      BY DEF ToolExecutedOnce
    <2>1. PICK o \in ops : IsCall(o, e.turn, e.cont, e.slot, e.attempt)
      BY <1>1 DEF ServiceInv, KnownCalls
    <2>2. PICK p \in ops : IsCall(p, f.turn, f.cont, f.slot, f.attempt)
      BY <1>1 DEF ServiceInv, KnownCalls
    <2>3. SameCall(o, p) /\ o.attempt < p.attempt
      BY <2>1, <2>2 DEF IsCall, SameCall
    <2>4. o.phase = "Superseded"
      BY <1>1, <2>3 DEF ServiceInv, CallsInv
    <2> QED BY <2>1, <2>4 DEF IsCall
  <1> QED BY <1>1, ServiceInit, ServiceStep, PTL DEF RuntimeSpec

(* A set with one element has size one. *)
LEMMA SizeOfSingle ==
    ASSUME NEW x
    PROVE  Cardinality({x}) = 1
  <1> DEFINE rest(T) == T \ {CHOOSE y : y \in T}
             size(f) == [T \in SUBSET {x} |-> IF T = {} THEN 0 ELSE 1 + f[rest(T)]]
             one == [T \in SUBSET {x} |-> IF T = {} THEN 0 ELSE 1]
             CS == CHOOSE f : f = size(f)
  <1>1. \A T \in SUBSET {x} : T # {} => T = {x} /\ rest(T) = {}
    OBVIOUS
  <1>2. \A T \in SUBSET {x} : one[T] = IF T = {} THEN 0 ELSE 1
    OBVIOUS
  <1>3. \A T \in SUBSET {x} : (IF T = {} THEN 0 ELSE 1) = (IF T = {} THEN 0 ELSE 1 + one[rest(T)])
    <2>1. one[{}] = 0
      BY <1>2
    <2>2. 1 + 0 = 1
      BY SMT
    <2> QED BY <1>1, <2>1, <2>2
  <1>4. one = size(one)
    BY <1>3
  <1>5. CS = size(CS)
    BY <1>4
  <1>6. CS[{}] = 0 /\ CS[{x}] = 1 + CS[{}]
    <2> HIDE DEF CS
    <2>1. CS[{}] = size(CS)[{}] /\ CS[{x}] = size(CS)[{x}]
      BY <1>5
    <2>2. {x} # {} /\ {x} \in SUBSET {x} /\ {} \in SUBSET {x}
      OBVIOUS
    <2> QED BY <1>1, <2>1, <2>2
  <1>7. Cardinality({x}) = CS[{x}]
    BY DEF Cardinality
  <1> QED BY <1>6, <1>7, SMT

(* An interrupted turn had one host tool in flight, so hydration names the *)
(* attention the operator can resolve.                                     *)
LEMMA InterruptionIsSingle ==
    ASSUME FlightInv, NEW t \in Turns, Interrupted(t)
    PROVE  UnknownOutcomeAttention(t) = "ToolOutcomeUnknown"
  <1>1. PICK o : o \in LeasedHostTools(t)
    BY DEF Interrupted
  <1>2. LeasedHostTools(t) = {o}
    BY <1>1 DEF LeasedHostTools, FlightInv, Flying, Interrupted
  <1>3. Cardinality(LeasedHostTools(t)) = 1
    BY <1>2, SizeOfSingle
  <1> QED BY <1>3 DEF UnknownOutcomeAttention

LEMMA ResolvableStep ==
    ASSUME ServiceInv, EveryInterruptionResolvable, [RuntimeNext]_vars
    PROVE  EveryInterruptionResolvable'
  <1>0. StoreTypeOK /\ WakesInv /\ FlightInv
    BY DEF ServiceInv
  <1>1. ASSUME NEW t \in Turns, \A u \in Turns : u # t => turns'[u] = turns[u],
               turns'[t].attention \in {turns[t].attention, None} \cup BrainAttention
        PROVE  EveryInterruptionResolvable'
    <2>1. \A a \in {None} \cup BrainAttention : a # "InvariantRepairRequired"
      BY NoneAssumption DEF BrainAttention, Attentions, HydrationAttention
    <2> QED BY <1>1, <2>1 DEF EveryInterruptionResolvable
  <1>2. ASSUME turns' = turns PROVE EveryInterruptionResolvable'
    BY <1>2 DEF EveryInterruptionResolvable
  <1>3. ASSUME NEW t \in Turns, NEW key \in CancelKeys, CancelLogicalTurn(t, key)
        PROVE  EveryInterruptionResolvable'
    <2>1. CASE Terminal(t)
      BY <1>2, <1>3, <2>1 DEF CancelLogicalTurn
    <2>2. CASE ~Terminal(t)
      BY <1>0, <1>1, <1>3, <2>2, CancelEffect DEF TurnStep
    <2> QED BY <2>1, <2>2
  <1>4. ASSUME NEW h \in Hosts, HostNext(h) PROVE EveryInterruptionResolvable'
    <2>1. ASSUME NEW t \in Turns, PrepareNewTurn(h, t) PROVE EveryInterruptionResolvable'
      <3>1. InsertLogicalTurnAdmission(t, h[1]) /\ h[1] \in Sessions
        BY <2>1 DEF PrepareNewTurn, Hosts
      <3> QED BY <1>0, <1>1, <3>1, AdmissionEffect DEF TurnStep
    <2>2. ASSUME NEW t \in Turns, ClaimStep(h, t) PROVE EveryInterruptionResolvable'
      <3>1. ClaimLogicalTurn(t, inst) /\ inst \in Instances
        BY <1>0, <2>2 DEF ClaimStep, WakesInv
      <3> QED BY <1>0, <1>1, <3>1, ClaimEffect DEF TurnStep
    <2>3. ASSUME NEW outcome \in Outcomes \cup {"Failed"}, SettleStep(h, outcome)
          PROVE  EveryInterruptionResolvable'
      <3>1. Claim(h) \in claims /\ Claim(h).turn \in Turns
        BY <1>0, <2>3 DEF SettleStep, StoreTypeOK, Claims
      <3>2. UNCHANGED storeVars \/ CommitOutcome(Claim(h), outcome)
        BY <2>3 DEF SettleStep, Settle
      <3>3. CASE UNCHANGED storeVars
        BY <1>2, <3>3 DEF storeVars
      <3>4. CASE CommitOutcome(Claim(h), outcome) /\ outcome = "Yielded"
        BY <1>0, <1>1, <3>1, <3>4, YieldEffect DEF CommitOutcome, TurnStep
      <3>5. CASE CommitOutcome(Claim(h), outcome) /\ outcome = "AttentionRequired"
        <4>1. PICK a \in BrainAttention : RequireLogicalTurnAttention(Claim(h), a)
          BY <3>5 DEF CommitOutcome
        <4> QED BY <1>0, <1>1, <3>1, <4>1, AttentionEffect DEF TurnStep
      <3>6. CASE CommitOutcome(Claim(h), outcome) /\ outcome \in {"Completed", "Failed"}
        BY <1>0, <1>1, <3>1, <3>6, CompleteEffect DEF CommitOutcome, TurnStep
      <3> QED BY <3>2, <3>3, <3>4, <3>5, <3>6 DEF Outcomes
    <2>4. ASSUME QuietStep(h) PROVE EveryInterruptionResolvable'
      BY <1>2, <1>3, <2>4 DEF QuietStep
    <2> QED BY <1>0, <1>4, <2>1, <2>2, <2>3, <2>4, HostStepKinds
  <1>5. ASSUME NEW t \in Turns, NEW key \in CancelKeys, CancelIdleTurn(t, key)
        PROVE  EveryInterruptionResolvable'
    BY <1>3, <1>5 DEF CancelIdleTurn
  <1>6. ASSUME NEW t \in Turns, NEW a, ResolveAttentionForOperator(t, a)
        PROVE  EveryInterruptionResolvable'
    <2>1. ResolveLogicalTurnAttention(t, a)
      BY <1>6 DEF ResolveAttentionForOperator
    <2> QED BY <1>0, <1>1, <2>1, ResolveEffect DEF TurnStep
  <1>7. ASSUME SwapBrainModule \/ Crash \/ FlushLogicalTurnOutbox \/ UNCHANGED vars
        PROVE  EveryInterruptionResolvable'
    BY <1>2, <1>7 DEF SwapBrainModule, Crash, FlushLogicalTurnOutbox,
                      MarkLogicalTurnOutboxDelivered, storeVars, vars
  <1>8. ASSUME Restart PROVE EveryInterruptionResolvable'
    <2>1. HydrateLogicalTurns
      BY <1>8 DEF Restart
    <2>2. ASSUME NEW t \in Turns PROVE turns'[t].attention # "InvariantRepairRequired"
      <3>1. CASE Interrupted(t)
        BY <1>0, <2>1, <3>1, HydrateEffect, InterruptionIsSingle
      <3>2. CASE ~Interrupted(t)
        <4>1. turns'[t].attention = turns[t].attention
          BY <1>0, <2>1, <3>2, HydrateEffect
        <4> QED BY <4>1 DEF EveryInterruptionResolvable
      <3> QED BY <3>1, <3>2
    <2> QED BY <2>2 DEF EveryInterruptionResolvable
  <1> QED BY <1>4, <1>5, <1>6, <1>7, <1>8 DEF RuntimeNext

(* No restart leaves a turn with an attention no operator can resolve.     *)
THEOREM InterruptionsAreResolvable == RuntimeSpec => []EveryInterruptionResolvable
  <1>1. RuntimeInit => EveryInterruptionResolvable
    <2>1. RuntimeInit => \A t \in Turns : turns[t].attention = None
      BY SMT DEF RuntimeInit, StoreInit, AbsentTurn
    <2>2. None # "InvariantRepairRequired"
      BY NoneAssumption DEF Attentions, HydrationAttention
    <2> QED BY <2>1, <2>2 DEF EveryInterruptionResolvable
  <1> QED BY <1>1, ServiceInit, ServiceStep, ResolvableStep, PTL DEF RuntimeSpec
=============================================================================
