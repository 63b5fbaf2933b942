----------------------- MODULE BufferedBrainRunProofs -----------------------
(***************************************************************************)
(* Proofs about a buffered run: it implements the coordinator, so every    *)
(* property of the coordinator holds of it, and the thread and the host    *)
(* keep the protocol between them, for any limits, calls and results.      *)
(***************************************************************************)
EXTENDS BufferedBrainRun, BrainTurnCoordinatorProofs, FiniteSetTheorems

USE Zenon

Outputs == [call: Calls, output: Results \cup {"error", "cancelled"}]

(* What the thread holds has the type of what it is doing. *)
RunTypes ==
    /\ thread \in ThreadStates /\ host \in HostStates
    /\ thread = "streaming" => item \in Items
    /\ thread \in {"queueing", "polling"} => call \in Calls
    /\ undelivered \in Seq(Calls)
    /\ outputs \in Seq(Outputs)

LEMMA RunInitTurn == RunInit => Init /\ RunTypes
  BY EmptySeq DEF RunInit, Init, RunTypes, ThreadStates, HostStates

(* Every step of a run is a step of its coordinator, or leaves it alone. *)
LEMMA RunStepIsTurnStep ==
    ASSUME CoordinatorInv, RunTypes, [RunNext]_runVars
    PROVE  [CoordinatorNext]_turnVars
  <1>1. CASE StartRun
    BY <1>1 DEF StartRun, CoordinatorNext
  <1>2. CASE ProduceItem \/ CallTool
    BY <1>2 DEF ProduceItem, CallTool
  <1>3. CASE StreamItem
    BY <1>3 DEF StreamItem, RunTypes, CoordinatorNext
  <1>4. CASE QueueCall
    BY <1>4 DEF QueueCall, RunTypes, CoordinatorNext
  <1>5. CASE PollCall
    BY <1>5 DEF PollCall, RunTypes, CoordinatorNext
  <1>6. ASSUME NEW result, LoopEnds(result) PROVE [CoordinatorNext]_turnVars
    BY <1>6 DEF LoopEnds, LoopResult, CoordinatorNext
  <1>7. CASE DrainBrainRun
    BY <1>7 DEF DrainBrainRun, CoordinatorNext
  <1>8. CASE Answer
    BY <1>8 DEF Answer, AnswerCall, CoordinatorNext
  <1>9. CASE DrainGone \/ HostThrows
    BY <1>9 DEF DrainGone, HostThrows
  <1>10. CASE CancelRun
    BY <1>10 DEF CancelRun, CoordinatorNext
  <1>11. CASE Cleanup
    <2>1. phase \notin TerminalPhases => phase \in ActivePhases
      BY DEF CoordinatorInv, CoordinatorTypes, Phases
    <2> QED BY <1>11, <2>1 DEF Cleanup, CoordinatorNext, Cancel, CancellablePhases
  <1>12. CASE UNCHANGED runVars
    BY <1>12 DEF runVars
  <1> QED BY <1>1, <1>2, <1>3, <1>4, <1>5, <1>6, <1>7, <1>8, <1>9, <1>10, <1>11, <1>12
         DEF RunNext, ThreadStep

LEMMA UndeliveredTyped ==
    ASSUME CoordinatorInv, RunTypes, [CoordinatorNext]_turnVars
    PROVE  undelivered' \in Seq(Calls)
  <1>1. CASE undelivered' \in {undelivered, <<>>}
    BY <1>1, EmptySeq DEF RunTypes
  <1>2. CASE \E c \in Calls : QueueToolRequest(c)
    BY <1>2, AppendProperties, SMT DEF QueueToolRequest, RunTypes
  <1>3. CASE \E k \in 0..Len(stream) : Drain(k)
    BY <1>1, <1>3 DEF Drain
  <1>4. CASE \E c \in Calls, r \in Results : SubmitHostToolResult(c, r)
    BY <1>1, <1>4 DEF SubmitHostToolResult
  <1>5. CASE Start \/ Yield \/ RequireAttention
    BY <1>1, <1>5 DEF Start, Yield, RequireAttention, toolVars
  <1>6. CASE \E i \in Items : EnqueueStreamItem(i)
    BY <1>1, <1>6 DEF EnqueueStreamItem, toolVars
  <1>7. CASE \E c \in Calls : PollSubmittedHostToolOutput(c)
    BY <1>1, <1>7 DEF PollSubmittedHostToolOutput
  <1>8. CASE Fail \/ Cancel
    BY <1>1, <1>8 DEF Fail, Cancel, TransitionTerminal
  <1>9. CASE UNCHANGED turnVars
    BY <1>1, <1>9 DEF turnVars, toolVars
  <1> QED BY <1>2, <1>3, <1>4, <1>5, <1>6, <1>7, <1>8, <1>9 DEF CoordinatorNext

LEMMA RunTypesStep ==
    ASSUME CoordinatorInv, RunTypes, [RunNext]_runVars
    PROVE  RunTypes'
  <1>1. undelivered' \in Seq(Calls)
    BY RunStepIsTurnStep, UndeliveredTyped
  <1>2. ASSUME NEW o \in Results \cup {"error", "cancelled"}, call \in Calls, Return(o)
        PROVE  outputs' \in Seq(Outputs)
    <2>1. [call |-> call, output |-> o] \in Outputs
      BY <1>2 DEF Outputs
    <2> QED BY <2>1, <1>2, AppendProperties DEF Return, RunTypes
  <1>3. CASE StartRun \/ ProduceItem \/ CallTool \/ StreamItem
    BY <1>1, <1>3 DEF StartRun, ProduceItem, CallTool, StreamItem, SinkDone, RunTypes,
       ThreadStates, HostStates, hostVars
  <1>4. CASE QueueCall
    BY <1>1, <1>2, <1>4 DEF QueueCall, Return, RunTypes, ThreadStates, hostVars
  <1>5. CASE PollCall
    <2>1. call \in Calls /\ submitted[call] \in Results \cup {None}
      BY <1>5 DEF PollCall, RunTypes, CoordinatorInv, CoordinatorTypes
    <2>2. outputs' \in Seq(Outputs)
      BY <1>2, <1>5, <2>1 DEF PollCall, PollSubmittedHostToolOutput
    <2> QED BY <1>1, <1>5, <2>2 DEF PollCall, Return, RunTypes, ThreadStates, hostVars
  <1>6. ASSUME NEW result, LoopEnds(result) PROVE RunTypes'
    BY <1>1, <1>6 DEF LoopEnds, RunTypes, ThreadStates, hostVars
  <1>7. CASE DrainBrainRun \/ DrainGone \/ HostThrows \/ Answer
    BY <1>1, <1>7 DEF DrainBrainRun, DrainGone, HostThrows, Answer, AnswerCall, RunTypes,
       HostStates, threadVars
  <1>8. CASE CancelRun \/ Cleanup \/ UNCHANGED runVars
    BY <1>1, <1>8 DEF CancelRun, Cleanup, runVars, RunTypes, threadVars, hostVars
  <1> QED BY <1>3, <1>4, <1>5, <1>6, <1>7, <1>8 DEF RunNext, ThreadStep

(* A run is a coordinator: whatever the thread, the host, cancellations    *)
(* and the cleanup do, and in whatever order, they drive it through its    *)
(* own operations.                                                         *)
THEOREM RunImplementsCoordinator == RunSpec => CoordinatorSpec
  <1>1. RunInit => Init /\ CoordinatorInv /\ RunTypes
    BY RunInitTurn, CoordinatorInit
  <1>2. CoordinatorInv /\ RunTypes /\ [RunNext]_runVars
        => /\ [CoordinatorNext]_turnVars
           /\ CoordinatorInv' /\ RunTypes'
    BY RunStepIsTurnStep, RunTypesStep, CoordinatorStep
  <1> QED BY <1>1, <1>2, PTL DEF RunSpec, CoordinatorSpec

(* What the coordinator guarantees under any order of calls, a run has:    *)
(* the stream is covered without gap or overlap, its queue stays within    *)
(* its limits with the bytes counted right, and the turn waits for tools   *)
(* exactly while a request has no answer.                                  *)
THEOREM RunKeepsCoordinatorGuarantees ==
    RunSpec => [](StreamTiles /\ QueueBounded /\ AwaitingIffPending)
  BY RunImplementsCoordinator, StreamIsTiled, QueueIsBounded, AwaitsPending, PTL

(***************************************************************************)
(* The protocol between the thread and the host.                           *)
(***************************************************************************)
(* The thread makes one call at a time, so the turn waits for a host only  *)
(* while the thread polls for the one pending call.                        *)
ThreadPhase ==
    /\ phase = "created" <=> thread = "none"
    /\ thread = "none" => registered = FALSE
    /\ registered = FALSE => thread = "none" \/ phase \in TerminalPhases
    /\ phase = "awaiting" => thread = "polling" /\ pending = {call}
    /\ thread = "polling" => phase \in {"running", "awaiting", "cancelled"}
    /\ providerFinished = TRUE => thread = "ended"

(* An output that was not polled yet is the one the thread polls for. *)
OutputReady ==
    /\ phase = "cancelled" => \A c \in Calls : submitted[c] = None
    /\ \A c \in Calls : submitted[c] # None =>
          accepted[c] = submitted[c] /\ thread = "polling" /\ c = call
    /\ thread = "polling" /\ phase = "running" => submitted[call] # None

(* What the host has drained and not answered. *)
HostHolds ==
    /\ host \in {"starting", "draining"} => executing = {}
    /\ registered = TRUE /\ phase \notin TerminalPhases => executing \subseteq pending
    /\ registered = TRUE /\ phase = "awaiting" =>
          call \in Requested \cup executing \/ host = "thrown"

Booleans == registered \in BOOLEAN /\ providerFinished \in BOOLEAN

Protocol == Booleans /\ ThreadPhase /\ OutputReady /\ HostHolds

LEMMA ProtocolInit == RunInit => Protocol
  BY DEF RunInit, Init, Protocol, Booleans, ThreadPhase, OutputReady, HostHolds, TerminalPhases

LEMMA ProtocolStart ==
    ASSUME CoordinatorInv, RunTypes, Protocol, StartRun
    PROVE  Protocol'
  BY DEF StartRun, Start, streamVars, toolVars, CoordinatorInv, AwaitingIffPending,
     Protocol, Booleans, ThreadPhase, OutputReady, HostHolds, TerminalPhases

LEMMA ProtocolThink ==
    ASSUME CoordinatorInv, RunTypes, Protocol, ProduceItem \/ CallTool
    PROVE  Protocol'
  BY DEF ProduceItem, CallTool, turnVars, streamVars, toolVars, payloadVars, hostVars, Requested,
     Protocol, Booleans, ThreadPhase, OutputReady, HostHolds

LEMMA ProtocolStream ==
    ASSUME CoordinatorInv, RunTypes, Protocol, StreamItem
    PROVE  Protocol'
  <1>1. /\ thread = "streaming" /\ thread' = "thinking"
        /\ UNCHANGED <<call, payloadVars, hostVars>>
    BY DEF StreamItem, SinkDone
  <1>2. CASE UNCHANGED turnVars
    BY <1>1, <1>2 DEF turnVars, streamVars, toolVars, payloadVars, hostVars, Requested,
       Protocol, Booleans, ThreadPhase, OutputReady, HostHolds
  <1>3. CASE registered /\ EnqueueStreamItem(item)
    <2>1. /\ phase = "running" /\ phase' \in {"running", "completed", "failed"}
          /\ UNCHANGED toolVars
      BY <1>3 DEF EnqueueStreamItem, PhaseAfter
    <2> QED BY <1>1, <1>3, <2>1 DEF toolVars, payloadVars, hostVars, TerminalPhases,
           Protocol, Booleans, ThreadPhase, OutputReady, HostHolds
  <1> QED BY <1>2, <1>3 DEF StreamItem

LEMMA ProtocolQueue ==
    ASSUME CoordinatorInv, RunTypes, Protocol, QueueCall
    PROVE  Protocol'
  <1>1. /\ thread = "queueing" /\ call \in Calls
        /\ UNCHANGED <<payloadVars, hostVars>>
    BY DEF QueueCall, RunTypes
  <1>2. CASE Return("error") /\ UNCHANGED turnVars
    BY <1>1, <1>2 DEF Return, turnVars, streamVars, toolVars, payloadVars, hostVars, Requested,
       Protocol, Booleans, ThreadPhase, OutputReady, HostHolds
  <1>3. CASE /\ registered
             /\ QueueToolRequest(call)
             /\ thread' = "polling"
             /\ UNCHANGED <<call, outputs>>
    <2>1. /\ phase = "running" /\ phase' = "awaiting"
          /\ pending' = pending \cup {call} /\ undelivered' = Append(undelivered, call)
          /\ UNCHANGED <<submitted, accepted>>
      BY <1>1, <1>3 DEF QueueToolRequest, Protocol, ThreadPhase
    <2>2. pending' = {call}
      BY <2>1 DEF CoordinatorInv, AwaitingIffPending
    <2>3. call \in Requested'
      <3>. PICK n \in Nat : n = Len(undelivered)
        BY LenProperties DEF RunTypes
      <3>1. Len(undelivered') = n + 1 /\ undelivered'[n + 1] = call
        BY <1>1, <2>1, AppendProperties DEF RunTypes
      <3>2. n + 1 \in 1..(n + 1)
        BY SMT
      <3> QED BY <1>3, <2>2, <3>1, <3>2 DEF Requested
    <2>4. ThreadPhase' /\ OutputReady' /\ Booleans'
      BY <1>1, <1>3, <2>1, <2>2 DEF payloadVars, Protocol, Booleans, ThreadPhase, OutputReady
    <2>5. HostHolds'
      BY <1>1, <1>3, <2>1, <2>3 DEF payloadVars, hostVars, Protocol, HostHolds, TerminalPhases
    <2> QED BY <2>4, <2>5 DEF Protocol
  <1> QED BY <1>2, <1>3 DEF QueueCall

LEMMA ProtocolPoll ==
    ASSUME CoordinatorInv, RunTypes, Protocol, PollCall
    PROVE  Protocol'
  <1>1. /\ thread = "polling" /\ call \in Calls /\ thread' = "thinking"
        /\ UNCHANGED <<phase, pending, undelivered, accepted, payloadVars, hostVars>>
    BY DEF PollCall, Return, RunTypes, PollSubmittedHostToolOutput, turnVars, toolVars
  <1>2. CASE /\ submitted[call] # None
             /\ submitted' = [submitted EXCEPT ![call] = None]
    <2>1. phase # "awaiting"
      BY <1>1, <1>2 DEF CoordinatorInv, AcceptedClosed, Protocol, ThreadPhase, OutputReady,
         CoordinatorTypes
    <2>2. \A c \in Calls : submitted'[c] = None
      BY <1>1, <1>2 DEF CoordinatorInv, CoordinatorTypes, Protocol, OutputReady
    <2> QED BY <1>1, <2>1, <2>2 DEF payloadVars, hostVars, Requested,
           Protocol, Booleans, ThreadPhase, OutputReady, HostHolds
  <1>3. CASE phase = "cancelled" /\ submitted' = submitted
    BY <1>1, <1>3 DEF payloadVars, hostVars, Requested,
       Protocol, Booleans, ThreadPhase, OutputReady, HostHolds
  <1>4. registered = FALSE \/ phase \in TerminalPhases => phase = "cancelled"
    BY <1>1 DEF Protocol, ThreadPhase, TerminalPhases
  <1> QED BY <1>2, <1>3, <1>4
         DEF PollCall, PollSubmittedHostToolOutput, turnVars, toolVars, Protocol, Booleans

LEMMA ProtocolEnd ==
    ASSUME CoordinatorInv, RunTypes, Protocol, NEW result, LoopEnds(result)
    PROVE  Protocol'
  <1>1. /\ thread = "thinking" /\ thread' = "ended" /\ providerFinished' = registered
        /\ UNCHANGED <<registered, call, hostVars>>
    BY DEF LoopEnds
  <1>2. CASE UNCHANGED turnVars
    BY <1>1, <1>2 DEF turnVars, streamVars, toolVars, hostVars, Requested,
       Protocol, Booleans, ThreadPhase, OutputReady, HostHolds
  <1>3. CASE RequireAttention \/ Yield
    BY <1>1, <1>3 DEF RequireAttention, Yield, toolVars, hostVars, TerminalPhases,
       Protocol, Booleans, ThreadPhase, OutputReady, HostHolds
  <1>4. CASE Fail
    BY <1>1, <1>4 DEF Fail, TransitionTerminal, ActivePhases, hostVars, TerminalPhases,
       Protocol, Booleans, ThreadPhase, OutputReady, HostHolds
  <1> QED BY <1>2, <1>3, <1>4 DEF LoopEnds, LoopResult

LEMMA ProtocolDrain ==
    ASSUME CoordinatorInv, RunTypes, Protocol, DrainBrainRun
    PROVE  Protocol'
  <1>1. /\ host = "draining" /\ registered = TRUE
        /\ UNCHANGED <<phase, pending, submitted, accepted, providerFinished, threadVars>>
        /\ executing' = Requested
    BY DEF DrainBrainRun, Drain, Protocol, Booleans
  <1>2. /\ registered' \in BOOLEAN
        /\ registered' = FALSE => phase \in TerminalPhases
    BY <1>1 DEF DrainBrainRun, Terminal
  <1>3. host' \in {"starting", "draining"} => Requested = {}
    BY DEF DrainBrainRun
  <1>4. Requested \subseteq pending
    BY DEF Requested
  <1>5. phase = "awaiting" => call \in Requested \/ host = "thrown"
    BY <1>1 DEF Protocol, HostHolds
  <1>6. ThreadPhase' /\ OutputReady' /\ Booleans'
    BY <1>1, <1>2 DEF threadVars, Protocol, Booleans, ThreadPhase, OutputReady
  <1>7. HostHolds'
    BY <1>1, <1>3, <1>4, <1>5 DEF threadVars, HostHolds
  <1> QED BY <1>6, <1>7 DEF Protocol

LEMMA ProtocolAnswer ==
    ASSUME CoordinatorInv, RunTypes, Protocol,
           NEW c \in Calls, NEW r \in Results, AnswerCall(c, r)
    PROVE  Protocol'
  <1>1. host = "executing" /\ c \in executing /\ UNCHANGED <<payloadVars, threadVars>>
    BY DEF AnswerCall
  <1>2. CASE host' = "thrown" /\ executing' = {} /\ UNCHANGED turnVars
    BY <1>1, <1>2 DEF turnVars, streamVars, toolVars, payloadVars, threadVars, Requested,
       Protocol, Booleans, ThreadPhase, OutputReady, HostHolds
  <1>3. CASE /\ registered /\ Acceptable(c) /\ SubmitHostToolResult(c, r)
             /\ executing' = StillToAnswer(c)
             /\ host' = IF executing' = {} THEN "draining" ELSE "executing"
    <2>1. phase = "awaiting" /\ c \in pending /\ accepted[c] = None
      BY <1>3 DEF Acceptable
    <2>2. thread = "polling" /\ pending = {c} /\ c = call
      BY <2>1 DEF Protocol, ThreadPhase
    <2>3. Unpolled = {}
      BY <2>1, <2>2 DEF Unpolled, Protocol, OutputReady
    <2>4. ~(Cardinality(Unpolled) >= MaxResults)
      BY <2>3, FS_EmptySet, CoordinatorConstants, SMT DEF CoordinatorConstants
    <2>5. /\ pending' = {} /\ phase' = "running"
          /\ submitted' = [submitted EXCEPT ![c] = r]
          /\ accepted' = [accepted EXCEPT ![c] = r]
      BY <1>3, <2>2, <2>4 DEF SubmitHostToolResult, Accept, PhaseAnswered
    <2>6. executing' = {}
      BY <1>3, <2>1, <2>2 DEF StillToAnswer, Protocol, HostHolds, TerminalPhases, Booleans
    <2>7. \A d \in Calls : /\ submitted'[d] = IF d = c THEN r ELSE submitted[d]
                           /\ accepted'[d] = IF d = c THEN r ELSE accepted[d]
      BY <2>5 DEF CoordinatorInv, CoordinatorTypes
    <2>8. None # r
      BY CoordinatorConstants DEF CoordinatorConstants
    <2>9. ThreadPhase' /\ Booleans'
      BY <1>1, <2>1, <2>2, <2>5 DEF payloadVars, threadVars, TerminalPhases,
         Protocol, Booleans, ThreadPhase
    <2>10. OutputReady'
      BY <1>1, <2>2, <2>5, <2>7, <2>8, SMT DEF threadVars, Protocol, OutputReady
    <2>11. HostHolds'
      BY <2>5, <2>6 DEF HostHolds
    <2> QED BY <2>9, <2>10, <2>11 DEF Protocol
  <1> QED BY <1>2, <1>3 DEF AnswerCall

LEMMA ProtocolLeave ==
    ASSUME CoordinatorInv, RunTypes, Protocol, DrainGone \/ HostThrows
    PROVE  Protocol'
  BY DEF DrainGone, HostThrows, turnVars, streamVars, toolVars, payloadVars, threadVars, Requested,
     Protocol, Booleans, ThreadPhase, OutputReady, HostHolds

LEMMA ProtocolCancel ==
    ASSUME CoordinatorInv, RunTypes, Protocol, CancelRun \/ Cleanup
    PROVE  Protocol'
  <1>1. UNCHANGED <<providerFinished, threadVars, hostVars>> /\ registered = TRUE
    BY DEF CancelRun, Cleanup, payloadVars, Protocol, Booleans
  <1>2. thread # "none"
    BY <1>1 DEF Protocol, ThreadPhase
  <1>3. CASE TransitionTerminal("cancelled") /\ registered' \in BOOLEAN
             /\ phase \in CancellablePhases
    <2>1. /\ phase' = "cancelled" /\ pending' = {} /\ accepted' = accepted
          /\ \A c \in Calls : submitted'[c] = None
      BY <1>3 DEF TransitionTerminal
    <2> QED BY <1>1, <1>2, <1>3, <2>1 DEF threadVars, hostVars, TerminalPhases,
           Protocol, Booleans, ThreadPhase, OutputReady, HostHolds
  <1>4. CASE UNCHANGED turnVars /\ registered' = FALSE /\ phase \in TerminalPhases
    BY <1>1, <1>4 DEF turnVars, toolVars, threadVars, hostVars, TerminalPhases,
       Protocol, Booleans, ThreadPhase, OutputReady, HostHolds
  <1>5. phase \notin TerminalPhases => phase \in CancellablePhases
    BY DEF CoordinatorInv, CoordinatorTypes, Phases, CancellablePhases
  <1> QED BY <1>1, <1>3, <1>4, <1>5 DEF CancelRun, Cleanup, Cancel, payloadVars

RunInv == CoordinatorInv /\ RunTypes /\ Protocol

LEMMA RunInvStep == RunInv /\ [RunNext]_runVars => RunInv'
  <1> SUFFICES ASSUME RunInv, [RunNext]_runVars PROVE RunInv'
    OBVIOUS
  <1> USE DEF RunInv
  <1>1. CoordinatorInv' /\ RunTypes'
    BY RunStepIsTurnStep, RunTypesStep, CoordinatorStep
  <1>2. CASE UNCHANGED runVars
    BY <1>1, <1>2 DEF runVars, turnVars, streamVars, toolVars, payloadVars, threadVars, hostVars,
       Requested, Protocol, Booleans, ThreadPhase, OutputReady, HostHolds
  <1>3. CASE RunNext
    BY <1>1, <1>3, ProtocolStart, ProtocolThink, ProtocolStream, ProtocolQueue, ProtocolPoll,
       ProtocolEnd, ProtocolDrain, ProtocolAnswer, ProtocolLeave, ProtocolCancel
    DEF RunNext, ThreadStep, Answer
  <1> QED BY <1>2, <1>3

LEMMA RunInvariant == RunSpec => []RunInv
  <1>1. RunInit => RunInv
    BY RunInitTurn, CoordinatorInit, ProtocolInit DEF RunInv
  <1> QED BY <1>1, RunInvStep, PTL DEF RunSpec

(* The thread streams only when all its calls are answered, so the sink    *)
(* never meets a turn that waits for tools and no item fails a turn.       *)
THEOREM SinkNeverRefused == RunSpec => []StreamNeverRefused
  <1>1. RunInv => StreamNeverRefused
    BY DEF RunInv, CoordinatorInv, CoordinatorTypes, Phases, ActivePhases, Protocol, ThreadPhase,
       StreamNeverRefused
  <1> QED BY <1>1, RunInvariant, PTL

(* While the turn is open the host may answer every request it drained. *)
THEOREM AnswersAreAccepted == RunSpec => []DrainedRequestOpen
  <1>1. RunInv => DrainedRequestOpen
    BY DEF RunInv, Protocol, Booleans, HostHolds, DrainedRequestOpen
  <1> QED BY <1>1, RunInvariant, PTL

(* A thread that polls has an answer coming, as long as the host loop runs. *)
THEOREM PollIsAnswered == RunSpec => []PollHasAnswerComing
  <1>1. RunInv => PollHasAnswerComing
    <2> SUFFICES ASSUME RunInv, thread = "polling", registered,
                        phase \notin TerminalPhases, submitted[call] = None
                 PROVE  call \in pending /\ (call \in Requested \cup executing \/ host = "thrown")
      BY DEF PollHasAnswerComing
    <2>1. phase = "awaiting"
      BY DEF RunInv, Protocol, ThreadPhase, OutputReady, TerminalPhases
    <2> QED BY <2>1 DEF RunInv, Protocol, Booleans, ThreadPhase, HostHolds
  <1> QED BY <1>1, RunInvariant, PTL

(* The drain that ends the run hands over all that was accepted: nothing   *)
(* is added after the phase became terminal and the thread ended.          *)
THEOREM TerminalDrainIsComplete == RunSpec => []TerminalDrainComplete
  <1>1. RunInit => TerminalDrainComplete
    BY DEF RunInit, TerminalDrainComplete
  <1>2. ASSUME RunInv, TerminalDrainComplete, [RunNext]_runVars
        PROVE  TerminalDrainComplete'
    <2> SUFFICES ASSUME host' = "returned"
                 PROVE  phase' \in TerminalPhases /\ thread' = "ended"
                        /\ drained' = Len(enqueued')
      BY DEF TerminalDrainComplete
    <2>1. CASE host = "returned"
      <3>1. phase \in TerminalPhases /\ thread = "ended" /\ drained = Len(enqueued)
        BY <1>2, <2>1 DEF TerminalDrainComplete
      <3>2. CASE UNCHANGED <<turnVars, thread>>
        BY <3>1, <3>2 DEF turnVars, streamVars
      <3>3. CASE CancelRun
        BY <3>1, <3>3 DEF CancelRun, Cancel, TransitionTerminal, TerminalPhases, streamVars,
           threadVars
      <3>4. CASE Cleanup
        BY <3>1, <3>2, <3>4 DEF Cleanup, threadVars
      <3>5. CASE UNCHANGED runVars
        BY <3>2, <3>5 DEF runVars, threadVars
      <3>6. ~(StartRun \/ ThreadStep \/ DrainBrainRun \/ DrainGone \/ Answer \/ HostThrows)
        BY <2>1, <3>1 DEF StartRun, ThreadStep, ProduceItem, CallTool, StreamItem, QueueCall,
           PollCall, LoopEnds, DrainBrainRun, DrainGone, Answer, AnswerCall, HostThrows
      <3> QED BY <1>2, <3>3, <3>4, <3>5, <3>6 DEF RunNext
    <2>2. CASE host # "returned"
      <3>1. DrainBrainRun
        BY <1>2, <2>2 DEF RunNext, StartRun, ThreadStep, ProduceItem, CallTool, StreamItem,
           QueueCall, PollCall, LoopEnds, DrainGone, Answer, AnswerCall, HostThrows, CancelRun,
           Cleanup, hostVars, runVars
      <3>2. /\ phase' = phase /\ UNCHANGED <<enqueued, thread, providerFinished>>
            /\ Terminal(stream')
        BY <1>2, <3>1 DEF DrainBrainRun, Drain, threadVars, RunInv, Protocol, Booleans
      <3>3. phase \in TerminalPhases /\ stream' = <<>> /\ thread = "ended"
        BY <1>2, <3>2 DEF Terminal, RunInv, Protocol, Booleans, ThreadPhase
      <3>4. StreamTiles'
        BY <1>2, RunInvStep DEF RunInv, CoordinatorInv
      <3>5. drained' = Len(enqueued')
        BY <3>3, <3>4 DEF StreamTiles
      <3> QED BY <3>2, <3>3, <3>5
    <2> QED BY <2>1, <2>2
  <1> QED BY <1>1, <1>2, RunInvariant, PTL DEF RunSpec

(* A result the thread has taken is not waiting to be polled again. *)
OutputsTaken ==
    /\ OutputIsAcceptedResult
    /\ \A i \in 1..Len(outputs) :
          outputs[i].output \in Results => submitted[outputs[i].call] = None

(* A result that was accepted is not submitted again. *)
LEMMA SubmittedKept ==
    ASSUME CoordinatorInv, [CoordinatorNext]_turnVars,
           NEW c \in Calls, accepted[c] # None, submitted[c] = None
    PROVE  submitted'[c] = None
  <1>1. CASE submitted' = submitted
    BY <1>1
  <1>2. CASE \E d \in Calls, r \in Results : SubmitHostToolResult(d, r)
    BY <1>2 DEF SubmitHostToolResult, Acceptable, CoordinatorInv, CoordinatorTypes
  <1>3. CASE \E d \in Calls : PollSubmittedHostToolOutput(d)
    BY <1>3 DEF PollSubmittedHostToolOutput, CoordinatorInv, CoordinatorTypes
  <1>4. CASE Fail \/ Cancel
    BY <1>4 DEF Fail, Cancel, TransitionTerminal
  <1>5. CASE Start \/ Yield \/ RequireAttention \/ UNCHANGED turnVars
    BY <1>1, <1>5 DEF Start, Yield, RequireAttention, turnVars, toolVars
  <1>6. CASE \E i \in Items : EnqueueStreamItem(i)
    BY <1>1, <1>6 DEF EnqueueStreamItem, toolVars
  <1>7. CASE \E k \in 0..Len(stream) : Drain(k)
    BY <1>1, <1>7 DEF Drain
  <1>8. CASE \E d \in Calls : QueueToolRequest(d)
    BY <1>1, <1>8 DEF QueueToolRequest
  <1> QED BY <1>2, <1>3, <1>4, <1>5, <1>6, <1>7, <1>8 DEF CoordinatorNext

(* The provider gets the result of a call at most once, and it is the one  *)
(* the host submitted, also when the model repeats a call id.              *)
THEOREM OutputsAreAccepted == RunSpec => []OutputIsAcceptedResult
  <1>1. RunInit => OutputsTaken
    BY EmptySeq, SMT DEF RunInit, OutputsTaken, OutputIsAcceptedResult
  <1>2. ASSUME RunInv, OutputsTaken, [RunNext]_runVars
        PROVE  OutputsTaken'
    <2>. PICK n \in Nat : n = Len(outputs)
      BY <1>2, LenProperties DEF RunInv, RunTypes
    <2>1. [CoordinatorNext]_turnVars /\ CoordinatorInv
      BY <1>2, RunStepIsTurnStep DEF RunInv
    <2>2. \A i \in 1..n : outputs[i].call \in Calls
      <3>1. \A i \in 1..n : outputs[i] \in Outputs
        BY <1>2, ElementOfSeq DEF RunInv, RunTypes
      <3> QED BY <3>1 DEF Outputs
    <2>3. None \notin Results /\ "error" \notin Results /\ "cancelled" \notin Results
      BY CoordinatorConstants, ErrorsAreNotResults DEF CoordinatorConstants
    <2>4. ASSUME NEW i \in 1..n, outputs[i].output \in Results
          PROVE  /\ accepted'[outputs[i].call] = outputs[i].output
                 /\ submitted'[outputs[i].call] = None
      <3>1. accepted[outputs[i].call] = outputs[i].output /\ submitted[outputs[i].call] = None
        BY <1>2, <2>4 DEF OutputsTaken, OutputIsAcceptedResult
      <3>2. accepted'[outputs[i].call] = accepted[outputs[i].call]
        BY <2>1, <2>2, <2>3, <2>4, <3>1, AcceptedKept DEF turnVars, toolVars
      <3> QED BY <2>1, <2>2, <2>3, <2>4, <3>1, <3>2, SubmittedKept
    <2>5. CASE outputs' = outputs
      BY <1>2, <2>4, <2>5 DEF OutputsTaken, OutputIsAcceptedResult
    <2>6. CASE PollCall \/ QueueCall
      <3>1. CASE outputs' = outputs
        BY <2>5, <3>1
      <3>2. call \in Calls
        BY <1>2, <2>6 DEF RunInv, RunTypes, PollCall, QueueCall
      <3>3. ASSUME NEW o \in Results \cup {"error", "cancelled"}, Return(o)
            PROVE  /\ Len(outputs') = n + 1
                   /\ \A i \in 1..n : outputs'[i] = outputs[i]
                   /\ outputs'[n + 1].call = call /\ outputs'[n + 1].output = o
        <4>1. [call |-> call, output |-> o] \in Outputs
          BY <3>2 DEF Outputs
        <4> QED BY <1>2, <3>3, <4>1, AppendProperties, SMTT(30) DEF Return, RunInv, RunTypes
      <3>4. ASSUME NEW o \in {"error", "cancelled"}, Return(o)
            PROVE  OutputsTaken'
        <4>1. /\ Len(outputs') = n + 1 /\ outputs'[n + 1].output \notin Results
              /\ \A i \in 1..n : outputs'[i] = outputs[i]
          BY <2>3, <3>3, <3>4
        <4>2. \A i \in 1..(n + 1) : outputs'[i].output \in Results =>
                 i \in 1..n /\ outputs[i].output \in Results /\ outputs'[i] = outputs[i]
          BY <4>1, SMT
        <4> QED BY <1>2, <2>4, <4>1, <4>2, SMTT(30) DEF OutputsTaken, OutputIsAcceptedResult
      <3>5. CASE Return(submitted[call]) /\ PollSubmittedHostToolOutput(call)
        <4>1. /\ submitted[call] # None /\ submitted[call] \in Results
              /\ accepted[call] = submitted[call]
              /\ submitted' = [submitted EXCEPT ![call] = None] /\ accepted' = accepted
          BY <1>2, <3>2, <3>5 DEF PollSubmittedHostToolOutput, RunInv, CoordinatorInv,
             CoordinatorTypes, Protocol, OutputReady
        <4>2. /\ Len(outputs') = n + 1
              /\ \A i \in 1..n : outputs'[i] = outputs[i]
              /\ outputs'[n + 1].call = call /\ outputs'[n + 1].output = submitted[call]
          BY <3>3, <3>5, <4>1
        <4>3. submitted'[call] = None
          BY <1>2, <3>2, <4>1 DEF RunInv, CoordinatorInv, CoordinatorTypes
        <4>4. \A i \in 1..n : outputs[i].output \in Results => outputs[i].call # call
          BY <1>2, <4>1 DEF OutputsTaken
        <4>5. \A i \in 1..(n + 1) : i \in 1..n \/ i = n + 1
          BY SMT
        <4>6. \A i \in 1..(n + 1) : outputs'[i].output \in Results =>
                 /\ accepted'[outputs'[i].call] = outputs'[i].output
                 /\ submitted'[outputs'[i].call] = None
          BY <2>4, <4>1, <4>2, <4>3, <4>5, SMT
        <4>7. ASSUME NEW i \in 1..(n + 1), NEW j \in 1..(n + 1),
                     outputs'[i].output \in Results, outputs'[j].output \in Results,
                     outputs'[j].call = outputs'[i].call
              PROVE  i = j
          <5>1. CASE i \in 1..n /\ j \in 1..n
            BY <1>2, <4>2, <4>7, <5>1 DEF OutputsTaken, OutputIsAcceptedResult
          <5>2. CASE i = n + 1 /\ j \in 1..n
            BY <4>2, <4>4, <4>7, <5>2
          <5>3. CASE j = n + 1 /\ i \in 1..n
            BY <4>2, <4>4, <4>7, <5>3
          <5> QED BY <4>5, <5>1, <5>2, <5>3
        <4> QED BY <4>2, <4>6, <4>7 DEF OutputsTaken, OutputIsAcceptedResult
      <3> QED BY <2>6, <3>1, <3>4, <3>5 DEF PollCall, QueueCall
    <2>7. ~(PollCall \/ QueueCall) => outputs' = outputs
      BY <1>2 DEF RunNext, StartRun, ThreadStep, ProduceItem, CallTool, StreamItem, LoopEnds,
         DrainBrainRun, DrainGone, Answer, AnswerCall, HostThrows, CancelRun, Cleanup,
         threadVars, runVars
    <2> QED BY <2>5, <2>6, <2>7
  <1>3. OutputsTaken => OutputIsAcceptedResult
    BY DEF OutputsTaken
  <1> QED BY <1>1, <1>2, <1>3, RunInvariant, PTL DEF RunSpec
=============================================================================
