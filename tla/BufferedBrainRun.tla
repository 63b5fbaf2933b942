-------------------------- MODULE BufferedBrainRun --------------------------
(***************************************************************************)
(* One buffered run of a brain: the coordinator of BrainTurnCoordinator in *)
(* the run registry, the provider thread that streams into it and polls it *)
(* for tool outputs, and the host loop that drains it, executes the tools  *)
(* and answers.  A cancellation or the cleanup of the registry may come at *)
(* any time.  Both providers (chat completions and responses) run the same *)
(* code around their own model loop.                                       *)
(*                                                                         *)
(* The thread and the host only meet in the registry, whose lock makes     *)
(* every access one step; what the model decides to do next is a free      *)
(* choice of the provider.                                                 *)
(***************************************************************************)
EXTENDS BrainTurnCoordinator

ASSUME ErrorsAreNotResults == Results \cap {"error", "cancelled"} = {}

VARIABLES
    registered,        \* the run is in the registry
    providerFinished,  \* payload.provider_finished
    thread,            \* what the provider thread is doing
    item,              \* the item its sink tries to enqueue
    call,              \* the call its executor works on
    steps,             \* items and calls it has made
    outputs,           \* what the executor returned for each of its calls
    host,              \* what the host loop is doing
    executing          \* the drained requests the host still has to answer

threadVars == <<thread, item, call, steps, outputs>>
hostVars == <<host, executing>>
payloadVars == <<registered, providerFinished>>
runVars == <<turnVars, payloadVars, threadVars, hostVars>>

ThreadStates == {"none", "thinking", "streaming", "queueing", "polling", "ended"}
HostStates == {"starting", "draining", "executing", "returned", "thrown"}

RunInit ==
    /\ Init
    /\ registered = FALSE /\ providerFinished = FALSE
    /\ thread = "none" /\ item = None /\ call = None /\ steps = 0 /\ outputs = <<>>
    /\ host = "starting" /\ executing = {}

(* start_brain_run: the coordinator is started and registered, and the     *)
(* provider thread is spawned.                                             *)
StartRun ==
    /\ host = "starting"
    /\ Start
    /\ registered' = TRUE
    /\ thread' = "thinking"
    /\ host' = "draining"
    /\ UNCHANGED <<providerFinished, item, call, steps, outputs, executing>>

(***************************************************************************)
(* The provider thread.                                                    *)
(***************************************************************************)
(* The model loop emits its next item, or calls a tool. *)
ProduceItem ==
    /\ thread = "thinking"
    /\ item' \in Items
    /\ steps < MaxRaw /\ steps' = steps + 1
    /\ thread' = "streaming"
    /\ UNCHANGED <<turnVars, payloadVars, call, outputs, hostVars>>

(* A call of the model; its id may be one it used before. *)
CallTool ==
    /\ thread = "thinking"
    /\ steps < MaxRaw /\ steps' = steps + 1
    /\ call' \in Calls
    /\ thread' = "queueing"
    /\ UNCHANGED <<turnVars, payloadVars, item, outputs, hostVars>>

SinkDone == thread' = "thinking" /\ item' = None

(* Mutant of SinkDrops: an item is dropped only when the run is gone. *)
MutantSinkRetries == ~registered

SinkDrops == ~registered \/ phase \in TerminalPhases

(* The sink: an item of a run that ended is dropped, backpressure makes    *)
(* the thread try again later (no step).  Any other refusal would fail the *)
(* turn; StreamNeverRefused says there is none.                            *)
StreamItem ==
    /\ thread = "streaming"
    /\ SinkDone
    /\ \/ SinkDrops /\ UNCHANGED turnVars
       \/ registered /\ EnqueueStreamItem(item)
    /\ UNCHANGED <<payloadVars, call, steps, outputs, hostVars>>

Return(output) ==
    /\ outputs' = Append(outputs, [call |-> call, output |-> output])
    /\ call' = None
    /\ thread' = "thinking"

(* The executor queues its request; a full list makes it try again later. *)
QueueCall ==
    /\ thread = "queueing"
    /\ \/ /\ registered
          /\ QueueToolRequest(call)
          /\ thread' = "polling"
          /\ UNCHANGED <<call, outputs>>
       \/ /\ ~registered \/ phase \notin {"running", "awaiting"} \/ KnownCall(call)
          /\ Return("error")
          /\ UNCHANGED turnVars
    /\ UNCHANGED <<payloadVars, item, steps, hostVars>>

(* The executor polls: a cancellation, the output, or the end of the turn  *)
(* ends the wait, in this order.                                           *)
PollCall ==
    /\ thread = "polling"
    /\ \/ /\ registered /\ phase = "cancelled"
          /\ Return("cancelled")
          /\ UNCHANGED turnVars
       \/ /\ registered /\ phase # "cancelled"
          /\ Return(submitted[call])
          /\ PollSubmittedHostToolOutput(call)
       \/ /\ \/ ~registered
             \/ phase \in TerminalPhases \ {"cancelled"} /\ submitted[call] = None
          /\ Return("error")
          /\ UNCHANGED turnVars
    /\ UNCHANGED <<payloadVars, item, steps, hostVars>>

(* Mutant of LoopResult: a finished loop leaves an open turn open. *)
MutantLoopResultOpen(result) == UNCHANGED turnVars

(* What the end of the model loop does to a turn still open: it asks for   *)
(* attention, yields, or fails for want of a terminal item.                *)
LoopResult(result) ==
    IF phase \in TerminalPhases THEN UNCHANGED turnVars
    ELSE \/ result = "attention" /\ RequireAttention
         \/ result = "yielded" /\ Yield
         \/ result \in {"returned", "error"} /\ Fail

(* The thread ends: the loop returned, or it failed.                       *)
LoopEnds(result) ==
    /\ thread = "thinking"
    /\ thread' = "ended"
    /\ IF registered /\ phase # "cancelled" THEN LoopResult(result)
       ELSE UNCHANGED turnVars
    /\ providerFinished' = registered
    /\ UNCHANGED <<registered, item, call, steps, outputs, hostVars>>

(***************************************************************************)
(* The host.                                                               *)
(***************************************************************************)
(* Mutant of Terminal: the drain does not wait for the provider thread. *)
MutantTerminalEarly(rest) == phase \in TerminalPhases /\ rest = <<>>

Terminal(rest) == phase \in TerminalPhases /\ rest = <<>> /\ providerFinished

(* Mutant of Requested: the list is emptied before it is read. *)
MutantRequestsCleared == {}

Requested == {c \in pending : \E i \in 1..Len(undelivered) : undelivered[i] = c}

(* One drain: items and requests leave the coordinator together, and the   *)
(* run leaves the registry with the drain that is terminal.                *)
DrainBrainRun ==
    /\ host = "draining"
    /\ registered
    /\ \E k \in 0..Len(stream) : Drain(k)
    /\ registered' = ~Terminal(stream')
    /\ executing' = Requested
    /\ host' = IF ~registered' THEN "returned"
               ELSE IF Requested = {} THEN "draining" ELSE "executing"
    /\ UNCHANGED <<providerFinished, threadVars>>

StillToAnswer(c) == executing \ {c}

(* The host has executed a tool and submits its result.  A refusal (the    *)
(* run was cancelled meanwhile, or is gone) is thrown out of the loop.     *)
AnswerCall(c, r) ==
    /\ host = "executing"
    /\ c \in executing
    /\ IF registered /\ Acceptable(c)
       THEN /\ SubmitHostToolResult(c, r)
            /\ executing' = StillToAnswer(c)
            /\ host' = IF executing' = {} THEN "draining" ELSE "executing"
       ELSE /\ host' = "thrown"
            /\ executing' = {}
            /\ UNCHANGED turnVars
    /\ UNCHANGED <<payloadVars, threadVars>>

(* The run is gone: the drain throws. *)
DrainGone ==
    /\ host = "draining"
    /\ ~registered
    /\ host' = "thrown"
    /\ UNCHANGED <<turnVars, payloadVars, threadVars, executing>>

(* A tool, a projection or the bridge throws: the loop is left. *)
HostThrows ==
    /\ host \in {"draining", "executing"}
    /\ host' = "thrown"
    /\ executing' = {}
    /\ UNCHANGED <<turnVars, payloadVars, threadVars>>

(* cancel_brain_run. *)
CancelRun ==
    /\ registered
    /\ Cancel
    /\ UNCHANGED <<payloadVars, threadVars, hostVars>>

(* Mutant of Cleanup: runs that ended already are cancelled too. *)
MutantCleanupAlways ==
    /\ registered
    /\ registered' = FALSE
    /\ TransitionTerminal("cancelled")
    /\ UNCHANGED <<providerFinished, threadVars, hostVars>>

(* The registry is cleared at shutdown. *)
Cleanup ==
    /\ registered
    /\ registered' = FALSE
    /\ IF phase \in TerminalPhases THEN UNCHANGED turnVars
       ELSE TransitionTerminal("cancelled")
    /\ UNCHANGED <<providerFinished, threadVars, hostVars>>

ThreadStep ==
    \/ ProduceItem
    \/ CallTool
    \/ StreamItem
    \/ QueueCall
    \/ PollCall
    \/ \E result \in {"attention", "yielded", "returned", "error"} : LoopEnds(result)

Answer == \E c \in Calls, r \in Results : AnswerCall(c, r)

RunNext ==
    \/ StartRun
    \/ ThreadStep
    \/ DrainBrainRun
    \/ DrainGone
    \/ Answer
    \/ HostThrows
    \/ CancelRun
    \/ Cleanup

RunSpec == RunInit /\ [][RunNext]_runVars

(* The operating system runs the provider thread, whose model requests     *)
(* time out; the host loop drains every 25 ms and its tools return.        *)
RunFairness ==
    /\ WF_runVars(ThreadStep)
    /\ WF_runVars(DrainBrainRun)
    /\ WF_runVars(DrainGone)
    /\ WF_runVars(Answer)

FairRunSpec == RunSpec /\ RunFairness

(***************************************************************************)
(* Properties.                                                             *)
(***************************************************************************)
(* The sink never meets a turn that waits for tools: the provider streams  *)
(* only after all its calls are answered, so no stream item fails a turn.  *)
StreamNeverRefused ==
    thread = "streaming" /\ registered => phase \in {"running"} \cup TerminalPhases

(* The drain that ends the run comes after the provider thread is done     *)
(* with it, and has handed over every item that was accepted.              *)
TerminalDrainComplete ==
    host = "returned" =>
        phase \in TerminalPhases /\ thread = "ended" /\ drained = Len(enqueued)

(* A provider that waits for the output of a call waits for something: the *)
(* request is open, its output is ready, or the turn has ended.            *)
PollHasAnswerComing ==
    thread = "polling" /\ registered =>
        \/ phase \in TerminalPhases
        \/ submitted[call] # None
        \/ /\ call \in pending
           /\ call \in Requested \cup executing \/ host = "thrown"

(* While the turn is open the answer of the host to any request it drained *)
(* is accepted: only a cancellation or the end of the service refuses it.  *)
DrainedRequestOpen ==
    registered /\ phase \notin TerminalPhases => executing \subseteq pending

(* The provider gets a result for a call at most once, and it is the one   *)
(* the host submitted.                                                     *)
OutputIsAcceptedResult ==
    \A i \in 1..Len(outputs) : outputs[i].output \in Results =>
        /\ accepted[outputs[i].call] = outputs[i].output
        /\ \A j \in 1..Len(outputs) :
              outputs[j].output \in Results /\ outputs[j].call = outputs[i].call => i = j

(* A cancelled run is not held up by its provider thread, whatever the     *)
(* thread was waiting for.                                                 *)
CancelledRunEnds == phase = "cancelled" ~> thread = "ended"

(* As long as the host keeps draining, a run ends and leaves the registry: *)
(* backpressure, tool requests and polls never wait for each other.        *)
RunLeavesRegistry == registered ~> ~registered \/ host = "thrown"
=============================================================================
