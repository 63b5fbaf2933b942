------------------------ MODULE BrainTurnCoordinator ------------------------
(***************************************************************************)
(* BufferedBrainTurnCoordinator: the buffer between a provider loop that   *)
(* produces stream items and tool requests, and the host that drains them  *)
(* and answers the requests.  Every operation runs under the lock of the   *)
(* run registry, so each is one action; here any caller may call any of    *)
(* them at any time.  An operation that returns an error changes nothing   *)
(* and is not a step.                                                      *)
(*                                                                         *)
(* A stream item is its kind and, for a text or reasoning delta, its size. *)
(* An entry of the queue stands for the raw items first..last that were    *)
(* coalesced into it; enqueued and drained record what went in and out.    *)
(* provider_state_output, which no operation reads, is left out.           *)
(***************************************************************************)
EXTENDS Integers, Sequences, FiniteSets

CONSTANTS
    Calls,           \* tool call ids
    Results,         \* host tool results
    FailedResults,   \* the ones whose status is not Succeeded
    Sizes,           \* sizes of deltas, in bytes
    MaxStreamItems,  \* max_stream_items
    MaxDeltaBytes,   \* max_stream_delta_bytes
    MaxPending,      \* max_pending_tool_requests
    MaxResults,      \* max_tool_results
    MaxDrain,        \* the max_items of a drain
    MaxRaw,          \* bound on the items a provider produces
    MaxFailures,     \* bound on the failed results
    None

ASSUME CoordinatorConstants ==
    /\ MaxStreamItems \in Nat \ {0} /\ MaxDeltaBytes \in Nat \ {0}
    /\ MaxPending \in Nat \ {0} /\ MaxResults \in Nat \ {0}
    /\ MaxDrain \in Nat \ {0} /\ MaxRaw \in Nat /\ MaxFailures \in Nat
    /\ Sizes \subseteq Nat
    /\ FailedResults \subseteq Results /\ None \notin Results

TerminalPhases == {"yielded", "attention", "completed", "failed", "cancelled"}
ActivePhases == {"created", "running", "awaiting"}
Phases == ActivePhases \cup TerminalPhases
DeltaKinds == {"text", "reasoning"}
TerminalKinds == {"actions", "wake_failed"}
Kinds == DeltaKinds \cup TerminalKinds \cup {"event"}
Items == [kind: DeltaKinds, bytes: Sizes]
         \cup [kind: Kinds \ DeltaKinds, bytes: {0}]

VARIABLES
    phase,
    stream,            \* stream_items
    nextSequence,      \* next_stream_sequence
    queuedDeltaBytes,  \* queued_delta_bytes
    pending,           \* pending_tool_requests
    undelivered,       \* undelivered_tool_request_ids
    submitted,         \* submitted_tool_outputs (and dispositions)
    accepted,          \* accepted_host_tool_results
    failures,          \* tool_failure_policy.total_failures
    enqueued,          \* the items accepted so far
    drained            \* how many of them the host has drained

streamVars == <<stream, nextSequence, queuedDeltaBytes, enqueued, drained>>
toolVars == <<pending, undelivered, submitted, accepted, failures>>
turnVars == <<phase, streamVars, toolVars>>

Init ==
    /\ phase = "created"
    /\ stream = <<>> /\ nextSequence = 1 /\ queuedDeltaBytes = 0
    /\ pending = {} /\ undelivered = <<>>
    /\ submitted = [c \in Calls |-> None]
    /\ accepted = [c \in Calls |-> None]
    /\ failures = 0
    /\ enqueued = <<>> /\ drained = 0

Start ==
    /\ phase = "created"
    /\ phase' = "running"
    /\ UNCHANGED <<streamVars, toolVars>>

(***************************************************************************)
(* The stream.                                                             *)
(***************************************************************************)
IsDelta(item) == item.kind \in DeltaKinds
LastEntry == stream[Len(stream)]

(* Mutant of Coalesces: any two adjacent deltas are merged. *)
MutantCoalesceAnyDelta(item) ==
    stream # <<>> /\ IsDelta(item) /\ LastEntry.kind \in DeltaKinds

(* The item is appended to the newest entry, a delta of the same kind. *)
Coalesces(item) ==
    stream # <<>> /\ IsDelta(item) /\ LastEntry.kind = item.kind

(* Mutant of OverBytes: a delta is only refused when the queue is full     *)
(* already.                                                                *)
MutantOverBytesBefore(item) ==
    IsDelta(item) /\ queuedDeltaBytes > MaxDeltaBytes /\ stream # <<>>

OverBytes(item) ==
    /\ IsDelta(item)
    /\ queuedDeltaBytes + item.bytes > MaxDeltaBytes
    /\ stream # <<>>

OverItems(item) ==
    ~Coalesces(item) /\ item.kind \notin TerminalKinds /\ Len(stream) >= MaxStreamItems

(* BufferLimitExceeded: the producer has to wait for the host. *)
Backpressure(item) == OverBytes(item) \/ OverItems(item)

Entry(item, n) ==
    [kind |-> item.kind, sequence |-> nextSequence, bytes |-> item.bytes,
     first |-> n, last |-> n]

Grown(entry, item, n) ==
    [kind |-> entry.kind, sequence |-> entry.sequence,
     bytes |-> entry.bytes + item.bytes, first |-> entry.first, last |-> n]

PhaseAfter(item) ==
    IF item.kind = "actions" THEN "completed"
    ELSE IF item.kind = "wake_failed" THEN "failed"
    ELSE "running"

EnqueueStreamItem(item) ==
    /\ phase = "running"
    /\ Len(enqueued) < MaxRaw
    /\ ~Backpressure(item)
    /\ LET n == Len(enqueued) + 1 IN
          IF Coalesces(item)
          THEN /\ stream' = [stream EXCEPT ![Len(stream)] = Grown(@, item, n)]
               /\ UNCHANGED nextSequence
          ELSE /\ stream' = Append(stream, Entry(item, n))
               /\ nextSequence' = nextSequence + 1
    /\ queuedDeltaBytes' = queuedDeltaBytes + item.bytes
    /\ phase' = PhaseAfter(item)
    /\ enqueued' = Append(enqueued, item)
    /\ UNCHANGED <<drained, toolVars>>

(* A drain takes k entries: at most MaxDrain, and none after a terminal    *)
(* one.                                                                    *)
Takes(k) ==
    /\ k \in 0..Len(stream) /\ k <= MaxDrain
    /\ \A i \in 1..(k - 1) : stream[i].kind \notin TerminalKinds
    /\ \/ k = Len(stream)
       \/ k = MaxDrain
       \/ k > 0 /\ stream[k].kind \in TerminalKinds

DrainedBytes(k) ==
    LET upTo[i \in 0..Len(stream)] ==
          IF i = 0 THEN 0 ELSE upTo[i - 1] + stream[i].bytes
    IN upTo[k]

(* drain_stream and drain_host_tool_requests, which every caller calls     *)
(* under one lock: the host gets k entries and every undelivered request   *)
(* that is still pending.                                                  *)
Drain(k) ==
    /\ Takes(k)
    /\ stream' = SubSeq(stream, k + 1, Len(stream))
    /\ queuedDeltaBytes' = IF DrainedBytes(k) > queuedDeltaBytes THEN 0
                           ELSE queuedDeltaBytes - DrainedBytes(k)
    /\ drained' = IF k = 0 THEN drained ELSE stream[k].last
    /\ undelivered' = <<>>
    /\ UNCHANGED <<phase, nextSequence, enqueued, pending, submitted, accepted,
                   failures>>

(***************************************************************************)
(* Tool requests.                                                          *)
(***************************************************************************)
(* A call id is used once in a turn. *)
KnownCall(c) == c \in pending \/ accepted[c] # None

RequestRoom == Cardinality(pending) < MaxPending

QueueToolRequest(c) ==
    /\ phase \in {"running", "awaiting"}
    /\ ~KnownCall(c)
    /\ RequestRoom
    /\ pending' = pending \cup {c}
    /\ undelivered' = Append(undelivered, c)
    /\ phase' = "awaiting"
    /\ UNCHANGED <<streamVars, submitted, accepted, failures>>

(* The turn runs on once the last pending request is answered. *)
PhaseAnswered(c) == IF pending = {c} THEN "running" ELSE "awaiting"

(* Mutant of Acceptable: a later result replaces the accepted one. *)
MutantAcceptAgain(c) == phase = "awaiting"

(* A result is accepted for a pending call; the repeat of an accepted one  *)
(* is a duplicate, anything else is refused.                               *)
Acceptable(c) == phase = "awaiting" /\ c \in pending /\ accepted[c] = None

Unpolled == {c \in Calls : submitted[c] # None}

RecordResult(r) == IF r \in FailedResults THEN failures + 1 ELSE failures

(* Mutant of Accept: only failed results are remembered. *)
MutantAcceptFailuresOnly(c, r) ==
    IF r \in FailedResults THEN [accepted EXCEPT ![c] = r] ELSE accepted

Accept(c, r) == [accepted EXCEPT ![c] = r]

(* record_result counts a failure before the output is stored, also when   *)
(* max_tool_results then refuses the output.                               *)
SubmitHostToolResult(c, r) ==
    /\ Acceptable(c)
    /\ RecordResult(r) <= MaxFailures
    /\ failures' = RecordResult(r)
    /\ IF Cardinality(Unpolled) >= MaxResults
       THEN UNCHANGED <<phase, pending, submitted, accepted>>
       ELSE /\ pending' = pending \ {c}
            /\ submitted' = [submitted EXCEPT ![c] = r]
            /\ accepted' = Accept(c, r)
            /\ phase' = PhaseAnswered(c)
    /\ UNCHANGED <<streamVars, undelivered>>

PollSubmittedHostToolOutput(c) ==
    /\ submitted[c] # None
    /\ submitted' = [submitted EXCEPT ![c] = None]
    /\ UNCHANGED <<phase, streamVars, pending, undelivered, accepted, failures>>

(***************************************************************************)
(* The end of the turn.                                                    *)
(***************************************************************************)
Yield ==
    /\ phase = "running"
    /\ phase' = "yielded"
    /\ UNCHANGED <<streamVars, toolVars>>

RequireAttention ==
    /\ phase = "running"
    /\ phase' = "attention"
    /\ UNCHANGED <<streamVars, toolVars>>

TransitionTerminal(to) ==
    /\ phase' = to
    /\ pending' = {} /\ undelivered' = <<>>
    /\ submitted' = [c \in Calls |-> None]
    /\ UNCHANGED <<streamVars, accepted, failures>>

Fail ==
    /\ phase \in ActivePhases
    /\ TransitionTerminal("failed")

(* A turn that waits for an operator can still be cancelled. *)
CancellablePhases == ActivePhases \cup {"attention"}

Cancel ==
    /\ phase \in CancellablePhases
    /\ TransitionTerminal("cancelled")

CoordinatorNext ==
    \/ Start
    \/ \E item \in Items : EnqueueStreamItem(item)
    \/ \E k \in 0..Len(stream) : Drain(k)
    \/ \E c \in Calls :
          \/ QueueToolRequest(c)
          \/ \E r \in Results : SubmitHostToolResult(c, r)
          \/ PollSubmittedHostToolOutput(c)
    \/ Yield
    \/ RequireAttention
    \/ Fail
    \/ Cancel

(* The coordinator's whole contract: it moves only by its own operations.  *)
(* BufferedBrainRun is checked, and proved, to implement it: nothing that  *)
(* the provider thread, the host and the registry do bypasses it.          *)
CoordinatorSpec == Init /\ [][CoordinatorNext]_turnVars

(***************************************************************************)
(* Properties.                                                             *)
(***************************************************************************)
Entries == [kind: Kinds, sequence: Nat, bytes: Nat, first: Nat, last: Nat]

(* Every part of the coordinator has its type, the tool lists are within   *)
(* their limits.                                                           *)
CoordinatorTypeOK ==
    /\ phase \in Phases
    /\ stream \in Seq(Entries) /\ nextSequence \in Nat /\ queuedDeltaBytes \in Nat
    /\ pending \subseteq Calls /\ undelivered \in Seq(Calls)
    /\ submitted \in [Calls -> Results \cup {None}]
    /\ accepted \in [Calls -> Results \cup {None}]
    /\ Cardinality(pending) <= MaxPending /\ Cardinality(Unpolled) <= MaxResults
    /\ failures \in Nat
    /\ enqueued \in Seq(Items) /\ drained \in Nat

(* The queue holds exactly the accepted items the host has not drained, in *)
(* the order they were produced, and an entry holds only items of its own  *)
(* kind: coalescing neither drops, repeats, reorders nor mixes up text and *)
(* reasoning, whatever drains come in between.  Its sequence numbers have  *)
(* no gap.                                                                 *)
StreamTiles ==
    /\ \A i \in 1..Len(stream) :
          /\ stream[i].first <= stream[i].last /\ stream[i].last <= Len(enqueued)
          /\ stream[i].first = IF i = 1 THEN drained + 1 ELSE stream[i - 1].last + 1
          /\ \A n \in stream[i].first..stream[i].last : enqueued[n].kind = stream[i].kind
          /\ stream[i].sequence = nextSequence - Len(stream) + i - 1
    /\ Len(enqueued) = IF stream = <<>> THEN drained ELSE LastEntry.last

(* queued_delta_bytes is what the queued deltas hold, and it exceeds the   *)
(* limit only for one delta that found the queue empty.  The list of items *)
(* exceeds its limit only by the terminal item.                            *)
QueueBounded ==
    /\ queuedDeltaBytes = DrainedBytes(Len(stream))
    /\ queuedDeltaBytes > MaxDeltaBytes => queuedDeltaBytes = stream[1].bytes
    /\ Len(stream) > MaxStreamItems
       => /\ Len(stream) = MaxStreamItems + 1
          /\ LastEntry.kind \in TerminalKinds

(* The turn waits for the host exactly while a request is pending. *)
AwaitingIffPending == phase = "awaiting" <=> pending # {}

(* A turn is Completed exactly when its action batch was accepted, which   *)
(* is then the last item the host gets; no item follows a failure either.  *)
TerminalItemLast ==
    /\ \A n \in 1..(Len(enqueued) - 1) : enqueued[n].kind \notin TerminalKinds
    /\ phase = "completed"
       <=> enqueued # <<>> /\ enqueued[Len(enqueued)].kind = "actions"

(* A result is accepted once for a call: it is never replaced, and the     *)
(* call never becomes pending again.                                       *)
ResultAcceptedOnce ==
    [][\A c \in Calls :
          accepted[c] # None => accepted'[c] = accepted[c] /\ c \notin pending']_turnVars

(* A turn that ended stays as it ended, except that one waiting for an     *)
(* operator may be cancelled, and takes no more items, requests or results. *)
TerminalIsFinal ==
    [][(phase \in TerminalPhases) =>
          /\ \/ phase' = phase
             \/ phase = "attention" /\ phase' = "cancelled"
          /\ enqueued' = enqueued
          /\ accepted' = accepted
          /\ pending' \subseteq pending
      ]_turnVars
=============================================================================
