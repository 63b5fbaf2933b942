---------------------------- MODULE WakeDispatch ----------------------------
(***************************************************************************)
(* How a requested wake becomes a turn: the BrainWakeRequested events the  *)
(* engine publishes, the service's subscription and its drains, the wake   *)
(* dispatcher with its inFlightWakes, deferredWakeSessions and             *)
(* suppressedWakeEvents, and the session's message queue.                  *)
(*                                                                         *)
(* Every step is the code between two awaits that wait for something       *)
(* outside the process (the profile files, the provider, the settlement    *)
(* hooks): the chains of bridge calls in between run as microtasks that    *)
(* nothing else of the service interrupts.  Of a logical turn only what    *)
(* decides the next wake is kept: how many turns of a session hold a       *)
(* ticket and how many wait for an operator.  LogicalTurnRuntime models    *)
(* what a wake does while it is driven.                                    *)
(***************************************************************************)
EXTENDS Integers, Sequences, FiniteSets, Functions

CONSTANTS
    Sessions,
    FollowUps,    \* messages of operators and direct turns
    Routed,       \* messages of other agents (agent_delivery queue records)
    Drains,       \* drainAndDispatchWakes calls that may be active at once
    Micros,       \* deferred redispatches that may be active at once
    MaxQueued,    \* delta_policy.max_queued_messages
    MaxYields,    \* bound on the yields and attentions of a behaviour
    MaxRestarts,  \* bound on restarts of the service
    None

ASSUME DispatchBounds ==
    /\ MaxQueued \in Nat \ {0} /\ MaxYields \in Nat /\ MaxRestarts \in Nat
    /\ FollowUps \cap Routed = {} /\ Drains \cap Micros = {}
    /\ IsFiniteSet(Sessions) /\ None \notin Drains

Messages == FollowUps \cup Routed
Callers == Drains \cup Micros
Stages == {"none", "preparing", "driving", "finishing", "settling"}
InFlightStages == {"preparing", "driving", "finishing"}
Events == [kind: {"wake", "archived"}, session: Sessions]
Calls == [session: Sessions \cup {None}, stage: Stages]
NoCall == [session |-> None, stage |-> "none"]
Wake(s) == [kind |-> "wake", session |-> s]

VARIABLES
    runnable,    \* how many logical turns of a session hold a ticket
    attention,   \* how many wait in AttentionRequired
    yields,      \* yields and attentions so far
    queue,       \* the pending messages of a session, oldest first
    unsent,      \* messages nobody sent yet
    events,      \* the service's wake subscription
    batch,       \* the drained events a drain still has to process
    call,        \* the dispatchWake a caller waits for
    inFlight,    \* inFlightWakes
    deferred,    \* deferredWakeSessions
    suppressed,  \* suppressedWakeEvents
    paused, archived,
    dropped,     \* sessions a wake of which ended before it built a request
    restarts

turnVars == <<runnable, attention, yields>>
busVars == <<events, batch>>
wakeVars == <<call, inFlight, deferred, suppressed>>
modeVars == <<paused, archived, restarts>>
vars == <<turnVars, queue, unsent, busVars, wakeVars, modeVars, dropped>>

Init ==
    /\ runnable = [s \in Sessions |-> 0]
    /\ attention = [s \in Sessions |-> 0]
    /\ yields = 0
    /\ queue = [s \in Sessions |-> <<>>]
    /\ unsent = Messages
    /\ events = <<>>
    /\ batch = [d \in Drains |-> <<>>]
    /\ call = [c \in Callers |-> NoCall]
    /\ inFlight = {}
    /\ deferred = {}
    /\ suppressed = [s \in Sessions |-> 0]
    /\ paused = {}
    /\ archived = {}
    /\ dropped = {}
    /\ restarts = 0

Publish(event) == events' = Append(events, event)
Stage(c, stage) == call' = [call EXCEPT ![c].stage = stage]

(* The session execution phase is not Idle. *)
Working(s) ==
    \/ runnable[s] + attention[s] > 0
    \/ \E c \in Callers : call[c].session = s /\ call[c].stage \in InFlightStages

(***************************************************************************)
(* dispatchWake up to its first real wait.  A wake that meets one in       *)
(* flight is remembered and skipped; one for an archived or paused session *)
(* ends at once, through the settlement every dispatch ends with.          *)
(***************************************************************************)
(* Mutant of DeferWake: the skipped wake is not remembered. *)
MutantNoDeferral(s, deferrals) == deferrals

DeferWake(s, deferrals) == deferrals \cup {s}

DispatchWake(c, s, deferrals, calls) ==
    IF s \in inFlight
    THEN /\ deferred' = DeferWake(s, deferrals)
         /\ call' = calls
         /\ UNCHANGED <<inFlight, dropped>>
    ELSE IF s \in archived \cup paused
    THEN /\ deferred' = deferrals
         /\ call' = [calls EXCEPT ![c] = [session |-> s, stage |-> "settling"]]
         /\ dropped' = dropped \cup {s}
         /\ UNCHANGED inFlight
    ELSE /\ deferred' = deferrals
         /\ inFlight' = inFlight \cup {s}
         /\ call' = [calls EXCEPT ![c] = [session |-> s, stage |-> "preparing"]]
         /\ UNCHANGED dropped

(* Mutant of PrepareFails: the failure returns past the release. *)
MutantFailUnreleased(c) ==
    /\ call[c].stage = "preparing"
    /\ Stage(c, "settling")
    /\ dropped' = dropped \cup {call[c].session}
    /\ UNCHANGED <<turnVars, queue, unsent, busVars, inFlight, deferred,
                   suppressed, modeVars>>

(* The profile, the context strategy or the role assembly cannot be loaded *)
(* or the session has more than one ticket: the wake fails before a turn   *)
(* is claimed.                                                             *)
PrepareFails(c) ==
    /\ call[c].stage = "preparing"
    /\ Stage(c, "finishing")
    /\ dropped' = dropped \cup {call[c].session}
    /\ UNCHANGED <<turnVars, queue, unsent, busVars, inFlight, deferred,
                   suppressed, modeVars>>

(* buildBrainWakeRequestForSession: the session's ticket is claimed with   *)
(* its frozen input; only without a ticket a new turn takes the queue.     *)
BuildWake(c) ==
    /\ call[c].stage = "preparing"
    /\ LET s == call[c].session IN
          /\ runnable[s] <= 1
          /\ runnable' = [runnable EXCEPT ![s] = 0]
          /\ queue' = [queue EXCEPT ![s] = IF runnable[s] = 1 THEN @ ELSE <<>>]
    /\ Stage(c, "driving")
    /\ UNCHANGED <<attention, yields, unsent, busVars, inFlight, deferred,
                   suppressed, modeVars, dropped>>

(* wakeBrain returns: the turn ended, yielded or asks for attention. *)
WakeEnds(c, outcome) ==
    /\ call[c].stage = "driving"
    /\ LET s == call[c].session IN
          \/ /\ outcome = "ended"
             /\ UNCHANGED <<turnVars, events>>
          \/ /\ outcome = "yielded" /\ yields < MaxYields
             /\ runnable' = [runnable EXCEPT ![s] = @ + 1]
             /\ yields' = yields + 1
             /\ Publish(Wake(s))
             /\ UNCHANGED attention
          \/ /\ outcome = "attention" /\ yields < MaxYields
             /\ attention' = [attention EXCEPT ![s] = @ + 1]
             /\ yields' = yields + 1
             /\ UNCHANGED <<runnable, events>>
    /\ Stage(c, "finishing")
    /\ UNCHANGED <<queue, unsent, batch, inFlight, deferred, suppressed,
                   modeVars, dropped>>

(* The finally block: the session leaves inFlightWakes, then the hooks of  *)
(* the settlement are awaited while other wakes may start.                 *)
ReleaseWake(c) ==
    /\ call[c].stage = "finishing"
    /\ inFlight' = inFlight \ {call[c].session}
    /\ Stage(c, "settling")
    /\ UNCHANGED <<turnVars, queue, unsent, busVars, deferred, suppressed,
                   modeVars, dropped>>

(* The settlement is over: a deferral of the session, whichever wake it    *)
(* met, is taken and dispatched as a wake of its own.                      *)
WakeSettled(c) ==
    /\ call[c].stage = "settling"
    /\ LET s == call[c].session
           done == [call EXCEPT ![c] = NoCall] IN
          IF s \in deferred
          THEN \E m \in Micros :
                  /\ done[m] = NoCall
                  /\ DispatchWake(m, s, deferred \ {s}, done)
          ELSE call' = done /\ UNCHANGED <<inFlight, deferred, dropped>>
    /\ UNCHANGED <<turnVars, queue, unsent, busVars, suppressed, modeVars>>

(***************************************************************************)
(* The drains.  Nothing keeps the timer from starting a drain while an     *)
(* earlier one still waits for its dispatch, so several may be active.     *)
(***************************************************************************)
(* Mutant of IdleDrain: a drain waits until every suppression is used up. *)
MutantDrainUnsuppressed(d) ==
    /\ call[d] = NoCall /\ batch[d] = <<>>
    /\ \A s \in Sessions : suppressed[s] = 0

IdleDrain(d) == call[d] = NoCall /\ batch[d] = <<>>

Drain(d) ==
    /\ IdleDrain(d)
    /\ events # <<>>
    /\ batch' = [batch EXCEPT ![d] = events]
    /\ events' = <<>>
    /\ UNCHANGED <<turnVars, queue, unsent, wakeVars, modeVars, dropped>>

(* Mutant of ConsumeSuppressed: the count survives the event it swallows. *)
MutantSuppressAgain(s) == suppressed

ConsumeSuppressed(s) ==
    [suppressed EXCEPT ![s] = IF @ = 0 THEN 0 ELSE @ - 1]

(* The drain processes its next event: an archival takes one suppression   *)
(* along, a suppressed wake is skipped, any other wake is dispatched.      *)
ProcessEvent(d) ==
    /\ call[d] = NoCall
    /\ batch[d] # <<>>
    /\ batch' = [batch EXCEPT ![d] = Tail(@)]
    /\ LET e == Head(batch[d]) IN
          /\ suppressed' = ConsumeSuppressed(e.session)
          /\ IF e.kind = "wake" /\ suppressed[e.session] = 0
             THEN DispatchWake(d, e.session, deferred, call)
             ELSE UNCHANGED <<call, inFlight, deferred, dropped>>
    /\ UNCHANGED <<turnVars, queue, unsent, events, modeVars>>

(***************************************************************************)
(* Senders.                                                                *)
(***************************************************************************)
(* The queue keeps its newest messages; the overflow is Discarded. *)
EnforceCap(pending) ==
    SubSeq(pending, IF Len(pending) > MaxQueued THEN Len(pending) - MaxQueued + 1
                    ELSE 1, Len(pending))

(* enqueue_body_follow_up_message of a caller that leaves the wake to the  *)
(* background drain.                                                       *)
EnqueueFollowUp(m, s) ==
    /\ m \in FollowUps \cap unsent
    /\ s \notin archived
    /\ queue' = [queue EXCEPT ![s] = EnforceCap(Append(@, m))]
    /\ unsent' = unsent \ {m}
    /\ Publish(Wake(s))
    /\ UNCHANGED <<turnVars, batch, wakeVars, modeVars, dropped>>

(* submitServiceTurn: the caller enqueues, suppresses the event of its own *)
(* message and dispatches the wake itself; afterwards it drains.           *)
SubmitServiceTurn(d, m, s) ==
    /\ IdleDrain(d)
    /\ m \in FollowUps \cap unsent
    /\ s \notin archived \cup paused
    /\ queue' = [queue EXCEPT ![s] = EnforceCap(Append(@, m))]
    /\ unsent' = unsent \ {m}
    /\ Publish(Wake(s))
    /\ suppressed' = [suppressed EXCEPT ![s] = @ + 1]
    /\ DispatchWake(d, s, deferred, call)
    /\ UNCHANGED <<turnVars, batch, modeVars>>

(* deliver_agent_message to a direct brain: a working session gets the     *)
(* message queued for its next turn, unless its inbox is full; an idle one *)
(* finds it in its projected body state.  Both request a wake.             *)
RouteAgentMessage(m, s) ==
    /\ m \in Routed \cap unsent
    /\ s \notin archived
    /\ unsent' = unsent \ {m}
    /\ IF ~Working(s)
       THEN Publish(Wake(s)) /\ UNCHANGED queue
       ELSE IF Len(queue[s]) < MaxQueued
       THEN Publish(Wake(s)) /\ queue' = [queue EXCEPT ![s] = Append(@, m)]
       ELSE UNCHANGED <<events, queue>>
    /\ UNCHANGED <<turnVars, batch, wakeVars, modeVars, dropped>>

(* expire_queued_messages_at, by a drain of the queue or by the cleanup. *)
ExpireMessage(s, m) ==
    /\ m \in Range(queue[s])
    /\ queue' = [queue EXCEPT ![s] = SelectSeq(@, LAMBDA x : x # m)]
    /\ UNCHANGED <<turnVars, unsent, busVars, wakeVars, modeVars, dropped>>

(***************************************************************************)
(* Operators, and the restart of the service.                              *)
(***************************************************************************)
ResolveAttention(s) ==
    /\ attention[s] > 0
    /\ attention' = [attention EXCEPT ![s] = @ - 1]
    /\ runnable' = [runnable EXCEPT ![s] = @ + 1]
    /\ Publish(Wake(s))
    /\ UNCHANGED <<yields, queue, unsent, batch, wakeVars, modeVars, dropped>>

PauseRuntimeTarget(s) ==
    /\ paused' = paused \cup {s}
    /\ UNCHANGED <<turnVars, queue, unsent, busVars, wakeVars, archived,
                   restarts, dropped>>

ResumeRuntimeTarget(s) ==
    /\ paused' = paused \ {s}
    /\ UNCHANGED <<turnVars, queue, unsent, busVars, wakeVars, archived,
                   restarts, dropped>>

ArchiveSession(s) ==
    /\ s \notin archived
    /\ archived' = archived \cup {s}
    /\ Publish([kind |-> "archived", session |-> s])
    /\ UNCHANGED <<turnVars, queue, unsent, batch, wakeVars, paused, restarts,
                   dropped>>

Driven(s) == \E c \in Callers : call[c] = [session |-> s, stage |-> "driving"]

(* Hydration makes an interrupted turn runnable, or blocks it for attention *)
(* when a host tool was in flight.                                         *)
Hydrated(blocked) ==
    [s \in Sessions |-> runnable[s] + IF Driven(s) /\ s \notin blocked THEN 1 ELSE 0]

(* requeue_logical_turn_continuations: a wake for every ticket of a live   *)
(* session; requeue_pending_direct_agent_messages: one for every idle live *)
(* session with a routed message.                                          *)
Requeued(s, tickets, blocked) ==
    IF s \in archived THEN 0
    ELSE IF tickets[s] > 0 THEN tickets[s]
    ELSE IF attention[s] = 0 /\ s \notin blocked /\ Range(queue[s]) \cap Routed # {}
    THEN 1
    ELSE 0

Restart ==
    /\ restarts < MaxRestarts
    /\ restarts' = restarts + 1
    /\ \E blocked \in SUBSET {s \in Sessions : Driven(s)} :
          /\ runnable' = Hydrated(blocked)
          /\ attention' = [s \in Sessions |->
                             attention[s] + IF s \in blocked THEN 1 ELSE 0]
          /\ LET wakes == {w \in Sessions \X (1..(MaxYields + 1)) :
                              w[2] <= Requeued(w[1], runnable', blocked)} IN
             \E order \in Bijection(1..Cardinality(wakes), wakes) :
                events' = [i \in DOMAIN order |-> Wake(order[i][1])]
    /\ batch' = [d \in Drains |-> <<>>]
    /\ call' = [c \in Callers |-> NoCall]
    /\ inFlight' = {} /\ deferred' = {} /\ paused' = {} /\ dropped' = {}
    /\ suppressed' = [s \in Sessions |-> 0]
    /\ UNCHANGED <<yields, queue, unsent, archived>>

CallStep(c) ==
    \/ PrepareFails(c)
    \/ BuildWake(c)
    \/ \E outcome \in {"ended", "yielded", "attention"} : WakeEnds(c, outcome)
    \/ ReleaseWake(c)
    \/ WakeSettled(c)

DrainStep(d) == Drain(d) \/ ProcessEvent(d)

SessionStep(s) ==
    \/ \E m \in Messages :
          \/ EnqueueFollowUp(m, s)
          \/ RouteAgentMessage(m, s)
          \/ ExpireMessage(s, m)
          \/ \E d \in Drains : SubmitServiceTurn(d, m, s)
    \/ ResolveAttention(s)
    \/ PauseRuntimeTarget(s)
    \/ ResumeRuntimeTarget(s)
    \/ ArchiveSession(s)

Next ==
    \/ \E c \in Callers : CallStep(c)
    \/ \E d \in Drains : DrainStep(d)
    \/ \E s \in Sessions : SessionStep(s)
    \/ Restart

Spec == Init /\ [][Next]_vars

(* The event loop runs every continuation that is ready, the provider and  *)
(* the settlement hooks return, and the dispatch timer keeps firing.       *)
Fairness ==
    /\ \A c \in Callers : WF_vars(CallStep(c))
    /\ \A d \in Drains : WF_vars(DrainStep(d))

FairSpec == Spec /\ Fairness

(***************************************************************************)
(* Properties.                                                             *)
(***************************************************************************)
(* The wake events of a session that no drain has processed yet, by the    *)
(* row (the subscription or the batch of a drain) and place where each one *)
(* waits.                                                                  *)
Rows == [r \in Drains \cup {None} |-> IF r = None THEN events ELSE batch[r]]
WakesIn(rows, s) ==
    {p \in UNION {{r} \X DOMAIN rows[r] : r \in DOMAIN rows} : rows[p[1]][p[2]] = Wake(s)}
Outstanding(s) == Cardinality(WakesIn(Rows, s))

(* A wake of the session is still to be dispatched or about to be built. *)
WakeComing(s) ==
    \/ Outstanding(s) > suppressed[s]
    \/ s \in deferred
    \/ \E c \in Callers : call[c] = [session |-> s, stage |-> "preparing"]

(* inFlightWakes holds exactly the sessions with a dispatch between its    *)
(* check and its release, and never two dispatches of one session: the     *)
(* dispatcher drives one wake of a session at a time, although settlements *)
(* of earlier wakes still run and deferred wakes start beside the drains.  *)
OneWakeInFlight ==
    /\ inFlight = {call[c].session : c \in {x \in Callers : call[x].stage \in InFlightStages}}
    /\ \A c, x \in Callers :
          /\ call[c].stage \in InFlightStages /\ call[x].stage \in InFlightStages
          /\ call[c].session = call[x].session
          => c = x

(* A suppression always has the wake event it is meant for outstanding: no *)
(* order of drains, direct turns and archivals leaves one behind that      *)
(* would swallow the wake of a later continuation.                         *)
SuppressionHasEvent ==
    \A s \in Sessions : suppressed[s] <= Outstanding(s)

(* The one runnable turn of a live session always has a wake coming, as    *)
(* long as no wake of the session was turned away by a pause or a failed   *)
(* preparation: continuation wakes that meet a wake in flight are not lost *)
(* by the coalescing, the suppressions, or a restart.                      *)
RunnableTurnHasWake ==
    \A s \in Sessions \ (dropped \cup archived) : runnable[s] = 1 => WakeComing(s)

(* A message in the queue of a live session has a wake coming, or being    *)
(* driven, that is the occasion to take it.                                *)
QueuedMessageHasWake ==
    \A s \in Sessions \ (dropped \cup archived) :
        queue[s] # <<>> => WakeComing(s) \/ s \in inFlight

(* The turn with the ticket of a session is taken up by a wake, unless one *)
(* of the session's wakes is turned away.                                  *)
RunnableTurnRuns ==
    \A s \in Sessions :
        runnable[s] = 1 ~> runnable[s] # 1 \/ s \in dropped \cup archived
=============================================================================
