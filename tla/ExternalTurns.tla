--------------------------- MODULE ExternalTurns ---------------------------
(***************************************************************************)
(* Turns that run outside Crew, on a Codex app server.                     *)
(*                                                                         *)
(* Rust owns the durable state: the controller lease of the runtime, the   *)
(* turn correlations, the queued follow-ups, the message deliveries and    *)
(* the interactions (core-engine external_runtime.rs and                   *)
(* external_follow_up.rs, core-persistence repos/external_runtime.rs).  A  *)
(* TypeScript controller in every service process drives it                *)
(* (brain-island service-external-runtime.ts) over a JSON-RPC connection   *)
(* (external-runtime-codex driver.ts).                                     *)
(*                                                                         *)
(* One runtime, one binding and its session, one native thread.  A process *)
(* that restarts is a new element of Controllers, because every process    *)
(* draws a fresh instance id.  Calls into Rust are synchronous, so a       *)
(* handler is one step up to the next request it sends to the app server;  *)
(* what it does with the response is a step of its own.                    *)
(***************************************************************************)
EXTENDS Integers, Sequences, FiniteSets

CONSTANTS
    Controllers,        \* service processes, in the order they are started or not
    Messages,           \* messages for the bound session; a turn is named by its message
    Interactions,       \* requests the app server may put to the operator
    Outcomes,           \* how a native turn may end
    NoController, NoMessage

ASSUME ExternalTurnsAssumption ==
    /\ NoController \notin Controllers
    /\ NoMessage \notin Messages
    /\ Outcomes \subseteq {"completed", "failed", "interrupted"}

VARIABLES
    \* The durable store.
    lease,              \* the controller lease: who holds it, is it unexpired
    policy,             \* binding.messageDeliveryPolicy
    ready,              \* registration.observedState = "ready"
    turn,               \* the correlations: phase, is the native turn id bound
    queuedAt,           \* position of a message in the follow-up queue, 0 when not in it
    receipt,            \* the deliveries: status, and the turn a steer is meant for
    events,             \* the steer events recorded for a delivery
    interaction,        \* the interaction records: status and turn
    elapsed,            \* messages whose time to live has passed
    \* The service processes.
    ctl,
    \* The app server and the connections to it.
    native,             \* status of the native turn of a message
    starts,             \* how often the app server started a turn for a message
    steered,            \* how often a message was put into the running turn
    request,            \* an interactive request: its turn, the connection it is open on
    calls,              \* requests sent to the app server and not served yet
    wire                \* what the app server sent on a connection, oldest first

store == <<policy, lease, ready, turn, queuedAt, receipt, events, interaction, elapsed>>
thread == <<native, starts, steered>>
server == <<thread, request, calls, wire>>
vars == <<store, ctl, server>>

Live == {"accepted", "starting", "active", "waiting_interaction"}
Terminal == {"completed", "failed", "interrupted", "outcome_unknown"}

Controller == [up      : {"new", "up", "gone"},
               driver  : {"none", "connecting", "ready", "disconnected", "incompatible"},
               conn    : {"idle", "handshake", "resume", "restore"},
               cur     : Messages \cup {NoMessage},
               cand    : SUBSET Messages,
               steer   : SUBSET ({"sent", "read"} \X Messages),
               pending : SUBSET Interactions]

Fresh == [up |-> "new", driver |-> "none", conn |-> "idle", cur |-> NoMessage,
          cand |-> {}, steer |-> {}, pending |-> {}]

Call == [kind : {"start", "steer", "read"}, msg : Messages \cup {NoMessage},
         by : Controllers \cup {NoController}]

Init ==
    /\ policy \in {"immediate_steer", "serial_next_turn"}
    /\ lease = [holder |-> NoController, live |-> FALSE]
    /\ ready = FALSE
    /\ turn = [m \in Messages |-> [phase |-> "none", bound |-> FALSE]]
    /\ queuedAt = [m \in Messages |-> 0]
    /\ receipt = [m \in Messages |-> [status |-> "none", turn |-> NoMessage]]
    /\ events = [m \in Messages |-> {}]
    /\ interaction = [i \in Interactions |-> [status |-> "none", turn |-> NoMessage]]
    /\ elapsed = {}
    /\ ctl = [c \in Controllers |-> Fresh]
    /\ native = [m \in Messages |-> "none"]
    /\ starts = [m \in Messages |-> 0]
    /\ steered = [m \in Messages |-> 0]
    /\ request = [i \in Interactions |-> [turn |-> NoMessage, on |-> NoController]]
    /\ calls = {}
    /\ wire = [c \in Controllers |-> << >>]

-----------------------------------------------------------------------------
(* What Rust decides.                                                       *)

\* validate_external_controller.  The generation in the context a controller
\* shows is the one of its last acquisition, so it is current exactly when the
\* controller is still the holder.
Holds(c) == lease = [holder |-> c, live |-> TRUE]

\* acquire_external_controller_lease: refused while another holder's is unexpired.
CanAcquire(c) == lease.holder = c \/ ~lease.live

Acquired(c) == [holder |-> c, live |-> TRUE]

\* ExternalTurnPhase::can_transition_to
CanTransitionTo(p, q) ==
    \/ p = q
    \/ p = "accepted" /\ q \in {"starting", "failed", "interrupted"}
    \/ p = "starting" /\ q \in {"active", "failed", "interrupted", "outcome_unknown"}
    \/ p = "active" /\ q \in {"waiting_interaction"} \cup Terminal
    \/ p = "waiting_interaction"
         /\ q \in {"active", "failed", "interrupted", "outcome_unknown"}

\* update_external_turn: the transition is allowed and a terminal turn is immutable.
Permitted(t, m, q) == t[m].phase \notin Terminal /\ CanTransitionTo(t[m].phase, q)

LiveTurns(t) == {m \in Messages : t[m].phase \in Live}

\* Mutant: a turn that has no native id yet does not count.
MutantIdleWhileStarting(t) == {m \in LiveTurns(t) : t[m].phase # "starting"} = {}

\* active_external_turn_for_binding finds nothing.
Idle(t) == LiveTurns(t) = {}

\* The two tables a transition writes, as one value.
Crew == [turn |-> turn, queuedAt |-> queuedAt]

SetCrew(s) == turn' = s.turn /\ queuedAt' = s.queuedAt

\* promote_next_external_follow_up, activate_agent_execution_inner: expired
\* follow-ups are dropped; the oldest other one becomes a turn, unless the
\* runtime is not ready or the session has a turn.
Promote(s, isReady) ==
    LET kept == [m \in Messages |-> IF m \in elapsed THEN 0 ELSE s.queuedAt[m]]
        waiting == {m \in Messages : kept[m] > 0}
        next == CHOOSE m \in waiting : \A n \in waiting : kept[m] <= kept[n]
    IN  IF waiting # {} /\ isReady /\ Idle(s.turn)
        THEN [turn |-> [s.turn EXCEPT ![next] = [phase |-> "accepted", bound |-> FALSE]],
              queuedAt |-> [kept EXCEPT ![next] = 0]]
        ELSE [turn |-> s.turn, queuedAt |-> kept]

\* transition_external_turn_with_error, when it is permitted: a turn that becomes
\* terminal promotes the next follow-up.
Transition(s, isReady, m, phase) ==
    LET moved == [s EXCEPT !.turn[m].phase = phase]
    IN  IF phase \in Terminal THEN Promote(moved, isReady) ELSE moved

\* Mutant: overdue dispatches are not looked for.
MutantNeverExpire(s) == s

\* expire_external_turn_dispatches: only a turn not dispatched yet expires.
Expire(s) ==
    IF \E m \in elapsed : s.turn[m].phase = "accepted"
    THEN Transition(s, ready, CHOOSE m \in elapsed : s.turn[m].phase = "accepted", "failed")
    ELSE s

\* deliver_agent_message and activate_agent_execution_inner: an idle session gets a
\* turn; a session with an active turn is steered, if the policy says so; otherwise
\* the message waits for the next turn.
Deliver(c, m) ==
    LET steers == {n \in Messages : /\ policy = "immediate_steer"
                                     /\ turn[n].phase = "active"
                                     /\ turn[n].bound}
    IN
    /\ ctl[c].up = "up"
    /\ receipt[m].status = "none"
    /\ m \notin elapsed
    /\ \/ /\ ~ready
          /\ receipt' = [receipt EXCEPT ![m].status = "rejected"]
          /\ UNCHANGED <<turn, queuedAt>>
       \/ /\ ready /\ Idle(turn)
          /\ turn' = [turn EXCEPT ![m] = [phase |-> "accepted", bound |-> FALSE]]
          /\ receipt' = [receipt EXCEPT ![m].status = "accepted"]
          /\ UNCHANGED queuedAt
       \/ /\ ready
          /\ \E n \in steers :
                receipt' = [receipt EXCEPT ![m] = [status |-> "pending", turn |-> n]]
          /\ UNCHANGED <<turn, queuedAt>>
       \/ /\ ready /\ ~Idle(turn) /\ steers = {}
          /\ \E k \in 1..Cardinality(Messages) :
                /\ \A n \in Messages : queuedAt[n] < k
                /\ k > 1 => \E n \in Messages : queuedAt[n] = k - 1
                /\ queuedAt' = [queuedAt EXCEPT ![m] = k]
          /\ receipt' = [receipt EXCEPT ![m].status = "accepted"]
          /\ UNCHANGED turn
    /\ UNCHANGED <<policy, lease, ready, events, interaction, elapsed, ctl, server>>

\* CoreEngine::start: reconcile_idle_external_follow_ups, which looks at serial
\* bindings only.
Boot(c) ==
    /\ ctl[c].up = "new"
    /\ ctl' = [ctl EXCEPT ![c].up = "up"]
    /\ IF policy = "serial_next_turn" /\ Idle(turn)
          /\ \E m \in Messages : queuedAt[m] > 0
       THEN SetCrew(Promote(Crew, ready))
       ELSE UNCHANGED <<turn, queuedAt>>
    /\ UNCHANGED <<policy, lease, ready, receipt, events, interaction, elapsed, server>>

-----------------------------------------------------------------------------
(* A connection and what a controller does with it.                         *)

Send(call) == calls' = calls \cup {call}

Read(c, m) == [kind |-> "read", msg |-> m, by |-> c]

\* The response to a call reaches the caller while its connection lasts.
Reply(call, msg) ==
    wire' = IF call.by \in Controllers
            THEN [wire EXCEPT ![call.by] = Append(@, msg)] ELSE wire

\* The turns a read-back will look at: those that can be known to the app server.
Bound == {m \in LiveTurns(turn) : turn[m].bound}

\* #connectRuntime with a new driver, up to the handshake.
ConnectNew(c) ==
    /\ ctl[c].up = "up" /\ ctl[c].conn = "idle"
    /\ CanAcquire(c)
    /\ lease' = Acquired(c)
    /\ ctl' = [ctl EXCEPT ![c].conn = "handshake", ![c].driver = "connecting"]
    /\ ready' = FALSE
    /\ UNCHANGED <<policy, turn, queuedAt, receipt, events, interaction, elapsed, server>>

\* The connecting branches of tick.  A connection that is up while the registration
\* is not ready goes through the read-back again.
TickConnect(c) ==
    \/ ctl[c].driver \in {"none", "disconnected"} /\ ConnectNew(c)
    \/ /\ ctl[c].up = "up" /\ ctl[c].conn = "idle" /\ ctl[c].cur = NoMessage
       /\ ctl[c].driver = "ready" /\ ~ready
       /\ CanAcquire(c)
       /\ lease' = Acquired(c)
       /\ ctl' = [ctl EXCEPT ![c].conn = "restore", ![c].cand = Bound]
       /\ Send(Read(c, NoMessage))
       /\ UNCHANGED <<policy, ready, turn, queuedAt, receipt, events, interaction,
                      elapsed, thread, request, wire>>

\* An operator asks for a connection; the only way out of "incompatible".
OperatorConnect(c) == ctl[c].driver = "incompatible" /\ ConnectNew(c)

\* driver.connect, #authorizeHandshake: Rust checks the lease once more before the
\* runtime is ready; #resumePersistedBindings then reads the thread.
Handshake(c) ==
    /\ ctl[c].conn = "handshake"
    /\ Holds(c)
    /\ ready' = TRUE
    /\ ctl' = [ctl EXCEPT ![c].conn = "resume", ![c].driver = "ready",
                          ![c].cand = Bound]
    /\ Send(Read(c, NoMessage))
    /\ UNCHANGED <<policy, lease, turn, queuedAt, receipt, events, interaction, elapsed,
                   thread, request, wire>>

\* The catch of #connectRuntime: no transport, or the lease went in between.
HandshakeFails(c) ==
    /\ ctl[c].conn = "handshake"
    /\ ctl' = [ctl EXCEPT ![c].conn = "idle", ![c].driver = "disconnected"]
    /\ ready' = (ready /\ ~Holds(c))
    /\ UNCHANGED <<policy, lease, turn, queuedAt, receipt, events, interaction, elapsed,
                   server>>

\* The rest of tick, once the connections are looked after: the lease of a driver
\* that is not disconnected is renewed (a refusal ends the tick), overdue turns
\* expire, and an accepted turn is handed to the app server (#dispatchAcceptedTurns,
\* #startAcceptedTurn) or fails its preflight.
Tick(c) ==
    LET renews == ctl[c].driver \in {"ready", "incompatible"}
        s == Expire(Crew)
        due == {m \in Messages : ctl[c].driver = "ready" /\ s.turn[m].phase = "accepted"}
    IN
    /\ ctl[c].up = "up" /\ ctl[c].conn = "idle" /\ ctl[c].cur = NoMessage
    /\ IF renews THEN CanAcquire(c) ELSE ctl[c].driver = "none" => ~CanAcquire(c)
    /\ ctl[c].driver = "ready" => ready
    /\ lease' = IF renews THEN Acquired(c) ELSE lease
    /\ \/ /\ due = {}
          /\ SetCrew(s)
          /\ UNCHANGED <<ctl, calls>>
       \/ \E m \in due :
            /\ SetCrew(Transition(s, ready, m, "failed"))
            /\ UNCHANGED <<ctl, calls>>
       \/ \E m \in due :
            /\ SetCrew(Transition(s, ready, m, "starting"))
            /\ ctl' = [ctl EXCEPT ![c].cur = m]
            /\ Send([kind |-> "start", msg |-> m, by |-> c])
    /\ UNCHANGED <<policy, ready, receipt, events, interaction, elapsed, thread,
                   request, wire>>

\* Mutant: the failure is written whoever holds the lease.
MutantStartUnknownUnfenced(c) ==
    IF ctl[c].cur # NoMessage /\ Permitted(turn, ctl[c].cur, "outcome_unknown")
    THEN SetCrew(Transition(Crew, ready, ctl[c].cur, "outcome_unknown"))
    ELSE UNCHANGED <<turn, queuedAt>>

\* #terminalizeDispatchFailure after #startAcceptedTurn has thrown: refused, and
\* the turn left as it is, when the lease is no longer this controller's.
StartUnknown(c) ==
    IF ctl[c].cur # NoMessage /\ Holds(c) /\ Permitted(turn, ctl[c].cur, "outcome_unknown")
    THEN SetCrew(Transition(Crew, ready, ctl[c].cur, "outcome_unknown"))
    ELSE UNCHANGED <<turn, queuedAt>>

\* The 30 s timer of driver.#request fires for turn/start.
StartTimesOut(c) ==
    /\ ctl[c].cur # NoMessage
    /\ StartUnknown(c)
    /\ ctl' = [ctl EXCEPT ![c].cur = NoMessage]
    /\ UNCHANGED <<policy, lease, ready, receipt, events, interaction, elapsed, server>>

\* Mutant: a steer is sent again as long as no answer is on record.
MutantSendUnanswered(m) == "input" \notin events[m]

\* A steer is sent only if nothing is on record about it.
NothingSent(m) == events[m] = {}

\* applyCoordinationDelivery.  It is also how a pending delivery is driven again.
ApplySteer(c, m) ==
    LET steers == turn[receipt[m].turn].phase = "active" IN
    /\ ctl[c].up = "up"
    /\ receipt[m].status = "pending"
    /\ \/ /\ m \in elapsed \/ ~steers
          /\ receipt' = [receipt EXCEPT
                ![m].status = IF m \in elapsed THEN "expired" ELSE "rejected"]
          /\ UNCHANGED <<lease, events, ctl, calls>>
       \/ /\ m \notin elapsed /\ steers
          /\ ctl[c].driver = "ready" /\ CanAcquire(c)
          /\ lease' = Acquired(c)
          /\ \/ /\ "input" \in events[m]
                /\ receipt' = [receipt EXCEPT ![m].status = "accepted"]
                /\ UNCHANGED <<events, ctl, calls>>
             \/ /\ "input" \notin events[m] /\ "intent" \in events[m]
                /\ <<"read", m>> \notin ctl[c].steer
                /\ ctl' = [ctl EXCEPT ![c].steer = @ \cup {<<"read", m>>}]
                /\ Send(Read(c, m))
                /\ UNCHANGED <<receipt, events>>
             \/ /\ NothingSent(m)
                /\ events' = [events EXCEPT ![m] = @ \cup {"intent"}]
                /\ ctl' = [ctl EXCEPT ![c].steer = @ \cup {<<"sent", m>>}]
                /\ Send([kind |-> "steer", msg |-> m, by |-> c])
                /\ UNCHANGED receipt
    /\ UNCHANGED <<policy, ready, turn, queuedAt, interaction, elapsed, thread, request,
                   wire>>

\* The timer of driver.#request fires for turn/steer: the delivery stays pending.
SteerTimesOut(c, m) ==
    /\ <<"sent", m>> \in ctl[c].steer
    /\ ctl' = [ctl EXCEPT ![c].steer = @ \ {<<"sent", m>>}]
    /\ UNCHANGED <<store, server>>

\* driver.#disconnect and #onDisconnected, with the rejections of the requests that
\* were waiting: the start fails, the steers stay pending, the interactions are lost.
Drop(c, state) ==
    /\ ctl' = [ctl EXCEPT ![c].driver = state, ![c].conn = "idle", ![c].cur = NoMessage,
                          ![c].cand = {}, ![c].steer = {}, ![c].pending = {}]
    /\ ready' = (ready /\ ~Holds(c))
    /\ interaction' = [i \in Interactions |->
            IF i \in ctl[c].pending /\ Holds(c) /\ interaction[i].status = "pending"
            THEN [interaction[i] EXCEPT !.status = "lost"] ELSE interaction[i]]
    /\ LET m == ctl[c].cur IN
       IF m # NoMessage /\ Holds(c) /\ Permitted(turn, m, "outcome_unknown")
       THEN SetCrew(Transition(Crew, ready', m, "outcome_unknown"))
       ELSE UNCHANGED <<turn, queuedAt>>
    /\ UNCHANGED <<policy, lease, receipt, events, elapsed>>

\* The app server's side of a connection that is gone.
Unplugged(c) ==
    /\ wire' = [wire EXCEPT ![c] = << >>]
    /\ calls' = {IF k.by = c THEN [k EXCEPT !.by = NoController] ELSE k : k \in calls}
    /\ request' = [i \in Interactions |->
            IF request[i].on = c THEN [request[i] EXCEPT !.on = NoController]
            ELSE request[i]]

Disconnect(c) ==
    /\ ctl[c].up = "up" /\ ctl[c].driver = "ready"
    /\ Drop(c, "disconnected")
    /\ Unplugged(c)
    /\ UNCHANGED thread

\* The process dies.
Crash(c) ==
    /\ ctl[c].up = "up"
    /\ ctl' = [ctl EXCEPT ![c] = [Fresh EXCEPT !.up = "gone"]]
    /\ Unplugged(c)
    /\ UNCHANGED <<store, thread>>

\* stop: the controller is retired before its driver closes, so only the start that
\* was waiting and then the release of the lease reach the store.
Stop(c) ==
    /\ ctl[c].up = "up"
    /\ StartUnknown(c)
    /\ ctl' = [ctl EXCEPT ![c] = [Fresh EXCEPT !.up = "gone"]]
    /\ lease' = IF ctl[c].driver # "none" /\ lease.holder = c
                THEN [lease EXCEPT !.live = FALSE] ELSE lease
    /\ Unplugged(c)
    /\ UNCHANGED <<policy, ready, receipt, events, interaction, elapsed, thread>>

\* Time passes: the lease runs out, before it is renewed or because its holder has
\* gone; a message outlives its use.
LeaseExpires(c) ==
    /\ Holds(c)
    /\ lease' = [lease EXCEPT !.live = FALSE]
    /\ UNCHANGED <<policy, ready, turn, queuedAt, receipt, events, interaction, elapsed,
                   ctl, server>>

TtlElapses(m) ==
    /\ m \notin elapsed /\ receipt[m].status # "none"
    /\ elapsed' = elapsed \cup {m}
    /\ UNCHANGED <<policy, lease, ready, turn, queuedAt, receipt, events, interaction,
                   ctl, server>>

-----------------------------------------------------------------------------
(* The app server, as far as the driver depends on it: it serves a call it  *)
(* got even if the caller is gone, tells every connection how a turn ended, *)
(* and does not end a turn that waits for an answer on an open connection.  *)

ServeStart(k) ==
    /\ k \in calls /\ k.kind = "start"
    /\ calls' = calls \ {k}
    /\ \/ /\ native' = [native EXCEPT ![k.msg] = "running"]
          /\ starts' = [starts EXCEPT ![k.msg] = @ + 1]
          /\ Reply(k, [kind |-> "started", msg |-> k.msg])
       \/ /\ Reply(k, [kind |-> "start_error", msg |-> k.msg])
          /\ UNCHANGED <<native, starts>>
    /\ UNCHANGED <<store, ctl, steered, request>>

ServeSteer(k) ==
    /\ k \in calls /\ k.kind = "steer"
    /\ calls' = calls \ {k}
    /\ \/ /\ native[receipt[k.msg].turn] = "running"
          /\ steered' = [steered EXCEPT ![k.msg] = @ + 1]
          /\ Reply(k, [kind |-> "steered", msg |-> k.msg])
       \/ /\ Reply(k, [kind |-> "steer_error", msg |-> k.msg])
          /\ UNCHANGED steered
    /\ UNCHANGED <<store, ctl, native, starts, request>>

ServeRead(k) ==
    /\ k \in calls /\ k.kind = "read"
    /\ calls' = calls \ {k}
    /\ Reply(k, [kind |-> "thread", msg |-> k.msg, native |-> native,
                 items |-> {m \in Messages : steered[m] > 0}])
    /\ UNCHANGED <<store, ctl, thread, request>>

NativeEnds(m, status) ==
    /\ native[m] = "running"
    /\ \A i \in Interactions : request[i].turn = m => request[i].on = NoController
    /\ native' = [native EXCEPT ![m] = status]
    /\ wire' = [c \in Controllers |->
            IF ctl[c].driver = "ready"
            THEN Append(wire[c], [kind |-> "turn", msg |-> m, status |-> status])
            ELSE wire[c]]
    /\ UNCHANGED <<store, ctl, starts, steered, request, calls>>

NativeRequest(m, i, c) ==
    /\ native[m] = "running" /\ request[i].turn = NoMessage
    /\ ctl[c].driver = "ready"
    /\ request' = [request EXCEPT ![i] = [turn |-> m, on |-> c]]
    /\ wire' = [wire EXCEPT ![c] = Append(@, [kind |-> "request", msg |-> m, id |-> i])]
    /\ UNCHANGED <<store, ctl, thread, calls>>

-----------------------------------------------------------------------------
(* What a controller does with what arrives, in the order it arrives.       *)

Arrives(c, kind) == wire[c] # << >> /\ Head(wire[c]).kind = kind

Consume(c) == wire' = [wire EXCEPT ![c] = Tail(@)]

\* A response to a request that has timed out is a protocol fault, recorded as a
\* state of the runtime if the lease allows it (#recordProtocolFault).
Unexpected(c) ==
    /\ ready' = (ready /\ ~Holds(c))
    /\ UNCHANGED <<policy, turn, queuedAt, receipt, events, ctl>>

\* #startAcceptedTurn after turn/start: the native id is bound, or nothing can be
\* written because the lease has gone.
OnStarted(c) ==
    LET m == Head(wire[c]).msg IN
    /\ Arrives(c, "started")
    /\ Consume(c)
    /\ IF ctl[c].cur = m
       THEN /\ turn' = IF Holds(c) /\ Permitted(turn, m, "active")
                       THEN [turn EXCEPT ![m] = [phase |-> "active", bound |-> TRUE]]
                       ELSE turn
            /\ ctl' = [ctl EXCEPT ![c].cur = NoMessage]
            /\ UNCHANGED <<ready, queuedAt, receipt, events>>
       ELSE Unexpected(c)
    /\ UNCHANGED <<policy, lease, interaction, elapsed, thread, request, calls>>

OnStartError(c) ==
    /\ Arrives(c, "start_error")
    /\ Consume(c)
    /\ IF ctl[c].cur = Head(wire[c]).msg
       THEN /\ StartUnknown(c)
            /\ ctl' = [ctl EXCEPT ![c].cur = NoMessage]
            /\ UNCHANGED <<ready, receipt, events>>
       ELSE Unexpected(c)
    /\ UNCHANGED <<policy, lease, interaction, elapsed, thread, request, calls>>

\* recordExternalRuntimeEvent for the input, then #completeAcceptedSteerDelivery.
SteerLanded(m) ==
    /\ events' = [events EXCEPT ![m] = @ \cup {"input"}]
    /\ receipt' = [receipt EXCEPT ![m].status = IF @ = "pending" THEN "accepted" ELSE @]

\* applyCoordinationDelivery after turn/steer.
OnSteered(c) ==
    LET m == Head(wire[c]).msg IN
    /\ Arrives(c, "steered")
    /\ Consume(c)
    /\ IF <<"sent", m>> \in ctl[c].steer
       THEN /\ IF Holds(c) THEN SteerLanded(m) ELSE UNCHANGED <<events, receipt>>
            /\ ctl' = [ctl EXCEPT ![c].steer = @ \ {<<"sent", m>>}]
            /\ UNCHANGED <<ready, turn, queuedAt>>
       ELSE Unexpected(c)
    /\ UNCHANGED <<policy, lease, interaction, elapsed, thread, request, calls>>

OnSteerError(c) ==
    LET m == Head(wire[c]).msg IN
    /\ Arrives(c, "steer_error")
    /\ Consume(c)
    /\ IF <<"sent", m>> \in ctl[c].steer
       THEN /\ receipt' = [receipt EXCEPT
                    ![m].status = IF @ = "pending" THEN "rejected" ELSE @]
            /\ ctl' = [ctl EXCEPT ![c].steer = @ \ {<<"sent", m>>}]
            /\ UNCHANGED <<ready, turn, queuedAt, events>>
       ELSE Unexpected(c)
    /\ UNCHANGED <<policy, lease, interaction, elapsed, thread, request, calls>>

\* #reconcileSteerIntent: a delivery whose outcome is open is looked up in the thread.
OnSteerLookup(c) ==
    LET m == Head(wire[c]).msg IN
    /\ Arrives(c, "thread") /\ m # NoMessage
    /\ Consume(c)
    /\ IF m \in Head(wire[c]).items /\ Holds(c)
       THEN SteerLanded(m) ELSE UNCHANGED <<events, receipt>>
    /\ ctl' = [ctl EXCEPT ![c].steer = @ \ {<<"read", m>>}]
    /\ UNCHANGED <<policy, lease, ready, turn, queuedAt, interaction, elapsed, thread,
                   request, calls>>

\* Mutant: an interrupted turn counts as completed.
MutantEndsCompleted(status) == IF status = "failed" THEN "failed" ELSE "completed"

\* terminalPhase and nativeTurnTerminalPhase: the phase for a native status.
TerminalPhase(status) ==
    CASE status = "interrupted" -> "interrupted"
      [] status = "failed" -> "failed"
      [] OTHER -> "completed"

\* The end of #connectRuntime; with a connection that was there before,
\* #restoreReadyRegistration makes the registration ready again.
Resumed(c) ==
    /\ ctl' = [ctl EXCEPT ![c].conn = "idle", ![c].cand = {}]
    /\ ready' = (ready \/ (ctl[c].conn = "restore" /\ Holds(c)))

\* #reconcileBindingExternalTurns: the turns listed before the read that have ended
\* in the thread, at most one.
Ended(c) == {m \in ctl[c].cand : Head(wire[c]).native[m] \in Outcomes}

\* #reconcileBindingSteerIntents: the steers whose outcome is open.
Open == {m \in Messages : /\ "intent" \in events[m] /\ "input" \notin events[m]
                          /\ receipt[m].status = "pending"}

\* Mutant: an open steer is taken for delivered.
MutantAllLanded(c) == Open

\* The open steers whose input item the thread shows.
Landed(c) == Open \cap Head(wire[c]).items

\* #resumePersistedBindings after the read.  A refused transition, or a refused
\* event, ends the work on this binding.
OnResume(c) ==
    LET lost == Open \ Landed(c)
        end == CHOOSE m \in Ended(c) : TRUE
        phase == TerminalPhase(Head(wire[c]).native[end])
        refused == Ended(c) # {} /\ ~(Holds(c) /\ Permitted(turn, end, phase))
    IN
    /\ Arrives(c, "thread") /\ Head(wire[c]).msg = NoMessage
    /\ ctl[c].conn \in {"resume", "restore"}
    /\ Consume(c)
    /\ Resumed(c)
    /\ IF Ended(c) # {} /\ ~refused
       THEN SetCrew(Transition(Crew, ready, end, phase))
       ELSE UNCHANGED <<turn, queuedAt>>
    /\ IF refused
       THEN UNCHANGED <<receipt, events>>
       ELSE \E reached \in SUBSET lost :
              LET kept == IF Holds(c) THEN Landed(c) ELSE {} IN
              /\ (Holds(c) \/ Landed(c) = {}) => reached = lost
              /\ events' = [m \in Messages |->
                    IF m \in kept THEN events[m] \cup {"input"} ELSE events[m]]
              /\ receipt' = [m \in Messages |->
                    IF m \in kept THEN [receipt[m] EXCEPT !.status = "accepted"]
                    ELSE IF m \in reached THEN [receipt[m] EXCEPT !.status = "rejected"]
                    ELSE receipt[m]]
    /\ UNCHANGED <<policy, lease, interaction, elapsed, thread, request, calls>>

\* thread/read is answered with an error: the binding is left as it is (the catch in
\* #resumePersistedBindings), or the delivery stays pending.
ReadFails(k) ==
    /\ k \in calls /\ k.kind = "read" /\ k.by \in Controllers
    /\ calls' = calls \ {k}
    /\ IF k.msg = NoMessage
       THEN Resumed(k.by)
       ELSE /\ ctl' = [ctl EXCEPT ![k.by].steer = @ \ {<<"read", k.msg>>}]
            /\ UNCHANGED ready
    /\ UNCHANGED <<policy, lease, turn, queuedAt, receipt, events, interaction, elapsed,
                   thread, request, wire>>

\* driver.#handleReceiveFailure: whatever a handler throws counts as a malformed
\* message.
ReceiveFailure(c) == Drop(c, "incompatible") /\ Unplugged(c)

\* #recordEvent and #applyTerminalEvent for turn/completed.
OnTurnEnded(c) ==
    LET m == Head(wire[c]).msg
        phase == TerminalPhase(Head(wire[c]).status)
        known == turn[m].phase \in Live /\ turn[m].bound
    IN
    /\ Arrives(c, "turn")
    /\ IF Holds(c) /\ (known => Permitted(turn, m, phase))
       THEN /\ Consume(c)
            /\ IF known THEN SetCrew(Transition(Crew, ready, m, phase))
               ELSE UNCHANGED <<turn, queuedAt>>
            /\ UNCHANGED <<policy, lease, ready, receipt, events, interaction, elapsed, ctl,
                           request, calls>>
       ELSE ReceiveFailure(c)
    /\ UNCHANGED thread

\* The answer to a server request goes out only under the lease.
Answer(c, i) ==
    request' = IF Holds(c) THEN [request EXCEPT ![i].on = NoController] ELSE request

\* driver.#handleServerRequest, #waitForInteraction
OnRequest(c) ==
    LET m == Head(wire[c]).msg
        i == Head(wire[c]).id
    IN
    /\ Arrives(c, "request")
    /\ Consume(c)
    /\ IF Holds(c) /\ turn[m].phase \in Live /\ turn[m].bound
       THEN /\ interaction' = [interaction EXCEPT ![i] = [status |-> "pending", turn |-> m]]
            /\ SetCrew(Transition(Crew, ready, m, "waiting_interaction"))
            /\ ctl' = [ctl EXCEPT ![c].pending = @ \cup {i}]
            /\ UNCHANGED request
       ELSE /\ request' = [request EXCEPT ![i].on = NoController]
            /\ UNCHANGED <<interaction, turn, queuedAt, ctl>>
    /\ UNCHANGED <<policy, lease, ready, receipt, events, elapsed, thread, calls>>

\* The five-minute timer of #waitForInteraction.  Rust refuses to close an interaction
\* under a lost lease, or one that is no longer pending; nothing handles that
\* rejection, and an unhandled rejection ends the process.
ExpireInteraction(c, i) ==
    /\ i \in ctl[c].pending
    /\ IF Holds(c) /\ interaction[i].status = "pending"
       THEN /\ interaction' = [interaction EXCEPT ![i].status = "expired"]
            /\ ctl' = [ctl EXCEPT ![c].pending = @ \ {i}]
            /\ Answer(c, i)
            /\ UNCHANGED <<policy, lease, ready, turn, queuedAt, receipt, events, elapsed,
                           thread, calls, wire>>
       ELSE Crash(c)

\* resolveInteraction, in whatever process the operator's answer reaches.
ResolveInteraction(c, i) ==
    LET m == interaction[i].turn
        resumes == turn[m].phase = "waiting_interaction" /\ ctl[c].driver = "ready"
    IN
    /\ ctl[c].up = "up"
    /\ interaction[i].status = "pending"
    /\ interaction' = [interaction EXCEPT ![i].status = "resolved"]
    /\ IF resumes /\ Holds(c)
       THEN SetCrew(Transition(Crew, ready, m, "active")) ELSE UNCHANGED <<turn, queuedAt>>
    /\ IF (resumes => Holds(c)) /\ i \in ctl[c].pending
       THEN /\ ctl' = [ctl EXCEPT ![c].pending = @ \ {i}]
            /\ Answer(c, i)
       ELSE UNCHANGED <<ctl, request>>
    /\ UNCHANGED <<policy, lease, ready, receipt, events, elapsed, thread, calls, wire>>

\* The process dies between the commit that ends a turn and the one that promotes
\* the next follow-up.
DieBeforePromotion(c) ==
    LET m == Head(wire[c]).msg
        phase == TerminalPhase(Head(wire[c]).status)
    IN
    /\ Arrives(c, "turn")
    /\ Holds(c) /\ turn[m].phase \in Live /\ turn[m].bound
    /\ Permitted(turn, m, phase)
    /\ turn' = [turn EXCEPT ![m].phase = phase]
    /\ ctl' = [ctl EXCEPT ![c] = [Fresh EXCEPT !.up = "gone"]]
    /\ Unplugged(c)
    /\ UNCHANGED <<policy, lease, ready, queuedAt, receipt, events, interaction,
                   elapsed, thread>>

\* The process dies between the event that says a steer is in the thread and the
\* completion of its delivery.
DieBeforeReceipt(c) ==
    LET m == Head(wire[c]).msg IN
    /\ Arrives(c, "steered")
    /\ <<"sent", m>> \in ctl[c].steer /\ Holds(c)
    /\ events' = [events EXCEPT ![m] = @ \cup {"input"}]
    /\ ctl' = [ctl EXCEPT ![c] = [Fresh EXCEPT !.up = "gone"]]
    /\ Unplugged(c)
    /\ UNCHANGED <<policy, lease, ready, turn, queuedAt, receipt, interaction, elapsed,
                   thread>>

Receive(c) ==
    \/ OnStarted(c) \/ OnStartError(c) \/ OnSteered(c) \/ OnSteerError(c)
    \/ OnSteerLookup(c) \/ OnResume(c) \/ OnTurnEnded(c) \/ OnRequest(c)

\* What happens by itself, what a clock brings about, and what goes wrong.
Work ==
    \/ \E c \in Controllers :
         \/ Boot(c) \/ TickConnect(c) \/ OperatorConnect(c) \/ Handshake(c)
         \/ HandshakeFails(c) \/ Tick(c) \/ Receive(c)
         \/ \E m \in Messages : Deliver(c, m) \/ ApplySteer(c, m)
         \/ \E i \in Interactions : ResolveInteraction(c, i)
         \/ ctl[c].up = "gone" /\ LeaseExpires(c)
    \/ \E k \in calls : ServeStart(k) \/ ServeSteer(k) \/ ServeRead(k)
    \/ \E m \in Messages, status \in Outcomes : NativeEnds(m, status)
    \/ \E m \in Messages, i \in Interactions, c \in Controllers : NativeRequest(m, i, c)

Clock ==
    \/ \E c \in Controllers : StartTimesOut(c)
    \/ \E m \in Messages : TtlElapses(m)

Fault ==
    \/ \E c \in Controllers :
         \/ Disconnect(c) \/ Crash(c) \/ Stop(c)
         \/ DieBeforePromotion(c) \/ DieBeforeReceipt(c)
         \/ \E m \in Messages : SteerTimesOut(c, m)
         \/ \E i \in Interactions : ExpireInteraction(c, i)
         \/ ctl[c].up = "up" /\ LeaseExpires(c)
    \/ \E k \in calls : ReadFails(k)

Next == Work \/ Clock \/ Fault

Spec == Init /\ [][Next]_vars

\* What the code keeps going: the service loop ticks, and a tick ends with the expiry and
\* the dispatch even when it had to connect first and could not; a driver reads its
\* socket, every request has a timer, and clocks run.
Fairness ==
    /\ \A c \in Controllers :
         /\ WF_vars(TickConnect(c)) /\ SF_vars(Tick(c))
         /\ WF_vars(Handshake(c) \/ HandshakeFails(c))
         /\ WF_vars(\E k \in calls : k.by = c /\ (ServeRead(k) \/ ReadFails(k)))
         /\ WF_vars(Receive(c)) /\ WF_vars(StartTimesOut(c))
         /\ WF_vars(ctl[c].up = "gone" /\ LeaseExpires(c))
    /\ \A m \in Messages : WF_vars(TtlElapses(m))

-----------------------------------------------------------------------------
(* Properties.                                                              *)

\* Every variable has the shape the code gives it.
ExternalTypeOK ==
    /\ lease \in [holder : Controllers \cup {NoController}, live : BOOLEAN]
    /\ ready \in BOOLEAN
    /\ turn \in [Messages -> [phase : {"none"} \cup Live \cup Terminal, bound : BOOLEAN]]
    /\ queuedAt \in [Messages -> Nat]
    /\ receipt \in [Messages -> [status : {"none", "pending", "accepted", "rejected",
                                           "expired"},
                                 turn : Messages \cup {NoMessage}]]
    /\ events \in [Messages -> SUBSET {"intent", "input"}]
    /\ interaction \in [Interactions ->
            [status : {"none", "pending", "resolved", "expired", "lost"},
             turn : Messages \cup {NoMessage}]]
    /\ elapsed \subseteq Messages
    /\ ctl \in [Controllers -> Controller]
    /\ native \in [Messages -> {"none", "running"} \cup Outcomes]
    /\ starts \in [Messages -> Nat] /\ steered \in [Messages -> Nat]
    /\ request \in [Interactions -> [turn : Messages \cup {NoMessage},
                                     on : Controllers \cup {NoController}]]
    /\ calls \subseteq Call

\* A message reaches the native thread at most once, as a turn or as a steer, whatever
\* crashes, takeovers, timeouts and promotions fall between a call and its answer.
NativeEffectOnce == \A m \in Messages : starts[m] + steered[m] <= 1

\* A delivery meant as a steer that Crew calls accepted is in the native thread.
AcceptedSteerInThread ==
    \A m \in Messages :
        receipt[m].status = "accepted" /\ receipt[m].turn # NoMessage => steered[m] = 1

\* The session never has two turns at a time, so a follow-up never overtakes a turn Crew
\* still counts as running.
OneLiveTurn == \A m, n \in LiveTurns(turn) : m = n

\* What Crew says of a turn is what the app server made of it: a turn whose native id is
\* known was started, and "completed" or "interrupted" is how it ended there.
PhaseIsNativeTruth ==
    \A m \in Messages :
        /\ turn[m].bound => native[m] # "none"
        /\ turn[m].phase \in {"completed", "interrupted"} => native[m] = turn[m].phase

\* A turn that was handed to the app server moves only by a controller that holds the
\* unexpired lease; one that lost it, or was taken over from, changes nothing.
OnlyHolderMovesTurn ==
    [][\A m \in Messages :
          turn[m].phase \in Live \ {"accepted"} /\ turn'[m] # turn[m]
            => \E c \in Controllers :
                 /\ Holds(c)
                 /\ \A d \in Controllers \ {c} :
                      ctl'[d] = ctl[d] /\ wire'[d] = wire[d]]_vars

\* An accepted turn does not wait forever: while a service process runs, it is handed to
\* the app server or fails, even when the runtime stays out of reach.
AcceptedTurnLeaves ==
    \A m \in Messages :
        turn[m].phase = "accepted"
          ~> turn[m].phase # "accepted" \/ \A c \in Controllers : ctl[c].up # "up"

\* docs/adr 0025: "A native start request whose outcome cannot be established becomes
\* `outcome_unknown`", so no turn stays between turn/start and its answer while a service
\* process runs.
StartOutcomeIsSettled ==
    \A m \in Messages :
        turn[m].phase = "starting"
          ~> turn[m].phase # "starting" \/ \A c \in Controllers : ctl[c].up # "up"

=============================================================================
