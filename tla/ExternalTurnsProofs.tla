------------------------ MODULE ExternalTurnsProofs ------------------------
(* Proofs of the safety properties of ExternalTurns, for any number of       *)
(* service processes, messages and interactions and for any number of        *)
(* faults.                                                                   *)
EXTENDS ExternalTurns, TLAPS, WellFoundedInduction

USE Zenon

Phases == {"none"} \cup Live \cup Terminal

Turns == [Messages -> [phase : Phases, bound : BOOLEAN]]

Crews == [turn : Turns, queuedAt : [Messages -> Nat]]

-----------------------------------------------------------------------------
(* What a transition and the promotion it triggers do to the two tables.    *)

\* A queued message has no turn, and one turn is live.
CrewOK(s) ==
    /\ s \in Crews
    /\ \A m \in Messages : s.queuedAt[m] > 0 => s.turn[m].phase = "none"
    /\ \A m, n \in LiveTurns(s.turn) : m = n

\* A turn appears for a queued message only, is not handed over twice, gets the id of a
\* native turn that exists, and ends as the app server says.
CrewStep(s, t) ==
    /\ CrewOK(t)
    /\ \A m \in Messages :
         /\ s.turn[m].phase = "none" /\ s.queuedAt[m] = 0
              => t.turn[m].phase = "none" /\ t.queuedAt[m] = 0
         /\ s.turn[m].phase \notin {"none", "accepted"}
              => t.turn[m].phase \notin {"none", "accepted"}
         /\ t.turn[m].bound => s.turn[m].bound \/ native[m] # "none"
         /\ t.turn[m].phase \in {"completed", "interrupted"}
              => \/ s.turn[m].phase = t.turn[m].phase
                 \/ native[m] = t.turn[m].phase

\* The turns in progress, that is, handed over and not ended, that differ.
Moved(s, t) == {m \in Messages : /\ s.turn[m].phase \in Live \ {"accepted"}
                                 /\ t.turn[m] # s.turn[m]}

\* A set of naturals has a least element.
LEMMA LeastNat ==
    ASSUME NEW T, T \subseteq Nat, T # {}
    PROVE  \E x \in T : \A y \in T : x <= y
<1> DEFINE R == {ss \in Nat \X Nat : ss[1] < ss[2]}
<1>1. IsWellFoundedOn(R, Nat)
  BY NatLessThanWellFounded DEF OpToRel
<1> HIDE DEF R
<1>2. \E x \in T : \A y \in T : ~(<<y, x>> \in R)
  BY <1>1, WFMin
<1>3. \A x, y \in Nat : ~(<<y, x>> \in R) => x <= y
  BY SMT DEF R
<1> QED BY <1>2, <1>3

\* The oldest follow-up exists, so the promotion takes one that waits.
LEMMA OldestWaits ==
    ASSUME NEW q \in [Messages -> Nat], NEW W, W \subseteq Messages, W # {}
    PROVE  (CHOOSE m \in W : \A n \in W : q[m] <= q[n]) \in W
<1> DEFINE T == {q[m] : m \in W}
<1>1. T \subseteq Nat /\ T # {}
  OBVIOUS
<1>2. PICK x \in T : \A y \in T : x <= y
  BY <1>1, LeastNat
<1>3. \E m \in W : \A n \in W : q[m] <= q[n]
  BY <1>2
<1> QED BY <1>3

\* promote_next_external_follow_up touches turns of queued messages only.
LEMMA PromoteStep ==
    ASSUME NEW s, CrewOK(s), NEW r \in BOOLEAN
    PROVE  CrewStep(s, Promote(s, r)) /\ Moved(s, Promote(s, r)) = {}
<1> DEFINE kept == [m \in Messages |-> IF m \in elapsed THEN 0 ELSE s.queuedAt[m]]
           W == {m \in Messages : kept[m] > 0}
           next == CHOOSE m \in W : \A n \in W : kept[m] <= kept[n]
           P == Promote(s, r)
<1>1. s \in Crews /\ s.queuedAt \in [Messages -> Nat] /\ s.turn \in Turns
  BY DEF CrewOK, Crews
<1>2. kept \in [Messages -> Nat] /\ \A m \in Messages : kept[m] \in {0, s.queuedAt[m]}
  BY <1>1
<1>3. CASE W # {} /\ r /\ Idle(s.turn)
  <2>1. next \in W
    <3>1. W \subseteq Messages
      OBVIOUS
    <3> HIDE DEF kept, W
    <3> QED BY <1>2, <1>3, <3>1, OldestWaits
  <2>2. P = [turn |-> [s.turn EXCEPT ![next] = [phase |-> "accepted", bound |-> FALSE]],
             queuedAt |-> [kept EXCEPT ![next] = 0]]
    BY <1>3 DEF Promote
  <2> HIDE DEF next
  <2>3. next \in Messages /\ s.queuedAt[next] > 0 /\ s.turn[next].phase = "none"
    BY <2>1, <1>1, <1>2, SMT DEF CrewOK
  <2> HIDE DEF kept, P
  <2>4. P \in Crews
    BY <1>1, <1>2, <2>2, <2>3 DEF Crews, Turns, Phases, Live
  <2>5. /\ P.turn[next] = [phase |-> "accepted", bound |-> FALSE] /\ P.queuedAt[next] = 0
        /\ \A m \in Messages \ {next} : P.turn[m] = s.turn[m] /\ P.queuedAt[m] = kept[m]
    BY <1>1, <1>2, <2>2, <2>3 DEF Turns
  <2>6. CrewOK(P)
    BY <1>1, <1>2, <1>3, <2>3, <2>4, <2>5, SMT DEF CrewOK, Idle, LiveTurns
  <2>7. CrewStep(s, P)
    BY <1>1, <1>2, <2>3, <2>5, <2>6, SMT DEF CrewStep
  <2>8. Moved(s, P) = {}
    BY <2>3, <2>5 DEF Moved, Live
  <2> QED BY <2>7, <2>8 DEF P
<1>4. CASE ~(W # {} /\ r /\ Idle(s.turn))
  <2>1. P = [turn |-> s.turn, queuedAt |-> kept]
    BY <1>4 DEF Promote
  <2> HIDE DEF kept, P
  <2>2. P \in Crews /\ P.turn = s.turn /\ P.queuedAt = kept
    BY <1>1, <1>2, <2>1 DEF Crews
  <2>3. CrewOK(P)
    BY <1>1, <1>2, <2>2, SMT DEF CrewOK
  <2>4. CrewStep(s, P)
    BY <1>1, <1>2, <2>2, <2>3 DEF CrewStep
  <2>5. Moved(s, P) = {}
    BY <2>2 DEF Moved
  <2> QED BY <2>4, <2>5 DEF P
<1> QED BY <1>3, <1>4

\* A live turn that changes its phase stays the one live turn, or ends.
LEMMA MoveStep ==
    ASSUME NEW s, CrewOK(s), NEW m \in Messages, s.turn[m].phase \in Live,
           NEW q \in {"starting", "active", "waiting_interaction"} \cup Terminal,
           q \in {"completed", "interrupted"} => native[m] = q,
           NEW t, t = [s EXCEPT !.turn[m].phase = q]
    PROVE  CrewStep(s, t) /\ Moved(s, t) \subseteq {m}
<1>1. s \in Crews /\ s.turn \in Turns
  BY DEF CrewOK, Crews
<1>2. /\ t \in Crews /\ t.queuedAt = s.queuedAt
      /\ t.turn[m] = [phase |-> q, bound |-> s.turn[m].bound]
      /\ \A n \in Messages \ {m} : t.turn[n] = s.turn[n]
  BY <1>1 DEF Crews, Turns, Phases, Live, Terminal
<1>3. CrewOK(t)
  BY <1>1, <1>2 DEF CrewOK, LiveTurns, Live
<1>4. CrewStep(s, t)
  BY <1>1, <1>2, <1>3, SMT DEF CrewStep, Live, Terminal
<1> QED BY <1>2, <1>4 DEF Moved

\* Two steps of the tables make one.
LEMMA ComposeSteps ==
    ASSUME NEW s, NEW t, NEW u, CrewStep(s, t), CrewStep(t, u)
    PROVE  CrewStep(s, u) /\ Moved(s, u) \subseteq Moved(s, t) \cup Moved(t, u)
<1>1. CrewStep(s, u)
  BY DEF CrewStep
<1> QED BY <1>1 DEF Moved

\* transition_external_turn_with_error moves its turn and promotes one that waits.
LEMMA TransitionStep ==
    ASSUME NEW s, CrewOK(s), NEW r \in BOOLEAN, NEW m \in Messages, s.turn[m].phase \in Live,
           NEW q \in {"starting", "active", "waiting_interaction"} \cup Terminal,
           q \in {"completed", "interrupted"} => native[m] = q
    PROVE  CrewStep(s, Transition(s, r, m, q)) /\ Moved(s, Transition(s, r, m, q)) \subseteq {m}
<1> DEFINE t == [s EXCEPT !.turn[m].phase = q]
<1>1. CrewStep(s, t) /\ Moved(s, t) \subseteq {m}
  BY MoveStep, SMT
<1>2. CASE q \in Terminal
  <2> CrewOK(t)
    BY <1>1 DEF CrewStep
  <2>1. CrewStep(t, Promote(t, r)) /\ Moved(t, Promote(t, r)) = {}
    BY PromoteStep
  <2>2. Transition(s, r, m, q) = Promote(t, r)
    BY <1>2 DEF Transition
  <2> HIDE DEF t
  <2> QED BY <1>1, <2>1, <2>2, ComposeSteps
<1>3. CASE q \notin Terminal
  BY <1>1, <1>3 DEF Transition
<1> QED BY <1>2, <1>3

\* expire_external_turn_dispatches ends a turn that was not handed over.
LEMMA ExpireStep ==
    ASSUME NEW s, CrewOK(s), ready \in BOOLEAN, elapsed \subseteq Messages
    PROVE  CrewStep(s, Expire(s)) /\ Moved(s, Expire(s)) = {}
<1> DEFINE m == CHOOSE n \in elapsed : s.turn[n].phase = "accepted"
<1>1. CASE \E n \in elapsed : s.turn[n].phase = "accepted"
  <2>1. m \in Messages /\ s.turn[m].phase = "accepted"
    BY <1>1
  <2>2. Expire(s) = Transition(s, ready, m, "failed")
    BY <1>1 DEF Expire
  <2> HIDE DEF m
  <2>3. /\ CrewStep(s, Transition(s, ready, m, "failed"))
        /\ Moved(s, Transition(s, ready, m, "failed")) \subseteq {m}
    BY <2>1, TransitionStep DEF Live, Terminal
  <2> QED BY <2>1, <2>2, <2>3 DEF Moved
<1>2. CASE ~\E n \in elapsed : s.turn[n].phase = "accepted"
  <2>1. Expire(s) = s
    BY <1>2 DEF Expire
  <2> QED BY <2>1 DEF CrewStep, Moved
<1> QED BY <1>1, <1>2

-----------------------------------------------------------------------------
(* The inductive invariant.                                                 *)

Wired ==
    [kind : {"started", "start_error", "steered", "steer_error"}, msg : Messages]
    \cup [kind : {"thread"}, msg : Messages \cup {NoMessage}, items : SUBSET Messages,
          native : [Messages -> {"none", "running"} \cup Outcomes]]
    \cup [kind : {"turn"}, msg : Messages, status : Outcomes]
    \cup [kind : {"request"}, msg : Messages, id : Interactions]

\* What is on its way to a controller is, and stays, true of the thread.
WireTrue(e) ==
    /\ e.kind = "thread" => /\ e.items \subseteq {m \in Messages : steered[m] = 1}
                           /\ \A m \in Messages : e.native[m] \in Outcomes
                                                  => native[m] = e.native[m]
    /\ e.kind = "turn" => native[e.msg] = e.status
    /\ e.kind = "started" => native[e.msg] # "none"
    /\ e.kind = "steered" => steered[e.msg] = 1

WireOK ==
    /\ wire \in [Controllers -> Seq(Wired)]
    /\ \A c \in Controllers : \A i \in 1..Len(wire[c]) : WireTrue(wire[c][i])

\* At most one start and one steer are outstanding for a message, and nothing has come
\* of them yet.
CallsOK ==
    /\ \A k \in calls :
         /\ k.kind = "start" => /\ k.msg \in Messages /\ starts[k.msg] = 0
                               /\ turn[k.msg].phase \notin {"none", "accepted"}
         /\ k.kind = "steer" => /\ k.msg \in Messages /\ steered[k.msg] = 0
                               /\ "intent" \in events[k.msg]
    /\ \A k, l \in calls : k.kind = l.kind /\ k.msg = l.msg /\ k.kind # "read" => k = l

\* What the app server did was asked for, and is on record as asked for.
EffectsOK ==
    \A m \in Messages :
        /\ starts[m] \in {0, 1} /\ steered[m] \in {0, 1}
        /\ starts[m] = 1 => turn[m].phase \notin {"none", "accepted"}
        /\ native[m] # "none" => starts[m] = 1
        /\ steered[m] = 1 => "intent" \in events[m]

\* A message is a turn, a follow-up or a steer.
ReceiptsOK ==
    \A m \in Messages :
        /\ receipt[m].status = "none"
             => turn[m].phase = "none" /\ queuedAt[m] = 0 /\ receipt[m].turn = NoMessage
        /\ receipt[m].status = "pending" => receipt[m].turn # NoMessage
        /\ receipt[m].turn # NoMessage => turn[m].phase = "none" /\ queuedAt[m] = 0
        /\ events[m] # {} => receipt[m].turn # NoMessage
        /\ "input" \in events[m] => steered[m] = 1
        /\ receipt[m].status = "accepted" /\ receipt[m].turn # NoMessage => steered[m] = 1

InteractionsOK ==
    \A i \in Interactions : interaction[i].status = "pending" => interaction[i].turn \in Messages

IInv ==
    /\ ExternalTypeOK /\ WireOK /\ CrewOK(Crew) /\ CallsOK /\ EffectsOK /\ ReceiptsOK
    /\ InteractionsOK /\ PhaseIsNativeTruth

-----------------------------------------------------------------------------
(* Steps that leave the thread alone.                                       *)

\* A start is added for a turn just handed over, a steer with its intent on record.
CallsStep ==
    /\ calls' \subseteq Call
    /\ \A k \in calls' :
         \/ k.kind = "read"
         \/ \E l \in calls : l.kind = k.kind /\ l.msg = k.msg
         \/ /\ k.kind = "start" /\ k.msg \in Messages /\ starts[k.msg] = 0
            /\ turn'[k.msg].phase \notin {"none", "accepted"}
         \/ /\ k.kind = "steer" /\ k.msg \in Messages /\ steered[k.msg] = 0
            /\ "intent" \in events'[k.msg]
    /\ \A k, l \in calls' : k.kind = l.kind /\ k.msg = l.msg /\ k.kind # "read" => k = l

\* Nothing new is on its way.
WireStep ==
    /\ wire' \in [Controllers -> Seq(Wired)]
    /\ \A c \in Controllers : \A i \in 1..Len(wire'[c]) :
         \E j \in 1..Len(wire[c]) : wire'[c][i] = wire[c][j]

\* Deliveries are settled, as accepted only if the thread has the message.
ReceiptStep ==
    \A m \in Messages :
        \/ receipt'[m] = receipt[m]
        \/ /\ receipt[m].status = "pending" /\ receipt'[m].turn = receipt[m].turn
           /\ receipt'[m].status \in {"accepted", "rejected", "expired"}
           /\ receipt'[m].status = "accepted" => steered[m] = 1

EventStep ==
    \A m \in Messages : /\ events[m] \subseteq events'[m]
                        /\ \/ events'[m] = events[m]
                           \/ steered[m] = 1
                           \/ receipt[m].turn # NoMessage /\ "input" \notin events'[m]

LEMMA Kept ==
    ASSUME IInv, ExternalTypeOK', InteractionsOK', UNCHANGED thread, CrewStep(Crew, Crew'),
           CallsStep, WireStep, ReceiptStep, EventStep
    PROVE  IInv'
<1> USE DEF thread
<1>1. CrewOK(Crew')
  BY DEF CrewStep
<1>2. /\ Crew.turn = turn /\ Crew.queuedAt = queuedAt
      /\ Crew'.turn = turn' /\ Crew'.queuedAt = queuedAt'
  BY DEF Crew
<1>3. \A m \in Messages :
         /\ turn[m].phase = "none" /\ queuedAt[m] = 0
              => turn'[m].phase = "none" /\ queuedAt'[m] = 0
         /\ turn[m].phase \notin {"none", "accepted"}
              => turn'[m].phase \notin {"none", "accepted"}
         /\ turn'[m].bound => turn[m].bound \/ native[m] # "none"
         /\ turn'[m].phase \in {"completed", "interrupted"}
              => turn[m].phase = turn'[m].phase \/ native[m] = turn'[m].phase
  BY <1>2 DEF CrewStep
<1>4. WireOK'
  <2>1. \A e : WireTrue(e) => WireTrue(e)'
    BY DEF WireTrue
  <2> QED BY <2>1 DEF IInv, WireOK, WireStep
<1>5. CallsOK'
  BY <1>3, SMT DEF IInv, CallsOK, CallsStep, EventStep
<1>6. EffectsOK'
  BY <1>3 DEF IInv, EffectsOK, EventStep
<1>7. ReceiptsOK'
  BY <1>3, SMT DEF IInv, ReceiptsOK, EffectsOK, ReceiptStep, EventStep
<1>8. PhaseIsNativeTruth'
  BY <1>3 DEF IInv, PhaseIsNativeTruth
<1> QED BY <1>1, <1>4, <1>5, <1>6, <1>7, <1>8 DEF IInv

\* The fields of a message by its kind.
LEMMA WiredFields ==
    ASSUME NEW e \in Wired
    PROVE  /\ e.kind # "thread" => e.msg \in Messages
           /\ e.kind = "thread" => e.items \subseteq Messages
           /\ e.kind = "turn" => e.status \in Outcomes
           /\ e.kind = "request" => e.id \in Interactions
  BY DEF Wired

LEMMA HeadTrue ==
    ASSUME IInv, NEW c \in Controllers, wire[c] # << >>
    PROVE  Head(wire[c]) \in Wired /\ WireTrue(Head(wire[c]))
<1>1. wire[c] \in Seq(Wired)
  BY DEF IInv, WireOK
<1>2. 1 \in 1..Len(wire[c]) /\ Head(wire[c]) = wire[c][1] /\ wire[c][1] \in Wired
  BY <1>1, SMT
<1> QED BY <1>2 DEF IInv, WireOK

LEMMA ConsumeStep ==
    ASSUME IInv, NEW c \in Controllers, wire[c] # << >>, Consume(c)
    PROVE  WireStep
<1>1. wire \in [Controllers -> Seq(Wired)] /\ wire[c] \in Seq(Wired)
  BY DEF IInv, WireOK
<1>2. /\ Tail(wire[c]) \in Seq(Wired) /\ Len(Tail(wire[c])) = Len(wire[c]) - 1
      /\ \A i \in 1..Len(Tail(wire[c])) : Tail(wire[c])[i] = wire[c][i + 1]
  BY <1>1, SMT
<1>3. wire' = [wire EXCEPT ![c] = Tail(wire[c])]
  BY DEF Consume
<1>4. wire' \in [Controllers -> Seq(Wired)]
  BY <1>1, <1>2, <1>3
<1>5. ASSUME NEW d \in Controllers, NEW i \in 1..Len(wire'[d])
      PROVE  \E j \in 1..Len(wire[d]) : wire'[d][i] = wire[d][j]
  <2>1. CASE d = c
    <3>1. wire'[d] = Tail(wire[c])
      BY <1>1, <1>3, <2>1
    <3>2. i \in Nat /\ i + 1 \in 1..Len(wire[c]) /\ wire'[d][i] = wire[c][i + 1]
      BY <1>1, <1>2, <1>5, <3>1, SMT
    <3> QED BY <3>2, <2>1
  <2>2. CASE d # c
    BY <1>1, <1>3, <1>5, <2>2
  <2> QED BY <2>1, <2>2
<1> QED BY <1>4, <1>5 DEF WireStep

LEMMA SameWire ==
    ASSUME IInv, UNCHANGED wire
    PROVE  WireStep
  BY DEF IInv, WireOK, WireStep

LEMMA SameCalls ==
    ASSUME IInv, calls' \subseteq calls \cup [kind : {"read"}, msg : Messages \cup {NoMessage},
                                            by : Controllers \cup {NoController}]
    PROVE  CallsStep
<1>1. calls \subseteq Call
  BY DEF IInv, ExternalTypeOK
<1>2. calls' \subseteq Call
  BY <1>1 DEF Call
<1> QED BY <1>1, <1>2 DEF IInv, CallsOK, CallsStep, Call

LEMMA ReadIsRead ==
    ASSUME NEW c \in Controllers, NEW m \in Messages \cup {NoMessage}
    PROVE  Read(c, m) \in [kind : {"read"}, msg : Messages \cup {NoMessage},
                          by : Controllers \cup {NoController}]
  BY DEF Read

\* A lost connection loses what is on its way, and its calls their caller.
LEMMA UnpluggedStep ==
    ASSUME IInv, NEW c \in Controllers, Unplugged(c)
    PROVE  /\ CallsStep /\ WireStep
           /\ request' \in [Interactions -> [turn : Messages \cup {NoMessage},
                                            on : Controllers \cup {NoController}]]
           /\ \A d \in Controllers \ {c} : wire'[d] = wire[d]
<1> DEFINE U(k) == IF k.by = c THEN [k EXCEPT !.by = NoController] ELSE k
<1>1. calls \subseteq Call /\ wire \in [Controllers -> Seq(Wired)]
  BY DEF IInv, ExternalTypeOK, WireOK
<1>2. \A k \in Call : U(k) \in Call /\ U(k).kind = k.kind /\ U(k).msg = k.msg
  BY DEF Call
<1>3. calls' = {U(k) : k \in calls}
  BY DEF Unplugged
<1> HIDE DEF U
<1>4. CallsStep
  BY <1>1, <1>2, <1>3, SMT DEF IInv, CallsOK, CallsStep
<1>5. wire' = [wire EXCEPT ![c] = << >>]
  BY DEF Unplugged
<1>6. WireStep
  <2>1. wire' \in [Controllers -> Seq(Wired)]
    BY <1>1, <1>5, SMT
  <2> QED BY <1>1, <1>5, <2>1, SMT DEF WireStep
<1> DEFINE Req == [turn : Messages \cup {NoMessage}, on : Controllers \cup {NoController}]
           V(r) == IF r.on = c THEN [r EXCEPT !.on = NoController] ELSE r
<1>7. request' \in [Interactions -> Req]
  <2>1. \A r \in Req : V(r) \in Req
    OBVIOUS
  <2>2. request' = [i \in Interactions |-> V(request[i])]
    BY DEF Unplugged
  <2>3. request \in [Interactions -> Req]
    BY DEF IInv, ExternalTypeOK
  <2> HIDE DEF V, Req
  <2> QED BY <2>1, <2>2, <2>3
<1> QED BY <1>1, <1>4, <1>5, <1>6, <1>7

LEMMA SameCrew ==
    ASSUME IInv, UNCHANGED <<turn, queuedAt>>
    PROVE  CrewStep(Crew, Crew') /\ Moved(Crew, Crew') = {}
<1>1. Crew' = Crew
  BY DEF Crew
<1>2. CrewOK(Crew)
  BY DEF IInv
<1> QED BY <1>1, <1>2 DEF CrewStep, Moved

LEMMA CrewIsSet ==
    ASSUME NEW s, s \in Crews, SetCrew(s)
    PROVE  Crew' = s
  BY DEF Crews, SetCrew, Crew

LEMMA CtlSet ==
    ASSUME IInv, NEW c \in Controllers, NEW r \in Controller, ctl' = [ctl EXCEPT ![c] = r]
    PROVE  /\ ctl' \in [Controllers -> Controller]
           /\ \A d \in Controllers \ {c} : ctl'[d] = ctl[d]
  BY DEF IInv, ExternalTypeOK

-----------------------------------------------------------------------------
(* The steps, one by one: each keeps the invariant, and moves a turn that    *)
(* was handed over only under the lease.                                    *)

HolderStep ==
    \A m \in Messages :
        turn[m].phase \in Live \ {"accepted"} /\ turn'[m] # turn[m]
          => \E c \in Controllers :
               /\ Holds(c)
               /\ \A d \in Controllers \ {c} : ctl'[d] = ctl[d] /\ wire'[d] = wire[d]

Leases == [holder : Controllers \cup {NoController}, live : BOOLEAN]

Requests == [turn : Messages \cup {NoMessage}, on : Controllers \cup {NoController}]

Reads == [kind : {"read"}, msg : Messages \cup {NoMessage}, by : Controllers \cup {NoController}]

LEMMA StillStep ==
    ASSUME Moved(Crew, Crew') = {}
    PROVE  HolderStep
  BY DEF Moved, HolderStep, Crew

LEMMA HeldStep ==
    ASSUME NEW c \in Controllers, Holds(c),
           \A d \in Controllers \ {c} : ctl'[d] = ctl[d] /\ wire'[d] = wire[d]
    PROVE  HolderStep
  BY DEF HolderStep

LEMMA LeaseTypes ==
    ASSUME IInv, NEW c \in Controllers
    PROVE  Acquired(c) \in Leases /\ [lease EXCEPT !.live = FALSE] \in Leases /\ lease \in Leases
  BY DEF IInv, ExternalTypeOK, Acquired, Leases

\* Steps that touch nothing but the lease, the clocks, the controllers and reads.
LEMMA QuietStep ==
    ASSUME IInv, UNCHANGED <<turn, queuedAt, receipt, events, interaction, thread, wire>>,
           calls' \subseteq calls \cup Reads, lease' \in Leases, ready' \in BOOLEAN,
           elapsed' \subseteq Messages, ctl' \in [Controllers -> Controller],
           request' \in [Interactions -> Requests]
    PROVE  IInv' /\ HolderStep
<1>1. CallsStep
  BY SameCalls DEF Reads
<1>2. CrewStep(Crew, Crew') /\ Moved(Crew, Crew') = {}
  BY SameCrew
<1>3. ExternalTypeOK'
  BY <1>1 DEF IInv, ExternalTypeOK, thread, CallsStep, Leases, Requests
<1>4. WireStep
  BY SameWire
<1>5. ReceiptStep /\ EventStep
  BY DEF ReceiptStep, EventStep
<1>6. InteractionsOK'
  BY DEF IInv, InteractionsOK
<1>7. UNCHANGED thread
  OBVIOUS
<1> QED BY <1>1, <1>2, <1>3, <1>4, <1>5, <1>6, <1>7, Kept, StillStep

LEMMA ConnectNewStep ==
    ASSUME IInv, NEW c \in Controllers, ConnectNew(c)
    PROVE  IInv' /\ HolderStep
<1>1. PICK r : r = ctl[c]
  OBVIOUS
<1>2. r \in Controller
  BY <1>1 DEF IInv, ExternalTypeOK
<1>3. [r EXCEPT !.conn = "handshake", !.driver = "connecting"] \in Controller
  BY <1>2 DEF Controller
<1>4. ctl' = [ctl EXCEPT ![c] = [r EXCEPT !.conn = "handshake", !.driver = "connecting"]]
  BY <1>1 DEF ConnectNew
<1>5. ctl' \in [Controllers -> Controller]
  BY <1>3, <1>4, CtlSet
<1> QED BY <1>5, LeaseTypes, QuietStep
        DEF ConnectNew, IInv, ExternalTypeOK, thread, server, Requests

LEMMA TickConnectStep ==
    ASSUME IInv, NEW c \in Controllers, TickConnect(c)
    PROVE  IInv' /\ HolderStep
<1>1. CASE ConnectNew(c)
  BY <1>1, ConnectNewStep
<1>2. CASE ~ConnectNew(c)
  <2>1. PICK r : r = ctl[c]
    OBVIOUS
  <2>2. r \in Controller /\ Bound \subseteq Messages
    BY <2>1 DEF IInv, ExternalTypeOK, Bound, LiveTurns
  <2>3. [r EXCEPT !.conn = "restore", !.cand = Bound] \in Controller
    BY <2>2 DEF Controller
  <2>4. ctl' = [ctl EXCEPT ![c] = [r EXCEPT !.conn = "restore", !.cand = Bound]]
    BY <1>2, <2>1 DEF TickConnect
  <2>5. ctl' \in [Controllers -> Controller]
    BY <2>3, <2>4, CtlSet
  <2>6. calls' \subseteq calls \cup Reads
    BY <1>2, ReadIsRead, SMT DEF TickConnect, Send, Reads
  <2>7. lease' \in Leases
    BY <1>2, LeaseTypes DEF TickConnect
  <2>8. /\ UNCHANGED <<turn, queuedAt, receipt, events, interaction, thread, wire>>
        /\ ready' \in BOOLEAN /\ elapsed' \subseteq Messages
        /\ request' \in [Interactions -> Requests]
    BY <1>2 DEF TickConnect, IInv, ExternalTypeOK, Requests
  <2> QED BY <2>5, <2>6, <2>7, <2>8, QuietStep
<1> QED BY <1>1, <1>2

LEMMA HandshakeStep ==
    ASSUME IInv, NEW c \in Controllers, Handshake(c)
    PROVE  IInv' /\ HolderStep
<1>1. PICK r : r = ctl[c]
  OBVIOUS
<1>2. r \in Controller /\ Bound \subseteq Messages
  BY <1>1 DEF IInv, ExternalTypeOK, Bound, LiveTurns
<1>3. [r EXCEPT !.conn = "resume", !.driver = "ready", !.cand = Bound] \in Controller
  BY <1>2 DEF Controller
<1>4. ctl' = [ctl EXCEPT ![c] = [r EXCEPT !.conn = "resume", !.driver = "ready",
                                         !.cand = Bound]]
  BY <1>1 DEF Handshake
<1>5. ctl' \in [Controllers -> Controller]
  BY <1>3, <1>4, CtlSet
<1>6. calls' \subseteq calls \cup Reads
  BY ReadIsRead, SMT DEF Handshake, Send, Reads
<1>7. /\ UNCHANGED <<turn, queuedAt, receipt, events, interaction, thread, wire>>
      /\ lease' \in Leases /\ ready' \in BOOLEAN /\ elapsed' \subseteq Messages
      /\ request' \in [Interactions -> Requests]
  BY DEF Handshake, IInv, ExternalTypeOK, Requests, Leases
<1> QED BY <1>5, <1>6, <1>7, QuietStep

LEMMA HandshakeFailsStep ==
    ASSUME IInv, NEW c \in Controllers, HandshakeFails(c)
    PROVE  IInv' /\ HolderStep
<1>1. PICK r : r = ctl[c]
  OBVIOUS
<1>2. r \in Controller
  BY <1>1 DEF IInv, ExternalTypeOK
<1>3. [r EXCEPT !.conn = "idle", !.driver = "disconnected"] \in Controller
  BY <1>2 DEF Controller
<1>4. ctl' = [ctl EXCEPT ![c] = [r EXCEPT !.conn = "idle", !.driver = "disconnected"]]
  BY <1>1 DEF HandshakeFails
<1>5. ctl' \in [Controllers -> Controller]
  BY <1>3, <1>4, CtlSet
<1>6. /\ UNCHANGED <<turn, queuedAt, receipt, events, interaction, thread, wire, calls>>
      /\ lease' \in Leases /\ ready' \in BOOLEAN /\ elapsed' \subseteq Messages
      /\ request' \in [Interactions -> Requests]
  BY DEF HandshakeFails, IInv, ExternalTypeOK, Requests, Leases, server, thread
<1> QED BY <1>5, <1>6, QuietStep

\* A timer removes the waiting steer; a failed read, the waiting read.
LEMMA SteerForgotten ==
    ASSUME IInv, NEW c \in Controllers, NEW x, ctl' = [ctl EXCEPT ![c].steer = @ \ {x}]
    PROVE  /\ ctl' \in [Controllers -> Controller]
           /\ \A d \in Controllers \ {c} : ctl'[d] = ctl[d]
<1>1. PICK r : r = ctl[c]
  OBVIOUS
<1>2. r \in Controller
  BY <1>1 DEF IInv, ExternalTypeOK
<1>3. [r EXCEPT !.steer = r.steer \ {x}] \in Controller
  BY <1>2 DEF Controller
<1>4. ctl' = [ctl EXCEPT ![c] = [r EXCEPT !.steer = r.steer \ {x}]]
  BY <1>1 DEF IInv, ExternalTypeOK
<1> QED BY <1>3, <1>4, CtlSet

LEMMA SteerTimesOutStep ==
    ASSUME IInv, NEW c \in Controllers, NEW m \in Messages, SteerTimesOut(c, m)
    PROVE  IInv' /\ HolderStep
<1>1. ctl' \in [Controllers -> Controller]
  BY SteerForgotten DEF SteerTimesOut
<1>2. /\ UNCHANGED <<turn, queuedAt, receipt, events, interaction, thread, wire, calls>>
      /\ lease' \in Leases /\ ready' \in BOOLEAN /\ elapsed' \subseteq Messages
      /\ request' \in [Interactions -> Requests]
  BY DEF SteerTimesOut, IInv, ExternalTypeOK, Requests, Leases, store, server, thread
<1> QED BY <1>1, <1>2, QuietStep

LEMMA LeaseExpiresStep ==
    ASSUME IInv, NEW c \in Controllers, LeaseExpires(c)
    PROVE  IInv' /\ HolderStep
<1>1. /\ UNCHANGED <<turn, queuedAt, receipt, events, interaction, thread, wire, calls>>
      /\ ready' \in BOOLEAN /\ elapsed' \subseteq Messages
      /\ request' \in [Interactions -> Requests] /\ ctl' \in [Controllers -> Controller]
  BY DEF LeaseExpires, IInv, ExternalTypeOK, Requests, server, thread
<1>2. lease' \in Leases
  BY LeaseTypes DEF LeaseExpires
<1> QED BY <1>1, <1>2, QuietStep

LEMMA TtlElapsesStep ==
    ASSUME IInv, NEW m \in Messages, TtlElapses(m)
    PROVE  IInv' /\ HolderStep
<1>1. /\ UNCHANGED <<turn, queuedAt, receipt, events, interaction, thread, wire, calls>>
      /\ ready' \in BOOLEAN /\ elapsed' \subseteq Messages /\ lease' \in Leases
      /\ request' \in [Interactions -> Requests] /\ ctl' \in [Controllers -> Controller]
  BY DEF TtlElapses, IInv, ExternalTypeOK, Requests, Leases, server, thread
<1> QED BY <1>1, QuietStep

LEMMA ResumedTypes ==
    ASSUME IInv, NEW c \in Controllers, Resumed(c)
    PROVE  /\ ctl' \in [Controllers -> Controller] /\ ready' \in BOOLEAN
           /\ \A d \in Controllers \ {c} : ctl'[d] = ctl[d]
<1>1. PICK r : r = ctl[c]
  OBVIOUS
<1>2. r \in Controller
  BY <1>1 DEF IInv, ExternalTypeOK
<1>3. [r EXCEPT !.conn = "idle", !.cand = {}] \in Controller
  BY <1>2 DEF Controller
<1>4. ctl' = [ctl EXCEPT ![c] = [r EXCEPT !.conn = "idle", !.cand = {}]]
  BY <1>1 DEF Resumed
<1> QED BY <1>3, <1>4, CtlSet DEF Resumed

LEMMA ReadFailsStep ==
    ASSUME IInv, NEW k \in calls, ReadFails(k)
    PROVE  IInv' /\ HolderStep
<1>1. k.by \in Controllers
  BY DEF ReadFails
<1>2. ctl' \in [Controllers -> Controller] /\ ready' \in BOOLEAN
  <2>1. CASE k.msg = NoMessage
    BY <1>1, <2>1, ResumedTypes DEF ReadFails
  <2>2. CASE k.msg # NoMessage
    <3>1. ctl' = [ctl EXCEPT ![k.by].steer = @ \ {<<"read", k.msg>>}]
      BY <2>2 DEF ReadFails
    <3> QED BY <1>1, <2>2, <3>1, SteerForgotten DEF ReadFails, IInv, ExternalTypeOK
  <2> QED BY <2>1, <2>2
<1>3. /\ UNCHANGED <<turn, queuedAt, receipt, events, interaction, thread, wire>>
      /\ calls' \subseteq calls \cup Reads
      /\ lease' \in Leases /\ elapsed' \subseteq Messages
      /\ request' \in [Interactions -> Requests]
  BY DEF ReadFails, IInv, ExternalTypeOK, Requests, Leases
<1> QED BY <1>2, <1>3, QuietStep

Interacts == [status : {"none", "pending", "resolved", "expired", "lost"},
              turn : Messages \cup {NoMessage}]

\* Steps that move turns and leave the deliveries alone.
LEMMA TurnStep ==
    ASSUME IInv, CrewStep(Crew, Crew'), CallsStep, WireStep,
           UNCHANGED <<receipt, events, thread>>,
           lease' \in Leases, ready' \in BOOLEAN, elapsed' \subseteq Messages,
           ctl' \in [Controllers -> Controller], request' \in [Interactions -> Requests],
           interaction' \in [Interactions -> Interacts], InteractionsOK'
    PROVE  IInv'
<1>1. turn' \in Turns /\ queuedAt' \in [Messages -> Nat]
  BY DEF CrewStep, CrewOK, Crews, Crew
<1>2. ExternalTypeOK'
  BY <1>1 DEF IInv, ExternalTypeOK, thread, CallsStep, Leases, Requests, Interacts, Turns,
              Phases
<1>3. ReceiptStep /\ EventStep
  BY DEF ReceiptStep, EventStep
<1>4. UNCHANGED thread
  OBVIOUS
<1> QED BY <1>2, <1>3, <1>4, Kept

LEMMA PermittedIsLive ==
    ASSUME NEW t \in Turns, NEW m \in Messages, NEW q, q # "none", Permitted(t, m, q)
    PROVE  t[m].phase \in Live
  BY DEF Turns, Phases, Permitted, CanTransitionTo, Live, Terminal

\* A permitted transition of the tables is a step of them.
LEMMA SetTransition ==
    ASSUME IInv, NEW r \in BOOLEAN, NEW m \in Messages,
           NEW q \in {"starting", "active", "waiting_interaction"} \cup Terminal,
           turn[m].phase \in Live, q \in {"completed", "interrupted"} => native[m] = q,
           SetCrew(Transition(Crew, r, m, q))
    PROVE  CrewStep(Crew, Crew') /\ Moved(Crew, Crew') \subseteq {m}
<1>1. CrewOK(Crew) /\ Crew.turn[m].phase \in Live
  BY DEF IInv, Crew
<1>2. /\ CrewStep(Crew, Transition(Crew, r, m, q))
      /\ Moved(Crew, Transition(Crew, r, m, q)) \subseteq {m}
  BY <1>1, TransitionStep
<1>3. Transition(Crew, r, m, q) \in Crews
  BY <1>2 DEF CrewStep, CrewOK
<1>4. Crew' = Transition(Crew, r, m, q)
  BY <1>3, CrewIsSet
<1> QED BY <1>2, <1>4

LEMMA StartUnknownStep ==
    ASSUME IInv, NEW c \in Controllers, StartUnknown(c)
    PROVE  CrewStep(Crew, Crew') /\ (Holds(c) \/ Moved(Crew, Crew') = {})
<1> DEFINE m == ctl[c].cur
<1>1. CASE m # NoMessage /\ Holds(c) /\ Permitted(turn, m, "outcome_unknown")
  <2>1. m \in Messages /\ turn \in Turns /\ ready \in BOOLEAN
    BY <1>1 DEF IInv, ExternalTypeOK, Controller, Turns, Phases
  <2>2. turn[m].phase \in Live
    BY <1>1, <2>1, PermittedIsLive
  <2>3. SetCrew(Transition(Crew, ready, m, "outcome_unknown"))
    BY <1>1 DEF StartUnknown
  <2> HIDE DEF m
  <2>4. "outcome_unknown" \in Terminal
    BY DEF Terminal
  <2> QED BY <1>1, <2>1, <2>2, <2>3, <2>4, SetTransition
<1>2. CASE ~(m # NoMessage /\ Holds(c) /\ Permitted(turn, m, "outcome_unknown"))
  BY <1>2, SameCrew DEF StartUnknown
<1> QED BY <1>1, <1>2

LEMMA CurForgotten ==
    ASSUME IInv, NEW c \in Controllers, NEW x \in Messages \cup {NoMessage},
           ctl' = [ctl EXCEPT ![c].cur = x]
    PROVE  /\ ctl' \in [Controllers -> Controller]
           /\ \A d \in Controllers \ {c} : ctl'[d] = ctl[d]
<1>1. PICK r : r = ctl[c]
  OBVIOUS
<1>2. r \in Controller
  BY <1>1 DEF IInv, ExternalTypeOK
<1>3. [r EXCEPT !.cur = x] \in Controller
  BY <1>2 DEF Controller
<1>4. ctl' = [ctl EXCEPT ![c] = [r EXCEPT !.cur = x]]
  BY <1>1 DEF IInv, ExternalTypeOK
<1> QED BY <1>3, <1>4, CtlSet

LEMMA StartTimesOutStep ==
    ASSUME IInv, NEW c \in Controllers, StartTimesOut(c)
    PROVE  IInv' /\ HolderStep
<1>1. CrewStep(Crew, Crew') /\ (Holds(c) \/ Moved(Crew, Crew') = {})
  BY StartUnknownStep DEF StartTimesOut
<1>2. /\ ctl' \in [Controllers -> Controller]
      /\ \A d \in Controllers \ {c} : ctl'[d] = ctl[d]
  BY CurForgotten DEF StartTimesOut
<1>3. /\ UNCHANGED <<receipt, events, thread, calls, wire>>
      /\ lease' \in Leases /\ ready' \in BOOLEAN /\ elapsed' \subseteq Messages
      /\ request' \in [Interactions -> Requests] /\ interaction' \in [Interactions -> Interacts]
      /\ InteractionsOK'
  BY DEF StartTimesOut, IInv, ExternalTypeOK, Leases, Requests, Interacts, InteractionsOK,
         server, thread
<1>4. CallsStep /\ WireStep
  BY <1>3, SameCalls, SameWire
<1>5. IInv'
  BY <1>1, <1>2, <1>3, <1>4, TurnStep
<1> QED BY <1>1, <1>2, <1>3, <1>5, StillStep, HeldStep

LEMMA BootStep ==
    ASSUME IInv, NEW c \in Controllers, Boot(c)
    PROVE  IInv' /\ HolderStep
<1>1. CrewStep(Crew, Crew') /\ Moved(Crew, Crew') = {}
  <2>1. CASE UNCHANGED <<turn, queuedAt>>
    BY <2>1, SameCrew
  <2>2. CASE SetCrew(Promote(Crew, ready))
    <3>1. CrewOK(Crew) /\ ready \in BOOLEAN
      BY DEF IInv, ExternalTypeOK
    <3>2. CrewStep(Crew, Promote(Crew, ready)) /\ Moved(Crew, Promote(Crew, ready)) = {}
      BY <3>1, PromoteStep
    <3>3. Promote(Crew, ready) \in Crews
      BY <3>2 DEF CrewStep, CrewOK
    <3>4. Crew' = Promote(Crew, ready)
      BY <2>2, <3>3, CrewIsSet
    <3> QED BY <3>2, <3>4
  <2> QED BY <2>1, <2>2 DEF Boot
<1>2. ctl' \in [Controllers -> Controller]
  <2>1. PICK r : r = ctl[c]
    OBVIOUS
  <2>2. r \in Controller
    BY <2>1 DEF IInv, ExternalTypeOK
  <2>3. [r EXCEPT !.up = "up"] \in Controller
    BY <2>2 DEF Controller
  <2>4. ctl' = [ctl EXCEPT ![c] = [r EXCEPT !.up = "up"]]
    BY <2>1 DEF Boot
  <2> QED BY <2>3, <2>4, CtlSet
<1>3. /\ UNCHANGED <<receipt, events, thread, calls, wire>>
      /\ lease' \in Leases /\ ready' \in BOOLEAN /\ elapsed' \subseteq Messages
      /\ request' \in [Interactions -> Requests] /\ interaction' \in [Interactions -> Interacts]
      /\ InteractionsOK'
  BY DEF Boot, IInv, ExternalTypeOK, Leases, Requests, Interacts, InteractionsOK, server, thread
<1>4. CallsStep /\ WireStep
  BY <1>3, SameCalls, SameWire
<1>5. IInv'
  BY <1>1, <1>2, <1>3, <1>4, TurnStep
<1> QED BY <1>1, <1>5, StillStep

LEMMA GoneIsFresh ==
    ASSUME IInv, NEW c \in Controllers, ctl' = [ctl EXCEPT ![c] = [Fresh EXCEPT !.up = "gone"]]
    PROVE  /\ ctl' \in [Controllers -> Controller]
           /\ \A d \in Controllers \ {c} : ctl'[d] = ctl[d]
<1>1. [Fresh EXCEPT !.up = "gone"] \in Controller
  BY DEF Fresh, Controller
<1> QED BY <1>1, CtlSet

LEMMA CrashStep ==
    ASSUME IInv, NEW c \in Controllers, Crash(c)
    PROVE  IInv' /\ HolderStep
<1>1. CrewStep(Crew, Crew') /\ Moved(Crew, Crew') = {}
  BY SameCrew DEF Crash, store
<1>2. ctl' \in [Controllers -> Controller]
  BY GoneIsFresh DEF Crash
<1>3. /\ UNCHANGED <<receipt, events, thread>>
      /\ lease' \in Leases /\ ready' \in BOOLEAN /\ elapsed' \subseteq Messages
      /\ interaction' \in [Interactions -> Interacts] /\ InteractionsOK'
  BY DEF Crash, IInv, ExternalTypeOK, Leases, Interacts, InteractionsOK, store
<1>4. CallsStep /\ WireStep /\ request' \in [Interactions -> Requests]
  BY UnpluggedStep DEF Crash, Requests
<1>5. IInv'
  BY <1>1, <1>2, <1>3, <1>4, TurnStep
<1> QED BY <1>1, <1>5, StillStep

LEMMA StopStep ==
    ASSUME IInv, NEW c \in Controllers, Stop(c)
    PROVE  IInv' /\ HolderStep
<1>1. CrewStep(Crew, Crew') /\ (Holds(c) \/ Moved(Crew, Crew') = {})
  BY StartUnknownStep DEF Stop
<1>2. /\ ctl' \in [Controllers -> Controller]
      /\ \A d \in Controllers \ {c} : ctl'[d] = ctl[d]
  BY GoneIsFresh DEF Stop
<1>3. /\ UNCHANGED <<receipt, events, thread>>
      /\ ready' \in BOOLEAN /\ elapsed' \subseteq Messages
      /\ interaction' \in [Interactions -> Interacts] /\ InteractionsOK'
  BY DEF Stop, IInv, ExternalTypeOK, Interacts, InteractionsOK
<1>4. /\ CallsStep /\ WireStep /\ request' \in [Interactions -> Requests]
      /\ \A d \in Controllers \ {c} : wire'[d] = wire[d]
  BY UnpluggedStep DEF Stop, Requests
<1>5. lease' \in Leases
  BY LeaseTypes DEF Stop
<1>6. IInv'
  BY <1>1, <1>2, <1>3, <1>4, <1>5, TurnStep
<1> QED BY <1>1, <1>2, <1>4, <1>6, StillStep, HeldStep

\* A connection is lost, or given up because a handler failed.
LEMMA DropStep ==
    ASSUME IInv, NEW c \in Controllers, NEW state \in {"disconnected", "incompatible"},
           Drop(c, state), Unplugged(c), UNCHANGED thread
    PROVE  IInv' /\ HolderStep
<1> DEFINE m == ctl[c].cur
<1>1. ready' \in BOOLEAN
  BY DEF Drop, IInv, ExternalTypeOK
<1>2. CrewStep(Crew, Crew') /\ (Holds(c) \/ Moved(Crew, Crew') = {})
  <2>1. CASE m # NoMessage /\ Holds(c) /\ Permitted(turn, m, "outcome_unknown")
    <3>1. m \in Messages /\ turn \in Turns
      BY <2>1 DEF IInv, ExternalTypeOK, Controller, Turns, Phases
    <3>2. turn[m].phase \in Live
      BY <2>1, <3>1, PermittedIsLive
    <3>3. SetCrew(Transition(Crew, ready', m, "outcome_unknown"))
      BY <2>1 DEF Drop
    <3> HIDE DEF m
    <3>4. "outcome_unknown" \in Terminal
      BY DEF Terminal
    <3> QED BY <1>1, <2>1, <3>1, <3>2, <3>3, <3>4, SetTransition
  <2>2. CASE ~(m # NoMessage /\ Holds(c) /\ Permitted(turn, m, "outcome_unknown"))
    BY <2>2, SameCrew DEF Drop
  <2> QED BY <2>1, <2>2
<1>3. /\ ctl' \in [Controllers -> Controller]
      /\ \A d \in Controllers \ {c} : ctl'[d] = ctl[d]
  <2>1. PICK r : r = ctl[c]
    OBVIOUS
  <2>2. r \in Controller
    BY <2>1 DEF IInv, ExternalTypeOK
  <2>3. [r EXCEPT !.driver = state, !.conn = "idle", !.cur = NoMessage,
                  !.cand = {}, !.steer = {}, !.pending = {}] \in Controller
    BY <2>2 DEF Controller
  <2>4. ctl' = [ctl EXCEPT ![c] = [r EXCEPT !.driver = state, !.conn = "idle", !.cur = NoMessage,
                                            !.cand = {}, !.steer = {}, !.pending = {}]]
    BY <2>1 DEF Drop
  <2> QED BY <2>3, <2>4, CtlSet
<1>4. interaction' \in [Interactions -> Interacts] /\ InteractionsOK'
  <2> DEFINE lost(i) == i \in ctl[c].pending /\ Holds(c) /\ interaction[i].status = "pending"
             L(r) == [r EXCEPT !.status = "lost"]
  <2>1. \A r \in Interacts : L(r) \in Interacts /\ L(r).status = "lost"
    BY DEF Interacts
  <2>2. interaction' = [i \in Interactions |-> IF lost(i) THEN L(interaction[i])
                                               ELSE interaction[i]]
    BY DEF Drop
  <2>3. interaction \in [Interactions -> Interacts]
    BY DEF IInv, ExternalTypeOK, Interacts
  <2> HIDE DEF lost, L
  <2>4. interaction' \in [Interactions -> Interacts]
    BY <2>1, <2>2, <2>3
  <2>5. \A i \in Interactions : interaction'[i] = interaction[i] \/ interaction'[i].status = "lost"
    BY <2>1, <2>2, <2>3
  <2> QED BY <2>4, <2>5 DEF IInv, InteractionsOK
<1>5. /\ UNCHANGED <<receipt, events>> /\ lease' \in Leases /\ elapsed' \subseteq Messages
  BY DEF Drop, IInv, ExternalTypeOK, Leases
<1>6. /\ CallsStep /\ WireStep /\ request' \in [Interactions -> Requests]
      /\ \A d \in Controllers \ {c} : wire'[d] = wire[d]
  BY UnpluggedStep DEF Requests
<1>7. IInv'
  BY <1>1, <1>2, <1>3, <1>4, <1>5, <1>6, TurnStep
<1> QED BY <1>2, <1>3, <1>6, <1>7, StillStep, HeldStep

\* A call for which there was none of its kind and message.
LEMMA NewCall ==
    ASSUME IInv, NEW kind \in {"start", "steer"}, NEW m \in Messages, NEW c \in Controllers,
           calls' = calls \cup {[kind |-> kind, msg |-> m, by |-> c]},
           \A k \in calls : k.kind = kind => k.msg # m,
           kind = "start" => starts[m] = 0 /\ turn'[m].phase \notin {"none", "accepted"},
           kind = "steer" => steered[m] = 0 /\ "intent" \in events'[m]
    PROVE  CallsStep
<1> DEFINE new == [kind |-> kind, msg |-> m, by |-> c]
<1>1. new \in Call /\ new.kind = kind /\ new.msg = m
  BY DEF Call
<1> HIDE DEF new
<1>2. calls' = calls \cup {new} /\ calls \subseteq Call
  BY DEF new, IInv, ExternalTypeOK
<1> QED BY <1>1, <1>2 DEF IInv, CallsOK, CallsStep

\* A tick hands over a turn for which nothing was started or asked for.
LEMMA TickStep ==
    ASSUME IInv, NEW c \in Controllers, Tick(c)
    PROVE  IInv' /\ HolderStep
<1> DEFINE s == Expire(Crew)
           due == {m \in Messages : ctl[c].driver = "ready" /\ s.turn[m].phase = "accepted"}
<1>1. ready \in BOOLEAN /\ elapsed \subseteq Messages /\ CrewOK(Crew)
  BY DEF IInv, ExternalTypeOK
<1>2. CrewStep(Crew, s) /\ Moved(Crew, s) = {}
  BY <1>1, ExpireStep
<1>3. /\ UNCHANGED <<receipt, events, thread, wire>>
      /\ ready' \in BOOLEAN /\ elapsed' \subseteq Messages
      /\ request' \in [Interactions -> Requests] /\ interaction' \in [Interactions -> Interacts]
      /\ InteractionsOK'
  BY DEF Tick, IInv, ExternalTypeOK, Requests, Interacts, InteractionsOK
<1>4. lease' \in Leases
  BY LeaseTypes DEF Tick
<1>5. WireStep
  BY <1>3, SameWire
<1>6. \/ SetCrew(s) /\ UNCHANGED <<ctl, calls>>
      \/ \E m \in due : SetCrew(Transition(s, ready, m, "failed")) /\ UNCHANGED <<ctl, calls>>
      \/ \E m \in due : /\ SetCrew(Transition(s, ready, m, "starting"))
                        /\ ctl' = [ctl EXCEPT ![c].cur = m]
                        /\ Send([kind |-> "start", msg |-> m, by |-> c])
  BY DEF Tick
<1>7. ASSUME UNCHANGED <<ctl, calls>>
      PROVE  CallsStep /\ ctl' \in [Controllers -> Controller]
  BY <1>7, SameCalls DEF IInv, ExternalTypeOK
<1>8. ASSUME NEW m \in due, NEW q \in {"failed", "starting"}
      PROVE  /\ CrewStep(Crew, Transition(s, ready, m, q))
             /\ Moved(Crew, Transition(s, ready, m, q)) = {}
  <2>1. m \in Messages /\ s.turn[m].phase = "accepted" /\ CrewOK(s)
    BY <1>2, <1>8 DEF CrewStep
  <2> HIDE DEF s
  <2>2. /\ CrewStep(s, Transition(s, ready, m, q))
        /\ Moved(s, Transition(s, ready, m, q)) \subseteq {m}
    BY <1>1, <1>8, <2>1, TransitionStep DEF Live, Terminal
  <2>3. Moved(s, Transition(s, ready, m, q)) = {}
    BY <2>1, <2>2 DEF Moved
  <2> QED BY <1>2, <2>2, <2>3, ComposeSteps
<1> HIDE DEF s
<1>9. CASE SetCrew(s) /\ UNCHANGED <<ctl, calls>>
  <2>1. Crew' = s
    BY <1>2, <1>9, CrewIsSet DEF CrewStep, CrewOK
  <2> QED BY <1>2, <1>3, <1>4, <1>5, <1>7, <1>9, <2>1, TurnStep, StillStep
<1>10. CASE \E m \in due : SetCrew(Transition(s, ready, m, "failed")) /\ UNCHANGED <<ctl, calls>>
  <2>1. PICK m \in due : SetCrew(Transition(s, ready, m, "failed")) /\ UNCHANGED <<ctl, calls>>
    BY <1>10
  <2>2. Transition(s, ready, m, "failed") \in Crews
    BY <1>8 DEF CrewStep, CrewOK
  <2>3. Crew' = Transition(s, ready, m, "failed")
    BY <2>1, <2>2, CrewIsSet
  <2>4. CrewStep(Crew, Crew') /\ Moved(Crew, Crew') = {}
    BY <1>8, <2>3
  <2> QED BY <1>3, <1>4, <1>5, <1>7, <2>1, <2>4, TurnStep, StillStep
<1>11. CASE \E m \in due : /\ SetCrew(Transition(s, ready, m, "starting"))
                           /\ ctl' = [ctl EXCEPT ![c].cur = m]
                           /\ Send([kind |-> "start", msg |-> m, by |-> c])
  <2>1. PICK m \in due : /\ SetCrew(Transition(s, ready, m, "starting"))
                         /\ ctl' = [ctl EXCEPT ![c].cur = m]
                         /\ Send([kind |-> "start", msg |-> m, by |-> c])
    BY <1>11
  <2>2. Transition(s, ready, m, "starting") \in Crews
    BY <1>8 DEF CrewStep, CrewOK
  <2>3. Crew' = Transition(s, ready, m, "starting")
    BY <2>1, <2>2, CrewIsSet
  <2>4. CrewStep(Crew, Crew') /\ Moved(Crew, Crew') = {}
    BY <1>8, <2>3
  <2>5. m \in Messages /\ s \in Crews /\ s.turn[m].phase = "accepted"
    BY <1>2 DEF CrewStep, CrewOK
  <2>6. turn'[m].phase = "starting"
    <3>1. Transition(s, ready, m, "starting") = [s EXCEPT !.turn[m].phase = "starting"]
      BY DEF Transition, Terminal
    <3>2. Crew'.turn[m].phase = "starting"
      BY <2>3, <2>5, <3>1, SMT DEF Crews, Turns
    <3> QED BY <3>2 DEF Crew
  <2>7. turn[m].phase \in {"none", "accepted"}
    BY <1>2, <2>5 DEF CrewStep, Crew
  <2>8. starts[m] = 0 /\ \A k \in calls : k.kind = "start" => k.msg # m
    BY <2>5, <2>7 DEF IInv, EffectsOK, CallsOK
  <2>9. CallsStep
    BY <2>1, <2>5, <2>6, <2>8, NewCall DEF Send
  <2>10. ctl' \in [Controllers -> Controller]
    BY <2>1, <2>5, CurForgotten
  <2> QED BY <1>3, <1>4, <1>5, <2>4, <2>9, <2>10, TurnStep, StillStep
<1> QED BY <1>6, <1>9, <1>10, <1>11

Receipts == [status : {"none", "pending", "accepted", "rejected", "expired"},
             turn : Messages \cup {NoMessage}]

\* A message that is delivered is new: it becomes a turn, a follow-up or a steer.
LEMMA DeliverStep ==
    ASSUME IInv, NEW c \in Controllers, NEW m \in Messages, Deliver(c, m)
    PROVE  IInv' /\ HolderStep
<1> USE DEF Receipts
<1>1. /\ UNCHANGED <<lease, ready, events, interaction, elapsed, ctl, native, starts, steered,
                     request, calls, wire>>
      /\ receipt[m].status = "none"
  BY DEF Deliver, server, thread
<1>2. /\ turn \in Turns /\ queuedAt \in [Messages -> Nat] /\ receipt \in [Messages -> Receipts]
      /\ turn[m].phase = "none" /\ queuedAt[m] = 0 /\ receipt[m].turn = NoMessage
      /\ events[m] = {} /\ native[m] = "none" /\ starts[m] = 0
  BY <1>1 DEF IInv, ExternalTypeOK, Turns, Phases, ReceiptsOK, EffectsOK
<1>3. /\ turn' \in Turns /\ queuedAt' \in [Messages -> Nat]
      /\ receipt' \in [Messages -> Receipts]
      /\ \A n \in Messages \ {m} : /\ turn'[n] = turn[n] /\ queuedAt'[n] = queuedAt[n]
                                  /\ receipt'[n] = receipt[n]
      /\ \/ /\ turn'[m].phase = "none" /\ queuedAt'[m] = 0
            /\ receipt'[m].status = "rejected" /\ receipt'[m].turn = NoMessage
         \/ /\ Idle(turn) /\ turn'[m].phase = "accepted" /\ queuedAt'[m] = 0
            /\ receipt'[m].status = "accepted" /\ receipt'[m].turn = NoMessage
         \/ /\ turn'[m].phase = "none" /\ queuedAt'[m] = 0
            /\ receipt'[m].status = "pending" /\ receipt'[m].turn # NoMessage
         \/ /\ turn'[m].phase = "none"
            /\ receipt'[m].status = "accepted" /\ receipt'[m].turn = NoMessage
      /\ turn'[m].bound = turn[m].bound \/ ~turn'[m].bound
  <2>1. CASE receipt' = [receipt EXCEPT ![m].status = "rejected"] /\ UNCHANGED <<turn, queuedAt>>
    BY <1>2, <2>1
  <2>2. CASE /\ Idle(turn)
             /\ turn' = [turn EXCEPT ![m] = [phase |-> "accepted", bound |-> FALSE]]
             /\ receipt' = [receipt EXCEPT ![m].status = "accepted"]
             /\ UNCHANGED queuedAt
    BY <1>2, <2>2 DEF Turns, Phases, Live
  <2>3. CASE /\ \E n \in Messages :
                  receipt' = [receipt EXCEPT ![m] = [status |-> "pending", turn |-> n]]
             /\ UNCHANGED <<turn, queuedAt>>
    BY <1>2, <2>3, ExternalTurnsAssumption, SMT DEF ExternalTurnsAssumption
  <2>4. CASE /\ \E k \in 1..Cardinality(Messages) : queuedAt' = [queuedAt EXCEPT ![m] = k]
             /\ receipt' = [receipt EXCEPT ![m].status = "accepted"]
             /\ UNCHANGED turn
    BY <1>2, <2>4, SMT
  <2> QED BY <2>1, <2>2, <2>3, <2>4 DEF Deliver
<1>4. ExternalTypeOK'
  BY <1>1, <1>3 DEF IInv, ExternalTypeOK, Turns, Phases
<1>5. CrewOK(Crew')
  <2>1. Crew' \in Crews /\ Crew'.turn = turn' /\ Crew'.queuedAt = queuedAt'
    BY <1>3 DEF Crew, Crews
  <2>2. \A n \in Messages : queuedAt'[n] > 0 => turn'[n].phase = "none"
    BY <1>2, <1>3, SMTT(30) DEF IInv, CrewOK, Crew
  <2>3. \A n, k \in LiveTurns(turn') : n = k
    BY <1>2, <1>3, SMTT(30) DEF IInv, CrewOK, Crew, LiveTurns, Idle, Live
  <2> QED BY <2>1, <2>2, <2>3 DEF CrewOK
<1>6. WireOK'
  BY <1>1 DEF IInv, WireOK, WireTrue
<1>7. CallsOK'
  BY <1>1, <1>2, <1>3, SMTT(30) DEF IInv, CallsOK
<1>8. EffectsOK' /\ PhaseIsNativeTruth'
  BY <1>1, <1>2, <1>3, SMTT(30) DEF IInv, EffectsOK, PhaseIsNativeTruth
<1>9. ReceiptsOK' /\ InteractionsOK'
  BY <1>1, <1>2, <1>3, SMTT(30) DEF IInv, ReceiptsOK, InteractionsOK
<1>10. HolderStep
  BY <1>2, <1>3 DEF HolderStep, Live
<1> QED BY <1>4, <1>5, <1>6, <1>7, <1>8, <1>9, <1>10 DEF IInv

\* Steps that settle deliveries and leave the turns alone.
LEMMA DeliveryStep ==
    ASSUME IInv, CallsStep, WireStep, ReceiptStep, EventStep,
           UNCHANGED <<turn, queuedAt, interaction, thread>>,
           lease' \in Leases, ready' \in BOOLEAN, elapsed' \subseteq Messages,
           ctl' \in [Controllers -> Controller], request' \in [Interactions -> Requests],
           receipt' \in [Messages -> Receipts], events' \in [Messages -> SUBSET {"intent", "input"}]
    PROVE  IInv' /\ HolderStep
<1>1. CrewStep(Crew, Crew') /\ Moved(Crew, Crew') = {}
  BY SameCrew
<1>2. ExternalTypeOK'
  BY DEF IInv, ExternalTypeOK, thread, CallsStep, Leases, Requests, Receipts
<1>3. InteractionsOK'
  BY DEF IInv, InteractionsOK
<1>4. UNCHANGED thread
  OBVIOUS
<1> QED BY <1>1, <1>2, <1>3, <1>4, Kept, StillStep

\* One delivery that is open gets its status.
LEMMA SettleOne ==
    ASSUME IInv, NEW m \in Messages, NEW st \in {"accepted", "rejected", "expired"},
           receipt[m].status = "pending", st = "accepted" => steered[m] = 1,
           receipt' = [receipt EXCEPT ![m].status = st]
    PROVE  ReceiptStep /\ receipt' \in [Messages -> Receipts]
<1>1. receipt \in [Messages -> Receipts]
  BY DEF IInv, ExternalTypeOK, Receipts
<1>2. /\ receipt' \in [Messages -> Receipts]
      /\ receipt'[m].status = st /\ receipt'[m].turn = receipt[m].turn
      /\ \A n \in Messages \ {m} : receipt'[n] = receipt[n]
  BY <1>1 DEF Receipts
<1> QED BY <1>2 DEF ReceiptStep

\* A controller waits for one more answer about a steer.
LEMMA SteerAdded ==
    ASSUME IInv, NEW c \in Controllers, NEW w \in {"sent", "read"}, NEW m \in Messages,
           ctl' = [ctl EXCEPT ![c].steer = @ \cup {<<w, m>>}]
    PROVE  ctl' \in [Controllers -> Controller]
<1>1. PICK r : r = ctl[c]
  OBVIOUS
<1>2. r \in Controller
  BY <1>1 DEF IInv, ExternalTypeOK
<1>3. [r EXCEPT !.steer = r.steer \cup {<<w, m>>}] \in Controller
  BY <1>2, SMT DEF Controller
<1>4. ctl' = [ctl EXCEPT ![c] = [r EXCEPT !.steer = r.steer \cup {<<w, m>>}]]
  BY <1>1 DEF IInv, ExternalTypeOK
<1> QED BY <1>3, <1>4, CtlSet

\* A steer is sent with its intent recorded and none before it.
LEMMA ApplySteerStep ==
    ASSUME IInv, NEW c \in Controllers, NEW m \in Messages, ApplySteer(c, m)
    PROVE  IInv' /\ HolderStep
<1>1. /\ UNCHANGED <<turn, queuedAt, interaction, thread, wire>>
      /\ ready' \in BOOLEAN /\ elapsed' \subseteq Messages
      /\ request' \in [Interactions -> Requests]
  BY DEF ApplySteer, IInv, ExternalTypeOK, Requests
<1>2. receipt[m].status = "pending" /\ receipt[m].turn # NoMessage
  BY DEF ApplySteer, IInv, ReceiptsOK
<1>3. lease' \in Leases
  BY LeaseTypes DEF ApplySteer
<1>4. WireStep
  BY <1>1, SameWire
<1>5. /\ receipt \in [Messages -> Receipts] /\ ctl \in [Controllers -> Controller]
      /\ events \in [Messages -> SUBSET {"intent", "input"}]
  BY DEF IInv, ExternalTypeOK, Receipts
<1>6. ASSUME UNCHANGED events PROVE EventStep /\ events' \in [Messages -> SUBSET {"intent", "input"}]
  BY <1>5, <1>6 DEF EventStep
<1>7. ASSUME UNCHANGED receipt PROVE ReceiptStep /\ receipt' \in [Messages -> Receipts]
  BY <1>5, <1>7 DEF ReceiptStep
<1>8. ASSUME UNCHANGED calls PROVE CallsStep
  BY <1>8, SameCalls
<1>9. CASE /\ receipt' = [receipt EXCEPT ![m].status = IF m \in elapsed THEN "expired"
                                                       ELSE "rejected"]
           /\ UNCHANGED <<events, ctl, calls>>
  <2>1. ReceiptStep /\ receipt' \in [Messages -> Receipts]
    BY <1>2, <1>9, SettleOne
  <2> QED BY <1>1, <1>3, <1>4, <1>5, <1>6, <1>8, <1>9, <2>1, DeliveryStep
<1>10. CASE /\ "input" \in events[m]
            /\ receipt' = [receipt EXCEPT ![m].status = "accepted"]
            /\ UNCHANGED <<events, ctl, calls>>
  <2>1. steered[m] = 1
    BY <1>10 DEF IInv, ReceiptsOK
  <2>2. ReceiptStep /\ receipt' \in [Messages -> Receipts]
    BY <1>2, <1>10, <2>1, SettleOne
  <2> QED BY <1>1, <1>3, <1>4, <1>5, <1>6, <1>8, <1>10, <2>2, DeliveryStep
<1>11. CASE /\ ctl' = [ctl EXCEPT ![c].steer = @ \cup {<<"read", m>>}]
            /\ Send(Read(c, m))
            /\ UNCHANGED <<receipt, events>>
  <2>1. CallsStep
    BY <1>11, ReadIsRead, SameCalls, SMT DEF Send
  <2>2. ctl' \in [Controllers -> Controller]
    BY <1>11, SteerAdded
  <2> QED BY <1>1, <1>3, <1>4, <1>6, <1>7, <1>11, <2>1, <2>2, DeliveryStep
<1>12. CASE /\ NothingSent(m)
            /\ events' = [events EXCEPT ![m] = @ \cup {"intent"}]
            /\ ctl' = [ctl EXCEPT ![c].steer = @ \cup {<<"sent", m>>}]
            /\ Send([kind |-> "steer", msg |-> m, by |-> c])
            /\ UNCHANGED receipt
  <2>1. /\ events' \in [Messages -> SUBSET {"intent", "input"}]
        /\ events'[m] = {"intent"} /\ events[m] = {}
        /\ \A n \in Messages \ {m} : events'[n] = events[n]
    BY <1>5, <1>12 DEF NothingSent
  <2>2. EventStep
    BY <1>2, <2>1 DEF EventStep
  <2>3. steered[m] = 0 /\ \A k \in calls : k.kind = "steer" => k.msg # m
    BY <2>1 DEF IInv, EffectsOK, CallsOK
  <2>4. CallsStep
    BY <1>12, <2>1, <2>3, NewCall DEF Send
  <2>5. ctl' \in [Controllers -> Controller]
    BY <1>12, SteerAdded
  <2> QED BY <1>1, <1>3, <1>4, <1>7, <1>12, <2>1, <2>2, <2>4, <2>5, DeliveryStep
<1> QED BY <1>9, <1>10, <1>11, <1>12 DEF ApplySteer

-----------------------------------------------------------------------------
(* What arrives at a controller.                                            *)

\* The receipts and events a step leaves alone.
LEMMA SameDeliveries ==
    ASSUME IInv, UNCHANGED <<receipt, events>>
    PROVE  /\ ReceiptStep /\ EventStep /\ receipt' \in [Messages -> Receipts]
           /\ events' \in [Messages -> SUBSET {"intent", "input"}]
  BY DEF ReceiptStep, EventStep, IInv, ExternalTypeOK, Receipts

\* A controller takes a message off its connection, and moves turns under the lease.
LEMMA ReceiveStep ==
    ASSUME IInv, NEW c \in Controllers, wire[c] # << >>, Consume(c),
           UNCHANGED <<lease, elapsed, thread, calls>>,
           CrewStep(Crew, Crew'), Holds(c) \/ Moved(Crew, Crew') = {},
           ReceiptStep, EventStep, receipt' \in [Messages -> Receipts],
           events' \in [Messages -> SUBSET {"intent", "input"}], ready' \in BOOLEAN,
           ctl' \in [Controllers -> Controller], \A d \in Controllers \ {c} : ctl'[d] = ctl[d],
           request' \in [Interactions -> Requests],
           interaction' \in [Interactions -> Interacts], InteractionsOK'
    PROVE  IInv' /\ HolderStep
<1>1. WireStep /\ CallsStep
  BY ConsumeStep, SameCalls
<1>2. turn' \in Turns /\ queuedAt' \in [Messages -> Nat]
  BY DEF CrewStep, CrewOK, Crews, Crew
<1>3. ExternalTypeOK'
  BY <1>2 DEF IInv, ExternalTypeOK, thread, Requests, Interacts, Turns, Phases, Receipts
<1>4. UNCHANGED thread
  OBVIOUS
<1>5. IInv'
  BY <1>1, <1>3, <1>4, Kept
<1>6. \A d \in Controllers \ {c} : wire'[d] = wire[d]
  BY DEF Consume, IInv, WireOK
<1> QED BY <1>5, <1>6, StillStep, HeldStep

\* What a step that leaves the interactions alone says about them.
LEMMA SameInteractions ==
    ASSUME IInv, UNCHANGED <<interaction, request>>
    PROVE  /\ interaction' \in [Interactions -> Interacts] /\ InteractionsOK'
           /\ request' \in [Interactions -> Requests]
  BY DEF IInv, ExternalTypeOK, Interacts, InteractionsOK, Requests

LEMMA UnexpectedStep ==
    ASSUME IInv, NEW c \in Controllers, wire[c] # << >>, Consume(c), Unexpected(c),
           UNCHANGED <<lease, interaction, elapsed, thread, request, calls>>
    PROVE  IInv' /\ HolderStep
<1>1. CrewStep(Crew, Crew') /\ Moved(Crew, Crew') = {}
  BY SameCrew DEF Unexpected
<1>2. /\ ready' \in BOOLEAN /\ ctl' \in [Controllers -> Controller]
      /\ \A d \in Controllers \ {c} : ctl'[d] = ctl[d]
  BY DEF Unexpected, IInv, ExternalTypeOK
<1>3. UNCHANGED <<receipt, events>>
  BY DEF Unexpected
<1> QED BY <1>1, <1>2, <1>3, SameDeliveries, SameInteractions, ReceiveStep

\* turn/start is answered: the native turn exists.
LEMMA OnStartedStep ==
    ASSUME IInv, NEW c \in Controllers, OnStarted(c)
    PROVE  IInv' /\ HolderStep
<1> DEFINE m == Head(wire[c]).msg
<1>1. /\ wire[c] # << >> /\ Consume(c)
      /\ UNCHANGED <<lease, interaction, elapsed, thread, request, calls>>
  BY DEF OnStarted, Arrives
<1>2. m \in Messages /\ native[m] # "none"
  BY <1>1, HeadTrue, WiredFields DEF OnStarted, Arrives, WireTrue
<1>3. CASE ctl[c].cur = m
  <2>1. /\ ctl' = [ctl EXCEPT ![c].cur = NoMessage]
        /\ UNCHANGED <<ready, queuedAt, receipt, events>>
        /\ turn' = IF Holds(c) /\ Permitted(turn, m, "active")
                   THEN [turn EXCEPT ![m] = [phase |-> "active", bound |-> TRUE]] ELSE turn
    BY <1>3 DEF OnStarted
  <2> HIDE DEF m
  <2>2. CrewStep(Crew, Crew') /\ (Holds(c) \/ Moved(Crew, Crew') = {})
    <3>1. CASE Holds(c) /\ Permitted(turn, m, "active")
      <4>1. /\ turn \in Turns /\ queuedAt \in [Messages -> Nat] /\ CrewOK(Crew)
            /\ Crew.turn = turn /\ Crew.queuedAt = queuedAt
            /\ Crew'.turn = turn' /\ Crew'.queuedAt = queuedAt'
        BY DEF IInv, ExternalTypeOK, Turns, Phases, Crew
      <4>2. turn[m].phase \in Live
        BY <1>2, <3>1, <4>1, PermittedIsLive
      <4>3. /\ turn' \in Turns /\ turn'[m].phase = "active"
            /\ \A n \in Messages \ {m} : turn'[n] = turn[n]
        BY <1>2, <2>1, <3>1, <4>1, SMT DEF Turns, Phases, Live
      <4>4. Crew' \in Crews
        BY <2>1, <4>1, <4>3 DEF Crews, Crew
      <4>5. CrewOK(Crew')
        BY <1>2, <2>1, <4>1, <4>2, <4>3, <4>4, SMT DEF CrewOK, LiveTurns, Live
      <4> QED BY <1>2, <2>1, <3>1, <4>1, <4>2, <4>3, <4>5 DEF CrewStep, Live
    <3>2. CASE ~(Holds(c) /\ Permitted(turn, m, "active"))
      BY <2>1, <3>2, SameCrew
    <3> QED BY <3>1, <3>2
  <2>3. /\ ctl' \in [Controllers -> Controller]
        /\ \A d \in Controllers \ {c} : ctl'[d] = ctl[d]
    BY <2>1, CurForgotten
  <2>4. ready' \in BOOLEAN
    BY <2>1 DEF IInv, ExternalTypeOK
  <2> QED BY <1>1, <2>1, <2>2, <2>3, <2>4, SameDeliveries, SameInteractions, ReceiveStep
<1>4. CASE ctl[c].cur # m
  BY <1>1, <1>4, UnexpectedStep DEF OnStarted
<1> QED BY <1>3, <1>4

LEMMA OnStartErrorStep ==
    ASSUME IInv, NEW c \in Controllers, OnStartError(c)
    PROVE  IInv' /\ HolderStep
<1>1. /\ wire[c] # << >> /\ Consume(c)
      /\ UNCHANGED <<lease, interaction, elapsed, thread, request, calls>>
  BY DEF OnStartError, Arrives
<1>2. CASE ctl[c].cur = Head(wire[c]).msg
  <2>1. /\ ctl' = [ctl EXCEPT ![c].cur = NoMessage] /\ StartUnknown(c)
        /\ UNCHANGED <<ready, receipt, events>>
    BY <1>2 DEF OnStartError
  <2>2. CrewStep(Crew, Crew') /\ (Holds(c) \/ Moved(Crew, Crew') = {})
    BY <2>1, StartUnknownStep
  <2>3. /\ ctl' \in [Controllers -> Controller]
        /\ \A d \in Controllers \ {c} : ctl'[d] = ctl[d]
    BY <2>1, CurForgotten
  <2>4. ready' \in BOOLEAN
    BY <2>1 DEF IInv, ExternalTypeOK
  <2> QED BY <1>1, <2>1, <2>2, <2>3, <2>4, SameDeliveries, SameInteractions, ReceiveStep
<1>3. CASE ctl[c].cur # Head(wire[c]).msg
  BY <1>1, <1>3, UnexpectedStep DEF OnStartError
<1> QED BY <1>2, <1>3

\* A steer the thread has is recorded and its delivery settled.
LEMMA SteerLandedStep ==
    ASSUME IInv, NEW m \in Messages, steered[m] = 1, SteerLanded(m)
    PROVE  /\ ReceiptStep /\ EventStep /\ receipt' \in [Messages -> Receipts]
           /\ events' \in [Messages -> SUBSET {"intent", "input"}]
<1>1. receipt \in [Messages -> Receipts] /\ events \in [Messages -> SUBSET {"intent", "input"}]
  BY DEF IInv, ExternalTypeOK, Receipts
<1>2. EventStep /\ events' \in [Messages -> SUBSET {"intent", "input"}]
  BY <1>1 DEF EventStep, SteerLanded
<1>3. CASE receipt[m].status = "pending"
  <2>1. receipt' = [receipt EXCEPT ![m].status = "accepted"]
    BY <1>3 DEF SteerLanded
  <2> QED BY <1>2, <1>3, <2>1, SettleOne
<1>4. CASE receipt[m].status # "pending"
  <2>1. receipt' = receipt
    BY <1>1, <1>4 DEF SteerLanded, Receipts
  <2> QED BY <1>1, <1>2, <2>1 DEF ReceiptStep
<1> QED BY <1>3, <1>4

LEMMA OnSteeredStep ==
    ASSUME IInv, NEW c \in Controllers, OnSteered(c)
    PROVE  IInv' /\ HolderStep
<1> DEFINE m == Head(wire[c]).msg
<1>1. /\ wire[c] # << >> /\ Consume(c)
      /\ UNCHANGED <<lease, interaction, elapsed, thread, request, calls>>
  BY DEF OnSteered, Arrives
<1>2. m \in Messages /\ steered[m] = 1
  BY <1>1, HeadTrue, WiredFields DEF OnSteered, Arrives, WireTrue
<1>3. CASE <<"sent", m>> \in ctl[c].steer
  <2>1. /\ IF Holds(c) THEN SteerLanded(m) ELSE UNCHANGED <<events, receipt>>
        /\ ctl' = [ctl EXCEPT ![c].steer = @ \ {<<"sent", m>>}]
        /\ UNCHANGED <<ready, turn, queuedAt>>
    BY <1>3 DEF OnSteered
  <2> HIDE DEF m
  <2>2. CrewStep(Crew, Crew') /\ Moved(Crew, Crew') = {}
    BY <2>1, SameCrew
  <2>3. /\ ReceiptStep /\ EventStep /\ receipt' \in [Messages -> Receipts]
        /\ events' \in [Messages -> SUBSET {"intent", "input"}]
    BY <1>2, <2>1, SteerLandedStep, SameDeliveries
  <2>4. /\ ctl' \in [Controllers -> Controller]
        /\ \A d \in Controllers \ {c} : ctl'[d] = ctl[d]
    BY <2>1, SteerForgotten
  <2>5. ready' \in BOOLEAN
    BY <2>1 DEF IInv, ExternalTypeOK
  <2> QED BY <1>1, <2>2, <2>3, <2>4, <2>5, SameInteractions, ReceiveStep
<1>4. CASE <<"sent", m>> \notin ctl[c].steer
  BY <1>1, <1>4, UnexpectedStep DEF OnSteered
<1> QED BY <1>3, <1>4

LEMMA OnSteerErrorStep ==
    ASSUME IInv, NEW c \in Controllers, OnSteerError(c)
    PROVE  IInv' /\ HolderStep
<1> DEFINE m == Head(wire[c]).msg
<1>1. /\ wire[c] # << >> /\ Consume(c)
      /\ UNCHANGED <<lease, interaction, elapsed, thread, request, calls>>
  BY DEF OnSteerError, Arrives
<1>2. m \in Messages
  BY <1>1, HeadTrue, WiredFields DEF OnSteerError, Arrives
<1>3. CASE <<"sent", m>> \in ctl[c].steer
  <2>1. /\ receipt' = [receipt EXCEPT ![m].status = IF @ = "pending" THEN "rejected" ELSE @]
        /\ ctl' = [ctl EXCEPT ![c].steer = @ \ {<<"sent", m>>}]
        /\ UNCHANGED <<ready, turn, queuedAt, events>>
    BY <1>3 DEF OnSteerError
  <2> HIDE DEF m
  <2>2. CrewStep(Crew, Crew') /\ Moved(Crew, Crew') = {}
    BY <2>1, SameCrew
  <2>3. ReceiptStep /\ receipt' \in [Messages -> Receipts]
    <3>1. receipt \in [Messages -> Receipts]
      BY DEF IInv, ExternalTypeOK, Receipts
    <3>2. CASE receipt[m].status = "pending"
      <4>1. receipt' = [receipt EXCEPT ![m].status = "rejected"]
        BY <2>1, <3>2
      <4> QED BY <1>2, <3>2, <4>1, SettleOne
    <3>3. CASE receipt[m].status # "pending"
      <4>1. receipt' = receipt
        BY <1>2, <2>1, <3>1, <3>3 DEF Receipts
      <4> QED BY <3>1, <4>1 DEF ReceiptStep
    <3> QED BY <3>2, <3>3
  <2>4. EventStep /\ events' \in [Messages -> SUBSET {"intent", "input"}]
    BY <2>1 DEF EventStep, IInv, ExternalTypeOK
  <2>5. /\ ctl' \in [Controllers -> Controller]
        /\ \A d \in Controllers \ {c} : ctl'[d] = ctl[d]
    BY <2>1, SteerForgotten
  <2>6. ready' \in BOOLEAN
    BY <2>1 DEF IInv, ExternalTypeOK
  <2> QED BY <1>1, <2>2, <2>3, <2>4, <2>5, <2>6, SameInteractions, ReceiveStep
<1>4. CASE <<"sent", m>> \notin ctl[c].steer
  BY <1>1, <1>4, UnexpectedStep DEF OnSteerError
<1> QED BY <1>3, <1>4

LEMMA OnSteerLookupStep ==
    ASSUME IInv, NEW c \in Controllers, OnSteerLookup(c)
    PROVE  IInv' /\ HolderStep
<1> DEFINE m == Head(wire[c]).msg
<1>1. /\ wire[c] # << >> /\ Consume(c)
      /\ UNCHANGED <<lease, interaction, elapsed, thread, request, calls, ready, turn, queuedAt>>
      /\ IF m \in Head(wire[c]).items /\ Holds(c)
         THEN SteerLanded(m) ELSE UNCHANGED <<events, receipt>>
      /\ ctl' = [ctl EXCEPT ![c].steer = @ \ {<<"read", m>>}]
  BY DEF OnSteerLookup, Arrives
<1>2. m \in Head(wire[c]).items => m \in Messages /\ steered[m] = 1
  BY <1>1, HeadTrue DEF OnSteerLookup, Arrives, WireTrue
<1> HIDE DEF m
<1>3. CrewStep(Crew, Crew') /\ Moved(Crew, Crew') = {}
  BY <1>1, SameCrew
<1>4. /\ ReceiptStep /\ EventStep /\ receipt' \in [Messages -> Receipts]
      /\ events' \in [Messages -> SUBSET {"intent", "input"}]
  BY <1>1, <1>2, SteerLandedStep, SameDeliveries
<1>5. /\ ctl' \in [Controllers -> Controller]
      /\ \A d \in Controllers \ {c} : ctl'[d] = ctl[d]
  BY <1>1, SteerForgotten
<1>6. ready' \in BOOLEAN
  BY <1>1 DEF IInv, ExternalTypeOK
<1> QED BY <1>1, <1>3, <1>4, <1>5, <1>6, SameInteractions, ReceiveStep

\* The phase of an ended turn is its native status.
LEMMA TerminalIsStatus ==
    ASSUME NEW st \in Outcomes
    PROVE  TerminalPhase(st) = st /\ st \in Terminal
  BY ExternalTurnsAssumption DEF ExternalTurnsAssumption, TerminalPhase, Terminal

LEMMA OnTurnEndedStep ==
    ASSUME IInv, NEW c \in Controllers, OnTurnEnded(c)
    PROVE  IInv' /\ HolderStep
<1> DEFINE m == Head(wire[c]).msg
           phase == TerminalPhase(Head(wire[c]).status)
           known == turn[m].phase \in Live /\ turn[m].bound
<1>1. wire[c] # << >> /\ UNCHANGED thread
  BY DEF OnTurnEnded, Arrives
<1>2. m \in Messages /\ native[m] = phase /\ phase \in Terminal
  <2>1. Head(wire[c]).status \in Outcomes /\ m \in Messages /\ native[m] = Head(wire[c]).status
    BY <1>1, HeadTrue, WiredFields DEF OnTurnEnded, Arrives, WireTrue
  <2> QED BY <2>1, TerminalIsStatus
<1>3. CASE Holds(c) /\ (known => Permitted(turn, m, phase))
  <2>1. /\ Consume(c)
        /\ IF known THEN SetCrew(Transition(Crew, ready, m, phase))
           ELSE UNCHANGED <<turn, queuedAt>>
        /\ UNCHANGED <<lease, ready, receipt, events, interaction, elapsed, ctl, request, calls>>
    BY <1>3 DEF OnTurnEnded
  <2>2. /\ ready \in BOOLEAN /\ ready' \in BOOLEAN /\ ctl' \in [Controllers -> Controller]
        /\ \A d \in Controllers \ {c} : ctl'[d] = ctl[d]
    BY <2>1 DEF IInv, ExternalTypeOK
  <2>3. CrewStep(Crew, Crew')
    <3>1. CASE known
      <4>1. turn[m].phase \in Live /\ SetCrew(Transition(Crew, ready, m, phase))
        BY <2>1, <3>1
      <4> HIDE DEF m, phase
      <4> QED BY <1>2, <2>2, <4>1, SetTransition
    <3>2. CASE ~known
      BY <2>1, <3>2, SameCrew
    <3> QED BY <3>1, <3>2
  <2> QED BY <1>1, <1>3, <2>1, <2>2, <2>3, SameDeliveries, SameInteractions, ReceiveStep
<1>4. CASE ~(Holds(c) /\ (known => Permitted(turn, m, phase)))
  <2>1. ReceiveFailure(c)
    BY <1>4 DEF OnTurnEnded
  <2> QED BY <1>1, <2>1, DropStep DEF ReceiveFailure
<1> QED BY <1>3, <1>4

\* #resumePersistedBindings: the turn that ended in the thread ends, and the open steers
\* are settled by what the thread shows.
LEMMA OnResumeStep ==
    ASSUME IInv, NEW c \in Controllers, OnResume(c)
    PROVE  IInv' /\ HolderStep
<1> DEFINE e == Head(wire[c])
           end == CHOOSE m \in Ended(c) : TRUE
           phase == TerminalPhase(e.native[end])
           refused == Ended(c) # {} /\ ~(Holds(c) /\ Permitted(turn, end, phase))
           lost == Open \ Landed(c)
<1>1. /\ wire[c] # << >> /\ Consume(c) /\ Resumed(c)
      /\ UNCHANGED <<lease, interaction, elapsed, thread, request, calls>>
  BY DEF OnResume, Arrives
<1>2. /\ e.items \subseteq {m \in Messages : steered[m] = 1}
      /\ \A m \in Messages : e.native[m] \in Outcomes => native[m] = e.native[m]
  BY <1>1, HeadTrue DEF OnResume, Arrives, WireTrue
<1>3. /\ ready \in BOOLEAN /\ turn \in Turns /\ ctl[c].cand \subseteq Messages
      /\ receipt \in [Messages -> Receipts] /\ events \in [Messages -> SUBSET {"intent", "input"}]
  BY DEF IInv, ExternalTypeOK, Turns, Phases, Controller, Receipts
<1>4. CrewStep(Crew, Crew') /\ (Holds(c) \/ Moved(Crew, Crew') = {})
  <2>1. CASE Ended(c) # {} /\ ~refused
    <3>1. end \in Ended(c) /\ Holds(c) /\ Permitted(turn, end, phase)
      BY <2>1
    <3>2. end \in Messages /\ e.native[end] \in Outcomes
      BY <1>3, <3>1 DEF Ended
    <3>3. phase \in Terminal /\ native[end] = phase
      BY <1>2, <3>2, TerminalIsStatus
    <3>4. SetCrew(Transition(Crew, ready, end, phase))
      BY <2>1 DEF OnResume
    <3> HIDE DEF end, phase
    <3>5. phase # "none"
      BY <3>3 DEF Terminal
    <3>6. turn[end].phase \in Live
      BY <1>3, <3>1, <3>2, <3>5, PermittedIsLive
    <3> QED BY <1>3, <3>1, <3>2, <3>3, <3>4, <3>6, SetTransition
  <2>2. CASE ~(Ended(c) # {} /\ ~refused)
    BY <2>2, SameCrew DEF OnResume
  <2> QED BY <2>1, <2>2
<1>5. /\ ReceiptStep /\ EventStep /\ receipt' \in [Messages -> Receipts]
      /\ events' \in [Messages -> SUBSET {"intent", "input"}]
  <2>1. CASE refused
    BY <2>1, SameDeliveries DEF OnResume
  <2>2. CASE ~refused
    <3> DEFINE kept == IF Holds(c) THEN Landed(c) ELSE {}
               A(r) == [r EXCEPT !.status = "accepted"]
               R(r) == [r EXCEPT !.status = "rejected"]
    <3>1. PICK reached \in SUBSET lost :
            /\ events' = [m \in Messages |->
                  IF m \in kept THEN events[m] \cup {"input"} ELSE events[m]]
            /\ receipt' = [m \in Messages |->
                  IF m \in kept THEN A(receipt[m])
                  ELSE IF m \in reached THEN R(receipt[m]) ELSE receipt[m]]
      BY <2>2 DEF OnResume
    <3>2. \A m \in kept : m \in Messages /\ receipt[m].status = "pending" /\ steered[m] = 1
      BY <1>2 DEF Landed, Open
    <3>3. \A m \in reached : m \in Messages /\ receipt[m].status = "pending"
      BY DEF Open
    <3>4. \A r \in Receipts : /\ A(r) \in Receipts /\ A(r).status = "accepted" /\ A(r).turn = r.turn
                              /\ R(r) \in Receipts /\ R(r).status = "rejected" /\ R(r).turn = r.turn
      BY DEF Receipts
    <3> HIDE DEF kept, A, R
    <3>5. receipt' \in [Messages -> Receipts] /\ events' \in [Messages -> SUBSET {"intent", "input"}]
      BY <1>3, <3>1, <3>4
    <3>6. ReceiptStep
      BY <1>3, <3>1, <3>2, <3>3, <3>4 DEF ReceiptStep
    <3>7. EventStep
      BY <1>3, <3>1, <3>2 DEF EventStep
    <3> QED BY <3>5, <3>6, <3>7
  <2> QED BY <2>1, <2>2
<1>6. /\ ctl' \in [Controllers -> Controller] /\ ready' \in BOOLEAN
      /\ \A d \in Controllers \ {c} : ctl'[d] = ctl[d]
  BY <1>1, ResumedTypes
<1> QED BY <1>1, <1>4, <1>5, <1>6, SameInteractions, ReceiveStep

\* A request that is answered, or turned down.
LEMMA RequestClosed ==
    ASSUME IInv, NEW i \in Interactions, request' = [request EXCEPT ![i].on = NoController]
    PROVE  request' \in [Interactions -> Requests]
<1>1. PICK r : r = request[i]
  OBVIOUS
<1>2. request \in [Interactions -> Requests] /\ r \in Requests
  BY <1>1 DEF IInv, ExternalTypeOK, Requests
<1>3. [r EXCEPT !.on = NoController] \in Requests
  BY <1>2 DEF Requests
<1>4. request' = [request EXCEPT ![i] = [r EXCEPT !.on = NoController]]
  BY <1>1
<1> QED BY <1>2, <1>3, <1>4

\* A controller waits for, or is done with, an interaction.
LEMMA PendingSet ==
    ASSUME IInv, NEW c \in Controllers, NEW i \in Interactions,
           \/ ctl' = [ctl EXCEPT ![c].pending = @ \cup {i}]
           \/ ctl' = [ctl EXCEPT ![c].pending = @ \ {i}]
    PROVE  /\ ctl' \in [Controllers -> Controller]
           /\ \A d \in Controllers \ {c} : ctl'[d] = ctl[d]
<1>1. PICK r : r = ctl[c]
  OBVIOUS
<1>2. r \in Controller
  BY <1>1 DEF IInv, ExternalTypeOK
<1>3. /\ [r EXCEPT !.pending = r.pending \cup {i}] \in Controller
      /\ [r EXCEPT !.pending = r.pending \ {i}] \in Controller
  BY <1>2 DEF Controller
<1>4. \/ ctl' = [ctl EXCEPT ![c] = [r EXCEPT !.pending = r.pending \cup {i}]]
      \/ ctl' = [ctl EXCEPT ![c] = [r EXCEPT !.pending = r.pending \ {i}]]
  BY <1>1 DEF IInv, ExternalTypeOK
<1> QED BY <1>3, <1>4, CtlSet

LEMMA OnRequestStep ==
    ASSUME IInv, NEW c \in Controllers, OnRequest(c)
    PROVE  IInv' /\ HolderStep
<1> DEFINE m == Head(wire[c]).msg
           i == Head(wire[c]).id
           known == Holds(c) /\ turn[m].phase \in Live /\ turn[m].bound
<1>1. /\ wire[c] # << >> /\ Consume(c)
      /\ UNCHANGED <<lease, ready, receipt, events, elapsed, thread, calls>>
  BY DEF OnRequest, Arrives
<1>2. m \in Messages /\ i \in Interactions
  BY <1>1, HeadTrue, WiredFields DEF OnRequest, Arrives
<1>3. ready \in BOOLEAN /\ ready' \in BOOLEAN /\ interaction \in [Interactions -> Interacts]
  BY <1>1 DEF IInv, ExternalTypeOK, Interacts
<1>4. CASE known
  <2>1. /\ interaction' = [interaction EXCEPT ![i] = [status |-> "pending", turn |-> m]]
        /\ SetCrew(Transition(Crew, ready, m, "waiting_interaction"))
        /\ ctl' = [ctl EXCEPT ![c].pending = @ \cup {i}]
        /\ UNCHANGED request
        /\ Holds(c) /\ turn[m].phase \in Live
    BY <1>4 DEF OnRequest
  <2> HIDE DEF m, i
  <2>2. CrewStep(Crew, Crew')
    BY <1>2, <1>3, <2>1, SetTransition
  <2>3. interaction' \in [Interactions -> Interacts] /\ InteractionsOK'
    BY <1>2, <1>3, <2>1 DEF Interacts, IInv, InteractionsOK
  <2>4. request' \in [Interactions -> Requests]
    BY <2>1 DEF IInv, ExternalTypeOK, Requests
  <2>5. /\ ctl' \in [Controllers -> Controller]
        /\ \A d \in Controllers \ {c} : ctl'[d] = ctl[d]
    BY <1>2, <2>1, PendingSet
  <2> QED BY <1>1, <1>3, <2>1, <2>2, <2>3, <2>4, <2>5, SameDeliveries, ReceiveStep
<1>5. CASE ~known
  <2>1. /\ request' = [request EXCEPT ![i].on = NoController]
        /\ UNCHANGED <<interaction, turn, queuedAt, ctl>>
    BY <1>5 DEF OnRequest
  <2> HIDE DEF m, i
  <2>2. CrewStep(Crew, Crew') /\ Moved(Crew, Crew') = {}
    BY <2>1, SameCrew
  <2>3. request' \in [Interactions -> Requests]
    BY <1>2, <2>1, RequestClosed
  <2>4. /\ interaction' \in [Interactions -> Interacts] /\ InteractionsOK'
        /\ ctl' \in [Controllers -> Controller] /\ \A d \in Controllers \ {c} : ctl'[d] = ctl[d]
    BY <2>1 DEF IInv, ExternalTypeOK, Interacts, InteractionsOK
  <2> QED BY <1>1, <1>3, <2>2, <2>3, <2>4, SameDeliveries, ReceiveStep
<1> QED BY <1>4, <1>5

\* An interaction that was pending gets another status.
LEMMA InteractionClosed ==
    ASSUME IInv, NEW i \in Interactions, NEW st \in {"resolved", "expired"},
           interaction' = [interaction EXCEPT ![i].status = st]
    PROVE  interaction' \in [Interactions -> Interacts] /\ InteractionsOK'
<1>1. interaction \in [Interactions -> Interacts]
  BY DEF IInv, ExternalTypeOK, Interacts
<1>2. /\ interaction' \in [Interactions -> Interacts] /\ interaction'[i].status = st
      /\ \A j \in Interactions \ {i} : interaction'[j] = interaction[j]
  BY <1>1 DEF Interacts
<1> QED BY <1>2 DEF IInv, InteractionsOK

LEMMA AnswerTypes ==
    ASSUME IInv, NEW c \in Controllers, NEW i \in Interactions, Answer(c, i)
    PROVE  request' \in [Interactions -> Requests]
  BY SMTT(30) DEF IInv, ExternalTypeOK, Requests, Answer

LEMMA ExpireInteractionStep ==
    ASSUME IInv, NEW c \in Controllers, NEW i \in Interactions, ExpireInteraction(c, i)
    PROVE  IInv' /\ HolderStep
<1>1. CASE Holds(c) /\ interaction[i].status = "pending"
  <2>1. /\ interaction' = [interaction EXCEPT ![i].status = "expired"]
        /\ ctl' = [ctl EXCEPT ![c].pending = @ \ {i}]
        /\ Answer(c, i)
        /\ UNCHANGED <<lease, ready, turn, queuedAt, receipt, events, elapsed, thread, calls, wire>>
    BY <1>1 DEF ExpireInteraction
  <2>2. CrewStep(Crew, Crew') /\ Moved(Crew, Crew') = {} /\ CallsStep /\ WireStep
    BY <2>1, SameCrew, SameCalls, SameWire
  <2>3. interaction' \in [Interactions -> Interacts] /\ InteractionsOK'
    BY <2>1, InteractionClosed
  <2>4. ctl' \in [Controllers -> Controller] /\ request' \in [Interactions -> Requests]
    BY <2>1, PendingSet, AnswerTypes
  <2>5. lease' \in Leases /\ ready' \in BOOLEAN /\ elapsed' \subseteq Messages
    BY <2>1 DEF IInv, ExternalTypeOK, Leases
  <2> QED BY <2>1, <2>2, <2>3, <2>4, <2>5, TurnStep, StillStep
<1>2. CASE ~(Holds(c) /\ interaction[i].status = "pending")
  BY <1>2, CrashStep DEF ExpireInteraction
<1> QED BY <1>1, <1>2

LEMMA ResolveInteractionStep ==
    ASSUME IInv, NEW c \in Controllers, NEW i \in Interactions, ResolveInteraction(c, i)
    PROVE  IInv' /\ HolderStep
<1> DEFINE m == interaction[i].turn
           resumes == turn[m].phase = "waiting_interaction" /\ ctl[c].driver = "ready"
<1>1. /\ interaction[i].status = "pending"
      /\ interaction' = [interaction EXCEPT ![i].status = "resolved"]
      /\ UNCHANGED <<lease, ready, receipt, events, elapsed, thread, calls, wire>>
  BY DEF ResolveInteraction
<1>2. /\ m \in Messages /\ ready \in BOOLEAN /\ ready' \in BOOLEAN
      /\ lease' \in Leases /\ elapsed' \subseteq Messages
  BY <1>1 DEF IInv, InteractionsOK, ExternalTypeOK, Leases
<1>3. CrewStep(Crew, Crew') /\ (Holds(c) \/ Moved(Crew, Crew') = {})
  <2>1. CASE resumes /\ Holds(c)
    <3>1. turn[m].phase \in Live /\ SetCrew(Transition(Crew, ready, m, "active"))
      BY <2>1 DEF ResolveInteraction, Live
    <3> HIDE DEF m
    <3> QED BY <1>2, <2>1, <3>1, SetTransition
  <2>2. CASE ~(resumes /\ Holds(c))
    BY <2>2, SameCrew DEF ResolveInteraction
  <2> QED BY <2>1, <2>2
<1>4. /\ ctl' \in [Controllers -> Controller]
      /\ \A d \in Controllers \ {c} : ctl'[d] = ctl[d]
      /\ request' \in [Interactions -> Requests]
  <2>1. CASE ctl' = [ctl EXCEPT ![c].pending = @ \ {i}] /\ Answer(c, i)
    BY <2>1, PendingSet, AnswerTypes
  <2>2. CASE UNCHANGED <<ctl, request>>
    BY <2>2 DEF IInv, ExternalTypeOK, Requests
  <2> QED BY <2>1, <2>2 DEF ResolveInteraction
<1>5. interaction' \in [Interactions -> Interacts] /\ InteractionsOK'
  BY <1>1, InteractionClosed
<1>6. CallsStep /\ WireStep
  BY <1>1, SameCalls, SameWire
<1>7. IInv'
  BY <1>1, <1>2, <1>3, <1>4, <1>5, <1>6, TurnStep
<1> QED BY <1>1, <1>3, <1>4, <1>7, StillStep, HeldStep

LEMMA DieBeforePromotionStep ==
    ASSUME IInv, NEW c \in Controllers, DieBeforePromotion(c)
    PROVE  IInv' /\ HolderStep
<1> DEFINE m == Head(wire[c]).msg
           phase == TerminalPhase(Head(wire[c]).status)
<1>1. /\ wire[c] # << >> /\ Holds(c) /\ turn[m].phase \in Live
      /\ turn' = [turn EXCEPT ![m].phase = phase] /\ UNCHANGED queuedAt
  BY DEF DieBeforePromotion, Arrives
<1>2. m \in Messages /\ native[m] = phase /\ phase \in Terminal
  <2>1. Head(wire[c]).status \in Outcomes /\ m \in Messages /\ native[m] = Head(wire[c]).status
    BY <1>1, HeadTrue, WiredFields DEF DieBeforePromotion, Arrives, WireTrue
  <2> QED BY <2>1, TerminalIsStatus
<1>3. CrewStep(Crew, Crew')
  <2> HIDE DEF m, phase
  <2>1. CrewOK(Crew) /\ Crew.turn[m].phase \in Live
    BY <1>1 DEF IInv, Crew
  <2>2. Crew' = [Crew EXCEPT !.turn[m].phase = phase]
    BY <1>1, SMT DEF Crew
  <2> QED BY <1>2, <2>1, <2>2, MoveStep, SMT
<1>4. /\ ctl' \in [Controllers -> Controller]
      /\ \A d \in Controllers \ {c} : ctl'[d] = ctl[d]
  BY GoneIsFresh DEF DieBeforePromotion
<1>5. /\ UNCHANGED <<receipt, events, thread>>
      /\ lease' \in Leases /\ ready' \in BOOLEAN /\ elapsed' \subseteq Messages
      /\ interaction' \in [Interactions -> Interacts] /\ InteractionsOK'
  BY DEF DieBeforePromotion, IInv, ExternalTypeOK, Leases, Interacts, InteractionsOK
<1>6. /\ CallsStep /\ WireStep /\ request' \in [Interactions -> Requests]
      /\ \A d \in Controllers \ {c} : wire'[d] = wire[d]
  BY UnpluggedStep DEF DieBeforePromotion, Requests
<1>7. IInv'
  BY <1>3, <1>4, <1>5, <1>6, TurnStep
<1> QED BY <1>1, <1>4, <1>6, <1>7, HeldStep

LEMMA DieBeforeReceiptStep ==
    ASSUME IInv, NEW c \in Controllers, DieBeforeReceipt(c)
    PROVE  IInv' /\ HolderStep
<1> DEFINE m == Head(wire[c]).msg
<1>1. /\ wire[c] # << >> /\ events' = [events EXCEPT ![m] = @ \cup {"input"}]
      /\ UNCHANGED <<lease, ready, turn, queuedAt, receipt, interaction, elapsed, thread>>
  BY DEF DieBeforeReceipt, Arrives
<1>2. m \in Messages /\ steered[m] = 1
  BY <1>1, HeadTrue, WiredFields DEF DieBeforeReceipt, Arrives, WireTrue
<1> HIDE DEF m
<1>3. EventStep /\ events' \in [Messages -> SUBSET {"intent", "input"}]
  BY <1>1, <1>2 DEF EventStep, IInv, ExternalTypeOK
<1>4. ReceiptStep /\ receipt' \in [Messages -> Receipts]
  BY <1>1 DEF ReceiptStep, IInv, ExternalTypeOK, Receipts
<1>5. ctl' \in [Controllers -> Controller]
  BY GoneIsFresh DEF DieBeforeReceipt
<1>6. lease' \in Leases /\ ready' \in BOOLEAN /\ elapsed' \subseteq Messages
  BY <1>1 DEF IInv, ExternalTypeOK, Leases
<1>7. CallsStep /\ WireStep /\ request' \in [Interactions -> Requests]
  BY UnpluggedStep DEF DieBeforeReceipt, Requests
<1> QED BY <1>1, <1>3, <1>4, <1>5, <1>6, <1>7, DeliveryStep

-----------------------------------------------------------------------------
(* What the app server does.                                                *)

\* A native turn comes into being once and ends once; a steer is not taken back.
ThreadStep ==
    \A m \in Messages :
        /\ native[m] # "none" => native'[m] # "none"
        /\ native[m] \in Outcomes => native'[m] = native[m]
        /\ steered[m] = 1 => steered'[m] = 1

\* What is on its way stays true; what is added has to be true.
WireGrows ==
    /\ wire' \in [Controllers -> Seq(Wired)]
    /\ \A c \in Controllers : \A i \in 1..Len(wire'[c]) :
         \/ \E e \in Wired : wire'[c][i] = e /\ WireTrue(e)'
         \/ \E j \in 1..Len(wire[c]) : wire'[c][i] = wire[c][j]

LEMMA WireStays ==
    ASSUME IInv, ThreadStep, WireGrows
    PROVE  WireOK'
<1>1. ASSUME NEW e \in Wired, WireTrue(e) PROVE WireTrue(e)'
  <2>1. CASE e.kind = "thread"
    BY <1>1, <2>1 DEF WireTrue, ThreadStep
  <2>2. CASE e.kind # "thread"
    BY <1>1, <2>2, WiredFields DEF WireTrue, ThreadStep
  <2> QED BY <2>1, <2>2
<1>2. ASSUME NEW c \in Controllers, NEW i \in 1..Len(wire'[c]) PROVE WireTrue(wire[c][i])'
  <2>1. PICK e \in Wired : wire'[c][i] = e /\ WireTrue(e)'
    <3>1. CASE \E j \in 1..Len(wire[c]) : wire'[c][i] = wire[c][j]
      <4>1. PICK j \in 1..Len(wire[c]) : wire'[c][i] = wire[c][j]
        BY <3>1
      <4>2. wire[c] \in Seq(Wired) /\ WireTrue(wire[c][j])
        BY DEF IInv, WireOK
      <4>3. PICK e : e = wire[c][j]
        OBVIOUS
      <4>4. e \in Wired /\ WireTrue(e)
        BY <4>2, <4>3, SMT
      <4> QED BY <1>1, <4>1, <4>3, <4>4
    <3> QED BY <1>2, <3>1 DEF WireGrows
  <2> QED BY <2>1 DEF WireTrue
<1> QED BY <1>2 DEF WireOK, WireGrows

\* The end of a sequence is what was appended.
LEMMA Appended ==
    ASSUME NEW S, NEW s \in Seq(S), NEW e \in S
    PROVE  /\ Append(s, e) \in Seq(S)
           /\ \A i \in 1..Len(Append(s, e)) :
                Append(s, e)[i] = e \/ \E j \in 1..Len(s) : Append(s, e)[i] = s[j]
  BY SMT

LEMMA ReplyGrows ==
    ASSUME IInv, NEW k \in calls, NEW e \in Wired, Reply(k, e), WireTrue(e)'
    PROVE  WireGrows
<1>1. wire \in [Controllers -> Seq(Wired)]
  BY DEF IInv, WireOK
<1>2. CASE k.by \in Controllers
  <2>1. wire' = [wire EXCEPT ![k.by] = Append(wire[k.by], e)]
    BY <1>2 DEF Reply
  <2>2. wire[k.by] \in Seq(Wired)
    BY <1>1, <1>2
  <2>3. /\ Append(wire[k.by], e) \in Seq(Wired)
        /\ \A i \in 1..Len(Append(wire[k.by], e)) :
             \/ Append(wire[k.by], e)[i] = e
             \/ \E j \in 1..Len(wire[k.by]) : Append(wire[k.by], e)[i] = wire[k.by][j]
    BY <2>2, Appended, SMTT(30)
  <2>4. wire' \in [Controllers -> Seq(Wired)]
    BY <1>1, <2>1, <2>3
  <2>5. ASSUME NEW c \in Controllers, NEW i \in 1..Len(wire'[c])
        PROVE  wire'[c][i] = e \/ \E j \in 1..Len(wire[c]) : wire'[c][i] = wire[c][j]
    <3>1. CASE c = k.by
      <4>1. wire'[c] = Append(wire[k.by], e)
        BY <1>1, <2>1, <3>1
      <4> QED BY <2>3, <2>5, <3>1, <4>1
    <3>2. CASE c # k.by
      BY <1>1, <2>1, <2>5, <3>2
    <3> QED BY <3>1, <3>2
  <2> QED BY <2>4, <2>5 DEF WireGrows
<1>3. CASE k.by \notin Controllers
  BY <1>1, <1>3 DEF Reply, WireGrows
<1> QED BY <1>2, <1>3

\* The app server acts on what it was asked, and Crew's records of it hold.
LEMMA ServedStep ==
    ASSUME IInv, UNCHANGED <<store, ctl>>, ThreadStep, WireGrows, calls' \subseteq calls,
           native' \in [Messages -> {"none", "running"} \cup Outcomes],
           starts' \in [Messages -> Nat], steered' \in [Messages -> Nat],
           request' \in [Interactions -> Requests], EffectsOK', PhaseIsNativeTruth',
           \A k \in calls' : /\ k.kind = "start" => starts'[k.msg] = starts[k.msg]
                             /\ k.kind = "steer" => steered'[k.msg] = steered[k.msg]
    PROVE  IInv' /\ HolderStep
<1>1. /\ UNCHANGED <<lease, ready, turn, queuedAt, receipt, events, interaction, elapsed, ctl>>
  BY DEF store
<1>2. ExternalTypeOK'
  BY <1>1 DEF IInv, ExternalTypeOK, Requests
<1>3. WireOK'
  BY WireStays
<1>4. CrewOK(Crew')
  BY <1>1 DEF IInv, Crew
<1>5. CallsOK'
  BY <1>1 DEF IInv, CallsOK
<1>6. ReceiptsOK' /\ InteractionsOK'
  BY <1>1 DEF IInv, ReceiptsOK, InteractionsOK, ThreadStep
<1>7. HolderStep
  BY <1>1 DEF HolderStep
<1> QED BY <1>2, <1>3, <1>4, <1>5, <1>6, <1>7 DEF IInv

LEMMA SameRequests ==
    ASSUME IInv, UNCHANGED request
    PROVE  request' \in [Interactions -> Requests]
  BY DEF IInv, ExternalTypeOK, Requests

LEMMA ServeStartStep ==
    ASSUME IInv, NEW k \in calls, ServeStart(k)
    PROVE  IInv' /\ HolderStep
<1> DEFINE m == k.msg
           ok == [kind |-> "started", msg |-> m]
           err == [kind |-> "start_error", msg |-> m]
<1>1. /\ UNCHANGED <<store, ctl, steered, request>> /\ calls' = calls \ {k} /\ k.kind = "start"
  BY DEF ServeStart
<1>2. /\ m \in Messages /\ starts[m] = 0 /\ turn[m].phase \notin {"none", "accepted"}
      /\ \A l \in calls' : l.kind = "start" => l.msg # m
  BY <1>1 DEF IInv, CallsOK
<1>3. /\ native \in [Messages -> {"none", "running"} \cup Outcomes] /\ native[m] = "none"
      /\ starts \in [Messages -> Nat] /\ steered \in [Messages -> Nat]
  BY <1>2, SMTT(30) DEF IInv, ExternalTypeOK, EffectsOK
<1>4. ok \in Wired /\ err \in Wired /\ WireTrue(err)'
  BY <1>2 DEF Wired, WireTrue
<1>5. request' \in [Interactions -> Requests] /\ UNCHANGED turn /\ UNCHANGED events
  BY <1>1, SameRequests DEF store
<1>6. "none" \notin Outcomes
  BY ExternalTurnsAssumption DEF ExternalTurnsAssumption
<1>7. CASE /\ native' = [native EXCEPT ![m] = "running"] /\ starts' = [starts EXCEPT ![m] = @ + 1]
           /\ Reply(k, ok)
  <2>1. /\ native' \in [Messages -> {"none", "running"} \cup Outcomes] /\ native'[m] = "running"
        /\ starts' \in [Messages -> Nat] /\ starts'[m] = 1
        /\ \A n \in Messages \ {m} : native'[n] = native[n] /\ starts'[n] = starts[n]
    BY <1>2, <1>3, <1>7, SMTT(30)
  <2>2. WireTrue(ok)'
    BY <2>1 DEF WireTrue
  <2> HIDE DEF ok, m
  <2>3. WireGrows
    BY <1>4, <1>7, <2>2, ReplyGrows
  <2>4. ThreadStep
    BY <1>1, <1>3, <1>6, <2>1 DEF ThreadStep
  <2>5. EffectsOK' /\ PhaseIsNativeTruth'
    BY <1>1, <1>2, <1>3, <1>5, <2>1, SMTT(30) DEF IInv, EffectsOK, PhaseIsNativeTruth
  <2>6. \A l \in calls' : /\ l.kind = "start" => starts'[l.msg] = starts[l.msg]
                          /\ l.kind = "steer" => steered'[l.msg] = steered[l.msg]
    BY <1>1, <1>2, <2>1 DEF IInv, CallsOK
  <2> QED BY <1>1, <1>3, <1>5, <2>1, <2>3, <2>4, <2>5, <2>6, ServedStep
<1>8. CASE Reply(k, err) /\ UNCHANGED <<native, starts>>
  <2> HIDE DEF err, m
  <2>1. WireGrows
    BY <1>4, <1>8, ReplyGrows
  <2>2. ThreadStep /\ EffectsOK' /\ PhaseIsNativeTruth'
    BY <1>1, <1>5, <1>8 DEF ThreadStep, IInv, EffectsOK, PhaseIsNativeTruth
  <2> QED BY <1>1, <1>3, <1>5, <1>8, <2>1, <2>2, ServedStep
<1> QED BY <1>7, <1>8 DEF ServeStart

LEMMA ServeSteerStep ==
    ASSUME IInv, NEW k \in calls, ServeSteer(k)
    PROVE  IInv' /\ HolderStep
<1> DEFINE m == k.msg
           ok == [kind |-> "steered", msg |-> m]
           err == [kind |-> "steer_error", msg |-> m]
<1>1. UNCHANGED <<store, ctl, native, starts, request>> /\ calls' = calls \ {k} /\ k.kind = "steer"
  BY DEF ServeSteer
<1>2. /\ m \in Messages /\ steered[m] = 0 /\ "intent" \in events[m]
      /\ \A l \in calls' : l.kind = "steer" => l.msg # m
  BY <1>1 DEF IInv, CallsOK
<1>3. /\ native \in [Messages -> {"none", "running"} \cup Outcomes]
      /\ starts \in [Messages -> Nat] /\ steered \in [Messages -> Nat]
  BY DEF IInv, ExternalTypeOK
<1>4. ok \in Wired /\ err \in Wired /\ WireTrue(err)'
  BY <1>2 DEF Wired, WireTrue
<1>5. request' \in [Interactions -> Requests] /\ UNCHANGED turn /\ UNCHANGED events
  BY <1>1, SameRequests DEF store
<1>6. CASE steered' = [steered EXCEPT ![m] = @ + 1] /\ Reply(k, ok)
  <2>1. /\ steered' \in [Messages -> Nat] /\ steered'[m] = 1
        /\ \A n \in Messages \ {m} : steered'[n] = steered[n]
    BY <1>2, <1>3, <1>6, SMTT(30)
  <2>2. WireTrue(ok)'
    BY <2>1 DEF WireTrue
  <2> HIDE DEF ok, m
  <2>3. WireGrows
    BY <1>4, <1>6, <2>2, ReplyGrows
  <2>4. ThreadStep
    BY <1>1, <2>1 DEF ThreadStep
  <2>5. EffectsOK' /\ PhaseIsNativeTruth'
    BY <1>1, <1>2, <1>5, <2>1 DEF IInv, EffectsOK, PhaseIsNativeTruth
  <2>6. \A l \in calls' : /\ l.kind = "start" => starts'[l.msg] = starts[l.msg]
                          /\ l.kind = "steer" => steered'[l.msg] = steered[l.msg]
    BY <1>1, <1>2, <2>1 DEF IInv, CallsOK
  <2> QED BY <1>1, <1>3, <1>5, <2>1, <2>3, <2>4, <2>5, <2>6, ServedStep
<1>7. CASE Reply(k, err) /\ UNCHANGED steered
  <2> HIDE DEF err, m
  <2>1. WireGrows
    BY <1>4, <1>7, ReplyGrows
  <2>2. ThreadStep /\ EffectsOK' /\ PhaseIsNativeTruth'
    BY <1>1, <1>5, <1>7 DEF ThreadStep, IInv, EffectsOK, PhaseIsNativeTruth
  <2> QED BY <1>1, <1>3, <1>5, <1>7, <2>1, <2>2, ServedStep
<1> QED BY <1>6, <1>7 DEF ServeSteer

LEMMA ServeReadStep ==
    ASSUME IInv, NEW k \in calls, ServeRead(k)
    PROVE  IInv' /\ HolderStep
<1> DEFINE items == {m \in Messages : steered[m] > 0}
<1>0. PICK e : e = [kind |-> "thread", msg |-> k.msg, native |-> native, items |-> items]
  OBVIOUS
<1>1. /\ UNCHANGED <<store, ctl, native, starts, steered, request>> /\ calls' = calls \ {k}
      /\ Reply(k, e)
  BY <1>0 DEF ServeRead, thread
<1>2. /\ native \in [Messages -> {"none", "running"} \cup Outcomes]
      /\ starts \in [Messages -> Nat] /\ steered \in [Messages -> Nat]
      /\ k.msg \in Messages \cup {NoMessage}
  BY DEF IInv, ExternalTypeOK, Call
<1>3. items \subseteq {m \in Messages : steered[m] = 1}
  BY SMTT(30) DEF IInv, EffectsOK
<1>4. request' \in [Interactions -> Requests] /\ UNCHANGED turn /\ UNCHANGED events
  BY <1>1, SameRequests DEF store
<1> HIDE DEF items
<1>5. e \in Wired
  BY <1>0, <1>2, <1>3 DEF Wired
<1>6. WireTrue(e)'
  BY <1>0, <1>1, <1>3 DEF WireTrue
<1>7. WireGrows
  BY <1>1, <1>5, <1>6, ReplyGrows
<1>8. ThreadStep /\ EffectsOK' /\ PhaseIsNativeTruth'
  BY <1>1, <1>4 DEF ThreadStep, IInv, EffectsOK, PhaseIsNativeTruth
<1> QED BY <1>1, <1>2, <1>4, <1>7, <1>8, ServedStep

LEMMA NativeEndsStep ==
    ASSUME IInv, NEW m \in Messages, NEW status \in Outcomes, NativeEnds(m, status)
    PROVE  IInv' /\ HolderStep
<1> DEFINE e == [kind |-> "turn", msg |-> m, status |-> status]
<1>1. /\ UNCHANGED <<store, ctl, starts, steered, request, calls>>
      /\ native[m] = "running" /\ native' = [native EXCEPT ![m] = status]
  BY DEF NativeEnds
<1>2. /\ native \in [Messages -> {"none", "running"} \cup Outcomes]
      /\ starts \in [Messages -> Nat] /\ steered \in [Messages -> Nat]
      /\ wire \in [Controllers -> Seq(Wired)]
  BY DEF IInv, ExternalTypeOK, WireOK
<1>3. /\ native' \in [Messages -> {"none", "running"} \cup Outcomes] /\ native'[m] = status
      /\ \A n \in Messages \ {m} : native'[n] = native[n]
  BY <1>1, <1>2
<1>4. "running" \notin Outcomes /\ "none" \notin Outcomes
  BY ExternalTurnsAssumption DEF ExternalTurnsAssumption
<1>5. request' \in [Interactions -> Requests] /\ UNCHANGED turn /\ UNCHANGED events
  BY <1>1, SameRequests DEF store
<1>6. e \in Wired /\ WireTrue(e)'
  BY <1>3 DEF Wired, WireTrue
<1>7. wire' = [c \in Controllers |-> IF ctl[c].driver = "ready" THEN Append(wire[c], e)
                                    ELSE wire[c]]
  BY DEF NativeEnds
<1> HIDE DEF e
<1>8. WireGrows
  <2>1. \A c \in Controllers :
          /\ Append(wire[c], e) \in Seq(Wired)
          /\ \A i \in 1..Len(Append(wire[c], e)) :
               \/ Append(wire[c], e)[i] = e
               \/ \E j \in 1..Len(wire[c]) : Append(wire[c], e)[i] = wire[c][j]
    <3> TAKE c \in Controllers
    <3>1. wire[c] \in Seq(Wired)
      BY <1>2
    <3> QED BY <1>6, <3>1, SMT
  <2>2. wire' \in [Controllers -> Seq(Wired)]
    BY <1>2, <1>7, <2>1
  <2>3. ASSUME NEW c \in Controllers, NEW i \in 1..Len(wire'[c])
        PROVE  wire'[c][i] = e \/ \E j \in 1..Len(wire[c]) : wire'[c][i] = wire[c][j]
    BY <1>2, <1>7, <2>1, <2>3
  <2> QED BY <1>6, <2>2, <2>3 DEF WireGrows
<1>9. ThreadStep
  BY <1>1, <1>3, <1>4 DEF ThreadStep
<1>10. EffectsOK' /\ PhaseIsNativeTruth'
  BY <1>1, <1>3, <1>4, <1>5 DEF IInv, EffectsOK, PhaseIsNativeTruth
<1> QED BY <1>1, <1>2, <1>3, <1>5, <1>8, <1>9, <1>10, ServedStep

LEMMA NativeRequestStep ==
    ASSUME IInv, NEW m \in Messages, NEW i \in Interactions, NEW c \in Controllers,
           NativeRequest(m, i, c)
    PROVE  IInv' /\ HolderStep
<1> DEFINE e == [kind |-> "request", msg |-> m, id |-> i]
<1>1. /\ UNCHANGED <<store, ctl, native, starts, steered, calls>>
      /\ request' = [request EXCEPT ![i] = [turn |-> m, on |-> c]]
      /\ wire' = [wire EXCEPT ![c] = Append(wire[c], e)]
  BY DEF NativeRequest, thread
<1>2. /\ native \in [Messages -> {"none", "running"} \cup Outcomes]
      /\ starts \in [Messages -> Nat] /\ steered \in [Messages -> Nat]
      /\ wire \in [Controllers -> Seq(Wired)] /\ wire[c] \in Seq(Wired)
  BY DEF IInv, ExternalTypeOK, WireOK
<1>3. request' \in [Interactions -> Requests]
  BY <1>1 DEF IInv, ExternalTypeOK, Requests
<1>4. e \in Wired /\ WireTrue(e)'
  BY DEF Wired, WireTrue
<1> HIDE DEF e
<1>5. WireGrows
  <2>1. /\ Append(wire[c], e) \in Seq(Wired)
        /\ \A j \in 1..Len(Append(wire[c], e)) :
             \/ Append(wire[c], e)[j] = e
             \/ \E l \in 1..Len(wire[c]) : Append(wire[c], e)[j] = wire[c][l]
    BY <1>2, <1>4, Appended, SMTT(30)
  <2>2. wire' \in [Controllers -> Seq(Wired)]
    BY <1>1, <1>2, <2>1
  <2>3. ASSUME NEW d \in Controllers, NEW j \in 1..Len(wire'[d])
        PROVE  wire'[d][j] = e \/ \E l \in 1..Len(wire[d]) : wire'[d][j] = wire[d][l]
    <3>1. CASE d = c
      <4>1. wire'[d] = Append(wire[c], e)
        BY <1>1, <1>2, <3>1
      <4> QED BY <2>1, <2>3, <3>1, <4>1
    <3>2. CASE d # c
      BY <1>1, <1>2, <2>3, <3>2
    <3> QED BY <3>1, <3>2
  <2> QED BY <1>4, <2>2, <2>3 DEF WireGrows
<1>6. UNCHANGED turn /\ UNCHANGED events
  BY <1>1 DEF store
<1>7. ThreadStep /\ EffectsOK' /\ PhaseIsNativeTruth'
  BY <1>1, <1>6 DEF ThreadStep, IInv, EffectsOK, PhaseIsNativeTruth
<1> QED BY <1>1, <1>2, <1>3, <1>5, <1>7, ServedStep

-----------------------------------------------------------------------------
(* The theorems.                                                            *)

LEMMA InitIInv == Init => IInv
<1> SUFFICES ASSUME Init PROVE IInv
  OBVIOUS
<1> USE DEF Init
<1>1. Fresh \in Controller
  BY DEF Fresh, Controller
<1>2. ExternalTypeOK
  BY <1>1 DEF ExternalTypeOK, Live, Terminal
<1>3. WireOK
  <2>1. << >> \in Seq(Wired) /\ Len(<< >>) = 0
    BY SMTT(30)
  <2> QED BY <2>1, SMTT(30) DEF WireOK
<1>4. CrewOK(Crew)
  <2>1. Crew \in Crews /\ Crew.turn = turn /\ Crew.queuedAt = queuedAt
    BY DEF Crew, Crews, Turns, Phases
  <2> QED BY <2>1, SMTT(30) DEF CrewOK, LiveTurns, Live
<1>5. CallsOK /\ EffectsOK /\ ReceiptsOK /\ InteractionsOK /\ PhaseIsNativeTruth
  BY SMTT(30) DEF CallsOK, EffectsOK, ReceiptsOK, InteractionsOK, PhaseIsNativeTruth
<1> QED BY <1>2, <1>3, <1>4, <1>5 DEF IInv

LEMMA NextStep ==
    ASSUME IInv, Next
    PROVE  IInv' /\ HolderStep
<1>1. ASSUME NEW c \in Controllers, Receive(c) PROVE IInv' /\ HolderStep
  BY <1>1, OnStartedStep, OnStartErrorStep, OnSteeredStep, OnSteerErrorStep,
     OnSteerLookupStep, OnResumeStep, OnTurnEndedStep, OnRequestStep DEF Receive
<1>2. CASE Work
  <2>1. ASSUME NEW c \in Controllers,
               \/ Boot(c) \/ TickConnect(c) \/ OperatorConnect(c) \/ Handshake(c)
               \/ HandshakeFails(c) \/ Tick(c)
               \/ \E m \in Messages : Deliver(c, m) \/ ApplySteer(c, m)
               \/ \E i \in Interactions : ResolveInteraction(c, i)
               \/ LeaseExpires(c)
        PROVE  IInv' /\ HolderStep
    BY <2>1, BootStep, TickConnectStep, ConnectNewStep, HandshakeStep, HandshakeFailsStep,
       TickStep, DeliverStep, ApplySteerStep, ResolveInteractionStep, LeaseExpiresStep
       DEF OperatorConnect
  <2> QED BY <1>1, <1>2, <2>1, ServeStartStep, ServeSteerStep, ServeReadStep,
             NativeEndsStep, NativeRequestStep DEF Work
<1>3. CASE Clock
  BY <1>3, StartTimesOutStep, TtlElapsesStep DEF Clock
<1>4. CASE Fault
  <2>1. ASSUME NEW c \in Controllers, Disconnect(c) PROVE IInv' /\ HolderStep
    BY <2>1, DropStep DEF Disconnect
  <2> QED BY <1>4, <2>1, CrashStep, StopStep, DieBeforePromotionStep, DieBeforeReceiptStep,
             SteerTimesOutStep, ExpireInteractionStep, LeaseExpiresStep, ReadFailsStep DEF Fault
<1> QED BY <1>2, <1>3, <1>4 DEF Next

LEMMA StutterStep ==
    ASSUME IInv, UNCHANGED vars
    PROVE  IInv' /\ HolderStep
<1>1. /\ UNCHANGED <<turn, queuedAt, receipt, events, interaction, thread, wire, calls>>
      /\ lease' \in Leases /\ ready' \in BOOLEAN /\ elapsed' \subseteq Messages
      /\ request' \in [Interactions -> Requests] /\ ctl' \in [Controllers -> Controller]
  BY DEF vars, store, server, thread, IInv, ExternalTypeOK, Leases, Requests
<1> QED BY <1>1, QuietStep

\* The inductive invariant of the external turns holds throughout.
THEOREM ExternalInvariant == Spec => []IInv
<1>1. IInv /\ [Next]_vars => IInv'
  BY NextStep, StutterStep
<1> QED BY <1>1, InitIInv, PTL DEF Spec

\* A message becomes a native turn or a steer at most once, for any number of processes,
\* messages, crashes, takeovers and timeouts: what was sent is on record before it is sent
\* (#startAcceptedTurn, applyCoordinationDelivery), and a record is not sent again.
THEOREM MessageTakesEffectOnce == Spec => []NativeEffectOnce
<1>1. IInv => NativeEffectOnce
  BY SMTT(30) DEF IInv, EffectsOK, ReceiptsOK, NativeEffectOnce
<1> QED BY <1>1, ExternalInvariant, PTL

\* An accepted steer is in the native thread, also when it is settled after a takeover
\* from the thread that was read back (#reconcileBindingSteerIntents).
THEOREM AcceptedSteersAreDelivered == Spec => []AcceptedSteerInThread
<1>1. IInv => AcceptedSteerInThread
  BY DEF IInv, ReceiptsOK, AcceptedSteerInThread
<1> QED BY <1>1, ExternalInvariant, PTL

\* A session has one live turn, whichever of delivery, promotion at an end, and promotion
\* at startup comes first (activate_agent_execution_inner).
THEOREM SessionHasOneTurn == Spec => []OneLiveTurn
<1>1. IInv => OneLiveTurn
  BY DEF IInv, CrewOK, Crew, OneLiveTurn
<1> QED BY <1>1, ExternalInvariant, PTL

\* The end Crew records is the end in the app server, whether it was announced or read
\* back after a reconnect (#applyTerminalEvent, #reconcileBindingExternalTurns).
THEOREM RecordedEndIsNative == Spec => []PhaseIsNativeTruth
<1>1. IInv => PhaseIsNativeTruth
  BY DEF IInv
<1> QED BY <1>1, ExternalInvariant, PTL

\* A turn that was handed over moves only under the unexpired lease
\* (validate_external_controller).
THEOREM OnlyTheHolderMoves == Spec => OnlyHolderMovesTurn
<1>1. IInv /\ [Next]_vars => [HolderStep]_vars
  BY NextStep
<1>2. OnlyHolderMovesTurn <=> [][HolderStep]_vars
  BY PTL DEF OnlyHolderMovesTurn, HolderStep
<1> QED BY <1>1, <1>2, ExternalInvariant, PTL DEF Spec

=============================================================================
