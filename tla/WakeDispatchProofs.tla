------------------------- MODULE WakeDispatchProofs -------------------------
(***************************************************************************)
(* Proofs about the wake dispatcher, for any sessions, messages, drains    *)
(* and deferred redispatches, and with restarts between any two steps.     *)
(*                                                                         *)
(* Three of its invariants hold each other up: a runnable turn has a wake  *)
(* coming only because a suppression never outlives the event it is meant  *)
(* for, and a deferral is taken only because inFlightWakes names exactly   *)
(* the sessions whose dispatch will still settle.  DispatchInv is their    *)
(* conjunction with the types of the bus and of the calls.                 *)
(***************************************************************************)
EXTENDS WakeDispatch, FiniteSetTheorems, TLAPS

USE Zenon

(***************************************************************************)
(* Counting the unprocessed wakes of a session: what the moves of events   *)
(* between the rows do to their number.                                    *)
(***************************************************************************)
Places(X, rows, s, places) ==
    /\ \A x \in X : \A i : <<x, i>> \in places <=>
          i \in 1..Len(rows[x]) /\ rows[x][i] = Wake(s)
    /\ \A p \in places :
          /\ p = <<p[1], p[2]>> /\ p[1] \in X
          /\ p[2] \in 1..Len(rows[p[1]]) /\ rows[p[1]][p[2]] = Wake(s)

LEMMA PlaceOfWake ==
    ASSUME NEW X, NEW rows \in [X -> Seq(Events)], NEW s
    PROVE  Places(X, rows, s, WakesIn(rows, s))
  <1>0. DOMAIN rows = X /\ \A x \in X : DOMAIN rows[x] = 1..Len(rows[x])
    BY SMT
  <1>1. ASSUME NEW p \in WakesIn(rows, s)
        PROVE  /\ p = <<p[1], p[2]>> /\ p[1] \in X
               /\ p[2] \in 1..Len(rows[p[1]]) /\ rows[p[1]][p[2]] = Wake(s)
    <2>1. PICK x \in X : p \in {x} \X DOMAIN rows[x]
      BY <1>0, <1>1 DEF WakesIn
    <2>2. rows[p[1]][p[2]] = Wake(s)
      BY <1>1 DEF WakesIn
    <2> QED BY <1>0, <2>1, <2>2, SMT
  <1>2. ASSUME NEW x \in X, NEW i, <<x, i>> \in WakesIn(rows, s)
        PROVE  i \in 1..Len(rows[x]) /\ rows[x][i] = Wake(s)
    BY <1>1, <1>2
  <1>3. ASSUME NEW x \in X, NEW i \in 1..Len(rows[x]), rows[x][i] = Wake(s)
        PROVE  <<x, i>> \in WakesIn(rows, s)
    <2>1. <<x, i>> \in {x} \X DOMAIN rows[x]
      BY <1>0, <1>3
    <2>2. <<x, i>>[1] = x /\ <<x, i>>[2] = i
      OBVIOUS
    <2> QED BY <1>0, <1>3, <2>1, <2>2 DEF WakesIn
  <1> QED BY <1>1, <1>2, <1>3 DEF Places

LEMMA WakesBijection ==
    ASSUME NEW A, NEW B, NEW f \in [A -> B], IsFiniteSet(A),
           \A a, b \in A : f[a] = f[b] => a = b,
           \A b \in B : \E a \in A : f[a] = b
    PROVE  IsFiniteSet(B) /\ Cardinality(B) = Cardinality(A)
  <1>1. f \in Bijection(A, B)
    BY DEF Bijection, Injection, Surjection, IsInjective
  <1> QED BY <1>1, FS_Bijection DEF ExistsBijection

(* An event is published. *)
Appended(X, rows, x, e, after) ==
    /\ rows \in [X -> Seq(Events)] /\ x \in X /\ e \in Events
    /\ after = [rows EXCEPT ![x] = Append(rows[x], e)]

Gained(rows, after, e, s) ==
    /\ IsFiniteSet(WakesIn(after, s))
    /\ Cardinality(WakesIn(after, s)) =
          Cardinality(WakesIn(rows, s)) + IF e = Wake(s) THEN 1 ELSE 0

LEMMA WakesAfterAppend ==
    ASSUME NEW X, NEW rows, NEW x, NEW e, NEW after, Appended(X, rows, x, e, after),
           NEW s, IsFiniteSet(WakesIn(rows, s))
    PROVE  Gained(rows, after, e, s)
  <1> USE DEF Appended, Gained
  <1>0. PICK n, A, B : /\ n = Len(rows[x]) + 1
                       /\ A = WakesIn(rows, s) /\ B = WakesIn(after, s)
    OBVIOUS
  <1>1. /\ after \in [X -> Seq(Events)]
        /\ after[x] = Append(rows[x], e) /\ \A y \in X : y # x => after[y] = rows[y]
    BY SMT
  <1>2. /\ Len(after[x]) = n /\ after[x][n] = e
        /\ \A i \in 1..Len(rows[x]) : after[x][i] = rows[x][i]
    BY <1>0, <1>1, SMT
  <1>3. \A y \in X : \A i : i \in 1..Len(after[y]) /\ after[y][i] = Wake(s) <=>
           \/ i \in 1..Len(rows[y]) /\ rows[y][i] = Wake(s)
           \/ y = x /\ i = n /\ e = Wake(s)
    <2> SUFFICES ASSUME NEW y \in X, NEW i
                 PROVE  i \in 1..Len(after[y]) /\ after[y][i] = Wake(s) <=>
                           \/ i \in 1..Len(rows[y]) /\ rows[y][i] = Wake(s)
                           \/ y = x /\ i = n /\ e = Wake(s)
      OBVIOUS
    <2>1. CASE y = x
      <3>1. Len(rows[x]) \in Nat
        BY SMT
      <3>2. i \in 1..Len(after[x]) <=> i \in 1..Len(rows[x]) \/ i = n
        BY <1>0, <1>2, <3>1, SMT
      <3>3. n \notin 1..Len(rows[x])
        BY <1>0, <3>1, SMT
      <3> QED BY <1>2, <2>1, <3>2, <3>3
    <2>2. CASE y # x
      BY <1>1, <2>2
    <2> QED BY <2>1, <2>2
  <1>a. Places(X, rows, s, A) /\ Places(X, after, s, B)
    BY <1>0, <1>1, PlaceOfWake
  <1>4. \A y \in X : \A i : <<y, i>> \in B <=> \/ <<y, i>> \in A
                                               \/ y = x /\ i = n /\ e = Wake(s)
    BY <1>3, <1>a DEF Places
  <1>5. <<x, n>> \notin A
    BY <1>0, <1>a, SMT DEF Places
  <1>6. \A p \in A \cup B : p = <<p[1], p[2]>> /\ p[1] \in X
    BY <1>a DEF Places
  <1>b. ASSUME NEW p \in A \cup B
        PROVE  p \in B <=> p \in A \/ (p = <<x, n>> /\ e = Wake(s))
    <2>1. PICK y, i : y \in X /\ p = <<y, i>>
      BY <1>6
    <2>2. p = <<x, n>> <=> y = x /\ i = n
      BY <2>1
    <2> QED BY <1>4, <2>1, <2>2, SMT
  <1>7. CASE e = Wake(s)
    <2>1. <<x, n>> \in B
      BY <1>4, <1>7
    <2>2. B = A \cup {<<x, n>>}
      BY <1>b, <1>7, <2>1
    <2>3. PICK p : p = <<x, n>>
      OBVIOUS
    <2>4. IsFiniteSet(A)
      BY <1>0
    <2>5. /\ IsFiniteSet(A \cup {p})
          /\ Cardinality(A \cup {p}) = IF p \in A THEN Cardinality(A) ELSE Cardinality(A) + 1
      BY <2>4, FS_AddElement
    <2> QED BY <1>0, <1>5, <1>7, <2>2, <2>3, <2>5
  <1>8. CASE e # Wake(s)
    <2>1. B = A
      BY <1>b, <1>8
    <2>2. Cardinality(A) \in Nat
      BY <1>0, FS_CardinalityType
    <2> QED BY <1>0, <1>8, <2>1, <2>2, SMT
  <1> QED BY <1>7, <1>8

(* The first event of a row is taken. *)
TailTaken(X, rows, x, after) ==
    /\ rows \in [X -> Seq(Events)] /\ x \in X /\ rows[x] # <<>>
    /\ after = [rows EXCEPT ![x] = Tail(rows[x])]

Lost(rows, after, e, s) ==
    /\ IsFiniteSet(WakesIn(after, s))
    /\ Cardinality(WakesIn(after, s)) =
          Cardinality(WakesIn(rows, s)) - IF e = Wake(s) THEN 1 ELSE 0

LEMMA WakesAfterTail ==
    ASSUME NEW X, NEW rows, NEW x, NEW after, TailTaken(X, rows, x, after),
           NEW s, IsFiniteSet(WakesIn(rows, s))
    PROVE  Lost(rows, after, Head(rows[x]), s)
  <1> USE DEF TailTaken, Lost
  <1>0. PICK A, B : A = WakesIn(rows, s) /\ B = WakesIn(after, s)
    OBVIOUS
  <1> DEFINE C == A \ {<<x, 1>>}
             f == [p \in C |-> IF p[1] = x THEN <<x, p[2] - 1>> ELSE p]
  <1>1. /\ after \in [X -> Seq(Events)]
        /\ after[x] = Tail(rows[x]) /\ \A y \in X : y # x => after[y] = rows[y]
    BY SMT
  <1>2. /\ Len(rows[x]) \in Nat \ {0} /\ Len(after[x]) = Len(rows[x]) - 1
        /\ \A i \in 1..Len(after[x]) : after[x][i] = rows[x][i + 1]
        /\ Head(rows[x]) = rows[x][1]
    BY <1>1, SMT
  <1>a. Places(X, rows, s, A) /\ Places(X, after, s, B)
    BY <1>0, <1>1, PlaceOfWake
  <1>3. /\ \A y \in X : \A i : <<y, i>> \in B <=> i \in 1..Len(after[y]) /\ after[y][i] = Wake(s)
        /\ \A y \in X : \A i : <<y, i>> \in A <=> i \in 1..Len(rows[y]) /\ rows[y][i] = Wake(s)
    BY <1>a DEF Places
  <1>4. /\ \A p \in A : /\ p = <<p[1], p[2]>> /\ p[1] \in X
                        /\ p[2] \in 1..Len(rows[p[1]]) /\ rows[p[1]][p[2]] = Wake(s)
        /\ \A p \in B : /\ p = <<p[1], p[2]>> /\ p[1] \in X
                        /\ p[2] \in 1..Len(after[p[1]]) /\ after[p[1]][p[2]] = Wake(s)
    BY <1>a DEF Places
  <1>5. <<x, 1>> \in A <=> Head(rows[x]) = Wake(s)
    BY <1>2, <1>3, SMT
  <1>6. ASSUME NEW p \in C
        PROVE  /\ p[1] = x => <<x, p[2] - 1>> \in B /\ p[2] \in Nat \ {0, 1}
               /\ p[1] # x => p \in B
    <2>1. /\ p = <<p[1], p[2]>> /\ p[1] \in X /\ p \in A
          /\ p[2] \in 1..Len(rows[p[1]]) /\ rows[p[1]][p[2]] = Wake(s)
      BY <1>4, <1>6
    <2>2. ASSUME p[1] = x PROVE <<x, p[2] - 1>> \in B /\ p[2] \in Nat \ {0, 1}
      <3>1. p[2] # 1
        BY <1>6, <2>1, <2>2
      <3>2. p[2] - 1 \in 1..Len(after[x]) /\ (p[2] - 1) + 1 = p[2]
        BY <1>2, <2>1, <2>2, <3>1, SMT
      <3>3. after[x][p[2] - 1] = Wake(s)
        BY <1>2, <2>1, <2>2, <3>2
      <3> QED BY <1>3, <2>1, <3>1, <3>2, <3>3, SMT
    <2>3. ASSUME p[1] # x PROVE p \in B
      BY <1>1, <1>3, <2>1, <2>3, SMT
    <2> QED BY <2>2, <2>3
  <1>7. f \in [C -> B]
    BY <1>6
  <1>8. ASSUME NEW p \in C, NEW q \in C, f[p] = f[q] PROVE p = q
    <2>1. p = <<p[1], p[2]>> /\ q = <<q[1], q[2]>>
      BY <1>4
    <2>2. CASE p[1] = x /\ q[1] = x
      <3>1. <<x, p[2] - 1>> = <<x, q[2] - 1>>
        BY <1>8, <2>2
      <3>2. p[2] - 1 = q[2] - 1
        BY <3>1
      <3>3. p[2] \in Nat /\ q[2] \in Nat
        BY <1>6, <2>2
      <3>4. p[2] = q[2]
        BY <3>2, <3>3, SMT
      <3> QED BY <2>1, <2>2, <3>4
    <2>3. CASE p[1] # x /\ q[1] # x
      BY <1>8, <2>3
    <2>4. CASE p[1] = x /\ q[1] # x
      BY <1>8, <2>1, <2>4, SMT
    <2>5. CASE p[1] # x /\ q[1] = x
      BY <1>8, <2>1, <2>5, SMT
    <2> QED BY <2>2, <2>3, <2>4, <2>5
  <1>9. ASSUME NEW q \in B PROVE \E p \in C : f[p] = q
    <2>1. /\ q = <<q[1], q[2]>> /\ q[1] \in X
          /\ q[2] \in 1..Len(after[q[1]]) /\ after[q[1]][q[2]] = Wake(s)
      BY <1>4
    <2>2. CASE q[1] = x
      <3>1. q[2] + 1 \in 2..Len(rows[x]) /\ rows[x][q[2] + 1] = Wake(s)
        BY <1>2, <2>1, <2>2, SMT
      <3>2. <<x, q[2] + 1>> \in A
        BY <1>3, <3>1, SMT
      <3>3. q[2] + 1 # 1
        BY <3>1, SMT
      <3>4. <<x, q[2] + 1>> # <<x, 1>>
        BY <3>3
      <3>5. <<x, q[2] + 1>> \in C
        BY <3>2, <3>4
      <3>6. f[<<x, q[2] + 1>>] = <<x, (q[2] + 1) - 1>>
        BY <3>5
      <3>7. (q[2] + 1) - 1 = q[2]
        BY <2>1, <1>2, <2>2, SMT
      <3> QED BY <2>1, <2>2, <3>5, <3>6, <3>7
    <2>3. CASE q[1] # x
      <3>1. q \in A
        BY <1>1, <1>3, <2>1, <2>3, SMT
      <3>2. q # <<x, 1>>
        BY <2>1, <2>3, SMT
      <3> QED BY <2>3, <3>1, <3>2
    <2> QED BY <2>2, <2>3
  <1>10. /\ IsFiniteSet(C)
         /\ Cardinality(C) = IF Head(rows[x]) = Wake(s) THEN Cardinality(A) - 1
                             ELSE Cardinality(A)
    BY <1>0, <1>5, FS_RemoveElement
  <1>11. Cardinality(A) \in Nat
    BY <1>0, FS_CardinalityType
  <1> HIDE DEF f, C
  <1>12. IsFiniteSet(B) /\ Cardinality(B) = Cardinality(C)
    BY <1>7, <1>8, <1>9, <1>10, WakesBijection
  <1> QED BY <1>0, <1>10, <1>11, <1>12, SMT

(* A drain takes over the row of the subscription. *)
RowMoved(X, rows, x, y, after) ==
    /\ rows \in [X -> Seq(Events)] /\ x \in X /\ y \in X /\ x # y /\ rows[y] = <<>>
    /\ after \in [X -> Seq(Events)] /\ after[y] = rows[x] /\ after[x] = <<>>
    /\ \A z \in X \ {x, y} : after[z] = rows[z]

LEMMA WakesAfterMove ==
    ASSUME NEW X, NEW rows, NEW x, NEW y, NEW after, RowMoved(X, rows, x, y, after),
           NEW s, IsFiniteSet(WakesIn(rows, s))
    PROVE  /\ IsFiniteSet(WakesIn(after, s))
           /\ Cardinality(WakesIn(after, s)) = Cardinality(WakesIn(rows, s))
  <1> USE DEF RowMoved
  <1>0. PICK A, B : A = WakesIn(rows, s) /\ B = WakesIn(after, s)
    OBVIOUS
  <1> DEFINE f == [p \in A |-> IF p[1] = x THEN <<y, p[2]>> ELSE p]
  <1>a. Places(X, rows, s, A) /\ Places(X, after, s, B)
    BY <1>0, PlaceOfWake
  <1>1. /\ \A z \in X : \A i : <<z, i>> \in B <=> i \in 1..Len(after[z]) /\ after[z][i] = Wake(s)
        /\ \A z \in X : \A i : <<z, i>> \in A <=> i \in 1..Len(rows[z]) /\ rows[z][i] = Wake(s)
    BY <1>a DEF Places
  <1>2. /\ \A p \in A : /\ p = <<p[1], p[2]>> /\ p[1] \in X
                        /\ p[2] \in 1..Len(rows[p[1]]) /\ rows[p[1]][p[2]] = Wake(s)
        /\ \A p \in B : /\ p = <<p[1], p[2]>> /\ p[1] \in X
                        /\ p[2] \in 1..Len(after[p[1]]) /\ after[p[1]][p[2]] = Wake(s)
    BY <1>a DEF Places
  <1>3. \A p \in A : p[1] # y
    BY <1>2, SMT
  <1>4. \A p \in B : p[1] # x
    BY <1>2, SMT
  <1>5. ASSUME NEW p \in A
        PROVE  /\ p[1] = x => <<y, p[2]>> \in B
               /\ p[1] # x => p \in B
    BY <1>1, <1>2, <1>3, SMT
  <1>6. f \in [A -> B]
    BY <1>5
  <1>7. ASSUME NEW p \in A, NEW q \in A, f[p] = f[q] PROVE p = q
    <2>1. p = <<p[1], p[2]>> /\ q = <<q[1], q[2]>> /\ p[1] # y /\ q[1] # y
      BY <1>2, <1>3
    <2>2. CASE p[1] = x /\ q[1] = x
      <3>1. <<y, p[2]>> = <<y, q[2]>>
        BY <1>7, <2>2
      <3>2. p[2] = q[2]
        BY <3>1
      <3> QED BY <2>1, <2>2, <3>2
    <2>3. CASE p[1] # x /\ q[1] # x
      BY <1>7, <2>3
    <2>4. CASE p[1] = x /\ q[1] # x
      BY <1>7, <2>1, <2>4, SMT
    <2>5. CASE p[1] # x /\ q[1] = x
      BY <1>7, <2>1, <2>5, SMT
    <2> QED BY <2>2, <2>3, <2>4, <2>5
  <1>8. ASSUME NEW q \in B PROVE \E p \in A : f[p] = q
    <2>1. /\ q = <<q[1], q[2]>> /\ q[1] \in X /\ q[1] # x
          /\ q[2] \in 1..Len(after[q[1]]) /\ after[q[1]][q[2]] = Wake(s)
      BY <1>2, <1>4
    <2>2. CASE q[1] = y
      <3>1. <<x, q[2]>> \in A
        BY <1>1, <2>1, <2>2
      <3>2. f[<<x, q[2]>>] = <<y, q[2]>>
        BY <3>1
      <3> QED BY <2>1, <2>2, <3>1, <3>2
    <2>3. CASE q[1] # y
      <3>1. q \in A
        BY <1>1, <2>1, <2>3, SMT
      <3> QED BY <2>1, <3>1
    <2> QED BY <2>2, <2>3
  <1>9. IsFiniteSet(A)
    BY <1>0
  <1> HIDE DEF f
  <1>10. IsFiniteSet(B) /\ Cardinality(B) = Cardinality(A)
    BY <1>6, <1>7, <1>8, <1>9, WakesBijection
  <1> QED BY <1>0, <1>10

(***************************************************************************)
(* The types the arguments need: those of the bus and of the calls, and    *)
(* that a call in progress names its session.                              *)
(***************************************************************************)
Waiting == Drains \cup {None}

CallsOK(calls) ==
    /\ calls \in [Callers -> Calls]
    /\ \A c \in Callers : calls[c].stage # "none" => calls[c].session \in Sessions

BusTypeOK ==
    /\ runnable \in [Sessions -> Nat]
    /\ events \in Seq(Events) /\ batch \in [Drains -> Seq(Events)]
    /\ suppressed \in [Sessions -> Nat]
    /\ deferred \subseteq Sessions
    /\ CallsOK(call)
    /\ \A s \in Sessions : IsFiniteSet(WakesIn(Rows, s))

LEMMA WakeEvent == \A s \in Sessions : Wake(s) \in Events
  BY DEF Wake, Events

LEMMA RowsType ==
    ASSUME events \in Seq(Events), batch \in [Drains -> Seq(Events)]
    PROVE  /\ Rows \in [Waiting -> Seq(Events)] /\ Rows[None] = events
           /\ \A d \in Drains : Rows[d] = batch[d]
  BY DispatchBounds DEF DispatchBounds, Rows, Waiting

(* How a step changes the number of outstanding wakes of the sessions. *)
RowsKept == \A s \in Sessions :
    IsFiniteSet(WakesIn(Rows, s))' /\ Outstanding(s)' = Outstanding(s)

Published(e) == \A s \in Sessions :
    /\ IsFiniteSet(WakesIn(Rows, s))'
    /\ Outstanding(s)' = Outstanding(s) + IF e = Wake(s) THEN 1 ELSE 0

Taken(e) == \A s \in Sessions :
    /\ IsFiniteSet(WakesIn(Rows, s))'
    /\ Outstanding(s)' = Outstanding(s) - IF e = Wake(s) THEN 1 ELSE 0

LEMMA SameRows ==
    ASSUME BusTypeOK, UNCHANGED <<events, batch>>
    PROVE  RowsKept
  <1>1. Rows' = Rows
    BY DEF Rows
  <1> QED BY <1>1 DEF RowsKept, BusTypeOK, Outstanding, WakesIn

LEMMA PublishRows ==
    ASSUME BusTypeOK, NEW e \in Events, Publish(e), batch' = batch
    PROVE  Published(e) /\ events' \in Seq(Events)
  <1>0. /\ Rows \in [Waiting -> Seq(Events)] /\ Rows[None] = events
        /\ \A d \in Drains : Rows[d] = batch[d]
    BY RowsType DEF BusTypeOK
  <1>1. PICK after : after = [Rows EXCEPT ![None] = Append(Rows[None], e)]
    OBVIOUS
  <1>2. events' = Append(events, e) /\ events' \in Seq(Events)
    BY SMT DEF Publish, BusTypeOK
  <1>3. Rows' = after
    BY <1>0, <1>1, <1>2, DispatchBounds DEF DispatchBounds, Rows, Waiting
  <1>4. None \in Waiting
    BY DEF Waiting
  <1>5. ASSUME NEW s \in Sessions
        PROVE  Gained(Rows, after, e, s)
    <2>1. IsFiniteSet(WakesIn(Rows, s))
      BY DEF BusTypeOK
    <2>2. Appended(Waiting, Rows, None, e, after)
      BY <1>0, <1>1, <1>4 DEF Appended
    <2> QED BY <2>1, <2>2, WakesAfterAppend
  <1>6. \A s \in Sessions : WakesIn(Rows, s)' = WakesIn(after, s)
    BY <1>3 DEF WakesIn, Wake
  <1> QED BY <1>2, <1>5, <1>6 DEF Published, Gained, Outstanding

LEMMA TakeRows ==
    ASSUME BusTypeOK, NEW d \in Drains, batch[d] # <<>>,
           batch' = [batch EXCEPT ![d] = Tail(@)], events' = events
    PROVE  Taken(Head(batch[d])) /\ batch' \in [Drains -> Seq(Events)]
  <1>0. /\ Rows \in [Waiting -> Seq(Events)] /\ Rows[None] = events
        /\ \A x \in Drains : Rows[x] = batch[x]
    BY RowsType DEF BusTypeOK
  <1>1. PICK after : after = [Rows EXCEPT ![d] = Tail(Rows[d])]
    OBVIOUS
  <1>2. batch' \in [Drains -> Seq(Events)]
    BY SMT DEF BusTypeOK
  <1>3. Rows' = after
    BY <1>0, <1>1, DispatchBounds DEF DispatchBounds, Rows, Waiting, BusTypeOK
  <1>4. d \in Waiting /\ Rows[d] # <<>>
    BY <1>0 DEF Waiting
  <1>5. ASSUME NEW s \in Sessions
        PROVE  Lost(Rows, after, Head(Rows[d]), s)
    <2>1. IsFiniteSet(WakesIn(Rows, s))
      BY DEF BusTypeOK
    <2>2. TailTaken(Waiting, Rows, d, after)
      BY <1>0, <1>1, <1>4 DEF TailTaken
    <2> QED BY <2>1, <2>2, WakesAfterTail
  <1>6. \A s \in Sessions : WakesIn(Rows, s)' = WakesIn(after, s)
    BY <1>3 DEF WakesIn, Wake
  <1> QED BY <1>0, <1>2, <1>5, <1>6 DEF Taken, Lost, Outstanding

LEMMA DrainRows ==
    ASSUME BusTypeOK, NEW d \in Drains, batch[d] = <<>>,
           batch' = [batch EXCEPT ![d] = events], events' = <<>>
    PROVE  RowsKept /\ batch' \in [Drains -> Seq(Events)] /\ events' \in Seq(Events)
  <1>0. /\ Rows \in [Waiting -> Seq(Events)] /\ Rows[None] = events
        /\ \A x \in Drains : Rows[x] = batch[x]
    BY RowsType DEF BusTypeOK
  <1>1. batch' \in [Drains -> Seq(Events)] /\ events' \in Seq(Events)
    BY DEF BusTypeOK
  <1>2. PICK after : after = Rows'
    OBVIOUS
  <1>3. /\ after \in [Waiting -> Seq(Events)] /\ after[None] = <<>> /\ after[d] = events
        /\ \A x \in Drains \ {d} : after[x] = batch[x]
    BY <1>1, <1>2, DispatchBounds DEF DispatchBounds, Rows, Waiting, BusTypeOK
  <1>4. d \in Waiting /\ None \in Waiting /\ d # None
    BY DispatchBounds DEF DispatchBounds, Waiting
  <1>5. ASSUME NEW s \in Sessions
        PROVE  /\ IsFiniteSet(WakesIn(after, s))
               /\ Cardinality(WakesIn(after, s)) = Cardinality(WakesIn(Rows, s))
    <2>1. IsFiniteSet(WakesIn(Rows, s))
      BY DEF BusTypeOK
    <2>2. \A z \in Waiting \ {None, d} : after[z] = Rows[z]
      BY <1>0, <1>3 DEF Waiting
    <2>3. RowMoved(Waiting, Rows, None, d, after)
      BY <1>0, <1>3, <1>4, <2>2 DEF RowMoved
    <2> QED BY <2>1, <2>3, WakesAfterMove
  <1>6. \A s \in Sessions : WakesIn(Rows, s)' = WakesIn(after, s)
    BY <1>2 DEF WakesIn, Wake
  <1> QED BY <1>1, <1>5, <1>6 DEF RowsKept, Outstanding

LEMMA OutstandingType ==
    ASSUME BusTypeOK, NEW s \in Sessions
    PROVE  Outstanding(s) \in Nat
  BY FS_CardinalityType DEF BusTypeOK, Outstanding

(***************************************************************************)
(* Dispatching.                                                            *)
(***************************************************************************)
\* OneWakeInFlight, of calls and flights that a step is still computing.
FlightOf(calls, flight) ==
    /\ flight = {calls[c].session : c \in {x \in Callers : calls[x].stage \in InFlightStages}}
    /\ \A c, x \in Callers :
          /\ calls[c].stage \in InFlightStages /\ calls[x].stage \in InFlightStages
          /\ calls[c].session = calls[x].session
          => c = x

LEMMA NoCallFields ==
    /\ NoCall \in Calls /\ NoCall.stage = "none" /\ NoCall.stage \notin InFlightStages
    /\ \A s : NoCall # [session |-> s, stage |-> "preparing"]
  BY DEF NoCall, Calls, Stages, InFlightStages

(* A dispatch leaves the other calls alone, keeps the sessions in flight   *)
(* apart, and ends in a deferral, a drop or a call that prepares the wake. *)
Dispatched(c, s, deferrals, calls) ==
    /\ CallsOK(call') /\ FlightOf(call', inFlight')
    /\ deferred' \in SUBSET Sessions /\ deferrals \subseteq deferred'
    /\ dropped \subseteq dropped'
    /\ \/ s \in deferred' \cup dropped'
       \/ call'[c] = [session |-> s, stage |-> "preparing"]
    /\ \A x \in Callers : x # c => call'[x] = calls[x]

LEMMA DispatchEffect ==
    ASSUME NEW c \in Callers, NEW s \in Sessions, NEW deferrals \in SUBSET Sessions,
           NEW calls, CallsOK(calls), calls[c] = NoCall, FlightOf(calls, inFlight),
           DispatchWake(c, s, deferrals, calls)
    PROVE  Dispatched(c, s, deferrals, calls)
  <1>0. calls \in [Callers -> Calls]
    BY DEF CallsOK
  <1>1. CASE s \in inFlight
    BY <1>1 DEF DispatchWake, DeferWake, Dispatched
  <1>2. ASSUME NEW st \in {"settling", "preparing"}, s \notin inFlight,
               call' = [calls EXCEPT ![c] = [session |-> s, stage |-> st]],
               inFlight' = IF st = "preparing" THEN inFlight \cup {s} ELSE inFlight
        PROVE  /\ CallsOK(call') /\ FlightOf(call', inFlight')
               /\ call'[c] = [session |-> s, stage |-> st]
               /\ \A x \in Callers : x # c => call'[x] = calls[x]
    <2>1. /\ call'[c] = [session |-> s, stage |-> st]
          /\ \A x \in Callers : x # c => call'[x] = calls[x]
      BY <1>0, <1>2
    <2>2. call'[c].session = s /\ call'[c].stage = st
      BY <2>1, SMT
    <2>3. CallsOK(call')
      <3>1. [session |-> s, stage |-> st] \in Calls
        BY DEF Calls, Stages
      <3>2. call' \in [Callers -> Calls]
        BY <1>0, <1>2, <3>1
      <3> QED BY <2>1, <2>2, <3>2 DEF CallsOK
    <2>4. calls[c].stage \notin InFlightStages
      BY NoCallFields
    <2>5. CASE st = "settling"
      <3>1. call'[c].stage \notin InFlightStages
        BY <2>2, <2>5 DEF InFlightStages
      <3>2. {x \in Callers : call'[x].stage \in InFlightStages}
               = {x \in Callers : calls[x].stage \in InFlightStages}
        BY <2>1, <2>4, <3>1
      <3>3. c \notin {x \in Callers : call'[x].stage \in InFlightStages}
        BY <3>1
      <3>4. FlightOf(call', inFlight')
        BY <1>2, <2>1, <2>5, <3>1, <3>2, <3>3, SMT DEF FlightOf
      <3> QED BY <2>1, <2>3, <3>4
    <2>6. CASE st = "preparing"
      <3>1. call'[c].stage \in InFlightStages
        BY <2>2, <2>6 DEF InFlightStages
      <3>2. \A x \in Callers \ {c} :
               call'[x].stage \in InFlightStages => call'[x].session # s
        BY <1>2, <2>1 DEF FlightOf
      <3>3. {call'[x].session : x \in {y \in Callers : call'[y].stage \in InFlightStages}}
               = inFlight \cup {s}
        BY <2>1, <2>2, <2>4, <3>1, SMT DEF FlightOf
      <3>4. inFlight' = inFlight \cup {s}
        BY <1>2, <2>6
      <3>5. ASSUME NEW x \in Callers, NEW y \in Callers, call'[x].stage \in InFlightStages,
                   call'[y].stage \in InFlightStages, call'[x].session = call'[y].session
            PROVE  x = y
        <4>1. CASE x = c \/ y = c
          BY <2>2, <3>2, <3>5, <4>1
        <4>2. CASE x # c /\ y # c
          BY <2>1, <3>5, <4>2 DEF FlightOf
        <4> QED BY <4>1, <4>2
      <3>6. FlightOf(call', inFlight')
        BY <3>3, <3>4, <3>5 DEF FlightOf
      <3> QED BY <2>1, <2>3, <3>6
    <2> QED BY <2>5, <2>6
  <1>3. CASE s \notin inFlight /\ s \in archived \cup paused
    <2>1. /\ deferred' = deferrals /\ dropped' = dropped \cup {s} /\ inFlight' = inFlight
          /\ call' = [calls EXCEPT ![c] = [session |-> s, stage |-> "settling"]]
      BY <1>3 DEF DispatchWake
    <2> QED BY <1>2, <1>3, <2>1 DEF Dispatched
  <1>4. CASE s \notin inFlight /\ s \notin archived \cup paused
    <2>1. /\ deferred' = deferrals /\ dropped' = dropped /\ inFlight' = inFlight \cup {s}
          /\ call' = [calls EXCEPT ![c] = [session |-> s, stage |-> "preparing"]]
      BY <1>4 DEF DispatchWake
    <2> QED BY <1>2, <1>4, <2>1 DEF Dispatched
  <1> QED BY <1>1, <1>3, <1>4

(* A call in flight reaches its next stage. *)
LEMMA StageEffect ==
    ASSUME CallsOK(call), FlightOf(call, inFlight), NEW c \in Callers,
           call[c].stage \in InFlightStages, NEW st \in InFlightStages \cup {"settling"},
           Stage(c, st),
           inFlight' = IF st = "settling" THEN inFlight \ {call[c].session} ELSE inFlight
    PROVE  /\ CallsOK(call') /\ FlightOf(call', inFlight')
           /\ \A x \in Callers : x # c => call'[x] = call[x]
           /\ call[c].session \in Sessions
  <1>0. call \in [Callers -> Calls] /\ call[c].session \in Sessions
    BY DEF CallsOK, InFlightStages
  <1>1. PICK r : r = [call[c] EXCEPT !.stage = st]
    OBVIOUS
  <1>2. r.session = call[c].session /\ r.stage = st /\ r \in Calls
    BY <1>0, <1>1 DEF Calls, Stages, InFlightStages
  <1>3. call'[c] = r /\ \A x \in Callers : x # c => call'[x] = call[x]
    BY <1>0, <1>1 DEF Stage
  <1>4. call' \in [Callers -> Calls]
    BY <1>0, <1>1, <1>2 DEF Stage
  <1>5. CallsOK(call')
    BY <1>0, <1>2, <1>3, <1>4 DEF CallsOK
  <1>6. \A x, y \in Callers : /\ call'[x].stage \in InFlightStages
                              /\ call'[y].stage \in InFlightStages
                              /\ call'[x].session = call'[y].session
                              => x = y
    BY <1>2, <1>3 DEF FlightOf
  <1>7. CASE st \in InFlightStages
    <2>1. inFlight' = inFlight
      BY <1>7 DEF InFlightStages
    <2>2. {call'[x].session : x \in {y \in Callers : call'[y].stage \in InFlightStages}}
             = inFlight
      BY <1>2, <1>3, <1>7, SMT DEF FlightOf
    <2> QED BY <1>0, <1>3, <1>5, <1>6, <2>1, <2>2 DEF FlightOf
  <1>8. CASE st = "settling"
    <2>1. call'[c].stage \notin InFlightStages
      BY <1>2, <1>3, <1>8 DEF InFlightStages
    <2>2. {call'[x].session : x \in {y \in Callers : call'[y].stage \in InFlightStages}}
             = inFlight \ {call[c].session}
      <3>1. ASSUME NEW x \in Callers, call'[x].stage \in InFlightStages
            PROVE  call'[x].session \in inFlight \ {call[c].session}
        BY <1>3, <2>1, <3>1 DEF FlightOf
      <3>2. ASSUME NEW s \in inFlight, s # call[c].session
            PROVE  \E x \in Callers : call'[x].stage \in InFlightStages /\ call'[x].session = s
        BY <1>3, <3>2 DEF FlightOf
      <3> QED BY <3>1, <3>2
    <2> QED BY <1>0, <1>3, <1>5, <1>6, <1>8, <2>2 DEF FlightOf
  <1> QED BY <1>7, <1>8

(***************************************************************************)
(* The wake that is coming.                                                *)
(***************************************************************************)
LEMMA ComingKept ==
    ASSUME BusTypeOK, BusTypeOK', NEW s \in Sessions, WakeComing(s),
           Outstanding(s)' - suppressed'[s] >= Outstanding(s) - suppressed[s],
           s \in deferred => WakeComing(s)' \/ s \in deferred',
           \A x \in Callers : call[x] = [session |-> s, stage |-> "preparing"]
                                 => WakeComing(s)' \/ call'[x] = call[x]
    PROVE  WakeComing(s)'
  <1>1. /\ Outstanding(s) \in Nat /\ Outstanding(s)' \in Nat
        /\ suppressed[s] \in Nat /\ suppressed'[s] \in Nat
    BY OutstandingType, FS_CardinalityType DEF BusTypeOK, Outstanding
  <1>2. CASE Outstanding(s) > suppressed[s]
    <2>1. Outstanding(s)' > suppressed'[s]
      BY <1>1, <1>2, SMT
    <2> QED BY <2>1 DEF WakeComing
  <1>3. CASE s \in deferred
    BY <1>3 DEF WakeComing
  <1>4. CASE \E x \in Callers : call[x] = [session |-> s, stage |-> "preparing"]
    BY <1>4 DEF WakeComing
  <1> QED BY <1>2, <1>3, <1>4 DEF WakeComing

(***************************************************************************)
(* The inductive invariant.                                                *)
(***************************************************************************)
DispatchInv ==
    /\ BusTypeOK /\ OneWakeInFlight /\ SuppressionHasEvent /\ RunnableTurnHasWake

LEMMA WakesDiffer == \A s, x : Wake(s) = Wake(x) <=> s = x
  BY DEF Wake

LEMMA OutstandingTypeNext ==
    ASSUME BusTypeOK'
    PROVE  \A s \in Sessions : Outstanding(s)' \in Nat /\ suppressed'[s] \in Nat
  BY FS_CardinalityType DEF BusTypeOK, Outstanding

LEMMA FlightIs == OneWakeInFlight <=> FlightOf(call, inFlight)
  BY DEF OneWakeInFlight, FlightOf

LEMMA FlightIsNext == OneWakeInFlight' <=> FlightOf(call', inFlight')
  BY DEF OneWakeInFlight, FlightOf

(* What is left to show of a step once the types, the flights and the      *)
(* suppressions are settled.                                               *)
LEMMA StepCloses ==
    ASSUME DispatchInv, BusTypeOK', FlightOf(call', inFlight'), SuppressionHasEvent',
           dropped \subseteq dropped', archived \subseteq archived',
           \A s \in Sessions : \/ s \in dropped' \/ runnable'[s] # 1 \/ WakeComing(s)'
                               \/ runnable[s] = 1 /\ (WakeComing(s) => WakeComing(s)')
    PROVE  DispatchInv'
  <1>1. RunnableTurnHasWake'
    BY DEF DispatchInv, RunnableTurnHasWake
  <1> QED BY <1>1, FlightIsNext DEF DispatchInv

(* A call in flight moves on, and may publish the wake of a turn of its    *)
(* session that became runnable.                                           *)
LEMMA CallMoves ==
    ASSUME DispatchInv, NEW c \in Callers, call[c].stage \in InFlightStages,
           NEW st \in {"driving", "finishing", "settling"}, Stage(c, st),
           inFlight' = IF st = "settling" THEN inFlight \ {call[c].session} ELSE inFlight,
           UNCHANGED <<batch, suppressed, deferred, archived>>, dropped \subseteq dropped',
           runnable' \in [Sessions -> Nat],
           \A s \in Sessions : s # call[c].session => runnable'[s] = runnable[s],
           \/ Publish(Wake(call[c].session))
           \/ /\ events' = events
              /\ \/ call[c].session \in dropped'
                 \/ runnable'[call[c].session] = 0
                 \/ runnable'[call[c].session] = runnable[call[c].session]
                    /\ call[c].stage # "preparing"
    PROVE  DispatchInv'
  <1>0. /\ BusTypeOK /\ CallsOK(call) /\ FlightOf(call, inFlight)
        /\ events \in Seq(Events) /\ suppressed \in [Sessions -> Nat]
    BY FlightIs DEF DispatchInv, BusTypeOK
  <1>1. /\ CallsOK(call') /\ FlightOf(call', inFlight')
        /\ \A x \in Callers : x # c => call'[x] = call[x]
        /\ call[c].session \in Sessions
    <2>1. st \in InFlightStages \cup {"settling"}
      BY DEF InFlightStages
    <2> QED BY <1>0, <2>1, StageEffect
  <1>2. PICK s0 \in Sessions : s0 = call[c].session
    BY <1>1
  <1>3. /\ events' \in Seq(Events)
        /\ \/ Publish(Wake(s0)) /\ Published(Wake(s0))
           \/ ~Publish(Wake(s0)) /\ events' = events /\ RowsKept
    <2>1. CASE Publish(Wake(s0))
      BY <1>0, <2>1, PublishRows, WakeEvent
    <2>2. CASE ~Publish(Wake(s0)) /\ events' = events
      BY <1>0, <2>2, SameRows
    <2> QED BY <1>2, <2>1, <2>2
  <1>4. BusTypeOK'
    <2>1. \A s \in Sessions : IsFiniteSet(WakesIn(Rows, s))'
      BY <1>3 DEF Published, RowsKept
    <2>2. /\ batch' \in [Drains -> Seq(Events)] /\ suppressed' \in [Sessions -> Nat]
          /\ deferred' \subseteq Sessions
      BY <1>0 DEF BusTypeOK
    <2> QED BY <1>1, <1>3, <2>1, <2>2 DEF BusTypeOK
  <1>5. \A s \in Sessions : Outstanding(s) \in Nat /\ suppressed[s] \in Nat
                            /\ suppressed[s] <= Outstanding(s)
    BY <1>0, OutstandingType DEF DispatchInv, SuppressionHasEvent
  <1>6. \A s \in Sessions : Outstanding(s)' >= Outstanding(s) /\ Outstanding(s)' \in Nat
    BY <1>3, <1>5, SMT DEF Published, RowsKept
  <1>7. SuppressionHasEvent'
    BY <1>5, <1>6, SMT DEF SuppressionHasEvent
  <1>8. ASSUME NEW s \in Sessions, s # s0, WakeComing(s)
        PROVE  WakeComing(s)'
    <2>1. \A x \in Callers : call[x] = [session |-> s, stage |-> "preparing"]
                                => call'[x] = call[x]
      BY <1>1, <1>2, <1>8, SMT
    <2>2. Outstanding(s)' - suppressed'[s] >= Outstanding(s) - suppressed[s]
      BY <1>5, <1>6, SMT
    <2> QED BY <1>0, <1>4, <1>8, <2>1, <2>2, ComingKept
  <1>9. \/ s0 \in dropped' \/ runnable'[s0] # 1 \/ WakeComing(s0)'
        \/ runnable[s0] = 1 /\ (WakeComing(s0) => WakeComing(s0)')
    <2>1. CASE Publish(Wake(s0)) /\ Published(Wake(s0))
      <3>1. Outstanding(s0)' = Outstanding(s0) + 1
        BY <2>1 DEF Published
      <3>2. Outstanding(s0)' > suppressed'[s0]
        BY <1>5, <3>1, SMT
      <3> QED BY <3>2 DEF WakeComing
    <2>2. CASE events' = events /\ s0 \in dropped'
      BY <2>2
    <2>3. CASE runnable'[s0] = 0
      BY <2>3, SMT
    <2>4. CASE runnable'[s0] = runnable[s0] /\ call[c].stage # "preparing"
      <3>1. \A x \in Callers : call[x] = [session |-> s0, stage |-> "preparing"]
                                => call'[x] = call[x]
        BY <1>1, <2>4, SMT
      <3>2. Outstanding(s0)' - suppressed'[s0] >= Outstanding(s0) - suppressed[s0]
        BY <1>5, <1>6, SMT
      <3>3. WakeComing(s0) => WakeComing(s0)'
        BY <1>0, <1>4, <3>1, <3>2, ComingKept
      <3> QED BY <2>4, <3>3
    <2> QED BY <1>2, <1>3, <2>1, <2>2, <2>3, <2>4
  <1>10. \A s \in Sessions : \/ s \in dropped' \/ runnable'[s] # 1 \/ WakeComing(s)'
                             \/ runnable[s] = 1 /\ (WakeComing(s) => WakeComing(s)')
    BY <1>2, <1>8, <1>9
  <1> QED BY <1>1, <1>4, <1>7, <1>10, StepCloses

LEMMA CallStepKeeps ==
    ASSUME DispatchInv, NEW c \in Callers,
           PrepareFails(c) \/ BuildWake(c)
           \/ (\E outcome \in {"ended", "yielded", "attention"} : WakeEnds(c, outcome))
           \/ ReleaseWake(c)
    PROVE  DispatchInv'
  <1>0. /\ runnable \in [Sessions -> Nat] /\ call \in [Callers -> Calls]
        /\ call[c].stage # "none" => call[c].session \in Sessions
    BY DEF DispatchInv, BusTypeOK, CallsOK
  <1>1. CASE PrepareFails(c)
    <2>1. call[c].stage \in InFlightStages /\ call[c].session \in Sessions
      BY <1>0, <1>1 DEF PrepareFails, InFlightStages
    <2>2. /\ Stage(c, "finishing") /\ UNCHANGED <<batch, suppressed, deferred, archived>>
          /\ dropped \subseteq dropped' /\ call[c].session \in dropped'
          /\ inFlight' = inFlight /\ events' = events /\ runnable' = runnable
      BY <1>1 DEF PrepareFails, turnVars, busVars, modeVars
    <2> QED BY <1>0, <2>1, <2>2, CallMoves
  <1>2. CASE BuildWake(c)
    <2>1. call[c].stage \in InFlightStages /\ call[c].session \in Sessions
      BY <1>0, <1>2 DEF BuildWake, InFlightStages
    <2>2. /\ Stage(c, "driving") /\ UNCHANGED <<batch, suppressed, deferred, archived>>
          /\ dropped \subseteq dropped' /\ inFlight' = inFlight /\ events' = events
          /\ runnable' = [runnable EXCEPT ![call[c].session] = 0]
      BY <1>2 DEF BuildWake, busVars, modeVars
    <2>3. /\ runnable' \in [Sessions -> Nat] /\ runnable'[call[c].session] = 0
          /\ \A s \in Sessions : s # call[c].session => runnable'[s] = runnable[s]
      BY <1>0, <2>1, <2>2
    <2> QED BY <2>1, <2>2, <2>3, CallMoves
  <1>3. ASSUME NEW outcome \in {"ended", "yielded", "attention"}, WakeEnds(c, outcome)
        PROVE  DispatchInv'
    <2>1. /\ call[c].stage \in InFlightStages /\ call[c].session \in Sessions
          /\ call[c].stage # "preparing"
      BY <1>0, <1>3 DEF WakeEnds, InFlightStages
    <2>2. /\ Stage(c, "finishing") /\ UNCHANGED <<batch, suppressed, deferred, archived>>
          /\ dropped \subseteq dropped' /\ inFlight' = inFlight
      BY <1>3 DEF WakeEnds, modeVars
    <2>3. \/ runnable' = runnable /\ events' = events
          \/ /\ runnable' = [runnable EXCEPT ![call[c].session] = @ + 1]
             /\ Publish(Wake(call[c].session))
      BY <1>3 DEF WakeEnds, turnVars
    <2>4. /\ runnable' \in [Sessions -> Nat]
          /\ \A s \in Sessions : s # call[c].session => runnable'[s] = runnable[s]
      BY <1>0, <2>1, <2>3, SMT
    <2> QED BY <2>1, <2>2, <2>3, <2>4, CallMoves
  <1>4. CASE ReleaseWake(c)
    <2>1. /\ call[c].stage \in InFlightStages /\ call[c].session \in Sessions
          /\ call[c].stage # "preparing"
      BY <1>0, <1>4 DEF ReleaseWake, InFlightStages
    <2>2. /\ Stage(c, "settling") /\ UNCHANGED <<batch, suppressed, deferred, archived>>
          /\ dropped \subseteq dropped' /\ inFlight' = inFlight \ {call[c].session}
          /\ events' = events /\ runnable' = runnable
      BY <1>4 DEF ReleaseWake, turnVars, busVars, modeVars
    <2> QED BY <1>0, <2>1, <2>2, CallMoves
  <1> QED BY <1>1, <1>2, <1>3, <1>4

(* The type invariant after a step that keeps or publishes events. *)
LEMMA TypeKept ==
    ASSUME BusTypeOK, runnable' \in [Sessions -> Nat], suppressed' \in [Sessions -> Nat],
           events' \in Seq(Events), batch' \in [Drains -> Seq(Events)],
           deferred' \subseteq Sessions, CallsOK(call'),
           RowsKept \/ \E e : Published(e) \/ Taken(e)
    PROVE  BusTypeOK'
  <1>1. \A s \in Sessions : IsFiniteSet(WakesIn(Rows, s))'
    BY DEF RowsKept, Published, Taken
  <1> QED BY <1>1 DEF BusTypeOK

(* A step that dispatches a wake of s0: the other sessions keep the wake   *)
(* they wait for, and s0 is deferred, dropped or prepared.                 *)
LEMMA DispatchKeeps ==
    ASSUME DispatchInv, BusTypeOK', SuppressionHasEvent', NEW m \in Callers,
           NEW s0 \in Sessions, NEW deferrals \in SUBSET Sessions, NEW calls,
           CallsOK(calls), calls[m] = NoCall, FlightOf(calls, inFlight),
           DispatchWake(m, s0, deferrals, calls), deferred \ {s0} \subseteq deferrals,
           \A x \in Callers : call[x].stage = "preparing" => calls[x] = call[x],
           \A s \in Sessions \ {s0} :
              Outstanding(s)' - suppressed'[s] >= Outstanding(s) - suppressed[s],
           UNCHANGED <<archived, runnable>>
    PROVE  DispatchInv'
  <1>1. /\ CallsOK(call') /\ FlightOf(call', inFlight')
        /\ deferred' \in SUBSET Sessions /\ deferrals \subseteq deferred'
        /\ dropped \subseteq dropped'
        /\ \/ s0 \in deferred' \cup dropped'
           \/ call'[m] = [session |-> s0, stage |-> "preparing"]
        /\ \A x \in Callers : x # m => call'[x] = calls[x]
    <2>1. Dispatched(m, s0, deferrals, calls)
      BY DispatchEffect
    <2> QED BY <2>1 DEF Dispatched
  <1>2. s0 \in dropped' \/ WakeComing(s0)'
    BY <1>1 DEF WakeComing
  <1>3. ASSUME NEW s \in Sessions, s # s0, WakeComing(s)
        PROVE  WakeComing(s)'
    <2>1. \A x \in Callers : call[x] = [session |-> s, stage |-> "preparing"]
                                => call'[x] = call[x]
      <3> SUFFICES ASSUME NEW x \in Callers, call[x] = [session |-> s, stage |-> "preparing"]
                   PROVE  call'[x] = call[x]
        OBVIOUS
      <3>1. calls[x] = call[x]
        BY SMT
      <3>2. x # m
        BY <3>1, NoCallFields
      <3> QED BY <1>1, <3>1, <3>2
    <2>2. s \in deferred => s \in deferred'
      BY <1>1, <1>3
    <2> QED BY <1>3, <2>1, <2>2, ComingKept DEF DispatchInv
  <1>4. \A s \in Sessions : \/ s \in dropped' \/ runnable'[s] # 1 \/ WakeComing(s)'
                            \/ runnable[s] = 1 /\ (WakeComing(s) => WakeComing(s)')
    BY <1>2, <1>3
  <1> QED BY <1>1, <1>4, StepCloses

LEMMA SettledCalls ==
    ASSUME CallsOK(call), FlightOf(call, inFlight), NEW c \in Callers,
           call[c].stage = "settling", NEW done, done = [call EXCEPT ![c] = NoCall]
    PROVE  /\ CallsOK(done) /\ FlightOf(done, inFlight)
           /\ \A x \in Callers : call[x].stage = "preparing" => done[x] = call[x]
           /\ call[c].session \in Sessions
  <1>0. call \in [Callers -> Calls] /\ call[c].session \in Sessions
    BY DEF CallsOK
  <1>1. done[c] = NoCall /\ \A x \in Callers : x # c => done[x] = call[x]
    BY <1>0
  <1>2. CallsOK(done)
    BY <1>0, <1>1, NoCallFields DEF CallsOK
  <1>3. call[c].stage \notin InFlightStages /\ done[c].stage \notin InFlightStages
    BY <1>1, NoCallFields DEF InFlightStages
  <1>4. \A x \in Callers : /\ done[x].stage \in InFlightStages <=> call[x].stage \in InFlightStages
                           /\ call[x].stage \in InFlightStages => done[x] = call[x]
    BY <1>1, <1>3
  <1>5. {x \in Callers : done[x].stage \in InFlightStages}
           = {x \in Callers : call[x].stage \in InFlightStages}
    BY <1>4
  <1>6. FlightOf(done, inFlight)
    BY <1>4, <1>5, SMT DEF FlightOf
  <1> QED BY <1>0, <1>1, <1>2, <1>6

LEMMA WakeSettledKeeps ==
    ASSUME DispatchInv, NEW c \in Callers, WakeSettled(c)
    PROVE  DispatchInv'
  <1>0. /\ BusTypeOK /\ CallsOK(call) /\ FlightOf(call, inFlight) /\ SuppressionHasEvent
        /\ deferred \subseteq Sessions
    BY FlightIs DEF DispatchInv, BusTypeOK
  <1>1. /\ call[c].stage = "settling"
        /\ UNCHANGED <<runnable, events, batch, suppressed, archived>>
    BY DEF WakeSettled, turnVars, busVars, modeVars
  <1>2. PICK done : done = [call EXCEPT ![c] = NoCall]
    OBVIOUS
  <1>3. /\ CallsOK(done) /\ FlightOf(done, inFlight)
        /\ \A x \in Callers : call[x].stage = "preparing" => done[x] = call[x]
        /\ call[c].session \in Sessions
    BY <1>0, <1>1, <1>2, SettledCalls
  <1>4. RowsKept
    BY <1>0, <1>1, SameRows
  <1>5. \A s \in Sessions : Outstanding(s) \in Nat /\ Outstanding(s)' = Outstanding(s)
                            /\ suppressed'[s] = suppressed[s] /\ suppressed[s] \in Nat
    BY <1>0, <1>1, <1>4, OutstandingType DEF RowsKept, BusTypeOK
  <1>6. \A s \in Sessions :
           Outstanding(s)' - suppressed'[s] >= Outstanding(s) - suppressed[s]
    BY <1>5, SMT
  <1>7. SuppressionHasEvent'
    BY <1>0, <1>5 DEF SuppressionHasEvent
  <1>8. ASSUME CallsOK(call'), deferred' \subseteq Sessions
        PROVE  BusTypeOK'
    <2>1. /\ runnable' \in [Sessions -> Nat] /\ suppressed' \in [Sessions -> Nat]
          /\ events' \in Seq(Events) /\ batch' \in [Drains -> Seq(Events)]
      BY <1>0, <1>1 DEF BusTypeOK
    <2> QED BY <1>0, <1>4, <1>8, <2>1, TypeKept
  <1>9. CASE call[c].session \in deferred
    <2>1. PICK m \in Micros : /\ done[m] = NoCall
                              /\ DispatchWake(m, call[c].session,
                                              deferred \ {call[c].session}, done)
      BY <1>2, <1>9 DEF WakeSettled
    <2>2. m \in Callers /\ deferred \ {call[c].session} \in SUBSET Sessions
      BY <1>0 DEF Callers
    <2>3. Dispatched(m, call[c].session, deferred \ {call[c].session}, done)
      BY <1>3, <2>1, <2>2, DispatchEffect
    <2>4. BusTypeOK'
      BY <1>8, <2>3 DEF Dispatched
    <2> QED BY <1>1, <1>3, <1>6, <1>7, <2>1, <2>2, <2>4, DispatchKeeps
  <1>10. CASE call[c].session \notin deferred
    <2>1. call' = done /\ UNCHANGED <<inFlight, deferred, dropped>>
      BY <1>2, <1>10 DEF WakeSettled
    <2>2. BusTypeOK'
      BY <1>0, <1>3, <1>8, <2>1
    <2>3. ASSUME NEW s \in Sessions, WakeComing(s)
          PROVE  WakeComing(s)'
      <3>1. \A x \in Callers : call[x] = [session |-> s, stage |-> "preparing"]
                                  => call'[x] = call[x]
        BY <1>3, <2>1, SMT
      <3> QED BY <1>0, <1>6, <2>1, <2>2, <2>3, <3>1, ComingKept
    <2>4. \A s \in Sessions : \/ runnable'[s] # 1
                              \/ runnable[s] = 1 /\ (WakeComing(s) => WakeComing(s)')
      BY <1>1, <2>3
    <2>5. FlightOf(call', inFlight')
      BY <1>3, <2>1
    <2> QED BY <1>1, <1>7, <2>1, <2>2, <2>4, <2>5, StepCloses
  <1> QED BY <1>9, <1>10

LEMMA DrainKeeps ==
    ASSUME DispatchInv, NEW d \in Drains, Drain(d)
    PROVE  DispatchInv'
  <1>0. BusTypeOK /\ CallsOK(call) /\ FlightOf(call, inFlight) /\ SuppressionHasEvent
    BY FlightIs DEF DispatchInv, BusTypeOK
  <1>1. /\ batch[d] = <<>> /\ batch' = [batch EXCEPT ![d] = events] /\ events' = <<>>
        /\ UNCHANGED <<runnable, call, inFlight, deferred, suppressed, archived, dropped>>
    BY DEF Drain, IdleDrain, turnVars, wakeVars, modeVars
  <1>2. RowsKept /\ batch' \in [Drains -> Seq(Events)] /\ events' \in Seq(Events)
    BY <1>0, <1>1, DrainRows
  <1>3. /\ runnable' \in [Sessions -> Nat] /\ suppressed' \in [Sessions -> Nat]
        /\ deferred' \subseteq Sessions /\ CallsOK(call') /\ FlightOf(call', inFlight')
    BY <1>0, <1>1 DEF BusTypeOK
  <1>4. BusTypeOK'
    BY <1>0, <1>2, <1>3, TypeKept
  <1>5. \A s \in Sessions : Outstanding(s) \in Nat /\ Outstanding(s)' = Outstanding(s)
                            /\ suppressed'[s] = suppressed[s] /\ suppressed[s] \in Nat
    BY <1>0, <1>1, <1>2, OutstandingType DEF RowsKept, BusTypeOK
  <1>6. SuppressionHasEvent'
    BY <1>0, <1>5 DEF SuppressionHasEvent
  <1>7. ASSUME NEW s \in Sessions, WakeComing(s)
        PROVE  WakeComing(s)'
    <2>1. Outstanding(s)' - suppressed'[s] >= Outstanding(s) - suppressed[s]
      BY <1>5, SMT
    <2> QED BY <1>0, <1>1, <1>4, <1>7, <2>1, ComingKept
  <1>8. \A s \in Sessions : \/ runnable'[s] # 1
                            \/ runnable[s] = 1 /\ (WakeComing(s) => WakeComing(s)')
    BY <1>1, <1>7
  <1> QED BY <1>1, <1>3, <1>4, <1>6, <1>8, StepCloses

LEMMA ProcessEventKeeps ==
    ASSUME DispatchInv, NEW d \in Drains, ProcessEvent(d)
    PROVE  DispatchInv'
  <1>0. /\ BusTypeOK /\ CallsOK(call) /\ FlightOf(call, inFlight) /\ SuppressionHasEvent
        /\ deferred \in SUBSET Sessions /\ suppressed \in [Sessions -> Nat]
        /\ batch \in [Drains -> Seq(Events)] /\ d \in Callers
    BY FlightIs DEF DispatchInv, BusTypeOK, Callers
  <1>1. PICK e : e = Head(batch[d])
    OBVIOUS
  <1>2. /\ call[d] = NoCall /\ batch[d] # <<>> /\ events' = events
        /\ batch' = [batch EXCEPT ![d] = Tail(@)]
        /\ suppressed' = ConsumeSuppressed(e.session)
        /\ IF e.kind = "wake" /\ suppressed[e.session] = 0
           THEN DispatchWake(d, e.session, deferred, call)
           ELSE UNCHANGED <<call, inFlight, deferred, dropped>>
        /\ UNCHANGED <<runnable, archived>>
    BY <1>1 DEF ProcessEvent, turnVars, modeVars
  <1>3. e \in Events /\ e.session \in Sessions
    <2>1. e \in Events
      BY <1>0, <1>1, <1>2, SMT
    <2> QED BY <2>1 DEF Events
  <1>4. PICK s0 \in Sessions : s0 = e.session
    BY <1>3
  <1>5. Taken(e) /\ batch' \in [Drains -> Seq(Events)]
    BY <1>0, <1>1, <1>2, TakeRows
  <1>6. /\ suppressed' \in [Sessions -> Nat]
        /\ suppressed'[s0] = IF suppressed[s0] = 0 THEN 0 ELSE suppressed[s0] - 1
        /\ \A s \in Sessions \ {s0} : suppressed'[s] = suppressed[s]
    BY <1>0, <1>2, <1>4, SMT DEF ConsumeSuppressed
  <1>7. \A s \in Sessions : e = Wake(s) => s = s0
    BY <1>4, SMT DEF Wake
  <1>8. e.kind = "wake" => e = Wake(s0)
    BY <1>3, <1>4 DEF Wake, Events
  <1>9. /\ \A s \in Sessions \ {s0} : Outstanding(s)' = Outstanding(s)
        /\ Outstanding(s0)' = Outstanding(s0) - IF e = Wake(s0) THEN 1 ELSE 0
    BY <1>0, <1>5, <1>7, OutstandingType, SMT DEF Taken
  <1>10. ASSUME CallsOK(call'), deferred' \subseteq Sessions
         PROVE  BusTypeOK'
    <2>1. events' \in Seq(Events) /\ runnable' \in [Sessions -> Nat]
      BY <1>0, <1>2 DEF BusTypeOK
    <2> QED BY <1>0, <1>5, <1>6, <1>10, <2>1, TypeKept
  <1>11. \A s \in Sessions : Outstanding(s) \in Nat /\ suppressed[s] \in Nat
                             /\ suppressed[s] <= Outstanding(s)
    BY <1>0, OutstandingType DEF SuppressionHasEvent
  <1>12. CASE e.kind = "wake" /\ suppressed[s0] = 0
    <2>1. DispatchWake(d, s0, deferred, call)
      BY <1>2, <1>4, <1>12
    <2>2. Dispatched(d, s0, deferred, call)
      BY <1>0, <1>2, <2>1, DispatchEffect
    <2>3. BusTypeOK'
      BY <1>10, <2>2 DEF Dispatched
    <2>4. SuppressionHasEvent'
      <3>1. \A s \in Sessions : Outstanding(s)' \in Nat
        BY <2>3, OutstandingTypeNext
      <3>2. suppressed'[s0] = 0
        BY <1>6, <1>12
      <3>3. \A s \in Sessions : suppressed'[s] <= Outstanding(s)'
        BY <1>6, <1>9, <1>11, <3>1, <3>2, SMT
      <3> QED BY <3>3 DEF SuppressionHasEvent
    <2>5. \A s \in Sessions \ {s0} :
             Outstanding(s)' - suppressed'[s] >= Outstanding(s) - suppressed[s]
      BY <1>6, <1>9, <1>11, SMT
    <2> QED BY <1>0, <1>2, <2>1, <2>3, <2>4, <2>5, DispatchKeeps
  <1>13. CASE ~(e.kind = "wake" /\ suppressed[s0] = 0)
    <2>1. UNCHANGED <<call, inFlight, deferred, dropped>>
      BY <1>2, <1>4, <1>13
    <2>2. BusTypeOK'
      BY <1>0, <1>10, <2>1
    <2>3. e = Wake(s0) => suppressed[s0] # 0
      <3>1. e = Wake(s0) => e.kind = "wake"
        BY SMT DEF Wake
      <3> QED BY <1>13, <3>1
    <2>4. \A s \in Sessions :
             Outstanding(s)' - suppressed'[s] >= Outstanding(s) - suppressed[s]
      BY <1>6, <1>9, <1>11, <2>3, SMT
    <2>5. SuppressionHasEvent'
      <3>1. \A s \in Sessions : Outstanding(s)' \in Nat /\ suppressed'[s] \in Nat
        BY <2>2, OutstandingTypeNext
      <3>2. \A s \in Sessions : suppressed'[s] <= Outstanding(s)'
        BY <1>11, <2>4, <3>1, SMT
      <3> QED BY <3>2 DEF SuppressionHasEvent
    <2>6. ASSUME NEW s \in Sessions, WakeComing(s)
          PROVE  WakeComing(s)'
      BY <1>0, <2>1, <2>2, <2>4, <2>6, ComingKept
    <2>7. \A s \in Sessions : \/ runnable'[s] # 1
                              \/ runnable[s] = 1 /\ (WakeComing(s) => WakeComing(s)')
      BY <1>2, <2>6
    <2>8. FlightOf(call', inFlight')
      BY <1>0, <2>1
    <2> QED BY <1>2, <2>1, <2>2, <2>5, <2>7, <2>8, StepCloses
  <1> QED BY <1>12, <1>13

LEMMA SubmitKeeps ==
    ASSUME DispatchInv, NEW d \in Drains, NEW m, NEW s0 \in Sessions,
           SubmitServiceTurn(d, m, s0)
    PROVE  DispatchInv'
  <1>0. /\ BusTypeOK /\ CallsOK(call) /\ FlightOf(call, inFlight) /\ SuppressionHasEvent
        /\ deferred \in SUBSET Sessions /\ suppressed \in [Sessions -> Nat] /\ d \in Callers
    BY FlightIs DEF DispatchInv, BusTypeOK, Callers
  <1>1. /\ call[d] = NoCall /\ Publish(Wake(s0))
        /\ suppressed' = [suppressed EXCEPT ![s0] = @ + 1]
        /\ DispatchWake(d, s0, deferred, call)
        /\ UNCHANGED <<runnable, batch, archived>>
    BY DEF SubmitServiceTurn, IdleDrain, turnVars, modeVars
  <1>2. Published(Wake(s0)) /\ events' \in Seq(Events)
    BY <1>0, <1>1, PublishRows, WakeEvent
  <1>3. /\ suppressed' \in [Sessions -> Nat] /\ suppressed'[s0] = suppressed[s0] + 1
        /\ \A s \in Sessions \ {s0} : suppressed'[s] = suppressed[s]
    BY <1>0, <1>1, SMT
  <1>4. /\ Outstanding(s0)' = Outstanding(s0) + 1
        /\ \A s \in Sessions \ {s0} : Outstanding(s)' = Outstanding(s)
    BY <1>0, <1>2, WakesDiffer, OutstandingType, SMT DEF Published
  <1>5. Dispatched(d, s0, deferred, call)
    BY <1>0, <1>1, DispatchEffect
  <1>6. BusTypeOK'
    <2>1. batch' \in [Drains -> Seq(Events)] /\ runnable' \in [Sessions -> Nat]
      BY <1>0, <1>1 DEF BusTypeOK
    <2>2. CallsOK(call') /\ deferred' \subseteq Sessions
      BY <1>5 DEF Dispatched
    <2> QED BY <1>0, <1>2, <1>3, <2>1, <2>2, TypeKept
  <1>7. \A s \in Sessions : Outstanding(s) \in Nat /\ suppressed[s] \in Nat
                            /\ suppressed[s] <= Outstanding(s)
    BY <1>0, OutstandingType DEF SuppressionHasEvent
  <1>8. \A s \in Sessions : /\ Outstanding(s)' - suppressed'[s] >= Outstanding(s) - suppressed[s]
                            /\ suppressed'[s] <= Outstanding(s)'
    BY <1>3, <1>4, <1>7, SMT
  <1>9. SuppressionHasEvent'
    BY <1>8 DEF SuppressionHasEvent
  <1> QED BY <1>0, <1>1, <1>6, <1>8, <1>9, DispatchKeeps

(* A step of a sender or an operator that leaves the dispatcher alone: a   *)
(* turn that becomes runnable has its wake published with it.              *)
LEMMA SenderKeeps ==
    ASSUME DispatchInv, NEW s0 \in Sessions,
           UNCHANGED <<batch, call, inFlight, deferred, suppressed, dropped>>,
           archived \subseteq archived', runnable' \in [Sessions -> Nat],
           \A s \in Sessions \ {s0} : runnable'[s] = runnable[s],
           \/ Publish(Wake(s0))
           \/ /\ runnable'[s0] = runnable[s0]
              /\ events' = events \/ \E e \in Events : Publish(e)
    PROVE  DispatchInv'
  <1>0. BusTypeOK /\ CallsOK(call) /\ FlightOf(call, inFlight) /\ SuppressionHasEvent
    BY FlightIs DEF DispatchInv, BusTypeOK
  <1>1. /\ events' \in Seq(Events)
        /\ \/ Published(Wake(s0))
           \/ runnable'[s0] = runnable[s0] /\ (RowsKept \/ \E e \in Events : Published(e))
    <2>1. CASE Publish(Wake(s0))
      BY <1>0, <2>1, PublishRows, WakeEvent
    <2>2. CASE runnable'[s0] = runnable[s0] /\ events' = events
      <3>1. events' \in Seq(Events)
        BY <1>0, <2>2 DEF BusTypeOK
      <3> QED BY <1>0, <2>2, <3>1, SameRows
    <2>3. CASE runnable'[s0] = runnable[s0] /\ \E e \in Events : Publish(e)
      BY <1>0, <2>3, PublishRows
    <2> QED BY <2>1, <2>2, <2>3
  <1>2. /\ suppressed' \in [Sessions -> Nat] /\ batch' \in [Drains -> Seq(Events)]
        /\ deferred' \subseteq Sessions /\ CallsOK(call') /\ FlightOf(call', inFlight')
    BY <1>0 DEF BusTypeOK
  <1>3. BusTypeOK'
    BY <1>0, <1>1, <1>2, TypeKept
  <1>4. \A s \in Sessions : Outstanding(s) \in Nat /\ suppressed[s] \in Nat
                            /\ suppressed[s] <= Outstanding(s)
    BY <1>0, OutstandingType DEF SuppressionHasEvent, BusTypeOK
  <1>5. \A s \in Sessions : Outstanding(s)' >= Outstanding(s) /\ Outstanding(s)' \in Nat
    <2>1. CASE RowsKept
      BY <1>4, <2>1, SMT DEF RowsKept
    <2>2. ASSUME NEW e, Published(e)
          PROVE  \A s \in Sessions : Outstanding(s)' >= Outstanding(s) /\ Outstanding(s)' \in Nat
      BY <1>4, <2>2, SMT DEF Published
    <2> QED BY <1>1, <2>1, <2>2
  <1>6. SuppressionHasEvent'
    BY <1>4, <1>5, SMT DEF SuppressionHasEvent
  <1>7. ASSUME NEW s \in Sessions, WakeComing(s)
        PROVE  WakeComing(s)'
    <2>1. Outstanding(s)' - suppressed'[s] >= Outstanding(s) - suppressed[s]
      BY <1>4, <1>5, SMT
    <2> QED BY <1>0, <1>3, <1>7, <2>1, ComingKept
  <1>8. runnable'[s0] = runnable[s0] \/ WakeComing(s0)'
    <2>1. CASE Published(Wake(s0))
      <3>1. Outstanding(s0)' > suppressed'[s0]
        BY <1>4, <2>1, SMT DEF Published
      <3> QED BY <3>1 DEF WakeComing
    <2> QED BY <1>1, <2>1
  <1>9. \A s \in Sessions : \/ runnable'[s] # 1 \/ WakeComing(s)'
                            \/ runnable[s] = 1 /\ (WakeComing(s) => WakeComing(s)')
    BY <1>7, <1>8
  <1> QED BY <1>2, <1>3, <1>6, <1>9, StepCloses

LEMMA SessionStepKeeps ==
    ASSUME DispatchInv, NEW s \in Sessions, SessionStep(s)
    PROVE  DispatchInv'
  <1>0. runnable \in [Sessions -> Nat] /\ Wake(s) \in Events
        /\ [kind |-> "archived", session |-> s] \in Events
    BY WakeEvent DEF DispatchInv, BusTypeOK, Events
  <1>1. ASSUME NEW m \in Messages, EnqueueFollowUp(m, s)
        PROVE  DispatchInv'
    <2>1. /\ UNCHANGED <<batch, call, inFlight, deferred, suppressed, dropped>>
          /\ archived' = archived /\ runnable' = runnable /\ Publish(Wake(s))
      BY <1>1 DEF EnqueueFollowUp, turnVars, wakeVars, modeVars
    <2> QED BY <1>0, <2>1, SenderKeeps
  <1>2. ASSUME NEW m \in Messages, RouteAgentMessage(m, s)
        PROVE  DispatchInv'
    <2>1. /\ UNCHANGED <<batch, call, inFlight, deferred, suppressed, dropped>>
          /\ archived' = archived /\ runnable' = runnable
          /\ Publish(Wake(s)) \/ events' = events
      BY <1>2 DEF RouteAgentMessage, turnVars, wakeVars, modeVars
    <2> QED BY <1>0, <2>1, SenderKeeps
  <1>3. ASSUME NEW m \in Messages, ExpireMessage(s, m)
        PROVE  DispatchInv'
    <2>1. /\ UNCHANGED <<batch, call, inFlight, deferred, suppressed, dropped>>
          /\ archived' = archived /\ runnable' = runnable /\ events' = events
      BY <1>3 DEF ExpireMessage, turnVars, busVars, wakeVars, modeVars
    <2> QED BY <1>0, <2>1, SenderKeeps
  <1>4. ASSUME NEW m \in Messages, NEW d \in Drains, SubmitServiceTurn(d, m, s)
        PROVE  DispatchInv'
    BY <1>4, SubmitKeeps
  <1>5. CASE ResolveAttention(s)
    <2>1. /\ UNCHANGED <<batch, call, inFlight, deferred, suppressed, dropped>>
          /\ archived' = archived /\ Publish(Wake(s))
          /\ runnable' = [runnable EXCEPT ![s] = @ + 1]
      BY <1>5 DEF ResolveAttention, wakeVars, modeVars
    <2>2. /\ runnable' \in [Sessions -> Nat]
          /\ \A x \in Sessions \ {s} : runnable'[x] = runnable[x]
      BY <1>0, <2>1, SMT
    <2> QED BY <2>1, <2>2, SenderKeeps
  <1>6. CASE PauseRuntimeTarget(s) \/ ResumeRuntimeTarget(s)
    <2>1. /\ UNCHANGED <<batch, call, inFlight, deferred, suppressed, dropped>>
          /\ archived' = archived /\ runnable' = runnable /\ events' = events
      BY <1>6 DEF PauseRuntimeTarget, ResumeRuntimeTarget, turnVars, busVars, wakeVars
    <2> QED BY <1>0, <2>1, SenderKeeps
  <1>7. CASE ArchiveSession(s)
    <2>1. /\ UNCHANGED <<batch, call, inFlight, deferred, suppressed, dropped>>
          /\ archived \subseteq archived' /\ runnable' = runnable
          /\ Publish([kind |-> "archived", session |-> s])
      BY <1>7 DEF ArchiveSession, turnVars, wakeVars
    <2> QED BY <1>0, <2>1, SenderKeeps
  <1> QED BY <1>1, <1>2, <1>3, <1>4, <1>5, <1>6, <1>7 DEF SessionStep

(***************************************************************************)
(* The restart: the requeued wakes are one event for each of the wakes S,  *)
(* in some order.                                                          *)
(***************************************************************************)
LEMMA OrderHitsAll ==
    ASSUME NEW S, IsFiniteSet(S), NEW order \in Bijection(1..Cardinality(S), S)
    PROVE  /\ order \in [1..Cardinality(S) -> S] /\ Cardinality(S) \in Nat
           /\ \A w \in S : \E i \in 1..Cardinality(S) : order[i] = w
  BY FS_CardinalityType DEF Bijection, Injection, Surjection

RequeuedWakes(blocked) ==
    {w \in Sessions \X (1..(MaxYields + 1)) :
        w[2] <= Requeued(w[1], runnable', blocked)}

LEMMA RestartBus ==
    ASSUME BusTypeOK, Restart
    PROVE  /\ BusTypeOK' /\ FlightOf(call', inFlight')
           /\ \A s \in Sessions : suppressed'[s] = 0
           /\ \A s \in Sessions \ archived' : runnable'[s] = 1 => Outstanding(s)' > 0
  <1>1. PICK blocked \in SUBSET {s \in Sessions : Driven(s)} :
           /\ runnable' = Hydrated(blocked)
           /\ \E order \in Bijection(1..Cardinality(RequeuedWakes(blocked)),
                                     RequeuedWakes(blocked)) :
                 events' = [i \in DOMAIN order |-> Wake(order[i][1])]
    BY DEF Restart, RequeuedWakes
  <1>2. PICK S : S = RequeuedWakes(blocked)
    OBVIOUS
  <1>3. PICK order \in Bijection(1..Cardinality(S), S) :
           events' = [i \in DOMAIN order |-> Wake(order[i][1])]
    BY <1>1, <1>2
  <1>4. /\ batch' = [d \in Drains |-> <<>>] /\ call' = [c \in Callers |-> NoCall]
        /\ inFlight' = {} /\ deferred' = {} /\ suppressed' = [s \in Sessions |-> 0]
        /\ archived' = archived
    BY DEF Restart
  <1>5. IsFiniteSet(S)
    <2>1. IsFiniteSet(1..(MaxYields + 1)) /\ IsFiniteSet(Sessions)
      BY FS_Interval, DispatchBounds, SMT DEF DispatchBounds
    <2>2. IsFiniteSet(Sessions \X (1..(MaxYields + 1)))
      BY <2>1, FS_Product
    <2>3. S \subseteq Sessions \X (1..(MaxYields + 1))
      BY <1>2 DEF RequeuedWakes
    <2> QED BY <2>2, <2>3, FS_Subset
  <1>6. PICK n \in Nat : /\ order \in [1..n -> S]
                         /\ \A w \in S : \E i \in 1..n : order[i] = w
    BY <1>3, <1>5, OrderHitsAll, SMT
  <1>7. events' = [i \in 1..n |-> Wake(order[i][1])]
    BY <1>3, <1>6
  <1>8. events' \in Seq(Events)
    <2>1. \A i \in 1..n : order[i][1] \in Sessions
      BY <1>2, <1>6 DEF RequeuedWakes
    <2>2. \A i \in 1..n : Wake(order[i][1]) \in Events
      BY <2>1, WakeEvent
    <2>3. events' \in [1..n -> Events]
      BY <1>7, <2>2
    <2> QED BY <2>3, SMT
  <1>9. /\ runnable' \in [Sessions -> Nat] /\ batch' \in [Drains -> Seq(Events)]
        /\ suppressed' \in [Sessions -> Nat] /\ deferred' \subseteq Sessions
    BY <1>1, <1>4, SMT DEF Hydrated, BusTypeOK
  <1>10. CallsOK(call') /\ FlightOf(call', inFlight')
    <2>1. \A c \in Callers : call'[c] = NoCall
      BY <1>4
    <2>2. CallsOK(call')
      BY <1>4, <2>1, NoCallFields DEF CallsOK
    <2>3. {x \in Callers : call'[x].stage \in InFlightStages} = {}
      BY <2>1, NoCallFields
    <2>4. FlightOf(call', inFlight')
      BY <1>4, <2>1, <2>3, NoCallFields DEF FlightOf
    <2> QED BY <2>2, <2>4
  <1>11. PICK rows : rows = Rows'
    OBVIOUS
  <1>12. /\ DOMAIN rows = Waiting /\ rows[None] = events'
         /\ \A d \in Drains : rows[d] = <<>>
    BY <1>4, <1>11, DispatchBounds DEF Rows, Waiting, DispatchBounds
  <1>13. \A s \in Sessions : WakesIn(Rows, s)' = WakesIn(rows, s)
    BY <1>11 DEF WakesIn, Wake
  <1>14. ASSUME NEW s \in Sessions
         PROVE  /\ IsFiniteSet(WakesIn(rows, s))
                /\ \A i \in 1..n : order[i][1] = s => <<None, i>> \in WakesIn(rows, s)
    <2>1. DOMAIN rows[None] = 1..n /\ \A d \in Drains : DOMAIN rows[d] = {}
      BY <1>7, <1>12, SMT
    <2>2. WakesIn(rows, s) \subseteq {None} \X (1..n)
      <3> SUFFICES ASSUME NEW p \in WakesIn(rows, s)
                   PROVE  p \in {None} \X (1..n)
        OBVIOUS
      <3>1. PICK r \in Waiting : p \in {r} \X DOMAIN rows[r]
        BY <1>12 DEF WakesIn
      <3>2. r = None
        BY <2>1, <3>1 DEF Waiting
      <3> QED BY <2>1, <3>1, <3>2
    <2>3. IsFiniteSet({None}) /\ IsFiniteSet(1..n)
      <3>1. IsFiniteSet({None})
        BY FS_Singleton
      <3>2. IsFiniteSet(1..n)
        BY FS_Interval, SMT
      <3> QED BY <3>1, <3>2
    <2>4. IsFiniteSet({None} \X (1..n))
      BY <2>3, FS_Product
    <2>5. IsFiniteSet(WakesIn(rows, s))
      BY <2>2, <2>4, FS_Subset
    <2>6. ASSUME NEW i \in 1..n, order[i][1] = s
          PROVE  <<None, i>> \in WakesIn(rows, s)
      <3>1. rows[None][i] = Wake(s)
        BY <1>7, <1>12, <2>6
      <3>2. <<None, i>> \in {None} \X DOMAIN rows[None] /\ None \in DOMAIN rows
        BY <1>12, <2>1 DEF Waiting
      <3> QED BY <3>1, <3>2 DEF WakesIn
    <2> QED BY <2>5, <2>6
  <1>15. BusTypeOK'
    BY <1>8, <1>9, <1>10, <1>13, <1>14 DEF BusTypeOK
  <1>16. ASSUME NEW s \in Sessions \ archived', runnable'[s] = 1
         PROVE  Outstanding(s)' > 0
    <2>1. Requeued(s, runnable', blocked) = 1
      BY <1>4, <1>16, SMT DEF Requeued
    <2>2. <<s, 1>> \in S
      BY <1>2, <2>1, DispatchBounds, SMT DEF DispatchBounds, RequeuedWakes
    <2>3. PICK i \in 1..n : order[i] = <<s, 1>>
      BY <1>6, <2>2
    <2>4. WakesIn(rows, s) # {} /\ IsFiniteSet(WakesIn(rows, s))
      <3>1. order[i][1] = s
        BY <2>3, SMT
      <3>2. <<None, i>> \in WakesIn(rows, s) /\ IsFiniteSet(WakesIn(rows, s))
        BY <1>14, <3>1
      <3> QED BY <3>2
    <2>5. Cardinality(WakesIn(rows, s)) # 0 /\ Cardinality(WakesIn(rows, s)) \in Nat
      BY <2>4, FS_EmptySet, FS_CardinalityType
    <2>6. Outstanding(s)' = Cardinality(WakesIn(rows, s))
      BY <1>13 DEF Outstanding
    <2> QED BY <2>5, <2>6, SMT
  <1> QED BY <1>4, <1>10, <1>15, <1>16

LEMMA RestartKeeps ==
    ASSUME DispatchInv, Restart
    PROVE  DispatchInv'
  <1>1. /\ BusTypeOK' /\ FlightOf(call', inFlight')
        /\ \A s \in Sessions : suppressed'[s] = 0
        /\ \A s \in Sessions \ archived' : runnable'[s] = 1 => Outstanding(s)' > 0
    BY RestartBus DEF DispatchInv
  <1>2. \A s \in Sessions : Outstanding(s)' \in Nat
    BY <1>1, OutstandingTypeNext
  <1>3. SuppressionHasEvent'
    BY <1>1, <1>2, SMT DEF SuppressionHasEvent
  <1>4. RunnableTurnHasWake'
    BY <1>1 DEF RunnableTurnHasWake, WakeComing
  <1> QED BY <1>1, <1>3, <1>4, FlightIsNext DEF DispatchInv

(* The three invariants together with the types are inductive. *)
LEMMA DispatchInit == Init => DispatchInv
  <1> SUFFICES ASSUME Init PROVE DispatchInv
    OBVIOUS
  <1>1. ASSUME NEW s \in Sessions
        PROVE  WakesIn(Rows, s) = {}
    <2>1. \A r \in DOMAIN Rows : DOMAIN Rows[r] = {}
      BY SMT DEF Init, Rows
    <2> QED BY <2>1 DEF WakesIn
  <1>2. \A s \in Sessions : IsFiniteSet(WakesIn(Rows, s)) /\ Outstanding(s) = 0
    BY <1>1, FS_EmptySet DEF Outstanding
  <1>3. \A c \in Callers : call[c] = NoCall
    BY DEF Init
  <1>4. CallsOK(call)
    BY <1>3, NoCallFields DEF CallsOK, Init
  <1>5. BusTypeOK
    BY <1>2, <1>4, SMT DEF BusTypeOK, Init
  <1>6. {x \in Callers : call[x].stage \in InFlightStages} = {}
    BY <1>3, NoCallFields
  <1>7. OneWakeInFlight
    BY <1>3, <1>6, NoCallFields DEF OneWakeInFlight, Init
  <1>8. SuppressionHasEvent /\ RunnableTurnHasWake
    BY <1>2, SMT DEF SuppressionHasEvent, RunnableTurnHasWake, Init
  <1> QED BY <1>5, <1>7, <1>8 DEF DispatchInv

LEMMA DispatchStep == DispatchInv /\ [Next]_vars => DispatchInv'
  <1> SUFFICES ASSUME DispatchInv, [Next]_vars PROVE DispatchInv'
    OBVIOUS
  <1>1. ASSUME NEW c \in Callers, CallStep(c)
        PROVE  DispatchInv'
    BY <1>1, CallStepKeeps, WakeSettledKeeps DEF CallStep
  <1>2. ASSUME NEW d \in Drains, DrainStep(d)
        PROVE  DispatchInv'
    BY <1>2, DrainKeeps, ProcessEventKeeps DEF DrainStep
  <1>3. ASSUME NEW s \in Sessions, SessionStep(s)
        PROVE  DispatchInv'
    BY <1>3, SessionStepKeeps
  <1>4. CASE Restart
    BY <1>4, RestartKeeps
  <1>5. CASE UNCHANGED vars
    <2>1. UNCHANGED <<runnable, events, batch, call, inFlight, deferred, suppressed,
                      archived, dropped>>
      BY <1>5 DEF vars, turnVars, busVars, wakeVars, modeVars
    <2>2. Rows' = Rows
      BY <2>1 DEF Rows
    <2>3. \A s \in Sessions : /\ WakesIn(Rows, s)' = WakesIn(Rows, s)
                              /\ Outstanding(s)' = Outstanding(s)
      BY <2>2 DEF WakesIn, Outstanding, Wake
    <2>4. BusTypeOK'
      BY <2>1, <2>3 DEF DispatchInv, BusTypeOK
    <2>5. OneWakeInFlight' /\ SuppressionHasEvent'
      BY <2>1, <2>3 DEF DispatchInv, OneWakeInFlight, SuppressionHasEvent
    <2>6. RunnableTurnHasWake'
      BY <2>1, <2>3 DEF DispatchInv, RunnableTurnHasWake, WakeComing
    <2> QED BY <2>4, <2>5, <2>6 DEF DispatchInv
  <1> QED BY <1>1, <1>2, <1>3, <1>4, <1>5 DEF Next

(* inFlightWakes of the dispatcher names exactly the sessions with a wake  *)
(* between its check and its release, and no session has two: settlements, *)
(* deferred redispatches and concurrent drains never drive one session     *)
(* twice at a time.                                                        *)
THEOREM OneWakePerSession == Spec => []OneWakeInFlight
  <1>1. DispatchInv => OneWakeInFlight
    BY DEF DispatchInv
  <1> QED BY <1>1, DispatchInit, DispatchStep, PTL DEF Spec

(* suppressedWakeEvents of a session never exceeds its wake events on the  *)
(* bus and in the drains' batches, so no suppression is left to swallow    *)
(* the wake of a later continuation.                                       *)
THEOREM SuppressionsHaveEvents == Spec => []SuppressionHasEvent
  <1>1. DispatchInv => SuppressionHasEvent
    BY DEF DispatchInv
  <1> QED BY <1>1, DispatchInit, DispatchStep, PTL DEF Spec

(* The runnable turn of a live session whose wakes were not turned away    *)
(* always has an unsuppressed event, a deferral or a dispatch being        *)
(* prepared: dispatchWake's coalescing, the suppressions and the requeue   *)
(* at startup lose no continuation.                                        *)
THEOREM RunnableTurnsHaveWakes == Spec => []RunnableTurnHasWake
  <1>1. DispatchInv => RunnableTurnHasWake
    BY DEF DispatchInv
  <1> QED BY <1>1, DispatchInit, DispatchStep, PTL DEF Spec
=============================================================================
