--------------------- MODULE BrainTurnCoordinatorProofs ---------------------
(***************************************************************************)
(* Proofs about the buffered turn coordinator, for any limits, sizes and   *)
(* calls.                                                                  *)
(***************************************************************************)
EXTENDS BrainTurnCoordinator, SequenceTheorems, WellFoundedInduction, TLAPS

USE Zenon

(* The types the proofs need; queuedDeltaBytes, a running sum, is part  *)
(* of QueueBounded.                                                        *)
CoordinatorTypes ==
    /\ phase \in Phases
    /\ stream \in Seq(Entries) /\ nextSequence \in Nat
    /\ pending \subseteq Calls
    /\ submitted \in [Calls -> Results \cup {None}]
    /\ accepted \in [Calls -> Results \cup {None}]
    /\ enqueued \in Seq(Items) /\ drained \in Nat

(* A terminal item is the last one, and the phase says which it was. *)
ItemsEnd ==
    /\ \A n \in 1..Len(enqueued) :
          enqueued[n].kind \in TerminalKinds =>
             /\ n = Len(enqueued)
             /\ phase = IF enqueued[n].kind = "actions" THEN "completed" ELSE "failed"
    /\ phase = "completed" =>
          Len(enqueued) > 0 /\ enqueued[Len(enqueued)].kind = "actions"

(* An accepted call is not pending any more. *)
AcceptedClosed == \A c \in Calls : accepted[c] # None => c \notin pending

CoordinatorInv ==
    CoordinatorTypes /\ StreamTiles /\ ItemsEnd /\ AwaitingIffPending /\ AcceptedClosed

LEMMA ItemFields ==
    ASSUME NEW item \in Items
    PROVE  item.kind \in Kinds /\ item.bytes \in Nat
  <1>1. CASE item \in [kind: DeltaKinds, bytes: Sizes]
    BY <1>1, CoordinatorConstants DEF CoordinatorConstants, Kinds
  <1>2. CASE item \in [kind: Kinds \ DeltaKinds, bytes: {0}]
    BY <1>2, SMT
  <1> QED BY <1>1, <1>2 DEF Items

LEMMA EntryFields ==
    ASSUME NEW item \in Items, NEW n \in Nat, nextSequence \in Nat
    PROVE  /\ Entry(item, n) \in Entries
           /\ Entry(item, n).kind = item.kind
           /\ Entry(item, n).sequence = nextSequence
           /\ Entry(item, n).first = n
           /\ Entry(item, n).last = n
  BY ItemFields DEF Entry, Entries

LEMMA GrownFields ==
    ASSUME NEW item \in Items, NEW n \in Nat, NEW e \in Entries
    PROVE  /\ Grown(e, item, n) \in Entries
           /\ Grown(e, item, n).kind = e.kind
           /\ Grown(e, item, n).sequence = e.sequence
           /\ Grown(e, item, n).first = e.first
           /\ Grown(e, item, n).last = n
  <1>1. e.kind \in Kinds /\ e.sequence \in Nat /\ e.first \in Nat /\ e.bytes \in Nat
    BY DEF Entries
  <1>2. item.bytes \in Nat
    BY ItemFields
  <1>3. e.bytes + item.bytes \in Nat
    BY <1>1, <1>2, SMT
  <1> QED BY <1>1, <1>3 DEF Grown, Entries

LEMMA EntryTypes ==
    ASSUME NEW e \in Entries
    PROVE  e.first \in Nat /\ e.last \in Nat /\ e.sequence \in Nat /\ e.kind \in Kinds
  BY DEF Entries

(* Accepting an item keeps the queue a tiling of what was not drained. *)
LEMMA EnqueueKeepsTiles ==
    ASSUME CoordinatorTypes, StreamTiles, NEW item \in Items, EnqueueStreamItem(item)
    PROVE  /\ stream' \in Seq(Entries) /\ nextSequence' \in Nat
           /\ enqueued' \in Seq(Items)
           /\ StreamTiles'
  <1>. PICK n \in Nat : n = Len(enqueued) + 1
    BY LenProperties, SMT DEF CoordinatorTypes
  <1>. PICK m \in Nat : m = Len(stream)
    BY LenProperties DEF CoordinatorTypes
  <1>1. /\ \A i \in 1..m : stream[i] \in Entries
        /\ \A i \in 1..m : /\ stream[i].first \in Nat /\ stream[i].last \in Nat
                           /\ stream[i].sequence \in Nat
    BY ElementOfSeq, EntryTypes DEF CoordinatorTypes
  <1>2. /\ enqueued' \in Seq(Items)
        /\ Len(enqueued') = n
        /\ \A j \in 1..(n - 1) : enqueued'[j] = enqueued[j]
        /\ enqueued'[n] = item
    BY AppendProperties, SMT DEF CoordinatorTypes, EnqueueStreamItem
  <1>3. drained' = drained /\ drained \in Nat /\ nextSequence \in Nat
    BY DEF EnqueueStreamItem, CoordinatorTypes, streamVars
  <1>4. \A i \in 1..m :
          /\ stream[i].first <= stream[i].last /\ stream[i].last <= n - 1
          /\ stream[i].first = IF i = 1 THEN drained + 1 ELSE stream[i - 1].last + 1
          /\ \A j \in stream[i].first..stream[i].last : enqueued[j].kind = stream[i].kind
          /\ stream[i].sequence = nextSequence - m + i - 1
    BY SMT DEF StreamTiles
  <1>5. \A i \in 1..m : \A j \in stream[i].first..stream[i].last :
            j \in 1..(n - 1) /\ enqueued'[j].kind = stream[i].kind
    <2> SUFFICES ASSUME NEW i \in 1..m, NEW j \in stream[i].first..stream[i].last
                 PROVE  j \in 1..(n - 1) /\ enqueued'[j].kind = stream[i].kind
      OBVIOUS
    <2>1. stream[i].first > 0
      <3>1. CASE i = 1
        BY <3>1, <1>3, <1>4, SMT
      <3>2. CASE i # 1
        <4>1. i - 1 \in 1..m
          BY <3>2, SMT
        <4> QED BY <4>1, <3>2, <1>1, <1>4, SMTT(30)
      <3> QED BY <3>1, <3>2
    <2>2. j \in 1..(n - 1)
      BY <2>1, <1>1, <1>4, SMT
    <2> QED BY <2>2, <1>2, <1>4, SMT
  <1>6. n - 1 = IF m = 0 THEN drained ELSE stream[m].last
    BY EmptySeq, SMT DEF StreamTiles, LastEntry, CoordinatorTypes
  <1>7. CASE Coalesces(item)
    <2>1. m > 0 /\ m \in 1..m /\ stream[m].kind = item.kind
      BY <1>7, EmptySeq, SMT DEF Coalesces, LastEntry, CoordinatorTypes
    <2>2. /\ stream' = [stream EXCEPT ![m] = Grown(stream[m], item, n)]
          /\ nextSequence' = nextSequence
      BY <1>7 DEF EnqueueStreamItem
    <2>. PICK g \in Entries :
            /\ g = Grown(stream[m], item, n)
            /\ g.kind = stream[m].kind /\ g.sequence = stream[m].sequence
            /\ g.first = stream[m].first /\ g.last = n
      BY <2>1, <1>1, GrownFields, SMTT(30)
    <2>3. /\ stream' \in Seq(Entries) /\ Len(stream') = m
          /\ \A j \in 1..m : stream'[j] = IF j = m THEN g ELSE stream[j]
      BY <2>1, <2>2, ExceptSeq, SMT DEF CoordinatorTypes
    <2>4. stream' # <<>> /\ LastEntry' = g
      BY <2>1, <2>3, EmptySeq, SMT DEF LastEntry
    <2>5. ASSUME NEW i \in 1..m
          PROVE  /\ stream'[i].first <= stream'[i].last /\ stream'[i].last <= n
                 /\ stream'[i].first = IF i = 1 THEN drained + 1 ELSE stream'[i - 1].last + 1
                 /\ stream'[i].sequence = nextSequence - m + i - 1
      <3>1. stream'[i].first <= stream'[i].last /\ stream'[i].last <= n
        BY <2>1, <2>3, <1>1, <1>4, SMT
      <3>2. stream'[i].sequence = nextSequence - m + i - 1
        BY <2>1, <2>3, <1>4
      <3>3. stream'[i].first = stream[i].first
        BY <2>3
      <3>4. i # 1 => i - 1 \in 1..m /\ i - 1 # m
        BY SMT
      <3>5. i # 1 => stream'[i - 1] = stream[i - 1]
        BY <3>4, <2>3
      <3> QED BY <3>1, <3>2, <3>3, <3>5, <1>4, SMT
    <2>6. ASSUME NEW i \in 1..m, NEW j \in stream'[i].first..stream'[i].last
          PROVE  enqueued'[j].kind = stream'[i].kind
      <3>1. CASE i # m
        BY <3>1, <2>3, <1>5, SMT
      <3>2. CASE i = m /\ j = n
        BY <3>2, <2>1, <2>3, <1>2
      <3>3. CASE i = m /\ j # n
        <4>1. j \in stream[m].first..(n - 1)
          BY <3>3, <2>3, <2>1, <1>1, SMT
        <4> QED BY <4>1, <3>3, <2>1, <2>3, <1>5, <1>6, SMT
      <3> QED BY <3>1, <3>2, <3>3
    <2> QED BY <2>2, <2>3, <2>4, <2>5, <2>6, <1>2, <1>3, SMTT(30) DEF StreamTiles
  <1>8. CASE ~Coalesces(item)
    <2>1. /\ stream' = Append(stream, Entry(item, n))
          /\ nextSequence' = nextSequence + 1
      BY <1>8 DEF EnqueueStreamItem
    <2>. PICK g \in Entries :
            /\ g = Entry(item, n)
            /\ g.kind = item.kind /\ g.sequence = nextSequence
            /\ g.first = n /\ g.last = n
      BY <1>3, EntryFields
    <2>2. /\ stream' \in Seq(Entries) /\ Len(stream') = m + 1 /\ stream' # <<>>
          /\ \A j \in 1..m : stream'[j] = stream[j]
          /\ stream'[m + 1] = g
      BY <2>1, AppendProperties, SMT DEF CoordinatorTypes
    <2>3. LastEntry' = g
      BY <2>2 DEF LastEntry
    <2>4. ASSUME NEW i \in 1..(m + 1)
          PROVE  /\ stream'[i].first <= stream'[i].last /\ stream'[i].last <= n
                 /\ stream'[i].first = IF i = 1 THEN drained + 1 ELSE stream'[i - 1].last + 1
                 /\ stream'[i].sequence = nextSequence' - (m + 1) + i - 1
      <3>1. CASE i \in 1..m
        <4>1. stream'[i] = stream[i]
          BY <3>1, <2>2
        <4>2. i # 1 => stream'[i - 1] = stream[i - 1]
          BY <3>1, <2>2, SMT
        <4>3. stream[i].last <= n
          BY <3>1, <1>1, <1>4, SMT
        <4>4. stream'[i].sequence = nextSequence' - (m + 1) + i - 1
          BY <3>1, <4>1, <2>1, <1>1, <1>3, <1>4, SMT
        <4> QED BY <3>1, <4>1, <4>2, <4>3, <4>4, <1>4, SMT
      <3>2. CASE i = m + 1 /\ m = 0
        BY <3>2, <2>1, <2>2, <1>3, <1>6, SMT
      <3>3. CASE i = m + 1 /\ m # 0
        BY <3>3, <2>1, <2>2, <1>1, <1>3, <1>6, SMT
      <3> QED BY <3>1, <3>2, <3>3, SMT
    <2>5. ASSUME NEW i \in 1..(m + 1), NEW j \in stream'[i].first..stream'[i].last
          PROVE  enqueued'[j].kind = stream'[i].kind
      <3>1. CASE i \in 1..m
        BY <3>1, <2>2, <1>5, SMT
      <3>2. CASE i = m + 1
        <4>1. j = n
          BY <3>2, <2>2, SMT
        <4> QED BY <4>1, <3>2, <2>2, <1>2
      <3> QED BY <3>1, <3>2, SMT
    <2>6. nextSequence' \in Nat
      BY <2>1, <1>3, SMT
    <2>7. \A i \in 1..Len(stream') :
            /\ stream'[i].first <= stream'[i].last /\ stream'[i].last <= Len(enqueued')
            /\ stream'[i].first = IF i = 1 THEN drained' + 1 ELSE stream'[i - 1].last + 1
            /\ stream'[i].sequence = nextSequence' - Len(stream') + i - 1
      <3>1. Len(stream') = m + 1 /\ Len(enqueued') = n /\ drained' = drained
        BY <2>2, <1>2, <1>3
      <3> QED BY <2>4, <3>1
    <2>8. Len(enqueued') = IF stream' = <<>> THEN drained' ELSE LastEntry'.last
      BY <2>2, <2>3, <1>2
    <2> QED BY <2>2, <2>5, <2>6, <2>7, <2>8, <1>2 DEF StreamTiles
  <1> QED BY <1>7, <1>8

(* So does a drain: what is left starts where the drained part ended. *)
LEMMA DrainKeepsTiles ==
    ASSUME CoordinatorTypes, StreamTiles, NEW k \in 0..Len(stream), Drain(k)
    PROVE  /\ stream' \in Seq(Entries) /\ drained' \in Nat
           /\ StreamTiles'
  <1>. PICK m \in Nat : m = Len(stream)
    BY LenProperties DEF CoordinatorTypes
  <1>1. /\ \A i \in 1..m : stream[i] \in Entries
        /\ \A i \in 1..m : /\ stream[i].first \in Nat /\ stream[i].last \in Nat
                           /\ stream[i].sequence \in Nat
    BY ElementOfSeq, EntryTypes DEF CoordinatorTypes
  <1>2. /\ stream' = SubSeq(stream, k + 1, m)
        /\ drained' = IF k = 0 THEN drained ELSE stream[k].last
        /\ enqueued' = enqueued /\ nextSequence' = nextSequence
        /\ drained \in Nat /\ nextSequence \in Nat
    BY DEF Drain, CoordinatorTypes
  <1>3. drained' \in Nat
    BY <1>1, <1>2, SMT
  <1>4. /\ stream' \in Seq(Entries)
        /\ Len(stream') = m - k
        /\ \A i \in 1..(m - k) : stream'[i] = stream[k + i]
    <2>1. \A i \in (k + 1)..m : stream[i] \in Entries
      BY <1>1, SMT
    <2>2. /\ SubSeq(stream, k + 1, m) \in Seq(Entries)
          /\ Len(SubSeq(stream, k + 1, m)) = IF k + 1 <= m THEN m - (k + 1) + 1 ELSE 0
          /\ \A i \in 1..(m - (k + 1) + 1) :
                SubSeq(stream, k + 1, m)[i] = stream[(k + 1) + i - 1]
      <3>1. k + 1 \in 1..(m + 1) /\ m \in k..m
        BY SMT
      <3> QED BY <2>1, <3>1, SubSeqProperties, SMT DEF CoordinatorTypes
    <2>3. \A i \in 1..(m - k) : (k + 1) + i - 1 = k + i
      BY SMT
    <2> QED BY <2>2, <2>3, <1>2, SMTT(30)
  <1>5. ASSUME NEW i \in 1..(m - k)
        PROVE  /\ stream'[i].first <= stream'[i].last /\ stream'[i].last <= Len(enqueued')
               /\ stream'[i].first = IF i = 1 THEN drained' + 1 ELSE stream'[i - 1].last + 1
               /\ \A n \in stream'[i].first..stream'[i].last :
                     enqueued'[n].kind = stream'[i].kind
               /\ stream'[i].sequence = nextSequence' - (m - k) + i - 1
    <2>1. k + i \in 1..m /\ stream'[i] = stream[k + i]
      BY <1>4, SMT
    <2>. PICK p \in 1..m : p = k + i
      BY <2>1
    <2>0. /\ stream[p].first <= stream[p].last
          /\ stream[p].last <= Len(enqueued)
          /\ \A n \in stream[p].first..stream[p].last : enqueued[n].kind = stream[p].kind
          /\ stream[p].sequence = nextSequence - m + p - 1
          /\ stream[p].first = IF p = 1 THEN drained + 1 ELSE stream[p - 1].last + 1
      BY DEF StreamTiles
    <2>2. /\ stream[k + i].first <= stream[k + i].last
          /\ stream[k + i].last <= Len(enqueued)
          /\ \A n \in stream[k + i].first..stream[k + i].last :
                enqueued[n].kind = stream[k + i].kind
          /\ stream[k + i].sequence = nextSequence - m + (k + i) - 1
          /\ stream[k + i].first = IF k + i = 1 THEN drained + 1
                                   ELSE stream[k + i - 1].last + 1
      BY <2>0, SMT
    <2>3. stream'[i].first = IF i = 1 THEN drained' + 1 ELSE stream'[i - 1].last + 1
      <3>1. CASE i = 1
        <4>1. (k + i = 1 <=> k = 0) /\ k + i - 1 = k
          BY <3>1, SMT
        <4> QED BY <3>1, <4>1, <2>1, <2>2, <1>2
      <3>2. CASE i # 1
        <4>1. i - 1 \in 1..(m - k) /\ k + (i - 1) = k + i - 1 /\ k + i # 1
          BY <3>2, SMT
        <4>2. stream'[i - 1] = stream[k + i - 1]
          BY <4>1, <1>4
        <4> QED BY <3>2, <4>1, <4>2, <2>1, <2>2
      <3> QED BY <3>1, <3>2
    <2>4. stream'[i].sequence = nextSequence' - (m - k) + i - 1
      <3>1. nextSequence - m + (k + i) - 1 = nextSequence - (m - k) + i - 1
        BY <1>2, SMT
      <3> QED BY <3>1, <2>1, <2>2, <1>2
    <2> QED BY <2>1, <2>2, <2>3, <2>4, <1>2, ZenonT(30)
  <1>6. Len(enqueued') = IF stream' = <<>> THEN drained' ELSE LastEntry'.last
    <2>1. Len(enqueued) = IF m = 0 THEN drained ELSE stream[m].last
      BY EmptySeq DEF StreamTiles, LastEntry, CoordinatorTypes
    <2>2. CASE k = m
      <3>1. stream' = <<>>
        BY <2>2, <1>4, EmptySeq, SMT
      <3> QED BY <3>1, <2>1, <2>2, <1>2
    <2>3. CASE k # m
      <3>1. /\ m - k \in 1..(m - k) /\ k + (m - k) = m /\ m # 0
            /\ stream' # <<>>
        BY <2>3, <1>4, EmptySeq, SMT
      <3>2. LastEntry' = stream[m]
        BY <3>1, <1>4 DEF LastEntry
      <3> QED BY <3>1, <3>2, <2>1, <1>2
    <2> QED BY <2>2, <2>3
  <1> QED BY <1>3, <1>4, <1>5, <1>6, SMT DEF StreamTiles

LEMMA TilesOfStream ==
    ASSUME StreamTiles, UNCHANGED streamVars
    PROVE  StreamTiles'
  BY SMT DEF StreamTiles, streamVars, LastEntry

LEMMA CoordinatorInit == Init => CoordinatorInv
  <1> SUFFICES ASSUME Init PROVE CoordinatorInv
    OBVIOUS
  <1>1. /\ Len(<<>>) = 0
        /\ <<>> \in Seq(Entries) /\ <<>> \in Seq(Items)
    BY EmptySeq
  <1>2. CoordinatorTypes
    BY <1>1 DEF Init, CoordinatorTypes, Phases, ActivePhases
  <1>3. StreamTiles
    BY <1>1, SMT DEF Init, StreamTiles
  <1>4. ItemsEnd /\ AwaitingIffPending /\ AcceptedClosed
    BY <1>1, SMT DEF Init, ItemsEnd, AwaitingIffPending, AcceptedClosed
  <1> QED BY <1>2, <1>3, <1>4 DEF CoordinatorInv

LEMMA EnqueueInv ==
    ASSUME CoordinatorInv, NEW item \in Items, EnqueueStreamItem(item)
    PROVE  CoordinatorInv'
  <1>1. /\ stream' \in Seq(Entries) /\ nextSequence' \in Nat
        /\ enqueued' \in Seq(Items)
        /\ StreamTiles'
    BY EnqueueKeepsTiles DEF CoordinatorInv
  <1>2. /\ phase = "running" /\ phase' = PhaseAfter(item)
        /\ enqueued' = Append(enqueued, item)
        /\ UNCHANGED <<drained, pending, submitted, accepted>>
    BY DEF EnqueueStreamItem, toolVars
  <1>3. phase' \in {"completed", "failed", "running"}
    BY <1>2 DEF PhaseAfter
  <1>4. CoordinatorTypes'
    BY <1>1, <1>2, <1>3 DEF CoordinatorInv, CoordinatorTypes, Phases, ActivePhases, TerminalPhases
  <1>5. ItemsEnd'
    <2>. PICK n \in Nat : n = Len(enqueued)
      BY LenProperties DEF CoordinatorInv, CoordinatorTypes
    <2>1. /\ Len(enqueued') = n + 1 /\ enqueued'[n + 1] = item
          /\ \A j \in 1..n : enqueued'[j] = enqueued[j]
      BY <1>2, AppendProperties, SMT DEF CoordinatorInv, CoordinatorTypes
    <2>2. \A j \in 1..n : enqueued[j].kind \notin TerminalKinds
      BY <1>2 DEF CoordinatorInv, ItemsEnd
    <2>3. \A j \in 1..(n + 1) : j \in 1..n \/ j = n + 1
      BY SMT
    <2>4. /\ item.kind \in TerminalKinds =>
                phase' = IF item.kind = "actions" THEN "completed" ELSE "failed"
          /\ phase' = "completed" => item.kind = "actions"
      BY <1>2 DEF PhaseAfter, TerminalKinds
    <2> QED BY <2>1, <2>2, <2>3, <2>4, SMT DEF ItemsEnd
  <1>6. AwaitingIffPending' /\ AcceptedClosed'
    BY <1>2, <1>3 DEF CoordinatorInv, AwaitingIffPending, AcceptedClosed
  <1> QED BY <1>1, <1>4, <1>5, <1>6 DEF CoordinatorInv

LEMMA DrainInv ==
    ASSUME CoordinatorInv, NEW k \in 0..Len(stream), Drain(k)
    PROVE  CoordinatorInv'
  <1>1. stream' \in Seq(Entries) /\ drained' \in Nat /\ StreamTiles'
    BY DrainKeepsTiles DEF CoordinatorInv
  <1>2. UNCHANGED <<phase, nextSequence, enqueued, pending, submitted, accepted>>
    BY DEF Drain
  <1>3. CoordinatorTypes'
    BY <1>1, <1>2 DEF CoordinatorInv, CoordinatorTypes
  <1>4. ItemsEnd' /\ AwaitingIffPending' /\ AcceptedClosed'
    BY <1>2 DEF CoordinatorInv, ItemsEnd, AwaitingIffPending, AcceptedClosed
  <1> QED BY <1>1, <1>3, <1>4 DEF CoordinatorInv

(* The steps that leave the stream alone and move between phases that no   *)
(* item ended.                                                             *)
LEMMA ItemsEndKept ==
    ASSUME ItemsEnd, phase \notin {"completed", "failed"}, phase' # "completed",
           enqueued' = enqueued
    PROVE  ItemsEnd'
  BY DEF ItemsEnd

LEMMA QueueInv ==
    ASSUME CoordinatorInv, NEW c \in Calls, QueueToolRequest(c)
    PROVE  CoordinatorInv'
  <1>1. /\ phase \in {"running", "awaiting"} /\ phase' = "awaiting"
        /\ pending' = pending \cup {c} /\ accepted[c] = None
        /\ UNCHANGED <<streamVars, submitted, accepted>>
    BY DEF QueueToolRequest, KnownCall
  <1>2. CoordinatorTypes'
    BY <1>1 DEF CoordinatorInv, CoordinatorTypes, streamVars, Phases, ActivePhases
  <1>3. StreamTiles'
    BY <1>1, TilesOfStream DEF CoordinatorInv
  <1>4. ItemsEnd'
    BY <1>1, ItemsEndKept DEF CoordinatorInv, streamVars
  <1>5. AwaitingIffPending' /\ AcceptedClosed'
    BY <1>1 DEF CoordinatorInv, AwaitingIffPending, AcceptedClosed
  <1> QED BY <1>2, <1>3, <1>4, <1>5 DEF CoordinatorInv

LEMMA SubmitInv ==
    ASSUME CoordinatorInv, NEW c \in Calls, NEW r \in Results, SubmitHostToolResult(c, r)
    PROVE  CoordinatorInv'
  <1>1. phase = "awaiting" /\ c \in pending /\ accepted[c] = None /\ UNCHANGED streamVars
    BY DEF SubmitHostToolResult, Acceptable
  <1>2. StreamTiles'
    BY <1>1, TilesOfStream DEF CoordinatorInv
  <1>3. CASE UNCHANGED <<phase, pending, submitted, accepted>>
    BY <1>1, <1>2, <1>3 DEF CoordinatorInv, CoordinatorTypes, streamVars, ItemsEnd,
       AwaitingIffPending, AcceptedClosed
  <1>4. CASE /\ pending' = pending \ {c}
             /\ submitted' = [submitted EXCEPT ![c] = r]
             /\ accepted' = Accept(c, r)
             /\ phase' = PhaseAnswered(c)
    <2>1. /\ accepted' = [accepted EXCEPT ![c] = r]
          /\ phase' = IF pending = {c} THEN "running" ELSE "awaiting"
      BY <1>4 DEF Accept, PhaseAnswered
    <2>2. CoordinatorTypes'
      BY <1>1, <1>4, <2>1, SMT
      DEF CoordinatorInv, CoordinatorTypes, streamVars, Phases, ActivePhases
    <2>3. ItemsEnd'
      BY <1>1, <2>1, ItemsEndKept DEF CoordinatorInv, streamVars
    <2>4. AwaitingIffPending'
      BY <1>1, <1>4, <2>1 DEF AwaitingIffPending
    <2>5. AcceptedClosed'
      BY <1>4, <2>1 DEF CoordinatorInv, CoordinatorTypes, AcceptedClosed
    <2> QED BY <1>2, <2>2, <2>3, <2>4, <2>5 DEF CoordinatorInv
  <1> QED BY <1>3, <1>4 DEF SubmitHostToolResult

LEMMA PollInv ==
    ASSUME CoordinatorInv, NEW c \in Calls, PollSubmittedHostToolOutput(c)
    PROVE  CoordinatorInv'
  <1>1. /\ submitted' = [submitted EXCEPT ![c] = None]
        /\ UNCHANGED <<phase, streamVars, pending, accepted>>
    BY DEF PollSubmittedHostToolOutput
  <1>2. StreamTiles'
    BY <1>1, TilesOfStream DEF CoordinatorInv
  <1> QED BY <1>1, <1>2 DEF CoordinatorInv, CoordinatorTypes, streamVars, ItemsEnd,
         AwaitingIffPending, AcceptedClosed

(* start, yield and the wait for an operator only change the phase. *)
LEMMA PhaseInv ==
    ASSUME CoordinatorInv, phase \in {"created", "running"},
           phase' \in {"running", "yielded", "attention"}, UNCHANGED <<streamVars, toolVars>>
    PROVE  CoordinatorInv'
  <1>1. CoordinatorTypes'
    BY DEF CoordinatorInv, CoordinatorTypes, streamVars, toolVars, Phases, ActivePhases,
       TerminalPhases
  <1>2. StreamTiles'
    BY TilesOfStream DEF CoordinatorInv
  <1>3. ItemsEnd'
    BY ItemsEndKept DEF CoordinatorInv, streamVars
  <1>4. AwaitingIffPending' /\ AcceptedClosed'
    BY DEF CoordinatorInv, AwaitingIffPending, AcceptedClosed, toolVars
  <1> QED BY <1>1, <1>2, <1>3, <1>4 DEF CoordinatorInv

LEMMA TerminalInv ==
    ASSUME CoordinatorInv, phase \notin {"completed", "failed"},
           NEW to \in {"failed", "cancelled"}, TransitionTerminal(to)
    PROVE  CoordinatorInv'
  <1>1. /\ phase' = to /\ pending' = {} /\ UNCHANGED <<streamVars, accepted>>
        /\ submitted' = [c \in Calls |-> None]
    BY DEF TransitionTerminal
  <1>2. CoordinatorTypes'
    BY <1>1 DEF CoordinatorInv, CoordinatorTypes, streamVars, Phases, TerminalPhases
  <1>3. StreamTiles'
    BY <1>1, TilesOfStream DEF CoordinatorInv
  <1>4. ItemsEnd'
    BY <1>1, ItemsEndKept DEF CoordinatorInv, streamVars
  <1>5. AwaitingIffPending' /\ AcceptedClosed'
    BY <1>1 DEF CoordinatorInv, AwaitingIffPending, AcceptedClosed
  <1> QED BY <1>2, <1>3, <1>4, <1>5 DEF CoordinatorInv

LEMMA CoordinatorStep == CoordinatorInv /\ [CoordinatorNext]_turnVars => CoordinatorInv'
  <1> SUFFICES ASSUME CoordinatorInv, [CoordinatorNext]_turnVars PROVE CoordinatorInv'
    OBVIOUS
  <1>1. CASE Start \/ Yield \/ RequireAttention
    BY <1>1, PhaseInv DEF Start, Yield, RequireAttention
  <1>2. CASE \E item \in Items : EnqueueStreamItem(item)
    BY <1>2, EnqueueInv
  <1>3. CASE \E k \in 0..Len(stream) : Drain(k)
    BY <1>3, DrainInv
  <1>4. CASE \E c \in Calls : QueueToolRequest(c)
    BY <1>4, QueueInv
  <1>5. CASE \E c \in Calls, r \in Results : SubmitHostToolResult(c, r)
    BY <1>5, SubmitInv
  <1>6. CASE \E c \in Calls : PollSubmittedHostToolOutput(c)
    BY <1>6, PollInv
  <1>7. CASE Fail \/ Cancel
    BY <1>7, TerminalInv DEF Fail, Cancel, ActivePhases, CancellablePhases
  <1>8. CASE UNCHANGED turnVars
    <2>1. UNCHANGED streamVars /\ UNCHANGED <<phase, pending, submitted, accepted>>
      BY <1>8 DEF turnVars, toolVars
    <2>2. StreamTiles'
      BY <2>1, TilesOfStream DEF CoordinatorInv
    <2> QED BY <2>1, <2>2 DEF CoordinatorInv, CoordinatorTypes, streamVars, ItemsEnd,
           AwaitingIffPending, AcceptedClosed
  <1> QED BY <1>1, <1>2, <1>3, <1>4, <1>5, <1>6, <1>7, <1>8 DEF CoordinatorNext

(* What the invariant gives to every operation. *)
LEMMA CoordinatorInvariant == CoordinatorSpec => []CoordinatorInv
  BY CoordinatorInit, CoordinatorStep, PTL DEF CoordinatorSpec

(* Coalescing and draining never drop, repeat, reorder or mix up stream    *)
(* items, whatever the limits and however the drains interleave.           *)
THEOREM StreamIsTiled == CoordinatorSpec => []StreamTiles
  <1>1. CoordinatorInv => StreamTiles
    BY DEF CoordinatorInv
  <1> QED BY <1>1, CoordinatorInvariant, PTL

(* The turn is AwaitingTool exactly while a request has no answer. *)
THEOREM AwaitsPending == CoordinatorSpec => []AwaitingIffPending
  <1>1. CoordinatorInv => AwaitingIffPending
    BY DEF CoordinatorInv
  <1> QED BY <1>1, CoordinatorInvariant, PTL

(* A turn is Completed exactly when its action batch is the last item. *)
THEOREM BatchIsLast == CoordinatorSpec => []TerminalItemLast
  <1>1. CoordinatorInv => TerminalItemLast
    <2> SUFFICES ASSUME CoordinatorInv PROVE TerminalItemLast
      OBVIOUS
    <2>. PICK n \in Nat : n = Len(enqueued)
      BY LenProperties DEF CoordinatorInv, CoordinatorTypes
    <2>1. \A j \in 1..(n - 1) : j \in 1..n /\ j # n
      BY SMT
    <2>2. \A j \in 1..(n - 1) : enqueued[j].kind \notin TerminalKinds
      BY <2>1 DEF CoordinatorInv, ItemsEnd
    <2>3. enqueued # <<>> <=> n > 0
      BY EmptySeq, SMT DEF CoordinatorInv, CoordinatorTypes
    <2>4. n > 0 /\ enqueued[n].kind = "actions" => phase = "completed"
      <3>1. n > 0 => n \in 1..n
        BY SMT
      <3> QED BY <3>1 DEF CoordinatorInv, ItemsEnd, TerminalKinds
    <2>5. phase = "completed" => n > 0 /\ enqueued[n].kind = "actions"
      BY DEF CoordinatorInv, ItemsEnd
    <2> QED BY <2>2, <2>3, <2>4, <2>5 DEF TerminalItemLast
  <1> QED BY <1>1, CoordinatorInvariant, PTL

LEMMA AcceptedKept ==
    ASSUME CoordinatorInv, CoordinatorNext, NEW d \in Calls, accepted[d] # None
    PROVE  accepted'[d] = accepted[d] /\ d \notin pending'
  <1>1. d \notin pending
    BY DEF CoordinatorInv, AcceptedClosed
  <1>2. CASE accepted' = accepted /\ pending' \subseteq pending
    BY <1>1, <1>2
  <1>3. CASE \E c \in Calls : QueueToolRequest(c)
    BY <1>1, <1>3 DEF QueueToolRequest, KnownCall
  <1>4. CASE \E c \in Calls, r \in Results : SubmitHostToolResult(c, r)
    <2>. PICK c \in Calls, r \in Results : SubmitHostToolResult(c, r)
      BY <1>4
    <2>1. accepted[c] = None /\ pending' \subseteq pending
      BY DEF SubmitHostToolResult, Acceptable
    <2>2. accepted' = accepted \/ accepted' = [accepted EXCEPT ![c] = r]
      BY DEF SubmitHostToolResult, Accept
    <2>3. accepted \in [Calls -> Results \cup {None}] /\ d # c
      BY <2>1 DEF CoordinatorInv, CoordinatorTypes
    <2> QED BY <1>1, <2>1, <2>2, <2>3
  <1>5. CASE Start \/ Yield \/ RequireAttention
    BY <1>2, <1>5 DEF Start, Yield, RequireAttention, toolVars
  <1>6. CASE \E item \in Items : EnqueueStreamItem(item)
    BY <1>2, <1>6 DEF EnqueueStreamItem, toolVars
  <1>7. CASE \E k \in 0..Len(stream) : Drain(k)
    BY <1>2, <1>7 DEF Drain
  <1>8. CASE \E c \in Calls : PollSubmittedHostToolOutput(c)
    BY <1>2, <1>8 DEF PollSubmittedHostToolOutput
  <1>9. CASE Fail \/ Cancel
    BY <1>2, <1>9 DEF Fail, Cancel, TransitionTerminal
  <1> QED BY <1>3, <1>4, <1>5, <1>6, <1>7, <1>8, <1>9 DEF CoordinatorNext

(* The result of a call is accepted once: no later result replaces it and  *)
(* its call id is never requested again.                                   *)
THEOREM ResultsAcceptedOnce == CoordinatorSpec => ResultAcceptedOnce
  <1>1. ASSUME CoordinatorInv, [CoordinatorNext]_turnVars
        PROVE  [\A c \in Calls : accepted[c] # None =>
                   accepted'[c] = accepted[c] /\ c \notin pending']_turnVars
    BY <1>1, AcceptedKept
  <1> QED BY <1>1, CoordinatorInvariant, PTL DEF CoordinatorSpec, ResultAcceptedOnce

(* A turn that ended takes no more items, requests or results, and only    *)
(* the wait for an operator can still be cancelled.                        *)
THEOREM EndedTurnIsFinal == CoordinatorSpec => TerminalIsFinal
  <1>1. ASSUME CoordinatorInv, [CoordinatorNext]_turnVars
        PROVE  [(phase \in TerminalPhases) =>
                   /\ \/ phase' = phase
                      \/ phase = "attention" /\ phase' = "cancelled"
                   /\ enqueued' = enqueued
                   /\ accepted' = accepted
                   /\ pending' \subseteq pending]_turnVars
    <2> SUFFICES ASSUME phase \in TerminalPhases, CoordinatorNext
                 PROVE  /\ \/ phase' = phase
                           \/ phase = "attention" /\ phase' = "cancelled"
                        /\ enqueued' = enqueued
                        /\ accepted' = accepted
                        /\ pending' \subseteq pending
      BY <1>1
    <2>1. phase \notin ActivePhases
      BY DEF TerminalPhases, ActivePhases
    <2>2. /\ ~(Start \/ Yield \/ RequireAttention \/ Fail)
          /\ \A item \in Items : ~EnqueueStreamItem(item)
          /\ \A c \in Calls : ~QueueToolRequest(c)
          /\ \A c \in Calls, r \in Results : ~SubmitHostToolResult(c, r)
      BY <2>1 DEF ActivePhases, Start, Yield, RequireAttention, Fail, EnqueueStreamItem,
         QueueToolRequest, SubmitHostToolResult, Acceptable
    <2>3. CASE \E k \in 0..Len(stream) : Drain(k)
      BY <2>3 DEF Drain
    <2>4. CASE \E c \in Calls : PollSubmittedHostToolOutput(c)
      BY <2>4 DEF PollSubmittedHostToolOutput, streamVars
    <2>5. CASE Cancel
      BY <2>1, <2>5 DEF Cancel, CancellablePhases, TransitionTerminal, streamVars
    <2> QED BY <2>2, <2>3, <2>4, <2>5 DEF CoordinatorNext
  <1> QED BY <1>1, CoordinatorInvariant, PTL DEF CoordinatorSpec, TerminalIsFinal

(***************************************************************************)
(* The bytes in the queue: DrainedBytes is a running sum.                  *)
(***************************************************************************)
(* f sums up the bytes of the first m entries of s. *)
Adds(s, f, m) == f[0] = 0 /\ \A i \in 1..m : f[i] = f[i - 1] + s[i].bytes

SumUpTo(s, f, m) == f \in [0..m -> Nat] /\ Adds(s, f, m)

Agree(f, g, m) == \A i \in 0..m : g[i] = f[i]

LEMMA LeastNat ==
    ASSUME NEW T, T \subseteq Nat, T # {}
    PROVE  \E x \in T : \A y \in T : x <= y
  <1> DEFINE R == {ss \in Nat \X Nat : ss[1] < ss[2]}
  <1>1. IsWellFoundedOn(R, Nat)
    BY NatLessThanWellFounded DEF OpToRel
  <1> HIDE DEF R
  <1>2. \E x \in T : \A y \in T : ~(<<y, x>> \in R)
    BY <1>1, WFMin
  <1>3. \A x, y \in Nat : ~(<<y, x>> \in R) => x <= y
    BY SMT DEF R
  <1> QED BY <1>2, <1>3

LEMMA BytesOf ==
    ASSUME NEW s \in Seq(Entries), NEW i \in 1..Len(s)
    PROVE  s[i] \in Entries /\ s[i].bytes \in Nat
  <1>1. s[i] \in Entries
    BY ElementOfSeq
  <1> QED BY <1>1 DEF Entries

LEMMA SumExists ==
    ASSUME NEW s \in Seq(Entries)
    PROVE  \E f : SumUpTo(s, f, Len(s))
  <1>0. PICK n \in Nat : n = Len(s)
    BY LenProperties
  <1> DEFINE T == {m \in 0..n : \A f : ~SumUpTo(s, f, m)}
  <1>1. ASSUME T # {} PROVE FALSE
    <2>1. T \subseteq Nat
      BY SMT
    <2>2. PICK m \in T : \A y \in T : m <= y
      BY <1>1, <2>1, LeastNat
    <2>3. CASE m = 0
      <3>1. PICK f : f = [i \in 0..m |-> 0]
        OBVIOUS
      <3>2. SumUpTo(s, f, m)
        BY <2>3, <3>1, SMT DEF SumUpTo, Adds
      <3> QED BY <3>2
    <2>4. CASE m # 0
      <3>1. m \in 1..n /\ m - 1 \in 0..n /\ m - 1 < m
        BY <2>4, SMT
      <3>2. m - 1 \notin T
        BY <2>2, <3>1, SMT
      <3>3. PICK g : SumUpTo(s, g, m - 1)
        BY <3>1, <3>2
      <3>4. s[m].bytes \in Nat
        BY <1>0, <3>1, BytesOf
      <3>5. PICK f : f = [i \in 0..m |-> IF i = m THEN g[m - 1] + s[m].bytes ELSE g[i]]
        OBVIOUS
      <3>6. g \in [0..(m - 1) -> Nat] /\ g[0] = 0
            /\ \A i \in 1..(m - 1) : g[i] = g[i - 1] + s[i].bytes
        BY <3>3 DEF SumUpTo, Adds
      <3>7. f \in [0..m -> Nat]
        BY <3>1, <3>4, <3>5, <3>6, SMT
      <3>8. \A i \in 0..(m - 1) : f[i] = g[i]
        BY <3>1, <3>5, SMT
      <3>9. f[m] = g[m - 1] + s[m].bytes
        BY <3>1, <3>5, SMT
      <3>10. ASSUME NEW i \in 1..m PROVE f[i] = f[i - 1] + s[i].bytes
        <4>1. CASE i = m
          BY <3>1, <3>8, <3>9, <4>1, SMT
        <4>2. CASE i # m
          <5>1. i \in 1..(m - 1) /\ i \in 0..(m - 1) /\ i - 1 \in 0..(m - 1)
            BY <3>1, <4>2, SMT
          <5> QED BY <3>6, <3>8, <5>1
        <4> QED BY <4>1, <4>2
      <3>11. f[0] = 0
        BY <3>1, <3>6, <3>8, SMT
      <3>12. SumUpTo(s, f, m)
        BY <3>7, <3>10, <3>11 DEF SumUpTo, Adds
      <3> QED BY <3>12
    <2> QED BY <2>3, <2>4
  <1>2. n \notin T
    BY <1>1
  <1> QED BY <1>0, <1>2, SMT

LEMMA SumUnique ==
    ASSUME NEW s, NEW m \in Nat, NEW f, SumUpTo(s, f, m), NEW g, Adds(s, g, m)
    PROVE  Agree(f, g, m)
  <1> DEFINE T == {i \in 0..m : g[i] # f[i]}
  <1>1. ASSUME T # {} PROVE FALSE
    <2>1. T \subseteq Nat
      BY SMT
    <2>2. PICK k \in T : \A y \in T : k <= y
      BY <1>1, <2>1, LeastNat
    <2>3. k # 0
      BY <2>2 DEF SumUpTo, Adds
    <2>4. k \in 1..m /\ k - 1 \in 0..m /\ ~(k <= k - 1)
      <3>1. k \in 0..m
        BY <2>2
      <3> HIDE DEF T
      <3> QED BY <3>1, <2>3, SMT
    <2>5. k - 1 \notin T
      BY <2>2, <2>4
    <2>6. g[k - 1] = f[k - 1]
      BY <2>4, <2>5
    <2>7. g[k] = g[k - 1] + s[k].bytes /\ f[k] = f[k - 1] + s[k].bytes
      BY <2>4 DEF SumUpTo, Adds
    <2> QED BY <2>6, <2>7
  <1> QED BY <1>1 DEF Agree

LEMMA SumGrows ==
    ASSUME NEW s \in Seq(Entries), NEW f, SumUpTo(s, f, Len(s)), NEW k \in 0..Len(s)
    PROVE  \A i \in k..Len(s) : f[k] <= f[i]
  <1>0. PICK n \in Nat : n = Len(s)
    BY LenProperties
  <1>a. /\ f \in [0..n -> Nat] /\ k \in 0..n
        /\ \A i \in 1..n : f[i] = f[i - 1] + s[i].bytes /\ s[i].bytes \in Nat
    BY <1>0, BytesOf DEF SumUpTo, Adds
  <1> DEFINE T == {i \in k..n : ~(f[k] <= f[i])}
  <1>1. ASSUME T # {} PROVE FALSE
    <2>1. T \subseteq Nat
      BY <1>a, SMT
    <2>2. PICK j \in T : \A y \in T : j <= y
      BY <1>1, <2>1, LeastNat
    <2>3. j # k
      BY <1>a, <2>2, SMT
    <2>4. j \in 1..n /\ j - 1 \in k..n /\ j - 1 \in 0..n /\ j \in 0..n /\ j - 1 < j
      BY <1>a, <2>2, <2>3, SMT
    <2>5. f[k] <= f[j - 1]
      BY <2>2, <2>4, SMT
    <2>6. f[j] = f[j - 1] + s[j].bytes /\ s[j].bytes \in Nat
      BY <1>a, <2>4
    <2>7. f[k] \in Nat /\ f[j] \in Nat /\ f[j - 1] \in Nat
      BY <1>a, <2>4
    <2>8. f[k] <= f[j]
      BY <2>5, <2>6, <2>7, SMT
    <2> QED BY <2>2, <2>8
  <1> QED BY <1>0, <1>1

(* The recursive function of DrainedBytes is such a sum. *)
LEMMA SumIs ==
    ASSUME NEW s \in Seq(Entries), NEW f, SumUpTo(s, f, Len(s)),
           NEW g, g = CHOOSE h : h = [i \in 0..Len(s) |-> IF i = 0 THEN 0
                                                         ELSE h[i - 1] + s[i].bytes]
    PROVE  \A k \in 0..Len(s) : g[k] = f[k]
  <1>0. PICK n \in Nat : n = Len(s)
    BY LenProperties
  <1>1. f = [i \in 0..n |-> IF i = 0 THEN 0 ELSE f[i - 1] + s[i].bytes]
    <2>1. f \in [0..n -> Nat] /\ f[0] = 0 /\ \A i \in 1..n : f[i] = f[i - 1] + s[i].bytes
      BY <1>0 DEF SumUpTo, Adds
    <2>2. \A i \in 0..n : f[i] = IF i = 0 THEN 0 ELSE f[i - 1] + s[i].bytes
      <3>1. \A i \in 0..n : i = 0 \/ i \in 1..n
        BY SMT
      <3> QED BY <2>1, <3>1
    <2> QED BY <2>1, <2>2
  <1>2. g = [i \in 0..n |-> IF i = 0 THEN 0 ELSE g[i - 1] + s[i].bytes]
    BY <1>0, <1>1
  <1>3. \A i \in 0..n : g[i] = IF i = 0 THEN 0 ELSE g[i - 1] + s[i].bytes
    BY <1>2, Zenon
  <1>4. g[0] = 0
    BY <1>3, SMT
  <1>5. ASSUME NEW i \in 1..n PROVE g[i] = g[i - 1] + s[i].bytes
    <2>1. i \in 0..n /\ i # 0
      BY SMT
    <2> QED BY <1>3, <2>1, Zenon
  <1>6. SumUpTo(s, f, n) /\ Adds(s, g, n)
    BY <1>0, <1>4, <1>5 DEF Adds
  <1>7. Agree(f, g, n)
    BY <1>0, <1>6, SumUnique, Zenon
  <1> QED BY <1>0, <1>7 DEF Agree

LEMMA DrainedBytesIs ==
    ASSUME stream \in Seq(Entries), NEW f, SumUpTo(stream, f, Len(stream))
    PROVE  \A k \in 0..Len(stream) : DrainedBytes(k) = f[k]
  BY SumIs, SMT DEF DrainedBytes

LEMMA DrainedBytesIsNext ==
    ASSUME stream' \in Seq(Entries), NEW f, SumUpTo(stream', f, Len(stream'))
    PROVE  \A k \in 0..Len(stream') : DrainedBytes(k)' = f[k]
  BY SumIs, SMT DEF DrainedBytes

(* The first and the last entry, and the sum over all of them, are all that *)
(* QueueBounded says of the queue.                                         *)
LEMMA QueueBoundedIs ==
    ASSUME CoordinatorTypes, NEW f, SumUpTo(stream, f, Len(stream))
    PROVE  QueueBounded <=>
             /\ queuedDeltaBytes = f[Len(stream)]
             /\ queuedDeltaBytes > MaxDeltaBytes => queuedDeltaBytes = stream[1].bytes
             /\ Len(stream) > MaxStreamItems
                => /\ Len(stream) = MaxStreamItems + 1
                   /\ stream[Len(stream)].kind \in TerminalKinds
  <1>1. Len(stream) \in 0..Len(stream)
    BY LenProperties, SMT DEF CoordinatorTypes
  <1>2. DrainedBytes(Len(stream)) = f[Len(stream)]
    BY <1>1, DrainedBytesIs DEF CoordinatorTypes
  <1> QED BY <1>2 DEF QueueBounded, LastEntry

LEMMA QueueBoundedIsNext ==
    ASSUME stream' \in Seq(Entries), NEW f, SumUpTo(stream', f, Len(stream')),
           queuedDeltaBytes' = f[Len(stream')],
           queuedDeltaBytes' > MaxDeltaBytes => queuedDeltaBytes' = stream'[1].bytes,
           Len(stream') > MaxStreamItems
             => /\ Len(stream') = MaxStreamItems + 1
                /\ stream'[Len(stream')].kind \in TerminalKinds
    PROVE  QueueBounded'
  <1>1. Len(stream') \in 0..Len(stream')
    BY LenProperties, SMT
  <1>2. DrainedBytes(Len(stream))' = f[Len(stream')]
    BY <1>1, DrainedBytesIsNext
  <1> QED BY <1>2 DEF QueueBounded, LastEntry

(* An item that is enqueued finds no terminal item in the queue. *)
LEMMA RunningHasNoTerminal ==
    ASSUME CoordinatorInv, phase = "running", Len(stream) > 0
    PROVE  stream[Len(stream)].kind \notin TerminalKinds
  <1>0. PICK n \in Nat : n = Len(stream)
    BY LenProperties DEF CoordinatorInv, CoordinatorTypes
  <1>1. n \in 1..n
    BY <1>0, SMT
  <1>2. stream[n] \in Entries
    BY <1>0, <1>1, ElementOfSeq DEF CoordinatorInv, CoordinatorTypes
  <1>3. PICK j : j = stream[n].last
    OBVIOUS
  <1>4. /\ stream[n].first <= j /\ j <= Len(enqueued)
        /\ \A i \in stream[n].first..j : enqueued[i].kind = stream[n].kind
        /\ stream[n].first = IF n = 1 THEN drained + 1 ELSE stream[n - 1].last + 1
    BY <1>0, <1>1, <1>3 DEF CoordinatorInv, StreamTiles
  <1>5. stream[n].first \in Nat /\ j \in Nat
    BY <1>2, <1>3 DEF Entries
  <1>6. stream[n].first > 0
    <2>1. CASE n = 1
      BY <2>1, <1>4, <1>5, SMT DEF CoordinatorInv, CoordinatorTypes
    <2>2. CASE n # 1
      <3>1. n - 1 \in 1..n
        BY <1>0, <1>1, <2>2, SMT
      <3>2. stream[n - 1] \in Entries
        BY <1>0, <3>1, ElementOfSeq DEF CoordinatorInv, CoordinatorTypes
      <3>3. stream[n - 1].last \in Nat
        BY <3>2 DEF Entries
      <3> QED BY <2>2, <3>3, <1>4, SMT
    <2> QED BY <2>1, <2>2
  <1>7. j \in 1..Len(enqueued) /\ j \in stream[n].first..j
    BY <1>4, <1>5, <1>6, LenProperties, SMT DEF CoordinatorInv, CoordinatorTypes
  <1>8. enqueued[j].kind = stream[n].kind
    BY <1>4, <1>7
  <1>9. enqueued[j].kind \notin TerminalKinds
    BY <1>7 DEF CoordinatorInv, ItemsEnd
  <1> QED BY <1>0, <1>8, <1>9

LEMMA EnqueueKeepsQueue ==
    ASSUME CoordinatorInv, QueueBounded, NEW item \in Items, EnqueueStreamItem(item)
    PROVE  QueueBounded'
  <1>0. PICK n \in Nat : n = Len(stream)
    BY LenProperties DEF CoordinatorInv, CoordinatorTypes
  <1>1. PICK f : SumUpTo(stream, f, n)
    BY <1>0, SumExists DEF CoordinatorInv, CoordinatorTypes
  <1>2. /\ f \in [0..n -> Nat] /\ f[0] = 0
        /\ \A i \in 1..n : f[i] = f[i - 1] + stream[i].bytes
    BY <1>1 DEF SumUpTo, Adds
  <1>3. /\ queuedDeltaBytes = f[n]
        /\ queuedDeltaBytes > MaxDeltaBytes => queuedDeltaBytes = stream[1].bytes
        /\ n > MaxStreamItems => n = MaxStreamItems + 1 /\ stream[n].kind \in TerminalKinds
    BY <1>0, <1>1, QueueBoundedIs DEF CoordinatorInv
  <1>4. /\ phase = "running" /\ ~Backpressure(item)
        /\ queuedDeltaBytes' = f[n] + item.bytes
    BY <1>3 DEF EnqueueStreamItem
  <1>5. n <= MaxStreamItems
    <2>1. n > 0 => stream[n].kind \notin TerminalKinds
      BY <1>0, <1>4, RunningHasNoTerminal
    <2> QED BY <1>0, <1>3, <2>1, CoordinatorConstants, SMT
  <1>6. /\ stream' \in Seq(Entries)
        /\ item.bytes \in Nat /\ (~IsDelta(item) => item.bytes = 0)
    <2>1. stream' \in Seq(Entries)
      BY EnqueueKeepsTiles DEF CoordinatorInv
    <2>2. \/ item.kind \in DeltaKinds /\ item.bytes \in Sizes
          \/ item.bytes = 0
      BY DEF Items
    <2>3. ~IsDelta(item) => item.bytes = 0
      BY <2>2 DEF IsDelta
    <2>4. Sizes \subseteq Nat
      BY CoordinatorConstants
    <2>5. item.bytes \in Nat
      BY <2>2, <2>4, 0 \in Nat
    <2> QED BY <2>1, <2>3, <2>5
  <1>7. f[n] \in Nat /\ MaxDeltaBytes \in Nat /\ MaxStreamItems \in Nat \ {0}
    BY <1>0, <1>2, CoordinatorConstants, SMT
  <1>8. stream # <<>> => f[n] + item.bytes <= MaxDeltaBytes \/ ~IsDelta(item)
    BY <1>3, <1>4, <1>6, <1>7, SMT DEF Backpressure, OverBytes
  <1>9. stream = <<>> <=> n = 0
    BY <1>0, EmptySeq DEF CoordinatorInv, CoordinatorTypes
  <1>10. CASE Coalesces(item)
    <2>1. n > 0 /\ n \in 1..n /\ IsDelta(item)
      BY <1>10, <1>9, <1>0, SMT DEF Coalesces
    <2>2. stream' = [stream EXCEPT ![n] = Grown(stream[n], item, Len(enqueued) + 1)]
      BY <1>0, <1>10 DEF EnqueueStreamItem
    <2>3. PICK g : g = Grown(stream[n], item, Len(enqueued) + 1)
      OBVIOUS
    <2>4. g.bytes = stream[n].bytes + item.bytes
      BY <2>3 DEF Grown
    <2>5. /\ Len(stream') = n
          /\ \A j \in 1..n : stream'[j] = IF j = n THEN g ELSE stream[j]
      <3>1. DOMAIN stream = 1..n /\ DOMAIN stream' = 1..n
        BY <2>2, <1>0, LenProperties DEF CoordinatorInv, CoordinatorTypes
      <3>2. Len(stream') = n
        BY <3>1, <1>0, <1>6, LenProperties, SMT
      <3>3. \A j \in 1..n : stream'[j] = IF j = n THEN g ELSE stream[j]
        BY <3>1, <2>2, <2>3, <2>1
      <3> QED BY <3>2, <3>3
    <2>6. PICK h : h = [f EXCEPT ![n] = f[n] + item.bytes]
      OBVIOUS
    <2>7. /\ h \in [0..n -> Nat] /\ h[n] = f[n] + item.bytes
          /\ \A i \in 0..n : i # n => h[i] = f[i]
      BY <2>6, <1>2, <1>6, <1>7, <1>0, SMT
    <2>8. ASSUME NEW i \in 1..n PROVE h[i] = h[i - 1] + stream'[i].bytes
      <3>1. i \in 0..n /\ i - 1 \in 0..n /\ i - 1 # n /\ f[i] \in Nat /\ f[i - 1] \in Nat
        BY <1>0, <1>2, SMT
      <3>2. f[i] = f[i - 1] + stream[i].bytes /\ stream[i].bytes \in Nat
        BY <1>0, <1>2, BytesOf DEF CoordinatorInv, CoordinatorTypes
      <3>3. h[i - 1] = f[i - 1]
        BY <3>1, <2>7
      <3>4. CASE i # n
        BY <3>1, <3>2, <3>3, <3>4, <2>5, <2>7
      <3>5. CASE i = n
        BY <3>1, <3>2, <3>3, <3>5, <2>4, <2>5, <2>7, <1>6, SMT
      <3> QED BY <3>4, <3>5
    <2>9. h[0] = 0
      BY <2>1, <2>7, <1>2, <1>0, SMT
    <2>10. SumUpTo(stream', h, Len(stream'))
      BY <2>5, <2>7, <2>8, <2>9 DEF SumUpTo, Adds
    <2>11. queuedDeltaBytes' = h[Len(stream')] /\ ~(queuedDeltaBytes' > MaxDeltaBytes)
      BY <2>1, <2>5, <2>7, <1>4, <1>6, <1>7, <1>8, <1>9, SMT
    <2>12. ~(Len(stream') > MaxStreamItems)
      BY <2>5, <1>5, <1>0, <1>7, SMT
    <2> QED BY <1>6, <2>10, <2>11, <2>12, QueueBoundedIsNext
  <1>11. CASE ~Coalesces(item)
    <2>1. PICK g : g = Entry(item, Len(enqueued) + 1)
      OBVIOUS
    <2>2. g.bytes = item.bytes /\ g.kind = item.kind
      BY <2>1 DEF Entry
    <2>3. stream' = Append(stream, g)
      BY <2>1, <1>11 DEF EnqueueStreamItem
    <2>4. /\ Len(stream') = n + 1
          /\ \A j \in 1..n : stream'[j] = stream[j]
          /\ stream'[n + 1] = g
      <3>1. g \in Entries
        <4>1. Len(enqueued) + 1 \in Nat /\ nextSequence \in Nat
          BY LenProperties, SMT DEF CoordinatorInv, CoordinatorTypes
        <4> QED BY <2>1, <4>1, EntryFields, SMT
      <3> QED BY <1>0, <2>3, <3>1, AppendProperties, SMT DEF CoordinatorInv, CoordinatorTypes
    <2>5. PICK h : h = [i \in 0..(n + 1) |-> IF i = n + 1 THEN f[n] + item.bytes ELSE f[i]]
      OBVIOUS
    <2>6. /\ h \in [0..(n + 1) -> Nat] /\ h[n + 1] = f[n] + item.bytes
          /\ \A i \in 0..n : h[i] = f[i]
      BY <2>5, <1>0, <1>2, <1>6, <1>7, SMT
    <2>7. ASSUME NEW i \in 1..(n + 1) PROVE h[i] = h[i - 1] + stream'[i].bytes
      <3>1. CASE i \in 1..n
        <4>1. i \in 0..n /\ i - 1 \in 0..n
          BY <3>1, <1>0, SMT
        <4> QED BY <4>1, <3>1, <2>4, <2>6, <1>2
      <3>2. CASE i = n + 1
        <4>1. n \in 0..n /\ i - 1 = n
          BY <3>2, <1>0, SMT
        <4> QED BY <4>1, <3>2, <2>2, <2>4, <2>6
      <3> QED BY <3>1, <3>2, <1>0, SMT
    <2>8. h[0] = 0
      BY <2>6, <1>2, <1>0, SMT
    <2>9. SumUpTo(stream', h, Len(stream'))
      BY <2>4, <2>6, <2>7, <2>8 DEF SumUpTo, Adds
    <2>10. queuedDeltaBytes' = h[Len(stream')]
      BY <2>4, <2>6, <1>4
    <2>11. queuedDeltaBytes' > MaxDeltaBytes => queuedDeltaBytes' = stream'[1].bytes
      <3>1. CASE n = 0
        BY <3>1, <2>2, <2>4, <1>2, <1>4, <1>6, SMT
      <3>2. CASE n # 0
        <4>1. 1 \in 1..n /\ stream'[1] = stream[1]
          BY <3>2, <1>0, <2>4, SMT
        <4>2. f[n] + item.bytes <= MaxDeltaBytes \/ item.bytes = 0
          BY <3>2, <1>6, <1>8, <1>9
        <4> QED BY <4>1, <4>2, <1>3, <1>4, <1>6, <1>7, SMT
      <3> QED BY <3>1, <3>2
    <2>12. Len(stream') > MaxStreamItems
             => /\ Len(stream') = MaxStreamItems + 1
                /\ stream'[Len(stream')].kind \in TerminalKinds
      <3>1. n >= MaxStreamItems => item.kind \in TerminalKinds
        BY <1>0, <1>4, <1>11 DEF Backpressure, OverItems
      <3> QED BY <3>1, <2>2, <2>4, <1>5, <1>7, <1>0, SMT
    <2> QED BY <1>6, <2>9, <2>10, <2>11, <2>12, QueueBoundedIsNext
  <1> QED BY <1>10, <1>11

LEMMA DrainKeepsQueue ==
    ASSUME CoordinatorInv, QueueBounded, NEW k \in 0..Len(stream), Drain(k)
    PROVE  QueueBounded'
  <1>0. PICK n \in Nat : n = Len(stream)
    BY LenProperties DEF CoordinatorInv, CoordinatorTypes
  <1>k. k \in Nat /\ k <= n /\ k \in 0..n
    BY <1>0, SMT
  <1>1. PICK f : SumUpTo(stream, f, n)
    BY <1>0, SumExists DEF CoordinatorInv, CoordinatorTypes
  <1>2. /\ f \in [0..n -> Nat] /\ f[0] = 0
        /\ \A i \in 1..n : f[i] = f[i - 1] + stream[i].bytes
    BY <1>1 DEF SumUpTo, Adds
  <1>3. /\ queuedDeltaBytes = f[n]
        /\ queuedDeltaBytes > MaxDeltaBytes => queuedDeltaBytes = stream[1].bytes
        /\ n > MaxStreamItems => n = MaxStreamItems + 1 /\ stream[n].kind \in TerminalKinds
    BY <1>0, <1>1, QueueBoundedIs DEF CoordinatorInv
  <1>4. \A i \in k..n : f[k] <= f[i]
    BY <1>0, <1>1, <1>k, SumGrows DEF CoordinatorInv, CoordinatorTypes
  <1>5. f[k] \in Nat /\ f[n] \in Nat /\ f[k] <= f[n]
    BY <1>0, <1>2, <1>4, <1>k, SMT
  <1>6. DrainedBytes(k) = f[k]
    BY <1>0, <1>1, <1>k, DrainedBytesIs DEF CoordinatorInv, CoordinatorTypes
  <1>7. queuedDeltaBytes' = f[n] - f[k]
    BY <1>3, <1>5, <1>6, SMT DEF Drain
  <1>8. /\ stream' \in Seq(Entries)
        /\ Len(stream') = n - k
        /\ \A i \in 1..(n - k) : stream'[i] = stream[k + i]
    <2>1. stream' \in Seq(Entries)
      BY DrainKeepsTiles DEF CoordinatorInv
    <2>2. stream' = SubSeq(stream, k + 1, n)
      BY <1>0 DEF Drain
    <2>3. \A i \in (k + 1)..n : stream[i] \in Entries
      BY <1>0, <1>k, ElementOfSeq, SMT DEF CoordinatorInv, CoordinatorTypes
    <2>4. /\ Len(SubSeq(stream, k + 1, n)) = IF k + 1 <= n THEN n - (k + 1) + 1 ELSE 0
          /\ \A i \in 1..(n - (k + 1) + 1) :
                SubSeq(stream, k + 1, n)[i] = stream[(k + 1) + i - 1]
      <3>1. k + 1 \in 1..(n + 1) /\ n \in k..n
        BY <1>0, <1>k, SMT
      <3> QED BY <1>0, <2>3, <3>1, SubSeqProperties, SMT DEF CoordinatorInv, CoordinatorTypes
    <2>5. \A i \in 1..(n - k) : (k + 1) + i - 1 = k + i
      BY <1>0, <1>k, SMT
    <2>6. n - (k + 1) + 1 = n - k /\ (~(k + 1 <= n) => n - k = 0)
      BY <1>0, <1>k, SMT
    <2> QED BY <2>1, <2>2, <2>4, <2>5, <2>6
  <1>9. PICK h : h = [i \in 0..(n - k) |-> f[k + i] - f[k]]
    OBVIOUS
  <1>10. \A i \in 0..(n - k) : k + i \in k..n /\ k + i \in 0..n
    BY <1>0, <1>k, SMT
  <1>11. h \in [0..(n - k) -> Nat]
    <2>1. \A i \in 0..(n - k) : f[k + i] - f[k] \in Nat
      BY <1>2, <1>4, <1>5, <1>10, SMT
    <2> QED BY <2>1, <1>9
  <1>12. ASSUME NEW i \in 1..(n - k) PROVE h[i] = h[i - 1] + stream'[i].bytes
    <2>1. /\ i \in 0..(n - k) /\ i - 1 \in 0..(n - k)
          /\ k + i \in 1..n /\ k + (i - 1) = (k + i) - 1
      BY <1>0, <1>k, SMT
    <2>2. f[k + i] = f[(k + i) - 1] + stream[k + i].bytes
      BY <2>1, <1>2
    <2>3. stream[k + i].bytes \in Nat /\ f[(k + i) - 1] \in Nat
      BY <2>1, <1>0, <1>2, <1>10, BytesOf DEF CoordinatorInv, CoordinatorTypes
    <2>4. h[i] = f[k + i] - f[k] /\ h[i - 1] = f[(k + i) - 1] - f[k]
      BY <2>1, <1>9
    <2>5. stream'[i].bytes = stream[k + i].bytes
      BY <1>8
    <2> QED BY <2>2, <2>3, <2>4, <2>5, <1>5, SMT
  <1>13. h[0] = 0 /\ h[n - k] = f[n] - f[k]
    <2>1. 0 \in 0..(n - k) /\ n - k \in 0..(n - k) /\ k + 0 = k /\ k + (n - k) = n
      BY <1>0, <1>k, SMT
    <2> QED BY <2>1, <1>5, <1>9, SMT
  <1>14. SumUpTo(stream', h, Len(stream'))
    BY <1>8, <1>11, <1>12, <1>13 DEF SumUpTo, Adds
  <1>15. queuedDeltaBytes' = h[Len(stream')]
    BY <1>7, <1>8, <1>13
  <1>16. queuedDeltaBytes' > MaxDeltaBytes => queuedDeltaBytes' = stream'[1].bytes
    <2>1. CASE k = 0
      <3>1. CASE n = 0
        BY <3>1, <2>1, <1>2, <1>7, CoordinatorConstants, SMT
      <3>2. CASE n # 0
        <4>1. 1 \in 1..(n - k) /\ k + 1 = 1
          BY <2>1, <3>2, <1>0, SMT
        <4> QED BY <4>1, <2>1, <1>2, <1>3, <1>5, <1>7, <1>8, SMT
      <3> QED BY <3>1, <3>2
    <2>2. CASE k # 0
      <3>1. 1 \in 1..n /\ 1 \in 0..n /\ k \in 1..n /\ 1 - 1 = 0
        BY <2>2, <1>0, <1>k, SMT
      <3>2. f[1] = stream[1].bytes
        <4>1. stream[1].bytes \in Nat
          BY <3>1, <1>0, BytesOf DEF CoordinatorInv, CoordinatorTypes
        <4> QED BY <4>1, <3>1, <1>2, SMT
      <3>3. f[1] <= f[k]
        <4>1. \A i \in 1..n : f[1] <= f[i]
          BY <3>1, <1>0, <1>1, SumGrows DEF CoordinatorInv, CoordinatorTypes
        <4> QED BY <3>1, <4>1
      <3>4. f[1] \in Nat
        BY <3>1, <1>2
      <3>5. f[n] - f[k] > MaxDeltaBytes => f[n] > MaxDeltaBytes
        BY <1>5, CoordinatorConstants, SMT
      <3> QED BY <3>2, <3>3, <3>4, <3>5, <1>3, <1>5, <1>7, CoordinatorConstants, SMT
    <2> QED BY <2>1, <2>2
  <1>17. Len(stream') > MaxStreamItems
           => /\ Len(stream') = MaxStreamItems + 1
              /\ stream'[Len(stream')].kind \in TerminalKinds
    <2>1. SUFFICES ASSUME n - k > MaxStreamItems
                   PROVE  k = 0 /\ n = MaxStreamItems + 1 /\ stream'[n] = stream[n]
      BY <1>0, <1>3, <1>8, SMT
    <2>2. k = 0 /\ n = MaxStreamItems + 1
      BY <2>1, <1>0, <1>k, <1>3, CoordinatorConstants, SMT
    <2>3. n \in 1..(n - k) /\ k + n = n
      BY <2>2, <1>0, CoordinatorConstants, SMT
    <2> QED BY <2>2, <2>3, <1>8
  <1> QED BY <1>8, <1>14, <1>15, <1>16, <1>17, QueueBoundedIsNext

LEMMA StreamKeepsQueue ==
    ASSUME QueueBounded, UNCHANGED streamVars
    PROVE  QueueBounded'
  BY DEF QueueBounded, DrainedBytes, LastEntry, streamVars

LEMMA InitQueue == Init => QueueBounded
  <1> SUFFICES ASSUME Init PROVE QueueBounded
    OBVIOUS
  <1>1. CoordinatorTypes
    BY CoordinatorInit DEF CoordinatorInv
  <1>2. Len(stream) = 0 /\ queuedDeltaBytes = 0
    BY EmptySeq DEF Init
  <1>3. PICK f : SumUpTo(stream, f, Len(stream))
    BY <1>1, SumExists DEF CoordinatorTypes
  <1>4. f[0] = 0
    BY <1>3 DEF SumUpTo, Adds
  <1> QED BY <1>1, <1>2, <1>3, <1>4, QueueBoundedIs, CoordinatorConstants, SMT

LEMMA StepKeepsQueue ==
    ASSUME CoordinatorInv, QueueBounded, [CoordinatorNext]_turnVars
    PROVE  QueueBounded'
  <1>1. ASSUME NEW item \in Items, EnqueueStreamItem(item) PROVE QueueBounded'
    BY <1>1, EnqueueKeepsQueue
  <1>2. ASSUME NEW k \in 0..Len(stream), Drain(k) PROVE QueueBounded'
    BY <1>2, DrainKeepsQueue
  <1>3. CASE UNCHANGED streamVars
    BY <1>3, StreamKeepsQueue
  <1>4. ASSUME NEW c \in Calls, QueueToolRequest(c) PROVE UNCHANGED streamVars
    BY <1>4 DEF QueueToolRequest
  <1>5. ASSUME NEW c \in Calls, NEW r \in Results, SubmitHostToolResult(c, r)
        PROVE  UNCHANGED streamVars
    BY <1>5 DEF SubmitHostToolResult
  <1>6. ASSUME NEW c \in Calls, PollSubmittedHostToolOutput(c) PROVE UNCHANGED streamVars
    BY <1>6 DEF PollSubmittedHostToolOutput
  <1>7. ASSUME Start \/ Yield \/ RequireAttention \/ Fail \/ Cancel
        PROVE  UNCHANGED streamVars
    BY <1>7 DEF Start, Yield, RequireAttention, Fail, Cancel, TransitionTerminal
  <1>8. ASSUME UNCHANGED turnVars PROVE UNCHANGED streamVars
    BY <1>8 DEF turnVars
  <1> QED BY <1>1, <1>2, <1>3, <1>4, <1>5, <1>6, <1>7, <1>8 DEF CoordinatorNext

(* queued_delta_bytes is, after any sequence of enqueues, coalescings and  *)
(* drains, exactly the bytes of the queued entries: it neither drifts nor  *)
(* is saturated at zero by a drain, it passes max_stream_delta_bytes only  *)
(* for a delta that found the queue empty, and the list passes             *)
(* max_stream_items only by its terminal item.                             *)
THEOREM QueueIsBounded == CoordinatorSpec => []QueueBounded
  <1>1. CoordinatorInv /\ QueueBounded /\ [CoordinatorNext]_turnVars => QueueBounded'
    BY StepKeepsQueue
  <1>2. CoordinatorSpec => []CoordinatorInv
    BY CoordinatorInvariant
  <1>3. Init => QueueBounded
    BY InitQueue
  <1> QED BY <1>1, <1>2, <1>3, PTL DEF CoordinatorSpec

=============================================================================
