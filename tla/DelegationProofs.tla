-------------------------- MODULE DelegationProofs --------------------------
(* Proofs about delegation, for any requests, batches and depth, and with a   *)
(* crash or a failing store between any two commits.                          *)
(*                                                                            *)
(* The calls of the engine are series of commits, so the invariant speaks of  *)
(* what is still to do: GoodTasks says what an entry of todo may ask for, and *)
(* Backed what the store already holds when it gets its turn.                 *)
(*                                                                            *)
(* The worker pool, a component of the engine that the delegations claim      *)
(* their members from, comes first: its theorems hold under any order of its  *)
(* transactions, the delegations' among them.                                 *)
EXTENDS Delegation, FiniteSetTheorems, TLAPS

USE Zenon

(******************************************************************************)
(* The worker pool, for any members, limits and names.                        *)
(******************************************************************************)
\* A lease that was never granted names no item.
BlankLeases == \A l \in Runs : lease[l].status = "none" => lease[l].item = None

PoolInv == PoolTypeOK /\ BlankLeases /\ ClaimsAgree /\ SlotsCounted

(* What a member holds can be counted.                                        *)
LEMMA HeldIsFinite ==
    ASSUME NEW m \in Members
    PROVE  IsFiniteSet(Held(m)) /\ Cardinality(Held(m)) \in Nat
<1>1. Held(m) \in SUBSET Runs
  BY DEF Held
<1>2. IsFiniteSet(Held(m))
  BY <1>1, FS_Subset, PoolAssumption DEF PoolAssumption
<1> QED
  BY <1>2, FS_CardinalityType

(* A step that holds the same items, and charges members as before, keeps the *)
(* count.                                                                     *)
LEMMA SameCharges ==
    ASSUME SlotsCounted,
           \A m \in Members : Held(m)' = Held(m),
           \A m \in Members : member'[m].active = member[m].active
    PROVE  SlotsCounted'
BY DEF SlotsCounted

LEMMA InitialPool == PoolInit => PoolInv
<1> SUFFICES ASSUME PoolInit PROVE PoolInv
  OBVIOUS
<1> USE DEF PoolInit, NoItem, NoLease
<1>1. PoolTypeOK
  BY PoolAssumption, SMT DEF PoolTypeOK, PoolAssumption, MemberRecords, ItemRecords, LeaseRecords
<1>2. /\ \A i \in Runs : item[i].status = "none"
      /\ \A l \in Runs : lease[l].status = "none" /\ lease[l].item = None
  OBVIOUS
<1>5. BlankLeases /\ ClaimsAgree
  BY <1>2 DEF BlankLeases, ClaimsAgree
<1>3. \A m \in Members : Cardinality(Held(m)) = 0
  <2>1. \A m \in Members : Held(m) = {}
    BY <1>2 DEF Held
  <2> QED
    BY <2>1, FS_EmptySet
<1>4. SlotsCounted
  BY <1>3, PoolAssumption, SMT DEF SlotsCounted, PoolAssumption
<1> QED
  BY <1>1, <1>5, <1>4 DEF PoolInv

(* Members.                                                                   *)
LEMMA MembersPreserve ==
    ASSUME PoolInv, NEW m \in Members, NEW s \in MemberStatuses,
           UpsertMember(m) \/ Heartbeat(m, s)
    PROVE  PoolInv'
<1> USE DEF PoolInv
<1>0. PICK t \in MemberStatuses : /\ member' = [member EXCEPT ![m].status = t]
                                  /\ UNCHANGED <<item, created, lease>>
  BY DEF UpsertMember, Heartbeat, MemberStatuses
<1>1. PoolTypeOK'
  <2>1. member[m] \in MemberRecords
    BY DEF PoolTypeOK
  <2>2. [member[m] EXCEPT !.status = t] \in MemberRecords
    BY <2>1 DEF MemberRecords
  <2>3. member' \in [Members -> MemberRecords]
    BY <1>0, <2>2 DEF PoolTypeOK
  <2> QED
    BY <1>0, <2>3 DEF PoolTypeOK
<1>2. BlankLeases' /\ ClaimsAgree'
  BY <1>0 DEF BlankLeases, ClaimsAgree
<1>3. \A n \in Members : Held(n)' = Held(n)
  BY <1>0 DEF Held
<1>4. \A n \in Members : member'[n].active = member[n].active
  BY <1>0 DEF PoolTypeOK, MemberRecords
<1> QED
  BY <1>1, <1>2, <1>3, <1>4, SameCharges

LEMMA CreateItemPreserves ==
    ASSUME PoolInv, NEW i \in Runs, CreateItem(i)
    PROVE  PoolInv'
<1> USE DEF PoolInv
<1>0. /\ item[i].status = "none"
      /\ item' = [item EXCEPT ![i].status = "pending"]
      /\ created' = Append(created, i)
      /\ UNCHANGED <<member, lease>>
  BY DEF CreateItem
<1>1. PoolTypeOK'
  <2>1. [item[i] EXCEPT !.status = "pending"] \in ItemRecords
    BY DEF PoolTypeOK, ItemRecords
  <2>2. item' \in [Runs -> ItemRecords]
    BY <1>0, <2>1 DEF PoolTypeOK
  <2> QED
    BY <1>0, <2>2, SMT DEF PoolTypeOK
<1>2. BlankLeases'
  BY <1>0 DEF BlankLeases
<1>3. ClaimsAgree'
  BY <1>0, SMT DEF ClaimsAgree, PoolTypeOK, ItemRecords, LeaseRecords, Terminal
<1>4. \A m \in Members : Held(m)' = Held(m)
  BY <1>0 DEF Held, PoolTypeOK, ItemRecords
<1>5. \A m \in Members : member'[m].active = member[m].active
  BY <1>0
<1> QED
  BY <1>1, <1>2, <1>3, <1>4, <1>5, SameCharges

LEMMA ClaimPreserves ==
    ASSUME PoolInv, NEW m \in Members, NEW l \in Runs, NEW t \in Runs, ClaimNext(m, l, t)
    PROVE  PoolInv'
<1> USE DEF PoolInv
<1>0. PICK i \in Runs : Claim(m, l, t, i)
  BY SMT DEF ClaimNext, Pending, PoolTypeOK
<1> DEFINE it == [status |-> "claimed", member |-> m, lease |-> l, token |-> t]
           le == [status |-> "active", member |-> m, item |-> i, token |-> t]
<1>1. PICK me \in MemberRecords : /\ member' = [member EXCEPT ![m] = me]
                                  /\ me.active = member[m].active + 1
  <2>1. member[m] \in MemberRecords
    BY DEF PoolTypeOK
  <2> DEFINE st == IF member[m].active + 1 >= Limit[m] THEN "busy" ELSE member[m].status
             me == [status |-> st, active |-> member[m].active + 1]
  <2>2. st \in MemberStatuses \cup {"none"}
    BY <2>1 DEF MemberRecords, MemberStatuses
  <2>3. member' = [member EXCEPT ![m] = me]
    BY <1>0 DEF Claim
  <2> HIDE DEF st
  <2>4. me \in MemberRecords /\ me.active = member[m].active + 1
    BY <2>1, <2>2, SMT DEF MemberRecords
  <2> QED
    BY <2>3, <2>4
<1>2. /\ HasSlot(m) /\ item[i].status = "pending" /\ lease[l].status = "none"
      /\ item' = [item EXCEPT ![i] = it]
      /\ lease' = [lease EXCEPT ![l] = le]
      /\ created' = created
  BY <1>0 DEF Claim
<1>3. PoolTypeOK'
  <2>1. it \in ItemRecords /\ le \in LeaseRecords
    BY DEF ItemRecords, LeaseRecords
  <2> HIDE DEF it, le
  <2> QED
    BY <1>1, <1>2, <2>1 DEF PoolTypeOK
<1>4. BlankLeases'
  BY <1>2 DEF BlankLeases, PoolTypeOK
<1>5. ClaimsAgree'
  <2>1. lease[l].item = None
    BY <1>2 DEF BlankLeases
  <2>2. item'[i] = it /\ lease'[l] = le
    BY <1>2 DEF PoolTypeOK
  <2>3. \A k \in Runs \ {i} : item'[k] = item[k]
    BY <1>2 DEF PoolTypeOK
  <2>4. \A k \in Runs \ {l} : lease'[k] = lease[k]
    BY <1>2 DEF PoolTypeOK
  <2>5. ASSUME NEW k \in Runs, lease'[k].status # "none"
        PROVE  /\ lease'[k].item \in Runs
               /\ item'[lease'[k].item].lease = k
               /\ item'[lease'[k].item].token = lease'[k].token
               /\ item'[lease'[k].item].member = lease'[k].member
               /\ item'[lease'[k].item].status =
                    IF lease'[k].status = "active" THEN "claimed" ELSE lease'[k].status
    <3>1. CASE k = l
      BY <2>2, <3>1, SMT
    <3>2. CASE k # l
      <4>1. lease[k].item # i
        BY <1>2, <2>4, <2>5, <3>2, SMT DEF ClaimsAgree, PoolTypeOK, LeaseRecords, Terminal
      <4> QED
        BY <2>3, <2>4, <2>5, <3>2, <4>1, SMT DEF ClaimsAgree
    <3> QED
      BY <3>1, <3>2
  <2>6. ASSUME NEW k \in Runs, item'[k].status \notin {"none", "pending"}
        PROVE  item'[k].lease \in Runs /\ lease'[item'[k].lease].item = k
    <3>1. CASE k = i
      BY <2>2, <3>1, SMT
    <3>2. CASE k # i
      <4>1. item[k].lease \in Runs /\ lease[item[k].lease].item = k
        BY <2>3, <2>6, <3>2 DEF ClaimsAgree
      <4>2. item[k].lease # l
        BY <2>1, <4>1, PoolAssumption DEF PoolAssumption
      <4> QED
        BY <2>3, <2>4, <3>2, <4>1, <4>2
    <3> QED
      BY <3>1, <3>2
  <2> QED
    BY <2>5, <2>6 DEF ClaimsAgree
<1>6. SlotsCounted'
  <2>1. Held(m)' = Held(m) \cup {i} /\ i \notin Held(m)
    BY <1>2 DEF Held, PoolTypeOK
  <2>2. Cardinality(Held(m)') = Cardinality(Held(m)) + 1
    BY <2>1, HeldIsFinite, FS_AddElement
  <2>3. \A n \in Members \ {m} : Held(n)' = Held(n)
    BY <1>2 DEF Held, PoolTypeOK
  <2>4. member'[m] = me /\ \A n \in Members \ {m} : member'[n] = member[n]
    BY <1>1 DEF PoolTypeOK
  <2>5. member[m].active < Limit[m] /\ member[m].active \in Nat /\ Limit[m] \in Nat
    BY <1>2, PoolAssumption DEF HasSlot, PoolTypeOK, MemberRecords, PoolAssumption
  <2>6. member'[m].active = Cardinality(Held(m)') /\ member'[m].active <= Limit[m]
    BY <1>1, <2>2, <2>4, <2>5, SMT DEF SlotsCounted
  <2> QED
    BY <2>3, <2>4, <2>6 DEF SlotsCounted
<1> QED
  BY <1>3, <1>4, <1>5, <1>6

(* Items that end are taken off their members, one slot each.                 *)
LEMMA ReleasedCounts ==
    ASSUME PoolInv, NEW ended \in SUBSET Runs,
           \A i \in ended : item[i].status = "claimed",
           \A m \in Members : Held(m)' = Held(m) \ ended,
           member' = Released(ended)
    PROVE  member' \in [Members -> MemberRecords] /\ SlotsCounted'
<1> USE DEF PoolInv
<1> SUFFICES ASSUME NEW m \in Members
             PROVE  /\ member'[m] \in MemberRecords
                    /\ member'[m].active = Cardinality(Held(m)')
                    /\ member'[m].active <= Limit[m]
  BY DEF SlotsCounted, Released
<1> DEFINE n == Cardinality({i \in ended : item[i].member = m})
<1>1. {i \in ended : item[i].member = m} = Held(m) \cap ended
  BY DEF Held
<1>2. /\ n \in Nat
      /\ Cardinality(Held(m)') = Cardinality(Held(m)) - n
      /\ n <= Cardinality(Held(m))
  <2>1. IsFiniteSet(Held(m)) /\ Cardinality(Held(m)) \in Nat
    BY HeldIsFinite
  <2>2. IsFiniteSet(Held(m) \cap ended)
    BY <2>1, FS_Intersection
  <2>3. Cardinality(Held(m) \cap ended) \in Nat
    BY <2>2, FS_CardinalityType
  <2>4. Cardinality(Held(m) \ ended) = Cardinality(Held(m)) - Cardinality(Held(m) \cap ended)
    BY <2>1, FS_Difference
  <2>5. Held(m) \cap ended \in SUBSET Held(m)
    OBVIOUS
  <2>6. Cardinality(Held(m) \cap ended) <= Cardinality(Held(m))
    BY <2>1, <2>5, FS_Subset
  <2> QED
    BY <1>1, <2>3, <2>4, <2>6
<1>3. member[m] \in MemberRecords
  BY DEF PoolTypeOK
<1>4. /\ member[m].active = Cardinality(Held(m)) /\ member[m].active <= Limit[m]
      /\ member[m].active \in Nat /\ Limit[m] \in Nat
  BY <1>3, PoolAssumption DEF SlotsCounted, MemberRecords, PoolAssumption
<1>5. member'[m] = IF n = 0 THEN member[m]
                   ELSE [status |-> IF member[m].status \in CanClaim THEN "available"
                                    ELSE member[m].status,
                         active |-> IF member[m].active > n THEN member[m].active - n ELSE 0]
  BY DEF Released
<1> HIDE DEF n
<1>6. member'[m].active = member[m].active - n
  BY <1>2, <1>4, <1>5, SMT
<1>7. member'[m] \in MemberRecords
  BY <1>2, <1>3, <1>4, <1>5, SMT DEF MemberRecords, MemberStatuses
<1> QED
  BY <1>2, <1>4, <1>6, <1>7, SMT

LEMMA CompletePreserves ==
    ASSUME PoolInv, NEW l \in Runs, NEW t \in Runs, NEW s \in Terminal, Complete(l, t, s)
    PROVE  PoolInv'
<1> USE DEF PoolInv
<1>0. PICK j \in Runs : j = lease[l].item
  BY DEF Complete, CanComplete, ClaimsAgree
<1>1. /\ lease[l].status = "active" /\ item[j].status = "claimed" /\ item[j].lease = l
      /\ item' = [item EXCEPT ![j].status = s]
      /\ lease' = [lease EXCEPT ![l].status = s]
      /\ member' = Released({j})
      /\ created' = created
  BY <1>0 DEF Complete, CanComplete
<1>2. item[j] \in ItemRecords /\ lease[l] \in LeaseRecords
  BY DEF PoolTypeOK
<1>3. PICK it \in ItemRecords : /\ item' = [item EXCEPT ![j] = it]
                                /\ it.status = s /\ it.lease = item[j].lease
                                /\ it.token = item[j].token /\ it.member = item[j].member
  <2> DEFINE it == [item[j] EXCEPT !.status = s]
  <2>1. it \in ItemRecords /\ it.status = s /\ it.lease = item[j].lease
        /\ it.token = item[j].token /\ it.member = item[j].member
    BY <1>2 DEF ItemRecords
  <2>2. item' = [item EXCEPT ![j] = it]
    BY <1>1 DEF PoolTypeOK
  <2> QED
    BY <2>1, <2>2
<1>4. PICK le \in LeaseRecords : /\ lease' = [lease EXCEPT ![l] = le]
                                 /\ le.status = s /\ le.item = j
                                 /\ le.token = lease[l].token /\ le.member = lease[l].member
  <2> DEFINE le == [lease[l] EXCEPT !.status = s]
  <2>1. le \in LeaseRecords /\ le.status = s /\ le.item = lease[l].item
        /\ le.token = lease[l].token /\ le.member = lease[l].member
    BY <1>2 DEF LeaseRecords
  <2>2. lease' = [lease EXCEPT ![l] = le]
    BY <1>1 DEF PoolTypeOK
  <2> QED
    BY <1>0, <2>1, <2>2
<1>5. /\ item'[j] = it /\ \A k \in Runs \ {j} : item'[k] = item[k]
      /\ lease'[l] = le /\ \A k \in Runs \ {l} : lease'[k] = lease[k]
  BY <1>3, <1>4 DEF PoolTypeOK
<1>6. s \notin {"none", "pending", "claimed", "active"}
  BY DEF Terminal
<1>7. BlankLeases'
  BY <1>4, <1>5, <1>6 DEF BlankLeases
<1>8. ClaimsAgree'
  <2>1. ASSUME NEW k \in Runs, lease'[k].status # "none"
        PROVE  /\ lease'[k].item \in Runs
               /\ item'[lease'[k].item].lease = k
               /\ item'[lease'[k].item].token = lease'[k].token
               /\ item'[lease'[k].item].member = lease'[k].member
               /\ item'[lease'[k].item].status =
                    IF lease'[k].status = "active" THEN "claimed" ELSE lease'[k].status
    <3>1. CASE k = l
      BY <1>0, <1>1, <1>3, <1>4, <1>5, <1>6, <3>1, SMTT(30) DEF ClaimsAgree
    <3>2. CASE k # l
      BY <1>1, <1>5, <2>1, <3>2, SMT DEF ClaimsAgree
    <3> QED
      BY <3>1, <3>2
  <2>2. ASSUME NEW k \in Runs, item'[k].status \notin {"none", "pending"}
        PROVE  item'[k].lease \in Runs /\ lease'[item'[k].lease].item = k
    BY <1>0, <1>1, <1>3, <1>4, <1>5, <2>2, SMTT(30) DEF ClaimsAgree
  <2> QED
    BY <2>1, <2>2 DEF ClaimsAgree
<1>9. member' \in [Members -> MemberRecords] /\ SlotsCounted'
  <2>1. \A m \in Members : Held(m)' = Held(m) \ {j}
    BY <1>3, <1>5, <1>6 DEF Held
  <2> QED
    BY <1>1, <2>1, ReleasedCounts
<1>10. PoolTypeOK'
  <2>1. item' \in [Runs -> ItemRecords]
    BY <1>3 DEF PoolTypeOK
  <2>2. lease' \in [Runs -> LeaseRecords]
    BY <1>4 DEF PoolTypeOK
  <2> QED
    BY <1>1, <1>9, <2>1, <2>2 DEF PoolTypeOK
<1> QED
  BY <1>7, <1>8, <1>9, <1>10

LEMMA ExpirePreserves ==
    ASSUME PoolInv, NEW stale \in SUBSET Runs, ExpireClaims(stale)
    PROVE  PoolInv'
<1> USE DEF PoolInv
<1>1. /\ \A i \in stale : item[i].status = "claimed"
      /\ item' = [i \in Runs |-> IF i \in stale THEN [item[i] EXCEPT !.status = "expired"]
                                 ELSE item[i]]
      /\ lease' = LeasesExpired(stale)
      /\ member' = Released(stale)
      /\ created' = created
  BY DEF ExpireClaims
<1>2. \A i \in Runs : /\ item'[i] \in ItemRecords
                      /\ item'[i].lease = item[i].lease /\ item'[i].token = item[i].token
                      /\ item'[i].member = item[i].member
                      /\ item'[i].status = IF i \in stale THEN "expired" ELSE item[i].status
  BY <1>1 DEF PoolTypeOK, ItemRecords, Terminal
<1>3. \A l \in Runs :
        /\ lease'[l] \in LeaseRecords
        /\ lease'[l].item = lease[l].item /\ lease'[l].token = lease[l].token
        /\ lease'[l].member = lease[l].member
        /\ lease'[l].status = IF lease[l].status = "active" /\ \E i \in stale : item[i].lease = l
                              THEN "expired" ELSE lease[l].status
  BY <1>1, SMTT(30) DEF LeasesExpired, PoolTypeOK, LeaseRecords, Terminal
<1>4. BlankLeases'
  BY <1>3 DEF BlankLeases
<1>5. ClaimsAgree'
  <2>1. ASSUME NEW k \in Runs, lease'[k].status # "none"
        PROVE  /\ lease'[k].item \in Runs
               /\ item'[lease'[k].item].lease = k
               /\ item'[lease'[k].item].token = lease'[k].token
               /\ item'[lease'[k].item].member = lease'[k].member
               /\ item'[lease'[k].item].status =
                    IF lease'[k].status = "active" THEN "claimed" ELSE lease'[k].status
    <3>1. PICK j \in Runs : /\ j = lease[k].item /\ item[j].lease = k
                            /\ item[j].token = lease[k].token /\ item[j].member = lease[k].member
                            /\ item[j].status = IF lease[k].status = "active" THEN "claimed"
                                                ELSE lease[k].status
      BY <1>3, <2>1 DEF ClaimsAgree
    <3>2. (\E i \in stale : item[i].lease = k) => j \in stale
      BY <1>1, <3>1, SMT DEF ClaimsAgree
    <3>3. j \in stale => lease[k].status = "active"
      BY <1>1, <3>1 DEF PoolTypeOK, LeaseRecords, Terminal
    <3> QED
      BY <1>2, <1>3, <3>1, <3>2, <3>3, SMT
  <2>2. ASSUME NEW k \in Runs, item'[k].status \notin {"none", "pending"}
        PROVE  item'[k].lease \in Runs /\ lease'[item'[k].lease].item = k
    <3>1. item[k].status \notin {"none", "pending"}
      BY <1>1, <1>2, <2>2
    <3> QED
      BY <1>2, <1>3, <3>1, SMT DEF ClaimsAgree
  <2> QED
    BY <2>1, <2>2 DEF ClaimsAgree
<1>6. member' \in [Members -> MemberRecords] /\ SlotsCounted'
  <2>1. \A m \in Members : Held(m)' = Held(m) \ stale
    BY <1>2 DEF Held
  <2> QED
    BY <1>1, <2>1, ReleasedCounts
<1>7. PoolTypeOK'
  <2>1. item' \in [Runs -> ItemRecords]
    BY <1>1, <1>2
  <2>2. lease' \in [Runs -> LeaseRecords]
    BY <1>1, <1>3 DEF LeasesExpired
  <2> QED
    BY <1>1, <1>6, <2>1, <2>2 DEF PoolTypeOK
<1> QED
  BY <1>4, <1>5, <1>6, <1>7

LEMMA PoolStep == PoolInv /\ [PoolNext]_poolVars => PoolInv'
<1> SUFFICES ASSUME PoolInv, [PoolNext]_poolVars PROVE PoolInv'
  OBVIOUS
<1>1. ASSUME NEW m \in Members, UpsertMember(m) PROVE PoolInv'
  <2>1. "busy" \in MemberStatuses
    BY DEF MemberStatuses
  <2> QED
    BY <1>1, <2>1, MembersPreserve
<1>2. ASSUME NEW m \in Members, NEW s \in MemberStatuses, Heartbeat(m, s) PROVE PoolInv'
  BY <1>2, MembersPreserve
<1>3. ASSUME NEW m \in Members, NEW l \in Runs, NEW t \in Runs, ClaimNext(m, l, t)
      PROVE  PoolInv'
  BY <1>3, ClaimPreserves
<1>4. ASSUME NEW i \in Runs, CreateItem(i) PROVE PoolInv'
  BY <1>4, CreateItemPreserves
<1>5. ASSUME NEW l \in Runs, NEW t \in Runs, NEW s \in Terminal, Complete(l, t, s)
      PROVE  PoolInv'
  BY <1>5, CompletePreserves
<1>6. ASSUME NEW stale \in SUBSET Runs, ExpireClaims(stale) PROVE PoolInv'
  BY <1>6, ExpirePreserves
<1>7. CASE UNCHANGED poolVars
  BY <1>7, SMT DEF poolVars, PoolInv, PoolTypeOK, BlankLeases, ClaimsAgree, SlotsCounted, Held
<1> QED
  BY <1>1, <1>2, <1>3, <1>4, <1>5, <1>6, <1>7 DEF PoolNext

(* No member is ever over its limit or charged for what it does not hold, and *)
(* items and leases agree, for any number of members and items and whatever   *)
(* the order of registrations, heartbeats, claims, completions and expiries   *)
(* (sqlite_worker_pool.rs).                                                   *)
THEOREM PoolIsConsistent == PoolSpec => [](SlotsCounted /\ ClaimsAgree)
<1>1. PoolInv => SlotsCounted /\ ClaimsAgree
  BY DEF PoolInv
<1> QED
  BY <1>1, InitialPool, PoolStep, PTL DEF PoolSpec

(******************************************************************************)
(* Delegation.                                                                *)
(******************************************************************************)
OfRuns == {"spawn", "claim", "open", "save", "status", "packet", "outcome", "release",
           "fail_fast", "conclude"}

Stopped == {"cancelled", "expired"}

GoodTasks ==
    {t \in Tasks :
        /\ t.op \in OfRuns => t.session \in Runs
        /\ t.op = "claim" => Request[t.session].member \in Members
        /\ t.op = "status" => t.status \notin Terminal \ Stopped
        /\ t.op \in {"packet", "outcome", "release"} => t.status \in Outcomes
        /\ t.op = "cancel" => t.status \in Stopped
        /\ t.op \in {"cancel", "close", "orphans"} => t.of \subseteq Runs}

\* Entries that rely on nothing in the store.
FreeTasks ==
    {t \in GoodTasks :
        /\ t.op \notin {"outcome", "save"}
        /\ t.op = "status" => t.status \notin Stopped
        /\ t.op = "open" => t.of = {}}

\* What the store holds when an entry is in todo: a session is archived before
\* its run is marked, a packet is saved before its outcome, a lease is granted
\* before the run that records it, and a session is registered before it is saved.
Backed(t) ==
    /\ t.op = "status" /\ t.status \in Stopped => saved[t.session] = "archived"
    /\ t.op = "outcome" => t.status \in packets[t.session]
    /\ t.op = "open" /\ t.of # {} => lease[t.session].status # "none"
    /\ t.op = "save" => saved[t.session] = "none" /\ session[t.session] # "none"

Types ==
    /\ todo \in Seq(GoodTasks)
    /\ session \in [Sessions -> SessionStates]
    /\ saved \in [Sessions -> SessionStates]
    /\ run \in [Runs -> RunRecords]
    /\ packets \in [Runs -> SUBSET Outcomes]

TodoBacked ==
    /\ \A k \in 1..Len(todo) : Backed(todo[k])
    /\ \A k \in 2..Len(todo) : todo[k].op # "save"

\* A session in the table is in the registry.
RegistryKnows == \A s \in Sessions : saved[s] # "none" => session[s] # "none"

DelegationInv ==
    /\ PoolInv /\ Types /\ TodoBacked /\ RegistryKnows
    /\ StatusIsTrue /\ OneRunPerItem

-----------------------------------------------------------------------------
(* The list of what is to do.                                                 *)

\* What no step takes back.
Grows ==
    /\ \A r \in Runs : saved[r] = "archived" => saved'[r] = "archived"
    /\ \A r \in Runs : packets[r] \subseteq packets'[r]
    /\ \A r \in Runs : lease[r].status # "none" => lease'[r].status # "none"

LEMMA FreeIsBacked ==
    ASSUME NEW t \in FreeTasks
    PROVE  t \in GoodTasks /\ Backed(t) /\ t.op # "save"
BY DEF FreeTasks, Backed

LEMMA BackedStays ==
    ASSUME Grows, NEW t \in GoodTasks, t.op # "save", Backed(t)
    PROVE  Backed(t)'
<1>1. t.op \in {"status", "outcome", "open"} => t.session \in Runs
  BY DEF GoodTasks, OfRuns
<1> QED
  BY <1>1 DEF Backed, Grows

(* An entry is replaced by one that is backed and others that rely on nothing.*)
LEMMA ThenOne ==
    ASSUME Types, TodoBacked, Grows, todo # <<>>,
           NEW t \in GoodTasks, NEW free \in Seq(FreeTasks),
           todo' = (<<t>> \o free) \o Tail(todo), Backed(t)'
    PROVE  todo' \in Seq(GoodTasks) /\ TodoBacked'
<1>1. todo \in Seq(GoodTasks) /\ free \in Seq(GoodTasks)
  <2>1. FreeTasks \subseteq GoodTasks
    BY DEF FreeTasks
  <2> QED
    BY <2>1, SMT DEF Types
<1>2. todo' \in Seq(GoodTasks) /\ Len(todo') = Len(free) + Len(todo)
  BY <1>1, SMT
<1>3. ASSUME NEW k \in 1..Len(todo'), k # 1
      PROVE  (\E j \in 1..Len(free) : todo'[k] = free[j])
             \/ (\E j \in 2..Len(todo) : todo'[k] = todo[j])
  <2>1. CASE k <= Len(free) + 1
    <3>1. todo'[k] = (<<t>> \o free)[k]
      BY <1>1, <1>2, <2>1, SMT
    <3>2. todo'[k] = free[k - 1] /\ k - 1 \in 1..Len(free)
      BY <1>1, <1>2, <1>3, <2>1, <3>1, SMT
    <3> QED
      BY <3>2
  <2>2. CASE k > Len(free) + 1
    <3>1. todo'[k] = Tail(todo)[k - (Len(free) + 1)]
      BY <1>1, <1>2, <2>2, SMT
    <3>2. todo'[k] = todo[k - Len(free)]
      BY <1>1, <1>2, <2>2, <3>1, SMT
    <3> QED
      BY <1>1, <1>2, <2>2, <3>2, SMT
  <2> QED
    BY <1>1, <1>2, <2>1, <2>2, SMT
<1>4. todo'[1] = t
  BY <1>1, SMT
<1>5. ASSUME NEW k \in 1..Len(todo'), k # 1
      PROVE  Backed(todo[k])' /\ todo'[k].op # "save"
  <2>1. PICK u \in GoodTasks : u = todo'[k]
    BY <1>2, SMT
  <2>2. u.op # "save" /\ Backed(u)'
    <3>1. CASE \E j \in 1..Len(free) : u = free[j]
      <4>1. u \in FreeTasks
        BY <3>1, SMT
      <4> QED
        BY <4>1, FreeIsBacked, BackedStays
    <3>2. CASE \E j \in 2..Len(todo) : u = todo[j]
      <4>1. u.op # "save" /\ Backed(u)
        BY <1>1, <3>2, SMT DEF TodoBacked
      <4> QED
        BY <4>1, BackedStays
    <3> QED
      BY <1>3, <1>5, <2>1, <3>1, <3>2
  <2> QED
    BY <2>1, <2>2 DEF Backed
<1>6. Backed(todo[1])'
  BY <1>4 DEF Backed
<1>7. \A k \in 1..Len(todo') : Backed(todo[k])'
  BY <1>5, <1>6 DEF Backed
<1>8. \A k \in 2..Len(todo') : todo'[k].op # "save"
  BY <1>2, <1>5, SMT
<1> QED
  BY <1>2, <1>7, <1>8 DEF TodoBacked

LEMMA ThenSingle ==
    ASSUME Types, TodoBacked, Grows, todo # <<>>,
           NEW t \in GoodTasks, todo' = <<t>> \o Tail(todo), Backed(t)'
    PROVE  todo' \in Seq(GoodTasks) /\ TodoBacked'
<1>1. <<>> \in Seq(FreeTasks)
  BY SMT
<1>2. <<t>> \o <<>> = <<t>>
  BY SMT
<1> QED
  BY <1>1, <1>2, ThenOne

(* An entry is replaced by others that rely on nothing.                       *)
LEMMA ThenFree ==
    ASSUME Types, TodoBacked, Grows, todo # <<>>,
           NEW free \in Seq(FreeTasks), todo' = free \o Tail(todo)
    PROVE  todo' \in Seq(GoodTasks) /\ TodoBacked'
<1>1. todo \in Seq(GoodTasks) /\ free \in Seq(GoodTasks)
  <2>1. FreeTasks \subseteq GoodTasks
    BY DEF FreeTasks
  <2> QED
    BY <2>1, SMT DEF Types
<1>2. todo' \in Seq(GoodTasks) /\ Len(todo') = Len(free) + Len(todo) - 1
  BY <1>1, SMT
<1>3. ASSUME NEW k \in 1..Len(todo')
      PROVE  (\E j \in 1..Len(free) : todo'[k] = free[j])
             \/ (\E j \in 2..Len(todo) : todo'[k] = todo[j])
  <2>1. CASE k <= Len(free)
    BY <1>1, <1>2, <2>1, SMT
  <2>2. CASE k > Len(free)
    <3>1. todo'[k] = Tail(todo)[k - Len(free)]
      BY <1>1, <1>2, <2>2, SMT
    <3>2. todo'[k] = todo[k - Len(free) + 1]
      BY <1>1, <1>2, <2>2, <3>1, SMT
    <3> QED
      BY <1>1, <1>2, <2>2, <3>2, SMT
  <2> QED
    BY <1>1, <1>2, <2>1, <2>2, SMT
<1>4. ASSUME NEW k \in 1..Len(todo')
      PROVE  Backed(todo[k])' /\ todo'[k].op # "save"
  <2>1. PICK u \in GoodTasks : u = todo'[k]
    BY <1>2, SMT
  <2>2. u.op # "save" /\ Backed(u)'
    <3>1. CASE \E j \in 1..Len(free) : u = free[j]
      <4>1. u \in FreeTasks
        BY <3>1, SMT
      <4> QED
        BY <4>1, FreeIsBacked, BackedStays
    <3>2. CASE \E j \in 2..Len(todo) : u = todo[j]
      <4>1. u.op # "save" /\ Backed(u)
        BY <1>1, <3>2, SMT DEF TodoBacked
      <4> QED
        BY <4>1, BackedStays
    <3> QED
      BY <1>3, <2>1, <3>1, <3>2
  <2> QED
    BY <2>1, <2>2 DEF Backed
<1>5. \A k \in 1..Len(todo') : Backed(todo[k])'
  BY <1>4 DEF Backed
<1>6. \A k \in 2..Len(todo') : todo'[k].op # "save"
  BY <1>2, <1>4, SMT
<1> QED
  BY <1>2, <1>5, <1>6 DEF TodoBacked

(* A call begins, or the one in progress is over.                             *)
LEMMA StartsFree ==
    ASSUME NEW free \in Seq(FreeTasks), todo' = free
    PROVE  todo' \in Seq(GoodTasks) /\ TodoBacked'
<1>1. todo' \in Seq(GoodTasks)
  <2>1. FreeTasks \subseteq GoodTasks
    BY DEF FreeTasks
  <2> QED
    BY <2>1, SMT
<1>2. ASSUME NEW k \in 1..Len(todo')
      PROVE  Backed(todo[k])' /\ todo'[k].op # "save"
  <2>1. todo'[k] \in FreeTasks
    BY SMT
  <2> QED
    BY <2>1 DEF FreeTasks, Backed
<1>3. \A k \in 1..Len(todo') : Backed(todo[k])'
  BY <1>2 DEF Backed
<1>4. \A k \in 2..Len(todo') : todo'[k].op # "save"
  BY <1>1, <1>2, SMT
<1> QED
  BY <1>1, <1>3, <1>4 DEF TodoBacked

-----------------------------------------------------------------------------
(* Steps.                                                                     *)

(* A lease that was granted stays granted, for the same item.                 *)
LEMMA LeasesStay ==
    ASSUME PoolInv, [PoolNext]_poolVars, NEW l \in Runs, lease[l].status # "none"
    PROVE  lease'[l].status # "none" /\ lease'[l].item = lease[l].item
<1> USE DEF PoolInv
<1>1. ASSUME NEW m \in Members, NEW k \in Runs, NEW t \in Runs, ClaimNext(m, k, t)
      PROVE  lease'[l].status # "none" /\ lease'[l].item = lease[l].item
  <2>1. lease[k].status = "none" /\ \E le : lease' = [lease EXCEPT ![k] = le]
    BY <1>1 DEF ClaimNext, Claim
  <2> QED
    BY <2>1 DEF PoolTypeOK
<1>2. ASSUME NEW k \in Runs, NEW t \in Runs, NEW s \in Terminal, Complete(k, t, s)
      PROVE  lease'[l].status # "none" /\ lease'[l].item = lease[l].item
  <2>1. lease' = [lease EXCEPT ![k].status = s] /\ lease[k] \in LeaseRecords
    BY <1>2 DEF Complete, PoolTypeOK
  <2> QED
    BY <2>1 DEF PoolTypeOK, LeaseRecords, Terminal
<1>3. ASSUME NEW stale \in SUBSET Runs, ExpireClaims(stale)
      PROVE  lease'[l].status # "none" /\ lease'[l].item = lease[l].item
  BY <1>3 DEF ExpireClaims, LeasesExpired, PoolTypeOK, LeaseRecords
<1>4. CASE lease' = lease
  BY <1>4
<1>5. ASSUME NEW m \in Members, UpsertMember(m) PROVE lease' = lease
  BY <1>5 DEF UpsertMember
<1>6. ASSUME NEW m \in Members, NEW s \in MemberStatuses, Heartbeat(m, s) PROVE lease' = lease
  BY <1>6 DEF Heartbeat
<1>7. ASSUME NEW i \in Runs, CreateItem(i) PROVE lease' = lease
  BY <1>7 DEF CreateItem
<1> QED
  BY <1>1, <1>2, <1>3, <1>4, <1>5, <1>6, <1>7 DEF PoolNext, poolVars

LEMMA QuietGrows ==
    ASSUME PoolInv, [PoolNext]_poolVars, UNCHANGED <<saved, packets>>
    PROVE  Grows
BY LeasesStay DEF Grows

LEMMA ItemsStay ==
    ASSUME PoolInv, [PoolNext]_poolVars, run' = run, OneRunPerItem
    PROVE  OneRunPerItem'
<1> SUFFICES ASSUME NEW r \in Runs, run[r].lease # None
             PROVE  /\ run[r].lease = r
                    /\ lease'[r].status # "none" /\ lease'[r].item = run[r].item
                    /\ \A q \in Runs \ {r} : run[q].lease # None => run[q].item # run[r].item
  BY DEF OneRunPerItem
<1> QED
  BY LeasesStay DEF OneRunPerItem

(* Steps that leave runs, packets and the table of sessions alone.            *)
LEMMA QuietStep ==
    ASSUME DelegationInv, [PoolNext]_poolVars, UNCHANGED <<saved, run, packets>>,
           session' \in [Sessions -> SessionStates],
           \A s \in Sessions : saved[s] # "none" => session'[s] # "none",
           todo' \in Seq(GoodTasks), TodoBacked'
    PROVE  DelegationInv'
<1> USE DEF DelegationInv
<1>1. PoolInv'
  BY PoolStep
<1>2. Types' /\ RegistryKnows'
  BY DEF Types, RegistryKnows
<1>3. StatusIsTrue'
  BY DEF StatusIsTrue, Ended
<1>4. OneRunPerItem'
  BY ItemsStay
<1> QED
  BY <1>1, <1>2, <1>3, <1>4

LEMMA QuietThen ==
    ASSUME DelegationInv, todo # <<>>, [PoolNext]_poolVars,
           UNCHANGED <<session, saved, run, packets>>,
           NEW free \in Seq(FreeTasks), todo' = free \o Tail(todo) \/ todo' = <<>>
    PROVE  DelegationInv'
<1>1. Grows
  BY QuietGrows DEF DelegationInv
<1>2. todo' \in Seq(GoodTasks) /\ TodoBacked'
  <2>1. CASE todo' = free \o Tail(todo)
    BY <1>1, <2>1, ThenFree DEF DelegationInv
  <2>2. CASE todo' = <<>>
    <3>1. <<>> \in Seq(FreeTasks)
      BY SMT
    <3> QED
      BY <2>2, <3>1, StartsFree
  <2> QED
    BY <2>1, <2>2
<1> QED
  BY <1>2, QuietStep DEF DelegationInv, Types, RegistryKnows

LEMMA QuietStart ==
    ASSUME DelegationInv, [PoolNext]_poolVars, UNCHANGED <<session, saved, run, packets>>,
           NEW free \in Seq(FreeTasks), todo' = free
    PROVE  DelegationInv'
<1>1. todo' \in Seq(GoodTasks) /\ TodoBacked'
  BY StartsFree
<1> QED
  BY <1>1, QuietStep DEF DelegationInv, Types, RegistryKnows

LEMMA HeadTask ==
    ASSUME DelegationInv, todo # <<>>
    PROVE  /\ Head(todo) \in GoodTasks
           /\ Backed(Head(todo))
<1>1. todo \in Seq(GoodTasks) /\ \A k \in 1..Len(todo) : Backed(todo[k])
  BY DEF DelegationInv, Types, TodoBacked
<1>2. Head(todo) = todo[1] /\ 1 \in 1..Len(todo)
  BY <1>1, SMT
<1> QED
  BY <1>1, <1>2, SMT

LEMMA CancellingFree ==
    ASSUME NEW of \in SUBSET Runs, NEW st \in Stopped
    PROVE  Cancelling(of, st) \in Seq(FreeTasks)
<1>1. Task("cancel", Root, st, of) \in FreeTasks
  BY DEF Task, FreeTasks, GoodTasks, Tasks, Operations, Sessions, RunStatuses, Terminal,
         Stopped, OfRuns
<1> QED
  BY <1>1, SMT DEF Cancelling

LEMMA RestFree ==
    ASSUME DelegationInv, todo # <<>>, NEW x,
           Head(todo).op \in {"cancel", "close", "orphans", "shutdown"}
    PROVE  Rest(x) \in Seq(FreeTasks)
<1>1. Head(todo) \in GoodTasks
  BY HeadTask
<1>2. [Head(todo) EXCEPT !.of = @ \ {x}] \in FreeTasks
  BY <1>1 DEF FreeTasks, GoodTasks, Tasks, OfRuns
<1> QED
  BY <1>2, SMT DEF Rest

LEMMA SpawnPreserves == DelegationInv /\ Spawn => DelegationInv'
<1> SUFFICES ASSUME DelegationInv, Spawn PROVE DelegationInv'
  OBVIOUS
<1>1. todo # <<>> /\ Head(todo).op = "spawn" /\ Head(todo) \in GoodTasks
  BY HeadTask DEF Spawn, At
<1>2. PICK r \in Runs : r = Head(todo).session
  BY <1>1 DEF GoodTasks, OfRuns
<1> DEFINE m == Request[r].member
<1>3. /\ <<>> \in Seq(FreeTasks)
      /\ <<Task("open", r, "none", {})>> \in Seq(FreeTasks)
      /\ m # None => <<Task("claim", r, "none", {})>> \in Seq(FreeTasks)
  <2>1. Task("open", r, "none", {}) \in FreeTasks
    BY DEF Task, FreeTasks, GoodTasks, Tasks, Operations, Sessions, RunStatuses, OfRuns
  <2>2. m \in Members \cup {None}
    BY DelegationAssumption DEF DelegationAssumption, Requests
  <2>3. m # None => Task("claim", r, "none", {}) \in FreeTasks
    BY <2>2 DEF Task, FreeTasks, GoodTasks, Tasks, Operations, Sessions, RunStatuses, OfRuns
  <2> QED
    BY <2>1, <2>3, SMT
<1>4. PICK free \in Seq(FreeTasks) : todo' = free \o Tail(todo) \/ todo' = <<>>
  BY <1>2, <1>3 DEF Spawn, Then, Fails
<1>5. [PoolNext]_poolVars
  BY <1>2 DEF Spawn, PoolNext
<1>6. UNCHANGED <<session, saved, run, packets>>
  BY DEF Spawn
<1> QED
  BY <1>1, <1>4, <1>5, <1>6, QuietThen

LEMMA ClaimItemPreserves == DelegationInv /\ ClaimItem => DelegationInv'
<1> SUFFICES ASSUME DelegationInv, ClaimItem PROVE DelegationInv'
  OBVIOUS
<1>1. todo # <<>> /\ Head(todo).op = "claim" /\ Head(todo) \in GoodTasks
  BY HeadTask DEF ClaimItem, At
<1>2. PICK r \in Runs : r = Head(todo).session
  BY <1>1 DEF GoodTasks, OfRuns
<1>3. PICK m \in Members : m = Request[r].member
  BY <1>1, <1>2 DEF GoodTasks
<1>4. ClaimNext(m, r, r) /\ UNCHANGED <<session, saved, run, packets>>
  BY <1>2, <1>3 DEF ClaimItem
<1>5. [PoolNext]_poolVars
  BY <1>4 DEF PoolNext
<1>6. PICK t \in GoodTasks : t = Task("open", r, "none", {r})
  BY DEF Task, GoodTasks, Tasks, Operations, Sessions, RunStatuses, OfRuns
<1>8. todo' = <<t>> \o Tail(todo)
  BY <1>2, <1>6 DEF ClaimItem, Then
<1>9. lease'[r].status # "none"
  BY <1>4, SMT DEF ClaimNext, Claim, DelegationInv, PoolInv, PoolTypeOK
<1>10. Backed(t)'
  BY <1>6, <1>9 DEF Backed, Task
<1>11. Grows
  BY <1>4, <1>5, QuietGrows DEF DelegationInv
<1>12. todo' \in Seq(GoodTasks) /\ TodoBacked'
  BY <1>1, <1>8, <1>10, <1>11, ThenSingle DEF DelegationInv
<1> QED
  BY <1>4, <1>5, <1>12, QuietStep DEF DelegationInv, Types, RegistryKnows

-----------------------------------------------------------------------------
(* Sessions and runs.                                                         *)

(* A run changes its status, and nothing else does.                           *)
LEMMA StatusStep ==
    ASSUME DelegationInv, UNCHANGED poolVars, UNCHANGED <<session, saved, packets>>,
           NEW r \in Runs, NEW st \in RunStatuses, StatusSet(r, st),
           st \in Terminal => IF st \in Stopped THEN saved[r] = "archived" ELSE st \in packets[r],
           todo' \in Seq(GoodTasks), TodoBacked'
    PROVE  DelegationInv'
<1> USE DEF DelegationInv
<1>1. run \in [Runs -> RunRecords] /\ run[r] \in RunRecords
  BY DEF Types
<1>2. run' = run \/ run' = [run EXCEPT ![r].status = st]
  BY DEF StatusSet
<1>3. /\ run' \in [Runs -> RunRecords]
      /\ \A q \in Runs : run'[q].item = run[q].item /\ run'[q].lease = run[q].lease
      /\ \A q \in Runs \ {r} : run'[q].status = run[q].status
      /\ run'[r].status = run[r].status \/ run'[r].status = st
  <2>1. CASE run' = run
    BY <1>1, <2>1
  <2>2. CASE run' = [run EXCEPT ![r].status = st]
    <3>1. PICK rr \in RunRecords : rr = [run[r] EXCEPT !.status = st]
      BY <1>1 DEF RunRecords
    <3>2. rr.status = st /\ rr.item = run[r].item /\ rr.lease = run[r].lease
      BY <1>1, <3>1 DEF RunRecords
    <3>3. run' = [run EXCEPT ![r] = rr]
      BY <1>1, <2>2, <3>1
    <3> QED
      BY <1>1, <3>2, <3>3
  <2> QED
    BY <1>2, <2>1, <2>2
<1>4. PoolInv'
  BY PoolStep
<1>5. Types' /\ RegistryKnows'
  BY <1>3 DEF Types, RegistryKnows
<1>6. StatusIsTrue'
  <2> SUFFICES ASSUME NEW q \in Runs, run'[q].status \in Terminal
               PROVE  IF run'[q].status \in {"cancelled", "expired"} THEN saved'[q] = "archived"
                      ELSE run'[q].status \in packets'[q]
    BY DEF StatusIsTrue, Ended
  <2>1. CASE run'[q].status = run[q].status
    BY <2>1 DEF StatusIsTrue, Ended
  <2>2. CASE q = r /\ run'[q].status = st
    BY <2>2 DEF Stopped
  <2> QED
    BY <1>3, <2>1, <2>2
<1>7. OneRunPerItem'
  BY <1>3, SMT DEF OneRunPerItem, poolVars
<1> QED
  BY <1>4, <1>5, <1>6, <1>7

(* A session is archived, in the registry and in the table.                   *)
LEMMA ArchivedGrows ==
    ASSUME DelegationInv, UNCHANGED poolVars, packets' = packets,
           NEW s \in Sessions, Archived(s)
    PROVE  Grows /\ saved'[s] = "archived"
BY DEF DelegationInv, Types, Archived, Grows, poolVars, Sessions

LEMMA ArchivedStep ==
    ASSUME DelegationInv, UNCHANGED poolVars, UNCHANGED <<run, packets>>,
           NEW s \in Sessions, Archived(s),
           todo' \in Seq(GoodTasks), TodoBacked'
    PROVE  DelegationInv'
<1> USE DEF DelegationInv
<1>1. PoolInv'
  BY PoolStep
<1>2. Types'
  BY DEF Types, Archived, SessionStates
<1>3. RegistryKnows'
  BY DEF Types, Archived, RegistryKnows
<1>4. StatusIsTrue'
  <2>1. \A r \in Runs : saved[r] = "archived" => saved'[r] = "archived"
    BY ArchivedGrows DEF Grows
  <2> QED
    BY <2>1 DEF StatusIsTrue, Ended
<1>5. OneRunPerItem'
  BY DEF OneRunPerItem, poolVars
<1> QED
  BY <1>1, <1>2, <1>3, <1>4, <1>5

LEMMA OpenPreserves == DelegationInv /\ Open => DelegationInv'
<1> SUFFICES ASSUME DelegationInv, Open PROVE DelegationInv'
  OBVIOUS
<1>1. todo # <<>> /\ Head(todo).op = "open" /\ Head(todo) \in GoodTasks /\ Backed(Head(todo))
  BY HeadTask DEF Open, At
<1>2. PICK r \in Runs : r = Head(todo).session
  BY <1>1 DEF GoodTasks, OfRuns
<1>3. UNCHANGED poolVars /\ UNCHANGED <<saved, packets>>
  BY DEF Open
<1>4. CASE session[r] # "none"
  <2>1. todo' = <<>> /\ UNCHANGED <<session, run>>
    BY <1>2, <1>4 DEF Open, Fails
  <2>2. PICK free \in Seq(FreeTasks) : free = <<>>
    <3>1. <<>> \in Seq(FreeTasks)
      BY SMT
    <3> QED
      BY <3>1
  <2> QED
    BY <1>3, <2>1, <2>2, QuietStart
<1>5. CASE session[r] = "none"
  <2> DEFINE claimed == Head(todo).of # {}
  <2>1. /\ session' = [session EXCEPT ![r] = "active"]
        /\ run' = [run EXCEPT ![r] = RunRecord(r, claimed)]
        /\ todo' = <<Task("save", r, "none", {})>> \o Tail(todo)
    BY <1>2, <1>5 DEF Open, Then
  <2>2. /\ RunRecord(r, claimed) \in RunRecords
        /\ RunRecord(r, claimed).status = "requested"
        /\ RunRecord(r, claimed).lease # None =>
             /\ RunRecord(r, claimed).lease = r /\ RunRecord(r, claimed).item = lease[r].item
             /\ lease[r].status # "none"
    <3>1. lease[r] \in LeaseRecords
      BY DEF DelegationInv, PoolInv, PoolTypeOK
    <3>2. claimed => lease[r].status # "none"
      BY <1>1, <1>2 DEF Backed
    <3> QED
      BY <3>1, <3>2 DEF RunRecord, RunRecords, RunStatuses, LeaseRecords
  <2> HIDE DEF claimed
  <2>3. PICK rr \in RunRecords : rr = RunRecord(r, claimed)
    BY <2>2
  <2>4. /\ run' \in [Runs -> RunRecords] /\ run'[r] = rr
        /\ \A q \in Runs \ {r} : run'[q] = run[q]
    BY <2>1, <2>3 DEF DelegationInv, Types
  <2>5. saved[r] = "none" /\ session' \in [Sessions -> SessionStates] /\ session'[r] = "active"
    BY <1>5, <2>1 DEF DelegationInv, Types, RegistryKnows, Sessions, SessionStates
  <2>6. PICK t \in GoodTasks : t = Task("save", r, "none", {})
    BY DEF Task, GoodTasks, Tasks, Operations, Sessions, RunStatuses, OfRuns, Terminal
  <2>7. Backed(t)'
    BY <1>3, <2>5, <2>6 DEF Backed, Task
  <2>8. Grows
    BY <1>3, QuietGrows DEF DelegationInv
  <2>9. todo' \in Seq(GoodTasks) /\ TodoBacked'
    BY <1>1, <2>1, <2>6, <2>7, <2>8, ThenSingle DEF DelegationInv
  <2>10. PoolInv'
    BY <1>3, PoolStep DEF DelegationInv
  <2>11. Types' /\ RegistryKnows'
    BY <1>3, <2>1, <2>4, <2>5, <2>9 DEF DelegationInv, Types, RegistryKnows, Sessions
  <2>12. StatusIsTrue'
    BY <1>3, <2>2, <2>3, <2>4 DEF DelegationInv, StatusIsTrue, Ended, Terminal
  <2>13. OneRunPerItem'
    <3>1. lease' = lease
      BY <1>3 DEF poolVars
    <3>2. \A q, k \in Runs : q # k /\ lease[q].status # "none" /\ lease[k].status # "none"
            => lease[q].item # lease[k].item
      BY SMT DEF DelegationInv, PoolInv, ClaimsAgree
    <3>3. \A q \in Runs : run'[q].lease # None =>
            run'[q].lease = q /\ lease[q].status # "none" /\ lease[q].item = run'[q].item
      BY <2>2, <2>3, <2>4, SMT DEF DelegationInv, OneRunPerItem
    <3> QED
      BY <3>1, <3>2, <3>3, SMT DEF OneRunPerItem
  <2> QED
    BY <2>9, <2>10, <2>11, <2>12, <2>13 DEF DelegationInv
<1> QED
  BY <1>4, <1>5

LEMMA SaveSessionPreserves == DelegationInv /\ SaveSession => DelegationInv'
<1> SUFFICES ASSUME DelegationInv, SaveSession PROVE DelegationInv'
  OBVIOUS
<1>1. todo # <<>> /\ Head(todo).op = "save" /\ Head(todo) \in GoodTasks /\ Backed(Head(todo))
  BY HeadTask DEF SaveSession, At
<1>2. PICK r \in Runs : r = Head(todo).session
  BY <1>1 DEF GoodTasks, OfRuns
<1>3. /\ saved' = [saved EXCEPT ![r] = "active"]
      /\ UNCHANGED poolVars /\ UNCHANGED <<session, run, packets>>
  BY <1>2 DEF SaveSession
<1>4. saved[r] = "none" /\ session[r] # "none"
  BY <1>1, <1>2 DEF Backed
<1>5. PICK free \in Seq(FreeTasks) :
        free = <<Task("status", r, "session_created", {}), Task("status", r, "wake_requested", {})>>
  <2>1. /\ Task("status", r, "session_created", {}) \in FreeTasks
        /\ Task("status", r, "wake_requested", {}) \in FreeTasks
    BY DEF Task, FreeTasks, GoodTasks, Tasks, Operations, Sessions, RunStatuses, Terminal,
           Stopped, OfRuns
  <2>2. <<Task("status", r, "session_created", {}), Task("status", r, "wake_requested", {})>>
          \in Seq(FreeTasks)
    BY <2>1, SMT
  <2> QED
    BY <2>2
<1>6. todo' = free \o Tail(todo)
  BY <1>2, <1>5 DEF SaveSession, Then
<1>7. \A q \in Runs : saved[q] = "archived" => saved'[q] = "archived"
  BY <1>3, <1>4 DEF DelegationInv, Types, Sessions
<1>8. Grows
  BY <1>3, <1>7 DEF Grows, poolVars
<1>9. todo' \in Seq(GoodTasks) /\ TodoBacked'
  BY <1>1, <1>6, <1>8, ThenFree DEF DelegationInv
<1>10. PoolInv'
  BY <1>3, PoolStep DEF DelegationInv
<1>11. Types' /\ RegistryKnows'
  BY <1>3, <1>4, <1>9 DEF DelegationInv, Types, RegistryKnows, SessionStates
<1>12. StatusIsTrue'
  BY <1>3, <1>7 DEF DelegationInv, StatusIsTrue, Ended
<1>13. OneRunPerItem'
  BY <1>3 DEF DelegationInv, OneRunPerItem, poolVars
<1> QED
  BY <1>9, <1>10, <1>11, <1>12, <1>13 DEF DelegationInv

LEMMA SetStatusPreserves == DelegationInv /\ SetStatus => DelegationInv'
<1> SUFFICES ASSUME DelegationInv, SetStatus PROVE DelegationInv'
  OBVIOUS
<1>1. todo # <<>> /\ Head(todo).op = "status" /\ Head(todo) \in GoodTasks /\ Backed(Head(todo))
  BY HeadTask DEF SetStatus, At
<1>2. PICK r \in Runs : r = Head(todo).session
  BY <1>1 DEF GoodTasks, OfRuns
<1>3. PICK st \in RunStatuses : st = Head(todo).status
  BY <1>1 DEF GoodTasks, Tasks
<1>4. StatusSet(r, st) /\ UNCHANGED poolVars /\ UNCHANGED <<session, saved, packets>>
  BY <1>2, <1>3 DEF SetStatus
<1>5. st \in Terminal => IF st \in Stopped THEN saved[r] = "archived" ELSE st \in packets[r]
  BY <1>1, <1>2, <1>3 DEF GoodTasks, Backed
<1>6. PICK free \in Seq(FreeTasks) : free = <<>>
  <2>1. <<>> \in Seq(FreeTasks)
    BY SMT
  <2> QED
    BY <2>1
<1>7. todo' = free \o Tail(todo)
  BY <1>6 DEF SetStatus, Then
<1>8. Grows
  BY <1>4, QuietGrows DEF DelegationInv
<1>9. todo' \in Seq(GoodTasks) /\ TodoBacked'
  BY <1>1, <1>7, <1>8, ThenFree DEF DelegationInv
<1> QED
  BY <1>4, <1>5, <1>9, StatusStep

-----------------------------------------------------------------------------
(* A completion packet.                                                       *)

LEMMA SavePacketPreserves == DelegationInv /\ SavePacket => DelegationInv'
<1> SUFFICES ASSUME DelegationInv, SavePacket PROVE DelegationInv'
  OBVIOUS
<1>1. todo # <<>> /\ Head(todo).op = "packet" /\ Head(todo) \in GoodTasks
  BY HeadTask DEF SavePacket, At
<1>2. PICK r \in Runs : r = Head(todo).session
  BY <1>1 DEF GoodTasks, OfRuns
<1>3. PICK o \in Outcomes : o = Head(todo).status
  BY <1>1 DEF GoodTasks
<1>4. /\ packets' = [packets EXCEPT ![r] = @ \cup {o}]
      /\ UNCHANGED poolVars /\ UNCHANGED <<session, saved, run>>
      /\ todo' = <<Task("outcome", r, o, {})>> \o Tail(todo)
  BY <1>2, <1>3 DEF SavePacket, Then
<1>5. /\ packets' \in [Runs -> SUBSET Outcomes] /\ o \in packets'[r]
      /\ \A q \in Runs : packets[q] \subseteq packets'[q]
  BY <1>4 DEF DelegationInv, Types
<1>6. PICK t \in GoodTasks : t = Task("outcome", r, o, {})
  <2>1. o \in RunStatuses
    BY DelegationAssumption DEF DelegationAssumption, RunStatuses, Terminal
  <2> QED
    BY <2>1 DEF Task, GoodTasks, Tasks, Operations, Sessions, OfRuns
<1>7. Backed(t)'
  BY <1>5, <1>6 DEF Backed, Task
<1>8. Grows
  BY <1>4, <1>5 DEF Grows, poolVars
<1>9. todo' \in Seq(GoodTasks) /\ TodoBacked'
  BY <1>1, <1>4, <1>6, <1>7, <1>8, ThenSingle DEF DelegationInv
<1>10. PoolInv'
  BY <1>4, PoolStep DEF DelegationInv
<1>11. Types' /\ RegistryKnows'
  BY <1>4, <1>5, <1>9 DEF DelegationInv, Types, RegistryKnows
<1>12. StatusIsTrue'
  BY <1>4, <1>5 DEF DelegationInv, StatusIsTrue, Ended
<1>13. OneRunPerItem'
  BY <1>4 DEF DelegationInv, OneRunPerItem, poolVars
<1> QED
  BY <1>9, <1>10, <1>11, <1>12, <1>13 DEF DelegationInv

LEMMA SetOutcomePreserves == DelegationInv /\ SetOutcome => DelegationInv'
<1> SUFFICES ASSUME DelegationInv, SetOutcome PROVE DelegationInv'
  OBVIOUS
<1>1. todo # <<>> /\ Head(todo).op = "outcome" /\ Head(todo) \in GoodTasks /\ Backed(Head(todo))
  BY HeadTask DEF SetOutcome, At
<1>2. PICK r \in Runs : r = Head(todo).session
  BY <1>1 DEF GoodTasks, OfRuns
<1>3. PICK o \in Outcomes : o = Head(todo).status
  BY <1>1 DEF GoodTasks
<1>4. o \in RunStatuses /\ o \notin Stopped
  BY DelegationAssumption DEF DelegationAssumption, RunStatuses, Terminal, Stopped
<1>5. /\ StatusSet(r, o) /\ UNCHANGED poolVars /\ UNCHANGED <<session, saved, packets>>
      /\ todo' = <<Task("release", r, o, {})>> \o Tail(todo)
  BY <1>2, <1>3 DEF SetOutcome, Then
<1>6. o \in packets[r]
  BY <1>1, <1>2, <1>3 DEF Backed
<1>7. PICK free \in Seq(FreeTasks) : free = <<Task("release", r, o, {})>>
  <2>1. Task("release", r, o, {}) \in FreeTasks
    BY <1>4 DEF Task, FreeTasks, GoodTasks, Tasks, Operations, Sessions, OfRuns
  <2>2. <<Task("release", r, o, {})>> \in Seq(FreeTasks)
    BY <2>1, SMT
  <2> QED
    BY <2>2
<1>8. Grows
  BY <1>5, QuietGrows DEF DelegationInv
<1>9. todo' \in Seq(GoodTasks) /\ TodoBacked'
  BY <1>1, <1>5, <1>7, <1>8, ThenFree DEF DelegationInv
<1> QED
  BY <1>4, <1>5, <1>6, <1>9, StatusStep

LEMMA ReleaseLeasePreserves == DelegationInv /\ ReleaseLease => DelegationInv'
<1> SUFFICES ASSUME DelegationInv, ReleaseLease PROVE DelegationInv'
  OBVIOUS
<1>1. todo # <<>> /\ Head(todo).op = "release" /\ Head(todo) \in GoodTasks
  BY HeadTask DEF ReleaseLease, At
<1>2. PICK r \in Runs : r = Head(todo).session
  BY <1>1 DEF GoodTasks, OfRuns
<1>3. PICK o \in Outcomes : o = Head(todo).status
  BY <1>1 DEF GoodTasks
<1>4. o \in Terminal /\ o \in RunStatuses
  BY DelegationAssumption DEF DelegationAssumption, RunStatuses, Terminal
<1>5. run[r].lease \in Runs \cup {None}
  BY DEF DelegationInv, Types, RunRecords
<1>6. [PoolNext]_poolVars
  BY <1>2, <1>3, <1>4, <1>5 DEF ReleaseLease, PoolNext
<1>7. PICK free \in Seq(FreeTasks) : free = <<Task("fail_fast", r, o, {})>>
  <2>1. Task("fail_fast", r, o, {}) \in FreeTasks
    BY <1>4 DEF Task, FreeTasks, GoodTasks, Tasks, Operations, Sessions, OfRuns
  <2>2. <<Task("fail_fast", r, o, {})>> \in Seq(FreeTasks)
    BY <2>1, SMT
  <2> QED
    BY <2>2
<1>8. todo' = free \o Tail(todo) /\ UNCHANGED <<session, saved, run, packets>>
  BY <1>2, <1>3, <1>7 DEF ReleaseLease, Then
<1> QED
  BY <1>1, <1>6, <1>8, QuietThen

LEMMA ApplyFailurePolicyPreserves == DelegationInv /\ ApplyFailurePolicy => DelegationInv'
<1> SUFFICES ASSUME DelegationInv, ApplyFailurePolicy PROVE DelegationInv'
  OBVIOUS
<1>1. todo # <<>> /\ Head(todo).op = "fail_fast" /\ Head(todo) \in GoodTasks
  BY HeadTask DEF ApplyFailurePolicy, At
<1>2. PICK r \in Runs : r = Head(todo).session
  BY <1>1 DEF GoodTasks, OfRuns
<1>3. PICK of \in SUBSET Runs :
        todo' = (Cancelling(of, "cancelled") \o <<Task("conclude", r, "none", {})>>) \o Tail(todo)
  <2>1. Siblings(r) \in SUBSET Runs /\ {} \in SUBSET Runs
    BY DEF Siblings
  <2> QED
    BY <1>2, <2>1 DEF ApplyFailurePolicy, Then
<1>4. Cancelling(of, "cancelled") \in Seq(FreeTasks)
  BY CancellingFree DEF Stopped
<1>5. Task("conclude", r, "none", {}) \in FreeTasks
  BY DEF Task, FreeTasks, GoodTasks, Tasks, Operations, Sessions, RunStatuses, OfRuns
<1>6. PICK free \in Seq(FreeTasks) :
        free = Cancelling(of, "cancelled") \o <<Task("conclude", r, "none", {})>>
  <2>1. <<Task("conclude", r, "none", {})>> \in Seq(FreeTasks)
    BY <1>5, SMT
  <2>2. Cancelling(of, "cancelled") \o <<Task("conclude", r, "none", {})>> \in Seq(FreeTasks)
    BY <1>4, <2>1, SMT
  <2> QED
    BY <2>2
<1>7. UNCHANGED poolVars /\ UNCHANGED <<session, saved, run, packets>>
  BY DEF ApplyFailurePolicy
<1> QED
  BY <1>1, <1>3, <1>6, <1>7, QuietThen

LEMMA ConcludePreserves == DelegationInv /\ Conclude => DelegationInv'
<1> SUFFICES ASSUME DelegationInv, Conclude PROVE DelegationInv'
  OBVIOUS
<1>1. todo # <<>> /\ Head(todo).op = "conclude" /\ Head(todo) \in GoodTasks
  BY HeadTask DEF Conclude, At
<1>2. PICK r \in Runs : r = Head(todo).session
  BY <1>1 DEF GoodTasks, OfRuns
<1>3. /\ <<>> \in Seq(FreeTasks)
      /\ <<Task("archive", r, "none", {})>> \in Seq(FreeTasks)
  <2>1. Task("archive", r, "none", {}) \in FreeTasks
    BY DEF Task, FreeTasks, GoodTasks, Tasks, Operations, Sessions, RunStatuses, OfRuns
  <2> QED
    BY <2>1, SMT
<1>4. PICK free \in Seq(FreeTasks) : todo' = free \o Tail(todo)
  BY <1>2, <1>3 DEF Conclude, Then
<1>5. UNCHANGED poolVars /\ UNCHANGED <<session, saved, run, packets>>
  BY DEF Conclude
<1> QED
  BY <1>1, <1>4, <1>5, QuietThen

-----------------------------------------------------------------------------
(* Archival, cancellation and the clean-ups.                                  *)

(* A session is archived and others wait that rely on nothing.                *)
LEMMA ArchivedThen ==
    ASSUME DelegationInv, todo # <<>>, UNCHANGED poolVars, UNCHANGED <<run, packets>>,
           NEW s \in Sessions, Archived(s),
           NEW free \in Seq(FreeTasks), todo' = free \o Tail(todo)
    PROVE  DelegationInv'
<1>1. Grows
  BY ArchivedGrows
<1>2. todo' \in Seq(GoodTasks) /\ TodoBacked'
  BY <1>1, ThenFree DEF DelegationInv
<1> QED
  BY <1>2, ArchivedStep

(* A delegated session is archived, and its run is marked next.               *)
LEMMA ArchivedThenMarked ==
    ASSUME DelegationInv, todo # <<>>, UNCHANGED poolVars, UNCHANGED <<run, packets>>,
           NEW r \in Runs, Archived(r), NEW st \in Stopped, NEW free \in Seq(FreeTasks),
           todo' = (<<Task("status", r, st, {})>> \o free) \o Tail(todo)
    PROVE  DelegationInv'
<1>1. r \in Sessions
  BY DEF Sessions
<1>2. Grows /\ saved'[r] = "archived"
  BY <1>1, ArchivedGrows
<1>3. PICK t \in GoodTasks : t = Task("status", r, st, {})
  BY DEF Task, GoodTasks, Tasks, Operations, Sessions, RunStatuses, Terminal, Stopped, OfRuns
<1>4. Backed(t)'
  BY <1>2, <1>3 DEF Backed, Task
<1>5. todo' \in Seq(GoodTasks) /\ TodoBacked'
  BY <1>2, <1>3, <1>4, ThenOne DEF DelegationInv
<1> QED
  BY <1>1, <1>5, ArchivedStep

LEMMA ArchivePreserves == DelegationInv /\ Archive => DelegationInv'
<1> SUFFICES ASSUME DelegationInv, Archive PROVE DelegationInv'
  OBVIOUS
<1>1. todo # <<>> /\ Head(todo) \in GoodTasks
  BY HeadTask DEF Archive, At
<1>2. PICK s \in Sessions : s = Head(todo).session
  BY <1>1 DEF GoodTasks, Tasks
<1>3. Archived(s) /\ UNCHANGED poolVars /\ UNCHANGED <<run, packets>>
  BY <1>2 DEF Archive
<1>4. <<>> \in Seq(FreeTasks)
  BY SMT
<1>5. CASE s # Root /\ ~Ended(s)
  <2>1. PICK r \in Runs : r = s
    BY <1>5 DEF Sessions
  <2>2. PICK st \in Stopped : st = "cancelled"
    BY DEF Stopped
  <2>3. <<Task("status", r, st, {})>> \o <<>> = <<Task("status", r, st, {})>>
    BY SMT
  <2>4. todo' = (<<Task("status", r, st, {})>> \o <<>>) \o Tail(todo)
    BY <1>2, <1>5, <2>1, <2>2, <2>3 DEF Archive, Then
  <2> QED
    BY <1>1, <1>3, <1>4, <2>1, <2>4, ArchivedThenMarked
<1>6. CASE ~(s # Root /\ ~Ended(s))
  <2>1. ChildrenOf(s) \in SUBSET Runs /\ "cancelled" \in Stopped
    BY DEF ChildrenOf, Stopped
  <2>2. Cancelling(ChildrenOf(s), "cancelled") \in Seq(FreeTasks)
    BY <2>1, CancellingFree
  <2>3. PICK free \in Seq(FreeTasks) : todo' = free \o Tail(todo)
    BY <1>2, <1>4, <1>6, <2>2 DEF Archive, Then
  <2> QED
    BY <1>1, <1>3, <2>3, ArchivedThen
<1> QED
  BY <1>5, <1>6

LEMMA CancelNextPreserves == DelegationInv /\ CancelNext => DelegationInv'
<1> SUFFICES ASSUME DelegationInv, CancelNext PROVE DelegationInv'
  OBVIOUS
<1>1. todo # <<>> /\ Head(todo).op = "cancel" /\ Head(todo) \in GoodTasks
  BY HeadTask DEF CancelNext, At
<1>2. PICK r \in Runs :
        IF Ended(r) THEN todo' = Rest(r) \o Tail(todo) /\ UNCHANGED <<session, saved>>
        ELSE /\ Archived(r)
             /\ todo' = (<<Task("status", r, Head(todo).status, {})>> \o Rest(r)) \o Tail(todo)
  BY <1>1 DEF CancelNext, GoodTasks, Then
<1>3. PICK free \in Seq(FreeTasks) : free = Rest(r)
  BY <1>1, RestFree, SMT
<1>4. PICK st \in Stopped : st = Head(todo).status
  BY <1>1 DEF GoodTasks
<1>5. UNCHANGED poolVars /\ UNCHANGED <<run, packets>>
  BY DEF CancelNext
<1>6. CASE Ended(r)
  BY <1>1, <1>2, <1>3, <1>5, <1>6, QuietThen
<1>7. CASE ~Ended(r)
  BY <1>1, <1>2, <1>3, <1>4, <1>5, <1>7, ArchivedThenMarked
<1> QED
  BY <1>6, <1>7

LEMMA FinishedPreserves == DelegationInv /\ Finished => DelegationInv'
<1> SUFFICES ASSUME DelegationInv, Finished PROVE DelegationInv'
  OBVIOUS
<1> DEFINE of == {r \in Runs \cap Active : Ended(r)}
<1>1. /\ <<>> \in Seq(FreeTasks)
      /\ <<Task("close", Root, "none", of)>> \in Seq(FreeTasks)
  <2>1. of \in SUBSET Runs
    OBVIOUS
  <2> HIDE DEF of
  <2>2. Task("close", Root, "none", of) \in FreeTasks
    BY <2>1 DEF Task, FreeTasks, GoodTasks, Tasks, Operations, Sessions, RunStatuses, OfRuns
  <2> QED
    BY <2>2, SMT
<1>2. PICK free \in Seq(FreeTasks) : todo' = free \o Tail(todo)
  BY <1>1 DEF Finished, Then
<1>3. todo # <<>> /\ UNCHANGED poolVars /\ UNCHANGED <<session, saved, run, packets>>
  BY DEF Finished, At
<1> QED
  BY <1>2, <1>3, QuietThen

LEMMA CloseNextPreserves == DelegationInv /\ CloseNext => DelegationInv'
<1> SUFFICES ASSUME DelegationInv, CloseNext PROVE DelegationInv'
  OBVIOUS
<1>1. todo # <<>> /\ Head(todo).op = "close" /\ Head(todo) \in GoodTasks
  BY HeadTask DEF CloseNext, At
<1>2. PICK r \in Sessions : Archived(r) /\ todo' = Rest(r) \o Tail(todo)
  BY <1>1 DEF CloseNext, GoodTasks, Tasks, Then
<1>3. PICK free \in Seq(FreeTasks) : free = Rest(r)
  BY <1>1, RestFree, SMT
<1>4. UNCHANGED poolVars /\ UNCHANGED <<run, packets>>
  BY DEF CloseNext
<1> QED
  BY <1>1, <1>2, <1>3, <1>4, ArchivedThen

LEMMA OrphanedPreserves == DelegationInv /\ Orphaned => DelegationInv'
<1> SUFFICES ASSUME DelegationInv, Orphaned PROVE DelegationInv'
  OBVIOUS
<1> DEFINE of == Runs \cap Active
<1>1. /\ <<>> \in Seq(FreeTasks)
      /\ <<Task("orphans", Root, "none", of)>> \in Seq(FreeTasks)
  <2>1. of \in SUBSET Runs
    OBVIOUS
  <2> HIDE DEF of
  <2>2. Task("orphans", Root, "none", of) \in FreeTasks
    BY <2>1 DEF Task, FreeTasks, GoodTasks, Tasks, Operations, Sessions, RunStatuses, OfRuns
  <2> QED
    BY <2>2, SMT
<1>2. PICK free \in Seq(FreeTasks) : todo' = free \o Tail(todo)
  BY <1>1 DEF Orphaned, Then
<1>3. todo # <<>> /\ UNCHANGED poolVars /\ UNCHANGED <<session, saved, run, packets>>
  BY DEF Orphaned, At
<1> QED
  BY <1>2, <1>3, QuietThen

LEMMA OrphanNextPreserves == DelegationInv /\ OrphanNext => DelegationInv'
<1> SUFFICES ASSUME DelegationInv, OrphanNext PROVE DelegationInv'
  OBVIOUS
<1>1. todo # <<>> /\ Head(todo).op = "orphans"
  BY DEF OrphanNext, At
<1>2. PICK r \in Runs, of \in SUBSET Runs, st \in Stopped :
        todo' = (Cancelling(of, st) \o Rest(r)) \o Tail(todo)
  <2>1. PICK r \in Runs :
          todo' = (Cancelling(IF session[Request[r].parent] = "active" THEN {} ELSE {r},
                              IF session[Request[r].parent] = "archived" THEN "cancelled"
                              ELSE "expired") \o Rest(r)) \o Tail(todo)
    BY DEF OrphanNext, Then
  <2>2. {r} \in SUBSET Runs /\ {} \in SUBSET Runs /\ "cancelled" \in Stopped
        /\ "expired" \in Stopped
    BY DEF Stopped
  <2> QED
    BY <2>1, <2>2
<1>3. Cancelling(of, st) \in Seq(FreeTasks) /\ Rest(r) \in Seq(FreeTasks)
  BY <1>1, CancellingFree, RestFree, SMT
<1>4. PICK free \in Seq(FreeTasks) : free = Cancelling(of, st) \o Rest(r)
  <2>1. Cancelling(of, st) \o Rest(r) \in Seq(FreeTasks)
    BY <1>3, SMT
  <2> QED
    BY <2>1
<1>5. UNCHANGED poolVars /\ UNCHANGED <<session, saved, run, packets>>
  BY DEF OrphanNext
<1> QED
  BY <1>1, <1>2, <1>4, <1>5, QuietThen

LEMMA ExpiredPreserves == DelegationInv /\ Expired => DelegationInv'
<1> SUFFICES ASSUME DelegationInv, Expired PROVE DelegationInv'
  OBVIOUS
<1>1. Runs \cap Active \cap overdue \in SUBSET Runs /\ "expired" \in Stopped
  BY DEF Stopped
<1>2. PICK free \in Seq(FreeTasks) : free = Cancelling(Runs \cap Active \cap overdue, "expired")
  BY <1>1, CancellingFree
<1>3. /\ todo # <<>> /\ todo' = free \o Tail(todo)
      /\ UNCHANGED poolVars /\ UNCHANGED <<session, saved, run, packets>>
  BY <1>2 DEF Expired, At, Then
<1> QED
  BY <1>3, QuietThen

LEMMA ShutdownNextPreserves == DelegationInv /\ ShutdownNext => DelegationInv'
<1> SUFFICES ASSUME DelegationInv, ShutdownNext PROVE DelegationInv'
  OBVIOUS
<1>1. todo # <<>> /\ Head(todo).op = "shutdown"
  BY DEF ShutdownNext, At
<1>2. PICK s \in Sessions :
        todo' = ((IF session[s] = "archived" THEN <<>> ELSE <<Task("archive", s, "none", {})>>)
                 \o Rest(s)) \o Tail(todo)
  BY DEF ShutdownNext, Then
<1>3. /\ <<>> \in Seq(FreeTasks)
      /\ <<Task("archive", s, "none", {})>> \in Seq(FreeTasks)
  <2>1. Task("archive", s, "none", {}) \in FreeTasks
    BY DEF Task, FreeTasks, GoodTasks, Tasks, Operations, RunStatuses, OfRuns
  <2> QED
    BY <2>1, SMT
<1>4. PICK first \in Seq(FreeTasks) : todo' = (first \o Rest(s)) \o Tail(todo)
  BY <1>2, <1>3
<1>5. Rest(s) \in Seq(FreeTasks)
  BY <1>1, RestFree, SMT
<1>6. PICK free \in Seq(FreeTasks) : free = first \o Rest(s)
  <2>1. first \o Rest(s) \in Seq(FreeTasks)
    BY <1>5, SMT
  <2> QED
    BY <2>1
<1>7. UNCHANGED poolVars /\ UNCHANGED <<session, saved, run, packets>>
  BY DEF ShutdownNext
<1> QED
  BY <1>1, <1>4, <1>6, <1>7, QuietThen

LEMMA StepPreserves == DelegationInv /\ Step => DelegationInv'
BY SpawnPreserves, ClaimItemPreserves, OpenPreserves, SaveSessionPreserves, SetStatusPreserves,
   SavePacketPreserves, SetOutcomePreserves, ReleaseLeasePreserves,
   ApplyFailurePolicyPreserves, ConcludePreserves, ArchivePreserves, CancelNextPreserves,
   FinishedPreserves, CloseNextPreserves, OrphanedPreserves, OrphanNextPreserves,
   ExpiredPreserves, ShutdownNextPreserves
   DEF Step

-----------------------------------------------------------------------------
(* The steps around the calls.                                                *)

LEMMA InitialDelegation == Init => DelegationInv
<1> SUFFICES ASSUME Init PROVE DelegationInv
  OBVIOUS
<1>1. PoolInv
  BY InitialPool DEF Init
<1>2. /\ todo = <<>> /\ saved = session /\ run = [r \in Runs |-> NoRun]
      /\ session \in [Sessions -> SessionStates] /\ packets = [r \in Runs |-> {}]
  BY DEF Init, SessionStates
<1>3. NoRun \in RunRecords /\ NoRun.lease = None /\ NoRun.status \notin Terminal
  BY DEF NoRun, RunRecords, RunStatuses, Terminal
<1>4. Types
  <2>1. todo \in Seq(GoodTasks)
    BY <1>2, SMT
  <2> QED
    BY <1>2, <1>3, <2>1 DEF Types
<1>5. TodoBacked /\ RegistryKnows
  BY <1>2, SMT DEF TodoBacked, RegistryKnows
<1>6. StatusIsTrue /\ OneRunPerItem
  BY <1>2, <1>3 DEF StatusIsTrue, Ended, OneRunPerItem
<1> QED
  BY <1>1, <1>4, <1>5, <1>6 DEF DelegationInv

LEMMA NothingMoves ==
    ASSUME DelegationInv, UNCHANGED poolVars, UNCHANGED <<todo, session, saved, run, packets>>
    PROVE  DelegationInv'
<1>1. PoolInv'
  BY PoolStep DEF DelegationInv
<1>2. Types' /\ RegistryKnows' /\ StatusIsTrue'
  BY DEF DelegationInv, Types, RegistryKnows, StatusIsTrue, Ended
<1>3. TodoBacked'
  BY DEF DelegationInv, TodoBacked, Backed, poolVars
<1>4. OneRunPerItem'
  BY DEF DelegationInv, OneRunPerItem, poolVars
<1> QED
  BY <1>1, <1>2, <1>3, <1>4 DEF DelegationInv

(* No call is in progress, or the one that was is over.                       *)
LEMMA NothingToDo ==
    ASSUME todo' = <<>>
    PROVE  todo' \in Seq(GoodTasks) /\ TodoBacked'
<1>1. PICK free \in Seq(FreeTasks) : free = <<>>
  <2>1. <<>> \in Seq(FreeTasks)
    BY SMT
  <2> QED
    BY <2>1
<1> QED
  BY <1>1, StartsFree

LEMMA StartedPreserves ==
    ASSUME DelegationInv, NEW s \in Sessions, Started(s)
    PROVE  DelegationInv'
<1>1. /\ todo = <<>> /\ UNCHANGED poolVars /\ UNCHANGED <<todo, session, saved, packets>>
      /\ IF s \in Runs THEN StatusSet(s, "running") ELSE UNCHANGED run
  BY DEF Started, Ready
<1>2. CASE s \in Runs
  <2>1. "running" \in RunStatuses /\ "running" \notin Terminal
    BY DEF RunStatuses, Terminal
  <2>2. todo' \in Seq(GoodTasks) /\ TodoBacked'
    BY <1>1, NothingToDo
  <2> QED
    BY <1>1, <1>2, <2>1, <2>2, StatusStep
<1>3. CASE s \notin Runs
  BY <1>1, <1>3, NothingMoves
<1> QED
  BY <1>2, <1>3

LEMMA SubmitPreserves ==
    ASSUME DelegationInv, NEW s \in Sessions, NEW batch \in Seq(Runs),
           NEW o \in Outcomes \cup {"none"}, o # "none" => s \in Runs, Submit(s, batch, o)
    PROVE  DelegationInv'
<1> DEFINE spawns == [k \in DOMAIN batch |-> Task("spawn", batch[k], "none", {})]
           last == IF o = "none" THEN <<>> ELSE <<Task("packet", s, o, {})>>
<1>1. spawns \in Seq(FreeTasks)
  <2>1. \A r \in Runs : Task("spawn", r, "none", {}) \in FreeTasks
    BY DEF Task, FreeTasks, GoodTasks, Tasks, Operations, Sessions, RunStatuses, OfRuns
  <2>2. spawns \in [1..Len(batch) -> FreeTasks] /\ Len(batch) \in Nat
    BY <2>1, SMT
  <2> QED
    BY <2>2, SMT
<1>2. last \in Seq(FreeTasks)
  <2>1. o # "none" => Task("packet", s, o, {}) \in FreeTasks
    BY DelegationAssumption
       DEF DelegationAssumption, Task, FreeTasks, GoodTasks, Tasks, Operations, RunStatuses,
           Terminal, OfRuns
  <2> QED
    BY <2>1, SMT
<1>3. /\ todo' = spawns \o last /\ UNCHANGED poolVars
      /\ UNCHANGED <<session, saved, run, packets>>
  BY DEF Submit
<1> HIDE DEF spawns, last
<1>4. PICK free \in Seq(FreeTasks) : free = spawns \o last
  <2>1. spawns \o last \in Seq(FreeTasks)
    BY <1>1, <1>2, SMT
  <2> QED
    BY <2>1
<1> QED
  BY <1>3, <1>4, QuietStart

LEMMA BrainsPreserve == DelegationInv /\ (Brains \/ Wakes) => DelegationInv'
<1> SUFFICES ASSUME DelegationInv, Brains \/ Wakes PROVE DelegationInv'
  OBVIOUS
<1>1. ASSUME NEW s \in Sessions, Started(s) PROVE DelegationInv'
  BY <1>1, StartedPreserves
<1>2. ASSUME NEW s \in Sessions, WakeEnds(s) \/ Wake(s) PROVE DelegationInv'
  BY <1>2, NothingMoves DEF WakeEnds, Wake
<1>3. ASSUME NEW s \in Sessions, NEW batch \in Batches, Submit(s, batch, "none")
      PROVE  DelegationInv'
  <2>1. batch \in Seq(Runs)
    BY DelegationAssumption DEF DelegationAssumption
  <2> QED
    BY <1>3, <2>1, SubmitPreserves
<1>4. ASSUME NEW r \in Runs, NEW o \in Outcomes, Submit(r, <<>>, o) PROVE DelegationInv'
  <2>1. r \in Sessions /\ <<>> \in Seq(Runs)
    BY SMT DEF Sessions
  <2> QED
    BY <1>4, <2>1, SubmitPreserves
<1> QED
  BY <1>1, <1>2, <1>3, <1>4 DEF Brains, Wakes

LEMMA ControlsPreserve == DelegationInv /\ Controls => DelegationInv'
<1> SUFFICES ASSUME DelegationInv, Controls PROVE DelegationInv'
  OBVIOUS
<1>1. /\ "cancelled" \in Stopped
      /\ \A r \in Runs : {r} \in SUBSET Runs
      /\ \A s : ChildrenOf(s) \cap Active \in SUBSET Runs
      /\ Runs \cap Active \in SUBSET Runs
  BY DEF Stopped, ChildrenOf
<1>2. \A of \in SUBSET Runs : Cancelling(of, "cancelled") \in Seq(FreeTasks)
  BY <1>1, CancellingFree
<1>3. ASSUME NEW r \in Runs
      PROVE  <<Task("status", r, "checkpoint_waiting", {})>> \in Seq(FreeTasks)
  <2>1. Task("status", r, "checkpoint_waiting", {}) \in FreeTasks
    BY DEF Task, FreeTasks, GoodTasks, Tasks, Operations, Sessions, RunStatuses, Terminal,
           Stopped, OfRuns
  <2> QED
    BY <2>1, SMT
<1>4. ASSUME NEW s \in Sessions
      PROVE  <<Task("archive", s, "none", {})>> \in Seq(FreeTasks)
  <2>1. Task("archive", s, "none", {}) \in FreeTasks
    BY DEF Task, FreeTasks, GoodTasks, Tasks, Operations, RunStatuses, OfRuns
  <2> QED
    BY <2>1, SMT
<1>5. <<Task("finished", Root, "none", {}), Task("orphaned", Root, "none", {}),
        Task("expired", Root, "none", {})>> \in Seq(FreeTasks)
  <2>1. /\ Task("finished", Root, "none", {}) \in FreeTasks
        /\ Task("orphaned", Root, "none", {}) \in FreeTasks
        /\ Task("expired", Root, "none", {}) \in FreeTasks
    BY DEF Task, FreeTasks, GoodTasks, Tasks, Operations, Sessions, RunStatuses, OfRuns
  <2> QED
    BY <2>1, SMT
<1>6. todo' \in Seq(FreeTasks)
  <2>1. ASSUME NEW r \in Runs, RequestCheckpoint(r) \/ CancelDelegatedSession(r)
        PROVE  todo' \in Seq(FreeTasks)
    BY <1>1, <1>2, <1>3, <2>1 DEF RequestCheckpoint, CancelDelegatedSession, Begins
  <2>2. CASE DrainDelegatedSessions(Runs)
    BY <1>1, <1>2, <2>2 DEF DrainDelegatedSessions, Begins
  <2>3. ASSUME NEW s \in Sessions, DrainDelegatedSessions(ChildrenOf(s)) \/ ArchiveSession(s)
        PROVE  todo' \in Seq(FreeTasks)
    BY <1>1, <1>2, <1>4, <2>3 DEF DrainDelegatedSessions, ArchiveSession, Begins
  <2>4. CASE CleanupDelegatedResources
    BY <1>5, <2>4 DEF CleanupDelegatedResources, Begins
  <2> QED
    BY <2>1, <2>2, <2>3, <2>4 DEF Controls
<1>7. PICK free \in Seq(FreeTasks) : todo' = free
  BY <1>6
<1>8. UNCHANGED poolVars /\ UNCHANGED <<session, saved, run, packets>>
  BY DEF Controls
<1> QED
  BY <1>7, <1>8, QuietStart

LEMMA GonePreserves == DelegationInv /\ Gone => DelegationInv'
<1> SUFFICES ASSUME DelegationInv, Gone PROVE DelegationInv'
  OBVIOUS
<1>1. /\ todo' = <<>> /\ session' = saved
      /\ UNCHANGED poolVars /\ UNCHANGED <<saved, run, packets>>
  BY DEF Gone
<1>2. todo' \in Seq(GoodTasks) /\ TodoBacked'
  BY <1>1, NothingToDo
<1> QED
  BY <1>1, <1>2, QuietStep DEF DelegationInv, Types

LEMMA LifePreserves ==
    DelegationInv /\ (Shutdown \/ Boot \/ Booted \/ Closed \/ Crash \/ StoreFails)
        => DelegationInv'
<1> SUFFICES ASSUME DelegationInv PROVE
      Shutdown \/ Boot \/ Booted \/ Closed \/ Crash \/ StoreFails => DelegationInv'
  OBVIOUS
<1>1. ASSUME Shutdown PROVE DelegationInv'
  <2>1. /\ <<>> \in Seq(FreeTasks)
        /\ <<Task("shutdown", Root, "none", Active)>> \in Seq(FreeTasks)
    <3>1. Active \in SUBSET Sessions
      BY DEF Active
    <3>2. Task("shutdown", Root, "none", Active) \in FreeTasks
      BY <3>1 DEF Task, FreeTasks, GoodTasks, Tasks, Operations, Sessions, RunStatuses, OfRuns
    <3> QED
      BY <3>2, SMT
  <2>2. PICK free \in Seq(FreeTasks) : todo' = free
    BY <1>1, <2>1 DEF Shutdown, Begins
  <2>3. UNCHANGED poolVars /\ UNCHANGED <<session, saved, run, packets>>
    BY <1>1 DEF Shutdown
  <2> QED
    BY <2>2, <2>3, QuietStart
<1>2. ASSUME Boot PROVE DelegationInv'
  <2>1. <<Task("orphaned", Root, "none", {}), Task("expired", Root, "none", {})>>
          \in Seq(FreeTasks)
    <3>1. /\ Task("orphaned", Root, "none", {}) \in FreeTasks
          /\ Task("expired", Root, "none", {}) \in FreeTasks
      BY DEF Task, FreeTasks, GoodTasks, Tasks, Operations, Sessions, RunStatuses, OfRuns
    <3> QED
      BY <3>1, SMT
  <2>2. PICK free \in Seq(FreeTasks) : todo' = free
    BY <1>2, <2>1 DEF Boot
  <2>3. UNCHANGED poolVars /\ UNCHANGED <<session, saved, run, packets>>
    BY <1>2 DEF Boot
  <2> QED
    BY <2>2, <2>3, QuietStart
<1>3. ASSUME Booted PROVE DelegationInv'
  BY <1>3, NothingMoves DEF Booted
<1>4. ASSUME Closed \/ Crash PROVE DelegationInv'
  BY <1>4, GonePreserves DEF Closed, Crash
<1>5. ASSUME StoreFails PROVE DelegationInv'
  <2>1. CASE Gone
    BY <2>1, GonePreserves
  <2>2. CASE ~Gone
    <3>1. /\ todo' = <<>> /\ UNCHANGED poolVars /\ UNCHANGED <<saved, run, packets>>
          /\ \/ UNCHANGED session
             \/ \E s \in Sessions : \/ session' = [session EXCEPT ![s] = "active"]
                                    \/ session' = [session EXCEPT ![s] = "archived"]
      BY <1>5, <2>2 DEF StoreFails, Fails
    <3>2. todo' \in Seq(GoodTasks) /\ TodoBacked'
      BY <3>1, NothingToDo
    <3>3. /\ session' \in [Sessions -> SessionStates]
          /\ \A s \in Sessions : saved[s] # "none" => session'[s] # "none"
      BY <3>1 DEF DelegationInv, Types, RegistryKnows, SessionStates
    <3> QED
      BY <3>1, <3>2, <3>3, QuietStep
  <2> QED
    BY <2>1, <2>2
<1> QED
  BY <1>1, <1>2, <1>3, <1>4, <1>5

LEMMA EnsureConfiguredPreserves == DelegationInv /\ EnsureConfigured => DelegationInv'
<1> SUFFICES ASSUME DelegationInv, EnsureConfigured PROVE DelegationInv'
  OBVIOUS
<1>1. /\ todo = <<>> /\ session' = [session EXCEPT ![Root] = "active"]
      /\ saved' = [saved EXCEPT ![Root] = "active"]
      /\ UNCHANGED poolVars /\ UNCHANGED <<todo, run, packets>>
  BY DEF EnsureConfigured, Ready
<1>2. Root \notin Runs /\ Runs \subseteq Sessions
  BY DelegationAssumption DEF DelegationAssumption, Sessions
<1>3. todo' \in Seq(GoodTasks) /\ TodoBacked'
  BY <1>1, NothingToDo
<1>4. PoolInv'
  BY <1>1, PoolStep DEF DelegationInv
<1>5. Types' /\ RegistryKnows'
  BY <1>1, <1>3 DEF DelegationInv, Types, RegistryKnows, SessionStates
<1>6. \A r \in Runs : saved'[r] = saved[r]
  BY <1>1, <1>2 DEF DelegationInv, Types
<1>7. StatusIsTrue'
  BY <1>1, <1>6 DEF DelegationInv, StatusIsTrue, Ended
<1>8. OneRunPerItem'
  BY <1>1 DEF DelegationInv, OneRunPerItem, poolVars
<1> QED
  BY <1>3, <1>4, <1>5, <1>7, <1>8 DEF DelegationInv

LEMMA PoolCallsPreserve ==
    DelegationInv /\ (PoolCalls \/ \E m \in Members : Register(m)) => DelegationInv'
<1> SUFFICES ASSUME DelegationInv, PoolCalls \/ \E m \in Members : Register(m)
             PROVE  DelegationInv'
  OBVIOUS
<1>1. todo = <<>> /\ UNCHANGED <<todo, session, saved, run, packets>>
  BY DEF PoolCalls, Register, Ready, engineVars
<1>2. [PoolNext]_poolVars
  BY DEF PoolCalls, Register, PoolNext
<1>3. todo' \in Seq(GoodTasks) /\ TodoBacked'
  BY <1>1, NothingToDo
<1> QED
  BY <1>1, <1>2, <1>3, QuietStep DEF DelegationInv, Types, RegistryKnows

LEMMA DelegationStep == DelegationInv /\ [Next]_vars => DelegationInv'
<1> SUFFICES ASSUME DelegationInv, [Next]_vars PROVE DelegationInv'
  OBVIOUS
<1>1. ASSUME NEW r \in Runs, DurationPasses(r) PROVE DelegationInv'
  BY <1>1, NothingMoves DEF DurationPasses
<1>2. CASE UNCHANGED vars
  BY <1>2, NothingMoves DEF vars, engineVars
<1> QED
  BY <1>1, <1>2, StepPreserves, BrainsPreserve, ControlsPreserve, LifePreserves,
     EnsureConfiguredPreserves, PoolCallsPreserve
     DEF Next, Work, Outside, Fault

-----------------------------------------------------------------------------
(* The rest of the types.                                                     *)

LifeTypes ==
    /\ phase \in {"down", "booting", "up", "closing"}
    /\ brain \in [Sessions -> {"idle", "woken", "started"}]
    /\ overdue \subseteq Runs

LEMMA LifeTypesStep == LifeTypes /\ [Next]_vars => LifeTypes'
<1> SUFFICES ASSUME LifeTypes, [Next]_vars PROVE LifeTypes'
  OBVIOUS
<1>1. CASE Step
  BY <1>1 DEF LifeTypes, Step, Spawn, ClaimItem, Open, SaveSession, SetStatus, SavePacket,
              SetOutcome, ReleaseLease, ApplyFailurePolicy, Conclude, Archive, CancelNext,
              Finished, CloseNext, Orphaned, OrphanNext, Expired, ShutdownNext
<1>2. CASE Brains \/ Wakes
  BY <1>2 DEF LifeTypes, Brains, Wakes, Wake, Started, WakeEnds, Submit
<1>3. CASE Gone
  BY <1>3 DEF LifeTypes, Gone
<1>4. CASE Boot \/ Booted \/ EnsureConfigured \/ Controls \/ Shutdown
  BY <1>4 DEF LifeTypes, Boot, Booted, EnsureConfigured, Controls, Shutdown
<1>5. CASE PoolCalls \/ \E m \in Members : Register(m)
  BY <1>5 DEF LifeTypes, PoolCalls, Register, engineVars
<1>6. CASE \E r \in Runs : DurationPasses(r)
  BY <1>6 DEF LifeTypes, DurationPasses
<1>7. CASE StoreFails /\ ~Gone
  BY <1>7 DEF LifeTypes, StoreFails
<1>8. CASE UNCHANGED vars
  BY <1>8 DEF LifeTypes, vars, engineVars
<1> QED
  BY <1>1, <1>2, <1>3, <1>4, <1>5, <1>6, <1>7, <1>8
     DEF Next, Work, Outside, Fault, Closed, Crash

(* Every table and every entry of a call in progress keeps its type.          *)
THEOREM DelegationTypeCorrect == Spec => []TypeOK
<1>1. Init => LifeTypes
  BY DEF Init, LifeTypes
<1>2. DelegationInv /\ LifeTypes => TypeOK
  <2>1. GoodTasks \subseteq Tasks
    BY DEF GoodTasks
  <2> QED
    BY <2>1, SMT DEF DelegationInv, PoolInv, Types, LifeTypes, TypeOK
<1> QED
  BY <1>1, <1>2, InitialDelegation, DelegationStep, LifeTypesStep, PTL DEF Spec

-----------------------------------------------------------------------------
(* The outcome of a delegated run is one that its brain delivered, and a run  *)
(* that is cancelled or expired has an archived session: for any requests,    *)
(* depth of delegation and order of calls, and wherever a crash or a failing  *)
(* store interrupts execute_brain_actions, a clean-up, a start or a shutdown. *)
(* The code has no transaction that spans a session and its run; the order of *)
(* its commits (TodoBacked) is what makes this true.                          *)
THEOREM RunStatusIsTrue == Spec => []StatusIsTrue
<1>1. DelegationInv => StatusIsTrue
  BY DEF DelegationInv
<1> QED
  BY <1>1, InitialDelegation, DelegationStep, PTL DEF Spec

(* spawn_delegated_workers never gives two runs the same work item, although  *)
(* the claim takes the oldest pending item and not the one just created, and  *)
(* the run is recorded in a later commit than the claim.                      *)
THEOREM RunsOwnTheirItems == Spec => []OneRunPerItem
<1>1. DelegationInv => OneRunPerItem
  BY DEF DelegationInv
<1> QED
  BY <1>1, InitialDelegation, DelegationStep, PTL DEF Spec

(* The slots and leases of the pool stay consistent under the engine's calls, *)
(* the interrupted ones included.                                             *)
THEOREM PoolIsConsistentInEngine == Spec => [](SlotsCounted /\ ClaimsAgree)
<1>1. DelegationInv => SlotsCounted /\ ClaimsAgree
  BY DEF DelegationInv, PoolInv
<1> QED
  BY <1>1, InitialDelegation, DelegationStep, PTL DEF Spec

(******************************************************************************)
(* The orphan sweep, over any forest of delegations.  SweepInv says how far   *)
(* the call that contains it has come: it has no sweep, it has not reached    *)
(* it, or it is in it and the sessions the sweep is done with are no orphans. *)
(******************************************************************************)
\* The sessions an entry of todo is about.
Holds(t) == IF t.op = "status" THEN {t.session} ELSE t.of

\* Sessions that the entries in todo will still come to.
Ahead(q) == \E j \in 1..(Len(todo) - 1) : q \in Holds(todo[j])

\* A sweep follows in this call, but has not begun.
SweepWaits ==
    /\ Len(todo) > 1
    /\ todo[Len(todo)].op = "expired" /\ todo[Len(todo) - 1].op = "orphaned"
    /\ \A j \in 1..(Len(todo) - 2) : todo[j].op \in {"finished", "close"}

\* A sweep is in progress: a session that it is done with has no work to do, or
\* an active parent that it is done with as well.
SweepGoes ==
    /\ Len(todo) > 0 /\ todo[Len(todo)].op = "expired"
    /\ \A j \in 1..(Len(todo) - 1) :
          /\ todo[j].op \in {"orphans", "cancel", "status"}
          /\ todo[j].op = "orphans" => j = Len(todo) - 1
          /\ todo[j].op = "status" => session[todo[j].session] = "archived"
    /\ \A r \in Runs : session[r] = "active" /\ ~Ended(r) /\ ~Ahead(r) =>
          session[Request[r].parent] = "active" /\ ~Ahead(Request[r].parent)

NoSweep == \A j \in 1..Len(todo) : todo[j].op # "expired"

SweepInv == NoSweep \/ SweepWaits \/ SweepGoes

\* Entries that begin no expiry.
OtherTasks == {t \in Tasks : t.op # "expired"}

LEMMA OtherTask ==
    ASSUME NEW op \in Operations, op # "expired", NEW s \in Sessions, NEW st \in RunStatuses,
           NEW of \in SUBSET Sessions
    PROVE  Task(op, s, st, of) \in OtherTasks /\ <<Task(op, s, st, of)>> \in Seq(OtherTasks)
<1>1. Task(op, s, st, of) \in OtherTasks
  BY DEF Task, OtherTasks, Tasks
<1> QED
  BY <1>1, SMT

LEMMA OtherCancelling ==
    ASSUME NEW of \in SUBSET Runs, NEW st \in Stopped
    PROVE  Cancelling(of, st) \in Seq(OtherTasks)
<1>1. "cancel" \in Operations /\ Root \in Sessions /\ st \in RunStatuses /\ of \in SUBSET Sessions
  BY DEF Operations, Sessions, RunStatuses, Stopped, Terminal
<1>2. <<Task("cancel", Root, st, of)>> \in Seq(OtherTasks) /\ <<>> \in Seq(OtherTasks)
  BY <1>1, OtherTask, SMT
<1> QED
  BY <1>2 DEF Cancelling

LEMMA OtherRest ==
    ASSUME DelegationInv, todo # <<>>, Head(todo).op # "expired", NEW x
    PROVE  Rest(x) \in Seq(OtherTasks)
<1>1. Head(todo) \in GoodTasks
  BY HeadTask
<1>2. PICK h \in Tasks : h = Head(todo)
  BY <1>1 DEF GoodTasks
<1>3. [h EXCEPT !.of = @ \ {x}] \in OtherTasks
  BY <1>2 DEF OtherTasks, Tasks
<1> QED
  BY <1>2, <1>3, SMT DEF Rest

(* Where the entries of todo are once the first one is replaced.              *)
LEMMA ThenAt ==
    ASSUME DelegationInv, todo # <<>>, NEW T, NEW new \in Seq(T), todo' = new \o Tail(todo),
           NEW k \in Nat, k = Len(new), NEW n \in Nat, n = Len(todo)
    PROVE  /\ n > 0 /\ Len(todo') = k + n - 1
           /\ \A j \in 1..k : todo'[j] = new[j]
           /\ \A j \in (k + 1)..(k + n - 1) : j - k + 1 \in 2..n /\ todo'[j] = todo[j - k + 1]
           /\ \A j \in 2..n : k + j - 1 \in (k + 1)..(k + n - 1) /\ todo'[k + j - 1] = todo[j]
<1>1. todo \in Seq(GoodTasks)
  BY DEF DelegationInv, Types
<1>2. /\ Tail(todo) \in Seq(GoodTasks) /\ Len(Tail(todo)) = n - 1 /\ n > 0
      /\ \A j \in 1..(n - 1) : Tail(todo)[j] = todo[j + 1]
  BY <1>1, SMT
<1>3. PICK rest \in Seq(GoodTasks) : rest = Tail(todo)
  BY <1>2
<1>4. /\ Len(new \o rest) = k + (n - 1)
      /\ \A j \in 1..k : (new \o rest)[j] = new[j]
      /\ \A j \in (k + 1)..(k + (n - 1)) : (new \o rest)[j] = rest[j - k]
  BY <1>2, <1>3, SMT
<1>5. \A j \in (k + 1)..(k + n - 1) : j - k + 1 \in 2..n /\ todo'[j] = todo[j - k + 1]
  BY <1>2, <1>3, <1>4, SMT
<1>6. \A j \in 2..n : k + j - 1 \in (k + 1)..(k + n - 1) /\ (k + j - 1) - k + 1 = j
  BY SMT
<1>7. \A j \in 2..n : todo'[k + j - 1] = todo[j]
  BY <1>5, <1>6
<1> QED
  BY <1>2, <1>3, <1>4, <1>5, <1>6, <1>7

LEMMA NoSweepThen ==
    ASSUME DelegationInv, NoSweep, todo # <<>>,
           NEW new \in Seq(OtherTasks), todo' = new \o Tail(todo)
    PROVE  NoSweep'
<1>0. PICK k \in Nat, n \in Nat : k = Len(new) /\ n = Len(todo)
  BY SMT DEF DelegationInv, Types
<1>1. /\ Len(todo') = k + n - 1
      /\ \A j \in 1..k : todo'[j] = new[j]
      /\ \A j \in (k + 1)..(k + n - 1) : j - k + 1 \in 2..n /\ todo'[j] = todo[j - k + 1]
  BY <1>0, ThenAt, SMT
<1>2. \A j \in 1..k : new[j].op # "expired"
  <2>1. \A j \in 1..k : new[j] \in OtherTasks
    BY <1>0, SMT
  <2> QED
    BY <2>1 DEF OtherTasks
<1>3. \A j \in 2..n : todo[j].op # "expired"
  BY <1>0, SMT DEF NoSweep
<1>4. \A j \in 1..(k + n - 1) : j \in 1..k \/ j \in (k + 1)..(k + n - 1)
  BY <1>0, SMT
<1>5. \A j \in 1..(k + n - 1) : todo'[j].op # "expired"
  BY <1>1, <1>2, <1>3, <1>4
<1> QED
  BY <1>1, <1>5 DEF NoSweep

LEMMA NoSweepEmpty ==
    ASSUME todo' = <<>>
    PROVE  NoSweep'
BY SMT DEF NoSweep

(* No entry but the ones of a start and of a clean-up brings in a sweep.      *)
LEMMA NoSweepStep ==
    ASSUME DelegationInv, NoSweep, Step
    PROVE  NoSweep'
<1>1. todo # <<>>
  BY DEF Step, Spawn, ClaimItem, Open, SaveSession, SetStatus, SavePacket,
         SetOutcome, ReleaseLease, ApplyFailurePolicy, Conclude, Archive, CancelNext,
         Finished, CloseNext, Orphaned, OrphanNext, Expired, ShutdownNext, At
<1>2. PICK h \in GoodTasks : h = Head(todo)
  BY <1>1, HeadTask
<1>3. /\ h.session \in Sessions /\ h.status \in RunStatuses /\ h.of \subseteq Sessions
      /\ h.op # "expired"
  <2>1. todo \in Seq(GoodTasks) /\ Head(todo) = todo[1] /\ 1 \in 1..Len(todo)
    BY <1>1, SMT DEF DelegationInv, Types
  <2>2. h.op # "expired"
    BY <1>2, <2>1 DEF NoSweep
  <2> QED
    BY <2>2 DEF GoodTasks, Tasks
<1>4. ASSUME NEW new \in Seq(OtherTasks), Then(new) PROVE NoSweep'
  BY <1>1, <1>4, NoSweepThen DEF Then
<1>5. Fails => NoSweep'
  BY NoSweepEmpty DEF Fails
<1>6. <<>> \in Seq(OtherTasks)
  BY SMT
<1>7. /\ \A r \in Sessions : /\ <<Task("open", r, "none", {})>> \in Seq(OtherTasks)
                             /\ <<Task("claim", r, "none", {})>> \in Seq(OtherTasks)
                             /\ <<Task("save", r, "none", {})>> \in Seq(OtherTasks)
                             /\ <<Task("archive", r, "none", {})>> \in Seq(OtherTasks)
                             /\ <<Task("conclude", r, "none", {})>> \in Seq(OtherTasks)
                             /\ <<Task("open", r, "none", {r})>> \in Seq(OtherTasks)
      /\ \A of \in SUBSET Sessions :
            /\ <<Task("close", Root, "none", of)>> \in Seq(OtherTasks)
            /\ <<Task("orphans", Root, "none", of)>> \in Seq(OtherTasks)
  <2>1. /\ {"open", "claim", "save", "archive", "conclude", "close", "orphans"} \subseteq Operations
        /\ "none" \in RunStatuses /\ Root \in Sessions /\ {} \in SUBSET Sessions
        /\ \A r \in Sessions : {r} \in SUBSET Sessions
    BY DEF Operations, RunStatuses, Sessions
  <2> QED
    BY <2>1, OtherTask
<1>8. \A st \in RunStatuses, r \in Sessions :
         /\ <<Task("status", r, st, {})>> \in Seq(OtherTasks)
         /\ <<Task("outcome", r, st, {})>> \in Seq(OtherTasks)
         /\ <<Task("release", r, st, {})>> \in Seq(OtherTasks)
         /\ <<Task("fail_fast", r, st, {})>> \in Seq(OtherTasks)
  <2>1. /\ {"status", "outcome", "release", "fail_fast"} \subseteq Operations
        /\ {} \in SUBSET Sessions
    BY DEF Operations
  <2> QED
    BY <2>1, OtherTask
<1>9. \A of \in SUBSET Runs : Cancelling(of, "cancelled") \in Seq(OtherTasks)
                              /\ Cancelling(of, "expired") \in Seq(OtherTasks)
  <2>1. "cancelled" \in Stopped /\ "expired" \in Stopped
    BY DEF Stopped
  <2> QED
    BY <2>1, OtherCancelling
<1>10. \A x : Rest(x) \in Seq(OtherTasks)
  BY <1>1, <1>2, <1>3, OtherRest
<1>11. \A a, b : a \in Seq(OtherTasks) /\ b \in Seq(OtherTasks) => a \o b \in Seq(OtherTasks)
  BY SMT
<1>12. ASSUME Spawn PROVE NoSweep'
  BY <1>2, <1>3, <1>4, <1>5, <1>6, <1>7, <1>12 DEF Spawn
<1>13. ASSUME ClaimItem PROVE NoSweep'
  BY <1>2, <1>3, <1>4, <1>7, <1>13 DEF ClaimItem
<1>14. ASSUME Open PROVE NoSweep'
  BY <1>2, <1>3, <1>4, <1>5, <1>7, <1>14 DEF Open
<1>15. ASSUME SaveSession PROVE NoSweep'
  <2>1. /\ Task("status", h.session, "session_created", {}) \in OtherTasks
        /\ Task("status", h.session, "wake_requested", {}) \in OtherTasks
    <3>1. /\ "status" \in Operations /\ {} \in SUBSET Sessions
          /\ "session_created" \in RunStatuses /\ "wake_requested" \in RunStatuses
      BY DEF Operations, RunStatuses
    <3> QED
      BY <1>3, <3>1, OtherTask
  <2>2. <<Task("status", h.session, "session_created", {}),
          Task("status", h.session, "wake_requested", {})>> \in Seq(OtherTasks)
    BY <2>1, SMT
  <2> QED
    BY <1>2, <1>4, <1>15, <2>2 DEF SaveSession
<1>16. ASSUME SetStatus PROVE NoSweep'
  BY <1>4, <1>6, <1>16 DEF SetStatus
<1>17. ASSUME SavePacket PROVE NoSweep'
  BY <1>2, <1>3, <1>4, <1>8, <1>17 DEF SavePacket
<1>18. ASSUME SetOutcome PROVE NoSweep'
  BY <1>2, <1>3, <1>4, <1>8, <1>18 DEF SetOutcome
<1>19. ASSUME ReleaseLease PROVE NoSweep'
  BY <1>2, <1>3, <1>4, <1>8, <1>19 DEF ReleaseLease
<1>20. ASSUME ApplyFailurePolicy PROVE NoSweep'
  <2>1. PICK of \in SUBSET Runs :
          Then(Cancelling(of, "cancelled") \o <<Task("conclude", h.session, "none", {})>>)
    <3>1. Siblings(h.session) \in SUBSET Runs /\ {} \in SUBSET Runs
      BY DEF Siblings
    <3> QED
      BY <1>2, <1>20, <3>1 DEF ApplyFailurePolicy
  <2>2. Cancelling(of, "cancelled") \o <<Task("conclude", h.session, "none", {})>>
          \in Seq(OtherTasks)
    BY <1>3, <1>7, <1>9, <1>11
  <2> QED
    BY <1>4, <2>1, <2>2
<1>21. ASSUME Conclude PROVE NoSweep'
  BY <1>2, <1>3, <1>4, <1>6, <1>7, <1>21 DEF Conclude
<1>22. ASSUME Archive PROVE NoSweep'
  <2>1. ChildrenOf(h.session) \in SUBSET Runs /\ "cancelled" \in RunStatuses
    BY DEF ChildrenOf, RunStatuses, Terminal
  <2> QED
    BY <1>2, <1>3, <1>4, <1>6, <1>8, <1>9, <1>22, <2>1 DEF Archive
<1>23. ASSUME CancelNext PROVE NoSweep'
  <2>1. PICK r \in Sessions :
          Then(Rest(r)) \/ Then(<<Task("status", r, h.status, {})>> \o Rest(r))
    BY <1>2, <1>3, <1>23 DEF CancelNext
  <2>2. <<Task("status", r, h.status, {})>> \o Rest(r) \in Seq(OtherTasks)
    BY <1>3, <1>8, <1>10, <1>11
  <2> QED
    BY <1>4, <1>10, <2>1, <2>2
<1>24. ASSUME Finished PROVE NoSweep'
  <2>1. {r \in Runs \cap Active : Ended(r)} \in SUBSET Sessions
    BY DEF Sessions
  <2> QED
    BY <1>4, <1>6, <1>7, <1>24, <2>1 DEF Finished
<1>25. ASSUME CloseNext PROVE NoSweep'
  BY <1>4, <1>10, <1>25 DEF CloseNext
<1>26. ASSUME Orphaned PROVE NoSweep'
  <2>1. Runs \cap Active \in SUBSET Sessions
    BY DEF Sessions
  <2> QED
    BY <1>4, <1>6, <1>7, <1>26, <2>1 DEF Orphaned
<1>27. ASSUME OrphanNext PROVE NoSweep'
  <2>1. PICK r \in Runs, of \in SUBSET Runs, st \in {"cancelled", "expired"} :
          Then(Cancelling(of, st) \o Rest(r))
    <3>1. PICK r \in Runs :
            Then(Cancelling(IF session[Request[r].parent] = "active" THEN {} ELSE {r},
                            IF session[Request[r].parent] = "archived" THEN "cancelled"
                            ELSE "expired") \o Rest(r))
      BY <1>27 DEF OrphanNext
    <3>2. {r} \in SUBSET Runs /\ {} \in SUBSET Runs
      OBVIOUS
    <3> QED
      BY <3>1, <3>2
  <2>2. Cancelling(of, st) \o Rest(r) \in Seq(OtherTasks)
    BY <1>9, <1>10, <1>11
  <2> QED
    BY <1>4, <2>1, <2>2
<1>28. ~Expired
  BY <1>2, <1>3 DEF Expired, At
<1>29. ASSUME ShutdownNext PROVE NoSweep'
  <2>1. PICK s \in Sessions :
          Then(Rest(s)) \/ Then(<<>> \o Rest(s)) \/ Then(<<Task("archive", s, "none", {})>> \o Rest(s))
    BY <1>29 DEF ShutdownNext
  <2>2. /\ <<>> \o Rest(s) \in Seq(OtherTasks)
        /\ <<Task("archive", s, "none", {})>> \o Rest(s) \in Seq(OtherTasks)
    BY <1>6, <1>7, <1>10, <1>11
  <2> QED
    BY <1>4, <1>10, <2>1, <2>2
<1> QED
  BY <1>12, <1>13, <1>14, <1>15, <1>16, <1>17, <1>18, <1>19, <1>20, <1>21, <1>22, <1>23,
     <1>24, <1>25, <1>26, <1>27, <1>28, <1>29 DEF Step

LEMMA HeadOp ==
    ASSUME DelegationInv, todo # <<>>
    PROVE  Len(todo) \in Nat \ {0} /\ Head(todo) = todo[1]
BY SMT DEF DelegationInv, Types

LEMMA WaitsThen ==
    ASSUME DelegationInv, SweepWaits, todo[1].op # "orphaned",
           NEW T, \A t \in T : t.op \in {"finished", "close"},
           NEW new \in Seq(T), Then(new)
    PROVE  SweepWaits'
<1>0. PICK k \in Nat, n \in Nat : k = Len(new) /\ n = Len(todo)
  BY SMT DEF DelegationInv, Types
<1>1. /\ todo # <<>> /\ n > 1
      /\ todo[n].op = "expired" /\ todo[n - 1].op = "orphaned"
      /\ \A j \in 1..(n - 2) : todo[j].op \in {"finished", "close"}
  BY <1>0, SMT DEF SweepWaits
<1>2. n > 2
  BY <1>0, <1>1, SMT
<1>3. /\ Len(todo') = k + n - 1
      /\ \A j \in 1..k : todo'[j] = new[j]
      /\ \A j \in (k + 1)..(k + n - 1) : j - k + 1 \in 2..n /\ todo'[j] = todo[j - k + 1]
      /\ \A j \in 2..n : k + j - 1 \in (k + 1)..(k + n - 1) /\ todo'[k + j - 1] = todo[j]
  BY <1>0, <1>1, ThenAt, SMT DEF Then
<1>4. todo'[k + n - 1].op = "expired"
  <2>1. n \in 2..n
    BY <1>0, <1>2, SMT
  <2> QED
    BY <1>1, <1>3, <2>1
<1>5. todo'[(k + n - 1) - 1].op = "orphaned"
  <2>1. n - 1 \in 2..n /\ k + (n - 1) - 1 = (k + n - 1) - 1
    BY <1>0, <1>2, SMT
  <2> QED
    BY <1>1, <1>3, <2>1
<1>6. ASSUME NEW j \in 1..((k + n - 1) - 2) PROVE todo'[j].op \in {"finished", "close"}
  <2>1. CASE j \in 1..k
    BY <1>0, <1>3, <2>1, SMT
  <2>2. CASE j \notin 1..k
    <3>1. j \in (k + 1)..(k + n - 1) /\ j - k + 1 \in 1..(n - 2)
      BY <1>0, <1>6, <2>2, SMT
    <3> QED
      BY <1>1, <1>3, <3>1
  <2> QED
    BY <2>1, <2>2
<1> QED
  BY <1>0, <1>2, <1>3, <1>4, <1>5, <1>6, SMT DEF SweepWaits

LEMMA WaitsStep ==
    ASSUME DelegationInv, SweepWaits, Step
    PROVE  SweepWaits' \/ SweepGoes'
<1>0. PICK n \in Nat : n = Len(todo)
  BY SMT DEF DelegationInv, Types
<1>1. /\ todo # <<>> /\ n > 1
      /\ todo[n].op = "expired" /\ todo[n - 1].op = "orphaned"
      /\ \A j \in 1..(n - 2) : todo[j].op \in {"finished", "close"}
  BY <1>0, SMT DEF SweepWaits
<1>2. PICK h \in GoodTasks : h = Head(todo) /\ h = todo[1]
  BY <1>1, HeadTask, HeadOp
<1>3. h.op \in {"finished", "close", "orphaned"}
  <2>1. 1 = n - 1 \/ 1 \in 1..(n - 2)
    BY <1>0, <1>1, SMT
  <2> QED
    BY <1>1, <1>2, <2>1
<1>4. CASE Finished
  <2>1. h.op = "finished"
    BY <1>2, <1>4 DEF Finished, At
  <2> DEFINE T == {t \in Tasks : t.op \in {"finished", "close"}}
             of == {r \in Runs \cap Active : Ended(r)}
  <2>2. <<>> \in Seq(T) /\ <<Task("close", Root, "none", of)>> \in Seq(T)
    <3>1. of \in SUBSET Sessions
      BY DEF Sessions
    <3> HIDE DEF of
    <3>2. Task("close", Root, "none", of) \in T
      BY <3>1 DEF Task, Tasks, Operations, Sessions, RunStatuses
    <3> QED
      BY <3>2, SMT
  <2>3. PICK new \in Seq(T) : Then(new)
    BY <1>4, <2>2 DEF Finished
  <2> QED
    BY <1>2, <2>1, <2>3, WaitsThen
<1>5. CASE CloseNext
  <2>1. h.op = "close"
    BY <1>2, <1>5 DEF CloseNext, At
  <2> DEFINE T == {t \in Tasks : t.op \in {"finished", "close"}}
  <2>2. PICK x : Then(Rest(x))
    BY <1>5 DEF CloseNext
  <2>3. Rest(x) \in Seq(T)
    <3>1. PICK t : t = [h EXCEPT !.of = @ \ {x}]
      OBVIOUS
    <3>2. t \in Tasks /\ t.op = "close"
      BY <2>1, <3>1 DEF GoodTasks, Tasks
    <3>3. <<t>> \in Seq(T) /\ <<>> \in Seq(T)
      BY <3>2, SMT
    <3> QED
      BY <1>2, <3>1, <3>3, Zenon DEF Rest
  <2> QED
    BY <1>2, <2>1, <2>2, <2>3, WaitsThen
<1>6. CASE Orphaned
  <2>1. h.op = "orphaned"
    BY <1>2, <1>6 DEF Orphaned, At
  <2>2. n = 2
    BY <1>0, <1>1, <1>2, <2>1, SMT
  <2>3. PICK of : of = Runs \cap Active
    OBVIOUS
  <2>4. /\ Then(IF of = {} THEN <<>> ELSE <<Task("orphans", Root, "none", of)>>)
        /\ session' = session /\ run' = run
    BY <1>6, <2>3 DEF Orphaned
  <2>5. CASE of = {}
    <3>1. PICK new \in Seq(Tasks) : new = <<>> /\ Len(new) = 0
      <4>1. <<>> \in Seq(Tasks) /\ Len(<<>>) = 0
        BY SMT
      <4> QED
        BY <4>1, Zenon
    <3>2. todo' = new \o Tail(todo)
      BY <2>4, <2>5, <3>1 DEF Then
    <3>3. Len(todo') = 1 /\ todo'[1] = todo[2]
      <4>1. /\ Len(todo') = 0 + n - 1
            /\ \A j \in 2..n : todo'[0 + j - 1] = todo[j]
        BY <1>0, <1>1, <3>1, <3>2, ThenAt, SMT
      <4> QED
        BY <2>2, <4>1, SMT
    <3>4. \A r \in Runs : session'[r] # "active"
      BY <2>3, <2>4, <2>5 DEF Active, Sessions
    <3> QED
      BY <1>1, <2>2, <3>3, <3>4, SMT DEF SweepGoes
  <2>6. CASE of # {}
    <3>1. PICK t : t = Task("orphans", Root, "none", of)
      OBVIOUS
    <3>2. t.op = "orphans" /\ t.of = of /\ t \in Tasks
      BY <2>3, <3>1 DEF Task, Tasks, Operations, Sessions, RunStatuses
    <3>3. PICK new \in Seq(Tasks) : new = <<t>> /\ Len(new) = 1 /\ new[1] = t
      <4>1. <<t>> \in Seq(Tasks) /\ Len(<<t>>) = 1 /\ <<t>>[1] = t
        BY <3>2, SMT
      <4> QED
        BY <4>1, Zenon
    <3>4. todo' = new \o Tail(todo)
      BY <2>4, <2>6, <3>1, <3>3 DEF Then
    <3>5. Len(todo') = 2 /\ todo'[1] = t /\ todo'[2] = todo[2]
      <4>1. /\ Len(todo') = 1 + n - 1
            /\ \A j \in 1..1 : todo'[j] = new[j]
            /\ \A j \in 2..n : todo'[1 + j - 1] = todo[j]
        BY <1>0, <1>1, <3>3, <3>4, ThenAt, SMT
      <4> QED
        BY <2>2, <3>3, <4>1, SMT
    <3>6. ASSUME NEW r \in Runs, session'[r] = "active" PROVE Ahead(r)'
      <4>1. r \in of
        BY <2>3, <2>4, <3>6 DEF Active, Sessions
      <4>2. r \in Holds(todo'[1])
        BY <3>2, <3>5, <4>1 DEF Holds
      <4> QED
        BY <3>5, <4>2, SMT DEF Ahead, Holds
    <3>7. \A j \in 1..(Len(todo') - 1) : j = 1
      BY <3>5, SMT
    <3> QED
      BY <1>1, <2>2, <3>2, <3>5, <3>6, <3>7, SMT DEF SweepGoes
  <2> QED
    BY <2>5, <2>6
<1> QED
  BY <1>2, <1>3, <1>4, <1>5, <1>6 DEF Step, Spawn, ClaimItem, Open, SaveSession, SetStatus,
     SavePacket, SetOutcome, ReleaseLease, ApplyFailurePolicy, Conclude, Archive, CancelNext,
     OrphanNext, Expired, ShutdownNext, At

-----------------------------------------------------------------------------
(* The sweep in progress.                                                     *)

\* The sessions of the entries after the first.
Later(q) == \E j \in 2..(Len(todo) - 1) : q \in Holds(todo[j])

Among(q, new) == \E j \in 1..Len(new) : q \in Holds(new[j])

\* A session that the sweep is done with is no orphan.
SweptAreNoOrphans ==
    \A r \in Runs : session[r] = "active" /\ ~Ended(r) /\ ~Ahead(r) =>
        session[Request[r].parent] = "active" /\ ~Ahead(Request[r].parent)

LEMMA AheadIs ==
    ASSUME DelegationInv, todo # <<>>, Len(todo) > 1, NEW q
    PROVE  Ahead(q) <=> q \in Holds(todo[1]) \/ Later(q)
<1>0. PICK n \in Nat : n = Len(todo)
  BY SMT DEF DelegationInv, Types
<1>1. \A j : j \in 1..(n - 1) <=> j = 1 \/ j \in 2..(n - 1)
  BY <1>0, SMT
<1> QED
  BY <1>0, <1>1 DEF Ahead, Later

LEMMA AheadThen ==
    ASSUME DelegationInv, todo # <<>>, Len(todo) > 1, NEW new \in Seq(Tasks), Then(new), NEW q
    PROVE  Ahead(q)' <=> Among(q, new) \/ Later(q)
<1>0. PICK k \in Nat, n \in Nat : k = Len(new) /\ n = Len(todo)
  BY SMT DEF DelegationInv, Types
<1>1. /\ Len(todo') = k + n - 1
      /\ \A j \in 1..k : todo'[j] = new[j]
      /\ \A j \in (k + 1)..(k + n - 1) : j - k + 1 \in 2..n /\ todo'[j] = todo[j - k + 1]
      /\ \A j \in 2..n : k + j - 1 \in (k + 1)..(k + n - 1) /\ todo'[k + j - 1] = todo[j]
  BY <1>0, ThenAt, SMT DEF Then
<1>2. ASSUME NEW j \in 1..((k + n - 1) - 1), q \in Holds(todo'[j])
      PROVE  Among(q, new) \/ Later(q)
  <2>1. CASE j \in 1..k
    BY <1>0, <1>1, <1>2, <2>1 DEF Among
  <2>2. CASE j \notin 1..k
    <3>1. j \in (k + 1)..(k + n - 1) /\ j - k + 1 \in 2..(n - 1)
      BY <1>0, <1>2, <2>2, SMT
    <3> QED
      BY <1>0, <1>1, <1>2, <3>1 DEF Later
  <2> QED
    BY <2>1, <2>2
<1>3. ASSUME NEW j \in 1..k, q \in Holds(new[j])
      PROVE  \E i \in 1..((k + n - 1) - 1) : q \in Holds(todo'[i])
  <2>1. j \in 1..((k + n - 1) - 1)
    BY <1>0, SMT
  <2> QED
    BY <1>1, <1>3, <2>1
<1>4. ASSUME NEW j \in 2..(n - 1), q \in Holds(todo[j])
      PROVE  \E i \in 1..((k + n - 1) - 1) : q \in Holds(todo'[i])
  <2>1. j \in 2..n /\ k + j - 1 \in 1..((k + n - 1) - 1)
    BY <1>0, SMT
  <2> QED
    BY <1>1, <1>4, <2>1
<1>5. Ahead(q)' <=> \E i \in 1..((k + n - 1) - 1) : q \in Holds(todo'[i])
  BY <1>1 DEF Ahead, Holds
<1> QED
  BY <1>0, <1>2, <1>3, <1>4, <1>5 DEF Among, Later

LEMMA SweptKept ==
    ASSUME SweptAreNoOrphans,
           \A q : Ahead(q)' => Ahead(q),
           \A s \in Sessions : ~Ahead(s) => session'[s] = session[s],
           \A r \in Runs : ~Ahead(r) => run'[r] = run[r],
           \A r \in Runs : Ahead(r) /\ session'[r] = "active" /\ ~Ended(r)' /\ ~Ahead(r)' =>
               session'[Request[r].parent] = "active" /\ ~Ahead(Request[r].parent)'
    PROVE  SweptAreNoOrphans'
<1> SUFFICES ASSUME NEW r \in Runs, session'[r] = "active", ~Ended(r)', ~Ahead(r)'
             PROVE  session'[Request[r].parent] = "active" /\ ~Ahead(Request[r].parent)'
  BY DEF SweptAreNoOrphans
<1>1. CASE Ahead(r)
  BY <1>1
<1>2. CASE ~Ahead(r)
  <2>1. r \in Sessions /\ Request[r].parent \in Sessions
    BY DelegationAssumption DEF DelegationAssumption, Requests, Sessions
  <2>2. session[r] = "active" /\ ~Ended(r)
    BY <1>2, <2>1 DEF Ended
  <2>3. session[Request[r].parent] = "active" /\ ~Ahead(Request[r].parent)
    BY <1>2, <2>2 DEF SweptAreNoOrphans
  <2> QED
    BY <2>1, <2>3
<1> QED
  BY <1>1, <1>2

\* Entries that a sweep may put in the place of the first one.
SweepEntry(t, sessions, last) ==
    /\ t.op \in {"orphans", "cancel", "status"}
    /\ t.op = "orphans" => last
    /\ t.op = "status" => sessions[t.session] = "archived"

LEMMA GoesThen ==
    ASSUME DelegationInv, SweepGoes, Len(todo) > 1, NEW new \in Seq(Tasks), Then(new),
           \A j \in 1..Len(new) : SweepEntry(new[j], session', Len(todo) = 2 /\ j = Len(new)),
           \A s \in Sessions : session[s] = "archived" => session'[s] = "archived",
           SweptAreNoOrphans'
    PROVE  SweepGoes'
<1>0. PICK k \in Nat, n \in Nat : k = Len(new) /\ n = Len(todo)
  BY SMT DEF DelegationInv, Types
<1>1. /\ todo # <<>> /\ n > 1 /\ todo[n].op = "expired"
      /\ \A j \in 1..(n - 1) : SweepEntry(todo[j], session, j = n - 1)
  BY <1>0, SMT DEF SweepGoes, SweepEntry
<1>2. /\ Len(todo') = k + n - 1
      /\ \A j \in 1..k : todo'[j] = new[j]
      /\ \A j \in (k + 1)..(k + n - 1) : j - k + 1 \in 2..n /\ todo'[j] = todo[j - k + 1]
      /\ \A j \in 2..n : k + j - 1 \in (k + 1)..(k + n - 1) /\ todo'[k + j - 1] = todo[j]
  BY <1>0, <1>1, ThenAt, SMT DEF Then
<1>3. Len(todo') > 0 /\ todo'[Len(todo')].op = "expired"
  <2>1. n \in 2..n
    BY <1>0, <1>1, SMT
  <2> QED
    BY <1>0, <1>1, <1>2, <2>1, SMT
<1>4. ASSUME NEW j \in 1..((k + n - 1) - 1)
      PROVE  /\ todo'[j].op \in {"orphans", "cancel", "status"}
             /\ todo'[j].op = "orphans" => j = (k + n - 1) - 1
             /\ todo'[j].op = "status" => session'[todo'[j].session] = "archived"
  <2>1. CASE j \in 1..k
    <3>1. /\ new[j].op \in {"orphans", "cancel", "status"}
          /\ new[j].op = "orphans" => n = 2 /\ j = k
          /\ new[j].op = "status" => session'[new[j].session] = "archived"
      BY <1>0, <1>2, <2>1 DEF SweepEntry
    <3>2. n = 2 /\ j = k => j = (k + n - 1) - 1
      BY <1>0, SMT
    <3>3. todo'[j] = new[j]
      BY <1>2, <2>1
    <3> QED
      BY <3>1, <3>2, <3>3, Zenon
  <2>2. CASE j \notin 1..k
    <3>0. j - k + 1 \in 2..(n - 1) /\ j \in (k + 1)..(k + n - 1)
      BY <1>0, <1>4, <2>2, SMT
    <3>1. PICK i \in 2..(n - 1) : i = j - k + 1
      BY <3>0, Zenon
    <3>2. todo'[j] = todo[i]
      BY <1>2, <3>0, <3>1, Zenon
    <3>3. i \in 1..(n - 1) /\ (i = n - 1 => j = (k + n - 1) - 1)
      BY <1>0, <3>1, SMT
    <3>4. SweepEntry(todo[i], session, i = n - 1)
      BY <1>1, <3>3
    <3>5. todo[i].session \in Sessions
      <4>1. todo[i] \in GoodTasks
        BY <1>0, <3>1, SMT DEF DelegationInv, Types
      <4> QED
        BY <4>1 DEF GoodTasks, Tasks
    <3> QED
      BY <3>2, <3>3, <3>4, <3>5 DEF SweepEntry
  <2> QED
    BY <2>1, <2>2
<1> QED
  BY <1>2, <1>3, <1>4 DEF SweepGoes, SweptAreNoOrphans

(* What is left of the first entry of a loop.                                 *)
LEMMA RestIs ==
    ASSUME DelegationInv, todo # <<>>, NEW x, Head(todo).op # "status"
    PROVE  \E new \in Seq(Tasks) :
              /\ new = Rest(x) /\ Len(new) \in {0, 1}
              /\ \A j \in 1..Len(new) : new[j].op = Head(todo).op
              /\ \A q : Among(q, new) <=> q \in Head(todo).of \ {x}
<1>1. PICK h \in Tasks : h = Head(todo)
  BY HeadTask DEF GoodTasks
<1>2. PICK t : t = [h EXCEPT !.of = @ \ {x}]
  OBVIOUS
<1>3. t \in Tasks /\ t.op = h.op /\ t.of = h.of \ {x} /\ Holds(t) = h.of \ {x}
  BY <1>1, <1>2 DEF Tasks, Holds
<1>4. CASE h.of = {x}
  <2>1. Rest(x) = <<>> /\ <<>> \in Seq(Tasks) /\ Len(<<>>) = 0
    BY <1>1, <1>4, SMT DEF Rest
  <2>2. \A q : ~Among(q, <<>>)
    BY SMT DEF Among
  <2>3. \A j \in 1..0 : FALSE
    BY SMT
  <2>4. \A q : q \notin h.of \ {x}
    BY <1>4
  <2> QED
    BY <1>1, <2>1, <2>2, <2>3, <2>4, Zenon
<1>5. CASE h.of # {x}
  <2>1. Rest(x) = <<t>>
    BY <1>1, <1>2, <1>5 DEF Rest
  <2>2. <<t>> \in Seq(Tasks) /\ Len(<<t>>) = 1 /\ <<t>>[1] = t
    BY <1>3, SMT
  <2>3. \A j : j \in 1..1 <=> j = 1
    BY SMT
  <2>4. \A q : Among(q, <<t>>) <=> q \in h.of \ {x}
    BY <1>3, <2>2, <2>3, Zenon DEF Among
  <2> QED
    BY <1>1, <1>3, <2>1, <2>2, <2>3, <2>4, Zenon
<1> QED
  BY <1>4, <1>5

\* new is t followed by what is left of a loop.
Prefixed(new, t, rest) ==
    /\ new = <<t>> \o rest /\ new[1] = t
    /\ \A j \in 1..Len(new) : j = 1 \/ (j = Len(new) /\ Len(rest) = 1 /\ new[j] = rest[1])
    /\ \A q : Among(q, new) <=> q \in Holds(t) \/ Among(q, rest)

LEMMA PutBefore ==
    ASSUME NEW t \in Tasks, NEW rest \in Seq(Tasks), Len(rest) \in {0, 1}
    PROVE  \E new \in Seq(Tasks) : Prefixed(new, t, rest)
<1>1. PICK new \in Seq(Tasks) : new = <<t>> \o rest
  <2>1. <<t>> \o rest \in Seq(Tasks)
    BY SMT
  <2> QED
    BY <2>1, Zenon
<1>2. Len(new) = Len(rest) + 1 /\ new[1] = t
  BY <1>1, SMT
<1>3. Len(rest) = 1 => new[2] = rest[1]
  BY <1>1, SMT
<1>4. \A j \in 1..Len(new) : j = 1 \/ (j = Len(new) /\ Len(rest) = 1 /\ new[j] = rest[1])
  <2>1. CASE Len(rest) = 0
    BY <1>2, <2>1, SMT
  <2>2. CASE Len(rest) = 1
    <3>1. Len(new) = 2 /\ \A j \in 1..2 : j = 1 \/ j = 2
      BY <1>2, <2>2, SMT
    <3> QED
      BY <1>3, <2>2, <3>1
  <2> QED
    BY <2>1, <2>2
<1>5. \A q : Among(q, new) <=> q \in Holds(t) \/ Among(q, rest)
  <2>1. CASE Len(rest) = 0
    <3>1. \A j : (j \in 1..Len(new) <=> j = 1) /\ j \notin 1..Len(rest)
      BY <1>2, <2>1, SMT
    <3> QED
      BY <1>2, <3>1, Zenon DEF Among
  <2>2. CASE Len(rest) = 1
    <3>1. \A j : (j \in 1..Len(new) <=> j = 1 \/ j = 2) /\ (j \in 1..Len(rest) <=> j = 1)
      BY <1>2, <2>2, SMT
    <3> QED
      BY <1>2, <1>3, <2>2, <3>1, Zenon DEF Among
  <2> QED
    BY <2>1, <2>2
<1> QED
  BY <1>1, <1>2, <1>4, <1>5, Zenon DEF Prefixed

LEMMA SmallLengths == \A n \in Nat : (1 = n - 1 => n = 2) /\ (n # 0 /\ n # 1 => n > 1)
BY SMT

LEMMA GoesHead ==
    ASSUME DelegationInv, SweepGoes
    PROVE  /\ todo # <<>> /\ Len(todo) \in Nat \ {0} /\ Head(todo) = todo[1] /\ Head(todo) \in GoodTasks
           /\ Head(todo).op \in {"expired", "orphans", "cancel", "status"}
           /\ Head(todo).op = "expired" <=> Len(todo) = 1
           /\ Head(todo).op = "orphans" => Len(todo) = 2
           /\ Head(todo).op = "status" => session[Head(todo).session] = "archived"
           /\ SweptAreNoOrphans
<1>0. PICK n \in Nat : n = Len(todo)
  BY SMT DEF DelegationInv, Types
<1>1. todo # <<>> /\ n > 0
  BY <1>0, SMT DEF SweepGoes
<1>2. PICK h \in GoodTasks : h = Head(todo) /\ h = todo[1]
  BY <1>1, HeadTask, HeadOp
<1>3. CASE n = 1
  BY <1>0, <1>1, <1>2, <1>3, SMT DEF SweepGoes, SweptAreNoOrphans
<1>4. CASE n # 1
  <2>1. 1 \in 1..(n - 1)
    BY <1>0, <1>1, <1>4, SMT
  <2>2. /\ h.op \in {"orphans", "cancel", "status"}
        /\ h.op = "orphans" => 1 = n - 1
        /\ h.op = "status" => session[h.session] = "archived"
    BY <1>0, <1>2, <2>1 DEF SweepGoes
  <2>3. 1 = n - 1 => n = 2
    BY SmallLengths
  <2>4. SweptAreNoOrphans
    BY DEF SweepGoes, SweptAreNoOrphans
  <2>5. h.op # "expired"
    BY <2>2
  <2> QED
    BY <1>0, <1>1, <1>2, <1>4, <2>2, <2>3, <2>4, <2>5, SMT
<1> QED
  BY <1>3, <1>4

(* cleanup_orphaned_delegated_sessions goes on to the next session: one with  *)
(* an active parent, which comes first and is done with, is left alone.       *)
LEMMA OrphanNextSweeps ==
    ASSUME DelegationInv, SweepGoes, OrphanNext
    PROVE  SweepGoes'
<1>1. /\ todo # <<>> /\ Len(todo) = 2 /\ Head(todo) = todo[1] /\ Head(todo) \in GoodTasks
      /\ Head(todo).op = "orphans" /\ SweptAreNoOrphans
  BY GoesHead DEF OrphanNext, At
<1>2. PICK r \in Runs :
        /\ InOrder(r, Head(todo).of)
        /\ Then(Cancelling(IF session[Request[r].parent] = "active" THEN {} ELSE {r},
                           IF session[Request[r].parent] = "archived" THEN "cancelled"
                           ELSE "expired") \o Rest(r))
  BY DEF OrphanNext
<1>3. session' = session /\ run' = run
  BY DEF OrphanNext
<1>4. PICK of : of = Head(todo).of
  OBVIOUS
<1>5. r \in of /\ Request[r].parent \notin of
  BY <1>2, <1>4 DEF InOrder
<1>6. \A q : Ahead(q) <=> q \in of
  <2>1. \A q : ~Later(q)
    BY <1>1, SMT DEF Later
  <2>2. Holds(todo[1]) = of
    BY <1>1, <1>4 DEF Holds
  <2>3. Len(todo) > 1
    BY <1>1, SMT
  <2> QED
    BY <1>1, <2>1, <2>2, <2>3, AheadIs
<1>7. PICK rest \in Seq(Tasks) :
        /\ rest = Rest(r) /\ Len(rest) \in {0, 1}
        /\ \A j \in 1..Len(rest) : rest[j].op = "orphans"
        /\ \A q : Among(q, rest) <=> q \in of \ {r}
  BY <1>1, <1>4, RestIs
<1>8. \A new \in Seq(Tasks) : Then(new) => \A q : Ahead(q)' <=> Among(q, new)
  <2>1. \A q : ~Later(q)
    BY <1>1, SMT DEF Later
  <2>2. Len(todo) > 1
    BY <1>1, SMT
  <2> QED
    BY <1>1, <2>1, <2>2, AheadThen
<1>9. CASE session[Request[r].parent] = "active"
  <2>1. Then(rest)
    <3>1. <<>> \o rest = rest
      BY SMT
    <3> QED
      BY <1>2, <1>7, <1>9, <3>1 DEF Cancelling
  <2>2. \A q : Ahead(q)' <=> q \in of \ {r}
    BY <1>7, <1>8, <2>1
  <2>3. SweptAreNoOrphans'
    <3>1. \A q \in Runs : Ahead(q) /\ ~Ahead(q)' => q = r
      BY <1>6, <2>2
    <3>2. session'[Request[r].parent] = "active" /\ ~Ahead(Request[r].parent)'
      BY <1>3, <1>5, <1>9, <2>2
    <3>3. \A q \in Runs : Ahead(q) /\ ~Ahead(q)' =>
              session'[Request[q].parent] = "active" /\ ~Ahead(Request[q].parent)'
      BY <3>1, <3>2
    <3> QED
      BY <1>1, <1>3, <1>6, <2>2, <3>3, SweptKept
  <2>4. \A j \in 1..Len(rest) : SweepEntry(rest[j], session', Len(todo) = 2 /\ j = Len(rest))
    BY <1>1, <1>7, SMT DEF SweepEntry
  <2> QED
    BY <1>1, <1>3, <2>1, <2>3, <2>4, GoesThen, SMT
<1>10. CASE session[Request[r].parent] # "active"
  <2>1. PICK st \in Stopped : Then(Cancelling({r}, st) \o rest)
    BY <1>2, <1>7, <1>10 DEF Stopped
  <2>2. PICK t : t = Task("cancel", Root, st, {r})
    OBVIOUS
  <2>3. t \in Tasks /\ t.op = "cancel" /\ Holds(t) = {r}
    BY <2>2 DEF Task, Tasks, Holds, Operations, Sessions, RunStatuses, Stopped, Terminal
  <2>4. PICK new \in Seq(Tasks) : Prefixed(new, t, rest)
    BY <1>7, <2>3, PutBefore
  <2>5. Then(new)
    BY <2>1, <2>2, <2>4 DEF Cancelling, Prefixed
  <2>6. \A q : Ahead(q)' <=> q \in of
    BY <1>5, <1>7, <1>8, <2>3, <2>4, <2>5 DEF Prefixed
  <2>7. SweptAreNoOrphans'
    BY <1>1, <1>3, <1>6, <2>6, SweptKept
  <2>8. \A j \in 1..Len(new) : SweepEntry(new[j], session', Len(todo) = 2 /\ j = Len(new))
    <3>1. Len(rest) = 1 => rest[1].op = "orphans"
      BY <1>7, SMT
    <3> QED
      BY <1>1, <2>3, <2>4, <3>1, Zenon DEF SweepEntry, Prefixed
  <2> QED
    BY <1>1, <1>3, <2>5, <2>7, <2>8, GoesThen, SMT
<1> QED
  BY <1>9, <1>10

(* archive_delegated_session_if_nonterminal, for an orphan: it has ended, or  *)
(* its session is archived now and its run is marked next.                    *)
LEMMA CancelNextSweeps ==
    ASSUME DelegationInv, SweepGoes, CancelNext
    PROVE  SweepGoes'
<1>1. /\ todo # <<>> /\ Len(todo) > 1 /\ Head(todo) = todo[1] /\ Head(todo) \in GoodTasks
      /\ Head(todo).op = "cancel" /\ SweptAreNoOrphans
  BY GoesHead, SMT DEF CancelNext, At
<1>2. PICK of \in SUBSET Runs : of = Head(todo).of
  BY <1>1 DEF GoodTasks
<1>3. PICK r \in of :
        IF Ended(r) THEN Then(Rest(r)) /\ UNCHANGED <<session, saved>>
        ELSE Archived(r) /\ Then(<<Task("status", r, Head(todo).status, {})>> \o Rest(r))
  BY <1>2 DEF CancelNext
<1>4. run' = run /\ r \in Runs /\ r \in Sessions
  BY DEF CancelNext, Sessions
<1>5. \A q : Ahead(q) <=> q \in of \/ Later(q)
  <2>1. Holds(todo[1]) = of
    BY <1>1, <1>2 DEF Holds
  <2> QED
    BY <1>1, <2>1, AheadIs
<1>6. PICK rest \in Seq(Tasks) :
        /\ rest = Rest(r) /\ Len(rest) \in {0, 1}
        /\ \A j \in 1..Len(rest) : rest[j].op = "cancel"
        /\ \A q : Among(q, rest) <=> q \in of \ {r}
  BY <1>1, <1>2, RestIs
<1>7. CASE Ended(r)
  <2>1. Then(rest) /\ session' = session
    BY <1>3, <1>6, <1>7
  <2>2. \A q : Ahead(q)' <=> q \in of \ {r} \/ Later(q)
    BY <1>1, <1>6, <2>1, AheadThen
  <2>3. SweptAreNoOrphans'
    <3>1. \A q \in Runs : Ahead(q) /\ ~Ahead(q)' => q = r
      BY <1>5, <2>2
    <3>2. Ended(r)'
      BY <1>4, <1>7 DEF Ended
    <3>3. \A q \in Runs : Ahead(q) /\ ~Ahead(q)' => Ended(q)'
      BY <3>1, <3>2
    <3> QED
      BY <1>1, <1>4, <1>5, <2>1, <2>2, <3>3, SweptKept
  <2>4. \A j \in 1..Len(rest) : SweepEntry(rest[j], session', Len(todo) = 2 /\ j = Len(rest))
    BY <1>6 DEF SweepEntry
  <2> QED
    BY <1>1, <2>1, <2>3, <2>4, GoesThen
<1>8. CASE ~Ended(r)
  <2>1. PICK t : t = Task("status", r, Head(todo).status, {})
    OBVIOUS
  <2>2. t \in Tasks /\ t.op = "status" /\ t.session = r /\ Holds(t) = {r}
    <3>1. Head(todo).status \in RunStatuses
      BY <1>1 DEF GoodTasks, Tasks
    <3> QED
      BY <1>4, <2>1, <3>1 DEF Task, Tasks, Holds, Operations
  <2>3. session' = [session EXCEPT ![r] = "archived"] /\ Then(<<t>> \o rest)
    BY <1>3, <1>6, <1>8, <2>1 DEF Archived
  <2>4. session'[r] = "archived" /\ \A s \in Sessions : s # r => session'[s] = session[s]
    BY <1>4, <2>3 DEF DelegationInv, Types
  <2>5. PICK new \in Seq(Tasks) : Prefixed(new, t, rest)
    BY <1>6, <2>2, PutBefore
  <2>6. Then(new)
    BY <2>3, <2>5 DEF Prefixed
  <2>7. \A q : Ahead(q)' <=> q \in of \/ Later(q)
    <3>1. \A q : Ahead(q)' <=> Among(q, new) \/ Later(q)
      BY <1>1, <2>6, AheadThen
    <3> QED
      BY <1>6, <2>2, <2>5, <3>1 DEF Prefixed
  <2>8. SweptAreNoOrphans'
    <3>1. \A s \in Sessions : ~Ahead(s) => session'[s] = session[s]
      BY <1>5, <2>4
    <3> QED
      BY <1>1, <1>4, <1>5, <2>7, <3>1, SweptKept
  <2>9. \A j \in 1..Len(new) : SweepEntry(new[j], session', Len(todo) = 2 /\ j = Len(new))
    <3>1. Len(rest) = 1 => rest[1].op = "cancel"
      BY <1>6, SMT
    <3> QED
      BY <2>2, <2>4, <2>5, <3>1, Zenon DEF SweepEntry, Prefixed
  <2>10. \A s \in Sessions : session[s] = "archived" => session'[s] = "archived"
    BY <2>4
  <2> QED
    BY <1>1, <2>6, <2>8, <2>9, <2>10, GoesThen
<1> QED
  BY <1>7, <1>8

LEMMA SetStatusSweeps ==
    ASSUME DelegationInv, SweepGoes, SetStatus
    PROVE  SweepGoes'
<1>1. /\ todo # <<>> /\ Len(todo) > 1 /\ Head(todo) = todo[1] /\ Head(todo) \in GoodTasks
      /\ Head(todo).op = "status" /\ SweptAreNoOrphans
      /\ session[Head(todo).session] = "archived"
  <2>1. Head(todo).op = "status"
    BY DEF SetStatus, At
  <2>2. Len(todo) \in Nat \ {0} /\ Len(todo) # 1
    BY <2>1, GoesHead
  <2>3. Len(todo) > 1
    BY <2>2, SmallLengths
  <2> QED
    BY <2>1, <2>3, GoesHead, Zenon
<1>2. PICK r \in Runs : r = Head(todo).session
  BY <1>1 DEF GoodTasks, OfRuns
<1>3. PICK new \in Seq(Tasks) : new = <<>> /\ Len(new) = 0
  <2>1. <<>> \in Seq(Tasks) /\ Len(<<>>) = 0
    BY SMT
  <2> QED
    BY <2>1, Zenon
<1>4. Then(new) /\ session' = session /\ StatusSet(r, Head(todo).status)
  BY <1>2, <1>3 DEF SetStatus
<1>5. \A q \in Runs : q # r => run'[q] = run[q]
  BY <1>4 DEF StatusSet, DelegationInv, Types
<1>6. \A q : Ahead(q) <=> q = r \/ Later(q)
  <2>1. Holds(todo[1]) = {r}
    BY <1>1, <1>2 DEF Holds
  <2> QED
    BY <1>1, <2>1, AheadIs
<1>7. \A q : Ahead(q)' <=> Later(q)
  <2>1. \A q : ~Among(q, new)
    BY <1>3, SMT DEF Among
  <2> QED
    BY <1>1, <1>4, <2>1, AheadThen
<1>8. SweptAreNoOrphans'
  <2>1. \A q \in Runs : Ahead(q) /\ ~Ahead(q)' => session'[q] # "active"
    BY <1>1, <1>2, <1>4, <1>6, <1>7
  <2> QED
    BY <1>1, <1>4, <1>5, <1>6, <1>7, <2>1, SweptKept
<1>9. \A j \in 1..Len(new) : SweepEntry(new[j], session', Len(todo) = 2 /\ j = Len(new))
  BY <1>3, SMT
<1> QED
  BY <1>1, <1>4, <1>8, <1>9, GoesThen

LEMMA GoesStep ==
    ASSUME DelegationInv, SweepGoes, Step
    PROVE  SweepGoes' \/ NoSweep'
<1>1. /\ todo # <<>> /\ Head(todo).op \in {"expired", "orphans", "cancel", "status"}
      /\ Head(todo).op = "expired" => Len(todo) = 1
  BY GoesHead
<1>2. CASE Expired
  <2>1. Len(todo) = 1
    BY <1>1, <1>2 DEF Expired, At
  <2>2. PICK new \in Seq(OtherTasks) : Then(new)
    <3>1. Runs \cap Active \cap overdue \in SUBSET Runs /\ "expired" \in Stopped
      BY DEF Stopped
    <3>2. Cancelling(Runs \cap Active \cap overdue, "expired") \in Seq(OtherTasks)
      BY <3>1, OtherCancelling
    <3> QED
      BY <1>2, <3>2 DEF Expired
  <2>3. PICK k \in Nat : k = Len(new)
    BY SMT
  <2>4. Len(todo') = k + 1 - 1 /\ \A j \in 1..k : todo'[j] = new[j]
    BY <1>1, <2>1, <2>2, <2>3, ThenAt, SMT DEF Then
  <2>5. \A j \in 1..k : new[j].op # "expired"
    <3>1. \A j \in 1..k : new[j] \in OtherTasks
      BY <2>3, SMT
    <3> QED
      BY <3>1 DEF OtherTasks
  <2>6. Len(todo') = k
    BY <2>3, <2>4, SMT
  <2> QED
    BY <2>4, <2>5, <2>6 DEF NoSweep
<1>3. CASE OrphanNext \/ CancelNext \/ SetStatus
  BY <1>3, OrphanNextSweeps, CancelNextSweeps, SetStatusSweeps
<1> QED
  BY <1>1, <1>2, <1>3 DEF Step, Spawn, ClaimItem, Open, SaveSession,
     SavePacket, SetOutcome, ReleaseLease, ApplyFailurePolicy, Conclude, Archive,
     Finished, CloseNext, Orphaned, ShutdownNext, At

(* A call begins: only a start and a clean-up have a sweep.                   *)
LEMMA BeginsNoSweep ==
    ASSUME NEW new \in Seq(OtherTasks), todo' = new
    PROVE  NoSweep'
<1>1. \A j \in 1..Len(new) : new[j] \in OtherTasks
  BY SMT
<1> QED
  BY <1>1 DEF NoSweep, OtherTasks

LEMMA SubmitNoSweep ==
    ASSUME NEW s \in Sessions, NEW batch \in Seq(Runs), NEW o \in Outcomes \cup {"none"},
           Submit(s, batch, o)
    PROVE  NoSweep'
<1> DEFINE spawns == [k \in DOMAIN batch |-> Task("spawn", batch[k], "none", {})]
           last == IF o = "none" THEN <<>> ELSE <<Task("packet", s, o, {})>>
<1>1. spawns \in Seq(OtherTasks)
  <2>1. \A r \in Runs : Task("spawn", r, "none", {}) \in OtherTasks
    BY DEF Task, OtherTasks, Tasks, Operations, Sessions, RunStatuses
  <2>2. spawns \in [1..Len(batch) -> OtherTasks] /\ Len(batch) \in Nat
    BY <2>1, SMT
  <2> QED
    BY <2>2, SMT
<1>2. last \in Seq(OtherTasks)
  <2>1. o # "none" => Task("packet", s, o, {}) \in OtherTasks
    BY DelegationAssumption
       DEF DelegationAssumption, Task, OtherTasks, Tasks, Operations, RunStatuses, Terminal
  <2> QED
    BY <2>1, SMT
<1>3. todo' = spawns \o last
  BY DEF Submit
<1> HIDE DEF spawns, last
<1>4. spawns \o last \in Seq(OtherTasks)
  BY <1>1, <1>2, SMT
<1> QED
  BY <1>3, <1>4, BeginsNoSweep

LEMMA CleanupWaits ==
    ASSUME \/ todo' = <<Task("finished", Root, "none", {}), Task("orphaned", Root, "none", {}),
                        Task("expired", Root, "none", {})>>
           \/ todo' = <<Task("orphaned", Root, "none", {}), Task("expired", Root, "none", {})>>
    PROVE  SweepWaits'
<1>1. \A op : Task(op, Root, "none", {}).op = op
  BY DEF Task
<1>2. PICK a, b, c : /\ a = Task("finished", Root, "none", {}) /\ a.op = "finished"
                     /\ b = Task("orphaned", Root, "none", {}) /\ b.op = "orphaned"
                     /\ c = Task("expired", Root, "none", {}) /\ c.op = "expired"
  BY <1>1, Zenon
<1>3. CASE todo' = <<a, b, c>>
  <2>1. Len(todo') = 3 /\ todo'[1] = a /\ todo'[2] = b /\ todo'[3] = c
    BY <1>3
  <2>2. \A j \in 1..(3 - 2) : j = 1
    BY SMT
  <2> QED
    BY <1>2, <2>1, <2>2, SMT DEF SweepWaits
<1>4. CASE todo' = <<b, c>>
  <2>1. Len(todo') = 2 /\ todo'[1] = b /\ todo'[2] = c
    BY <1>4
  <2> QED
    BY <1>2, <2>1, SMT DEF SweepWaits
<1> QED
  BY <1>2, <1>3, <1>4, Zenon

LEMMA ControlsSweep ==
    ASSUME Controls
    PROVE  NoSweep' \/ SweepWaits'
<1>1. \A of \in SUBSET Runs : Cancelling(of, "cancelled") \in Seq(OtherTasks)
  <2>1. "cancelled" \in Stopped
    BY DEF Stopped
  <2> QED
    BY <2>1, OtherCancelling
<1>2. ASSUME NEW s \in Sessions
      PROVE  /\ <<Task("status", s, "checkpoint_waiting", {})>> \in Seq(OtherTasks)
             /\ <<Task("archive", s, "none", {})>> \in Seq(OtherTasks)
  <2>1. /\ {"status", "archive"} \subseteq Operations /\ {} \in SUBSET Sessions
        /\ {"checkpoint_waiting", "none"} \subseteq RunStatuses
    BY DEF Operations, RunStatuses
  <2> QED
    BY <2>1, OtherTask
<1>3. ASSUME NEW r \in Runs, RequestCheckpoint(r) \/ CancelDelegatedSession(r)
      PROVE  todo' \in Seq(OtherTasks)
  <2>1. {r} \in SUBSET Runs /\ r \in Sessions
    BY DEF Sessions
  <2> QED
    BY <1>1, <1>2, <1>3, <2>1 DEF RequestCheckpoint, CancelDelegatedSession, Begins
<1>4. ASSUME DrainDelegatedSessions(Runs) PROVE todo' \in Seq(OtherTasks)
  <2>1. Runs \cap Active \in SUBSET Runs
    OBVIOUS
  <2> QED
    BY <1>1, <1>4, <2>1 DEF DrainDelegatedSessions, Begins
<1>5. ASSUME NEW s \in Sessions, DrainDelegatedSessions(ChildrenOf(s)) \/ ArchiveSession(s)
      PROVE  todo' \in Seq(OtherTasks)
  <2>1. ChildrenOf(s) \cap Active \in SUBSET Runs
    BY DEF ChildrenOf
  <2> QED
    BY <1>1, <1>2, <1>5, <2>1 DEF DrainDelegatedSessions, ArchiveSession, Begins
<1>6. ASSUME CleanupDelegatedResources PROVE SweepWaits'
  BY <1>6, CleanupWaits DEF CleanupDelegatedResources, Begins
<1>7. ASSUME todo' \in Seq(OtherTasks) PROVE NoSweep'
  BY <1>7, BeginsNoSweep
<1> QED
  BY <1>3, <1>4, <1>5, <1>6, <1>7 DEF Controls

LEMMA SameSweep ==
    ASSUME SweepInv, UNCHANGED <<todo, session, run>>
    PROVE  SweepInv'
<1>1. \A q : Ahead(q)' <=> Ahead(q)
  BY DEF Ahead, Holds
<1> QED
  BY <1>1 DEF SweepInv, NoSweep, SweepWaits, SweepGoes, Ended

LEMMA SweepStep ==
    ASSUME DelegationInv, SweepInv, [Next]_vars
    PROVE  SweepInv'
<1>1. ASSUME Step PROVE SweepInv'
  BY <1>1, NoSweepStep, WaitsStep, GoesStep DEF SweepInv
<1>2. ASSUME NoSweep' PROVE SweepInv'
  BY <1>2 DEF SweepInv
<1>3. ASSUME todo' = <<>> PROVE SweepInv'
  BY <1>2, <1>3, NoSweepEmpty
<1>4. ASSUME Brains \/ Wakes PROVE SweepInv'
  <2>1. ASSUME NEW s \in Sessions, Started(s) \/ WakeEnds(s) \/ Wake(s) PROVE todo' = <<>>
    BY <2>1 DEF Started, WakeEnds, Wake, Ready
  <2>2. ASSUME NEW s \in Sessions, NEW batch \in Batches, Submit(s, batch, "none")
        PROVE  NoSweep'
    <3>1. batch \in Seq(Runs)
      BY DelegationAssumption DEF DelegationAssumption
    <3> QED
      BY <2>2, <3>1, SubmitNoSweep
  <2>3. ASSUME NEW r \in Runs, NEW o \in Outcomes, Submit(r, <<>>, o) PROVE NoSweep'
    <3>1. r \in Sessions /\ <<>> \in Seq(Runs)
      BY SMT DEF Sessions
    <3> QED
      BY <2>3, <3>1, SubmitNoSweep
  <2> QED
    BY <1>2, <1>3, <1>4, <2>1, <2>2, <2>3 DEF Brains, Wakes
<1>5. ASSUME Controls PROVE SweepInv'
  BY <1>5, ControlsSweep DEF SweepInv
<1>6. ASSUME Shutdown PROVE SweepInv'
  <2>1. /\ <<>> \in Seq(OtherTasks)
        /\ <<Task("shutdown", Root, "none", Active)>> \in Seq(OtherTasks)
    <3>1. /\ Active \in SUBSET Sessions /\ "shutdown" \in Operations /\ "none" \in RunStatuses
          /\ Root \in Sessions
      BY DEF Active, Operations, RunStatuses, Sessions
    <3> QED
      BY <3>1, OtherTask, SMT
  <2>2. todo' \in Seq(OtherTasks)
    BY <1>6, <2>1 DEF Shutdown, Begins
  <2> QED
    BY <1>2, <2>2, BeginsNoSweep
<1>7. ASSUME Boot PROVE SweepInv'
  BY <1>7, CleanupWaits DEF Boot, SweepInv
<1>8. ASSUME Gone \/ (StoreFails /\ ~Gone) PROVE SweepInv'
  BY <1>3, <1>8 DEF Gone, StoreFails, Fails
<1>9. ASSUME EnsureConfigured \/ Booted \/ PoolCalls \/ \E m \in Members : Register(m)
      PROVE  SweepInv'
  <2>1. todo' = <<>>
    BY <1>9 DEF EnsureConfigured, Booted, PoolCalls, Register, Ready, engineVars
  <2> QED
    BY <1>3, <2>1
<1>10. ASSUME (\E r \in Runs : DurationPasses(r)) \/ UNCHANGED vars PROVE SweepInv'
  <2>1. UNCHANGED <<todo, session, run>>
    BY <1>10 DEF DurationPasses, vars, engineVars
  <2> QED
    BY <2>1, SameSweep
<1> QED
  BY <1>1, <1>4, <1>5, <1>6, <1>7, <1>8, <1>9, <1>10
     DEF Next, Work, Outside, Fault, Closed, Crash

(* cleanup_orphaned_delegated_sessions is complete, for any tree of           *)
(* delegations: when a start of the engine or a clean-up goes on to the       *)
(* expiry of sessions, no delegated session with work to do has a parent that *)
(* is archived or unknown, although the sweep archives parents as it goes and *)
(* looks at every session once.  That all_sessions lists a parent before its  *)
(* children (InOrder) is what makes one pass enough.                          *)
THEOREM SweepIsComplete == Spec => []SweepLeavesNoOrphan
<1>1. Init => SweepInv
  BY SMT DEF Init, SweepInv, NoSweep
<1>2. DelegationInv /\ SweepInv /\ [Next]_vars => SweepInv'
  BY SweepStep
<1>3. DelegationInv /\ SweepInv => SweepLeavesNoOrphan
  <2> SUFFICES ASSUME DelegationInv, SweepInv, At("expired"),
                      NEW r \in Runs, session[r] = "active", ~Ended(r)
               PROVE  session[Request[r].parent] = "active"
    BY DEF SweepLeavesNoOrphan
  <2>1. PICK n \in Nat \ {0} : n = Len(todo)
    BY HeadOp DEF At
  <2>2. todo[1].op = "expired"
    BY HeadOp DEF At
  <2>3. ~NoSweep
    <3>1. 1 \in 1..n
      BY <2>1, SMT
    <3> QED
      BY <2>1, <2>2, <3>1 DEF NoSweep
  <2>4. ~SweepWaits
    <3>1. n > 1 => 1 = n - 1 \/ 1 \in 1..(n - 2)
      BY <2>1, SMT
    <3> QED
      BY <2>1, <2>2, <3>1 DEF SweepWaits
  <2>5. SweepGoes
    BY <2>3, <2>4 DEF SweepInv
  <2>6. Len(todo) = 1
    BY <2>2, <2>5, GoesHead
  <2>7. ~Ahead(r)
    BY <2>6, SMT DEF Ahead
  <2> QED
    BY <2>5, <2>7 DEF SweepGoes
<1> QED
  BY <1>1, <1>2, <1>3, InitialDelegation, DelegationStep, PTL DEF Spec
=============================================================================
