----------------------------- MODULE WorkerPool -----------------------------
(* The worker pool of the store (core-persistence/src/sqlite_worker_pool.rs): *)
(* members with a limited number of slots, work items, and the leases under   *)
(* which members hold items.  An action is one transaction; one that the code *)
(* refuses changes nothing and is disabled.                                   *)
(* No code moves an item to running, and none is created but pending.         *)
(*                                                                            *)
(* A delegation names its work item, its lease and its claim token after its  *)
(* run, so all three are members of Runs here.  There is one profile.         *)
EXTENDS Naturals, Sequences, FiniteSets

CONSTANTS
    Members,        \* members that may register
    Runs,           \* names of work items, leases and claim tokens
    None,           \* no name
    Limit           \* concurrency_limit of each member

ASSUME PoolAssumption ==
    /\ IsFiniteSet(Runs)
    /\ None \notin Runs \cup Members
    /\ Limit \in [Members -> Nat]

VARIABLES
    member,         \* worker_pool_members
    item,           \* worker_pool_work_items
    created,        \* the items in the order of their creation
    lease           \* worker_pool_leases

poolVars == <<member, item, created, lease>>

\* The terminal statuses of work items; worker runs have the same.
Terminal == {"completed", "failed", "blocked", "exhausted", "cancelled", "expired"}

\* "offline" stands for every status under which a member claims nothing:
\* offline, quarantined and retired.
MemberStatuses == {"available", "busy", "offline"}

CanClaim == {"available", "busy"}

NoItem == [status |-> "none", member |-> None, lease |-> None, token |-> None]

NoLease == [status |-> "none", member |-> None, item |-> None, token |-> None]

MemberRecords == [status : MemberStatuses \cup {"none"}, active : Nat]

ItemRecords == [status : Terminal \cup {"none", "pending", "claimed"},
                member : Members \cup {None}, lease : Runs \cup {None},
                token : Runs \cup {None}]

LeaseRecords == [status : Terminal \cup {"none", "active"}, member : Members \cup {None},
                 item : Runs \cup {None}, token : Runs \cup {None}]

PoolTypeOK ==
    /\ member \in [Members -> MemberRecords]
    /\ item \in [Runs -> ItemRecords]
    /\ created \in Seq(Runs)
    /\ lease \in [Runs -> LeaseRecords]

PoolInit ==
    /\ member = [m \in Members |-> [status |-> "none", active |-> 0]]
    /\ item = [i \in Runs |-> NoItem]
    /\ created = <<>>
    /\ lease = [l \in Runs |-> NoLease]

-----------------------------------------------------------------------------
(* A member registers, once, with all its slots free.                         *)
UpsertMember(m) ==
    /\ member[m].status = "none"
    /\ member' = [member EXCEPT ![m].status = "available"]
    /\ UNCHANGED <<item, created, lease>>

(* A heartbeat sets the status to whatever the member reports.                *)
Heartbeat(m, s) ==
    /\ member[m].status # "none"
    /\ member' = [member EXCEPT ![m].status = s]
    /\ UNCHANGED <<item, created, lease>>

(* The primary key refuses a second item of the same name.                    *)
CreateItem(i) ==
    /\ item[i].status = "none"
    /\ item' = [item EXCEPT ![i].status = "pending"]
    /\ created' = Append(created, i)
    /\ UNCHANGED <<member, lease>>

-----------------------------------------------------------------------------
(* Claims.                                                                    *)
MutantHasSlotOffByOne(m) == member[m].status \in CanClaim /\ member[m].active <= Limit[m]

HasSlot(m) == member[m].status \in CanClaim /\ member[m].active < Limit[m]

Pending == {k \in DOMAIN created : item[created[k]].status = "pending"}

(* What a claim of item i by m under lease l writes, in one transaction.      *)
Claim(m, l, t, i) ==
    /\ HasSlot(m)
    /\ item[i].status = "pending"
    /\ lease[l].status = "none"
    /\ item' = [item EXCEPT ![i] =
                  [status |-> "claimed", member |-> m, lease |-> l, token |-> t]]
    /\ lease' = [lease EXCEPT ![l] =
                  [status |-> "active", member |-> m, item |-> i, token |-> t]]
    /\ LET active == member[m].active + 1
           status == IF active >= Limit[m] THEN "busy" ELSE member[m].status
       IN member' = [member EXCEPT ![m] = [status |-> status, active |-> active]]
    /\ UNCHANGED created

(* The oldest pending item: ORDER BY priority, created_at with one priority.  *)
ClaimNext(m, l, t) ==
    \E k \in Pending : (\A j \in Pending : k <= j) /\ Claim(m, l, t, created[k])

(* release_worker_pool_member_lease, once for each item of ended: a member    *)
(* that is not out of service becomes available.                              *)
Released(ended) ==
    [m \in Members |->
        LET n == Cardinality({i \in ended : item[i].member = m}) IN
        IF n = 0 THEN member[m]
        ELSE [status |-> IF member[m].status \in CanClaim THEN "available" ELSE member[m].status,
              active |-> IF member[m].active > n THEN member[m].active - n ELSE 0]]

(* A completion presents a lease and its token, and counts while the lease is *)
(* active and the item is held under it.                                      *)
CanComplete(l, t) ==
    /\ lease[l].status = "active"
    /\ lease[l].token = t
    /\ LET i == item[lease[l].item] IN
       i.status = "claimed" /\ i.lease = l /\ i.token = t

Complete(l, t, s) ==
    /\ CanComplete(l, t)
    /\ item' = [item EXCEPT ![lease[l].item].status = s]
    /\ lease' = [lease EXCEPT ![l].status = s]
    /\ member' = Released({lease[l].item})
    /\ UNCHANGED created

MutantLeasesStayActive(stale) == lease

(* The leases of the expired items.                                           *)
LeasesExpired(stale) ==
    [l \in Runs |-> IF lease[l].status = "active" /\ \E i \in stale : item[i].lease = l
                    THEN [lease[l] EXCEPT !.status = "expired"] ELSE lease[l]]

(* Expiry of the claims whose deadline lies before a time the caller chooses. *)
ExpireClaims(stale) ==
    /\ stale # {}
    /\ \A i \in stale : item[i].status = "claimed"
    /\ item' = [i \in Runs |-> IF i \in stale THEN [item[i] EXCEPT !.status = "expired"]
                               ELSE item[i]]
    /\ lease' = LeasesExpired(stale)
    /\ member' = Released(stale)
    /\ UNCHANGED created

-----------------------------------------------------------------------------
PoolNext ==
    \/ \E m \in Members :
         \/ UpsertMember(m)
         \/ \E s \in MemberStatuses : Heartbeat(m, s)
         \/ \E l, t \in Runs : ClaimNext(m, l, t)
    \/ \E i \in Runs : CreateItem(i)
    \/ \E l, t \in Runs, s \in Terminal : Complete(l, t, s)
    \/ \E stale \in SUBSET Runs : ExpireClaims(stale)

PoolSpec == PoolInit /\ [][PoolNext]_poolVars

-----------------------------------------------------------------------------
(* Properties.                                                                *)

Held(m) == {i \in Runs : item[i].status = "claimed" /\ item[i].member = m}

(* A member is charged for exactly the items it holds, and never holds more   *)
(* than its limit, whatever claims, completions and expiries come in between  *)
(* and whatever status its heartbeats report: active_leases is a counter that *)
(* each of these transactions keeps by hand.                                  *)
SlotsCounted ==
    \A m \in Members :
        /\ member[m].active = Cardinality(Held(m))
        /\ member[m].active <= Limit[m]

(* An item and the lease it is held under end together and alike, and a lease *)
(* that has ended never frees or finishes an item again: an item is claimed   *)
(* exactly while the one lease it names is active, and shows the lease's end  *)
(* afterwards.                                                                *)
ClaimsAgree ==
    /\ \A l \in Runs : lease[l].status # "none" =>
         /\ lease[l].item \in Runs
         /\ item[lease[l].item].lease = l
         /\ item[lease[l].item].token = lease[l].token
         /\ item[lease[l].item].member = lease[l].member
         /\ item[lease[l].item].status =
              IF lease[l].status = "active" THEN "claimed" ELSE lease[l].status
    /\ \A i \in Runs : item[i].status \notin {"none", "pending"} =>
         item[i].lease \in Runs /\ lease[item[i].lease].item = i
=============================================================================
