---------------------------- MODULE SchedulerProofs ----------------------------
(* For every set of jobs and every bound: no instant of a schedule gets two *)
(* runs, and a host run is executed at most once.                           *)
EXTENDS Scheduler, TLAPS

USE Zenon

Calls ==
    [op: {"free", "tick", "claim", "manual", "register"}, by: {None, "heartbeat", "operator"},
     due: SUBSET Jobs, claimed: Seq(Nat), run: {None} \cup Nat]

Heartbeats == [running: BOOLEAN, executing: {None} \cup Nat, queue: Seq(Nat)]

Types ==
    /\ now \in 0..MaxTicks
    /\ jobs \in [Jobs -> JobRecords]
    /\ runs \in Seq(RunRecords)
    /\ core \in Calls
    /\ heartbeat \in Heartbeats
    /\ operator \in {None} \cup Nat
    /\ spent \in Nat

(* A job that a tick or a claim has found due stays so until its turn. *)
Ready(j) == jobs[j].status = "Active" /\ jobs[j].next # None /\ jobs[j].next <= now

(* DueRunsAdvance, and what it takes to keep it: the due runs of a job are  *)
(* for instants before its next due time.                                   *)
ScheduleInv ==
    /\ core.op \in {"tick", "claim"} => \A j \in core.due : Ready(j)
    /\ \A r \in DOMAIN runs :
        runs[r].trigger = "Due" =>
            /\ runs[r].tick \in 1..now
            /\ jobs[runs[r].job].next # None => runs[r].tick < jobs[runs[r].job].next
    /\ DueRunsAdvance

----------------------------------------------------------------------------
(* What a step does to a record of a run, or to the record of a job, keeps  *)
(* it a record.                                                             *)
LEMMA RecordsKept ==
    ASSUME NEW run \in RunRecords, NEW status \in Statuses
    PROVE  /\ Settled(run, status) \in RunRecords
           /\ [run EXCEPT !.late = TRUE] \in RunRecords
           /\ [run EXCEPT !.begunAs = status] \in RunRecords
           /\ Settled(run, status).job = run.job
           /\ Settled(run, status).trigger = run.trigger
           /\ Settled(run, status).tick = run.tick
           /\ Settled(run, status).begunAs = run.begunAs
           /\ Settled(run, status).status = status
  BY DEF RunRecords, Settled, Statuses

(* The table keeps its runs: only their status, lateness and beginning      *)
(* change.                                                                  *)
SameRuns(table) ==
    /\ table \in Seq(RunRecords)
    /\ DOMAIN table = DOMAIN runs
    /\ \A r \in DOMAIN runs :
        /\ table[r].job = runs[r].job
        /\ table[r].trigger = runs[r].trigger
        /\ table[r].tick = runs[r].tick

LEMMA ExpiryKeepsRuns ==
    ASSUME Types
    PROVE  /\ SameRuns(ExpireStale)
           /\ \A r \in DOMAIN runs : ExpireStale[r].begunAs = runs[r].begunAs
  <1>0. runs \in [1..Len(runs) -> RunRecords] /\ Len(runs) \in Nat
    BY SMT DEF Types
  <1>1. ExpireStale \in [1..Len(runs) -> RunRecords]
    <2>1. ASSUME NEW r \in 1..Len(runs)
          PROVE  Settled(runs[r], "Expired") \in RunRecords
      BY <1>0, RecordsKept DEF Statuses
    <2> QED  BY <1>0, <2>1 DEF ExpireStale
  <1>2. ExpireStale \in Seq(RunRecords) /\ DOMAIN ExpireStale = DOMAIN runs
    BY <1>0, <1>1, SMT
  <1>3. ASSUME NEW r \in DOMAIN runs
        PROVE  /\ ExpireStale[r].job = runs[r].job
               /\ ExpireStale[r].trigger = runs[r].trigger
               /\ ExpireStale[r].tick = runs[r].tick
               /\ ExpireStale[r].begunAs = runs[r].begunAs
    <2>1. runs[r] \in RunRecords
      BY SMT DEF Types
    <2> QED  BY <2>1, RecordsKept DEF ExpireStale, Statuses
  <1> QED  BY <1>2, <1>3 DEF SameRuns

LEMMA ChangeKeepsRuns ==
    ASSUME NEW table \in Seq(RunRecords), SameRuns(table), NEW x, NEW run \in RunRecords,
           x \in DOMAIN runs =>
               run.job = table[x].job /\ run.trigger = table[x].trigger /\ run.tick = table[x].tick
    PROVE  SameRuns([table EXCEPT ![x] = run])
  <1>0. table \in [1..Len(table) -> RunRecords] /\ Len(table) \in Nat
    BY SMT
  <1>1. [table EXCEPT ![x] = run] \in [1..Len(table) -> RunRecords]
    BY <1>0
  <1>2. [table EXCEPT ![x] = run] \in Seq(RunRecords)
    BY <1>0, <1>1, SMT
  <1> QED  BY <1>0, <1>2 DEF SameRuns

(* A step that keeps the runs, the jobs and the found due jobs, while the   *)
(* clock may advance, keeps the schedule.                                   *)
LEMMA ScheduleKept ==
    ASSUME Types, ScheduleInv, SameRuns(runs'), UNCHANGED jobs,
           now' \in Nat, now <= now',
           core'.op \in {"tick", "claim"} =>
               \A j \in core'.due : jobs[j].status = "Active" /\ jobs[j].next # None /\ jobs[j].next <= now'
    PROVE  ScheduleInv'
  <1>1. \A r \in DOMAIN runs : runs[r] \in RunRecords /\ runs'[r] \in RunRecords
    BY SMT DEF Types, SameRuns
  <1>2. (core.op \in {"tick", "claim"} => \A j \in core.due : Ready(j))'
    BY DEF Ready
  <1>3. ASSUME NEW r \in DOMAIN runs', runs'[r].trigger = "Due"
        PROVE  /\ runs'[r].tick \in 1..now'
               /\ jobs'[runs'[r].job].next # None => runs'[r].tick < jobs'[runs'[r].job].next
    BY <1>3, SMT DEF SameRuns, ScheduleInv, Types
  <1>4. DueRunsAdvance'
    BY SchedulerBounds, <1>1, SMT DEF SchedulerBounds, SameRuns, ScheduleInv, DueRunsAdvance, Types, RunRecords
  <1> QED  BY <1>2, <1>3, <1>4 DEF ScheduleInv

(* The transaction of a claim keeps the tables. *)
LEMMA ClaimTypes ==
    ASSUME Types, NEW j \in Jobs, NEW trigger \in {"Due", "Manual"},
           NEW begunAs \in {None} \cup Statuses, ClaimScheduledRun(j, trigger, begunAs)
    PROVE  /\ runs' \in Seq(RunRecords) /\ jobs' \in [Jobs -> JobRecords]
           /\ Len(runs') = Len(runs) + 1 /\ Len(runs) \in Nat
           /\ DOMAIN runs = 1..Len(runs) /\ DOMAIN runs' = 1..(Len(runs) + 1)
           /\ \A r \in DOMAIN runs : runs'[r] = runs[r]
           /\ runs'[Len(runs) + 1] = NewRun(j, trigger, begunAs)
  <1>1. jobs[j] \in JobRecords
    BY DEF Types
  <1>2. NewRun(j, trigger, begunAs) \in RunRecords
    BY <1>1 DEF NewRun, RunRecords, JobRecords, Statuses
  <1>3. NextDue(j) \in {None} \cup 1..(MaxTicks + 1)
    BY SchedulerBounds, SMT DEF SchedulerBounds, NextDue, Types
  <1>4. jobs' \in [Jobs -> JobRecords]
    BY <1>1, <1>3 DEF Types, ClaimScheduledRun, JobRecords
  <1>5. runs \in Seq(RunRecords) /\ runs' = Append(runs, NewRun(j, trigger, begunAs))
    BY DEF Types, ClaimScheduledRun
  <1>6. Len(runs) \in Nat /\ DOMAIN runs = 1..Len(runs)
    BY <1>5, SMT
  <1>7. runs' \in Seq(RunRecords) /\ Len(runs') = Len(runs) + 1
    BY <1>2, <1>5, SMT
  <1>8. DOMAIN runs' = 1..(Len(runs) + 1)
    BY <1>7, SMT
  <1>9. \A r \in 1..Len(runs) : runs'[r] = runs[r]
    BY <1>5, SMT
  <1>10. runs'[Len(runs) + 1] = NewRun(j, trigger, begunAs)
    BY <1>5, SMT
  <1> QED  BY <1>4, <1>6, <1>7, <1>8, <1>9, <1>10

(* A claim keeps the schedule: a due run is for the due time of its job,    *)
(* which no earlier run has, and moves it past now.                         *)
LEMMA ClaimKeepsSchedule ==
    ASSUME Types, ScheduleInv, NEW j \in Jobs, NEW trigger \in {"Due", "Manual"},
           NEW begunAs \in {None} \cup Statuses, ClaimScheduledRun(j, trigger, begunAs),
           UNCHANGED now, trigger = "Due" => Ready(j),
           core'.op \in {"tick", "claim"} =>
               core.op = core'.op /\ core'.due = core.due \ {j}
    PROVE  ScheduleInv'
  <1> DEFINE n == Len(runs) + 1
  <1>1. /\ runs' \in Seq(RunRecords) /\ jobs' \in [Jobs -> JobRecords]
        /\ n \in Nat /\ DOMAIN runs = 1..Len(runs) /\ DOMAIN runs' = 1..n
        /\ \A r \in DOMAIN runs : runs'[r] = runs[r]
        /\ runs'[n] = NewRun(j, trigger, begunAs)
    BY ClaimTypes, SMT
  <1>2. Len(runs) \in Nat /\ n \notin DOMAIN runs
    BY <1>1, SMT DEF Types
  <1>3. \A k \in Jobs : k # j => jobs'[k] = jobs[k]
    BY DEF ClaimScheduledRun, Types
  <1>4. trigger = "Manual" => jobs' = jobs
    BY DEF ClaimScheduledRun
  <1>5. trigger = "Due" => jobs[j].next \in 1..now /\ jobs'[j].next = NextDue(j)
    BY SchedulerBounds, SMT DEF SchedulerBounds, ClaimScheduledRun, Types, Ready, JobRecords
  <1>6. NextDue(j) # None => NextDue(j) = now + 1
    BY DEF NextDue
  <1>7. runs'[n].job = j /\ runs'[n].trigger = trigger
        /\ (trigger = "Due" => runs'[n].tick = jobs[j].next)
    BY <1>1, SMT DEF NewRun
  <1>8. \A r \in DOMAIN runs : runs[r].job \in Jobs
    <2>1. \A r \in DOMAIN runs : runs[r] \in RunRecords
      BY SMT DEF Types
    <2> QED  BY <2>1, SMT DEF RunRecords
  <1>9. \A k \in Jobs : jobs[k] \in JobRecords
    BY DEF Types
  <1>10. (core.op \in {"tick", "claim"} => \A k \in core.due : Ready(k))'
    BY <1>3, SMT DEF ScheduleInv, Ready, Types, Calls
  <1>11. ASSUME NEW r \in DOMAIN runs', runs'[r].trigger = "Due"
         PROVE  /\ runs'[r].tick \in 1..now'
                /\ jobs'[runs'[r].job].next # None => runs'[r].tick < jobs'[runs'[r].job].next
    <2>0. now \in Nat
      BY SchedulerBounds, SMT DEF SchedulerBounds, Types
    <2>1. CASE r = n
      BY <1>5, <1>6, <1>7, <1>11, <2>0, <2>1, SMT
    <2>2. CASE r \in DOMAIN runs
      <3>1. runs'[r] = runs[r] /\ runs[r].tick \in 1..now
            /\ (jobs[runs[r].job].next # None => runs[r].tick < jobs[runs[r].job].next)
        BY <1>1, <1>11, <2>2 DEF ScheduleInv
      <3>2. CASE runs[r].job = j /\ trigger = "Due"
        BY <1>5, <1>6, <2>0, <3>1, <3>2, SMT
      <3>3. CASE runs[r].job # j \/ trigger = "Manual"
        BY <1>3, <1>4, <1>8, <2>2, <3>1, <3>3
      <3> QED  BY <3>2, <3>3
    <2> QED  BY <1>1, <1>2, <2>1, <2>2, SMT
  <1>12. DueRunsAdvance'
    <2> SUFFICES ASSUME NEW r \in DOMAIN runs', NEW s \in DOMAIN runs', runs'[r].trigger = "Due"
                 PROVE  /\ runs'[r].tick <= now'
                        /\ r < s /\ runs'[s].trigger = "Due" /\ runs'[s].job = runs'[r].job
                             => runs'[r].tick < runs'[s].tick
      BY DEF DueRunsAdvance
    <2>1. runs'[r].tick <= now'
      BY <1>11, SchedulerBounds, SMT DEF SchedulerBounds, Types
    <2>2. ASSUME r < s, runs'[s].trigger = "Due", runs'[s].job = runs'[r].job
          PROVE  runs'[r].tick < runs'[s].tick
      <3>1. r \in DOMAIN runs
        BY <1>1, <1>2, <2>2, SMT
      <3>2. CASE s \in DOMAIN runs
        BY <1>1, <2>2, <3>1, <3>2 DEF ScheduleInv, DueRunsAdvance
      <3>3. CASE s = n
        <4>1. trigger = "Due" /\ runs[r].job = j /\ runs[r].trigger = "Due"
          BY <1>1, <1>7, <2>2, <3>1, <3>3
        <4>2. jobs[j].next # None /\ runs[r].tick < jobs[j].next
          BY <1>5, <3>1, <4>1 DEF ScheduleInv, Ready
        <4> QED  BY <1>1, <1>7, <3>1, <3>3, <4>1, <4>2
      <3> QED  BY <1>1, <1>2, <3>2, <3>3, SMT
    <2> QED  BY <2>1, <2>2
  <1> QED  BY <1>10, <1>11, <1>12 DEF ScheduleInv

----------------------------------------------------------------------------
(* The runs in a queue are runs that have not begun and are nobody else's.  *)
Waiting(queue, table, owner) ==
    \A i \in DOMAIN queue :
        /\ queue[i] \in DOMAIN table
        /\ table[queue[i]].begunAs = None
        /\ queue[i] # owner
        /\ \A k \in DOMAIN queue : k # i => queue[k] # queue[i]

(* RunExecutedOnce, and what it takes to keep it: the runs that a claim has *)
(* collected wait as well, and everything named is in the table.            *)
ExecutionInv ==
    /\ operator # None => operator \in DOMAIN runs
    /\ Waiting(core.claimed, runs, operator)
    /\ Waiting(heartbeat.queue, runs, operator)
    /\ RunExecutedOnce

LEMMA CallTyped ==
    ASSUME NEW op \in {"tick", "claim", "manual", "register"},
           NEW by \in {"heartbeat", "operator"}, NEW due \in SUBSET Jobs,
           NEW run \in {None} \cup Nat, Call(op, by, due, run)
    PROVE  /\ core' \in Calls /\ core'.op = op /\ core'.due = due /\ core'.claimed = <<>>
           /\ core'.by = by /\ core'.run = run
  <1>1. <<>> \in Seq(Nat)
    BY SMT
  <1> QED  BY <1>1 DEF Call, Calls

(* When the executor goes on to the next run, the others still wait.        *)
LEMMA ExecuteNextKeeps ==
    ASSUME Types, NEW table \in Seq(RunRecords), SameRuns(table), NEW queue \in Seq(Nat),
           Waiting(queue, table, operator), UNCHANGED operator, ExecuteNext(table, queue)
    PROVE  /\ SameRuns(runs') /\ core' \in Calls /\ heartbeat' \in Heartbeats
           /\ core'.op \notin {"tick", "claim"} /\ core'.claimed = <<>>
           /\ Waiting(heartbeat'.queue, runs', operator') /\ RunExecutedOnce'
  <1>1. CASE queue = <<>>
    <2>1. runs' = table /\ core' \in Calls /\ core'.op = "register" /\ core'.claimed = <<>>
      <3>1. runs' = table /\ Call("register", "heartbeat", Configured, None)
        BY <1>1 DEF ExecuteNext
      <3> QED  BY <3>1, CallTyped DEF Configured
    <2>2. heartbeat' \in Heartbeats /\ heartbeat'.queue = <<>>
      BY <1>1 DEF ExecuteNext, Types, Heartbeats
    <2> QED  BY <2>1, <2>2, SMT DEF Waiting, RunExecutedOnce
  <1>2. CASE queue # <<>>
    <2> DEFINE x == Head(queue)
    <2>1. /\ x = queue[1] /\ x \in Nat /\ 1 \in DOMAIN queue /\ Tail(queue) \in Seq(Nat)
          /\ Len(queue) \in Nat /\ DOMAIN queue = 1..Len(queue)
          /\ DOMAIN Tail(queue) = 1..(Len(queue) - 1)
          /\ \A i \in 1..(Len(queue) - 1) : Tail(queue)[i] = queue[i + 1]
      BY <1>2, SMT
    <2>2. /\ core' = Free /\ runs' = [table EXCEPT ![x].begunAs = table[x].status]
          /\ heartbeat' = [heartbeat EXCEPT !.executing = x, !.queue = Tail(queue)]
      BY <1>2 DEF ExecuteNext
    <2>3. core' \in Calls /\ core'.op = "free" /\ core'.claimed = <<>>
      BY <2>2, SMT DEF Free, Calls
    <2>4. /\ heartbeat' \in Heartbeats /\ heartbeat'.queue = Tail(queue)
          /\ heartbeat'.executing = x
      BY <2>1, <2>2 DEF Types, Heartbeats
    <2>5. x \in DOMAIN table /\ table[x] \in RunRecords
      BY <2>1, SMT DEF Waiting
    <2>6. PICK run : run = [table[x] EXCEPT !.begunAs = table[x].status]
      OBVIOUS
    <2>7. /\ run \in RunRecords /\ run.job = table[x].job
          /\ run.trigger = table[x].trigger /\ run.tick = table[x].tick
      BY <2>5, <2>6 DEF RunRecords
    <2>8. runs' = [table EXCEPT ![x] = run]
      BY <2>2, <2>6
    <2>9. SameRuns(runs')
      BY <2>7, <2>8, ChangeKeepsRuns
    <2>10. DOMAIN runs' = DOMAIN table /\ \A r \in DOMAIN table : r # x => runs'[r] = table[r]
      BY <2>8
    <2>11. ASSUME NEW i \in DOMAIN Tail(queue)
           PROVE  /\ Tail(queue)[i] \in DOMAIN runs'
                  /\ runs'[Tail(queue)[i]].begunAs = None
                  /\ Tail(queue)[i] # operator' /\ Tail(queue)[i] # x
                  /\ \A k \in DOMAIN Tail(queue) : k # i => Tail(queue)[k] # Tail(queue)[i]
      <3>1. i + 1 \in DOMAIN queue /\ i + 1 # 1 /\ Tail(queue)[i] = queue[i + 1]
        BY <2>1, <2>11, SMT
      <3>2. /\ queue[i + 1] \in DOMAIN table /\ table[queue[i + 1]].begunAs = None
            /\ queue[i + 1] # operator /\ queue[i + 1] # queue[1]
            /\ \A k \in DOMAIN queue : k # i + 1 => queue[k] # queue[i + 1]
        BY <2>1, <3>1 DEF Waiting
      <3>3. \A k \in DOMAIN Tail(queue) : k # i => Tail(queue)[k] # Tail(queue)[i]
        <4>1. \A k \in DOMAIN Tail(queue) :
                 k + 1 \in DOMAIN queue /\ Tail(queue)[k] = queue[k + 1]
          BY <2>1, SMT
        <4>2. \A k \in DOMAIN Tail(queue) : k # i => k + 1 # i + 1
          BY <2>1, <2>11, SMT
        <4> QED  BY <3>1, <3>2, <4>1, <4>2
      <3> QED  BY <2>1, <2>10, <3>1, <3>2, <3>3
    <2>12. Waiting(heartbeat'.queue, runs', operator')
      BY <2>4, <2>11 DEF Waiting
    <2>13. RunExecutedOnce'
      BY <2>4, <2>11 DEF RunExecutedOnce
    <2> QED  BY <2>3, <2>4, <2>9, <2>12, <2>13
  <1> QED  BY <1>1, <1>2

(* A step that begins no run keeps what waits, or drops it.                 *)
LEMMA ExecutionKept ==
    ASSUME Types, ExecutionInv, DOMAIN runs \subseteq DOMAIN runs',
           \A r \in DOMAIN runs : runs'[r].begunAs = runs[r].begunAs,
           operator' = operator \/ operator' = None,
           heartbeat'.queue = heartbeat.queue \/ heartbeat'.queue = <<>>,
           heartbeat'.executing = heartbeat.executing \/ heartbeat'.executing = None,
           core'.claimed = core.claimed \/ core'.claimed = <<>>
    PROVE  ExecutionInv'
  <1>1. operator' # None => operator' \in DOMAIN runs'
    BY DEF ExecutionInv
  <1>2. /\ heartbeat.queue \in Seq(Nat) /\ core.claimed \in Seq(Nat)
        /\ \A i \in DOMAIN heartbeat.queue : heartbeat.queue[i] \in Nat
        /\ \A i \in DOMAIN core.claimed : core.claimed[i] \in Nat
    BY SMT DEF Types, Heartbeats, Calls
  <1>3. None \notin Nat
    BY SchedulerBounds, SMT DEF SchedulerBounds
  <1>4. ASSUME NEW q, NEW q2, q2 = q \/ q2 = <<>>, \A i \in DOMAIN q : q[i] \in Nat,
               Waiting(q, runs, operator)
        PROVE  Waiting(q2, runs', operator')
    BY <1>3, <1>4, SMT DEF Waiting
  <1>5. Waiting(heartbeat'.queue, runs', operator')
    BY <1>2, <1>4 DEF ExecutionInv
  <1>6. Waiting(core'.claimed, runs', operator')
    BY <1>2, <1>4 DEF ExecutionInv
  <1>7. RunExecutedOnce'
    <2>1. CASE heartbeat'.queue = <<>>
      BY <2>1, SMT DEF RunExecutedOnce
    <2>2. CASE heartbeat'.queue = heartbeat.queue
      BY <1>2, <1>3, <1>5, <2>2, SMT DEF ExecutionInv, RunExecutedOnce, Waiting
    <2> QED  BY <2>1, <2>2
  <1> QED  BY <1>1, <1>5, <1>6, <1>7 DEF ExecutionInv

----------------------------------------------------------------------------
Inv == Types /\ ScheduleInv /\ ExecutionInv

LEMMA FreeFacts ==
    /\ Free \in Calls /\ Free.op = "free" /\ Free.claimed = <<>> /\ Free.due = {}
    /\ Idle \in Heartbeats /\ Idle.queue = <<>> /\ Idle.executing = None
    /\ [Idle EXCEPT !.running = TRUE] \in Heartbeats
    /\ [Idle EXCEPT !.running = TRUE].queue = <<>>
    /\ [Idle EXCEPT !.running = TRUE].executing = None
  <1>1. <<>> \in Seq(Nat)
    BY SMT
  <1> QED  BY <1>1 DEF Free, Calls, Idle, Heartbeats

LEMMA InvInit == Init => Inv
  <1> SUFFICES ASSUME Init  PROVE Inv
    OBVIOUS
  <1>1. Types
    <2>1. runs \in Seq(RunRecords) /\ spent \in Nat
      BY SMT DEF Init
    <2>2. now \in 0..MaxTicks /\ jobs \in [Jobs -> JobRecords]
      BY SchedulerBounds, SMT DEF SchedulerBounds, Init, JobRecords
    <2> QED  BY <2>1, <2>2, FreeFacts DEF Init, Types
  <1>2. ScheduleInv
    BY FreeFacts, SMT DEF Init, ScheduleInv, DueRunsAdvance
  <1>3. ExecutionInv
    BY FreeFacts, SMT DEF Init, ExecutionInv, Waiting, RunExecutedOnce
  <1> QED  BY <1>1, <1>2, <1>3 DEF Inv

(* The steps that leave the jobs alone and begin no run.                    *)
LEMMA QuietStep ==
    ASSUME Inv, UNCHANGED jobs, now' \in 0..MaxTicks, now <= now', SameRuns(runs'),
           \A r \in DOMAIN runs : runs'[r].begunAs = runs[r].begunAs,
           core' \in Calls, heartbeat' \in Heartbeats, spent' \in Nat,
           operator' = operator \/ operator' = None,
           heartbeat'.queue = heartbeat.queue \/ heartbeat'.queue = <<>>,
           heartbeat'.executing = heartbeat.executing \/ heartbeat'.executing = None,
           core'.claimed = core.claimed \/ core'.claimed = <<>>,
           core'.op \in {"tick", "claim"} =>
               \/ core'.op = core.op /\ core'.due = core.due
               \/ \A j \in core'.due : Ready(j)
    PROVE  Inv'
  <1>1. Types'
    BY DEF Inv, Types, SameRuns
  <1>2. now \in Nat /\ now' \in Nat /\ \A j \in Jobs : jobs[j] \in JobRecords
    BY SchedulerBounds, SMT DEF SchedulerBounds, Inv, Types
  <1>3. core'.op \in {"tick", "claim"} =>
            \A j \in core'.due : jobs[j].status = "Active" /\ jobs[j].next # None /\ jobs[j].next <= now'
    <2> SUFFICES ASSUME core'.op \in {"tick", "claim"}, NEW j \in core'.due
                 PROVE  jobs[j].status = "Active" /\ jobs[j].next # None /\ jobs[j].next <= now'
      OBVIOUS
    <2>1. Ready(j)
      BY DEF Inv, ScheduleInv
    <2>2. j \in Jobs
      BY DEF Calls
    <2> QED  BY SchedulerBounds, <1>2, <2>1, <2>2, SMT DEF SchedulerBounds, Ready, JobRecords
  <1>4. ScheduleInv'
    BY <1>2, <1>3, ScheduleKept DEF Inv
  <1>5. ExecutionInv'
    BY ExecutionKept DEF Inv, SameRuns
  <1> QED  BY <1>1, <1>4, <1>5 DEF Inv

(* A table that stays, or whose stale claims expire, or with one settled.   *)
LEMMA TableKept ==
    ASSUME Types, NEW x
    PROVE  /\ SameRuns(runs)
           /\ SameRuns([runs EXCEPT ![x] = Settled(@, "Reported")])
           /\ \A r \in DOMAIN runs :
                [runs EXCEPT ![x] = Settled(@, "Reported")][r].begunAs = runs[r].begunAs
           /\ SameRuns([runs EXCEPT ![x].late = TRUE])
           /\ \A r \in DOMAIN runs : [runs EXCEPT ![x].late = TRUE][r].begunAs = runs[r].begunAs
  <1>1. SameRuns(runs)
    BY DEF Types, SameRuns
  <1>2. CASE x \notin DOMAIN runs
    <2>1. /\ [runs EXCEPT ![x] = Settled(@, "Reported")] = runs
          /\ [runs EXCEPT ![x].late = TRUE] = runs
      BY <1>2, SMT DEF Types
    <2> QED  BY <1>1, <2>1
  <1>3. CASE x \in DOMAIN runs
    <2>1. runs[x] \in RunRecords
      BY <1>3, SMT DEF Types
    <2>2. PICK run : run = Settled(runs[x], "Reported")
      OBVIOUS
    <2>3. PICK lateRun : lateRun = [runs[x] EXCEPT !.late = TRUE]
      OBVIOUS
    <2>4. /\ run \in RunRecords /\ run.job = runs[x].job /\ run.trigger = runs[x].trigger
          /\ run.tick = runs[x].tick /\ run.begunAs = runs[x].begunAs
      BY <2>1, <2>2, RecordsKept DEF Statuses
    <2>5. /\ lateRun \in RunRecords /\ lateRun.job = runs[x].job
          /\ lateRun.trigger = runs[x].trigger
          /\ lateRun.tick = runs[x].tick /\ lateRun.begunAs = runs[x].begunAs
      BY <2>1, <2>3 DEF RunRecords
    <2>6. SameRuns([runs EXCEPT ![x] = run]) /\ SameRuns([runs EXCEPT ![x] = lateRun])
      BY <1>1, <2>4, <2>5, ChangeKeepsRuns DEF Types
    <2>7. /\ [runs EXCEPT ![x] = Settled(@, "Reported")] = [runs EXCEPT ![x] = run]
          /\ [runs EXCEPT ![x].late = TRUE] = [runs EXCEPT ![x] = lateRun]
      BY <2>2, <2>3
    <2>8. \A r \in DOMAIN runs : /\ [runs EXCEPT ![x] = run][r].begunAs = runs[r].begunAs
                                 /\ [runs EXCEPT ![x] = lateRun][r].begunAs = runs[r].begunAs
      BY <2>4, <2>5
    <2> QED  BY <1>1, <2>6, <2>7, <2>8
  <1> QED  BY <1>2, <1>3

LEMMA Typed ==
    ASSUME Inv
    PROVE  /\ now \in Nat /\ now \in 0..MaxTicks /\ MaxTicks \in Nat /\ None \notin Nat
           /\ spent \in Nat /\ core \in Calls /\ heartbeat \in Heartbeats
           /\ core.due \in SUBSET Jobs /\ core.claimed \in Seq(Nat)
           /\ heartbeat.queue \in Seq(Nat)
           /\ Spend => spent' \in Nat
           /\ \A kind \in SUBSET Jobs : Due(kind) \in SUBSET Jobs /\ \A j \in Due(kind) : Ready(j)
  BY SchedulerBounds, SMT DEF SchedulerBounds, Inv, Types, Calls, Heartbeats, Spend, Due, Ready

LEMMA ClockStep == Inv /\ Clock => Inv'
  <1> SUFFICES ASSUME Inv, Clock  PROVE Inv'
    OBVIOUS
  <1>1. CASE CronInstant
    <2>1. UNCHANGED <<jobs, runs, core, heartbeat, operator, spent>> /\ now' = now + 1
      BY <1>1 DEF CronInstant
    <2>2. now' \in 0..MaxTicks /\ now <= now'
      BY <1>1, Typed, SMT DEF CronInstant
    <2>3. SameRuns(runs')
      BY <2>1, TableKept DEF Inv
    <2> QED  BY <2>1, <2>2, <2>3, Typed, QuietStep
  <1>2. ASSUME NEW r \in DOMAIN runs, DeadlinePasses(r)  PROVE Inv'
    <2>1. /\ UNCHANGED <<now, jobs, core, heartbeat, operator, spent>>
          /\ runs' = [runs EXCEPT ![r].late = TRUE]
      BY <1>2 DEF DeadlinePasses
    <2>2. SameRuns(runs') /\ \A x \in DOMAIN runs : runs'[x].begunAs = runs[x].begunAs
      BY <2>1, TableKept DEF Inv
    <2> QED  BY <2>1, <2>2, Typed, QuietStep, SMT
  <1> QED  BY <1>1, <1>2 DEF Clock

LEMMA BeginTickStep ==
    ASSUME Inv, NEW by \in {"heartbeat", "operator"}, BeginTick(by),
           heartbeat' \in Heartbeats, heartbeat'.queue = heartbeat.queue,
           heartbeat'.executing = heartbeat.executing
    PROVE  Inv'
  <1>1. /\ UNCHANGED <<now, jobs, operator, spent>> /\ runs' = ExpireStale
        /\ Call("tick", by, Due(WakeJobs), None)
    BY DEF BeginTick
  <1>2. Due(WakeJobs) \in SUBSET Jobs /\ \A j \in Due(WakeJobs) : Ready(j)
    BY Typed DEF Jobs
  <1>3. core' \in Calls /\ core'.due = Due(WakeJobs) /\ core'.claimed = <<>>
    BY <1>1, <1>2, CallTyped, SMT
  <1>4. SameRuns(runs') /\ \A r \in DOMAIN runs : runs'[r].begunAs = runs[r].begunAs
    BY <1>1, ExpiryKeepsRuns DEF Inv
  <1> QED  BY <1>1, <1>2, <1>3, <1>4, Typed, QuietStep, SMT

(* The steps that end a call, a heartbeat or an execution.                  *)
LEMMA EndingStep ==
    ASSUME Inv, FinishSchedulerRun \/ EndTick \/ EndHeartbeat \/ CallFails
                  \/ HeartbeatFails \/ OperatorRunEnds \/ Crash
    PROVE  Inv'
  <1> USE Typed, FreeFacts
  <1>0. now' = now /\ now <= now' /\ jobs' = jobs /\ now' \in 0..MaxTicks
    BY SMT DEF FinishSchedulerRun, EndTick, EndHeartbeat, CallFails, HeartbeatFails, OperatorRunEnds, Crash
  <1>1. CASE FinishSchedulerRun
    <2>1. /\ runs' = [runs EXCEPT ![core.run] = Settled(@, "Reported")]
          /\ core' = (IF core.op = "tick" THEN [core EXCEPT !.run = None] ELSE Free)
          /\ UNCHANGED <<heartbeat, operator, spent>>
      BY <1>1 DEF FinishSchedulerRun
    <2>2. SameRuns(runs') /\ \A r \in DOMAIN runs : runs'[r].begunAs = runs[r].begunAs
      BY <2>1, TableKept DEF Inv
    <2>3. CASE core.op = "tick"
      <3>1. /\ core' \in Calls /\ core'.op = core.op /\ core'.due = core.due
            /\ core'.claimed = core.claimed
        BY <2>1, <2>3 DEF Calls
      <3> QED  BY <1>0, <2>1, <2>2, <3>1, QuietStep
    <2>4. CASE core.op # "tick"
      BY <1>0, <2>1, <2>2, <2>4, QuietStep
    <2> QED  BY <2>3, <2>4
  <1>2. CASE OperatorRunEnds
    <2>1. /\ runs' = [runs EXCEPT ![operator] = Settled(@, "Reported")]
          /\ UNCHANGED <<core, heartbeat, spent>> /\ operator' = None
      BY <1>2 DEF OperatorRunEnds
    <2>2. SameRuns(runs') /\ \A r \in DOMAIN runs : runs'[r].begunAs = runs[r].begunAs
      BY <2>1, TableKept DEF Inv
    <2> QED  BY <1>0, <2>1, <2>2, QuietStep
  <1>3. CASE EndTick \/ EndHeartbeat \/ CallFails \/ HeartbeatFails
    <2>1. runs' = runs /\ (core' = Free \/ core' = core) /\ operator' = operator
          /\ (heartbeat' = heartbeat \/ heartbeat' = Idle) /\ spent' \in Nat
      BY <1>3 DEF EndTick, EndHeartbeat, CallFails, HeartbeatFails
    <2>2. SameRuns(runs')
      BY <2>1, TableKept DEF Inv
    <2> QED  BY <1>0, <2>1, <2>2, QuietStep
  <1>4. CASE Crash
    <2>1. /\ runs' = runs /\ operator' = None /\ heartbeat' = [Idle EXCEPT !.running = TRUE]
          /\ spent' \in Nat /\ Call("register", "heartbeat", Configured, None)
      BY <1>4 DEF Crash
    <2>2. core' \in Calls /\ core'.op = "register" /\ core'.claimed = <<>>
      BY <2>1, CallTyped DEF Configured
    <2>3. SameRuns(runs')
      BY <2>1, TableKept DEF Inv
    <2> QED  BY <1>0, <2>1, <2>2, <2>3, QuietStep
  <1> QED  BY <1>1, <1>2, <1>3, <1>4

LEMMA HostClaimBegins ==
    ASSUME Inv, NEW due \in SUBSET HostJobs, ClaimScheduledHostRuns(due)
    PROVE  Inv'
  <1>1. /\ UNCHANGED <<now, jobs, heartbeat, operator, spent>> /\ runs' = ExpireStale
        /\ Call("claim", "heartbeat", due, None) /\ due \subseteq Due(HostJobs)
    BY DEF ClaimScheduledHostRuns
  <1>2. due \in SUBSET Jobs /\ \A j \in due : Ready(j)
    BY <1>1, Typed DEF Jobs
  <1>3. core' \in Calls /\ core'.due = due /\ core'.claimed = <<>>
    BY <1>1, <1>2, CallTyped
  <1>4. SameRuns(runs') /\ \A r \in DOMAIN runs : runs'[r].begunAs = runs[r].begunAs
    BY <1>1, ExpiryKeepsRuns DEF Inv
  <1> QED  BY <1>1, <1>2, <1>3, <1>4, Typed, QuietStep, SMT

(* Outside a tick and a claim, a job that is paused, or registered for an   *)
(* instant to come, keeps the schedule.                                     *)
LEMMA JobStep ==
    ASSUME Inv, NEW j \in Jobs, core.op \notin {"tick", "claim"}, core' \in Calls,
           core'.op = core.op, core'.claimed = core.claimed,
           UNCHANGED <<now, runs, heartbeat, operator>>, spent' \in Nat,
           \/ jobs' = [jobs EXCEPT ![j] = Registered(j)]
           \/ jobs' = [jobs EXCEPT ![j].status = "Paused"]
    PROVE  Inv'
  <1>0. now \in Nat /\ now \in 0..MaxTicks /\ MaxTicks \in Nat /\ jobs \in [Jobs -> JobRecords]
        /\ jobs[j] \in JobRecords /\ \A r \in DOMAIN runs : runs[r] \in RunRecords
    BY Typed, SMT DEF Inv, Types
  <1>1. /\ Registered(j) \in JobRecords /\ Registered(j).next = now + 1
        /\ [jobs[j] EXCEPT !.status = "Paused"] \in JobRecords
        /\ [jobs[j] EXCEPT !.status = "Paused"].next = jobs[j].next
    BY <1>0, SMT DEF Registered, JobRecords
  <1>2. /\ jobs' \in [Jobs -> JobRecords] /\ \A k \in Jobs : k # j => jobs'[k] = jobs[k]
        /\ jobs'[j].next = now + 1 \/ jobs'[j].next = jobs[j].next
    BY <1>0, <1>1
  <1>3. Types'
    BY <1>2 DEF Inv, Types
  <1>4. ASSUME NEW r \in DOMAIN runs, runs[r].trigger = "Due"
        PROVE  /\ runs[r].tick \in 1..now
               /\ jobs'[runs[r].job].next # None => runs[r].tick < jobs'[runs[r].job].next
    <2>1. /\ runs[r].tick \in 1..now /\ runs[r].job \in Jobs
          /\ jobs[runs[r].job].next # None => runs[r].tick < jobs[runs[r].job].next
      BY <1>0, <1>4 DEF Inv, ScheduleInv, RunRecords
    <2> QED  BY <1>0, <1>2, <2>1, SMT
  <1>5. ScheduleInv'
    BY <1>4 DEF Inv, ScheduleInv, DueRunsAdvance
  <1>6. ExecutionInv'
    BY ExecutionKept DEF Inv
  <1> QED  BY <1>3, <1>5, <1>6 DEF Inv

LEMMA JobSteps ==
    ASSUME Inv,
           \/ \E j \in Configured : RegisterConfiguredScheduledJob(j)
           \/ \E j \in Jobs : PauseScheduledJob(j) \/ ResumeScheduledJob(j)
    PROVE  Inv'
  <1> USE Typed, FreeFacts
  <1>1. ASSUME NEW j \in Configured, RegisterConfiguredScheduledJob(j)  PROVE Inv'
    <2>1. /\ core.op = "register" /\ jobs' = [jobs EXCEPT ![j] = Registered(j)]
          /\ core' = [core EXCEPT !.due = @ \ {j}]
          /\ UNCHANGED <<now, runs, heartbeat, operator, spent>> /\ j \in Jobs
      BY <1>1 DEF RegisterConfiguredScheduledJob, Configured
    <2>2. core' \in Calls /\ core'.op = core.op /\ core'.claimed = core.claimed
      BY <2>1 DEF Calls
    <2> QED  BY <2>1, <2>2, JobStep
  <1>2. ASSUME NEW j \in Jobs, PauseScheduledJob(j)  PROVE Inv'
    <2>1. /\ core = Free /\ core' = core /\ jobs' = [jobs EXCEPT ![j].status = "Paused"]
          /\ UNCHANGED <<now, runs, heartbeat, operator>> /\ spent' \in Nat
      BY <1>2 DEF PauseScheduledJob
    <2> QED  BY <2>1, JobStep
  <1>3. ASSUME NEW j \in Jobs, ResumeScheduledJob(j)  PROVE Inv'
    <2>1. /\ core = Free /\ core' = core /\ jobs' = [jobs EXCEPT ![j] = Registered(j)]
          /\ UNCHANGED <<now, runs, heartbeat, operator>> /\ spent' \in Nat
      BY <1>3 DEF ResumeScheduledJob
    <2> QED  BY <2>1, JobStep
  <1> QED  BY <1>1, <1>2, <1>3

(* The claims: the new run is in no queue.                                  *)
LEMMA ClaimSteps ==
    ASSUME Inv,
           \/ \E j \in WakeJobs : ClaimWakeRun(j) \/ RequestScheduledJobRun(j)
           \/ \E j \in HostJobs : RequestScheduledHostJobRun(j)
    PROVE  Inv'
  <1> USE Typed, FreeFacts
  <1>1. ASSUME NEW j \in WakeJobs, ClaimWakeRun(j)  PROVE Inv'
    <2>1. /\ core.op = "tick" /\ j \in core.due /\ ClaimScheduledRun(j, "Due", None)
          /\ core' = [core EXCEPT !.due = @ \ {j}, !.run = Len(runs) + 1]
          /\ UNCHANGED <<now, heartbeat, operator, spent>> /\ j \in Jobs
      BY <1>1 DEF ClaimWakeRun, Jobs
    <2>2. /\ runs' \in Seq(RunRecords) /\ jobs' \in [Jobs -> JobRecords] /\ Len(runs) \in Nat
          /\ DOMAIN runs \subseteq DOMAIN runs' /\ \A r \in DOMAIN runs : runs'[r] = runs[r]
      BY <2>1, ClaimTypes, SMT DEF Inv
    <2>3. /\ core' \in Calls /\ core'.op = core.op /\ core'.due = core.due \ {j}
          /\ core'.claimed = core.claimed
      <3>1. PICK n : n = Len(runs) + 1 /\ n \in Nat
        BY <2>2, SMT
      <3>2. core' = [core EXCEPT !.due = @ \ {j}, !.run = n]
        BY <2>1, <3>1
      <3> QED  BY <3>1, <3>2 DEF Calls
    <2>4. Types'
      BY <2>1, <2>2, <2>3 DEF Inv, Types
    <2>5. ScheduleInv'
      BY <2>1, <2>3, ClaimKeepsSchedule DEF Inv, ScheduleInv
    <2>6. ExecutionInv'
      BY <2>1, <2>2, <2>3, ExecutionKept DEF Inv
    <2> QED  BY <2>4, <2>5, <2>6 DEF Inv
  <1>2. ASSUME NEW j \in WakeJobs, RequestScheduledJobRun(j)  PROVE Inv'
    <2>1. /\ ClaimScheduledRun(j, "Manual", None) /\ spent' \in Nat
          /\ Call("manual", "operator", {}, Len(runs) + 1)
          /\ UNCHANGED <<now, heartbeat, operator>> /\ j \in Jobs
      BY <1>2 DEF RequestScheduledJobRun, Manual, Jobs
    <2>2. /\ runs' \in Seq(RunRecords) /\ jobs' \in [Jobs -> JobRecords] /\ Len(runs) \in Nat
          /\ DOMAIN runs \subseteq DOMAIN runs' /\ \A r \in DOMAIN runs : runs'[r] = runs[r]
      BY <2>1, ClaimTypes, SMT DEF Inv
    <2>3. core' \in Calls /\ core'.op = "manual" /\ core'.claimed = <<>>
      <3>1. Len(runs) + 1 \in Nat
        BY <2>2, SMT
      <3> QED  BY <2>1, <3>1, CallTyped, SMT
    <2>4. Types'
      BY <2>1, <2>2, <2>3 DEF Inv, Types
    <2>5. ScheduleInv'
      BY <2>1, <2>3, ClaimKeepsSchedule DEF Inv
    <2>6. ExecutionInv'
      BY <2>1, <2>2, <2>3, ExecutionKept DEF Inv
    <2> QED  BY <2>4, <2>5, <2>6 DEF Inv
  <1>3. ASSUME NEW j \in HostJobs, RequestScheduledHostJobRun(j)  PROVE Inv'
    <2>1. /\ core = Free /\ core' = core /\ ClaimScheduledRun(j, "Manual", "Claimed")
          /\ operator' = Len(runs) + 1 /\ UNCHANGED <<now, heartbeat>> /\ j \in Jobs
          /\ spent' \in Nat /\ operator = None
      BY <1>3 DEF RequestScheduledHostJobRun, Manual, Jobs
    <2>2. /\ runs' \in Seq(RunRecords) /\ jobs' \in [Jobs -> JobRecords] /\ Len(runs) \in Nat
          /\ DOMAIN runs = 1..Len(runs) /\ DOMAIN runs' = 1..(Len(runs) + 1)
          /\ \A r \in DOMAIN runs : runs'[r] = runs[r]
      BY <2>1, ClaimTypes DEF Inv, Statuses
    <2>3. Types'
      BY <2>1, <2>2, SMT DEF Inv, Types
    <2>4. ScheduleInv'
      BY <2>1, ClaimKeepsSchedule DEF Inv, Statuses
    <2>5. Waiting(heartbeat'.queue, runs', operator')
      <3>1. \A r \in DOMAIN runs : r # operator' /\ r \in DOMAIN runs'
        BY <2>1, <2>2, SMT
      <3>2. heartbeat'.queue = heartbeat.queue /\ Waiting(heartbeat.queue, runs, operator)
        BY <2>1 DEF Inv, ExecutionInv
      <3> QED  BY <2>2, <3>1, <3>2, SMT DEF Waiting
    <2>6. Waiting(core'.claimed, runs', operator')
      BY <2>1, SMT DEF Waiting
    <2>7. RunExecutedOnce'
      BY <2>1, <2>2, <2>5 DEF Inv, ExecutionInv, Waiting, RunExecutedOnce
    <2>8. ExecutionInv'
      BY <2>1, <2>2, <2>5, <2>6, <2>7, SMT DEF ExecutionInv
    <2> QED  BY <2>3, <2>4, <2>8 DEF Inv
  <1> QED  BY <1>1, <1>2, <1>3

LEMMA ClaimHostRunStep ==
    ASSUME Inv, NEW j \in HostJobs, ClaimHostRun(j)
    PROVE  Inv'
  <1> USE Typed
  <1>1. /\ core.op = "claim" /\ j \in core.due /\ ClaimScheduledRun(j, "Due", None)
        /\ core' = [core EXCEPT !.due = @ \ {j}, !.claimed = Append(@, Len(runs) + 1)]
        /\ UNCHANGED <<now, heartbeat, operator, spent>> /\ j \in Jobs
    BY DEF ClaimHostRun, Jobs
  <1>2. /\ runs' \in Seq(RunRecords) /\ jobs' \in [Jobs -> JobRecords] /\ Len(runs) \in Nat
        /\ DOMAIN runs = 1..Len(runs) /\ DOMAIN runs' = 1..(Len(runs) + 1)
        /\ \A r \in DOMAIN runs : runs'[r] = runs[r]
        /\ runs'[Len(runs) + 1].begunAs = None
    <2>1. NewRun(j, "Due", None).begunAs = None
      BY DEF NewRun
    <2> QED  BY <1>1, <2>1, ClaimTypes DEF Inv
  <1>3. PICK n : n = Len(runs) + 1 /\ n \in Nat
    BY <1>2, SMT
  <1>4. PICK q : q = core.claimed /\ q \in Seq(Nat)
    OBVIOUS
  <1>5. /\ Append(q, n) \in Seq(Nat) /\ Len(q) \in Nat /\ DOMAIN q = 1..Len(q)
        /\ DOMAIN Append(q, n) = 1..(Len(q) + 1)
        /\ \A i \in 1..Len(q) : Append(q, n)[i] = q[i]
        /\ Append(q, n)[Len(q) + 1] = n
    BY <1>3, <1>4, SMT
  <1>6. core' = [core EXCEPT !.due = core.due \ {j}, !.claimed = Append(q, n)]
    BY <1>1, <1>3, <1>4
  <1>7. /\ core' \in Calls /\ core'.op = core.op /\ core'.due = core.due \ {j}
        /\ core'.claimed = Append(q, n)
    BY <1>5, <1>6 DEF Calls
  <1>8. Types'
    BY <1>1, <1>2, <1>7 DEF Inv, Types
  <1>9. ScheduleInv'
    BY <1>1, <1>7, ClaimKeepsSchedule DEF Inv, ScheduleInv
  <1>10. /\ operator' = operator /\ heartbeat' = heartbeat /\ n \notin DOMAIN runs
         /\ n \in DOMAIN runs' /\ DOMAIN runs \subseteq DOMAIN runs' /\ n # operator
    BY <1>1, <1>2, <1>3, SMT DEF Inv, ExecutionInv
  <1>11. Waiting(Append(q, n), runs', operator')
    <2>1. Waiting(q, runs, operator)
      BY <1>4 DEF Inv, ExecutionInv
    <2>2. ASSUME NEW i \in DOMAIN q
          PROVE  /\ q[i] \in DOMAIN runs' /\ runs'[q[i]].begunAs = None /\ q[i] # operator'
                 /\ q[i] # n /\ \A k \in DOMAIN q : k # i => q[k] # q[i]
      BY <1>2, <1>10, <2>1, <2>2 DEF Waiting
    <2>3. ASSUME NEW i \in DOMAIN Append(q, n)
          PROVE  /\ Append(q, n)[i] \in DOMAIN runs'
                 /\ runs'[Append(q, n)[i]].begunAs = None
                 /\ Append(q, n)[i] # operator'
                 /\ \A k \in DOMAIN Append(q, n) : k # i => Append(q, n)[k] # Append(q, n)[i]
      <3>1. CASE i \in DOMAIN q
        BY <1>5, <2>2, <3>1, SMT
      <3>2. CASE i = Len(q) + 1
        <4>1. \A k \in DOMAIN Append(q, n) : k # i => k \in DOMAIN q /\ Append(q, n)[k] = q[k]
          BY <1>5, <3>2, SMT
        <4>2. Append(q, n)[i] = n
          BY <1>5, <3>2, SMT
        <4>3. n \in DOMAIN runs' /\ runs'[n].begunAs = None /\ n # operator'
          BY <1>2, <1>3, <1>10
        <4> QED  BY <2>2, <4>1, <4>2, <4>3
      <3> QED  BY <1>5, <3>1, <3>2, SMT
    <2> QED  BY <2>3 DEF Waiting
  <1>12. Waiting(heartbeat'.queue, runs', operator') /\ RunExecutedOnce'
    BY <1>2, <1>10, SMTT(30) DEF Inv, ExecutionInv, Waiting, RunExecutedOnce
  <1>13. ExecutionInv'
    BY <1>7, <1>10, <1>11, <1>12 DEF Inv, ExecutionInv
  <1> QED  BY <1>8, <1>9, <1>13 DEF Inv

(* The executor goes on to a run, and the schedule stays.                   *)
LEMMA ExecuteSteps ==
    ASSUME Inv, EndClaim \/ CompleteScheduledHostRun
    PROVE  Inv'
  <1> USE Typed
  <1>1. PICK table, queue :
            /\ table \in Seq(RunRecords) /\ SameRuns(table) /\ queue \in Seq(Nat)
            /\ Waiting(queue, table, operator) /\ ExecuteNext(table, queue)
            /\ UNCHANGED <<now, jobs, operator, spent>>
    <2>1. CASE EndClaim
      <3>1. ExecuteNext(runs, core.claimed) /\ UNCHANGED <<now, jobs, operator, spent>>
        BY <2>1 DEF EndClaim
      <3>2. Waiting(core.claimed, runs, operator) /\ runs \in Seq(RunRecords) /\ SameRuns(runs)
        BY TableKept DEF Inv, ExecutionInv, Types
      <3> QED  BY <3>1, <3>2
    <2>2. CASE CompleteScheduledHostRun
      <3>1. PICK table : table = [runs EXCEPT ![heartbeat.executing] = Settled(@, "Reported")]
        OBVIOUS
      <3>2. ExecuteNext(table, heartbeat.queue) /\ UNCHANGED <<now, jobs, operator, spent>>
        BY <2>2, <3>1 DEF CompleteScheduledHostRun
      <3>3. SameRuns(table) /\ \A r \in DOMAIN runs : table[r].begunAs = runs[r].begunAs
        BY <3>1, TableKept DEF Inv
      <3>4. table \in Seq(RunRecords) /\ DOMAIN table = DOMAIN runs
        BY <3>3 DEF SameRuns
      <3>5. Waiting(heartbeat.queue, table, operator)
        BY <3>3, <3>4 DEF Inv, ExecutionInv, Waiting
      <3> QED  BY <3>2, <3>3, <3>4, <3>5
    <2> QED  BY <2>1, <2>2
  <1>2. /\ SameRuns(runs') /\ core' \in Calls /\ heartbeat' \in Heartbeats
        /\ core'.op \notin {"tick", "claim"} /\ core'.claimed = <<>>
        /\ Waiting(heartbeat'.queue, runs', operator') /\ RunExecutedOnce'
    BY <1>1, ExecuteNextKeeps DEF Inv
  <1>3. Types'
    BY <1>1, <1>2 DEF Inv, Types, SameRuns
  <1>4. ScheduleInv'
    <2>1. now' \in Nat /\ now <= now'
      BY <1>1, SMT
    <2> QED  BY <1>1, <1>2, <2>1, ScheduleKept DEF Inv
  <1>5. ExecutionInv'
    BY <1>1, <1>2, SMTT(30) DEF Inv, ExecutionInv, SameRuns, Waiting
  <1> QED  BY <1>3, <1>4, <1>5 DEF Inv

LEMMA InvStep == Inv /\ [Next]_vars => Inv'
  <1> SUFFICES ASSUME Inv, [Next]_vars  PROVE Inv'
    OBVIOUS
  <1>1. CASE RunSchedulerHeartbeat
    <2>1. /\ BeginTick("heartbeat") /\ heartbeat' \in Heartbeats
          /\ heartbeat'.queue = heartbeat.queue /\ heartbeat'.executing = heartbeat.executing
      BY <1>1, Typed DEF RunSchedulerHeartbeat, Heartbeats
    <2> QED  BY <2>1, BeginTickStep
  <1>2. CASE SchedulerTick
    BY <1>2, Typed, BeginTickStep DEF SchedulerTick
  <1>3. CASE UNCHANGED vars
    <2>1. SameRuns(runs') /\ UNCHANGED <<now, jobs, runs, core, heartbeat, operator, spent>>
      BY <1>3, TableKept DEF Inv, vars
    <2> QED  BY <2>1, Typed, QuietStep, SMT
  <1>4. CASE CoreStep
    BY <1>4, ClaimSteps, EndingStep, HostClaimBegins, ClaimHostRunStep, ExecuteSteps, JobSteps DEF CoreStep
  <1>5. CASE HeartbeatStep
    BY <1>1, <1>5, ExecuteSteps DEF HeartbeatStep
  <1>6. CASE OperatorStep
    BY <1>2, <1>6, ClaimSteps, EndingStep, JobSteps DEF OperatorStep
  <1> QED  BY <1>3, <1>4, <1>5, <1>6, ClockStep, EndingStep DEF Next

----------------------------------------------------------------------------
LEMMA InvAlways == SchedulerSpec => []Inv
  BY InvInit, InvStep, PTL DEF SchedulerSpec

(* No instant of a schedule gets two runs, whatever ticks, registrations,   *)
(* pauses, failures and restarts come between (claim_scheduled_run,         *)
(* registerConfiguredScheduledJobs).                                        *)
THEOREM NoInstantTwice == SchedulerSpec => []DueRunsAdvance
  <1>1. Inv => DueRunsAdvance
    BY DEF Inv, ScheduleInv
  <1> QED  BY <1>1, InvAlways, PTL

(* A claimed host run is executed at most once: what waits in the heartbeat *)
(* has not begun and is nobody else's (runScheduledHostExecutors).          *)
THEOREM HostRunsExecuteOnce == SchedulerSpec => []RunExecutedOnce
  <1>1. Inv => RunExecutedOnce
    BY DEF Inv, ExecutionInv
  <1> QED  BY <1>1, InvAlways, PTL
=============================================================================
