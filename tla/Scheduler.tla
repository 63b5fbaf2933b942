------------------------------- MODULE Scheduler -------------------------------
(* Scheduled work: the job and run tables of the Rust scheduler, the        *)
(* service's heartbeat that ticks it, executes the host jobs and registers  *)
(* the configured jobs again, and the operator's controls.                  *)
(*                                                                          *)
(* Time is what the scheduler compares: now counts the instants of the      *)
(* jobs' cron schedule that have passed, and a due time is the number of    *)
(* such an instant; a claim is late once its deadline has passed.           *)
(*                                                                          *)
(* A call into Rust runs to its end before anything else on Node's main     *)
(* thread, but commits several transactions on its way; the awaits that     *)
(* continue at once are part of it.  "core" holds the call in progress, and *)
(* only the clock and a crash can come between two of its commits.          *)
EXTENDS Integers, Sequences, FiniteSets

CONSTANTS WakeJobs,      \* jobs that wake a session
          HostJobs,      \* jobs that the TypeScript host executes
          IntervalJobs,  \* jobs registered once, with an interval
          MaxTicks,      \* bound: instants of the schedule
          MaxEvents,     \* bound: errors, crashes, manual runs and pauses, together
          HostLimit,     \* host runs claimed by one heartbeat
          None

Jobs == WakeJobs \cup HostJobs
Configured == Jobs \ IntervalJobs
RunIds == 1..(Cardinality(Jobs) * MaxTicks + MaxEvents)

ASSUME SchedulerBounds ==
    /\ MaxTicks \in Nat /\ MaxEvents \in Nat /\ HostLimit \in Nat \ {0}
    /\ WakeJobs \cap HostJobs = {}
    /\ None \notin Int

VARIABLES now,       \* instants of the schedule that have passed
          jobs,      \* scheduled_jobs: status and next_due_at
          runs,      \* scheduled_job_runs, in the order of creation
          core,      \* the call into Rust in progress
          heartbeat, \* the heartbeat: the host run it executes, those that wait
          operator,  \* the host run executed for the operator, or None
          spent      \* errors, crashes, manual runs and pauses so far

vars == <<now, jobs, runs, core, heartbeat, operator, spent>>

(* Reported stands for the status its executor reports: Completed, Skipped, *)
(* Failed or Cancelled.                                                     *)
Statuses == {"Claimed", "Reported", "Expired"}

JobRecords == [status: {"Active", "Paused"}, next: {None} \cup 1..(MaxTicks + 1)]

RunRecords ==
    [job: Jobs, trigger: {"Due", "Manual"}, tick: {None} \cup 1..(MaxTicks + 1),
     status: Statuses, late: BOOLEAN, begunAs: {None} \cup Statuses]

Free == [op |-> "free", by |-> None, due |-> {}, claimed |-> <<>>, run |-> None]

Idle == [running |-> FALSE, executing |-> None, queue |-> <<>>]

MutantRegisteredNow(j) == [status |-> "Active", next |-> now]

(* Registration writes an active job that is due at the first instant of    *)
(* the schedule after now.                                                  *)
Registered(j) == [status |-> "Active", next |-> now + 1]

(* The service has started on an empty store and registered its jobs. *)
Init ==
    /\ now = 0
    /\ jobs = [j \in Jobs |-> [status |-> "Active", next |-> 1]]
    /\ runs = <<>>
    /\ core = Free
    /\ heartbeat = Idle
    /\ operator = None
    /\ spent = 0

----------------------------------------------------------------------------
(* The clock. *)

CronInstant ==
    /\ now < MaxTicks
    /\ now' = now + 1
    /\ UNCHANGED <<jobs, runs, core, heartbeat, operator, spent>>

(* The deadline of a claim passes; it is of no interest once the run is     *)
(* settled.                                                                 *)
DeadlinePasses(r) ==
    /\ r \in DOMAIN runs
    /\ runs[r].status = "Claimed" /\ ~runs[r].late
    /\ runs' = [runs EXCEPT ![r].late = TRUE]
    /\ UNCHANGED <<now, jobs, core, heartbeat, operator, spent>>

----------------------------------------------------------------------------
(* The store. *)

(* The completion looks at the run's id only: it overwrites any status. *)
Settled(run, status) == [run EXCEPT !.status = status, !.late = FALSE]

MutantExpireNothing == runs

(* The claims whose deadline has passed become Expired. *)
ExpireStale ==
    [r \in DOMAIN runs |->
        IF runs[r].status = "Claimed" /\ runs[r].late
        THEN Settled(runs[r], "Expired") ELSE runs[r]]

Due(kind) ==
    {j \in kind : jobs[j].status = "Active" /\ jobs[j].next # None
                    /\ jobs[j].next <= now}

NewRun(j, trigger, begunAs) ==
    [job |-> j, trigger |-> trigger,
     tick |-> IF trigger = "Due" THEN jobs[j].next ELSE None,
     status |-> "Claimed", late |-> FALSE, begunAs |-> begunAs]

(* The next due time after a claim: a job with an interval counts from now, *)
(* a configured job has none until it is registered again.                  *)
NextDue(j) == IF j \in IntervalJobs THEN now + 1 ELSE None

(* One transaction inserts the run and moves the due time of the job. *)
ClaimScheduledRun(j, trigger, begunAs) ==
    /\ runs' = Append(runs, NewRun(j, trigger, begunAs))
    /\ jobs' = IF trigger = "Due" /\ jobs[j].status = "Active"
               THEN [jobs EXCEPT ![j].next = NextDue(j)] ELSE jobs

----------------------------------------------------------------------------
(* Calls into Rust. *)

Call(op, by, due, run) ==
    core' = [op |-> op, by |-> by, due |-> due, claimed |-> <<>>, run |-> run]

BeginTick(by) ==
    /\ core = Free
    /\ runs' = ExpireStale
    /\ Call("tick", by, Due(WakeJobs), None)
    /\ UNCHANGED <<now, jobs, operator, spent>>

ClaimWakeRun(j) ==
    /\ core.op = "tick" /\ core.run = None /\ j \in core.due
    /\ ClaimScheduledRun(j, "Due", None)
    /\ core' = [core EXCEPT !.due = @ \ {j}, !.run = Len(runs) + 1]
    /\ UNCHANGED <<now, heartbeat, operator, spent>>

(* A wake run requests the wake and is completed, or is skipped when its    *)
(* session is gone, archived or of a kind that cannot wake.                 *)
FinishSchedulerRun ==
    /\ core.op \in {"tick", "manual"} /\ core.run # None
    /\ runs' = [runs EXCEPT ![core.run] = Settled(@, "Reported")]
    /\ core' = IF core.op = "tick" THEN [core EXCEPT !.run = None] ELSE Free
    /\ UNCHANGED <<now, jobs, heartbeat, operator, spent>>

TickDone(by) == core.op = "tick" /\ core.by = by /\ core.run = None /\ core.due = {}

EndTick ==
    /\ TickDone("operator")
    /\ core' = Free
    /\ UNCHANGED <<now, jobs, runs, heartbeat, operator, spent>>

Spend ==
    /\ spent < MaxEvents
    /\ spent' = spent + 1

(* A store or bus error ends the call where it stands, and the heartbeat    *)
(* that made it.                                                            *)
CallFails ==
    /\ core # Free /\ Spend
    /\ core' = Free
    /\ heartbeat' = IF core.by = "heartbeat" THEN Idle ELSE heartbeat
    /\ UNCHANGED <<now, jobs, runs, operator>>

----------------------------------------------------------------------------
(* The heartbeat: tick, claim host runs, execute them one after the other,  *)
(* register the configured jobs again.  It is skipped while one is running. *)

RunSchedulerHeartbeat ==
    /\ ~heartbeat.running
    /\ heartbeat' = [heartbeat EXCEPT !.running = TRUE]
    /\ BeginTick("heartbeat")

ClaimScheduledHostRuns(due) ==
    /\ TickDone("heartbeat")
    /\ due \subseteq Due(HostJobs)
    /\ due = Due(HostJobs) \/ Cardinality(due) = HostLimit
    /\ Cardinality(due) <= HostLimit
    /\ runs' = ExpireStale
    /\ Call("claim", "heartbeat", due, None)
    /\ UNCHANGED <<now, jobs, heartbeat, operator, spent>>

ClaimHostRun(j) ==
    /\ core.op = "claim" /\ j \in core.due
    /\ ClaimScheduledRun(j, "Due", None)
    /\ core' = [core EXCEPT !.due = @ \ {j}, !.claimed = Append(@, Len(runs) + 1)]
    /\ UNCHANGED <<now, heartbeat, operator, spent>>

MutantExecuteNext(table, queue) ==
    IF queue = <<>>
    THEN /\ Call("register", "heartbeat", Configured, None)
         /\ heartbeat' = [heartbeat EXCEPT !.executing = None, !.queue = <<>>]
         /\ runs' = table
    ELSE /\ core' = Free
         /\ heartbeat' = [heartbeat EXCEPT !.executing = Head(queue), !.queue = queue]
         /\ runs' = [table EXCEPT ![Head(queue)].begunAs = table[Head(queue)].status]

(* The first of the claimed runs begins, whatever became of it since its    *)
(* claim; when none is left the configured jobs are registered.             *)
ExecuteNext(table, queue) ==
    IF queue = <<>>
    THEN /\ Call("register", "heartbeat", Configured, None)
         /\ heartbeat' = [heartbeat EXCEPT !.executing = None, !.queue = <<>>]
         /\ runs' = table
    ELSE /\ core' = Free
         /\ heartbeat' = [heartbeat EXCEPT !.executing = Head(queue), !.queue = Tail(queue)]
         /\ runs' = [table EXCEPT ![Head(queue)].begunAs = table[Head(queue)].status]

EndClaim ==
    /\ core.op = "claim" /\ core.due = {}
    /\ ExecuteNext(runs, core.claimed)
    /\ UNCHANGED <<now, jobs, operator, spent>>

CompleteScheduledHostRun ==
    /\ core = Free /\ heartbeat.executing # None
    /\ ExecuteNext([runs EXCEPT ![heartbeat.executing] = Settled(@, "Reported")],
                   heartbeat.queue)
    /\ UNCHANGED <<now, jobs, operator, spent>>

(* The heartbeat, and the startup, write every configured job anew. *)
RegisterConfiguredScheduledJob(j) ==
    /\ core.op = "register" /\ j \in core.due
    /\ jobs' = [jobs EXCEPT ![j] = Registered(j)]
    /\ core' = [core EXCEPT !.due = @ \ {j}]
    /\ UNCHANGED <<now, runs, heartbeat, operator, spent>>

EndHeartbeat ==
    /\ core.op = "register" /\ core.due = {}
    /\ core' = Free /\ heartbeat' = Idle
    /\ UNCHANGED <<now, jobs, runs, operator, spent>>

MutantFailKeepsRunning ==
    /\ core = Free /\ heartbeat.executing # None
    /\ Spend
    /\ heartbeat' = [Idle EXCEPT !.running = TRUE]
    /\ UNCHANGED <<now, jobs, runs, core, operator>>

(* Neither the completion of a run nor its report as Failed gets through:   *)
(* the heartbeat throws, and its runs stay Claimed.                         *)
HeartbeatFails ==
    /\ core = Free /\ heartbeat.executing # None
    /\ Spend
    /\ heartbeat' = Idle
    /\ UNCHANGED <<now, jobs, runs, core, operator>>

----------------------------------------------------------------------------
(* The operator's controls. *)

SchedulerTick ==
    /\ BeginTick("operator")
    /\ UNCHANGED heartbeat

Manual(j, begunAs) ==
    /\ core = Free /\ Spend
    /\ ClaimScheduledRun(j, "Manual", begunAs)
    /\ UNCHANGED <<now, heartbeat>>

RequestScheduledJobRun(j) ==
    /\ Manual(j, None)
    /\ Call("manual", "operator", {}, Len(runs) + 1)
    /\ UNCHANGED operator

(* The run begins as soon as it is claimed. *)
RequestScheduledHostJobRun(j) ==
    /\ Manual(j, "Claimed") /\ operator = None
    /\ operator' = Len(runs) + 1
    /\ UNCHANGED core

OperatorRunEnds ==
    /\ core = Free /\ operator # None
    /\ runs' = [runs EXCEPT ![operator] = Settled(@, "Reported")]
    /\ operator' = None
    /\ UNCHANGED <<now, jobs, core, heartbeat, spent>>

PauseScheduledJob(j) ==
    /\ core = Free /\ Spend
    /\ jobs' = [jobs EXCEPT ![j].status = "Paused"]
    /\ UNCHANGED <<now, runs, core, heartbeat, operator>>

(* The operator names the next due time, here the next of the schedule. *)
ResumeScheduledJob(j) ==
    /\ core = Free
    /\ jobs' = [jobs EXCEPT ![j] = Registered(j)]
    /\ UNCHANGED <<now, runs, core, heartbeat, operator, spent>>

(* A crash loses the call, the heartbeat and the executions; the startup    *)
(* registers the configured jobs before anything else.                      *)
Crash ==
    /\ Spend
    /\ Call("register", "heartbeat", Configured, None)
    /\ heartbeat' = [Idle EXCEPT !.running = TRUE] /\ operator' = None
    /\ UNCHANGED <<now, jobs, runs>>

Clock == CronInstant \/ (\E r \in DOMAIN runs : DeadlinePasses(r))

CoreStep ==
    \/ \E j \in WakeJobs : ClaimWakeRun(j)
    \/ FinishSchedulerRun
    \/ EndTick
    \/ \E due \in SUBSET HostJobs : ClaimScheduledHostRuns(due)
    \/ \E j \in HostJobs : ClaimHostRun(j)
    \/ EndClaim
    \/ \E j \in Configured : RegisterConfiguredScheduledJob(j)
    \/ EndHeartbeat

HeartbeatStep ==
    \/ RunSchedulerHeartbeat
    \/ CompleteScheduledHostRun

OperatorStep ==
    \/ SchedulerTick
    \/ \E j \in WakeJobs : RequestScheduledJobRun(j)
    \/ \E j \in HostJobs : RequestScheduledHostJobRun(j)
    \/ OperatorRunEnds
    \/ \E j \in Jobs : PauseScheduledJob(j) \/ ResumeScheduledJob(j)

Next ==
    \/ Clock
    \/ CoreStep
    \/ HeartbeatStep
    \/ OperatorStep
    \/ CallFails
    \/ HeartbeatFails
    \/ Crash

SchedulerSpec == Init /\ [][Next]_vars

(* A deadline passes with the clock; a call into Rust returns; the timer    *)
(* fires the heartbeat and the executors answer.  The heartbeat's steps are *)
(* strongly fair because a call of the operator, which takes no turn of the *)
(* event loop from it, is split here into several steps.                    *)
FairSchedulerSpec ==
    /\ SchedulerSpec
    /\ \A r \in RunIds : WF_vars(DeadlinePasses(r))
    /\ WF_vars(CoreStep)
    /\ SF_vars(HeartbeatStep)

----------------------------------------------------------------------------
SchedulerTypeOK ==
    /\ now \in 0..MaxTicks
    /\ jobs \in [Jobs -> JobRecords]
    /\ runs \in Seq(RunRecords)
    /\ core \in [op: {"free", "tick", "claim", "manual", "register"}, by: {None, "heartbeat", "operator"},
                 due: SUBSET Jobs, claimed: Seq(DOMAIN runs), run: {None} \cup DOMAIN runs]
    /\ heartbeat \in [running: BOOLEAN, executing: {None} \cup DOMAIN runs,
                      queue: Seq(DOMAIN runs)]
    /\ operator \in {None} \cup DOMAIN runs
    /\ spent \in 0..MaxEvents

(* The due runs of a job are for ever later instants of its schedule, each  *)
(* of them past: no instant gets two runs, whatever ticks, registrations,   *)
(* pauses, failures and restarts come between the claim of a run and the    *)
(* next due time of its job (claim_scheduled_run, registerConfigured-       *)
(* ScheduledJobs).                                                          *)
DueRunsAdvance ==
    \A r, s \in DOMAIN runs :
        runs[r].trigger = "Due" =>
            /\ runs[r].tick <= now
            /\ r < s /\ runs[s].trigger = "Due" /\ runs[s].job = runs[r].job
                 => runs[r].tick < runs[s].tick

(* A claimed host run is executed at most once, by one executor: a run that *)
(* waits in the heartbeat has not begun, and is nobody else's               *)
(* (runScheduledHostExecutors, schedulerRunJob).                            *)
RunExecutedOnce ==
    \A i \in DOMAIN heartbeat.queue :
        LET r == heartbeat.queue[i] IN
            /\ runs[r].begunAs = None
            /\ r \notin {heartbeat.executing, operator}
            /\ \A k \in DOMAIN heartbeat.queue : k # i => heartbeat.queue[k] # r

Claimed(r) == r \in DOMAIN runs /\ runs[r].status = "Claimed"

(* A claimed run does not stay Claimed: its executor completes it or, after *)
(* a crash or an error, a later tick expires it.                            *)
ClaimedRunSettles ==
    \A r \in RunIds : Claimed(r) ~> ~Claimed(r)

(* A configured job whose due time was consumed by a run gets a new one, by *)
(* the heartbeat's or the startup's registration.                           *)
JobIsRescheduled ==
    \A j \in Configured : jobs[j].next = None ~> jobs[j].next # None
=============================================================================
