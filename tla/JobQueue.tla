------------------------------ MODULE JobQueue ------------------------------
(***************************************************************************)
(* The job queue of the controller (controller/src/queue.rs and the code   *)
(* of server.rs and main.rs that creates runs and drives them).  A run is  *)
(* a forecast_runs row, its work one forecast_jobs row per SKU.  For each  *)
(* run one claim loop, run_monthly, spawns `concurrency` tokio tasks that  *)
(* claim a queued job (FOR UPDATE SKIP LOCKED), forecast its SKU and       *)
(* record what came of it; when all tasks have left the loop the run is    *)
(* finalised.  Every statement sent to Postgres is a step of its own, and  *)
(* every statement may fail: it was not applied, or it was applied and the *)
(* answer was lost.  The process that drives a run may die at any step.    *)
(***************************************************************************)
EXTENDS Naturals, FiniteSets

CONSTANTS
    Runs,         \* the run_id values (BIGSERIAL), numbers
    Panel,        \* the SKUs of sales_panel, numbered as ORDER BY sku sorts them
    Unknown,      \* SKUs a caller may name that sales_panel does not hold
    Concurrency,  \* the values of `concurrency` a run may be created with
    MaxAttempts,  \* MAX_ATTEMPTS, 2 in the code
    MaxFaults,    \* bound on the failed statements and crashes of a behaviour
    NoWorker,     \* claimed_by IS NULL
    NoSku         \* the task holds no job

Skus    == Panel \cup Unknown
Workers == UNION {0 .. (c - 1) : c \in Concurrency}   \* the tasks w0, w1, ...

ASSUME RunsAssumption        == Runs \subseteq Nat
ASSUME SkusAssumption        == Skus \subseteq Nat
ASSUME ConcurrencyAssumption == Concurrency \subseteq Nat /\ 1 \in Concurrency
ASSUME AttemptsAssumption    == MaxAttempts \in Nat \ {0}
ASSUME FaultsAssumption      == MaxFaults \in Nat
ASSUME NullAssumption        == NoWorker \notin Workers /\ NoSku \notin Skus

VARIABLES
    run,     \* forecast_runs.status, "absent" while there is no such row
    config,  \* forecast_runs.config_json: who created the run, and concurrency
    job,     \* forecast_jobs: [status, attempts, claimed_by] of each (run, SKU)
    loop,    \* where the claim loop of the run is
    task,    \* [pc, sku, seen] of each task of the loop
    result,  \* the (run, SKU) pairs that have a sku_runs row
    faults   \* how many more faults this behaviour may suffer

vars == <<run, config, job, loop, task, result, faults>>

-----------------------------------------------------------------------------
RunStatus == {"absent", "running", "completed", "failed"}
JobStatus == {"none", "queued", "claimed", "completed", "failed"}
LoopState == {"none", "enqueued", "working", "counted", "errored", "returned", "dead"}
Active    == {"idle", "locked", "dispatch", "succeeded", "erred", "decided"}
Busy      == {"dispatch", "succeeded", "erred", "decided"}
Stopped   == {"off", "drained", "aborted"}

Job  == [status : JobStatus, attempts : Nat, claimed_by : Workers \cup {NoWorker}]
Task == [pc : Active \cup Stopped \cup {"starting"}, sku : Skus \cup {NoSku}, seen : Nat]

NoJob     == [status |-> "none", attempts |-> 0, claimed_by |-> NoWorker]
QueuedJob == [status |-> "queued", attempts |-> 0, claimed_by |-> NoWorker]
At(pc)    == [pc |-> pc, sku |-> NoSku, seen |-> 0]

TypeOK ==
    /\ run    \in [Runs -> RunStatus]
    /\ config \in [Runs -> [trigger : {"api", "cli"}, concurrency : Concurrency]]
    /\ job    \in [Runs -> [Skus -> Job]]
    /\ loop   \in [Runs -> LoopState]
    /\ task   \in [Runs -> [Workers -> Task]]
    /\ result \subseteq Runs \X Skus
    /\ faults \in 0 .. MaxFaults

Init ==
    /\ run    = [r \in Runs |-> "absent"]
    /\ config = [r \in Runs |-> [trigger |-> "cli", concurrency |-> 1]]
    /\ job    = [r \in Runs |-> [s \in Skus |-> NoJob]]
    /\ loop   = [r \in Runs |-> "none"]
    /\ task   = [r \in Runs |-> [w \in Workers |-> At("off")]]
    /\ result = {}
    /\ faults = MaxFaults

-----------------------------------------------------------------------------
(* Names for the updates the statements make.                              *)

SetTask(r, w, t) == task' = [task EXCEPT ![r][w] = t]
SetJob(r, s, j)  == job' = [job EXCEPT ![r][s] = j]
SetLoop(r, l)    == loop' = [loop EXCEPT ![r] = l]
SetRun(r, st)    == run' = [run EXCEPT ![r] = st]

Fault == faults > 0 /\ faults' = faults - 1

\* The update of a claim: status, claimed_by, and attempts = attempts + 1.
ClaimedJob(j, w) == [status |-> "claimed", attempts |-> j.attempts + 1, claimed_by |-> w]

\* The update of mark_completed touches the status alone.
CompletedJob(j) == [j EXCEPT !.status = "completed"]

\* The update mark_failed_or_requeue chooses from the attempts it has read.
UnboundedRetry(j, attempts) ==
    IF attempts <= MaxAttempts
    THEN [j EXCEPT !.status = "queued", !.claimed_by = NoWorker]
    ELSE [j EXCEPT !.status = "failed"]
FailsAtOnce(j, attempts) == [j EXCEPT !.status = "failed"]
FailedOrRequeued(j, attempts) ==
    IF attempts < MaxAttempts
    THEN [j EXCEPT !.status = "queued", !.claimed_by = NoWorker]
    ELSE [j EXCEPT !.status = "failed"]

-----------------------------------------------------------------------------
(* Creating a run: forecast_runs and forecast_jobs in one transaction.     *)

Enqueue(r, S, trigger, c) ==
    /\ loop[r] = "none"
    /\ \A q \in Runs : q < r => loop[q] # "none"
    /\ SetRun(r, "running")
    /\ config' = [config EXCEPT ![r] = [trigger |-> trigger, concurrency |-> c]]
    /\ job' = [job EXCEPT ![r] = [s \in Skus |-> IF s \in S THEN QueuedJob ELSE NoJob]]
    /\ SetLoop(r, "enqueued")
    /\ UNCHANGED <<task, result, faults>>

\* POST /runs: every SKU of the panel, or those of the request the panel
\* holds.  Without a JSON body concurrency is 0 (usize::default), not 8.
CreateRun(r) ==
    \E requested \in SUBSET Skus, c \in Concurrency :
        Enqueue(r, requested \cap Panel, "api", c)

\* POST /skus/{sku}/forecast: one job, whatever the SKU.
ForecastSku(r) == \E s \in Skus : Enqueue(r, {s}, "api", 1)

\* `controller monthly-run --concurrency c`.
MonthlyRun(r) == \E c \in Concurrency : Enqueue(r, Panel, "cli", c)

-----------------------------------------------------------------------------
(* A task of the claim loop.                                               *)

TaskStarts(r, w) ==
    /\ task[r][w].pc = "starting"
    /\ SetTask(r, w, At("idle"))
    /\ UNCHANGED <<run, config, job, loop, result, faults>>

\* WorkerClient::new fails in the task: it returns without a claim.
TaskInitFails(r, w) ==
    /\ task[r][w].pc = "starting"
    /\ Fault
    /\ SetTask(r, w, At("aborted"))
    /\ UNCHANGED <<run, config, job, loop, result>>

Queued(r) == {s \in Skus : job[r][s].status = "queued"}
Locked(r) == {task[r][w].sku : w \in {v \in Workers : task[r][v].pc = "locked"}}

\* The rows FOR UPDATE SKIP LOCKED may return.
ClaimableIgnoringLocks(r) == Queued(r)
ClaimableWithClaimed(r) ==
    {s \in Skus : job[r][s].status \in {"queued", "claimed"}} \ Locked(r)
Claimable(r) == Queued(r) \ Locked(r)

\* SELECT ... ORDER BY job_id FOR UPDATE SKIP LOCKED LIMIT 1.
LockNext(r, w) ==
    /\ task[r][w].pc = "idle"
    /\ \E s \in Claimable(r) :
        /\ \A q \in Claimable(r) : s <= q
        /\ SetTask(r, w, [pc |-> "locked", sku |-> s, seen |-> 0])
    /\ UNCHANGED <<run, config, job, loop, result, faults>>

\* UPDATE ... SET status = 'claimed', and COMMIT.
CommitClaim(r, w) ==
    /\ task[r][w].pc = "locked"
    /\ LET s == task[r][w].sku
       IN /\ SetJob(r, s, ClaimedJob(job[r][s], w))
          /\ SetTask(r, w, [pc |-> "dispatch", sku |-> s, seen |-> 0])
    /\ UNCHANGED <<run, config, loop, result, faults>>

\* claim_one returns an error after the row was locked: the transaction was
\* rolled back, or it was committed and the answer was lost.  The task sleeps
\* and claims again; it does not know of the job.
ClaimFails(r, w) ==
    /\ task[r][w].pc = "locked"
    /\ Fault
    /\ LET s == task[r][w].sku
       IN \/ UNCHANGED job
          \/ SetJob(r, s, ClaimedJob(job[r][s], w))
    /\ SetTask(r, w, At("idle"))
    /\ UNCHANGED <<run, config, loop, result>>

\* claim_one returns None: the task leaves the loop.
KeepPolling(r, w) ==
    /\ task[r][w].pc = "idle"
    /\ Claimable(r) = {}
    /\ UNCHANGED vars
Drain(r, w) ==
    /\ task[r][w].pc = "idle"
    /\ Claimable(r) = {}
    /\ SetTask(r, w, At("drained"))
    /\ UNCHANGED <<run, config, job, loop, result, faults>>

\* dispatch_for_run returns Ok: persist_result has committed.  It cannot for a
\* SKU without panel rows.
DispatchOkUnsaved(r, w) ==
    /\ task[r][w].pc = "dispatch"
    /\ SetTask(r, w, [task[r][w] EXCEPT !.pc = "succeeded"])
    /\ UNCHANGED <<run, config, job, loop, result, faults>>
DispatchOk(r, w) ==
    /\ task[r][w].pc = "dispatch"
    /\ task[r][w].sku \in Panel
    /\ result' = result \cup {<<r, task[r][w].sku>>}
    /\ SetTask(r, w, [task[r][w] EXCEPT !.pc = "succeeded"])
    /\ UNCHANGED <<run, config, job, loop, faults>>

\* dispatch_for_run returns Err: nothing was saved, or the commit of
\* persist_result was applied and its answer lost.
DispatchErr(r, w) ==
    /\ task[r][w].pc = "dispatch"
    /\ \/ UNCHANGED result
       \/ /\ task[r][w].sku \in Panel
          /\ result' = result \cup {<<r, task[r][w].sku>>}
    /\ SetTask(r, w, [task[r][w] EXCEPT !.pc = "erred"])
    /\ UNCHANGED <<run, config, job, loop, faults>>

MarkCompleted(r, w) ==
    /\ task[r][w].pc = "succeeded"
    /\ LET s == task[r][w].sku IN SetJob(r, s, CompletedJob(job[r][s]))
    /\ SetTask(r, w, At("idle"))
    /\ UNCHANGED <<run, config, loop, result, faults>>

\* The error of mark_completed is only logged.
MarkCompletedFails(r, w) ==
    /\ task[r][w].pc = "succeeded"
    /\ Fault
    /\ LET s == task[r][w].sku
       IN \/ UNCHANGED job
          \/ SetJob(r, s, CompletedJob(job[r][s]))
    /\ SetTask(r, w, At("idle"))
    /\ UNCHANGED <<run, config, loop, result>>

\* mark_failed_or_requeue is two statements: SELECT attempts ...
ReadAttempts(r, w) ==
    /\ task[r][w].pc = "erred"
    /\ LET s == task[r][w].sku
       IN SetTask(r, w, [pc |-> "decided", sku |-> s, seen |-> job[r][s].attempts])
    /\ UNCHANGED <<run, config, job, loop, result, faults>>

\* ... and the UPDATE that the attempts read decide.
RequeueAndLeave(r, w) ==
    /\ task[r][w].pc = "decided"
    /\ LET s == task[r][w].sku
       IN SetJob(r, s, FailedOrRequeued(job[r][s], task[r][w].seen))
    /\ SetTask(r, w, At("drained"))
    /\ UNCHANGED <<run, config, loop, result, faults>>
MarkFailedOrRequeue(r, w) ==
    /\ task[r][w].pc = "decided"
    /\ LET s == task[r][w].sku
       IN SetJob(r, s, FailedOrRequeued(job[r][s], task[r][w].seen))
    /\ SetTask(r, w, At("idle"))
    /\ UNCHANGED <<run, config, loop, result, faults>>

\* Either statement fails; the error is only logged.
MarkFailedOrRequeueFails(r, w) ==
    /\ task[r][w].pc \in {"erred", "decided"}
    /\ Fault
    /\ LET s == task[r][w].sku
       IN \/ UNCHANGED job
          \/ /\ task[r][w].pc = "decided"
             /\ SetJob(r, s, FailedOrRequeued(job[r][s], task[r][w].seen))
    /\ SetTask(r, w, At("idle"))
    /\ UNCHANGED <<run, config, loop, result>>

-----------------------------------------------------------------------------
(* The loop itself: spawn_run_loop, run_monthly, finalize_run_if_done.     *)

\* run_monthly spawns the tasks w0 .. w{concurrency - 1}.
Spawn(r) ==
    /\ loop[r] = "enqueued"
    /\ SetLoop(r, "working")
    /\ task' = [task EXCEPT ![r] =
                   [w \in Workers |-> At(IF w < config[r].concurrency THEN "starting" ELSE "off")]]
    /\ UNCHANGED <<run, config, job, result, faults>>

\* spawn_run_loop cannot build its WorkerClient.  The CLI builds it first.
SpawnFails(r) ==
    /\ loop[r] = "enqueued"
    /\ config[r].trigger = "api"
    /\ Fault
    /\ SetLoop(r, "errored")
    /\ UNCHANGED <<run, config, job, task, result>>

Joined(r) == loop[r] = "working" /\ \A w \in Workers : task[r][w].pc \in Stopped

\* The jobs finalize_run_if_done counts as open.
OpenJobsMissingClaimed(r) == {s \in Skus : job[r][s].status = "queued"}
OpenJobs(r) == {s \in Skus : job[r][s].status \in {"queued", "claimed"}}

\* join_all has returned; SELECT COUNT(*) FILTER (open).
FinalizeCount(r) ==
    /\ Joined(r)
    /\ SetLoop(r, IF OpenJobs(r) = {} THEN "counted" ELSE "returned")
    /\ UNCHANGED <<run, config, job, task, result, faults>>

\* UPDATE forecast_runs SET status = 'completed'.
FinalizeUpdate(r) ==
    /\ loop[r] = "counted"
    /\ SetRun(r, "completed")
    /\ SetLoop(r, "returned")
    /\ UNCHANGED <<config, job, task, result, faults>>

\* Either statement of finalize_run_if_done fails: run_monthly returns Err.
FinalizeFails(r) ==
    /\ Joined(r) \/ loop[r] = "counted"
    /\ Fault
    /\ \/ UNCHANGED run
       \/ loop[r] = "counted" /\ SetRun(r, "completed")
    /\ SetLoop(r, "errored")
    /\ UNCHANGED <<config, job, task, result>>

\* The API marks the run failed; the CLI exits with the error.
MarkRunFailed(r) ==
    /\ loop[r] = "errored"
    /\ IF config[r].trigger = "api" THEN SetRun(r, "failed") ELSE UNCHANGED run
    /\ SetLoop(r, "returned")
    /\ UNCHANGED <<config, job, task, result, faults>>

\* `let _ =`: an error of that UPDATE is dropped.
MarkRunFailedFails(r) ==
    /\ loop[r] = "errored"
    /\ config[r].trigger = "api"
    /\ Fault
    /\ SetLoop(r, "returned")
    /\ UNCHANGED <<run, config, job, task, result>>

\* The process that drives the run dies.  Open transactions are rolled back,
\* so row locks go with it; nothing looks for its claimed jobs later.
Crash(r) ==
    /\ loop[r] \in {"enqueued", "working", "counted", "errored"}
    /\ Fault
    /\ SetLoop(r, "dead")
    /\ task' = [task EXCEPT ![r] = [w \in Workers |-> At("off")]]
    /\ UNCHANGED <<run, config, job, result>>

-----------------------------------------------------------------------------
Create(r) == CreateRun(r) \/ ForecastSku(r) \/ MonthlyRun(r)

WorkerStep(r, w) ==
    \/ TaskStarts(r, w) \/ LockNext(r, w) \/ CommitClaim(r, w) \/ Drain(r, w)
    \/ DispatchOk(r, w) \/ DispatchErr(r, w) \/ MarkCompleted(r, w)
    \/ ReadAttempts(r, w) \/ MarkFailedOrRequeue(r, w)

WorkerFault(r, w) ==
    \/ TaskInitFails(r, w) \/ ClaimFails(r, w) \/ MarkCompletedFails(r, w)
    \/ MarkFailedOrRequeueFails(r, w)

LoopStep(r) == Spawn(r) \/ FinalizeCount(r) \/ FinalizeUpdate(r) \/ MarkRunFailed(r)

LoopFault(r) == SpawnFails(r) \/ FinalizeFails(r) \/ MarkRunFailedFails(r) \/ Crash(r)

\* Every loop that was ever started has come to an end.
AllEnded ==
    /\ \A r \in Runs : loop[r] \in {"returned", "dead"}
    /\ UNCHANGED vars

Next ==
    \/ \E r \in Runs :
        \/ Create(r) \/ LoopStep(r) \/ LoopFault(r)
        \/ \E w \in Workers : WorkerStep(r, w) \/ WorkerFault(r, w)
    \/ AllEnded

Spec == Init /\ [][Next]_vars

\* tokio polls every task that is ready, Postgres answers, and an HTTP call to
\* the worker returns within the client's 30 minutes: a task, and the loop that
\* joins the tasks, is never left standing.  Nothing obliges anyone to create a
\* run, and faults need not happen.
Fairness ==
    /\ \A r \in Runs : WF_vars(LoopStep(r))
    /\ \A r \in Runs, w \in Workers : WF_vars(WorkerStep(r, w))

FairSpec == Spec /\ Fairness

-----------------------------------------------------------------------------
(* Properties.                                                             *)

\* FOR UPDATE SKIP LOCKED and the claim keep tasks apart (queue.rs:82-83,
\* "parallel workers don't pick the same row"): no two tasks of a run ever
\* hold, forecast or settle the same SKU, whatever was requeued in between.
ClaimExclusive ==
    \A r \in Runs : \A v, w \in Workers :
        /\ v # w
        /\ task[r][v].sku # NoSku
        => task[r][v].sku # task[r][w].sku

\* mark_failed_or_requeue decides on attempts it read in an earlier statement;
\* still no job is claimed more than MaxAttempts times, and none is given up
\* before its attempts are used.
AttemptsBounded ==
    \A r \in Runs, s \in Skus :
        /\ job[r][s].attempts <= MaxAttempts
        /\ job[r][s].status = "failed" => job[r][s].attempts = MaxAttempts

\* The dashboard shows a completed job as forecast: its sku_runs row is there,
\* since persist_result has committed before mark_completed is sent.
CompletedHasResult ==
    \A r \in Runs, s \in Skus :
        job[r][s].status = "completed" => <<r, s>> \in result

\* A run is completed only over completed or failed jobs (queue.rs:165), though
\* counting and updating are two statements, and it stays so.
CompletedRunSettled ==
    \A r \in Runs, s \in Skus :
        run[r] = "completed" => job[r][s].status \in {"none", "completed", "failed"}

\* A task that sees no claimable job leaves for good, even while another task
\* may yet requeue one; the requeued job is nevertheless claimed again, because
\* the task that requeues it keeps looping.  Once every task has stopped and one
\* of them left by itself, nothing is queued.
NoneLeftBehind ==
    \A r \in Runs :
        /\ \A w \in Workers : task[r][w].pc \in Stopped
        /\ \E w \in Workers : task[r][w].pc = "drained"
        => Queued(r) = {}

\* What PROJECT_OVERVIEW_TR.md:426 promises of `curl -X POST .../api/runs`
\* ("run the whole portfolio") and queue.rs:58-59 wants to avoid: when the loop
\* of a run has returned, no job of the run is still queued.
NoneQueuedForever ==
    \A r \in Runs : loop[r] = "returned" => Queued(r) = {}

\* The abstract view of a job: what of it the run's promise speaks of.
OutcomeOf(j) ==
    CASE j.status = "none" -> "none"
      [] j.status \in {"queued", "claimed"} -> "open"
      [] OTHER -> j.status

OutcomeView == [r \in Runs |-> [s \in Skus |-> OutcomeOf(job[r][s])]]
TriesView   == [r \in Runs |-> [s \in Skus |-> job[r][s].attempts]]

Lifecycle ==
    INSTANCE RunLifecycle WITH status <- run, outcome <- OutcomeView, tries <- TriesView

\* The queue implements RunLifecycle: settled jobs never reopen, each claim is
\* one try, runs close over settled jobs only, and nothing revives a closed run.
ImplementsLifecycle == Lifecycle!Spec

\* With no fault, a run whose loop has at least one task is completed: failing
\* forecasts, early exits and requeues cannot keep it running.
RunCompletes ==
    \A r \in Runs :
        (loop[r] = "enqueued" /\ config[r].concurrency > 0)
            ~> (run[r] = "completed" \/ faults < MaxFaults)

\* Whatever fails on the way, a started claim loop comes to an end: it returns,
\* or its process is dead.
LoopEnds ==
    \A r \in Runs : (loop[r] = "enqueued") ~> (loop[r] \in {"returned", "dead"})

-----------------------------------------------------------------------------
(* The inductive invariant behind the safety properties.                   *)

\* A task past its claim owns the job: it is claimed, and by this task.
\* This is what a step of another task could break, and what makes the
\* read-then-update of mark_failed_or_requeue safe.
BusyOwnsJob ==
    \A r \in Runs, w \in Workers :
        task[r][w].pc \in Busy =>
            /\ task[r][w].sku \in Skus
            /\ job[r][task[r][w].sku].status = "claimed"
            /\ job[r][task[r][w].sku].claimed_by = w

\* A row lock is held on a queued job, by one task.
LocksHeld ==
    \A r \in Runs, w \in Workers :
        task[r][w].pc = "locked" =>
            /\ task[r][w].sku \in Skus
            /\ job[r][task[r][w].sku].status = "queued"
            /\ \A v \in Workers \ {w} :
                   task[r][v].pc = "locked" => task[r][v].sku # task[r][w].sku

\* All other tasks hold nothing.
FreeHands ==
    \A r \in Runs, w \in Workers :
        task[r][w].pc \notin Busy \cup {"locked"} => task[r][w].sku = NoSku

\* What the status of a job says of the number of its claims.
AttemptsOfStatus ==
    \A r \in Runs, s \in Skus :
        LET j == job[r][s]
        IN /\ j.attempts <= MaxAttempts
           /\ j.status = "queued" => j.attempts < MaxAttempts
           /\ j.status \in {"claimed", "completed"} => j.attempts > 0
           /\ j.status = "failed" => j.attempts = MaxAttempts

\* The attempts read are still those of the job when they are used.
SeenIsCurrent ==
    \A r \in Runs, w \in Workers :
        task[r][w].pc = "decided" => task[r][w].seen = job[r][task[r][w].sku].attempts

\* Forecasts are saved before they are reported.
SavedBeforeReported ==
    /\ CompletedHasResult
    /\ \A r \in Runs, w \in Workers :
           task[r][w].pc = "succeeded" => <<r, task[r][w].sku>> \in result

\* Where a run is, its loop is, and its tasks are.
RunFollowsLoop ==
    \A r \in Runs :
        /\ run[r] = "absent" <=> loop[r] = "none"
        /\ loop[r] = "none" => \A s \in Skus : job[r][s] = NoJob
        /\ loop[r] \in {"none", "enqueued", "dead"} => \A w \in Workers : task[r][w].pc = "off"
        /\ loop[r] # "working" => \A w \in Workers : task[r][w].pc \in Stopped
        /\ loop[r] \in {"enqueued", "working", "counted"} => run[r] = "running"
        /\ loop[r] = "counted" => OpenJobs(r) = {}
        /\ loop[r] = "errored" => run[r] \in {"running", "completed"}
        /\ run[r] = "completed" => OpenJobs(r) = {}

\* As long as a task has left and a job is queued, another task is in the loop.
SomeoneStillLooks ==
    \A r \in Runs :
        /\ \E w \in Workers : task[r][w].pc = "drained"
        /\ Queued(r) # {}
        => \E w \in Workers : task[r][w].pc \in Active

QueueInvariant ==
    /\ TypeOK
    /\ BusyOwnsJob
    /\ LocksHeld
    /\ FreeHands
    /\ AttemptsOfStatus
    /\ SeenIsCurrent
    /\ SavedBeforeReported
    /\ RunFollowsLoop
    /\ SomeoneStillLooks
=============================================================================
