--------------------------- MODULE JobQueueProofs ---------------------------
(* Proofs about JobQueue, for every value of its constants.                *)
EXTENDS JobQueue, TLAPS

(***************************************************************************)
(* What the records and the pointwise updates are.                         *)
(***************************************************************************)

\* One is a concurrency, so NoSku and NoWorker are the only odd values.
LEMMA WorkersAreNumbers == Workers \subseteq Nat
BY ConcurrencyAssumption DEF Workers

\* The tuple of a task that holds nothing.
LEMMA AtIsTask == \A pc \in Stopped \cup {"idle", "starting"} :
    /\ At(pc) \in Task
    /\ At(pc).pc = pc
    /\ At(pc).sku = NoSku
BY DEF At, Task, Active, Stopped

\* The three updates of a forecast_jobs row, read by the fields they change.
LEMMA JobUpdates ==
    ASSUME NEW j \in Job, NEW w \in Workers, NEW n \in Nat
    PROVE  /\ ClaimedJob(j, w) \in Job
           /\ ClaimedJob(j, w).status = "claimed"
           /\ ClaimedJob(j, w).claimed_by = w
           /\ ClaimedJob(j, w).attempts = j.attempts + 1
           /\ CompletedJob(j) \in Job
           /\ CompletedJob(j).status = "completed"
           /\ CompletedJob(j).attempts = j.attempts
           /\ FailedOrRequeued(j, n) \in Job
           /\ FailedOrRequeued(j, n).attempts = j.attempts
           /\ FailedOrRequeued(j, n).status = IF n < MaxAttempts THEN "queued" ELSE "failed"
<1> USE DEF Job, JobStatus
<1>1. /\ ClaimedJob(j, w) \in Job
      /\ ClaimedJob(j, w).status = "claimed"
      /\ ClaimedJob(j, w).claimed_by = w
      /\ ClaimedJob(j, w).attempts = j.attempts + 1
  BY DEF ClaimedJob
<1>2. /\ CompletedJob(j) \in Job
      /\ CompletedJob(j).status = "completed"
      /\ CompletedJob(j).attempts = j.attempts
  BY DEF CompletedJob
<1>3. CASE n < MaxAttempts
  <2>1. /\ FailedOrRequeued(j, n) \in Job
        /\ FailedOrRequeued(j, n).status = "queued"
        /\ FailedOrRequeued(j, n).attempts = j.attempts
    BY <1>3 DEF FailedOrRequeued
  <2>2. QED BY <1>1, <1>2, <1>3, <2>1
<1>4. CASE ~ (n < MaxAttempts)
  <2>1. /\ FailedOrRequeued(j, n) \in Job
        /\ FailedOrRequeued(j, n).status = "failed"
        /\ FailedOrRequeued(j, n).attempts = j.attempts
    BY <1>4 DEF FailedOrRequeued
  <2>2. QED BY <1>1, <1>2, <1>4, <2>1
<1>5. QED BY <1>3, <1>4

LEMMA TaskUpdate ==
    ASSUME TypeOK, NEW r \in Runs, NEW w \in Workers, NEW t, SetTask(r, w, t)
    PROVE  \A q \in Runs, v \in Workers :
               task'[q][v] = IF q = r /\ v = w THEN t ELSE task[q][v]
BY DEF TypeOK, SetTask

LEMMA JobUpdate ==
    ASSUME TypeOK, NEW r \in Runs, NEW s \in Skus, NEW j, SetJob(r, s, j)
    PROVE  \A q \in Runs, k \in Skus :
               job'[q][k] = IF q = r /\ k = s THEN j ELSE job[q][k]
BY DEF TypeOK, SetJob

LEMMA LoopUpdate ==
    ASSUME TypeOK, NEW r \in Runs, NEW l, SetLoop(r, l)
    PROVE  \A q \in Runs : loop'[q] = IF q = r THEN l ELSE loop[q]
BY DEF TypeOK, SetLoop

LEMMA RunUpdate ==
    ASSUME TypeOK, NEW r \in Runs, NEW st, SetRun(r, st)
    PROVE  \A q \in Runs : run'[q] = IF q = r THEN st ELSE run[q]
BY DEF TypeOK, SetRun

-----------------------------------------------------------------------------
(***************************************************************************)
(* A step of one task does not disturb the others.                         *)
(***************************************************************************)

\* Two tasks that hold a job hold different ones: both claimed would need two
\* owners, a lock is on a queued job, and locks are disjoint.
LEMMA HoldersDiffer ==
    ASSUME QueueInvariant, NEW r \in Runs, NEW v \in Workers, NEW w \in Workers, v # w,
           task[r][v].pc \in Busy \cup {"locked"}, task[r][w].pc \in Busy \cup {"locked"}
    PROVE  task[r][v].sku # task[r][w].sku
<1> USE DEF QueueInvariant
<1>1. CASE task[r][v].pc = "locked" /\ task[r][w].pc = "locked"
  BY <1>1 DEF LocksHeld
<1>2. CASE task[r][v].pc \in Busy /\ task[r][w].pc \in Busy
  BY <1>2 DEF BusyOwnsJob
<1>3. CASE task[r][v].pc \in Busy /\ task[r][w].pc = "locked"
  BY <1>3 DEF BusyOwnsJob, LocksHeld
<1>4. CASE task[r][v].pc = "locked" /\ task[r][w].pc \in Busy
  BY <1>4 DEF BusyOwnsJob, LocksHeld
<1>5. QED BY <1>1, <1>2, <1>3, <1>4

\* A task moves and no job changes.
LEMMA TaskMoves ==
    ASSUME QueueInvariant, NEW r \in Runs, NEW w \in Workers, NEW t \in Task,
           SetTask(r, w, t), UNCHANGED <<run, config, job, loop>>,
           faults' \in 0 .. MaxFaults, result \subseteq result', result' \subseteq Runs \X Skus,
           task[r][w].pc \notin Stopped,
           t.pc \in Busy => /\ t.sku \in Skus
                            /\ job[r][t.sku].status = "claimed"
                            /\ job[r][t.sku].claimed_by = w,
           t.pc = "locked" => /\ t.sku \in Skus
                              /\ job[r][t.sku].status = "queued"
                              /\ \A v \in Workers \ {w} :
                                     task[r][v].pc = "locked" => task[r][v].sku # t.sku,
           t.pc \notin Busy \cup {"locked"} => t.sku = NoSku,
           t.pc = "decided" => t.seen = job[r][t.sku].attempts,
           t.pc = "succeeded" => <<r, t.sku>> \in result',
           \/ t.pc \in Active
           \/ t.pc = "aborted" /\ task[r][w].pc \notin Active
           \/ Queued(r) # {} => \E v \in Workers \ {w} : task[r][v].pc \in Active
    PROVE  QueueInvariant'
<1>0. TypeOK BY DEF QueueInvariant
<1>1. \A q \in Runs, v \in Workers : task'[q][v] = IF q = r /\ v = w THEN t ELSE task[q][v]
  BY <1>0, TaskUpdate
<1>2. TypeOK'
  BY <1>0 DEF TypeOK, SetTask
<1>3. BusyOwnsJob'
  BY <1>1 DEF QueueInvariant, BusyOwnsJob
<1>4. LocksHeld'
  <2> SUFFICES ASSUME NEW q \in Runs, NEW u \in Workers, task'[q][u].pc = "locked"
               PROVE  /\ task'[q][u].sku \in Skus
                      /\ job[q][task'[q][u].sku].status = "queued"
                      /\ \A v \in Workers \ {u} :
                             task'[q][v].pc = "locked" => task'[q][v].sku # task'[q][u].sku
    BY DEF LocksHeld
  <2>1. CASE q = r /\ u = w
    BY <1>1, <2>1
  <2>2. CASE ~ (q = r /\ u = w)
    BY <1>1, <2>2 DEF QueueInvariant, LocksHeld
  <2>3. QED BY <2>1, <2>2
<1>5. FreeHands'
  BY <1>1 DEF QueueInvariant, FreeHands
<1>6. AttemptsOfStatus'
  BY DEF QueueInvariant, AttemptsOfStatus
<1>7. SeenIsCurrent'
  BY <1>1 DEF QueueInvariant, SeenIsCurrent
<1>8. SavedBeforeReported'
  BY <1>1 DEF QueueInvariant, SavedBeforeReported, CompletedHasResult
<1>9. RunFollowsLoop'
  BY <1>1 DEF QueueInvariant, RunFollowsLoop, OpenJobs
<1>10. SomeoneStillLooks'
  <2> SUFFICES ASSUME NEW q \in Runs, NEW u \in Workers, task'[q][u].pc = "drained",
                      Queued(q) # {}
               PROVE  \E v \in Workers : task'[q][v].pc \in Active
    BY DEF SomeoneStillLooks, Queued
  <2>1. CASE q # r
    BY <1>1, <2>1 DEF QueueInvariant, SomeoneStillLooks
  <2>2. CASE q = r
    <3>1. CASE t.pc \in Active
      BY <1>1, <2>2, <3>1
    <3>2. CASE t.pc = "aborted" /\ task[r][w].pc \notin Active
      BY <1>1, <2>2, <3>2 DEF QueueInvariant, SomeoneStillLooks
    <3>3. CASE Queued(r) # {} => \E v \in Workers \ {w} : task[r][v].pc \in Active
      BY <1>1, <2>2, <3>3
    <3>4. QED BY <3>1, <3>2, <3>3
  <2>3. QED BY <2>1, <2>2
<1>11. QED
  BY <1>2, <1>3, <1>4, <1>5, <1>6, <1>7, <1>8, <1>9, <1>10 DEF QueueInvariant

\* A task updates the row of the job it holds and stays in the loop.
LEMMA TaskUpdatesJob ==
    ASSUME QueueInvariant, NEW r \in Runs, NEW w \in Workers, NEW t \in Task,
           NEW s \in Skus, NEW j \in Job, s = task[r][w].sku,
           task[r][w].pc \in Busy \cup {"locked"},
           SetTask(r, w, t), SetJob(r, s, j), UNCHANGED <<run, config, loop, result>>,
           faults' \in 0 .. MaxFaults,
           \/ t.pc = "idle" /\ t.sku = NoSku
           \/ t.pc = "dispatch" /\ t.sku = s /\ j.status = "claimed" /\ j.claimed_by = w,
           j.attempts <= MaxAttempts,
           j.status = "queued" => j.attempts < MaxAttempts,
           j.status \in {"claimed", "completed"} => j.attempts > 0,
           j.status = "failed" => j.attempts = MaxAttempts,
           j.status = "completed" => <<r, s>> \in result
    PROVE  QueueInvariant'
<1>0. TypeOK BY DEF QueueInvariant
<1>1. \A q \in Runs, v \in Workers : task'[q][v] = IF q = r /\ v = w THEN t ELSE task[q][v]
  BY <1>0, TaskUpdate
<1>2. \A q \in Runs, k \in Skus : job'[q][k] = IF q = r /\ k = s THEN j ELSE job[q][k]
  BY <1>0, JobUpdate
<1>3. t.pc \in Active /\ t.pc \notin {"locked", "decided", "succeeded"} /\ t.pc \notin Stopped
  BY DEF Active, Stopped
<1>4. \A v \in Workers \ {w} : task[r][v].pc \in Busy \cup {"locked"} => task[r][v].sku # s
  BY HoldersDiffer
<1>5. loop[r] = "working"
  BY DEF QueueInvariant, RunFollowsLoop, Busy, Stopped
<1>6. TypeOK'
  BY <1>0 DEF TypeOK, SetTask, SetJob
<1>7. BusyOwnsJob'
  <2> SUFFICES ASSUME NEW q \in Runs, NEW u \in Workers, task'[q][u].pc \in Busy
               PROVE  /\ task'[q][u].sku \in Skus
                      /\ job'[q][task'[q][u].sku].status = "claimed"
                      /\ job'[q][task'[q][u].sku].claimed_by = u
    BY DEF BusyOwnsJob
  <2>1. CASE q = r /\ u = w
    BY <1>1, <1>2, <2>1 DEF Busy
  <2>2. CASE ~ (q = r /\ u = w)
    BY <1>1, <1>2, <1>4, <2>2 DEF QueueInvariant, BusyOwnsJob
  <2>3. QED BY <2>1, <2>2
<1>8. LocksHeld'
  <2> SUFFICES ASSUME NEW q \in Runs, NEW u \in Workers, task'[q][u].pc = "locked"
               PROVE  /\ task'[q][u].sku \in Skus
                      /\ job'[q][task'[q][u].sku].status = "queued"
                      /\ \A v \in Workers \ {u} :
                             task'[q][v].pc = "locked" => task'[q][v].sku # task'[q][u].sku
    BY DEF LocksHeld
  <2>1. ~ (q = r /\ u = w)
    BY <1>1, <1>3
  <2>2. QED
    BY <1>1, <1>2, <1>3, <1>4, <2>1 DEF QueueInvariant, LocksHeld
<1>9. FreeHands'
  BY <1>1 DEF QueueInvariant, FreeHands, Busy
<1>10. AttemptsOfStatus'
  BY <1>2 DEF QueueInvariant, AttemptsOfStatus
<1>11. SeenIsCurrent'
  <2> SUFFICES ASSUME NEW q \in Runs, NEW u \in Workers, task'[q][u].pc = "decided"
               PROVE  task'[q][u].seen = job'[q][task'[q][u].sku].attempts
    BY DEF SeenIsCurrent
  <2>1. ~ (q = r /\ u = w)
    BY <1>1, <1>3
  <2>2. task'[q][u] = task[q][u] /\ task[q][u].pc \in Busy
    BY <1>1, <2>1 DEF Busy
  <2>3. task[q][u].sku \in Skus /\ (q = r => task[q][u].sku # s)
    BY <1>4, <2>1, <2>2 DEF QueueInvariant, BusyOwnsJob
  <2>4. QED
    BY <1>2, <2>2, <2>3 DEF QueueInvariant, SeenIsCurrent
<1>12. SavedBeforeReported'
  BY <1>1, <1>2, <1>3 DEF QueueInvariant, SavedBeforeReported, CompletedHasResult
<1>13. RunFollowsLoop'
  <2> SUFFICES ASSUME NEW q \in Runs PROVE RunFollowsLoop!(q)'
    BY DEF RunFollowsLoop
  <2>1. QED
    BY <1>1, <1>2, <1>5 DEF QueueInvariant, RunFollowsLoop, OpenJobs
<1>14. SomeoneStillLooks'
  <2> SUFFICES ASSUME NEW q \in Runs, NEW u \in Workers, task'[q][u].pc = "drained",
                      Queued(q)' # {}
               PROVE  \E v \in Workers : task'[q][v].pc \in Active
    BY DEF SomeoneStillLooks
  <2>1. CASE q = r
    BY <1>1, <1>3, <2>1
  <2>2. CASE q # r
    BY <1>1, <1>2, <2>2 DEF QueueInvariant, SomeoneStillLooks, Queued
  <2>3. QED BY <2>1, <2>2
<1>15. QED
  BY <1>6, <1>7, <1>8, <1>9, <1>10, <1>11, <1>12, <1>13, <1>14 DEF QueueInvariant

-----------------------------------------------------------------------------
(***************************************************************************)
(* Every action of a task preserves the invariant.                         *)
(***************************************************************************)

LEMMA InitInvariant == Init => QueueInvariant
<1> SUFFICES ASSUME Init PROVE QueueInvariant
  OBVIOUS
<1> USE DEF Init
<1>1. TypeOK
  BY AtIsTask, ConcurrencyAssumption, FaultsAssumption
  DEF TypeOK, RunStatus, LoopState, Job, JobStatus, NoJob, Stopped
<1>2. \A r \in Runs, w \in Workers :
          task[r][w].pc = "off" /\ task[r][w].sku = NoSku /\ task[r][w].pc \in Stopped
  BY AtIsTask DEF Stopped
<1>3. BusyOwnsJob /\ LocksHeld /\ FreeHands /\ SeenIsCurrent /\ SomeoneStillLooks
  BY <1>2 DEF BusyOwnsJob, LocksHeld, FreeHands, SeenIsCurrent, SomeoneStillLooks, Busy
<1>4. AttemptsOfStatus /\ SavedBeforeReported
  BY <1>2, AttemptsAssumption
  DEF AttemptsOfStatus, SavedBeforeReported, CompletedHasResult, NoJob
<1>5. RunFollowsLoop
  BY <1>2 DEF RunFollowsLoop, NoJob
<1>6. QED BY <1>1, <1>3, <1>4, <1>5 DEF QueueInvariant

\* Entering the loop, aborting before it, and leaving it: the task holds no
\* job before and after.  The task that leaves saw every queued job locked by
\* another task, and that one is still in the loop.
LEMMA EnterOrLeaveKeeps ==
    ASSUME QueueInvariant, NEW r \in Runs, NEW w \in Workers,
           TaskStarts(r, w) \/ TaskInitFails(r, w) \/ Drain(r, w)
    PROVE  QueueInvariant'
<1> USE DEF QueueInvariant
<1>1. CASE TaskStarts(r, w)
  <2> DEFINE t == At("idle")
  <2>1. /\ t \in Task /\ t.pc = "idle" /\ t.sku = NoSku
    BY AtIsTask
  <2>2. faults' \in 0 .. MaxFaults /\ result' \subseteq Runs \X Skus
    BY <1>1 DEF TaskStarts, TypeOK
  <2> HIDE DEF t
  <2>3. SetTask(r, w, t)
    BY <1>1 DEF TaskStarts, t
  <2>4. QED
    BY <1>1, <2>1, <2>2, <2>3, TaskMoves DEF TaskStarts, Active, Busy, Stopped
<1>2. CASE TaskInitFails(r, w)
  <2> DEFINE t == At("aborted")
  <2>1. /\ t \in Task /\ t.pc = "aborted" /\ t.sku = NoSku
    BY AtIsTask DEF Stopped
  <2>2. faults' \in 0 .. MaxFaults /\ result' \subseteq Runs \X Skus
    BY <1>2, FaultsAssumption DEF TaskInitFails, Fault, TypeOK
  <2> HIDE DEF t
  <2>3. SetTask(r, w, t)
    BY <1>2 DEF TaskInitFails, t
  <2>4. QED
    BY <1>2, <2>1, <2>2, <2>3, TaskMoves DEF TaskInitFails, Active, Busy, Stopped
<1>3. CASE Drain(r, w)
  <2> DEFINE t == At("drained")
  <2>1. /\ t \in Task /\ t.pc = "drained" /\ t.sku = NoSku
    BY AtIsTask DEF Stopped
  <2>2. faults' \in 0 .. MaxFaults /\ result' \subseteq Runs \X Skus
    BY <1>3 DEF Drain, TypeOK
  <2> HIDE DEF t
  <2>3. SetTask(r, w, t)
    BY <1>3 DEF Drain, t
  <2>4. Queued(r) # {} => \E v \in Workers \ {w} : task[r][v].pc \in Active
    BY <1>3 DEF Drain, Claimable, Locked, Active
  <2>5. QED
    BY <1>3, <2>1, <2>2, <2>3, <2>4, TaskMoves DEF Drain, Active, Busy, Stopped
<1>4. QED BY <1>1, <1>2, <1>3

\* SKIP LOCKED returns a row no other task has locked.
LEMMA LockNextKeeps ==
    ASSUME QueueInvariant, NEW r \in Runs, NEW w \in Workers, LockNext(r, w)
    PROVE  QueueInvariant'
<1>1. PICK s \in Claimable(r) : SetTask(r, w, [pc |-> "locked", sku |-> s, seen |-> 0])
  BY DEF LockNext
<1> DEFINE t == [pc |-> "locked", sku |-> s, seen |-> 0]
<1>2. s \in Skus /\ job[r][s].status = "queued" /\ s \notin Locked(r)
  BY <1>1 DEF Claimable, Queued
<1>3. t \in Task /\ t.pc = "locked" /\ t.sku = s
  BY <1>2 DEF Task, Active
<1> HIDE DEF t
<1>4. SetTask(r, w, t)
  BY <1>1 DEF t
<1>5. \A v \in Workers \ {w} : task[r][v].pc = "locked" => task[r][v].sku # s
  BY <1>2 DEF Locked
<1>6. QED
  BY <1>2, <1>3, <1>4, <1>5, TaskMoves
  DEF LockNext, QueueInvariant, TypeOK, Active, Busy, Stopped

\* Forecasting changes the sku_runs of the task's own job and nothing else.
LEMMA DispatchKeeps ==
    ASSUME QueueInvariant, NEW r \in Runs, NEW w \in Workers,
           DispatchOk(r, w) \/ DispatchErr(r, w)
    PROVE  QueueInvariant'
<1> DEFINE pc == IF DispatchOk(r, w) THEN "succeeded" ELSE "erred"
           t  == [task[r][w] EXCEPT !.pc = pc]
<1>1. /\ task[r][w] \in Task
      /\ task[r][w].pc = "dispatch"
      /\ task[r][w].sku \in Skus
      /\ job[r][task[r][w].sku].status = "claimed"
      /\ job[r][task[r][w].sku].claimed_by = w
  BY DEF QueueInvariant, TypeOK, BusyOwnsJob, DispatchOk, DispatchErr, Busy
<1>2. /\ t \in Task
      /\ t.pc = pc
      /\ t.sku = task[r][w].sku
      /\ pc \in {"succeeded", "erred"}
  BY <1>1 DEF Task, Active
<1>3. SetTask(r, w, t)
  BY DEF DispatchOk, DispatchErr
<1>4. /\ result \subseteq result'
      /\ result' \subseteq Runs \X Skus
      /\ pc = "succeeded" => <<r, task[r][w].sku>> \in result'
  BY <1>1 DEF DispatchOk, DispatchErr, QueueInvariant, TypeOK
<1> HIDE DEF t, pc
<1>5. QED
  BY <1>1, <1>2, <1>3, <1>4, TaskMoves
  DEF DispatchOk, DispatchErr, QueueInvariant, TypeOK, Active, Busy, Stopped

LEMMA ReadAttemptsKeeps ==
    ASSUME QueueInvariant, NEW r \in Runs, NEW w \in Workers, ReadAttempts(r, w)
    PROVE  QueueInvariant'
<1> DEFINE s == task[r][w].sku
           t == [pc |-> "decided", sku |-> s, seen |-> job[r][s].attempts]
<1>1. /\ task[r][w].pc = "erred"
      /\ s \in Skus
      /\ job[r][s] \in Job
      /\ job[r][s].status = "claimed"
      /\ job[r][s].claimed_by = w
  BY DEF QueueInvariant, TypeOK, BusyOwnsJob, ReadAttempts, Busy
<1>2. /\ t \in Task
      /\ t.pc = "decided"
      /\ t.sku = s
      /\ t.seen = job[r][s].attempts
  BY <1>1 DEF Task, Active, Job
<1>3. SetTask(r, w, t)
  BY DEF ReadAttempts
<1> HIDE DEF t
<1>4. QED
  BY <1>1, <1>2, <1>3, TaskMoves
  DEF ReadAttempts, QueueInvariant, TypeOK, Active, Busy, Stopped

\* The claim itself, answered or not: one more attempt of a job that had one left.
LEMMA ClaimKeeps ==
    ASSUME QueueInvariant, NEW r \in Runs, NEW w \in Workers,
           CommitClaim(r, w) \/ ClaimFails(r, w)
    PROVE  QueueInvariant'
<1> DEFINE s == task[r][w].sku
           j == ClaimedJob(job[r][s], w)
<1>1. /\ task[r][w].pc = "locked"
      /\ s \in Skus
      /\ job[r][s] \in Job
      /\ job[r][s].status = "queued"
      /\ job[r][s].attempts < MaxAttempts
      /\ job[r][s].attempts \in Nat
  BY DEF QueueInvariant, TypeOK, LocksHeld, AttemptsOfStatus, CommitClaim, ClaimFails, Job
<1>2. /\ j \in Job
      /\ j.status = "claimed"
      /\ j.claimed_by = w
      /\ j.attempts = job[r][s].attempts + 1
  BY <1>1, JobUpdates
<1>3. j.attempts <= MaxAttempts /\ j.attempts > 0
  BY <1>1, <1>2, AttemptsAssumption
<1>4. faults' \in 0 .. MaxFaults
  BY FaultsAssumption DEF QueueInvariant, TypeOK, CommitClaim, ClaimFails, Fault
<1>5. CASE CommitClaim(r, w)
  <2> DEFINE t == [pc |-> "dispatch", sku |-> s, seen |-> 0]
  <2>1. t \in Task /\ t.pc = "dispatch" /\ t.sku = s
    BY <1>1 DEF Task, Active
  <2>2. SetTask(r, w, t) /\ SetJob(r, s, j)
    BY <1>5 DEF CommitClaim
  <2> HIDE DEF t, j
  <2>3. QED
    BY <1>1, <1>2, <1>3, <1>4, <1>5, <2>1, <2>2, TaskUpdatesJob DEF CommitClaim, Busy
<1>6. CASE ClaimFails(r, w)
  <2> DEFINE t == At("idle")
  <2>1. t \in Task /\ t.pc = "idle" /\ t.sku = NoSku
    BY AtIsTask
  <2>2. SetTask(r, w, t)
    BY <1>6 DEF ClaimFails
  <2> HIDE DEF t
  <2>3. CASE UNCHANGED job
    BY <1>1, <1>4, <1>6, <2>1, <2>2, <2>3, TaskMoves
    DEF ClaimFails, QueueInvariant, TypeOK, Active, Busy, Stopped
  <2>4. CASE SetJob(r, s, j)
    <3> HIDE DEF j
    <3>1. QED
      BY <1>1, <1>2, <1>3, <1>4, <1>6, <2>1, <2>2, <2>4, TaskUpdatesJob DEF ClaimFails, Busy
  <2>5. QED BY <1>6, <2>3, <2>4 DEF ClaimFails
<1>7. QED BY <1>5, <1>6

\* Recording the outcome, applied or not, answered or not.  That the attempts
\* read are current makes a failed job one that has used all its attempts.
LEMMA SettleKeeps ==
    ASSUME QueueInvariant, NEW r \in Runs, NEW w \in Workers,
           \/ MarkCompleted(r, w) \/ MarkCompletedFails(r, w)
           \/ MarkFailedOrRequeue(r, w) \/ MarkFailedOrRequeueFails(r, w)
    PROVE  QueueInvariant'
<1> DEFINE s == task[r][w].sku
           n == task[r][w].seen
           t == At("idle")
           c == CompletedJob(job[r][s])
           f == FailedOrRequeued(job[r][s], n)
<1>1. /\ task[r][w].pc \in {"succeeded", "erred", "decided"}
      /\ s \in Skus
      /\ n \in Nat
      /\ job[r][s] \in Job
      /\ job[r][s].attempts \in Nat
      /\ job[r][s].attempts > 0
      /\ job[r][s].attempts <= MaxAttempts
  BY DEF QueueInvariant, TypeOK, BusyOwnsJob, AttemptsOfStatus, Job, Task, Busy,
         MarkCompleted, MarkCompletedFails, MarkFailedOrRequeue, MarkFailedOrRequeueFails
<1>2. t \in Task /\ t.pc = "idle" /\ t.sku = NoSku
  BY AtIsTask
<1>3. SetTask(r, w, t)
  BY DEF MarkCompleted, MarkCompletedFails, MarkFailedOrRequeue, MarkFailedOrRequeueFails
<1>4. /\ faults' \in 0 .. MaxFaults
      /\ UNCHANGED <<run, config, loop, result>>
      /\ result \subseteq Runs \X Skus
  BY FaultsAssumption
  DEF QueueInvariant, TypeOK, Fault,
      MarkCompleted, MarkCompletedFails, MarkFailedOrRequeue, MarkFailedOrRequeueFails
<1>5. \/ UNCHANGED job
      \/ SetJob(r, s, c) /\ task[r][w].pc = "succeeded"
      \/ SetJob(r, s, f) /\ task[r][w].pc = "decided"
  BY DEF MarkCompleted, MarkCompletedFails, MarkFailedOrRequeue, MarkFailedOrRequeueFails
<1>6. c \in Job /\ c.status = "completed" /\ c.attempts = job[r][s].attempts
  BY <1>1, JobUpdates
<1>7. /\ f \in Job
      /\ f.attempts = job[r][s].attempts
      /\ f.status = IF n < MaxAttempts THEN "queued" ELSE "failed"
  BY <1>1, JobUpdates
<1> HIDE DEF t, c, f
<1>8. CASE UNCHANGED job
  BY <1>1, <1>2, <1>3, <1>4, <1>8, TaskMoves DEF Active, Busy, Stopped
<1>9. CASE SetJob(r, s, c) /\ task[r][w].pc = "succeeded"
  <2>1. <<r, s>> \in result
    BY <1>9 DEF QueueInvariant, SavedBeforeReported
  <2>2. QED
    BY <1>1, <1>2, <1>3, <1>4, <1>6, <1>9, <2>1, TaskUpdatesJob DEF Busy
<1>10. CASE SetJob(r, s, f) /\ task[r][w].pc = "decided"
  <2>1. n = job[r][s].attempts
    BY <1>10 DEF QueueInvariant, SeenIsCurrent
  <2>2. /\ f.status = "queued" => f.attempts < MaxAttempts
        /\ f.status = "failed" => f.attempts = MaxAttempts
        /\ f.status \notin {"claimed", "completed"}
    BY <1>1, <1>7, <2>1, AttemptsAssumption
  <2>3. QED
    BY <1>1, <1>2, <1>3, <1>4, <1>7, <1>10, <2>2, TaskUpdatesJob DEF Busy
<1>11. QED BY <1>5, <1>8, <1>9, <1>10

LEMMA WorkerStepKeeps ==
    ASSUME QueueInvariant, NEW r \in Runs, NEW w \in Workers,
           WorkerStep(r, w) \/ WorkerFault(r, w)
    PROVE  QueueInvariant'
BY EnterOrLeaveKeeps, LockNextKeeps, DispatchKeeps, ReadAttemptsKeeps, ClaimKeeps, SettleKeeps
DEF WorkerStep, WorkerFault

-----------------------------------------------------------------------------
(***************************************************************************)
(* Creating a run, and the loop around the tasks.                          *)
(***************************************************************************)

LEMMA EnqueueKeeps ==
    ASSUME QueueInvariant, NEW r \in Runs, NEW S, NEW c \in Concurrency,
           NEW trigger \in {"api", "cli"}, Enqueue(r, S, trigger, c)
    PROVE  QueueInvariant'
<1> USE DEF QueueInvariant, Enqueue
<1>0. TypeOK OBVIOUS
<1>1. \A q \in Runs, k \in Skus :
          job'[q][k] = IF q = r THEN (IF k \in S THEN QueuedJob ELSE NoJob) ELSE job[q][k]
  BY DEF TypeOK
<1>2. \A q \in Runs : loop'[q] = IF q = r THEN "enqueued" ELSE loop[q]
  BY <1>0, LoopUpdate
<1>3. \A q \in Runs : run'[q] = IF q = r THEN "running" ELSE run[q]
  BY <1>0, RunUpdate
<1>4. \A w \in Workers : task[r][w].pc \in Stopped /\ task[r][w].pc \notin Busy \cup {"locked", "decided"}
  BY DEF RunFollowsLoop, Stopped, Busy
<1>5. QueuedJob \in Job /\ NoJob \in Job
  BY DEF QueuedJob, NoJob, Job, JobStatus
<1>6. TypeOK'
  BY <1>5 DEF TypeOK, SetRun, SetLoop, RunStatus, LoopState
<1>7. BusyOwnsJob' /\ LocksHeld' /\ FreeHands' /\ SeenIsCurrent'
  BY <1>1, <1>4 DEF BusyOwnsJob, LocksHeld, FreeHands, SeenIsCurrent, Busy
<1>8. AttemptsOfStatus'
  BY <1>1, AttemptsAssumption DEF AttemptsOfStatus, QueuedJob, NoJob
<1>9. SavedBeforeReported'
  BY <1>1 DEF SavedBeforeReported, CompletedHasResult, QueuedJob, NoJob
<1>10. RunFollowsLoop'
  <2> SUFFICES ASSUME NEW q \in Runs PROVE RunFollowsLoop!(q)'
    BY DEF RunFollowsLoop
  <2>1. CASE q = r
    BY <1>2, <1>3, <1>4, <2>1 DEF RunFollowsLoop
  <2>2. CASE q # r
    <3>1. loop'[q] = loop[q] /\ run'[q] = run[q] /\ job'[q] = job[q] /\ task' = task
      BY <1>2, <1>3, <2>2 DEF TypeOK
    <3>2. OpenJobs(q)' = OpenJobs(q)
      BY <3>1 DEF OpenJobs
    <3> QED BY <3>1, <3>2 DEF RunFollowsLoop
  <2>3. QED BY <2>1, <2>2
<1>11. SomeoneStillLooks'
  <2> SUFFICES ASSUME NEW q \in Runs, NEW u \in Workers, task[q][u].pc = "drained",
                      Queued(q)' # {}
               PROVE  \E v \in Workers : task[q][v].pc \in Active
    BY DEF SomeoneStillLooks
  <2>1. q # r
    BY DEF RunFollowsLoop
  <2>2. QED
    BY <1>1, <2>1 DEF SomeoneStillLooks, Queued
<1>12. QED BY <1>6, <1>7, <1>8, <1>9, <1>10, <1>11

\* The steps of the loop that move no task and no job.
LEMMA LoopMoves ==
    ASSUME QueueInvariant, NEW r \in Runs, NEW l \in LoopState \ {"none", "working", "dead", "enqueued"},
           SetLoop(r, l), UNCHANGED <<config, job, task, result>>,
           faults' \in 0 .. MaxFaults,
           NEW st \in {"running", "completed", "failed"}, run' = [run EXCEPT ![r] = st],
           loop[r] # "none",
           \A w \in Workers : task[r][w].pc \in Stopped,
           l = "counted" => st = "running" /\ OpenJobs(r) = {},
           l = "errored" => st \in {"running", "completed"},
           st = "completed" => OpenJobs(r) = {}
    PROVE  QueueInvariant'
<1> USE DEF QueueInvariant
<1>0. TypeOK OBVIOUS
<1>1. \A q \in Runs : loop'[q] = IF q = r THEN l ELSE loop[q]
  BY <1>0, LoopUpdate
<1>2. \A q \in Runs : run'[q] = IF q = r THEN st ELSE run[q]
  BY <1>0, RunUpdate DEF SetRun
<1>3. TypeOK'
  BY DEF TypeOK, SetLoop, RunStatus
<1>4. BusyOwnsJob' /\ LocksHeld' /\ FreeHands' /\ SeenIsCurrent' /\ AttemptsOfStatus'
  BY DEF BusyOwnsJob, LocksHeld, FreeHands, SeenIsCurrent, AttemptsOfStatus
<1>5. SavedBeforeReported' /\ SomeoneStillLooks'
  BY DEF SavedBeforeReported, CompletedHasResult, SomeoneStillLooks, Queued
<1>6. RunFollowsLoop'
  <2> SUFFICES ASSUME NEW q \in Runs PROVE RunFollowsLoop!(q)'
    BY DEF RunFollowsLoop
  <2>1. CASE q = r
    BY <1>1, <1>2, <2>1 DEF OpenJobs
  <2>2. CASE q # r
    BY <1>1, <1>2, <2>2 DEF RunFollowsLoop, OpenJobs
  <2>3. QED BY <2>1, <2>2
<1>7. QED BY <1>3, <1>4, <1>5, <1>6

\* The tasks are created, or vanish with their process: they hold nothing.
LEMMA TasksReplaced ==
    ASSUME QueueInvariant, NEW r \in Runs, NEW l, NEW pcOf \in [Workers -> {"starting", "off"}],
           \/ l = "working" /\ loop[r] = "enqueued"
           \/ l = "dead" /\ loop[r] # "none" /\ \A w \in Workers : pcOf[w] = "off",
           SetLoop(r, l), task' = [task EXCEPT ![r] = [w \in Workers |-> At(pcOf[w])]],
           UNCHANGED <<run, config, job, result>>, faults' \in 0 .. MaxFaults
    PROVE  QueueInvariant'
<1> USE DEF QueueInvariant
<1>0. TypeOK OBVIOUS
<1>1. \A q \in Runs : loop'[q] = IF q = r THEN l ELSE loop[q]
  BY <1>0, LoopUpdate
<1>2. \A q \in Runs \ {r} : task'[q] = task[q]
  BY <1>0 DEF TypeOK
<1>3. \A w \in Workers : /\ task'[r][w] \in Task
                         /\ task'[r][w].pc = pcOf[w]
                         /\ task'[r][w].sku = NoSku
  BY <1>0, AtIsTask DEF TypeOK, Stopped
<1>4. \A w \in Workers : pcOf[w] \notin Busy \cup {"locked", "drained"}
  BY DEF Busy
<1>5. TypeOK'
  <2>1. task' \in [Runs -> [Workers -> Task]]
    <3>1. [w \in Workers |-> At(pcOf[w])] \in [Workers -> Task]
      BY AtIsTask DEF Stopped
    <3>2. QED BY <1>0, <3>1 DEF TypeOK
  <2>2. QED BY <2>1 DEF TypeOK, SetLoop, LoopState
<1>6. BusyOwnsJob'
  BY <1>2, <1>3, <1>4 DEF BusyOwnsJob
<1>7. LocksHeld'
  BY <1>2, <1>3, <1>4 DEF LocksHeld
<1>8. FreeHands' /\ AttemptsOfStatus'
  BY <1>2, <1>3 DEF FreeHands, AttemptsOfStatus
<1>9. SeenIsCurrent' /\ SavedBeforeReported'
  BY <1>2, <1>3, <1>4 DEF SeenIsCurrent, SavedBeforeReported, CompletedHasResult, Busy
<1>10. RunFollowsLoop'
  <2> SUFFICES ASSUME NEW q \in Runs PROVE RunFollowsLoop!(q)'
    BY DEF RunFollowsLoop
  <2>1. CASE q = r
    BY <1>1, <1>3, <2>1 DEF RunFollowsLoop, OpenJobs, Stopped
  <2>2. CASE q # r
    BY <1>1, <1>2, <2>2 DEF RunFollowsLoop, OpenJobs
  <2>3. QED BY <2>1, <2>2
<1>11. SomeoneStillLooks'
  BY <1>2, <1>3, <1>4 DEF SomeoneStillLooks, Queued
<1>12. QED BY <1>5, <1>6, <1>7, <1>8, <1>9, <1>10, <1>11

LEMMA LoopStepKeeps ==
    ASSUME QueueInvariant, NEW r \in Runs, LoopStep(r) \/ LoopFault(r)
    PROVE  QueueInvariant'
<1>0. TypeOK BY DEF QueueInvariant
<1>1. (Fault \/ UNCHANGED faults) => faults' \in 0 .. MaxFaults
  BY <1>0, FaultsAssumption DEF TypeOK, Fault
<1>2. run = [run EXCEPT ![r] = run[r]]
  BY <1>0 DEF TypeOK
<1>3. CASE Spawn(r)
  <2> DEFINE pcOf == [w \in Workers |-> IF w < config[r].concurrency THEN "starting" ELSE "off"]
  <2>1. [w \in Workers |-> At(pcOf[w])] =
        [w \in Workers |-> At(IF w < config[r].concurrency THEN "starting" ELSE "off")]
    OBVIOUS
  <2>2. pcOf \in [Workers -> {"starting", "off"}]
    OBVIOUS
  <2> HIDE DEF pcOf
  <2>3. QED BY <1>1, <1>3, <2>1, <2>2, TasksReplaced DEF Spawn
<1>4. CASE Crash(r)
  <2> DEFINE pcOf == [w \in Workers |-> "off"]
  <2>1. /\ [w \in Workers |-> At(pcOf[w])] = [w \in Workers |-> At("off")]
        /\ \A w \in Workers : pcOf[w] = "off"
        /\ pcOf \in [Workers -> {"starting", "off"}]
    OBVIOUS
  <2> HIDE DEF pcOf
  <2>2. QED BY <1>1, <1>4, <2>1, TasksReplaced DEF Crash
<1>5. CASE SpawnFails(r)
  BY <1>1, <1>2, <1>5, LoopMoves DEF SpawnFails, QueueInvariant, RunFollowsLoop, LoopState
<1>6. CASE FinalizeCount(r)
  BY <1>1, <1>2, <1>6, LoopMoves DEF FinalizeCount, Joined, QueueInvariant, RunFollowsLoop, LoopState
<1>7. CASE FinalizeUpdate(r)
  <2>1. /\ loop[r] = "counted"
        /\ OpenJobs(r) = {}
        /\ \A w \in Workers : task[r][w].pc \in Stopped
    BY <1>7 DEF FinalizeUpdate, QueueInvariant, RunFollowsLoop
  <2>2. /\ run' = [run EXCEPT ![r] = "completed"]
        /\ SetLoop(r, "returned")
        /\ UNCHANGED <<config, job, task, result>>
        /\ faults' \in 0 .. MaxFaults
    BY <1>1, <1>7 DEF FinalizeUpdate, SetRun
  <2>3. "returned" \in LoopState \ {"none", "working", "dead", "enqueued"}
    BY DEF LoopState
  <2>4. QED BY <2>1, <2>2, <2>3, LoopMoves, Zenon
<1>8. CASE FinalizeFails(r)
  <2>1. /\ loop[r] \in {"working", "counted"}
        /\ run[r] = "running"
        /\ \A w \in Workers : task[r][w].pc \in Stopped
        /\ loop[r] = "counted" => OpenJobs(r) = {}
    BY <1>8 DEF FinalizeFails, Joined, QueueInvariant, RunFollowsLoop
  <2>2. CASE UNCHANGED run
    BY <1>1, <1>2, <1>8, <2>1, <2>2, LoopMoves DEF FinalizeFails, LoopState
  <2>3. CASE loop[r] = "counted" /\ SetRun(r, "completed")
    <3>1. /\ run' = [run EXCEPT ![r] = "completed"]
          /\ SetLoop(r, "errored")
          /\ UNCHANGED <<config, job, task, result>>
          /\ faults' \in 0 .. MaxFaults
      BY <1>1, <1>8, <2>3 DEF FinalizeFails, SetRun
    <3>2. "errored" \in LoopState \ {"none", "working", "dead", "enqueued"}
      BY DEF LoopState
    <3>3. QED BY <2>1, <2>3, <3>1, <3>2, LoopMoves, Zenon
  <2>4. QED BY <1>8, <2>2, <2>3 DEF FinalizeFails
<1>9. CASE MarkRunFailed(r) \/ MarkRunFailedFails(r)
  <2>1. /\ loop[r] = "errored"
        /\ run[r] \in {"running", "completed"}
        /\ \A w \in Workers : task[r][w].pc \in Stopped
        /\ run[r] = "completed" => OpenJobs(r) = {}
    BY <1>9 DEF MarkRunFailed, MarkRunFailedFails, QueueInvariant, RunFollowsLoop
  <2>2. CASE UNCHANGED run
    BY <1>1, <1>2, <1>9, <2>1, <2>2, LoopMoves DEF MarkRunFailed, MarkRunFailedFails, LoopState
  <2>3. CASE SetRun(r, "failed")
    BY <1>1, <1>9, <2>1, <2>3, LoopMoves DEF MarkRunFailed, MarkRunFailedFails, SetRun, LoopState
  <2>4. QED BY <1>9, <2>2, <2>3 DEF MarkRunFailed, MarkRunFailedFails
<1>10. QED
  BY <1>3, <1>4, <1>5, <1>6, <1>7, <1>8, <1>9 DEF LoopStep, LoopFault

-----------------------------------------------------------------------------
(***************************************************************************)
(* The theorems.                                                           *)
(***************************************************************************)

LEMMA CreateIsEnqueue ==
    ASSUME NEW r \in Runs, Create(r)
    PROVE  \E S \in SUBSET Skus, trigger \in {"api", "cli"}, c \in Concurrency :
               Enqueue(r, S, trigger, c)
<1>1. CASE CreateRun(r)
  BY <1>1 DEF CreateRun, Skus
<1>2. CASE ForecastSku(r)
  <2>1. PICK s \in Skus : Enqueue(r, {s}, "api", 1)
    BY <1>2 DEF ForecastSku
  <2>2. {s} \in SUBSET Skus /\ 1 \in Concurrency
    BY ConcurrencyAssumption
  <2>3. QED BY <2>1, <2>2
<1>3. CASE MonthlyRun(r)
  <2>1. Panel \in SUBSET Skus
    BY DEF Skus
  <2>2. QED BY <1>3, <2>1 DEF MonthlyRun
<1>4. QED BY <1>1, <1>2, <1>3 DEF Create

LEMMA StutterKeeps == QueueInvariant /\ UNCHANGED vars => QueueInvariant'
<1> SUFFICES ASSUME QueueInvariant, UNCHANGED vars PROVE QueueInvariant'
  OBVIOUS
<1> USE DEF vars
<1>1. TypeOK' BY DEF QueueInvariant, TypeOK
<1>2. BusyOwnsJob' BY DEF QueueInvariant, BusyOwnsJob
<1>3. LocksHeld' BY DEF QueueInvariant, LocksHeld
<1>4. FreeHands' BY DEF QueueInvariant, FreeHands
<1>5. AttemptsOfStatus' BY DEF QueueInvariant, AttemptsOfStatus
<1>6. SeenIsCurrent' BY DEF QueueInvariant, SeenIsCurrent
<1>7. SavedBeforeReported' BY DEF QueueInvariant, SavedBeforeReported, CompletedHasResult
<1>8. RunFollowsLoop' BY DEF QueueInvariant, RunFollowsLoop, OpenJobs
<1>9. SomeoneStillLooks' BY DEF QueueInvariant, SomeoneStillLooks, Queued
<1>10. QED
  BY <1>1, <1>2, <1>3, <1>4, <1>5, <1>6, <1>7, <1>8, <1>9 DEF QueueInvariant

LEMMA NextKeeps == QueueInvariant /\ [Next]_vars => QueueInvariant'
<1> SUFFICES ASSUME QueueInvariant, [Next]_vars PROVE QueueInvariant'
  OBVIOUS
<1>1. ASSUME NEW r \in Runs, Create(r) PROVE QueueInvariant'
  BY <1>1, CreateIsEnqueue, EnqueueKeeps
<1>2. ASSUME NEW r \in Runs, LoopStep(r) \/ LoopFault(r) PROVE QueueInvariant'
  BY <1>2, LoopStepKeeps
<1>3. ASSUME NEW r \in Runs, NEW w \in Workers, WorkerStep(r, w) \/ WorkerFault(r, w)
      PROVE  QueueInvariant'
  BY <1>3, WorkerStepKeeps
<1>4. CASE AllEnded \/ UNCHANGED vars
  BY <1>4, StutterKeeps DEF AllEnded
<1>5. QED BY <1>1, <1>2, <1>3, <1>4 DEF Next

\* QueueInvariant is inductive: it holds of every reachable state of the queue,
\* for any number of runs, SKUs, tasks, attempts and faults.
THEOREM QueueInvariantHolds == Spec => []QueueInvariant
<1>1. QED BY InitInvariant, NextKeeps, PTL DEF Spec

\* The variables of the queue keep their types.
THEOREM TypeCorrect == Spec => []TypeOK
<1>1. QueueInvariant => TypeOK BY DEF QueueInvariant
<1>2. QED BY <1>1, QueueInvariantHolds, PTL

\* No two tasks of a run ever hold the same SKU (claim_one, FOR UPDATE SKIP
\* LOCKED, and the attempts read before the update).
THEOREM ClaimExclusiveHolds == Spec => []ClaimExclusive
<1>1. QueueInvariant => ClaimExclusive
  <2> SUFFICES ASSUME QueueInvariant, NEW r \in Runs, NEW v \in Workers, NEW w \in Workers,
                      v # w, task[r][v].sku # NoSku, task[r][v].sku = task[r][w].sku
               PROVE  FALSE
    BY DEF ClaimExclusive
  <2>1. task[r][v].pc \in Busy \cup {"locked"} /\ task[r][w].pc \in Busy \cup {"locked"}
    BY DEF QueueInvariant, FreeHands
  <2>2. QED BY <2>1, HoldersDiffer
<1>2. QED BY <1>1, QueueInvariantHolds, PTL

\* A job is claimed at most MaxAttempts times, and failed after exactly as many.
THEOREM AttemptsBoundedHolds == Spec => []AttemptsBounded
<1>1. QueueInvariant => AttemptsBounded
  BY DEF QueueInvariant, AttemptsOfStatus, AttemptsBounded
<1>2. QED BY <1>1, QueueInvariantHolds, PTL

\* A completed job has its sku_runs row.
THEOREM CompletedHasResultHolds == Spec => []CompletedHasResult
<1>1. QueueInvariant => CompletedHasResult
  BY DEF QueueInvariant, SavedBeforeReported
<1>2. QED BY <1>1, QueueInvariantHolds, PTL

\* A completed run has no open job.
THEOREM CompletedRunSettledHolds == Spec => []CompletedRunSettled
<1>1. QueueInvariant => CompletedRunSettled
  <2> SUFFICES ASSUME QueueInvariant, NEW r \in Runs, NEW s \in Skus, run[r] = "completed"
               PROVE  job[r][s].status \in {"none", "completed", "failed"}
    BY DEF CompletedRunSettled
  <2>1. OpenJobs(r) = {} /\ job[r][s] \in Job
    BY DEF QueueInvariant, RunFollowsLoop, TypeOK
  <2>2. QED BY <2>1 DEF OpenJobs, Job, JobStatus
<1>2. QED BY <1>1, QueueInvariantHolds, PTL

\* Once all tasks have stopped and one of them left by itself, nothing is queued.
THEOREM NoneLeftBehindHolds == Spec => []NoneLeftBehind
<1>1. QueueInvariant => NoneLeftBehind
  BY DEF QueueInvariant, SomeoneStillLooks, NoneLeftBehind, Active, Stopped
<1>2. QED BY <1>1, QueueInvariantHolds, PTL

-----------------------------------------------------------------------------
(***************************************************************************)
(* The queue implements RunLifecycle: each step is one of its steps, or    *)
(* leaves the abstract state alone.                                        *)
(***************************************************************************)

\* What the update of one job does to the abstract state.
LEMMA JobView ==
    ASSUME TypeOK, NEW r \in Runs, NEW s \in Skus, NEW j, SetJob(r, s, j)
    PROVE  /\ OutcomeView' = [OutcomeView EXCEPT ![r][s] = OutcomeOf(j)]
           /\ TriesView' = [TriesView EXCEPT ![r][s] = j.attempts]
<1>1. \A q \in Runs, k \in Skus : job'[q][k] = IF q = r /\ k = s THEN j ELSE job[q][k]
  BY JobUpdate
<1>2. OutcomeView' = [OutcomeView EXCEPT ![r][s] = OutcomeOf(j)]
  <2>1. \A q \in Runs, k \in Skus :
            OutcomeOf(job'[q][k]) = IF q = r /\ k = s THEN OutcomeOf(j) ELSE OutcomeOf(job[q][k])
    BY <1>1
  <2>2. QED BY <2>1 DEF OutcomeView
<1>3. TriesView' = [TriesView EXCEPT ![r][s] = j.attempts]
  <2> DEFINE Tries(i) == i.attempts
  <2>1. \A q \in Runs, k \in Skus :
            Tries(job'[q][k]) = IF q = r /\ k = s THEN Tries(j) ELSE Tries(job[q][k])
    BY <1>1
  <2>2. /\ TriesView = [q \in Runs |-> [k \in Skus |-> Tries(job[q][k])]]
        /\ TriesView' = [q \in Runs |-> [k \in Skus |-> Tries(job'[q][k])]]
    BY DEF TriesView
  <2>3. TriesView' = [TriesView EXCEPT ![r][s] = Tries(j)]
    <3> HIDE DEF Tries
    <3> QED BY <2>1, <2>2
  <2>4. QED BY <2>3
<1>4. QED BY <1>2, <1>3

\* Putting the same values back changes nothing.
LEMMA ViewStutter ==
    ASSUME NEW r \in Runs, NEW s \in Skus
    PROVE  /\ [OutcomeView EXCEPT ![r][s] = OutcomeOf(job[r][s])] = OutcomeView
           /\ [TriesView EXCEPT ![r][s] = job[r][s].attempts] = TriesView
BY DEF OutcomeView, TriesView

LEMMA ViewAt ==
    ASSUME NEW r \in Runs, NEW s \in Skus
    PROVE  OutcomeView[r][s] = OutcomeOf(job[r][s]) /\ TriesView[r][s] = job[r][s].attempts
BY DEF OutcomeView, TriesView

LEMMA Unmoved ==
    ASSUME UNCHANGED <<run, job>>
    PROVE  UNCHANGED Lifecycle!vars
BY DEF Lifecycle!vars, OutcomeView, TriesView

\* A claim is a try.
LEMMA ClaimRefines ==
    ASSUME QueueInvariant, NEW r \in Runs, NEW w \in Workers,
           CommitClaim(r, w) \/ ClaimFails(r, w)
    PROVE  [Lifecycle!Next]_(Lifecycle!vars)
<1> DEFINE s == task[r][w].sku
           j == ClaimedJob(job[r][s], w)
<1>1. /\ s \in Skus
      /\ job[r][s] \in Job
      /\ job[r][s].status = "queued"
      /\ job[r][s].attempts < MaxAttempts
      /\ run[r] = "running"
      /\ UNCHANGED run
  <2>1. task[r][w].pc = "locked" /\ UNCHANGED run
    BY DEF CommitClaim, ClaimFails
  <2>2. s \in Skus /\ job[r][s].status = "queued"
    BY <2>1 DEF QueueInvariant, LocksHeld
  <2>3. job[r][s] \in Job /\ job[r][s].attempts < MaxAttempts
    BY <2>2 DEF QueueInvariant, TypeOK, AttemptsOfStatus
  <2>4. run[r] = "running"
    BY <2>1 DEF QueueInvariant, RunFollowsLoop, Stopped
  <2>5. QED BY <2>1, <2>2, <2>3, <2>4
<1>2. /\ OutcomeOf(j) = OutcomeOf(job[r][s])
      /\ OutcomeOf(job[r][s]) = "open"
      /\ j.attempts = job[r][s].attempts + 1
  BY <1>1, JobUpdates DEF OutcomeOf
<1>3. CASE UNCHANGED job
  BY <1>1, <1>3, Unmoved
<1>4. CASE SetJob(r, s, j)
  <2> HIDE DEF j
  <2>1. OutcomeView' = OutcomeView /\ TriesView' = [TriesView EXCEPT ![r][s] = j.attempts]
    BY <1>1, <1>2, <1>4, JobView, ViewStutter DEF QueueInvariant
  <2>2. TriesView' = [TriesView EXCEPT ![r][s] = @ + 1]
    BY <1>1, <1>2, <2>1, ViewAt DEF TriesView
  <2>3. Lifecycle!Try(r, s)
    BY <1>1, <1>2, <2>1, <2>2, ViewAt DEF Lifecycle!Try
  <2>4. QED BY <1>1, <2>3 DEF Lifecycle!Next
<1>5. QED BY <1>3, <1>4 DEF CommitClaim, ClaimFails

\* Settling a job completes it, fails it, or leaves it open for another try.
LEMMA SettleRefines ==
    ASSUME QueueInvariant, NEW r \in Runs, NEW w \in Workers,
           \/ MarkCompleted(r, w) \/ MarkCompletedFails(r, w)
           \/ MarkFailedOrRequeue(r, w) \/ MarkFailedOrRequeueFails(r, w)
    PROVE  [Lifecycle!Next]_(Lifecycle!vars)
<1> DEFINE s == task[r][w].sku
           n == task[r][w].seen
           c == CompletedJob(job[r][s])
           f == FailedOrRequeued(job[r][s], n)
<1>1. /\ task[r][w].pc \in {"succeeded", "erred", "decided"}
      /\ s \in Skus
      /\ n \in Nat
      /\ job[r][s] \in Job
      /\ job[r][s].status = "claimed"
      /\ job[r][s].attempts \in Nat
      /\ job[r][s].attempts > 0
      /\ job[r][s].attempts <= MaxAttempts
      /\ run[r] = "running"
      /\ UNCHANGED run
  <2>1. task[r][w].pc \in {"succeeded", "erred", "decided"} /\ UNCHANGED run
    BY DEF MarkCompleted, MarkCompletedFails, MarkFailedOrRequeue, MarkFailedOrRequeueFails
  <2>2. s \in Skus /\ job[r][s].status = "claimed"
    BY <2>1 DEF QueueInvariant, BusyOwnsJob, Busy
  <2>3. job[r][s] \in Job /\ n \in Nat
    BY <2>2 DEF QueueInvariant, TypeOK, Task
  <2>4. /\ job[r][s].attempts \in Nat
        /\ job[r][s].attempts > 0
        /\ job[r][s].attempts <= MaxAttempts
    BY <2>2, <2>3 DEF QueueInvariant, AttemptsOfStatus, Job
  <2>5. run[r] = "running"
    BY <2>1 DEF QueueInvariant, RunFollowsLoop, Stopped
  <2>6. QED BY <2>1, <2>2, <2>3, <2>4, <2>5
<1>2. OutcomeOf(job[r][s]) = "open"
  BY <1>1 DEF OutcomeOf
<1>3. /\ OutcomeOf(c) = "completed"
      /\ c.attempts = job[r][s].attempts
  BY <1>1, JobUpdates DEF OutcomeOf
<1>4. /\ OutcomeOf(f) = IF n < MaxAttempts THEN "open" ELSE "failed"
      /\ f.attempts = job[r][s].attempts
  BY <1>1, JobUpdates DEF OutcomeOf
<1>5. \/ UNCHANGED job
      \/ SetJob(r, s, c)
      \/ SetJob(r, s, f) /\ task[r][w].pc = "decided"
  BY DEF MarkCompleted, MarkCompletedFails, MarkFailedOrRequeue, MarkFailedOrRequeueFails
<1> HIDE DEF c, f
<1>6. CASE UNCHANGED job
  BY <1>1, <1>6, Unmoved
<1>7. CASE SetJob(r, s, c)
  <2>1. OutcomeView' = [OutcomeView EXCEPT ![r][s] = "completed"] /\ TriesView' = TriesView
    BY <1>1, <1>3, <1>7, JobView, ViewStutter DEF QueueInvariant
  <2>2. Lifecycle!Complete(r, s)
    BY <1>1, <1>2, <2>1, ViewAt DEF Lifecycle!Complete
  <2>3. QED BY <1>1, <2>2 DEF Lifecycle!Next
<1>8. CASE SetJob(r, s, f) /\ task[r][w].pc = "decided"
  <2>1. n = job[r][s].attempts
    BY <1>8 DEF QueueInvariant, SeenIsCurrent
  <2>2. /\ OutcomeView' = [OutcomeView EXCEPT ![r][s] = OutcomeOf(f)]
        /\ TriesView' = TriesView
    BY <1>1, <1>4, <1>8, JobView, ViewStutter DEF QueueInvariant
  <2>3. CASE n < MaxAttempts
    <3>1. OutcomeView' = OutcomeView
      BY <1>1, <1>2, <1>4, <2>2, <2>3, ViewStutter
    <3>2. QED BY <1>1, <2>2, <3>1 DEF Lifecycle!vars
  <2>4. CASE ~ (n < MaxAttempts)
    <3>1. job[r][s].attempts = MaxAttempts
      BY <1>1, <2>1, <2>4, AttemptsAssumption
    <3>2. Lifecycle!Fail(r, s)
      BY <1>1, <1>2, <1>4, <2>2, <2>4, <3>1, ViewAt DEF Lifecycle!Fail
    <3>3. QED BY <1>1, <3>2 DEF Lifecycle!Next
  <2>5. QED BY <2>3, <2>4
<1>9. QED BY <1>5, <1>6, <1>7, <1>8

\* Enqueuing starts the run with all of its work.
LEMMA EnqueueRefines ==
    ASSUME QueueInvariant, NEW r \in Runs, NEW S \in SUBSET Skus, NEW c \in Concurrency,
           NEW trigger \in {"api", "cli"}, Enqueue(r, S, trigger, c)
    PROVE  [Lifecycle!Next]_(Lifecycle!vars)
<1>1. run[r] = "absent" /\ \A s \in Skus : job[r][s].attempts = 0
  BY DEF QueueInvariant, RunFollowsLoop, Enqueue, NoJob
<1>2. \A q \in Runs, k \in Skus :
          job'[q][k] = IF q = r THEN (IF k \in S THEN QueuedJob ELSE NoJob) ELSE job[q][k]
  BY DEF QueueInvariant, TypeOK, Enqueue
<1>3. OutcomeOf(QueuedJob) = "open" /\ OutcomeOf(NoJob) = "none"
  BY DEF OutcomeOf, QueuedJob, NoJob
<1>4. QueuedJob.attempts = 0 /\ NoJob.attempts = 0
  BY DEF QueuedJob, NoJob
<1>5. TriesView' = TriesView
  <2>1. \A q \in Runs, k \in Skus : job'[q][k].attempts = job[q][k].attempts
    BY <1>1, <1>2, <1>4
  <2>2. QED BY <2>1 DEF TriesView
<1>6. OutcomeView' =
          [OutcomeView EXCEPT ![r] = [s \in Skus |-> IF s \in S THEN "open" ELSE "none"]]
  <2>1. \A q \in Runs, k \in Skus :
            OutcomeOf(job'[q][k]) = IF q = r THEN (IF k \in S THEN "open" ELSE "none")
                                             ELSE OutcomeOf(job[q][k])
    BY <1>2, <1>3
  <2>2. QED BY <2>1 DEF OutcomeView
<1>7. Lifecycle!Start(r, S)
  BY <1>1, <1>5, <1>6 DEF Lifecycle!Start, Enqueue, SetRun
<1>8. QED BY <1>7 DEF Lifecycle!Next

\* Finalising closes the run; a run given up is aborted.
LEMMA LoopRefines ==
    ASSUME QueueInvariant, NEW r \in Runs, LoopStep(r) \/ LoopFault(r)
    PROVE  [Lifecycle!Next]_(Lifecycle!vars)
<1>1. UNCHANGED job
  BY DEF LoopStep, LoopFault, Spawn, FinalizeCount, FinalizeUpdate, MarkRunFailed,
         SpawnFails, FinalizeFails, MarkRunFailedFails, Crash
<1>2. \/ UNCHANGED run
      \/ loop[r] = "counted" /\ SetRun(r, "completed")
      \/ loop[r] = "errored" /\ SetRun(r, "failed")
  BY DEF LoopStep, LoopFault, Spawn, FinalizeCount, FinalizeUpdate, MarkRunFailed,
         SpawnFails, FinalizeFails, MarkRunFailedFails, Crash
<1>3. OutcomeView' = OutcomeView /\ TriesView' = TriesView
  BY <1>1 DEF OutcomeView, TriesView
<1>4. CASE UNCHANGED run
  BY <1>1, <1>4, Unmoved
<1>5. CASE loop[r] = "counted" /\ SetRun(r, "completed")
  <2>1. run[r] = "running" /\ OpenJobs(r) = {}
    BY <1>5 DEF QueueInvariant, RunFollowsLoop
  <2>2. \A s \in Skus : OutcomeView[r][s] # "open"
    <3> SUFFICES ASSUME NEW s \in Skus PROVE OutcomeOf(job[r][s]) # "open"
      BY ViewAt
    <3>1. job[r][s].status \in JobStatus \ {"queued", "claimed"}
      BY <2>1 DEF OpenJobs, QueueInvariant, TypeOK, Job
    <3>2. QED BY <3>1 DEF OutcomeOf, JobStatus
  <2>3. Lifecycle!Close(r)
    BY <1>3, <1>5, <2>1, <2>2 DEF Lifecycle!Close, SetRun
  <2>4. QED BY <2>3 DEF Lifecycle!Next
<1>6. CASE loop[r] = "errored" /\ SetRun(r, "failed")
  <2>1. Lifecycle!Abort(r)
    BY <1>3, <1>6 DEF Lifecycle!Abort, SetRun, QueueInvariant, RunFollowsLoop
  <2>2. QED BY <2>1 DEF Lifecycle!Next
<1>7. QED BY <1>2, <1>4, <1>5, <1>6

LEMMA WorkerRefines ==
    ASSUME QueueInvariant, NEW r \in Runs, NEW w \in Workers,
           WorkerStep(r, w) \/ WorkerFault(r, w)
    PROVE  [Lifecycle!Next]_(Lifecycle!vars)
<1>1. \/ UNCHANGED <<run, job>>
      \/ CommitClaim(r, w) \/ ClaimFails(r, w)
      \/ MarkCompleted(r, w) \/ MarkCompletedFails(r, w)
      \/ MarkFailedOrRequeue(r, w) \/ MarkFailedOrRequeueFails(r, w)
  BY DEF WorkerStep, WorkerFault, TaskStarts, LockNext, Drain, DispatchOk, DispatchErr,
         ReadAttempts, TaskInitFails
<1>2. QED BY <1>1, Unmoved, ClaimRefines, SettleRefines

\* Every step of the queue is one of the abstract run, or a stutter.
LEMMA StepRefines == QueueInvariant /\ [Next]_vars => [Lifecycle!Next]_(Lifecycle!vars)
<1> SUFFICES ASSUME QueueInvariant, [Next]_vars PROVE [Lifecycle!Next]_(Lifecycle!vars)
  OBVIOUS
<1>1. ASSUME NEW r \in Runs, Create(r) PROVE [Lifecycle!Next]_(Lifecycle!vars)
  BY <1>1, CreateIsEnqueue, EnqueueRefines
<1>2. ASSUME NEW r \in Runs, LoopStep(r) \/ LoopFault(r)
      PROVE  [Lifecycle!Next]_(Lifecycle!vars)
  BY <1>2, LoopRefines
<1>3. ASSUME NEW r \in Runs, NEW w \in Workers, WorkerStep(r, w) \/ WorkerFault(r, w)
      PROVE  [Lifecycle!Next]_(Lifecycle!vars)
  BY <1>3, WorkerRefines
<1>4. CASE AllEnded \/ UNCHANGED vars
  BY <1>4, Unmoved DEF AllEnded, vars
<1>5. QED BY <1>1, <1>2, <1>3, <1>4 DEF Next

\* Every behaviour of the queue is one RunLifecycle allows: settled jobs never
\* reopen, no SKU is tried more than MaxAttempts times, runs close over settled
\* jobs only.
THEOREM QueueImplementsLifecycle == Spec => ImplementsLifecycle
<1>1. Init => Lifecycle!Init
  <2> SUFFICES ASSUME Init PROVE Lifecycle!Init
    OBVIOUS
  <2>1. OutcomeView = [r \in Runs |-> [s \in Skus |-> "none"]]
    BY DEF Init, OutcomeView, OutcomeOf, NoJob
  <2>2. TriesView = [r \in Runs |-> [s \in Skus |-> 0]]
    BY DEF Init, TriesView, NoJob
  <2>3. QED BY <2>1, <2>2 DEF Init, Lifecycle!Init
<1>2. QueueInvariant /\ [Next]_vars => [Lifecycle!Next]_(Lifecycle!vars)
  BY StepRefines
<1>3. QED
  BY <1>1, <1>2, QueueInvariantHolds, PTL DEF Spec, ImplementsLifecycle, Lifecycle!Spec

-----------------------------------------------------------------------------
(* What the refinement gives a reader of the tables.                       *)

\* A settled job keeps its outcome and its number of attempts, and a run
\* that is closed or given up never runs again.
SettledStays ==
    /\ \A r \in Runs, s \in Skus :
         job[r][s].status \in {"completed", "failed"} =>
             /\ job'[r][s].status = job[r][s].status
             /\ job'[r][s].attempts = job[r][s].attempts
    /\ \A r \in Runs :
         /\ run[r] = "failed" => run'[r] = "failed"
         /\ run[r] = "completed" => run'[r] \in {"completed", "failed"}

\* What the abstract steps leave alone.
LEMMA AbstractStep ==
    ASSUME QueueInvariant, [Lifecycle!Next]_(Lifecycle!vars), NEW r \in Runs
    PROVE  /\ \A s \in Skus : OutcomeView[r][s] \in {"completed", "failed"} =>
                /\ OutcomeView'[r][s] = OutcomeView[r][s]
                /\ TriesView'[r][s] = TriesView[r][s]
           /\ run[r] = "failed" => run'[r] = "failed"
           /\ run[r] = "completed" => run'[r] \in {"completed", "failed"}
<1>1. run \in [Runs -> RunStatus]
  BY DEF QueueInvariant, TypeOK
<1>2. /\ OutcomeView = [q \in Runs |-> [s \in Skus |-> OutcomeView[q][s]]]
      /\ TriesView = [q \in Runs |-> [s \in Skus |-> TriesView[q][s]]]
  BY DEF OutcomeView, TriesView
<1>3. run[r] = "absent" => \A s \in Skus : OutcomeView[r][s] = "none"
  BY ViewAt DEF QueueInvariant, RunFollowsLoop, NoJob, OutcomeOf
<1>4. ASSUME NEW q \in Runs, NEW S \in SUBSET Skus, Lifecycle!Start(q, S)
      PROVE  /\ \A s \in Skus : OutcomeView[r][s] \in {"completed", "failed"} =>
                  /\ OutcomeView'[r][s] = OutcomeView[r][s]
                  /\ TriesView'[r][s] = TriesView[r][s]
             /\ run[r] = "failed" => run'[r] = "failed"
             /\ run[r] = "completed" => run'[r] \in {"completed", "failed"}
  BY <1>1, <1>2, <1>3, <1>4 DEF Lifecycle!Start
<1>5. ASSUME NEW q \in Runs, NEW s \in Skus,
             Lifecycle!Try(q, s) \/ Lifecycle!Complete(q, s) \/ Lifecycle!Fail(q, s)
      PROVE  /\ \A k \in Skus : OutcomeView[r][k] \in {"completed", "failed"} =>
                  /\ OutcomeView'[r][k] = OutcomeView[r][k]
                  /\ TriesView'[r][k] = TriesView[r][k]
             /\ UNCHANGED run
  <2>1. OutcomeView[q][s] = "open" /\ UNCHANGED run
    BY <1>5 DEF Lifecycle!Try, Lifecycle!Complete, Lifecycle!Fail
  <2>2. ASSUME NEW k \in Skus, ~(q = r /\ k = s)
        PROVE  OutcomeView'[r][k] = OutcomeView[r][k] /\ TriesView'[r][k] = TriesView[r][k]
    <3>1. CASE Lifecycle!Try(q, s)
      BY <1>2, <2>2, <3>1 DEF Lifecycle!Try
    <3>2. CASE Lifecycle!Complete(q, s)
      BY <1>2, <2>2, <3>2 DEF Lifecycle!Complete
    <3>3. CASE Lifecycle!Fail(q, s)
      BY <1>2, <2>2, <3>3 DEF Lifecycle!Fail
    <3>4. QED BY <1>5, <3>1, <3>2, <3>3
  <2>3. QED BY <2>1, <2>2
<1>6. ASSUME NEW q \in Runs, Lifecycle!Close(q) \/ Lifecycle!Abort(q)
      PROVE  /\ OutcomeView' = OutcomeView /\ TriesView' = TriesView
             /\ run[r] = "failed" => run'[r] = "failed"
             /\ run[r] = "completed" => run'[r] \in {"completed", "failed"}
  BY <1>1, <1>6 DEF Lifecycle!Close, Lifecycle!Abort
<1>7. CASE UNCHANGED Lifecycle!vars
  BY <1>7 DEF Lifecycle!vars
<1>8. QED BY <1>4, <1>5, <1>6, <1>7 DEF Lifecycle!Next

\* However often statements fail and processes die, a job settled once is never
\* settled otherwise nor tried again, and no claim loop takes up a run that is
\* over (mark_completed, mark_failed_or_requeue, finalize_run_if_done).
THEOREM SettledIsFinal == Spec => [][SettledStays]_vars
<1>1. QueueInvariant /\ QueueInvariant' /\ [Next]_vars => [SettledStays]_vars
  <2> SUFFICES ASSUME QueueInvariant, QueueInvariant', [Next]_vars PROVE SettledStays
    OBVIOUS
  <2>1. [Lifecycle!Next]_(Lifecycle!vars)
    BY StepRefines
  <2>2. ASSUME NEW r \in Runs, NEW s \in Skus, job[r][s].status \in {"completed", "failed"}
        PROVE  /\ job'[r][s].status = job[r][s].status
               /\ job'[r][s].attempts = job[r][s].attempts
    <3>1. /\ OutcomeView[r][s] = job[r][s].status
          /\ TriesView[r][s] = job[r][s].attempts
      BY <2>2, ViewAt DEF OutcomeOf
    <3>2. /\ OutcomeView'[r][s] = OutcomeOf(job'[r][s])
          /\ TriesView'[r][s] = job'[r][s].attempts
      BY DEF OutcomeView, TriesView
    <3>3. OutcomeView'[r][s] = OutcomeView[r][s] /\ TriesView'[r][s] = TriesView[r][s]
      BY <2>1, <2>2, <3>1, AbstractStep
    <3>4. job'[r][s].status \in JobStatus
      BY DEF QueueInvariant, TypeOK, Job
    <3>5. OutcomeOf(job'[r][s]) \in {"completed", "failed"} =>
              OutcomeOf(job'[r][s]) = job'[r][s].status
      BY <3>4 DEF OutcomeOf, JobStatus
    <3>6. QED BY <2>2, <3>1, <3>2, <3>3, <3>5
  <2>3. ASSUME NEW r \in Runs
        PROVE  /\ run[r] = "failed" => run'[r] = "failed"
               /\ run[r] = "completed" => run'[r] \in {"completed", "failed"}
    BY <2>1, AbstractStep
  <2>4. QED BY <2>2, <2>3 DEF SettledStays
<1>2. QED BY <1>1, QueueInvariantHolds, PTL DEF Spec
=============================================================================
