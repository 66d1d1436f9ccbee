-------------------------- MODULE OptimisationJobs --------------------------
(***************************************************************************)
(* The optimisation job table and the process-local worker pool of          *)
(* backend/optimisation/jobs.py, together with the part of the application  *)
(* lifespan (backend/main.py) that starts, sweeps and stops it.             *)
(*                                                                          *)
(* Actors: request threads ("submitters") inside OptimisationJobManager.    *)
(* submit, the threads of the ThreadPoolExecutor ("workers") inside         *)
(* _execute, and the operating system, which may kill the process at any    *)
(* point and start it again.  What is in the two SQLite tables survives a   *)
(* kill; everything else does not.  Each `with get_connection()` block is   *)
(* one transaction, hence one step; a database error raised by it is        *)
(* a step of its own that leaves the tables unchanged.                      *)
(***************************************************************************)
EXTENDS Integers, Sequences, FiniteSets

CONSTANTS
    Jobs,         \* the job identifiers uuid4 can draw
    Keys,         \* the (owner_id, agent_type) pairs
    NoKey,        \* the key of a row that does not exist
    Workers,      \* the threads of the executor, max_workers of them
    Submitters,   \* the request threads that may be inside submit at once
    NoJob,        \* what a thread that works on no job holds
    Variants,     \* how many prompt variants an optimisation benchmarks
    MaxRestarts,  \* bound: how often the process may end
    MaxStranded   \* bound: how many jobs a database error may strand

ASSUME JobsAssumption ==
    /\ NoKey \notin Keys
    /\ NoJob \notin Jobs
    /\ Variants \in Nat \ {0}
    /\ MaxRestarts \in Nat
    /\ MaxStranded \in Nat

VARIABLES
    rows,       \* table optimisation_jobs
    results,    \* table optimisation_results; a row's id is its position
    process,    \* "down", "up", "draining" (executor.shutdown(wait=True)) or
                \* "stopped" (after an orderly shutdown)
    queue,      \* the executor's work queue of [job, key] items
    worker,     \* what each executor thread is doing
    submitter,  \* what each request thread inside submit is doing
    futures,    \* the keys of manager._futures
    done,       \* the jobs whose future is finished
    callbacks,  \* the jobs whose future holds the _forget callback
    stranded,   \* history: the jobs a database error left with no worker
    restarts    \* how often the process has ended

memoryVars == <<queue, worker, submitter, futures, done, callbacks>>
tableVars  == <<rows, results>>
vars == <<tableVars, process, memoryVars, stranded, restarts>>

-----------------------------------------------------------------------------
Active   == {"queued", "running"}
Terminal == {"completed", "failed"}
ErrorCodes == {"llm_configuration_error", "llm_upstream_error",
               "optimisation_failed", "worker_restarted"}

NoRow == [status |-> "absent", key |-> NoKey, progress |-> 0,
          result |-> 0, error |-> "none"]

(* The executor stores the arguments of _execute beside the future: job_id,  *)
(* and owner_id with agent_type.                                             *)
IdleSubmitter == [phase |-> "idle", job |-> NoJob, key |-> NoKey]

IdleWorker == [phase |-> "idle", job |-> NoJob, key |-> NoKey, step |-> 0,
               result |-> 0, code |-> "none"]

(* The progress, in percent, that the k-th callback of `optimise` reports.   *)
Milestones == Variants + 4
Milestone(k) ==
    IF k <= 3 THEN <<3, 30, 38>>[k]
    ELSE IF k < Milestones THEN 38 + (50 * (k - 3)) \div Variants
    ELSE 98

(* update_progress clamps what it is given to 0.01 .. 0.99.                  *)
Clamp(p) == IF p < 1 THEN 1 ELSE IF p > 99 THEN 99 ELSE p

-----------------------------------------------------------------------------
(* The statements of OptimisationJobStore, as functions of the row they      *)
(* address.                                                                  *)
MarkedRunning(row) ==
    IF row.status = "queued"
    THEN [row EXCEPT !.status = "running", !.progress = 1]
    ELSE row

Progressed(row, p) ==
    IF row.status = "running" THEN [row EXCEPT !.progress = Clamp(p)] ELSE row

MarkedCompleted(row, id) ==
    [row EXCEPT !.status = "completed", !.progress = 100, !.result = id]

(* Mutant: a failure resets the progress bar.                                *)
MarkedFailedReset(row, code) ==
    [row EXCEPT !.status = "failed", !.progress = 0, !.error = code]

MarkedFailed(row, code) ==
    [row EXCEPT !.status = "failed", !.progress = 100, !.error = code]

(* Mutant: the sweep says `status != 'failed'` and takes completed rows too. *)
SweptUnlessFailed == [j \in Jobs |->
            IF rows[j].status \notin {"absent", "failed"}
            THEN MarkedFailed(rows[j], "worker_restarted")
            ELSE rows[j]]

(* fail_orphaned_jobs, over the whole table.                                 *)
Swept == [j \in Jobs |->
            IF rows[j].status \in Active
            THEN MarkedFailed(rows[j], "worker_restarted")
            ELSE rows[j]]

(* Mutant: the partial index covers the queued rows only.                    *)
IndexAdmitsWhileRunning(k) ==
    \A j \in Jobs : rows[j].status = "queued" => rows[j].key # k

(* The partial unique index on (owner_id, agent_type) of the unfinished rows *)
(* admits a new row of key k.                                                *)
IndexAdmits(k) == \A j \in Jobs : rows[j].status \in Active => rows[j].key # k

-----------------------------------------------------------------------------
Init ==
    /\ rows = [j \in Jobs |-> NoRow]
    /\ results = <<>>
    /\ process = "down"
    /\ queue = <<>>
    /\ worker = [w \in Workers |-> IdleWorker]
    /\ submitter = [s \in Submitters |-> IdleSubmitter]
    /\ futures = {}
    /\ done = {}
    /\ callbacks = {}
    /\ stranded = {}
    /\ restarts = 0

-----------------------------------------------------------------------------
(* Request threads: OptimisationJobManager.submit.                           *)

(* create_job's INSERT commits.  When the index refuses the row the request  *)
(* ends with 409 and changes nothing, so there is no action for it.          *)
CreateJob(s, k, j) ==
    /\ process = "up"
    /\ submitter[s].phase = "idle"
    /\ rows[j].status = "absent"
    /\ IndexAdmits(k)
    /\ rows' = [rows EXCEPT ![j] = [NoRow EXCEPT !.status = "queued", !.key = k]]
    /\ submitter' = [submitter EXCEPT ![s] = [phase |-> "created", job |-> j, key |-> k]]
    /\ UNCHANGED <<results, process, queue, worker, futures, done, callbacks,
                   stranded, restarts>>

(* The read of the new row succeeds and the work item enters the executor.   *)
Enqueue(s) ==
    /\ submitter[s].phase = "created"
    /\ queue' = Append(queue, [job |-> submitter[s].job, key |-> submitter[s].key])
    /\ submitter' = [submitter EXCEPT ![s].phase = "enqueued"]
    /\ UNCHANGED <<tableVars, process, worker, futures, done, callbacks,
                   stranded, restarts>>

(* That read raises: the request answers 500, the committed row stays        *)
(* queued, and no work item for it exists.                                   *)
ReadBackRaises(s) ==
    /\ submitter[s].phase = "created"
    /\ Cardinality(stranded) < MaxStranded
    /\ stranded' = stranded \cup {submitter[s].job}
    /\ submitter' = [submitter EXCEPT ![s] = IdleSubmitter]
    /\ UNCHANGED <<tableVars, process, queue, worker, futures, done, callbacks,
                   restarts>>

(* self._futures[job_id] = future, under the lock.                           *)
RegisterFuture(s) ==
    /\ submitter[s].phase = "enqueued"
    /\ futures' = futures \cup {submitter[s].job}
    /\ submitter' = [submitter EXCEPT ![s].phase = "registered"]
    /\ UNCHANGED <<tableVars, process, queue, worker, done, callbacks,
                   stranded, restarts>>

(* Mutant: _forget is only ever run by the executor thread.                  *)
AddDoneCallbackStored(s) ==
    /\ submitter[s].phase = "registered"
    /\ callbacks' = callbacks \cup {submitter[s].job}
    /\ submitter' = [submitter EXCEPT ![s] = IdleSubmitter]
    /\ UNCHANGED <<tableVars, process, queue, worker, futures, done, stranded,
                   restarts>>

(* add_done_callback: a future that is already finished runs _forget here,   *)
(* in the request thread; otherwise the callback is stored.                  *)
AddDoneCallback(s) ==
    LET j == submitter[s].job IN
    /\ submitter[s].phase = "registered"
    /\ IF j \in done
       THEN futures' = futures \ {j} /\ UNCHANGED callbacks
       ELSE callbacks' = callbacks \cup {j} /\ UNCHANGED futures
    /\ submitter' = [submitter EXCEPT ![s] = IdleSubmitter]
    /\ UNCHANGED <<tableVars, process, queue, worker, done, stranded, restarts>>

-----------------------------------------------------------------------------
(* Executor threads: OptimisationJobManager._execute.                        *)

(* Mutant: the threads take no more work once shutdown has begun.            *)
TakeWhileUp(w) ==
    /\ process = "up"
    /\ worker[w].phase = "idle"
    /\ queue # <<>>
    /\ worker' = [worker EXCEPT ![w] =
                    [IdleWorker EXCEPT !.phase = "taken", !.job = Head(queue).job,
                                       !.key = Head(queue).key]]
    /\ queue' = Tail(queue)
    /\ UNCHANGED <<tableVars, process, submitter, futures, done, callbacks,
                   stranded, restarts>>

Take(w) ==
    /\ worker[w].phase = "idle"
    /\ queue # <<>>
    /\ worker' = [worker EXCEPT ![w] =
                    [IdleWorker EXCEPT !.phase = "taken", !.job = Head(queue).job,
                                       !.key = Head(queue).key]]
    /\ queue' = Tail(queue)
    /\ UNCHANGED <<tableVars, process, submitter, futures, done, callbacks,
                   stranded, restarts>>

MarkRunning(w) ==
    /\ worker[w].phase = "taken"
    /\ rows' = [rows EXCEPT ![worker[w].job] = MarkedRunning(@)]
    /\ worker' = [worker EXCEPT ![w].phase = "optimising"]
    /\ UNCHANGED <<results, process, queue, submitter, futures, done, callbacks,
                   stranded, restarts>>

(* mark_running is called before the try: when it raises, the future carries *)
(* the exception and nothing marks the row failed.                           *)
MarkRunningRaises(w) ==
    /\ worker[w].phase = "taken"
    /\ Cardinality(stranded) < MaxStranded
    /\ stranded' = stranded \cup {worker[w].job}
    /\ worker' = [worker EXCEPT ![w].phase = "finishing"]
    /\ UNCHANGED <<tableVars, process, queue, submitter, futures, done,
                   callbacks, restarts>>

(* `optimise` reports its next milestone.  The last one follows the result.  *)
ReportProgress(w) ==
    LET k == worker[w].step + 1 IN
    /\ worker[w].phase = "optimising"
    /\ k <= Milestones
    /\ k = Milestones => worker[w].result # 0
    /\ rows' = [rows EXCEPT ![worker[w].job] = Progressed(@, Milestone(k))]
    /\ worker' = [worker EXCEPT ![w].step = k]
    /\ UNCHANGED <<results, process, queue, submitter, futures, done, callbacks,
                   stranded, restarts>>

(* save_optimisation_result, after every variant was benchmarked.            *)
SaveResult(w) ==
    /\ worker[w].phase = "optimising"
    /\ worker[w].step = Milestones - 1
    /\ worker[w].result = 0
    /\ results' = Append(results, [job |-> worker[w].job, key |-> worker[w].key])
    /\ worker' = [worker EXCEPT ![w].result = Len(results) + 1]
    /\ UNCHANGED <<rows, process, queue, submitter, futures, done, callbacks,
                   stranded, restarts>>

(* Mutant: completion points at the newest result instead of its own.        *)
MarkCompletedNewest(w) ==
    /\ worker[w].phase = "optimising"
    /\ worker[w].step = Milestones
    /\ rows' = [rows EXCEPT ![worker[w].job] = MarkedCompleted(@, Len(results))]
    /\ worker' = [worker EXCEPT ![w].phase = "finishing"]
    /\ UNCHANGED <<results, process, queue, submitter, futures, done, callbacks,
                   stranded, restarts>>

MarkCompleted(w) ==
    /\ worker[w].phase = "optimising"
    /\ worker[w].step = Milestones
    /\ rows' = [rows EXCEPT ![worker[w].job] =
                    MarkedCompleted(@, worker[w].result)]
    /\ worker' = [worker EXCEPT ![w].phase = "finishing"]
    /\ UNCHANGED <<results, process, queue, submitter, futures, done, callbacks,
                   stranded, restarts>>

(* Mutant: an exception starts the optimisation over.                        *)
OptimiseRetries(w, code) ==
    /\ worker[w].phase = "optimising"
    /\ worker' = [worker EXCEPT ![w].step = 0, ![w].result = 0]
    /\ UNCHANGED <<tableVars, process, queue, submitter, futures, done,
                   callbacks, stranded, restarts>>

(* Mutant: only the provider's exceptions are caught.                        *)
OptimiseRaisesUncaught(w, code) ==
    /\ worker[w].phase = "optimising"
    /\ worker' = [worker EXCEPT
                    ![w].phase = IF code = "optimisation_failed"
                                 THEN "finishing" ELSE "failing",
                    ![w].code = code]
    /\ UNCHANGED <<tableVars, process, queue, submitter, futures, done,
                   callbacks, stranded, restarts>>

(* Something inside the try raises.  The provider is called between the      *)
(* first milestone and the last benchmark; a database error or any other     *)
(* exception can come from every call, mark_completed included.              *)
OptimiseRaises(w, code) ==
    /\ worker[w].phase = "optimising"
    /\ \/ code = "optimisation_failed"
       \/ /\ code \in {"llm_configuration_error", "llm_upstream_error"}
          /\ worker[w].step \in 1 .. Milestones - 2
    /\ worker' = [worker EXCEPT ![w].phase = "failing", ![w].code = code]
    /\ UNCHANGED <<tableVars, process, queue, submitter, futures, done,
                   callbacks, stranded, restarts>>

MarkFailed(w) ==
    /\ worker[w].phase = "failing"
    /\ rows' = [rows EXCEPT ![worker[w].job] = MarkedFailed(@, worker[w].code)]
    /\ worker' = [worker EXCEPT ![w].phase = "finishing"]
    /\ UNCHANGED <<results, process, queue, submitter, futures, done, callbacks,
                   stranded, restarts>>

(* mark_failed raises inside the except clause: the row stays running.       *)
MarkFailedRaises(w) ==
    /\ worker[w].phase = "failing"
    /\ Cardinality(stranded) < MaxStranded
    /\ stranded' = stranded \cup {worker[w].job}
    /\ worker' = [worker EXCEPT ![w].phase = "finishing"]
    /\ UNCHANGED <<tableVars, process, queue, submitter, futures, done,
                   callbacks, restarts>>

(* The executor sets the future's outcome and takes its stored callbacks.    *)
FinishFuture(w) ==
    LET j == worker[w].job IN
    /\ worker[w].phase = "finishing"
    /\ done' = done \cup {j}
    /\ worker' = [worker EXCEPT ![w] =
                    IF j \in callbacks
                    THEN [IdleWorker EXCEPT !.phase = "forgetting", !.job = j]
                    ELSE IdleWorker]
    /\ UNCHANGED <<tableVars, process, queue, submitter, futures, callbacks,
                   stranded, restarts>>

Forget(w) ==
    /\ worker[w].phase = "forgetting"
    /\ futures' = futures \ {worker[w].job}
    /\ worker' = [worker EXCEPT ![w] = IdleWorker]
    /\ UNCHANGED <<tableVars, process, queue, submitter, done, callbacks,
                   stranded, restarts>>

-----------------------------------------------------------------------------
(* The process: the lifespan of backend/main.py and the operating system.    *)

ForgetMemory ==
    /\ queue' = <<>>
    /\ worker' = [w \in Workers |-> IdleWorker]
    /\ submitter' = [s \in Submitters |-> IdleSubmitter]
    /\ futures' = {}
    /\ done' = {}
    /\ callbacks' = {}

(* Mutant: the process starts without the sweep.                             *)
StartupUnswept ==
    /\ process \in {"down", "stopped"}
    /\ process' = "up"
    /\ stranded' = {}
    /\ UNCHANGED <<tableVars, memoryVars, restarts>>

(* The process starts: the sweep runs before the manager exists and before   *)
(* a request is served.                                                      *)
Startup ==
    /\ process \in {"down", "stopped"}
    /\ process' = "up"
    /\ rows' = Swept
    /\ stranded' = {}
    /\ UNCHANGED <<results, memoryVars, restarts>>

(* The process is killed, at any point of any thread.                        *)
Kill ==
    /\ process \in {"up", "draining"}
    /\ restarts < MaxRestarts
    /\ restarts' = restarts + 1
    /\ process' = "down"
    /\ ForgetMemory
    /\ UNCHANGED <<tableVars, stranded>>

(* The server stops serving, lets the requests in flight finish, and calls   *)
(* manager.shutdown(wait=True).                                              *)
BeginShutdown ==
    /\ process = "up"
    /\ restarts < MaxRestarts
    /\ \A s \in Submitters : submitter[s].phase = "idle"
    /\ process' = "draining"
    /\ UNCHANGED <<tableVars, memoryVars, stranded, restarts>>

(* Mutant: shutdown drops the work that no thread has taken.                 *)
DrainedButQueue == \A w \in Workers : worker[w].phase = "idle"

(* executor.shutdown(wait=True, cancel_futures=False) returns once every     *)
(* thread has found the queue empty and ended.                               *)
Drained == queue = <<>> /\ \A w \in Workers : worker[w].phase = "idle"

EndShutdown ==
    /\ process = "draining"
    /\ Drained
    /\ restarts' = restarts + 1
    /\ process' = "stopped"
    /\ ForgetMemory
    /\ UNCHANGED <<tableVars, stranded>>

-----------------------------------------------------------------------------
SubmitStep(s) ==
    \/ \E k \in Keys, j \in Jobs : CreateJob(s, k, j)
    \/ Enqueue(s)
    \/ ReadBackRaises(s)
    \/ RegisterFuture(s)
    \/ AddDoneCallback(s)

WorkerStep(w) ==
    \/ Take(w)
    \/ MarkRunning(w)
    \/ MarkRunningRaises(w)
    \/ ReportProgress(w)
    \/ SaveResult(w)
    \/ MarkCompleted(w)
    \/ \E code \in ErrorCodes : OptimiseRaises(w, code)
    \/ MarkFailed(w)
    \/ MarkFailedRaises(w)
    \/ FinishFuture(w)
    \/ Forget(w)

ProcessStep == Startup \/ Kill \/ BeginShutdown \/ EndShutdown

Next ==
    \/ \E s \in Submitters : SubmitStep(s)
    \/ \E w \in Workers : WorkerStep(w)
    \/ ProcessStep

Spec == Init /\ [][Next]_vars

(* The operating system runs every thread that can run.  A submit that has   *)
(* committed its row goes on; an executor thread goes on, because every call *)
(* to the provider and every wait for the database has a timeout; a process  *)
(* that is down is started again and a drain that is over ends.  Nobody is   *)
(* obliged to submit, to kill or to stop, and no call is obliged to raise.   *)
Fairness ==
    /\ \A s \in Submitters :
          WF_vars(Enqueue(s) \/ RegisterFuture(s) \/ AddDoneCallback(s))
    /\ \A w \in Workers : WF_vars(WorkerStep(w))
    /\ WF_vars(Startup)
    /\ WF_vars(EndShutdown)

FairSpec == Spec /\ Fairness

-----------------------------------------------------------------------------
(* Properties.                                                               *)

RowStatus      == {"absent"} \cup Active \cup Terminal
Percent        == 0 .. 100
ResultId       == Nat      \* 0 where the column is NULL
ErrorCode      == ErrorCodes \cup {"none"}
JobOrNone      == Jobs \cup {NoJob}
KeyOrNone      == Keys \cup {NoKey}
WorkerPhase    == {"idle", "taken", "optimising", "failing", "finishing", "forgetting"}
SubmitterPhase == {"idle", "created", "enqueued", "registered"}
Step           == 0 .. Milestones

Row  == [status : RowStatus, key : KeyOrNone, progress : Percent,
         result : ResultId, error : ErrorCode]
WorkItem == [job : Jobs, key : Keys]
WorkerState == [phase : WorkerPhase, job : JobOrNone, key : KeyOrNone,
                step : Step, result : ResultId, code : ErrorCode]
SubmitterState == [phase : SubmitterPhase, job : JobOrNone, key : KeyOrNone]

(* Every variable keeps the shape the code gives it.                         *)
TypeOK ==
    /\ rows \in [Jobs -> Row]
    /\ results \in Seq(WorkItem)
    /\ process \in {"down", "up", "draining", "stopped"}
    /\ queue \in Seq(WorkItem)
    /\ worker \in [Workers -> WorkerState]
    /\ submitter \in [Submitters -> SubmitterState]
    /\ futures \in SUBSET Jobs
    /\ done \in SUBSET Jobs
    /\ callbacks \in SUBSET Jobs
    /\ stranded \in SUBSET Jobs
    /\ restarts \in Nat

(* Who is responsible for moving an unfinished row on: the request thread    *)
(* between its INSERT and executor.submit, a slot of the work queue, or the  *)
(* executor thread until it has written the outcome.                         *)
Executing == {"taken", "optimising", "failing"}
HeldBySubmitter(s, j) == submitter[s].phase = "created" /\ submitter[s].job = j
HeldInQueue(i, j)     == queue[i].job = j
HeldByWorker(w, j)    == worker[w].phase \in Executing /\ worker[w].job = j

Held(j) == \/ \E s \in Submitters : HeldBySubmitter(s, j)
           \/ \E i \in DOMAIN queue : HeldInQueue(i, j)
           \/ \E w \in Workers : HeldByWorker(w, j)

(* In a running process a row is unfinished exactly as long as some thread   *)
(* or the queue will still move it on: no job is lost between the table and  *)
(* the executor, and none is still being worked on once its row is final.    *)
(* The exceptions are the jobs whose own bookkeeping hit a database error    *)
(* (jobs.py:62, 249, 268-286).                                               *)
UnfinishedIffHeld ==
    process \in {"up", "draining"} =>
        \A j \in Jobs :
            (rows[j].status \in Active /\ j \notin stranded) <=> Held(j)

(* Two optimisations of the same owner and agent never run side by side,     *)
(* although the index guards the rows and not the threads (jobs.py:249-286). *)
OneWorkerPerKey ==
    \A v, w \in Workers :
        /\ v # w
        /\ worker[v].phase \in Executing
        /\ worker[w].phase \in Executing
        => worker[v].key # worker[w].key

(* A row says completed only when it points at a stored result that this     *)
(* very job produced for its own owner and agent, and carries no error       *)
(* (mark_completed, jobs.py:133-142, checks neither).                        *)
Solved(j) ==
    /\ rows[j].status = "completed"
    /\ rows[j].error = "none"
    /\ rows[j].result \in DOMAIN results
    /\ results[rows[j].result].job = j
    /\ results[rows[j].result].key = rows[j].key

CompletedHasOwnResult == \A j \in Jobs : rows[j].status = "completed" => Solved(j)

(* No job leaves two rows in optimisation_results, through any mixture of    *)
(* errors, kills and restarts (prompt_store.py:262-292 inserts blindly).     *)
AtMostOneResult ==
    \A i, k \in DOMAIN results : results[i].job = results[k].job => i = k

(* An orderly shutdown drains: it leaves no unfinished row behind, apart     *)
(* from jobs stranded by a database error (jobs.py:239-240).                 *)
ShutdownDrains ==
    process = "stopped" =>
        \A j \in Jobs : rows[j].status \in Active => j \in stranded

(* The progress a polling client reads never goes back, from the clamped     *)
(* callbacks of gepa_loop.py through failures and the restart sweep.         *)
ProgressNeverGoesBack ==
    [][\A j \in Jobs : rows'[j].progress >= rows[j].progress]_vars

(* The job table implements the lifecycle the API promises, whatever threads *)
(* and restarts do: rows move forward only and final rows never change.      *)
Lifecycle == INSTANCE JobLifecycle WITH
                status <- [j \in Jobs |-> rows[j].status],
                key    <- [j \in Jobs |-> rows[j].key],
                solved <- {j \in Jobs : Solved(j)}
ImplementsLifecycle == Lifecycle!LSpec

(* Every submitted job ends, unless a database error strands it: through     *)
(* provider errors, kills and orderly shutdowns.                             *)
EveryJobEnds ==
    \A j \in Jobs :
        rows[j].status \in Active ~> (rows[j].status \in Terminal \/ j \in stranded)

(* manager._futures does not leak, whichever of the executor thread and the  *)
(* request thread is first (jobs.py:234-236, 288-290).                       *)
FuturesAreForgotten == \A j \in Jobs : j \in futures ~> j \notin futures

(* manager.shutdown(wait=True) returns: the drain is never stuck on a job    *)
(* that waits for a thread.                                                  *)
ShutdownReturns == process = "draining" ~> process \in {"stopped", "down"}
=============================================================================
