----------------------- MODULE OptimisationJobsProofs -----------------------
(***************************************************************************)
(* Proofs about OptimisationJobs, for every set of jobs, keys and threads   *)
(* and every number of variants, restarts and stranded jobs.                *)
(*                                                                          *)
(* The safety properties are not inductive: that a row is completed only    *)
(* with its own result, say, depends on which thread is about to write to   *)
(* it.  IInv adds what each thread and queue slot knows about the row it    *)
(* holds (HeldRows), that a row is held once (HeldOnce), that the index     *)
(* keeps unfinished rows of one key apart (IndexHolds), what a process that *)
(* is down has forgotten (ProcessOK), which unfinished rows nobody holds    *)
(* (StrandedOK) and how results belong to rows and threads (ResultsOK).     *)
(***************************************************************************)
EXTENDS OptimisationJobs, TLAPS

-----------------------------------------------------------------------------
(* A thread that is busy works on a real job with a real key.                *)
BusyOK ==
    /\ \A s \in Submitters : submitter[s].phase # "idle" =>
          submitter[s].job \in Jobs /\ submitter[s].key \in Keys
    /\ \A w \in Workers :
          /\ worker[w].phase # "idle" => worker[w].job \in Jobs
          /\ worker[w].phase \in Executing => worker[w].key \in Keys

(* What a holder knows about the row it holds.                               *)
HeldRows ==
    /\ \A s \in Submitters : submitter[s].phase = "created" =>
          /\ rows[submitter[s].job].status = "queued"
          /\ rows[submitter[s].job].key = submitter[s].key
    /\ \A i \in DOMAIN queue :
          /\ rows[queue[i].job].status = "queued"
          /\ rows[queue[i].job].key = queue[i].key
    /\ \A w \in Workers : worker[w].phase \in Executing =>
          /\ rows[worker[w].job].status =
                IF worker[w].phase = "taken" THEN "queued" ELSE "running"
          /\ rows[worker[w].job].key = worker[w].key

(* No row is held twice.                                                     *)
HeldOnce ==
    /\ \A s, t \in Submitters :
          /\ submitter[s].phase = "created"
          /\ submitter[t].phase = "created"
          /\ submitter[s].job = submitter[t].job
          => s = t
    /\ \A i, k \in DOMAIN queue : queue[i].job = queue[k].job => i = k
    /\ \A v, w \in Workers :
          /\ worker[v].phase \in Executing
          /\ worker[w].phase \in Executing
          /\ worker[v].job = worker[w].job
          => v = w
    /\ \A s \in Submitters : submitter[s].phase = "created" =>
          /\ \A i \in DOMAIN queue : queue[i].job # submitter[s].job
          /\ \A w \in Workers :
                worker[w].phase \in Executing => worker[w].job # submitter[s].job
    /\ \A w \in Workers : worker[w].phase \in Executing =>
          \A i \in DOMAIN queue : queue[i].job # worker[w].job

(* Two unfinished rows have different keys.                                  *)
IndexHolds ==
    \A i, j \in Jobs :
        /\ rows[i].status \in Active
        /\ rows[j].status \in Active
        /\ rows[i].key = rows[j].key
        => i = j

(* Outside a running process there is no thread and no work item, and no     *)
(* request is inside submit while the executor drains.                       *)
ProcessOK ==
    /\ process \in {"down", "stopped"} =>
          /\ queue = <<>>
          /\ \A w \in Workers : worker[w].phase = "idle"
          /\ \A s \in Submitters : submitter[s].phase = "idle"
    /\ process = "draining" => \A s \in Submitters : submitter[s].phase = "idle"

(* Stranded rows are the unfinished rows that nobody holds.                  *)
StrandedOK ==
    /\ \A j \in stranded : rows[j].status # "absent" /\ ~Held(j)
    /\ process \in {"up", "draining"} =>
          \A j \in Jobs : rows[j].status \in Active /\ j \notin stranded => Held(j)
    /\ ShutdownDrains

(* Which job a stored result belongs to, and who knows of it.                *)
ResultsOK ==
    /\ \A i \in DOMAIN results :
          rows[results[i].job].status \in {"running", "completed", "failed"}
    /\ AtMostOneResult
    /\ \A w \in Workers : worker[w].phase = "taken" =>
          worker[w].result = 0 /\ worker[w].step = 0
    /\ \A w \in Workers : worker[w].phase = "optimising" =>
          /\ worker[w].result = 0 =>
                \A i \in DOMAIN results : results[i].job # worker[w].job
          /\ worker[w].result # 0 =>
                /\ worker[w].result \in DOMAIN results
                /\ results[worker[w].result].job = worker[w].job
                /\ results[worker[w].result].key = worker[w].key
          /\ worker[w].step = Milestones => worker[w].result # 0
    /\ \A j \in Jobs : rows[j].status \in Active => rows[j].error = "none"
    /\ CompletedHasOwnResult

HoldInv == HeldRows /\ HeldOnce /\ IndexHolds /\ ProcessOK
IInv == TypeOK /\ BusyOK /\ HoldInv /\ StrandedOK /\ ResultsOK

-----------------------------------------------------------------------------
(* Facts about the operators of the model.                                   *)

(* The elements of a sequence.                                               *)
LEMMA SeqElements ==
    ASSUME NEW S, NEW q \in Seq(S) PROVE \A i \in DOMAIN q : q[i] \in S
  OBVIOUS

(* What Append does to the elements of a sequence.                           *)
LEMMA AppendElements ==
    ASSUME NEW S, NEW q \in Seq(S), NEW e \in S
    PROVE  /\ Append(q, e) \in Seq(S)
           /\ Len(q) \in Nat
           /\ DOMAIN Append(q, e) = 1 .. Len(q) + 1
           /\ DOMAIN q = 1 .. Len(q)
           /\ \A i \in 1 .. Len(q) : Append(q, e)[i] = q[i]
           /\ Append(q, e)[Len(q) + 1] = e
  OBVIOUS

(* What Head and Tail do to the elements of a sequence.                      *)
LEMMA TailElements ==
    ASSUME NEW S, NEW q \in Seq(S), q # <<>>
    PROVE  /\ Tail(q) \in Seq(S)
           /\ DOMAIN Tail(q) = 1 .. Len(q) - 1
           /\ DOMAIN q = 1 .. Len(q)
           /\ Len(q) \in Nat \ {0}
           /\ Head(q) = q[1]
           /\ Head(q) \in S
           /\ \A i \in 1 .. Len(q) - 1 : Tail(q)[i] = q[i + 1]
  OBVIOUS

(* update_progress never writes the 0 of a queued row nor the 1 of a final   *)
(* one (jobs.py:130).                                                        *)
LEMMA ClampRange == \A p \in Int : Clamp(p) \in 1 .. 99
  BY DEF Clamp

LEMMA MilestoneInt == \A k \in 1 .. Milestones : Milestone(k) \in Int
  BY JobsAssumption DEF Milestone, Milestones

(* The constants the actions write are members of the columns' types.        *)
LEMMA Members ==
    /\ 0 \in Percent /\ 1 \in Percent /\ 100 \in Percent
    /\ \A p \in Int : Clamp(p) \in Percent
    /\ {"absent", "queued", "running", "completed", "failed"} \subseteq RowStatus
    /\ 0 \in ResultId
    /\ 0 \in Step
    /\ ErrorCodes \subseteq ErrorCode
    /\ "none" \in ErrorCode
    /\ "worker_restarted" \in ErrorCode
    /\ \A n \in Nat : n + 1 \in ResultId
    /\ Jobs \subseteq JobOrNone
    /\ NoJob \in JobOrNone
    /\ Keys \subseteq KeyOrNone
    /\ NoKey \in KeyOrNone
  BY JobsAssumption, ClampRange
  DEF Percent, RowStatus, ResultId, Active, Terminal, Step, Milestones, ErrorCode,
      ErrorCodes, JobOrNone, KeyOrNone

(* The statements of OptimisationJobStore take rows to rows.                 *)
LEMMA RowStatements ==
    ASSUME NEW row \in Row
    PROVE  /\ MarkedRunning(row) \in Row
           /\ \A p \in Int : Progressed(row, p) \in Row
           /\ \A id \in ResultId : MarkedCompleted(row, id) \in Row
           /\ \A code \in ErrorCode : MarkedFailed(row, code) \in Row
  BY Members DEF MarkedRunning, Progressed, MarkedCompleted, MarkedFailed, Row

LEMMA EmptyRow == NoRow \in Row /\ IdleWorker \in WorkerState
                  /\ IdleSubmitter \in SubmitterState
  BY Members DEF NoRow, Row, IdleWorker, WorkerState, IdleSubmitter, SubmitterState,
                 WorkerPhase, SubmitterPhase

-----------------------------------------------------------------------------
(* Types.                                                                    *)

LEMMA TypeSubmit ==
    ASSUME TypeOK, BusyOK, NEW s \in Submitters, SubmitStep(s)
    PROVE  TypeOK' /\ BusyOK'
  <1> USE DEF TypeOK, tableVars
  <1>1. ASSUME NEW k \in Keys, NEW j \in Jobs, CreateJob(s, k, j)
        PROVE  TypeOK' /\ BusyOK'
    <2>1. [NoRow EXCEPT !.status = "queued", !.key = k] \in Row
      BY Members, EmptyRow DEF Row
    <2>2. [phase |-> "created", job |-> j, key |-> k] \in SubmitterState
      BY Members DEF SubmitterState, SubmitterPhase
    <2>3. TypeOK'
      BY <1>1, <2>1, <2>2 DEF CreateJob
    <2>4. BusyOK'
      BY <1>1 DEF CreateJob, BusyOK
    <2>5. QED
      BY <2>3, <2>4
  <1>2. CASE Enqueue(s)
    <2>1. [job |-> submitter[s].job, key |-> submitter[s].key] \in WorkItem
      BY <1>2 DEF BusyOK, Enqueue, WorkItem
    <2>2. queue' \in Seq(WorkItem)
      BY <1>2, <2>1, AppendElements DEF Enqueue
    <2>3. submitter' \in [Submitters -> SubmitterState]
      BY <1>2 DEF Enqueue, SubmitterState, SubmitterPhase
    <2>4. TypeOK'
      BY <1>2, <2>2, <2>3 DEF Enqueue
    <2>5. BusyOK'
      BY <1>2 DEF Enqueue, SubmitterState, BusyOK
    <2>6. QED
      BY <2>4, <2>5
  <1>3. CASE ReadBackRaises(s)
    <2>1. TypeOK'
      BY <1>3, EmptyRow DEF ReadBackRaises, BusyOK
    <2>2. BusyOK'
      BY <1>3 DEF ReadBackRaises, IdleSubmitter, BusyOK
    <2>3. QED
      BY <2>1, <2>2
  <1>4. CASE RegisterFuture(s)
    <2>1. submitter' \in [Submitters -> SubmitterState]
      BY <1>4 DEF RegisterFuture, SubmitterState, SubmitterPhase
    <2>2. TypeOK'
      BY <1>4, <2>1 DEF RegisterFuture, BusyOK
    <2>3. BusyOK'
      BY <1>4 DEF RegisterFuture, SubmitterState, BusyOK
    <2>4. QED
      BY <2>2, <2>3
  <1>5. CASE AddDoneCallback(s)
    <2>1. TypeOK'
      BY <1>5, EmptyRow DEF AddDoneCallback, BusyOK
    <2>2. BusyOK'
      BY <1>5 DEF AddDoneCallback, IdleSubmitter, BusyOK
    <2>3. QED
      BY <2>1, <2>2
  <1>6. QED
    BY <1>1, <1>2, <1>3, <1>4, <1>5 DEF SubmitStep

(* The actions of an executor thread, one lemma for the columns they write   *)
(* and one for the rest.                                                     *)
LEMMA TypeRows ==
    ASSUME TypeOK, BusyOK, NEW w \in Workers, WorkerStep(w)
    PROVE  rows' \in [Jobs -> Row]
  <1> DEFINE j == worker[w].job
  <1>1. worker[w].phase # "idle" => j \in Jobs /\ rows[j] \in Row
    BY DEF TypeOK, BusyOK
  <1>2. worker[w].step \in Step /\ worker[w].result \in ResultId
        /\ worker[w].code \in ErrorCode
    BY DEF TypeOK, WorkerState
  <1>3. CASE MarkRunning(w)
    BY <1>1, <1>3, RowStatements DEF MarkRunning, TypeOK
  <1>4. CASE ReportProgress(w)
    <2>1. worker[w].step + 1 \in 1 .. Milestones
      BY <1>2, <1>4 DEF ReportProgress, Step
    <2>2. Progressed(rows[j], Milestone(worker[w].step + 1)) \in Row
      BY <1>1, <1>4, <2>1, MilestoneInt, RowStatements DEF ReportProgress
    <2>3. QED
      BY <1>1, <1>4, <2>2 DEF ReportProgress, TypeOK
  <1>5. CASE MarkCompleted(w)
    BY <1>1, <1>2, <1>5, RowStatements DEF MarkCompleted, TypeOK
  <1>6. CASE MarkFailed(w)
    BY <1>1, <1>2, <1>6, RowStatements DEF MarkFailed, TypeOK
  <1>7. ASSUME rows' = rows PROVE rows' \in [Jobs -> Row]
    BY <1>7 DEF TypeOK
  <1>8. QED
    BY <1>3, <1>4, <1>5, <1>6, <1>7
    DEF WorkerStep, Take, MarkRunningRaises, SaveResult, OptimiseRaises,
        MarkFailedRaises, FinishFuture, Forget, tableVars

LEMMA TypeWorker ==
    ASSUME TypeOK, BusyOK, NEW w \in Workers, WorkerStep(w)
    PROVE  worker' \in [Workers -> WorkerState] /\ BusyOK'
  <1> USE DEF TypeOK
  <1>1. CASE Take(w)
    <2>1. Head(queue) \in WorkItem
      BY <1>1, TailElements DEF Take
    <2>2. worker' \in [Workers -> WorkerState]
      BY <1>1, <2>1, Members
      DEF Take, WorkerState, WorkerPhase, IdleWorker, WorkItem
    <2>3. BusyOK'
      BY <1>1, <2>1 DEF Take, WorkerState, IdleWorker, WorkItem, BusyOK
    <2>4. QED
      BY <2>2, <2>3
  <1>2. ASSUME NEW p \in {"optimising", "finishing"}, worker[w].phase \in Executing,
               worker' = [worker EXCEPT ![w].phase = p], UNCHANGED submitter
        PROVE  worker' \in [Workers -> WorkerState] /\ BusyOK'
    <2>1. worker' \in [Workers -> WorkerState]
      BY <1>2 DEF WorkerState, WorkerPhase
    <2>2. BusyOK'
      BY <1>2 DEF WorkerState, BusyOK, Executing
    <2>3. QED
      BY <2>1, <2>2
  <1>3. CASE ReportProgress(w)
    <2>1. worker[w].step + 1 \in Step
      BY <1>3 DEF ReportProgress, WorkerState, Step
    <2>2. worker' \in [Workers -> WorkerState]
      BY <1>3, <2>1 DEF ReportProgress, WorkerState
    <2>3. BusyOK'
      BY <1>3 DEF ReportProgress, WorkerState, BusyOK, Executing
    <2>4. QED
      BY <2>2, <2>3
  <1>4. CASE SaveResult(w)
    <2>1. Len(results) + 1 \in ResultId
      BY Members
    <2>2. worker' \in [Workers -> WorkerState]
      BY <1>4, <2>1 DEF SaveResult, WorkerState
    <2>3. BusyOK'
      BY <1>4 DEF SaveResult, WorkerState, BusyOK, Executing
    <2>4. QED
      BY <2>2, <2>3
  <1>5. ASSUME NEW code \in ErrorCodes, OptimiseRaises(w, code)
        PROVE  worker' \in [Workers -> WorkerState] /\ BusyOK'
    <2>1. worker' \in [Workers -> WorkerState]
      <3>1. code \in ErrorCode /\ "failing" \in WorkerPhase
        BY Members DEF WorkerPhase
      <3>2. worker' = [worker EXCEPT ![w].phase = "failing", ![w].code = code]
        BY <1>5 DEF OptimiseRaises
      <3>3. QED
        BY <3>1, <3>2 DEF WorkerState
    <2>2. BusyOK'
      BY <1>5 DEF OptimiseRaises, WorkerState, BusyOK, Executing
    <2>3. QED
      BY <2>1, <2>2
  <1>6. CASE FinishFuture(w)
    <2>1. worker[w].job \in Jobs
      BY <1>6 DEF FinishFuture, BusyOK
    <2>2. worker' \in [Workers -> WorkerState]
      BY <1>6, <2>1, EmptyRow, Members
      DEF FinishFuture, WorkerState, WorkerPhase, IdleWorker
    <2>3. BusyOK'
      BY <1>6, <2>1 DEF FinishFuture, WorkerState, IdleWorker, BusyOK, Executing
    <2>4. QED
      BY <2>2, <2>3
  <1>7. CASE Forget(w)
    <2>1. worker' \in [Workers -> WorkerState]
      BY <1>7, EmptyRow DEF Forget
    <2>2. BusyOK'
      BY <1>7 DEF Forget, WorkerState, IdleWorker, BusyOK, Executing
    <2>3. QED
      BY <2>1, <2>2
  <1>8. QED
    BY <1>1, <1>2, <1>3, <1>4, <1>5, <1>6, <1>7
    DEF WorkerStep, MarkRunning, MarkRunningRaises, MarkCompleted, MarkFailed,
        MarkFailedRaises, Executing

LEMMA TypeStep ==
    ASSUME TypeOK, BusyOK, [Next]_vars PROVE TypeOK' /\ BusyOK'
  <1>1. ASSUME NEW s \in Submitters, SubmitStep(s) PROVE TypeOK' /\ BusyOK'
    BY <1>1, TypeSubmit
  <1>2. ASSUME NEW w \in Workers, WorkerStep(w) PROVE TypeOK' /\ BusyOK'
    <2>1. rows' \in [Jobs -> Row]
      BY <1>2, TypeRows
    <2>2. worker' \in [Workers -> WorkerState] /\ BusyOK'
      BY <1>2, TypeWorker
    <2>3. results' \in Seq(WorkItem)
      <3>1. CASE SaveResult(w)
        <4>1. [job |-> worker[w].job, key |-> worker[w].key] \in WorkItem
          BY <3>1 DEF SaveResult, BusyOK, Executing, WorkItem
        <4>2. QED
          BY <3>1, <4>1, AppendElements DEF SaveResult, TypeOK
      <3>2. CASE ~SaveResult(w)
        BY <1>2, <3>2
        DEF WorkerStep, Take, MarkRunning, MarkRunningRaises, ReportProgress,
            MarkCompleted, OptimiseRaises, MarkFailed, MarkFailedRaises, FinishFuture,
            Forget, tableVars, TypeOK
      <3>3. QED
        BY <3>1, <3>2
    <2>4. queue' \in Seq(WorkItem)
      <3>1. CASE Take(w)
        BY <3>1, TailElements DEF Take, TypeOK
      <3>2. CASE ~Take(w)
        BY <1>2, <3>2
        DEF WorkerStep, SaveResult, MarkRunning, MarkRunningRaises, ReportProgress,
            MarkCompleted, OptimiseRaises, MarkFailed, MarkFailedRaises, FinishFuture,
            Forget, TypeOK
      <3>3. QED
        BY <3>1, <3>2
    <2>5. /\ process' \in {"down", "up", "draining", "stopped"}
          /\ submitter' \in [Submitters -> SubmitterState]
          /\ futures' \in SUBSET Jobs
          /\ done' \in SUBSET Jobs
          /\ callbacks' \in SUBSET Jobs
          /\ stranded' \in SUBSET Jobs
          /\ restarts' \in Nat
      BY <1>2
      DEF WorkerStep, Take, SaveResult, MarkRunning, MarkRunningRaises, ReportProgress,
          MarkCompleted, OptimiseRaises, MarkFailed, MarkFailedRaises, FinishFuture,
          Forget, TypeOK, BusyOK, Executing
    <2>6. QED
      BY <2>1, <2>2, <2>3, <2>4, <2>5 DEF TypeOK
  <1>3. CASE Startup
    <2>1. rows' \in [Jobs -> Row]
      BY <1>3, RowStatements, Members DEF Startup, Swept, TypeOK
    <2>2. TypeOK'
      BY <1>3, <2>1 DEF Startup, TypeOK, memoryVars
    <2>3. BusyOK'
      BY <1>3 DEF Startup, BusyOK, memoryVars
    <2>4. QED
      BY <2>2, <2>3
  <1>4. CASE Kill \/ EndShutdown
    <2>1. /\ queue' = <<>>
          /\ worker' = [w \in Workers |-> IdleWorker]
          /\ submitter' = [s \in Submitters |-> IdleSubmitter]
          /\ futures' = {} /\ done' = {} /\ callbacks' = {}
          /\ process' \in {"down", "stopped"}
          /\ restarts' = restarts + 1
          /\ UNCHANGED <<rows, results, stranded>>
      BY <1>4 DEF Kill, EndShutdown, ForgetMemory, tableVars
    <2>2. queue' \in Seq(WorkItem)
      BY <2>1
    <2>3. /\ worker' \in [Workers -> WorkerState]
          /\ submitter' \in [Submitters -> SubmitterState]
      BY <2>1, EmptyRow
    <2>4. TypeOK'
      BY <2>1, <2>2, <2>3 DEF TypeOK
    <2>5. BusyOK'
      BY <2>1 DEF BusyOK, IdleWorker, IdleSubmitter, Executing
    <2>6. QED
      BY <2>4, <2>5
  <1>5. CASE BeginShutdown \/ UNCHANGED vars
    <2>1. TypeOK'
      BY <1>5 DEF BeginShutdown, vars, tableVars, memoryVars, TypeOK
    <2>2. BusyOK'
      BY <1>5 DEF BeginShutdown, vars, memoryVars, BusyOK
    <2>3. QED
      BY <2>1, <2>2
  <1>6. QED
    BY <1>1, <1>2, <1>3, <1>4, <1>5 DEF Next, ProcessStep

LEMMA TypeInit == Init => TypeOK /\ BusyOK
  BY EmptyRow DEF Init, TypeOK, BusyOK, IdleWorker, IdleSubmitter, Executing

(* Every variable keeps the shape the code gives it: rows, results and work  *)
(* items stay well formed through every step of every thread.                *)
THEOREM TypeCorrect == Spec => []TypeOK
  <1>1. TypeOK /\ BusyOK /\ [Next]_vars => (TypeOK /\ BusyOK)'
    BY TypeStep
  <1>2. QED
    BY <1>1, TypeInit, PTL DEF Spec

-----------------------------------------------------------------------------
(* Who holds which row.                                                      *)

(* The items of the queue name real jobs with real keys.                     *)
LEMMA QueueItems ==
    ASSUME TypeOK
    PROVE  \A i \in DOMAIN queue : queue[i].job \in Jobs /\ queue[i].key \in Keys
  <1>1. \A i \in DOMAIN queue : queue[i] \in WorkItem
    BY SeqElements DEF TypeOK
  <1>2. QED
    BY <1>1 DEF WorkItem

LEMMA HoldCreateJob ==
    ASSUME TypeOK, BusyOK, HoldInv, NEW s \in Submitters, NEW k \in Keys,
           NEW j \in Jobs, CreateJob(s, k, j)
    PROVE  HoldInv'
  <1>1. /\ submitter'[s].phase = "created"
        /\ submitter'[s].job = j
        /\ submitter'[s].key = k
        /\ \A t \in Submitters : t # s => submitter'[t] = submitter[t]
    BY DEF CreateJob, TypeOK
  <1>2. /\ rows'[j].status = "queued"
        /\ rows'[j].key = k
        /\ \A i \in Jobs : i # j => rows'[i] = rows[i]
    BY DEF CreateJob, TypeOK, NoRow
  <1>3. queue' = queue /\ worker' = worker /\ process' = process /\ process = "up"
    BY DEF CreateJob
  <1>4. rows[j].status = "absent" /\ IndexAdmits(k)
    BY DEF CreateJob
  <1>5. /\ \A t \in Submitters : submitter[t].phase = "created" =>
              submitter[t].job \in Jobs /\ submitter[t].job # j
        /\ \A i \in DOMAIN queue : queue[i].job \in Jobs /\ queue[i].job # j
        /\ \A w \in Workers : worker[w].phase \in Executing =>
              worker[w].job \in Jobs /\ worker[w].job # j
    BY <1>4, QueueItems DEF HoldInv, HeldRows, BusyOK, Executing
  <1>6. HeldRows'
    BY <1>1, <1>2, <1>3, <1>5 DEF HoldInv, HeldRows
  <1>7. HeldOnce'
    BY <1>1, <1>3, <1>5 DEF HoldInv, HeldOnce
  <1>8. IndexHolds'
    BY <1>2, <1>4 DEF HoldInv, IndexHolds, IndexAdmits
  <1>9. ProcessOK'
    BY <1>3 DEF ProcessOK
  <1>10. QED
    BY <1>6, <1>7, <1>8, <1>9 DEF HoldInv

LEMMA HoldEnqueue ==
    ASSUME TypeOK, BusyOK, HoldInv, NEW s \in Submitters, Enqueue(s)
    PROVE  HoldInv'
  <1> DEFINE n == Len(queue) + 1
  <1>1. /\ submitter[s].phase = "created"
        /\ submitter'[s].phase = "enqueued"
        /\ \A t \in Submitters : t # s => submitter'[t] = submitter[t]
    BY DEF Enqueue, TypeOK, SubmitterState
  <1>2. rows' = rows /\ worker' = worker /\ process' = process
    BY DEF Enqueue, tableVars
  <1>3. [job |-> submitter[s].job, key |-> submitter[s].key] \in WorkItem
    BY <1>1 DEF BusyOK, WorkItem
  <1>4. /\ n \in Nat
        /\ n \notin DOMAIN queue
        /\ DOMAIN queue' = DOMAIN queue \cup {n}
        /\ \A i \in DOMAIN queue : queue'[i] = queue[i]
        /\ queue'[n].job = submitter[s].job
        /\ queue'[n].key = submitter[s].key
    BY <1>3, AppendElements DEF Enqueue, TypeOK
  <1>5. HeldRows'
    BY <1>1, <1>2, <1>4 DEF HoldInv, HeldRows
  <1>6. HeldOnce'
    <2>1. \A i, k \in DOMAIN queue' : queue'[i].job = queue'[k].job => i = k
      BY <1>1, <1>4 DEF HoldInv, HeldOnce
    <2>2. \A t \in Submitters : submitter'[t].phase = "created" =>
             t # s /\ submitter'[t] = submitter[t] /\ submitter[t].job # submitter[s].job
      BY <1>1 DEF HoldInv, HeldOnce
    <2>3. \A t \in Submitters : submitter'[t].phase = "created" =>
             /\ \A i \in DOMAIN queue' : queue'[i].job # submitter'[t].job
             /\ \A w \in Workers :
                   worker[w].phase \in Executing => worker[w].job # submitter'[t].job
      BY <1>4, <2>2 DEF HoldInv, HeldOnce
    <2>4. \A w \in Workers : worker[w].phase \in Executing =>
             \A i \in DOMAIN queue' : queue'[i].job # worker[w].job
      BY <1>1, <1>4 DEF HoldInv, HeldOnce
    <2>5. QED
      BY <1>2, <2>1, <2>2, <2>3, <2>4 DEF HoldInv, HeldOnce
  <1>7. IndexHolds'
    BY <1>2 DEF HoldInv, IndexHolds
  <1>8. ProcessOK'
    BY <1>1, <1>2 DEF HoldInv, ProcessOK
  <1>9. QED
    BY <1>5, <1>6, <1>7, <1>8 DEF HoldInv

(* The other steps of submit release the row or do not hold one.             *)
LEMMA HoldSubmitterLeaves ==
    ASSUME TypeOK, BusyOK, HoldInv, NEW s \in Submitters,
           ReadBackRaises(s) \/ RegisterFuture(s) \/ AddDoneCallback(s)
    PROVE  HoldInv'
  <1>1. /\ submitter[s].phase # "idle"
        /\ submitter'[s].phase # "created"
        /\ \A t \in Submitters : t # s => submitter'[t] = submitter[t]
    BY DEF ReadBackRaises, RegisterFuture, AddDoneCallback, IdleSubmitter, TypeOK,
           SubmitterState
  <1>2. rows' = rows /\ queue' = queue /\ worker' = worker /\ process' = process
    BY DEF ReadBackRaises, RegisterFuture, AddDoneCallback, tableVars
  <1>3. HeldRows'
    BY <1>1, <1>2 DEF HoldInv, HeldRows
  <1>4. HeldOnce'
    BY <1>1, <1>2 DEF HoldInv, HeldOnce
  <1>5. IndexHolds'
    BY <1>2 DEF HoldInv, IndexHolds
  <1>6. ProcessOK'
    BY <1>1, <1>2 DEF HoldInv, ProcessOK
  <1>7. QED
    BY <1>3, <1>4, <1>5, <1>6 DEF HoldInv

LEMMA HoldTake ==
    ASSUME TypeOK, BusyOK, HoldInv, NEW w \in Workers, Take(w)
    PROVE  HoldInv'
  <1>1. queue # <<>> /\ queue' = Tail(queue) /\ worker[w].phase = "idle"
    BY DEF Take
  <1>2. /\ DOMAIN queue' = 1 .. Len(queue) - 1
        /\ DOMAIN queue = 1 .. Len(queue)
        /\ Len(queue) \in Nat \ {0}
        /\ Head(queue) = queue[1]
        /\ \A i \in 1 .. Len(queue) - 1 : queue'[i] = queue[i + 1]
    BY <1>1, TailElements DEF TypeOK
  <1>3. /\ worker'[w].phase = "taken"
        /\ worker'[w].job = queue[1].job
        /\ worker'[w].key = queue[1].key
        /\ \A v \in Workers : v # w => worker'[v] = worker[v]
    BY <1>2 DEF Take, TypeOK, IdleWorker
  <1>4. rows' = rows /\ submitter' = submitter /\ process' = process
    BY DEF Take, tableVars
  <1>5. /\ 1 \in DOMAIN queue
        /\ \A i \in DOMAIN queue' :
              /\ i \in Int
              /\ i + 1 \in DOMAIN queue
              /\ i + 1 # 1
              /\ queue'[i] = queue[i + 1]
    BY <1>2
  <1>6. HeldRows'
    <2>1. \A i \in DOMAIN queue' :
             /\ rows[queue'[i].job].status = "queued"
             /\ rows[queue'[i].job].key = queue'[i].key
      BY <1>5 DEF HoldInv, HeldRows
    <2>2. \A v \in Workers : worker'[v].phase \in Executing =>
             /\ rows[worker'[v].job].status =
                   IF worker'[v].phase = "taken" THEN "queued" ELSE "running"
             /\ rows[worker'[v].job].key = worker'[v].key
      BY <1>3, <1>5 DEF HoldInv, HeldRows
    <2>3. QED
      BY <1>4, <2>1, <2>2 DEF HoldInv, HeldRows
  <1>7. HeldOnce'
    <2>1. \A i, k \in DOMAIN queue' : queue'[i].job = queue'[k].job => i = k
      <3> SUFFICES ASSUME NEW i \in DOMAIN queue', NEW k \in DOMAIN queue',
                          queue'[i].job = queue'[k].job
                   PROVE  i = k
        OBVIOUS
      <3>1. i + 1 = k + 1
        BY <1>5 DEF HoldInv, HeldOnce
      <3>2. QED
        BY <1>5, <3>1
    <2>2. \A i \in DOMAIN queue' : queue'[i].job # queue[1].job
      BY <1>5 DEF HoldInv, HeldOnce
    <2>3. \A v \in Workers : worker[v].phase \in Executing => worker[v].job # queue[1].job
      BY <1>5 DEF HoldInv, HeldOnce
    <2>4. \A u, v \in Workers :
             /\ worker'[u].phase \in Executing
             /\ worker'[v].phase \in Executing
             /\ worker'[u].job = worker'[v].job
             => u = v
      BY <1>3, <2>3 DEF HoldInv, HeldOnce
    <2>5. \A t \in Submitters : submitter[t].phase = "created" =>
             /\ \A i \in DOMAIN queue' : queue'[i].job # submitter[t].job
             /\ \A v \in Workers :
                   worker'[v].phase \in Executing => worker'[v].job # submitter[t].job
      BY <1>3, <1>5 DEF HoldInv, HeldOnce
    <2>6. \A v \in Workers : worker'[v].phase \in Executing =>
             \A i \in DOMAIN queue' : queue'[i].job # worker'[v].job
      BY <1>3, <1>5, <2>2 DEF HoldInv, HeldOnce
    <2>7. QED
      BY <1>4, <2>1, <2>4, <2>5, <2>6 DEF HoldInv, HeldOnce
  <1>8. IndexHolds'
    BY <1>4 DEF HoldInv, IndexHolds
  <1>9. ProcessOK'
    BY <1>1, <1>4 DEF HoldInv, ProcessOK
  <1>10. QED
    BY <1>6, <1>7, <1>8, <1>9 DEF HoldInv

(* An executor thread that has a job keeps it, keeps it and starts it, or    *)
(* lets go of it; the row's key stays and the row does not come back to life. *)
LEMMA HoldWorkerGoesOn ==
    ASSUME TypeOK, BusyOK, HoldInv, NEW w \in Workers,
           worker[w].phase # "idle",
           UNCHANGED <<queue, submitter, process>>,
           \A v \in Workers : v # w => worker'[v] = worker[v],
           \A i \in Jobs :
              /\ rows'[i].key = rows[i].key
              /\ rows'[i].status \in Active => rows[i].status \in Active
              /\ i # worker[w].job => rows'[i].status = rows[i].status,
           worker[w].phase \notin Executing => rows' = rows,
           worker'[w].phase \in Executing =>
              /\ worker[w].phase \in Executing
              /\ worker'[w].job = worker[w].job
              /\ worker'[w].key = worker[w].key
              /\ rows'[worker[w].job].status =
                    IF worker'[w].phase = "taken" THEN "queued" ELSE "running"
    PROVE  HoldInv'
  <1> DEFINE j == worker[w].job
  <1>1. j \in Jobs
    BY DEF BusyOK
  <1>2. CASE worker[w].phase \in Executing
    <2>1. /\ \A t \in Submitters : submitter[t].phase = "created" =>
                submitter[t].job \in Jobs /\ submitter[t].job # j
          /\ \A i \in DOMAIN queue : queue[i].job \in Jobs /\ queue[i].job # j
          /\ \A v \in Workers : v # w /\ worker[v].phase \in Executing =>
                worker[v].job \in Jobs /\ worker[v].job # j
      BY <1>2, QueueItems DEF HoldInv, HeldOnce, BusyOK, Executing
    <2>2. HeldRows'
      <3>1. \A t \in Submitters : submitter[t].phase = "created" =>
              /\ rows'[submitter[t].job].status = "queued"
              /\ rows'[submitter[t].job].key = submitter[t].key
        BY <2>1 DEF HoldInv, HeldRows
      <3>2. \A i \in DOMAIN queue :
              /\ rows'[queue[i].job].status = "queued"
              /\ rows'[queue[i].job].key = queue[i].key
        BY <2>1 DEF HoldInv, HeldRows
      <3>3. \A v \in Workers : v # w /\ worker[v].phase \in Executing =>
              /\ rows'[worker[v].job].status =
                    IF worker[v].phase = "taken" THEN "queued" ELSE "running"
              /\ rows'[worker[v].job].key = worker[v].key
        BY <2>1 DEF HoldInv, HeldRows
      <3>4. worker'[w].phase \in Executing => rows'[j].key = worker'[w].key
        BY <1>1 DEF HoldInv, HeldRows
      <3>5. QED
        BY <3>1, <3>2, <3>3, <3>4 DEF HeldRows
    <2>3. HeldOnce'
      BY DEF HoldInv, HeldOnce
    <2>4. QED
      BY <2>2, <2>3 DEF HoldInv, IndexHolds, ProcessOK
  <1>3. CASE worker[w].phase \notin Executing
    <2>1. rows' = rows /\ worker'[w].phase \notin Executing
      BY <1>3
    <2>2. HeldRows'
      BY <2>1 DEF HoldInv, HeldRows
    <2>3. HeldOnce'
      BY <2>1 DEF HoldInv, HeldOnce
    <2>4. QED
      BY <2>1, <2>2, <2>3 DEF HoldInv, IndexHolds, ProcessOK
  <1>4. QED
    BY <1>2, <1>3

LEMMA HoldWorker ==
    ASSUME TypeOK, BusyOK, HoldInv, NEW w \in Workers, WorkerStep(w)
    PROVE  HoldInv'
  <1> DEFINE j == worker[w].job
  <1>1. CASE Take(w)
    BY <1>1, HoldTake
  <1>2. CASE ~Take(w)
    <2>1. worker[w].phase # "idle" /\ j \in Jobs
      BY <1>2 DEF WorkerStep, MarkRunning, MarkRunningRaises, ReportProgress,
        SaveResult, MarkCompleted, OptimiseRaises, MarkFailed, MarkFailedRaises,
        FinishFuture, Forget, BusyOK
    <2>2. /\ UNCHANGED <<queue, submitter, process>>
          /\ \A v \in Workers : v # w => worker'[v] = worker[v]
      BY <1>2 DEF WorkerStep, MarkRunning, MarkRunningRaises, ReportProgress,
        SaveResult, MarkCompleted, OptimiseRaises, MarkFailed, MarkFailedRaises,
        FinishFuture, Forget, TypeOK
    <2>3. worker[w].phase \in Executing =>
             rows[j].status = IF worker[w].phase = "taken" THEN "queued" ELSE "running"
      BY DEF HoldInv, HeldRows
    <2>4. CASE MarkRunning(w)
      <3>1. /\ worker[w].phase = "taken"
            /\ worker'[w].phase = "optimising"
            /\ worker'[w].job = j
            /\ worker'[w].key = worker[w].key
        BY <2>4 DEF MarkRunning, TypeOK, WorkerState
      <3>2. /\ rows'[j].status = "running"
            /\ rows'[j].key = rows[j].key
            /\ \A i \in Jobs : i # j => rows'[i] = rows[i]
        BY <2>1, <2>3, <2>4, <3>1 DEF MarkRunning, MarkedRunning, TypeOK, Row, Executing
      <3>3. QED
        BY <2>1, <2>2, <2>3, <3>1, <3>2, HoldWorkerGoesOn DEF Executing, Active
    <2>5. CASE ReportProgress(w)
      <3>1. /\ worker[w].phase = "optimising"
            /\ worker'[w].phase = "optimising"
            /\ worker'[w].job = j
            /\ worker'[w].key = worker[w].key
        BY <2>5 DEF ReportProgress, TypeOK, WorkerState
      <3>2. \A i \in Jobs : rows'[i].status = rows[i].status /\ rows'[i].key = rows[i].key
        BY <2>1, <2>5 DEF ReportProgress, Progressed, TypeOK, Row
      <3>3. QED
        BY <2>1, <2>2, <2>3, <3>1, <3>2, HoldWorkerGoesOn DEF Executing
    <2>6. CASE MarkCompleted(w) \/ MarkFailed(w)
      <3>1. worker[w].phase \in Executing /\ worker'[w].phase = "finishing"
        BY <2>6 DEF MarkCompleted, MarkFailed, TypeOK, WorkerState, Executing
      <3>2. /\ rows'[j].status \in Terminal
            /\ rows'[j].key = rows[j].key
            /\ \A i \in Jobs : i # j => rows'[i] = rows[i]
        <4>1. CASE MarkCompleted(w)
          BY <2>1, <4>1 DEF MarkCompleted, MarkedCompleted, TypeOK, Row, Terminal
        <4>2. CASE MarkFailed(w)
          BY <2>1, <4>2 DEF MarkFailed, MarkedFailed, TypeOK, Row, Terminal
        <4>3. QED
          BY <2>6, <4>1, <4>2
      <3>3. QED
        BY <2>1, <2>2, <3>1, <3>2, HoldWorkerGoesOn DEF Executing, Active, Terminal
    <2>7. CASE SaveResult(w) \/ \E code \in ErrorCodes : OptimiseRaises(w, code)
      <3>1. /\ worker[w].phase = "optimising"
            /\ worker'[w].phase \in {"optimising", "failing"}
            /\ worker'[w].job = j
            /\ worker'[w].key = worker[w].key
            /\ rows' = rows
        BY <2>7 DEF SaveResult, OptimiseRaises, TypeOK, WorkerState, tableVars
      <3>2. QED
        BY <2>1, <2>2, <2>3, <3>1, HoldWorkerGoesOn DEF Executing
    <2>8. CASE MarkRunningRaises(w) \/ MarkFailedRaises(w) \/ FinishFuture(w) \/ Forget(w)
      <3>1. worker'[w].phase \in {"finishing", "forgetting", "idle"}
        <4>1. CASE MarkRunningRaises(w) \/ MarkFailedRaises(w)
          BY <4>1 DEF MarkRunningRaises, MarkFailedRaises, TypeOK, WorkerState
        <4>2. CASE FinishFuture(w)
          <5>1. worker'[w] = IF j \in callbacks
                             THEN [IdleWorker EXCEPT !.phase = "forgetting", !.job = j]
                             ELSE IdleWorker
            BY <4>2 DEF FinishFuture, TypeOK
          <5>2. QED
            BY <5>1 DEF IdleWorker
        <4>3. CASE Forget(w)
          BY <4>3 DEF Forget, TypeOK, IdleWorker
        <4>4. QED
          BY <2>8, <4>1, <4>2, <4>3
      <3>2. worker'[w].phase \notin Executing /\ rows' = rows
        BY <2>8, <3>1 DEF MarkRunningRaises, MarkFailedRaises, FinishFuture, Forget,
                          Executing, tableVars
      <3>3. QED
        BY <2>1, <2>2, <3>2, HoldWorkerGoesOn
    <2>9. QED
      BY <1>2, <2>4, <2>5, <2>6, <2>7, <2>8 DEF WorkerStep
  <1>3. QED
    BY <1>1, <1>2

LEMMA HoldProcess ==
    ASSUME TypeOK, BusyOK, HoldInv, ProcessStep \/ UNCHANGED vars
    PROVE  HoldInv'
  <1>1. CASE Startup
    <2>1. /\ queue = <<>>
          /\ \A w \in Workers : worker[w].phase = "idle"
          /\ \A s \in Submitters : submitter[s].phase = "idle"
          /\ queue' = queue /\ worker' = worker /\ submitter' = submitter
      BY <1>1 DEF Startup, HoldInv, ProcessOK, memoryVars
    <2>2. \A j \in Jobs : rows'[j].status \notin Active
      BY <1>1 DEF Startup, Swept, MarkedFailed, TypeOK, Row, Active
    <2>3. process' = "up"
      BY <1>1 DEF Startup
    <2>4. QED
      BY <2>1, <2>2, <2>3 DEF HoldInv, HeldRows, HeldOnce, IndexHolds, ProcessOK, Executing
  <1>2. CASE Kill \/ EndShutdown
    <2>1. /\ queue' = <<>>
          /\ \A w \in Workers : worker'[w].phase = "idle"
          /\ \A s \in Submitters : submitter'[s].phase = "idle"
          /\ rows' = rows
      BY <1>2 DEF Kill, EndShutdown, ForgetMemory, tableVars, IdleWorker, IdleSubmitter
    <2>2. QED
      BY <2>1 DEF HoldInv, HeldRows, HeldOnce, IndexHolds, ProcessOK, Executing
  <1>3. CASE BeginShutdown
    BY <1>3 DEF BeginShutdown, tableVars, memoryVars, HoldInv, HeldRows, HeldOnce,
                IndexHolds, ProcessOK
  <1>4. CASE UNCHANGED vars
    BY <1>4 DEF vars, tableVars, memoryVars, HoldInv, HeldRows, HeldOnce, IndexHolds,
                ProcessOK
  <1>5. QED
    BY <1>1, <1>2, <1>3, <1>4 DEF ProcessStep

LEMMA HoldStep ==
    ASSUME TypeOK, BusyOK, HoldInv, [Next]_vars PROVE HoldInv'
  <1>1. ASSUME NEW s \in Submitters, SubmitStep(s) PROVE HoldInv'
    BY <1>1, HoldCreateJob, HoldEnqueue, HoldSubmitterLeaves DEF SubmitStep
  <1>2. QED
    BY <1>1, HoldWorker, HoldProcess DEF Next

LEMMA HoldInit == Init => HoldInv
  BY DEF Init, HoldInv, HeldRows, HeldOnce, IndexHolds, ProcessOK, NoRow, IdleWorker,
         IdleSubmitter, Executing, Active

(* Two optimisations of one owner and agent never run side by side: the      *)
(* index keeps their rows apart, and a thread that works holds an unfinished *)
(* row of its key.                                                           *)
THEOREM OneWorkerPerKeyAlways == Spec => []OneWorkerPerKey
  <1> DEFINE Inv == TypeOK /\ BusyOK /\ HoldInv
  <1>1. Init => Inv
    BY TypeInit, HoldInit
  <1>2. Inv /\ [Next]_vars => Inv'
    BY TypeStep, HoldStep
  <1>3. Inv => OneWorkerPerKey
    <2> SUFFICES ASSUME Inv, NEW v \in Workers, NEW w \in Workers, v # w,
                        worker[v].phase \in Executing, worker[w].phase \in Executing
                 PROVE  worker[v].key # worker[w].key
      BY DEF OneWorkerPerKey
    <2>1. /\ worker[v].job \in Jobs /\ worker[w].job \in Jobs
          /\ worker[v].job # worker[w].job
      BY DEF HoldInv, HeldOnce, BusyOK, Executing
    <2>2. /\ rows[worker[v].job].status \in Active
          /\ rows[worker[w].job].status \in Active
          /\ rows[worker[v].job].key = worker[v].key
          /\ rows[worker[w].job].key = worker[w].key
      BY DEF HoldInv, HeldRows, Active
    <2>3. QED
      BY <2>1, <2>2 DEF HoldInv, IndexHolds
  <1>4. QED
    BY <1>1, <1>2, <1>3, PTL DEF Spec

-----------------------------------------------------------------------------
(* Which job a stored result belongs to.                                     *)

(* A step that stores no result: rows that have run are not undone, a thread *)
(* that optimises goes on or starts with nothing saved, and a row completes  *)
(* only with its own result.                                                 *)
LEMMA ResultsKept ==
    ASSUME TypeOK, BusyOK, HoldInv, ResultsOK, results' = results,
           \A i \in Jobs : rows[i].status \in {"running", "completed", "failed"} =>
              rows'[i].status \in {"running", "completed", "failed"},
           \A i \in Jobs : rows'[i].status \in Active => rows'[i].error = "none",
           \A i \in Jobs : rows'[i].status = "completed" =>
              rows'[i] = rows[i] \/ Solved(i)',
           \A v \in Workers : worker'[v].phase = "taken" =>
              worker'[v].result = 0 /\ worker'[v].step = 0,
           \A v \in Workers : worker'[v].phase = "optimising" =>
              /\ worker'[v].job = worker[v].job
              /\ worker'[v].key = worker[v].key
              /\ worker'[v].result = worker[v].result
              /\ worker'[v].step = Milestones => worker'[v].result # 0
              /\ \/ worker[v].phase = "optimising"
                 \/ worker[v].phase = "taken"
    PROVE  ResultsOK'
  <1>1. \A i \in DOMAIN results : results[i].job \in Jobs
    <2>1. \A i \in DOMAIN results : results[i] \in WorkItem
      BY SeqElements DEF TypeOK
    <2>2. QED
      BY <2>1 DEF WorkItem
  <1>2. \A i \in DOMAIN results' :
           rows'[results'[i].job].status \in {"running", "completed", "failed"}
    BY <1>1 DEF ResultsOK
  <1>3. AtMostOneResult'
    BY DEF ResultsOK, AtMostOneResult
  <1>4. \A v \in Workers : worker[v].phase = "taken" =>
           \A i \in DOMAIN results : results[i].job # worker[v].job
    BY DEF ResultsOK, HoldInv, HeldRows, Executing
  <1>5. \A v \in Workers : worker'[v].phase = "optimising" =>
          /\ worker'[v].result = 0 =>
                \A i \in DOMAIN results' : results'[i].job # worker'[v].job
          /\ worker'[v].result # 0 =>
                /\ worker'[v].result \in DOMAIN results'
                /\ results'[worker'[v].result].job = worker'[v].job
                /\ results'[worker'[v].result].key = worker'[v].key
          /\ worker'[v].step = Milestones => worker'[v].result # 0
    BY <1>4 DEF ResultsOK
  <1>6. CompletedHasOwnResult'
    BY DEF ResultsOK, CompletedHasOwnResult, Solved
  <1>7. QED
    BY <1>2, <1>3, <1>5, <1>6 DEF ResultsOK

(* The thread saves its result while its row is running, once.               *)
LEMMA ResultsSave ==
    ASSUME TypeOK, BusyOK, HoldInv, ResultsOK, NEW w \in Workers, SaveResult(w)
    PROVE  ResultsOK'
  <1> DEFINE j == worker[w].job
             n == Len(results) + 1
  <1>1. /\ worker[w].phase = "optimising"
        /\ worker[w].result = 0
        /\ j \in Jobs
        /\ worker[w].key \in Keys
        /\ rows' = rows
    BY DEF SaveResult, BusyOK, Executing
  <1>2. /\ rows[j].status = "running"
        /\ \A i \in DOMAIN results : results[i].job # j
    BY <1>1 DEF HoldInv, HeldRows, ResultsOK, Executing
  <1>3. /\ worker'[w].phase = "optimising"
        /\ worker'[w].job = j
        /\ worker'[w].key = worker[w].key
        /\ worker'[w].result = n
        /\ \A v \in Workers : v # w => worker'[v] = worker[v]
    BY <1>1 DEF SaveResult, TypeOK, WorkerState
  <1>4. [job |-> j, key |-> worker[w].key] \in WorkItem
    BY <1>1 DEF WorkItem
  <1>5. /\ n \in Nat \ {0}
        /\ n \notin DOMAIN results
        /\ DOMAIN results' = DOMAIN results \cup {n}
        /\ \A i \in DOMAIN results : results'[i] = results[i]
        /\ results'[n].job = j
        /\ results'[n].key = worker[w].key
    BY <1>4, AppendElements DEF SaveResult, TypeOK
  <1>6. \A i \in DOMAIN results' :
           rows'[results'[i].job].status \in {"running", "completed", "failed"}
    BY <1>1, <1>2, <1>5 DEF ResultsOK
  <1>7. AtMostOneResult'
    BY <1>2, <1>5 DEF ResultsOK, AtMostOneResult
  <1>8. \A v \in Workers : worker'[v].phase = "taken" =>
           worker'[v].result = 0 /\ worker'[v].step = 0
    BY <1>3 DEF ResultsOK
  <1>9. \A v \in Workers : v # w /\ worker[v].phase = "optimising" => worker[v].job # j
    BY <1>1 DEF HoldInv, HeldOnce, Executing
  <1>10. \A v \in Workers : worker'[v].phase = "optimising" =>
          /\ worker'[v].result = 0 =>
                \A i \in DOMAIN results' : results'[i].job # worker'[v].job
          /\ worker'[v].result # 0 =>
                /\ worker'[v].result \in DOMAIN results'
                /\ results'[worker'[v].result].job = worker'[v].job
                /\ results'[worker'[v].result].key = worker'[v].key
          /\ worker'[v].step = Milestones => worker'[v].result # 0
    <2>1. ASSUME NEW v \in Workers, v # w, worker[v].phase = "optimising"
          PROVE  /\ worker[v].result = 0 =>
                       \A i \in DOMAIN results' : results'[i].job # worker[v].job
                 /\ worker[v].result # 0 =>
                       /\ worker[v].result \in DOMAIN results'
                       /\ results'[worker[v].result].job = worker[v].job
                       /\ results'[worker[v].result].key = worker[v].key
                 /\ worker[v].step = Milestones => worker[v].result # 0
      BY <1>5, <1>9, <2>1 DEF ResultsOK
    <2>2. QED
      BY <1>3, <1>5, <2>1
  <1>11. CompletedHasOwnResult'
    BY <1>1, <1>5 DEF ResultsOK, CompletedHasOwnResult, Solved
  <1>12. \A i \in Jobs : rows'[i].status \in Active => rows'[i].error = "none"
    BY <1>1 DEF ResultsOK
  <1>13. QED
    BY <1>6, <1>7, <1>8, <1>10, <1>11, <1>12 DEF ResultsOK

LEMMA ResultsSubmit ==
    ASSUME TypeOK, BusyOK, HoldInv, ResultsOK, NEW s \in Submitters, SubmitStep(s)
    PROVE  ResultsOK'
  <1>1. results' = results /\ worker' = worker
    BY DEF SubmitStep, CreateJob, Enqueue, ReadBackRaises, RegisterFuture,
           AddDoneCallback, tableVars
  <1>2. \A i \in Jobs :
           rows'[i] = rows[i] \/ /\ rows[i].status = "absent"
                                 /\ rows'[i].status = "queued"
                                 /\ rows'[i].error = "none"
    <2>1. CASE rows' = rows
      BY <2>1
    <2>2. ASSUME NEW k \in Keys, NEW j \in Jobs, CreateJob(s, k, j)
          PROVE  /\ rows[j].status = "absent"
                 /\ rows'[j].status = "queued" /\ rows'[j].error = "none"
                 /\ \A i \in Jobs : i # j => rows'[i] = rows[i]
      BY <2>2 DEF CreateJob, NoRow, TypeOK
    <2>3. QED
      BY <2>1, <2>2
      DEF SubmitStep, Enqueue, ReadBackRaises, RegisterFuture, AddDoneCallback, tableVars
  <1>3. /\ \A i \in Jobs : rows[i].status \in {"running", "completed", "failed"} =>
              rows'[i].status \in {"running", "completed", "failed"}
        /\ \A i \in Jobs : rows'[i].status \in Active => rows'[i].error = "none"
        /\ \A i \in Jobs : rows'[i].status = "completed" => rows'[i] = rows[i]
    BY <1>2 DEF ResultsOK
  <1>4. \A v \in Workers : worker[v].phase = "optimising" =>
           (worker[v].step = Milestones => worker[v].result # 0)
    BY DEF ResultsOK
  <1>5. \A v \in Workers : worker[v].phase = "taken" =>
           worker[v].result = 0 /\ worker[v].step = 0
    BY DEF ResultsOK
  <1>6. QED
    BY <1>1, <1>3, <1>4, <1>5, ResultsKept

LEMMA ResultsWorker ==
    ASSUME TypeOK, BusyOK, HoldInv, ResultsOK, NEW w \in Workers, WorkerStep(w)
    PROVE  ResultsOK'
  <1> DEFINE j == worker[w].job
  <1>1. CASE SaveResult(w)
    BY <1>1, ResultsSave
  <1>2. ASSUME ~SaveResult(w) PROVE results' = results
    BY <1>2 DEF WorkerStep, Take, MarkRunning, MarkRunningRaises, ReportProgress,
      MarkCompleted, OptimiseRaises, MarkFailed, MarkFailedRaises, FinishFuture,
      Forget, tableVars
  <1>3. \A v \in Workers : v # w => worker'[v] = worker[v]
    BY DEF WorkerStep, Take, MarkRunning, MarkRunningRaises, ReportProgress,
      SaveResult, MarkCompleted, OptimiseRaises, MarkFailed, MarkFailedRaises,
      FinishFuture, Forget, TypeOK
  <1>4. /\ \A v \in Workers : worker[v].phase = "taken" =>
              worker[v].result = 0 /\ worker[v].step = 0
        /\ \A v \in Workers : worker[v].phase = "optimising" =>
              (worker[v].step = Milestones => worker[v].result # 0)
        /\ \A i \in Jobs : rows[i].status \in Active => rows[i].error = "none"
    BY DEF ResultsOK
  <1>5. worker[w].phase \in Executing =>
           /\ j \in Jobs
           /\ rows[j].status = IF worker[w].phase = "taken" THEN "queued" ELSE "running"
           /\ rows[j].key = worker[w].key
    BY DEF HoldInv, HeldRows, BusyOK, Executing
  (* Steps that write no row and do not start to optimise.                   *)
  <1>6. ASSUME results' = results, rows' = rows,
               worker'[w].phase = "taken" =>
                  worker'[w].result = 0 /\ worker'[w].step = 0,
               worker'[w].phase # "optimising"
        PROVE  ResultsOK'
    <2>1. \A v \in Workers : worker'[v].phase = "taken" =>
             worker'[v].result = 0 /\ worker'[v].step = 0
      BY <1>3, <1>4, <1>6
    <2>2. \A v \in Workers : worker'[v].phase = "optimising" => worker'[v] = worker[v]
      BY <1>3, <1>6
    <2>3. QED
      BY <1>4, <1>6, <2>1, <2>2, ResultsKept
  <1>7. CASE Take(w)
    <2>1. worker'[w].phase = "taken" /\ worker'[w].result = 0 /\ worker'[w].step = 0
      BY <1>7 DEF Take, TypeOK, IdleWorker
    <2>2. results' = results /\ rows' = rows
      BY <1>7 DEF Take, tableVars
    <2>3. QED
      BY <1>6, <2>1, <2>2
  <1>8. CASE \/ MarkRunningRaises(w)
             \/ \E code \in ErrorCodes : OptimiseRaises(w, code)
             \/ MarkFailedRaises(w)
    <2>1. worker'[w].phase \in {"failing", "finishing"}
      BY <1>8 DEF MarkRunningRaises, OptimiseRaises, MarkFailedRaises, TypeOK, WorkerState
    <2>2. results' = results /\ rows' = rows
      BY <1>8 DEF MarkRunningRaises, OptimiseRaises, MarkFailedRaises, tableVars
    <2>3. QED
      BY <1>6, <2>1, <2>2
  <1>9. CASE FinishFuture(w) \/ Forget(w)
    <2>1. worker'[w].phase \in {"forgetting", "idle"}
      <3>1. CASE FinishFuture(w)
        <4>1. worker'[w] = IF j \in callbacks
                           THEN [IdleWorker EXCEPT !.phase = "forgetting", !.job = j]
                           ELSE IdleWorker
          BY <3>1 DEF FinishFuture, TypeOK
        <4>2. QED
          BY <4>1 DEF IdleWorker
      <3>2. CASE Forget(w)
        BY <3>2 DEF Forget, TypeOK, IdleWorker
      <3>3. QED
        BY <1>9, <3>1, <3>2
    <2>2. results' = results /\ rows' = rows
      BY <1>9 DEF FinishFuture, Forget, tableVars
    <2>3. QED
      BY <1>6, <2>1, <2>2
  <1>10. CASE MarkRunning(w)
    <2>1. /\ worker[w].phase = "taken"
          /\ worker'[w].phase = "optimising"
          /\ worker'[w].job = j
          /\ worker'[w].key = worker[w].key
          /\ worker'[w].result = worker[w].result
          /\ worker'[w].step = worker[w].step
      BY <1>10 DEF MarkRunning, TypeOK, WorkerState
    <2>2. worker'[w].step # Milestones
      BY <1>4, <2>1, JobsAssumption DEF Milestones
    <2>3. /\ rows'[j].status = "running"
          /\ rows'[j].error = rows[j].error
          /\ \A i \in Jobs : i # j => rows'[i] = rows[i]
      BY <1>5, <1>10, <2>1 DEF MarkRunning, MarkedRunning, TypeOK, Row, Executing
    <2>4. /\ \A i \in Jobs : rows[i].status \in {"running", "completed", "failed"} =>
                rows'[i].status \in {"running", "completed", "failed"}
          /\ \A i \in Jobs : rows'[i].status \in Active => rows'[i].error = "none"
          /\ \A i \in Jobs : rows'[i].status = "completed" => rows'[i] = rows[i]
      BY <1>4, <1>5, <2>1, <2>3 DEF Active, Executing
    <2>5. results' = results
      BY <1>10 DEF MarkRunning
    <2>6. \A v \in Workers : worker'[v].phase = "taken" =>
             worker'[v].result = 0 /\ worker'[v].step = 0
      BY <1>3, <1>4, <2>1
    <2>7. \A v \in Workers : worker'[v].phase = "optimising" =>
              /\ worker'[v].job = worker[v].job
              /\ worker'[v].key = worker[v].key
              /\ worker'[v].result = worker[v].result
              /\ worker'[v].step = Milestones => worker'[v].result # 0
              /\ \/ worker[v].phase = "optimising"
                 \/ worker[v].phase = "taken"
      BY <1>3, <1>4, <2>1, <2>2
    <2>8. QED
      BY <2>4, <2>5, <2>6, <2>7, ResultsKept
  <1>11. CASE ReportProgress(w)
    <2>1. /\ worker[w].phase = "optimising"
          /\ worker'[w].phase = "optimising"
          /\ worker'[w].job = j
          /\ worker'[w].key = worker[w].key
          /\ worker'[w].result = worker[w].result
          /\ worker'[w].step = Milestones => worker[w].result # 0
      BY <1>11 DEF ReportProgress, TypeOK, WorkerState
    <2>2. /\ rows'[j].status = rows[j].status
          /\ rows'[j].error = rows[j].error
          /\ \A i \in Jobs : i # j => rows'[i] = rows[i]
      BY <1>5, <1>11, <2>1 DEF ReportProgress, Progressed, TypeOK, Row, Executing
    <2>3. /\ \A i \in Jobs : rows[i].status \in {"running", "completed", "failed"} =>
                rows'[i].status \in {"running", "completed", "failed"}
          /\ \A i \in Jobs : rows'[i].status \in Active => rows'[i].error = "none"
          /\ \A i \in Jobs : rows'[i].status = "completed" => rows'[i] = rows[i]
      BY <1>4, <1>5, <2>1, <2>2 DEF Executing
    <2>4. results' = results
      BY <1>11 DEF ReportProgress
    <2>5. \A v \in Workers : worker'[v].phase = "taken" =>
             worker'[v].result = 0 /\ worker'[v].step = 0
      BY <1>3, <1>4, <2>1
    <2>6. \A v \in Workers : worker'[v].phase = "optimising" =>
              /\ worker'[v].job = worker[v].job
              /\ worker'[v].key = worker[v].key
              /\ worker'[v].result = worker[v].result
              /\ worker'[v].step = Milestones => worker'[v].result # 0
              /\ worker[v].phase = "optimising"
      BY <1>3, <1>4, <2>1
    <2>7. QED
      BY <2>3, <2>4, <2>5, <2>6, ResultsKept
  <1>12. CASE MarkCompleted(w) \/ MarkFailed(w)
    <2>1. worker[w].phase \in Executing \ {"taken"} /\ worker'[w].phase = "finishing"
      BY <1>12 DEF MarkCompleted, MarkFailed, TypeOK, WorkerState, Executing
    <2>2. /\ rows'[j].status \in Terminal
          /\ \A i \in Jobs : i = j /\ rows'[i].status = "completed" => Solved(i)'
          /\ \A i \in Jobs : i # j => rows'[i] = rows[i]
          /\ results' = results
      <3>1. CASE MarkCompleted(w)
        <4>1. /\ worker[w].phase = "optimising"
              /\ worker[w].result \in DOMAIN results
              /\ results[worker[w].result].job = j
              /\ results[worker[w].result].key = worker[w].key
          BY <3>1 DEF MarkCompleted, ResultsOK
        <4>2. /\ rows'[j].status = "completed"
              /\ rows'[j].error = rows[j].error
              /\ rows'[j].key = rows[j].key
              /\ rows'[j].result = worker[w].result
              /\ \A i \in Jobs : i # j => rows'[i] = rows[i]
              /\ results' = results
          BY <1>5, <2>1, <3>1 DEF MarkCompleted, MarkedCompleted, TypeOK, Row
        <4>3. rows[j].error = "none"
          BY <1>4, <1>5, <2>1 DEF Active
        <4>4. QED
          BY <1>5, <2>1, <4>1, <4>2, <4>3 DEF Solved, Terminal
      <3>2. CASE MarkFailed(w)
        BY <1>5, <2>1, <3>2 DEF MarkFailed, MarkedFailed, TypeOK, Row, Terminal
      <3>3. QED
        BY <1>12, <3>1, <3>2
    <2>3. /\ \A i \in Jobs : rows[i].status \in {"running", "completed", "failed"} =>
                rows'[i].status \in {"running", "completed", "failed"}
          /\ \A i \in Jobs : rows'[i].status \in Active => rows'[i].error = "none"
          /\ \A i \in Jobs : rows'[i].status = "completed" =>
                rows'[i] = rows[i] \/ Solved(i)'
      BY <1>4, <2>2 DEF Active, Terminal
    <2>4. \A v \in Workers : worker'[v].phase = "taken" =>
             worker'[v].result = 0 /\ worker'[v].step = 0
      BY <1>3, <1>4, <2>1
    <2>5. \A v \in Workers : worker'[v].phase = "optimising" =>
             worker'[v] = worker[v] /\ worker[v].phase = "optimising"
      BY <1>3, <2>1
    <2>6. QED
      BY <1>4, <2>2, <2>3, <2>4, <2>5, ResultsKept
  <1>13. QED
    BY <1>1, <1>7, <1>8, <1>9, <1>10, <1>11, <1>12 DEF WorkerStep

LEMMA ResultsProcess ==
    ASSUME TypeOK, BusyOK, HoldInv, ResultsOK, ProcessStep \/ UNCHANGED vars
    PROVE  ResultsOK'
  <1>1. CASE Startup
    <2>1. \A i \in Jobs : \/ rows'[i] = rows[i] /\ rows[i].status \notin Active
                          \/ rows'[i].status = "failed"
      BY <1>1 DEF Startup, Swept, MarkedFailed, TypeOK, Row
    <2>2. results' = results /\ worker' = worker
      BY <1>1 DEF Startup, memoryVars
    <2>3. /\ \A i \in Jobs : rows[i].status \in {"running", "completed", "failed"} =>
                rows'[i].status \in {"running", "completed", "failed"}
          /\ \A i \in Jobs : rows'[i].status \in Active => rows'[i].error = "none"
          /\ \A i \in Jobs : rows'[i].status = "completed" => rows'[i] = rows[i]
      BY <2>1 DEF Active
    <2>4. \A v \in Workers : worker[v].phase = "idle"
      BY <1>1 DEF Startup, HoldInv, ProcessOK
    <2>5. QED
      BY <2>2, <2>3, <2>4, ResultsKept
  <1>2. CASE Kill \/ EndShutdown
    <2>1. rows' = rows /\ results' = results /\ \A v \in Workers : worker'[v].phase = "idle"
      BY <1>2 DEF Kill, EndShutdown, ForgetMemory, tableVars, IdleWorker
    <2>2. \A i \in Jobs : rows[i].status \in Active => rows[i].error = "none"
      BY DEF ResultsOK
    <2>3. QED
      BY <2>1, <2>2, ResultsKept
  <1>3. CASE BeginShutdown \/ UNCHANGED vars
    <2>1. rows' = rows /\ results' = results /\ worker' = worker
      BY <1>3 DEF BeginShutdown, vars, tableVars, memoryVars
    <2>2. QED
      BY <2>1 DEF ResultsOK, AtMostOneResult, CompletedHasOwnResult, Solved
  <1>4. QED
    BY <1>1, <1>2, <1>3 DEF ProcessStep

LEMMA ResultsStep ==
    ASSUME TypeOK, BusyOK, HoldInv, ResultsOK, [Next]_vars PROVE ResultsOK'
  BY ResultsSubmit, ResultsWorker, ResultsProcess DEF Next

LEMMA ResultsInit == Init => ResultsOK
  BY DEF Init, ResultsOK, AtMostOneResult, CompletedHasOwnResult, NoRow, IdleWorker, Active

LEMMA ResultsInvariant == Spec => [](TypeOK /\ BusyOK /\ HoldInv /\ ResultsOK)
  <1> DEFINE Inv == TypeOK /\ BusyOK /\ HoldInv /\ ResultsOK
  <1>1. Init => Inv
    BY TypeInit, HoldInit, ResultsInit
  <1>2. Inv /\ [Next]_vars => Inv'
    BY TypeStep, HoldStep, ResultsStep
  <1>3. QED
    BY <1>1, <1>2, PTL DEF Spec

(* A completed row always points at a stored result that its own job         *)
(* produced, although mark_completed checks nothing.                         *)
THEOREM CompletedHasOwnResultAlways == Spec => []CompletedHasOwnResult
  BY ResultsInvariant, PTL DEF ResultsOK

(* No job leaves two results, although the INSERT checks nothing.            *)
THEOREM AtMostOneResultAlways == Spec => []AtMostOneResult
  BY ResultsInvariant, PTL DEF ResultsOK

-----------------------------------------------------------------------------
(* Which unfinished rows nobody holds.                                       *)

(* A step that hands a row from one holder to the next, or lets its holder   *)
(* work on it, changes nothing about who is responsible.                     *)
LEMMA StrandedKept ==
    ASSUME TypeOK, StrandedOK, process' = process, stranded' = stranded,
           \A i \in Jobs : Held(i)' <=> Held(i),
           \A i \in Jobs : /\ rows'[i].status \in Active <=> rows[i].status \in Active
                           /\ rows[i].status # "absent" => rows'[i].status # "absent"
    PROVE  StrandedOK'
  <1>1. \A i \in stranded : i \in Jobs
    BY DEF TypeOK
  <1>2. \A i \in stranded' : rows'[i].status # "absent" /\ ~Held(i)'
    BY <1>1 DEF StrandedOK
  <1>3. process' \in {"up", "draining"} =>
           \A i \in Jobs : rows'[i].status \in Active /\ i \notin stranded' => Held(i)'
    BY DEF StrandedOK
  <1>4. ShutdownDrains'
    BY DEF StrandedOK, ShutdownDrains
  <1>5. QED
    BY <1>2, <1>3, <1>4 DEF StrandedOK

(* A step that lets go of row j has finished the row or stranded it.         *)
LEMMA StrandedReleased ==
    ASSUME TypeOK, StrandedOK, process \in {"up", "draining"}, process' = process,
           NEW j \in Jobs,
           rows'[j].status # "absent",
           \A i \in Jobs : Held(i)' <=> Held(i) /\ i # j,
           \A i \in Jobs : i # j => rows'[i] = rows[i],
           \/ rows'[j].status \notin Active /\ stranded' = stranded
           \/ stranded' = stranded \cup {j}
    PROVE  StrandedOK'
  <1>1. \A i \in stranded : i \in Jobs
    BY DEF TypeOK
  <1>2. \A i \in stranded' : rows'[i].status # "absent" /\ ~Held(i)'
    BY <1>1 DEF StrandedOK
  <1>3. \A i \in Jobs : rows'[i].status \in Active /\ i \notin stranded' => Held(i)'
    BY DEF StrandedOK
  <1>4. QED
    BY <1>2, <1>3 DEF StrandedOK, ShutdownDrains

(* Who holds what, after a step of an executor thread that has a job.        *)
LEMMA HeldAfterWorker ==
    ASSUME TypeOK, HoldInv, NEW w \in Workers,
           UNCHANGED <<queue, submitter>>,
           \A v \in Workers : v # w => worker'[v] = worker[v],
           worker'[w].phase \in Executing =>
              worker[w].phase \in Executing /\ worker'[w].job = worker[w].job
    PROVE  \A i \in Jobs :
              Held(i)' <=> /\ Held(i)
                           /\ \/ worker[w].phase \notin Executing
                              \/ worker'[w].phase \in Executing
                              \/ i # worker[w].job
  <1> SUFFICES ASSUME NEW i \in Jobs
               PROVE  Held(i)' <=> /\ Held(i)
                                   /\ \/ worker[w].phase \notin Executing
                                      \/ worker'[w].phase \in Executing
                                      \/ i # worker[w].job
    OBVIOUS
  <1> DEFINE others == \/ \E s \in Submitters : HeldBySubmitter(s, i)
                       \/ \E k \in DOMAIN queue : HeldInQueue(k, i)
                       \/ \E v \in Workers \ {w} : HeldByWorker(v, i)
  <1>1. Held(i) <=> others \/ HeldByWorker(w, i)
    BY DEF Held
  <1>2. Held(i)' <=> others \/ HeldByWorker(w, i)'
    BY DEF Held, HeldBySubmitter, HeldInQueue, HeldByWorker
  <1>3. HeldByWorker(w, i) => ~others
    BY DEF HoldInv, HeldOnce, HeldBySubmitter, HeldInQueue, HeldByWorker
  <1>4. HeldByWorker(w, i)' => HeldByWorker(w, i)
    BY DEF HeldByWorker
  <1>5. HeldByWorker(w, i) =>
           (HeldByWorker(w, i)' <=> worker'[w].phase \in Executing)
    BY DEF HeldByWorker
  <1>6. HeldByWorker(w, i) <=> worker[w].phase \in Executing /\ i = worker[w].job
    BY DEF HeldByWorker
  <1> HIDE DEF others
  <1>7. QED
    BY <1>1, <1>2, <1>3, <1>4, <1>5, <1>6

LEMMA StrandedSubmit ==
    ASSUME TypeOK, BusyOK, HoldInv, StrandedOK, NEW s \in Submitters, SubmitStep(s)
    PROVE  StrandedOK'
  <1>1. ASSUME NEW k \in Keys, NEW j \in Jobs, CreateJob(s, k, j) PROVE StrandedOK'
    <2>1. /\ rows[j].status = "absent"
          /\ rows'[j].status = "queued"
          /\ \A i \in Jobs : i # j => rows'[i] = rows[i]
          /\ stranded' = stranded
          /\ process = "up" /\ process' = "up"
      BY <1>1 DEF CreateJob, TypeOK, NoRow
    <2>2. /\ submitter[s].phase = "idle"
          /\ submitter'[s].phase = "created"
          /\ submitter'[s].job = j
          /\ \A t \in Submitters : t # s => submitter'[t] = submitter[t]
          /\ queue' = queue /\ worker' = worker
      BY <1>1 DEF CreateJob, TypeOK
    <2>3. \A i \in Jobs : Held(i)' <=> Held(i) \/ i = j
      BY <2>2 DEF Held, HeldBySubmitter, HeldInQueue, HeldByWorker
    <2>4. \A i \in stranded : i \in Jobs /\ i # j
      BY <2>1 DEF StrandedOK, TypeOK
    <2>5. \A i \in stranded' : rows'[i].status # "absent" /\ ~Held(i)'
      BY <2>1, <2>3, <2>4 DEF StrandedOK
    <2>6. \A i \in Jobs : rows'[i].status \in Active /\ i \notin stranded' => Held(i)'
      BY <2>1, <2>3 DEF StrandedOK
    <2>7. QED
      BY <2>1, <2>5, <2>6 DEF StrandedOK, ShutdownDrains
  <1>2. CASE Enqueue(s)
    <2>1. /\ rows' = rows /\ stranded' = stranded /\ process' = process
          /\ worker' = worker
      BY <1>2 DEF Enqueue, tableVars
    <2>2. /\ submitter[s].phase = "created"
          /\ submitter'[s].phase = "enqueued"
          /\ \A t \in Submitters : t # s => submitter'[t] = submitter[t]
      BY <1>2 DEF Enqueue, TypeOK, SubmitterState
    <2>3. [job |-> submitter[s].job, key |-> submitter[s].key] \in WorkItem
      BY <2>2 DEF BusyOK, WorkItem
    <2>4. \E n : /\ n \notin DOMAIN queue
                 /\ DOMAIN queue' = DOMAIN queue \cup {n}
                 /\ \A i \in DOMAIN queue : queue'[i] = queue[i]
                 /\ queue'[n].job = submitter[s].job
      <3>1. /\ Len(queue) + 1 \notin DOMAIN queue
            /\ DOMAIN queue' = DOMAIN queue \cup {Len(queue) + 1}
            /\ \A i \in DOMAIN queue : queue'[i] = queue[i]
            /\ queue'[Len(queue) + 1].job = submitter[s].job
        BY <1>2, <2>3, AppendElements DEF Enqueue, TypeOK
      <3>2. QED
        BY <3>1
    <2>5. \A i \in Jobs : Held(i)' <=> Held(i)
      BY <2>1, <2>2, <2>4 DEF Held, HeldBySubmitter, HeldInQueue, HeldByWorker
    <2>6. QED
      BY <2>1, <2>5, StrandedKept
  <1>3. CASE ReadBackRaises(s)
    <2>1. /\ submitter[s].phase = "created"
          /\ submitter'[s].phase = "idle"
          /\ \A t \in Submitters : t # s => submitter'[t] = submitter[t]
          /\ rows' = rows /\ queue' = queue /\ worker' = worker /\ process' = process
          /\ stranded' = stranded \cup {submitter[s].job}
      BY <1>3 DEF ReadBackRaises, IdleSubmitter, TypeOK, tableVars
    <2>2. /\ submitter[s].job \in Jobs
          /\ rows[submitter[s].job].status = "queued"
          /\ process \in {"up", "draining"}
      BY <2>1 DEF BusyOK, HoldInv, HeldRows, ProcessOK, TypeOK
    <2>3. \A i \in Jobs : Held(i)' <=> Held(i) /\ i # submitter[s].job
      BY <2>1 DEF HoldInv, HeldOnce, Held, HeldBySubmitter, HeldInQueue, HeldByWorker
    <2>4. QED
      BY <2>1, <2>2, <2>3, StrandedReleased
  <1>4. CASE RegisterFuture(s) \/ AddDoneCallback(s)
    <2>1. /\ submitter[s].phase # "created"
          /\ submitter'[s].phase # "created"
          /\ \A t \in Submitters : t # s => submitter'[t] = submitter[t]
      BY <1>4 DEF RegisterFuture, AddDoneCallback, IdleSubmitter, TypeOK, SubmitterState
    <2>2. /\ rows' = rows /\ queue' = queue /\ worker' = worker
          /\ process' = process /\ stranded' = stranded
      BY <1>4 DEF RegisterFuture, AddDoneCallback, tableVars
    <2>3. \A i \in Jobs : Held(i)' <=> Held(i)
      BY <2>1, <2>2 DEF Held, HeldBySubmitter, HeldInQueue, HeldByWorker
    <2>4. QED
      BY <2>2, <2>3, StrandedKept
  <1>5. QED
    BY <1>1, <1>2, <1>3, <1>4 DEF SubmitStep

LEMMA StrandedTake ==
    ASSUME TypeOK, BusyOK, HoldInv, StrandedOK, NEW w \in Workers, Take(w)
    PROVE  StrandedOK'
  <1>1. queue # <<>> /\ queue' = Tail(queue) /\ worker[w].phase = "idle"
    BY DEF Take
  <1>2. /\ DOMAIN queue' = 1 .. Len(queue) - 1
        /\ DOMAIN queue = 1 .. Len(queue)
        /\ Len(queue) \in Nat \ {0}
        /\ Head(queue) = queue[1]
        /\ \A i \in 1 .. Len(queue) - 1 : queue'[i] = queue[i + 1]
    BY <1>1, TailElements DEF TypeOK
  <1>3. /\ worker'[w].phase = "taken"
        /\ worker'[w].job = queue[1].job
        /\ \A v \in Workers : v # w => worker'[v] = worker[v]
    BY <1>2 DEF Take, TypeOK, IdleWorker
  <1>4. /\ rows' = rows /\ submitter' = submitter
        /\ process' = process /\ stranded' = stranded
    BY DEF Take, tableVars
  <1>5. \A i \in Jobs : (\E k \in DOMAIN queue : queue[k].job = i) <=>
                           \/ queue[1].job = i
                           \/ \E k \in DOMAIN queue' : queue'[k].job = i
    <2> SUFFICES ASSUME NEW i \in Jobs
                 PROVE  (\E k \in DOMAIN queue : queue[k].job = i) <=>
                           \/ queue[1].job = i
                           \/ \E k \in DOMAIN queue' : queue'[k].job = i
      OBVIOUS
    <2>1. ASSUME NEW k \in DOMAIN queue, queue[k].job = i
          PROVE  queue[1].job = i \/ \E m \in DOMAIN queue' : queue'[m].job = i
      <3>1. k = 1 \/ (k - 1 \in DOMAIN queue' /\ queue'[k - 1] = queue[k])
        BY <1>2
      <3>2. QED
        BY <2>1, <3>1
    <2>2. ASSUME NEW k \in DOMAIN queue', queue'[k].job = i
          PROVE  \E m \in DOMAIN queue : queue[m].job = i
      <3>1. k + 1 \in DOMAIN queue /\ queue'[k] = queue[k + 1]
        BY <1>2
      <3>2. QED
        BY <2>2, <3>1
    <2>3. 1 \in DOMAIN queue
      BY <1>2
    <2>4. QED
      BY <2>1, <2>2, <2>3
  <1>6. ASSUME NEW i \in Jobs PROVE Held(i)' <=> Held(i)
    <2>1. (\E v \in Workers : HeldByWorker(v, i)') <=>
             \/ queue[1].job = i
             \/ \E v \in Workers : HeldByWorker(v, i)
      BY <1>1, <1>3 DEF HeldByWorker, Executing
    <2>2. (\E k \in DOMAIN queue : HeldInQueue(k, i)) <=>
             \/ queue[1].job = i
             \/ \E k \in DOMAIN queue' : HeldInQueue(k, i)'
      BY <1>5 DEF HeldInQueue
    <2>3. (\E s \in Submitters : HeldBySubmitter(s, i)') <=>
             \E s \in Submitters : HeldBySubmitter(s, i)
      BY <1>4 DEF HeldBySubmitter
    <2>4. QED
      BY <2>1, <2>2, <2>3 DEF Held
  <1>7. QED
    BY <1>4, <1>6, StrandedKept

LEMMA StrandedWorker ==
    ASSUME TypeOK, BusyOK, HoldInv, StrandedOK, NEW w \in Workers, WorkerStep(w)
    PROVE  StrandedOK'
  <1>1. CASE Take(w)
    BY <1>1, StrandedTake
  <1>2. CASE ~Take(w)
    <2>1. /\ worker[w].phase # "idle"
          /\ UNCHANGED <<queue, submitter, process>>
          /\ \A v \in Workers : v # w => worker'[v] = worker[v]
      BY <1>2 DEF WorkerStep, MarkRunning, MarkRunningRaises, ReportProgress,
        SaveResult, MarkCompleted, OptimiseRaises, MarkFailed, MarkFailedRaises,
        FinishFuture, Forget, TypeOK
    <2>2. PICK j \in Jobs : j = worker[w].job
      BY <2>1 DEF BusyOK
    <2>3. process \in {"up", "draining"}
      BY <2>1 DEF HoldInv, ProcessOK, TypeOK
    <2>4. worker[w].phase \in Executing =>
             rows[j].status = IF worker[w].phase = "taken" THEN "queued" ELSE "running"
      BY <2>2 DEF HoldInv, HeldRows
    (* The thread keeps its row, or has none before and after.               *)
    <2>5. ASSUME stranded' = stranded,
                 \A i \in Jobs : i # j => rows'[i] = rows[i],
                 worker'[w].phase \in Executing <=> worker[w].phase \in Executing,
                 worker'[w].phase \in Executing =>
                    worker'[w].job = j /\ rows'[j].status \in Active,
                 worker'[w].phase \notin Executing => rows' = rows
          PROVE  StrandedOK'
      <3>1. \A i \in Jobs : Held(i)' <=> Held(i)
        BY <2>1, <2>2, <2>5, HeldAfterWorker
      <3>2. \A i \in Jobs :
               /\ rows'[i].status \in Active <=> rows[i].status \in Active
               /\ rows[i].status # "absent" => rows'[i].status # "absent"
        BY <2>4, <2>5 DEF Active, Executing
      <3>3. QED
        BY <2>1, <2>5, <3>1, <3>2, StrandedKept
    (* The thread lets go of its row.                                        *)
    <2>6. ASSUME worker[w].phase \in Executing, worker'[w].phase \notin Executing,
                 \A i \in Jobs : i # j => rows'[i] = rows[i],
                 rows'[j].status # "absent",
                 \/ rows'[j].status \notin Active /\ stranded' = stranded
                 \/ stranded' = stranded \cup {j}
          PROVE  StrandedOK'
      <3>1. \A i \in Jobs : Held(i)' <=> Held(i) /\ i # j
        BY <2>1, <2>2, <2>6, HeldAfterWorker
      <3>2. QED
        BY <2>1, <2>3, <2>6, <3>1, StrandedReleased
    <2>7. CASE MarkRunning(w)
      <3>1. /\ worker[w].phase = "taken"
            /\ worker'[w].phase = "optimising"
            /\ worker'[w].job = j
            /\ stranded' = stranded
        BY <2>2, <2>7 DEF MarkRunning, TypeOK, WorkerState
      <3>2. /\ rows'[j].status = "running"
            /\ \A i \in Jobs : i # j => rows'[i] = rows[i]
        BY <2>2, <2>4, <2>7, <3>1 DEF MarkRunning, MarkedRunning, TypeOK, Row, Executing
      <3>3. QED
        BY <2>5, <3>1, <3>2 DEF Executing, Active
    <2>8. CASE ReportProgress(w)
      <3>1. /\ worker[w].phase = "optimising"
            /\ worker'[w].phase = "optimising"
            /\ worker'[w].job = j
            /\ stranded' = stranded
        BY <2>2, <2>8 DEF ReportProgress, TypeOK, WorkerState
      <3>2. /\ rows'[j].status = "running"
            /\ \A i \in Jobs : i # j => rows'[i] = rows[i]
        BY <2>2, <2>4, <2>8, <3>1 DEF ReportProgress, Progressed, TypeOK, Row, Executing
      <3>3. QED
        BY <2>5, <3>1, <3>2 DEF Executing, Active
    <2>9. CASE SaveResult(w) \/ \E code \in ErrorCodes : OptimiseRaises(w, code)
      <3>1. /\ worker[w].phase = "optimising"
            /\ worker'[w].phase \in {"optimising", "failing"}
            /\ worker'[w].job = j
            /\ rows' = rows
            /\ stranded' = stranded
        BY <2>2, <2>9 DEF SaveResult, OptimiseRaises, TypeOK, WorkerState, tableVars
      <3>2. QED
        BY <2>4, <2>5, <3>1 DEF Executing, Active
    <2>10. CASE MarkCompleted(w) \/ MarkFailed(w)
      <3>1. /\ worker[w].phase \in {"optimising", "failing"}
            /\ worker'[w].phase = "finishing"
            /\ stranded' = stranded
        BY <2>10 DEF MarkCompleted, MarkFailed, TypeOK, WorkerState
      <3>2. /\ rows'[j].status \in Terminal
            /\ \A i \in Jobs : i # j => rows'[i] = rows[i]
        <4>1. CASE MarkCompleted(w)
          BY <2>2, <4>1 DEF MarkCompleted, MarkedCompleted, TypeOK, Row, Terminal
        <4>2. CASE MarkFailed(w)
          BY <2>2, <4>2 DEF MarkFailed, MarkedFailed, TypeOK, Row, Terminal
        <4>3. QED
          BY <2>10, <4>1, <4>2
      <3>3. QED
        BY <2>6, <3>1, <3>2 DEF Executing, Active, Terminal
    <2>11. CASE MarkRunningRaises(w) \/ MarkFailedRaises(w)
      <3>1. /\ worker[w].phase \in {"taken", "failing"}
            /\ worker'[w].phase = "finishing"
            /\ rows' = rows
            /\ stranded' = stranded \cup {j}
        BY <2>2, <2>11 DEF MarkRunningRaises, MarkFailedRaises, TypeOK, WorkerState,
                           tableVars
      <3>2. rows[j].status # "absent"
        BY <2>4, <3>1 DEF Executing
      <3>3. QED
        BY <2>6, <3>1, <3>2 DEF Executing
    <2>12. CASE FinishFuture(w) \/ Forget(w)
      <3>1. worker'[w].phase \in {"forgetting", "idle"}
        <4>1. CASE FinishFuture(w)
          <5>1. worker'[w] = IF j \in callbacks
                             THEN [IdleWorker EXCEPT !.phase = "forgetting", !.job = j]
                             ELSE IdleWorker
            BY <2>2, <4>1 DEF FinishFuture, TypeOK
          <5>2. QED
            BY <5>1 DEF IdleWorker
        <4>2. CASE Forget(w)
          BY <4>2 DEF Forget, TypeOK, IdleWorker
        <4>3. QED
          BY <2>12, <4>1, <4>2
      <3>2. /\ worker[w].phase \in {"finishing", "forgetting"}
            /\ rows' = rows
            /\ stranded' = stranded
        BY <2>12 DEF FinishFuture, Forget, tableVars
      <3>3. QED
        BY <2>5, <3>1, <3>2 DEF Executing
    <2>13. QED
      BY <1>2, <2>7, <2>8, <2>9, <2>10, <2>11, <2>12 DEF WorkerStep
  <1>3. QED
    BY <1>1, <1>2

LEMMA StrandedProcess ==
    ASSUME TypeOK, BusyOK, HoldInv, StrandedOK, ProcessStep \/ UNCHANGED vars
    PROVE  StrandedOK'
  <1>1. CASE Startup
    <2>1. stranded' = {} /\ process' = "up"
      BY <1>1 DEF Startup
    <2>2. \A j \in Jobs : rows'[j].status \notin Active
      BY <1>1 DEF Startup, Swept, MarkedFailed, TypeOK, Row, Active
    <2>3. QED
      BY <2>1, <2>2 DEF StrandedOK, ShutdownDrains
  <1>2. CASE Kill \/ EndShutdown
    <2>1. /\ queue' = <<>>
          /\ \A w \in Workers : worker'[w].phase = "idle"
          /\ \A s \in Submitters : submitter'[s].phase = "idle"
          /\ rows' = rows
          /\ stranded' = stranded
          /\ process' \in {"down", "stopped"}
      BY <1>2 DEF Kill, EndShutdown, ForgetMemory, tableVars, IdleWorker, IdleSubmitter
    <2>2. \A j \in Jobs : ~Held(j)'
      BY <2>1 DEF Held, HeldBySubmitter, HeldInQueue, HeldByWorker, Executing
    <2>3. \A j \in stranded' : rows'[j].status # "absent" /\ ~Held(j)'
      BY <2>1, <2>2 DEF StrandedOK, TypeOK
    <2>4. ShutdownDrains'
      <3>1. CASE Kill
        BY <3>1 DEF Kill, ShutdownDrains
      <3>2. CASE EndShutdown
        <4>1. /\ process = "draining"
              /\ queue = <<>>
              /\ \A w \in Workers : worker[w].phase = "idle"
              /\ \A s \in Submitters : submitter[s].phase = "idle"
          BY <3>2 DEF EndShutdown, Drained, HoldInv, ProcessOK
        <4>2. \A j \in Jobs : ~Held(j)
          BY <4>1 DEF Held, HeldBySubmitter, HeldInQueue, HeldByWorker, Executing
        <4>3. QED
          BY <2>1, <4>1, <4>2 DEF StrandedOK, ShutdownDrains
      <3>3. QED
        BY <1>2, <3>1, <3>2
    <2>5. QED
      BY <2>1, <2>3, <2>4 DEF StrandedOK
  <1>3. CASE BeginShutdown \/ UNCHANGED vars
    <2>1. /\ UNCHANGED <<rows, queue, worker, submitter, stranded>>
          /\ \/ process' = process
             \/ process = "up" /\ process' = "draining"
      BY <1>3 DEF BeginShutdown, vars, tableVars, memoryVars
    <2>2. \A j : Held(j)' <=> Held(j)
      BY <2>1 DEF Held, HeldBySubmitter, HeldInQueue, HeldByWorker
    <2>3. QED
      BY <2>1, <2>2 DEF StrandedOK, ShutdownDrains
  <1>4. QED
    BY <1>1, <1>2, <1>3 DEF ProcessStep

LEMMA StrandedStep ==
    ASSUME TypeOK, BusyOK, HoldInv, StrandedOK, [Next]_vars PROVE StrandedOK'
  BY StrandedSubmit, StrandedWorker, StrandedProcess DEF Next

LEMMA StrandedInit == Init => StrandedOK
  BY DEF Init, StrandedOK, ShutdownDrains

LEMMA InductiveInvariant == Spec => []IInv
  <1>1. Init => IInv
    BY TypeInit, HoldInit, ResultsInit, StrandedInit DEF IInv
  <1>2. IInv /\ [Next]_vars => IInv'
    BY TypeStep, HoldStep, ResultsStep, StrandedStep DEF IInv
  <1>3. QED
    BY <1>1, <1>2, PTL DEF Spec

(* In a running process a row is unfinished exactly as long as a request     *)
(* thread, the queue or an executor thread is responsible for it: no job is  *)
(* lost between the table and the executor.                                  *)
THEOREM UnfinishedIffHeldAlways == Spec => []UnfinishedIffHeld
  <1>1. IInv => UnfinishedIffHeld
    <2> SUFFICES ASSUME IInv, process \in {"up", "draining"}, NEW j \in Jobs
                 PROVE  (rows[j].status \in Active /\ j \notin stranded) <=> Held(j)
      BY DEF UnfinishedIffHeld
    <2>1. rows[j].status \in Active /\ j \notin stranded => Held(j)
      BY DEF IInv, StrandedOK
    <2>2. Held(j) => rows[j].status \in Active
      BY DEF IInv, HoldInv, HeldRows, Held, HeldBySubmitter, HeldInQueue, HeldByWorker,
             Active
    <2>3. Held(j) => j \notin stranded
      BY DEF IInv, StrandedOK
    <2>4. QED
      BY <2>1, <2>2, <2>3
  <1>2. QED
    BY <1>1, InductiveInvariant, PTL

(* An orderly shutdown leaves no unfinished row behind that a database error *)
(* did not strand.                                                           *)
THEOREM ShutdownDrainsAlways == Spec => []ShutdownDrains
  BY InductiveInvariant, PTL DEF IInv, StrandedOK

-----------------------------------------------------------------------------
(* The progress bar.                                                         *)

(* The progress of a row whose optimisation has made k callbacks.            *)
Bar(k) == IF k = 0 THEN 1 ELSE Clamp(Milestone(k))

(* A row that no thread has started shows nothing, and one that is optimised *)
(* no more than its thread has reported.                                     *)
ProgressOK ==
    /\ \A j \in Jobs : rows[j].status \in {"absent", "queued"} => rows[j].progress = 0
    /\ \A w \in Workers : worker[w].phase = "optimising" =>
          rows[worker[w].job].progress <= Bar(worker[w].step)

ProgressGrows == \A j \in Jobs : rows'[j].progress >= rows[j].progress

LEMMA Quotients ==
    ASSUME NEW x \in Int, NEW y \in Int, x <= y, NEW n \in Nat \ {0}
    PROVE  x \div n \in Int /\ y \div n \in Int /\ x \div n <= y \div n
  <1> DEFINE a == x \div n
             b == y \div n
  <1>1. a \in Int /\ n * a <= x /\ b \in Int /\ y < n * b + n
    OBVIOUS
  <1> HIDE DEF a, b
  <1>2. ASSUME b + 1 <= a PROVE FALSE
    <2>1. n * (b + 1) <= n * a /\ n * (b + 1) = n * b + n
      BY <1>1, <1>2
    <2>2. n * a \in Int /\ n * b \in Int
      BY <1>1
    <2>3. QED
      BY <1>1, <2>1, <2>2
  <1>3. QED
    BY <1>1, <1>2 DEF a, b

(* The benchmarks of the variants move the bar from 38 to 88 at most.        *)
LEMMA BenchmarksInRange ==
    ASSUME NEW k \in Int, 3 <= k, k < Milestones
    PROVE  (50 * (k - 3)) \div Variants \in 0 .. 50
  <1>1. Variants \in Nat \ {0} /\ 0 <= 50 * (k - 3) /\ 50 * (k - 3) <= 50 * Variants
    BY JobsAssumption DEF Milestones
  <1>2. 0 \div Variants = 0 /\ (50 * Variants) \div Variants = 50
    BY <1>1
  <1>3. QED
    BY <1>1, <1>2, Quotients

LEMMA MilestonesGrow ==
    ASSUME NEW k \in 1 .. Milestones, k + 1 <= Milestones
    PROVE  Milestone(k) <= Milestone(k + 1)
  <1>1. Variants \in Nat \ {0} /\ Milestones = Variants + 4
    BY JobsAssumption DEF Milestones
  <1>2. CASE k <= 2
    <2>1. k = 1 \/ k = 2
      BY <1>2
    <2>2. QED
      BY <2>1 DEF Milestone
  <1>3. CASE k = 3
    <2>1. Milestone(3) = 38
      BY DEF Milestone
    <2>2. Milestone(4) = 38 + (50 * (4 - 3)) \div Variants
      BY <1>1 DEF Milestone
    <2>3. (50 * (4 - 3)) \div Variants \in 0 .. 50
      BY <1>1, BenchmarksInRange
    <2>4. QED
      BY <1>3, <2>1, <2>2, <2>3
  <1>4. CASE k >= 4
    <2>1. Milestone(k) = 38 + (50 * (k - 3)) \div Variants
      BY <1>1, <1>4 DEF Milestone
    <2>2. CASE k + 1 < Milestones
      <3>1. Milestone(k + 1) = 38 + (50 * (k + 1 - 3)) \div Variants
        BY <1>1, <1>4, <2>2 DEF Milestone
      <3>2. 50 * (k - 3) <= 50 * (k + 1 - 3)
        OBVIOUS
      <3>3. /\ (50 * (k - 3)) \div Variants \in Int /\ (50 * (k + 1 - 3)) \div Variants \in Int
            /\ (50 * (k - 3)) \div Variants <= (50 * (k + 1 - 3)) \div Variants
        BY <1>1, <3>2, Quotients
      <3>4. QED
        BY <2>1, <3>1, <3>3
    <2>3. CASE k + 1 = Milestones
      <3>1. Milestone(k + 1) = 98
        BY <1>1, <1>4, <2>3 DEF Milestone
      <3>2. (50 * (k - 3)) \div Variants \in 0 .. 50
        BY <1>1, <1>4, BenchmarksInRange
      <3>3. QED
        BY <2>1, <3>1, <3>2
    <2>4. QED
      BY <1>1, <2>2, <2>3
  <1>5. QED
    BY <1>2, <1>3, <1>4

LEMMA BarGrows ==
    ASSUME NEW k \in Step, k + 1 <= Milestones
    PROVE  Bar(k) \in 1 .. 99 /\ Bar(k + 1) \in 1 .. 99 /\ Bar(k) <= Bar(k + 1)
           /\ Bar(k + 1) = Clamp(Milestone(k + 1))
  <1>1. Milestones \in Nat /\ k \in Nat /\ k + 1 \in 1 .. Milestones
    BY JobsAssumption DEF Milestones, Step
  <1>2. Milestone(k + 1) \in Int /\ Clamp(Milestone(k + 1)) \in 1 .. 99
    BY <1>1, MilestoneInt, ClampRange
  <1>3. Bar(k + 1) = Clamp(Milestone(k + 1))
    BY <1>1 DEF Bar
  <1>4. CASE k = 0
    BY <1>2, <1>3, <1>4 DEF Bar
  <1>5. CASE k # 0
    <2>1. k \in 1 .. Milestones /\ Milestone(k) \in Int
      BY <1>1, <1>5, MilestoneInt
    <2>2. Milestone(k) <= Milestone(k + 1)
      BY <1>1, <2>1, MilestonesGrow
    <2>3. Bar(k) = Clamp(Milestone(k))
      BY <1>5 DEF Bar
    <2>4. QED
      BY <1>2, <1>3, <2>1, <2>2, <2>3, ClampRange DEF Clamp
  <1>6. QED
    BY <1>4, <1>5

(* A step that writes no row starts no optimisation and moves none back.     *)
LEMMA ProgressKept ==
    ASSUME TypeOK, ProgressOK, rows' = rows,
           \A v \in Workers : worker'[v].phase = "optimising" =>
              /\ worker[v].phase = "optimising"
              /\ worker'[v].job = worker[v].job
              /\ worker'[v].step = worker[v].step
    PROVE  ProgressOK' /\ ProgressGrows
  <1>1. \A j \in Jobs : rows[j].progress \in Percent
    BY DEF TypeOK, Row
  <1>2. ProgressGrows
    BY <1>1 DEF ProgressGrows, Percent
  <1>3. \A v \in Workers : worker'[v].phase = "optimising" =>
           rows'[worker'[v].job].progress <= Bar(worker'[v].step)
    BY DEF ProgressOK
  <1>4. QED
    BY <1>2, <1>3 DEF ProgressOK, Bar

(* A thread writes the row it holds: nobody else optimises that row.         *)
LEMMA ProgressWritten ==
    ASSUME IInv, ProgressOK, NEW w \in Workers, worker[w].phase \in Executing,
           \A i \in Jobs : i # worker[w].job => rows'[i] = rows[i],
           rows'[worker[w].job].status \notin {"absent", "queued"},
           rows'[worker[w].job].progress >= rows[worker[w].job].progress,
           \A v \in Workers : v # w => worker'[v] = worker[v],
           worker'[w].phase = "optimising" =>
              /\ worker'[w].job = worker[w].job
              /\ rows'[worker[w].job].progress <= Bar(worker'[w].step)
    PROVE  ProgressOK' /\ ProgressGrows
  <1> DEFINE j == worker[w].job
  <1>1. j \in Jobs /\ \A i \in Jobs : rows[i].progress \in Percent
    BY DEF IInv, TypeOK, Row, BusyOK, Executing
  <1>2. ProgressGrows
    BY <1>1 DEF ProgressGrows, Percent
  <1>3. ASSUME NEW v \in Workers, worker'[v].phase = "optimising"
        PROVE  rows'[worker'[v].job].progress <= Bar(worker'[v].step)
    <2>1. CASE v = w
      BY <1>3, <2>1
    <2>2. CASE v # w
      <3>1. worker'[v] = worker[v] /\ worker[v].phase \in Executing
        BY <1>3, <2>2 DEF Executing
      <3>2. worker[v].job # j /\ worker[v].job \in Jobs
        BY <2>2, <3>1 DEF IInv, HoldInv, HeldOnce, BusyOK, Executing
      <3>3. QED
        BY <1>3, <3>1, <3>2 DEF ProgressOK
    <2>3. QED
      BY <2>1, <2>2
  <1>4. \A i \in Jobs : rows'[i].status \in {"absent", "queued"} => rows'[i].progress = 0
    BY DEF ProgressOK
  <1>5. QED
    BY <1>2, <1>3, <1>4 DEF ProgressOK, Bar

LEMMA ProgressWorker ==
    ASSUME IInv, ProgressOK, NEW w \in Workers, WorkerStep(w)
    PROVE  ProgressOK' /\ ProgressGrows
  <1> DEFINE j == worker[w].job
  <1>0. TypeOK /\ worker[w].step \in Step /\ \A i \in Jobs : rows[i] \in Row
    BY DEF IInv, TypeOK, WorkerState
  <1>1. ASSUME worker[w].phase \in Executing
        PROVE  /\ j \in Jobs /\ rows[j].progress \in 0 .. 100
               /\ rows[j].status = IF worker[w].phase = "taken" THEN "queued" ELSE "running"
    BY <1>0, <1>1 DEF IInv, BusyOK, HoldInv, HeldRows, Row, Percent, Executing
  <1>2. CASE MarkRunning(w)
    <2>1. worker[w].phase = "taken" /\ worker[w].step = 0 /\ rows[j].progress = 0
      BY <1>1, <1>2 DEF MarkRunning, Executing, IInv, ResultsOK, ProgressOK
    <2>2. /\ rows'[j].status = "running" /\ rows'[j].progress = 1
          /\ \A i \in Jobs : i # j => rows'[i] = rows[i]
      BY <1>0, <1>1, <1>2, <2>1 DEF MarkRunning, MarkedRunning, TypeOK, Row, Executing
    <2>3. /\ \A v \in Workers : v # w => worker'[v] = worker[v]
          /\ worker'[w].job = j /\ worker'[w].step = 0
      BY <1>2, <2>1 DEF MarkRunning, IInv, TypeOK, WorkerState
    <2>4. Bar(0) = 1
      BY DEF Bar
    <2>5. QED
      BY <2>1, <2>2, <2>3, <2>4, ProgressWritten DEF Executing
  <1>3. CASE ReportProgress(w)
    <2> DEFINE k == worker[w].step
    <2>1. /\ worker[w].phase = "optimising" /\ k + 1 <= Milestones
          /\ rows[j].progress <= Bar(k)
      BY <1>3 DEF ReportProgress, ProgressOK
    <2>2. /\ Bar(k) \in 1 .. 99 /\ Bar(k + 1) \in 1 .. 99 /\ Bar(k) <= Bar(k + 1)
          /\ Bar(k + 1) = Clamp(Milestone(k + 1))
      BY <1>0, <2>1, BarGrows
    <2>3. /\ rows'[j].status = "running" /\ rows'[j].progress = Clamp(Milestone(k + 1))
          /\ \A i \in Jobs : i # j => rows'[i] = rows[i]
      BY <1>0, <1>1, <1>3, <2>1 DEF ReportProgress, Progressed, TypeOK, Row, Executing
    <2>4. /\ \A v \in Workers : v # w => worker'[v] = worker[v]
          /\ worker'[w].job = j /\ worker'[w].step = k + 1
      BY <1>0, <1>3 DEF ReportProgress, TypeOK, WorkerState
    <2>5. rows'[j].progress >= rows[j].progress /\ rows'[j].progress <= Bar(k + 1)
      <3>1. rows[j].progress \in 0 .. 100
        BY <1>1, <2>1 DEF Executing
      <3>2. rows'[j].progress = Bar(k + 1)
        BY <2>2, <2>3, Zenon
      <3>3. PICK p \in 0 .. 100, b \in 1 .. 99, c \in 1 .. 99 :
               p = rows[j].progress /\ b = Bar(k) /\ c = Bar(k + 1)
        BY <2>2, <3>1, Zenon
      <3>4. p <= b /\ b <= c
        BY <2>1, <2>2, <3>3, Zenon
      <3>5. p <= c /\ c <= c
        BY <3>4
      <3>6. QED
        BY <3>2, <3>3, <3>5, Zenon
    <2>6. QED
      BY <2>1, <2>3, <2>4, <2>5, ProgressWritten DEF Executing
  <1>4. CASE MarkCompleted(w) \/ MarkFailed(w)
    <2>1. worker[w].phase \in Executing
      BY <1>4 DEF MarkCompleted, MarkFailed, Executing
    <2>2. /\ rows'[j].status \in {"completed", "failed"} /\ rows'[j].progress = 100
          /\ \A i \in Jobs : i # j => rows'[i] = rows[i]
      <3>1. CASE MarkCompleted(w)
        BY <1>0, <1>1, <2>1, <3>1 DEF MarkCompleted, MarkedCompleted, TypeOK, Row
      <3>2. CASE MarkFailed(w)
        BY <1>0, <1>1, <2>1, <3>2 DEF MarkFailed, MarkedFailed, TypeOK, Row
      <3>3. QED
        BY <1>4, <3>1, <3>2
    <2>3. /\ \A v \in Workers : v # w => worker'[v] = worker[v]
          /\ worker'[w].phase = "finishing"
      BY <1>0, <1>4 DEF MarkCompleted, MarkFailed, TypeOK, WorkerState
    <2>4. QED
      BY <1>1, <2>1, <2>2, <2>3, ProgressWritten
  <1>5. CASE /\ rows' = rows
             /\ \A v \in Workers : worker'[v].phase = "optimising" =>
                   /\ worker[v].phase = "optimising"
                   /\ worker'[v].job = worker[v].job
                   /\ worker'[v].step = worker[v].step
    BY <1>0, <1>5, ProgressKept
  <1>6. CASE Take(w) \/ FinishFuture(w) \/ Forget(w)
    <2>1. /\ rows' = rows /\ worker'[w].phase # "optimising"
          /\ \A v \in Workers : v # w => worker'[v] = worker[v]
      <3>1. CASE Take(w)
        BY <1>0, <3>1 DEF Take, IdleWorker, TypeOK, tableVars
      <3>2. CASE FinishFuture(w)
        BY <1>0, <3>2 DEF FinishFuture, IdleWorker, TypeOK, tableVars
      <3>3. CASE Forget(w)
        BY <1>0, <3>3 DEF Forget, IdleWorker, TypeOK, tableVars
      <3>4. QED
        BY <1>6, <3>1, <3>2, <3>3
    <2>2. QED
      BY <1>5, <2>1
  <1>7. CASE SaveResult(w) \/ MarkRunningRaises(w) \/ MarkFailedRaises(w)
    <2>1. rows' = rows /\ \A v \in Workers : v # w => worker'[v] = worker[v]
      BY <1>0, <1>7 DEF SaveResult, MarkRunningRaises, MarkFailedRaises, TypeOK, tableVars
    <2>2. worker'[w].phase = "optimising" =>
             /\ worker[w].phase = "optimising" /\ worker'[w].job = j
             /\ worker'[w].step = worker[w].step
      <3>1. CASE SaveResult(w)
        BY <1>0, <3>1 DEF SaveResult, TypeOK, WorkerState
      <3>2. CASE MarkRunningRaises(w) \/ MarkFailedRaises(w)
        BY <1>0, <3>2 DEF MarkRunningRaises, MarkFailedRaises, TypeOK, WorkerState
      <3>3. QED
        BY <1>7, <3>1, <3>2
    <2>3. QED
      BY <1>5, <2>1, <2>2
  <1>8. ASSUME NEW code \in ErrorCodes, OptimiseRaises(w, code)
        PROVE  ProgressOK' /\ ProgressGrows
    BY <1>0, <1>5, <1>8 DEF OptimiseRaises, TypeOK, WorkerState, tableVars
  <1>9. QED
    BY <1>2, <1>3, <1>4, <1>6, <1>7, <1>8 DEF WorkerStep

LEMMA ProgressStep ==
    ASSUME IInv, ProgressOK, [Next]_vars PROVE ProgressOK' /\ ProgressGrows
  <1>0. TypeOK /\ \A i \in Jobs : rows[i] \in Row /\ rows[i].progress \in 0 .. 100
    BY DEF IInv, TypeOK, Row, Percent
  <1>1. ASSUME NEW s \in Submitters, NEW k \in Keys, NEW j \in Jobs, CreateJob(s, k, j)
        PROVE  ProgressOK' /\ ProgressGrows
    <2>1. /\ rows[j].status = "absent" /\ rows[j].progress = 0
          /\ rows'[j].status = "queued" /\ rows'[j].progress = 0
          /\ \A i \in Jobs : i # j => rows'[i] = rows[i]
          /\ worker' = worker
      BY <1>0, <1>1 DEF CreateJob, NoRow, TypeOK, ProgressOK
    <2>2. ASSUME NEW v \in Workers, worker[v].phase = "optimising"
          PROVE  worker[v].job # j /\ worker[v].job \in Jobs
      BY <2>1, <2>2 DEF IInv, HoldInv, HeldRows, BusyOK, Executing
    <2>3. ProgressGrows
      BY <1>0, <2>1 DEF ProgressGrows
    <2>4. QED
      BY <2>1, <2>2, <2>3 DEF ProgressOK, Bar
  <1>2. ASSUME NEW w \in Workers, WorkerStep(w) PROVE ProgressOK' /\ ProgressGrows
    BY <1>2, ProgressWorker
  <1>3. CASE Startup
    <2>1. \A v \in Workers : worker'[v].phase # "optimising"
      BY <1>3 DEF Startup, memoryVars, IInv, HoldInv, ProcessOK
    <2>2. ASSUME NEW j \in Jobs
          PROVE  \/ rows'[j] = rows[j]
                 \/ rows'[j].status = "failed" /\ rows'[j].progress = 100
      BY <1>0, <1>3 DEF Startup, Swept, MarkedFailed, Row
    <2>3. QED
      BY <1>0, <2>1, <2>2 DEF ProgressOK, ProgressGrows
  <1>4. CASE rows' = rows /\ (worker' = worker \/ worker' = [w \in Workers |-> IdleWorker])
    BY <1>0, <1>4, ProgressKept DEF IdleWorker
  <1>5. QED
    BY <1>1, <1>2, <1>3, <1>4
    DEF Next, SubmitStep, Enqueue, ReadBackRaises, RegisterFuture, AddDoneCallback,
        ProcessStep, Kill, BeginShutdown, EndShutdown, ForgetMemory, vars, tableVars,
        memoryVars

(* The progress that a polling client reads never goes back: the callbacks   *)
(* of a thread grow, no other thread writes its row, and a row that is final *)
(* shows all of the bar.                                                     *)
THEOREM ProgressNeverGoesBackAlways == Spec => ProgressNeverGoesBack
  <1>1. Init => ProgressOK
    BY DEF Init, NoRow, IdleWorker, ProgressOK
  <1>2. IInv /\ ProgressOK /\ [Next]_vars => ProgressOK' /\ ProgressGrows
    BY ProgressStep
  <1>3. ProgressGrows => [\A j \in Jobs : rows'[j].progress >= rows[j].progress]_vars
    BY DEF ProgressGrows
  <1>4. QED
    BY <1>1, <1>2, <1>3, InductiveInvariant, PTL DEF Spec, ProgressNeverGoesBack

-----------------------------------------------------------------------------
(* The job table implements JobLifecycle.                                    *)

(* What the refinement mapping makes of the table: by the invariant the      *)
(* solved jobs are the completed ones.                                       *)
LEMMA SolvedIsCompleted ==
    ASSUME ResultsOK
    PROVE  {j \in Jobs : Solved(j)} = {j \in Jobs : rows[j].status = "completed"}
  BY DEF ResultsOK, CompletedHasOwnResult, Solved

LEMMA LifecycleStutters ==
    ASSUME ResultsOK, ResultsOK',
           \A i \in Jobs : rows'[i].status = rows[i].status /\ rows'[i].key = rows[i].key
    PROVE  UNCHANGED Lifecycle!lifecycleVars
  <1>1. {i \in Jobs : Solved(i)} = {i \in Jobs : rows[i].status = "completed"}
    BY SolvedIsCompleted
  <1>2. {i \in Jobs : Solved(i)'} = {i \in Jobs : rows'[i].status = "completed"}
    BY DEF ResultsOK, CompletedHasOwnResult, Solved
  <1>3. {i \in Jobs : Solved(i)'} = {i \in Jobs : Solved(i)}
    BY <1>1, <1>2
  <1>4. QED
    BY <1>3 DEF Lifecycle!lifecycleVars

LEMMA LifecycleSubmits ==
    ASSUME ResultsOK, ResultsOK', NEW j \in Jobs, NEW k \in Keys, IndexAdmits(k),
           rows[j].status = "absent",
           rows'[j].status = "queued", rows'[j].key = k,
           \A i \in Jobs : i # j => rows'[i] = rows[i]
    PROVE  Lifecycle!Submit(j, k)
  <1>1. {i \in Jobs : Solved(i)} = {i \in Jobs : rows[i].status = "completed"}
    BY SolvedIsCompleted
  <1>2. {i \in Jobs : Solved(i)'} = {i \in Jobs : rows'[i].status = "completed"}
    BY DEF ResultsOK, CompletedHasOwnResult, Solved
  <1>3. {i \in Jobs : Solved(i)'} = {i \in Jobs : Solved(i)}
    BY <1>1, <1>2
  <1>4. \A i \in Jobs : rows[i].status \in Lifecycle!Active => rows[i].key # k
    BY DEF IndexAdmits, Active, Lifecycle!Active
  <1>5. QED
    BY <1>3, <1>4 DEF Lifecycle!Submit

LEMMA LifecycleStarts ==
    ASSUME ResultsOK, ResultsOK', NEW j \in Jobs,
           rows[j].status = "queued", rows'[j].status = "running",
           \A i \in Jobs : rows'[i].key = rows[i].key,
           \A i \in Jobs : i # j => rows'[i] = rows[i]
    PROVE  Lifecycle!Start(j)
  <1>1. {i \in Jobs : Solved(i)} = {i \in Jobs : rows[i].status = "completed"}
    BY SolvedIsCompleted
  <1>2. {i \in Jobs : Solved(i)'} = {i \in Jobs : rows'[i].status = "completed"}
    BY DEF ResultsOK, CompletedHasOwnResult, Solved
  <1>3. {i \in Jobs : Solved(i)'} = {i \in Jobs : Solved(i)}
    BY <1>1, <1>2
  <1>4. QED
    BY <1>3 DEF Lifecycle!Start

LEMMA LifecycleCompletes ==
    ASSUME ResultsOK, ResultsOK', NEW j \in Jobs,
           rows[j].status = "running", rows'[j].status = "completed",
           \A i \in Jobs : rows'[i].key = rows[i].key,
           \A i \in Jobs : i # j => rows'[i] = rows[i]
    PROVE  Lifecycle!Complete(j)
  <1>1. {i \in Jobs : Solved(i)} = {i \in Jobs : rows[i].status = "completed"}
    BY SolvedIsCompleted
  <1>2. {i \in Jobs : Solved(i)'} = {i \in Jobs : rows'[i].status = "completed"}
    BY DEF ResultsOK, CompletedHasOwnResult, Solved
  <1>3. {i \in Jobs : Solved(i)'} = {i \in Jobs : Solved(i)} \cup {j}
    BY <1>1, <1>2
  <1>4. QED
    BY <1>3 DEF Lifecycle!Complete

LEMMA LifecycleFails ==
    ASSUME ResultsOK, ResultsOK', NEW S \in SUBSET Jobs, S # {},
           \A i \in S : rows[i].status \in Active /\ rows'[i].status = "failed",
           \A i \in Jobs : rows'[i].key = rows[i].key,
           \A i \in Jobs \ S : rows'[i] = rows[i]
    PROVE  Lifecycle!Fail(S)
  <1>1. {i \in Jobs : Solved(i)} = {i \in Jobs : rows[i].status = "completed"}
    BY SolvedIsCompleted
  <1>2. {i \in Jobs : Solved(i)'} = {i \in Jobs : rows'[i].status = "completed"}
    BY DEF ResultsOK, CompletedHasOwnResult, Solved
  <1>3. {i \in Jobs : Solved(i)'} = {i \in Jobs : Solved(i)}
    BY <1>1, <1>2 DEF Active
  <1>4. \A i \in S : rows[i].status \in Lifecycle!Active
    BY DEF Active, Lifecycle!Active
  <1>5. [i \in Jobs |-> rows'[i].status] =
           [i \in Jobs |-> IF i \in S THEN "failed" ELSE rows[i].status]
    OBVIOUS
  <1>6. QED
    BY <1>3, <1>4, <1>5 DEF Lifecycle!Fail

LEMMA LifecycleWorker ==
    ASSUME IInv, IInv', NEW w \in Workers, WorkerStep(w)
    PROVE  Lifecycle!LNext \/ UNCHANGED Lifecycle!lifecycleVars
  <1> USE DEF IInv
  <1>1. worker[w].phase \in Executing =>
           /\ worker[w].job \in Jobs
           /\ rows[worker[w].job].status =
                 IF worker[w].phase = "taken" THEN "queued" ELSE "running"
    BY DEF BusyOK, HoldInv, HeldRows, Executing
  <1>2. CASE rows' = rows
    BY <1>2, LifecycleStutters
  <1>3. CASE MarkRunning(w)
    <2>1. PICK j \in Jobs : j = worker[w].job
      BY <1>1, <1>3 DEF MarkRunning, Executing
    <2>2. /\ rows[j].status = "queued"
          /\ rows'[j].status = "running"
          /\ \A i \in Jobs : rows'[i].key = rows[i].key
          /\ \A i \in Jobs : i # j => rows'[i] = rows[i]
      BY <1>1, <1>3, <2>1 DEF MarkRunning, MarkedRunning, TypeOK, Row, Executing
    <2>3. QED
      BY <2>2, LifecycleStarts DEF Lifecycle!LNext
  <1>4. CASE ReportProgress(w)
    <2>1. worker[w].job \in Jobs
      BY <1>1, <1>4 DEF ReportProgress, Executing
    <2>2. \A i \in Jobs : rows'[i].status = rows[i].status /\ rows'[i].key = rows[i].key
      BY <1>4, <2>1 DEF ReportProgress, Progressed, TypeOK, Row
    <2>3. QED
      BY <2>2, LifecycleStutters
  <1>5. CASE MarkCompleted(w)
    <2>1. PICK j \in Jobs : j = worker[w].job
      BY <1>1, <1>5 DEF MarkCompleted, Executing
    <2>2. /\ rows[j].status = "running"
          /\ rows'[j].status = "completed"
          /\ \A i \in Jobs : rows'[i].key = rows[i].key
          /\ \A i \in Jobs : i # j => rows'[i] = rows[i]
      BY <1>1, <1>5, <2>1 DEF MarkCompleted, MarkedCompleted, TypeOK, Row, Executing
    <2>3. QED
      BY <2>2, LifecycleCompletes DEF Lifecycle!LNext
  <1>6. CASE MarkFailed(w)
    <2>1. PICK j \in Jobs : j = worker[w].job
      BY <1>1, <1>6 DEF MarkFailed, Executing
    <2>2. /\ rows[j].status = "running"
          /\ rows'[j].status = "failed"
          /\ \A i \in Jobs : rows'[i].key = rows[i].key
          /\ \A i \in Jobs : i # j => rows'[i] = rows[i]
      BY <1>1, <1>6, <2>1 DEF MarkFailed, MarkedFailed, TypeOK, Row, Executing
    <2>3. Lifecycle!Fail({j})
      BY <2>2, LifecycleFails DEF Active
    <2>4. QED
      BY <2>3 DEF Lifecycle!LNext
  <1>7. QED
    BY <1>2, <1>3, <1>4, <1>5, <1>6
    DEF WorkerStep, Take, MarkRunningRaises, SaveResult, OptimiseRaises,
        MarkFailedRaises, FinishFuture, Forget, tableVars

LEMMA LifecycleStep ==
    ASSUME IInv, IInv', [Next]_vars
    PROVE  Lifecycle!LNext \/ UNCHANGED Lifecycle!lifecycleVars
  <1> USE DEF IInv
  <1>1. ASSUME NEW s \in Submitters, NEW k \in Keys, NEW j \in Jobs, CreateJob(s, k, j)
        PROVE  Lifecycle!LNext
    <2>1. /\ rows[j].status = "absent"
          /\ rows'[j].status = "queued"
          /\ rows'[j].key = k
          /\ \A i \in Jobs : i # j => rows'[i] = rows[i]
          /\ IndexAdmits(k)
      BY <1>1 DEF CreateJob, TypeOK, NoRow
    <2>2. QED
      BY <2>1, LifecycleSubmits DEF Lifecycle!LNext
  <1>2. ASSUME NEW w \in Workers, WorkerStep(w)
        PROVE  Lifecycle!LNext \/ UNCHANGED Lifecycle!lifecycleVars
    BY <1>2, LifecycleWorker
  <1>3. CASE Startup
    <2>0. PICK S \in SUBSET Jobs : S = {j \in Jobs : rows[j].status \in Active}
      OBVIOUS
    <2>1. /\ \A i \in S : rows[i].status \in Active /\ rows'[i].status = "failed"
          /\ \A i \in Jobs : rows'[i].key = rows[i].key
          /\ \A i \in Jobs \ S : rows'[i] = rows[i]
      <3>1. ASSUME NEW i \in Jobs
            PROVE  rows'[i] = IF i \in S THEN MarkedFailed(rows[i], "worker_restarted")
                              ELSE rows[i]
        BY <1>3, <2>0 DEF Startup, Swept
      <3>2. \A i \in Jobs : rows[i] \in Row
        BY DEF TypeOK
      <3>3. QED
        BY <2>0, <3>1, <3>2 DEF MarkedFailed, Row
    <2>2. CASE S = {}
      BY <2>1, <2>2, LifecycleStutters
    <2>3. CASE S # {}
      <3>1. Lifecycle!Fail(S)
        BY <2>1, <2>3, LifecycleFails
      <3>2. QED
        BY <3>1 DEF Lifecycle!LNext
    <2>4. QED
      BY <2>2, <2>3
  <1>4. CASE rows' = rows
    BY <1>4, LifecycleStutters
  <1>5. QED
    BY <1>1, <1>2, <1>3, <1>4
    DEF Next, SubmitStep, Enqueue, ReadBackRaises, RegisterFuture, AddDoneCallback,
        ProcessStep, Kill, BeginShutdown, EndShutdown, vars, tableVars

(* The table implements the lifecycle the API promises: whatever threads,    *)
(* errors and restarts do, rows move forward only, one unfinished job per    *)
(* key, and final rows never change.                                         *)
THEOREM ImplementsLifecycleAlways == Spec => ImplementsLifecycle
  <1>1. Init => Lifecycle!LInit
    <2> SUFFICES ASSUME Init PROVE Lifecycle!LInit
      OBVIOUS
    <2>1. \A j \in Jobs : rows[j].status = "absent" /\ rows[j].key = NoKey
      BY DEF Init, NoRow
    <2>2. {j \in Jobs : Solved(j)} = {}
      BY <2>1 DEF Solved
    <2>3. QED
      BY <2>1, <2>2 DEF Lifecycle!LInit
  <1>2. IInv /\ IInv' /\ [Next]_vars => [Lifecycle!LNext]_Lifecycle!lifecycleVars
    BY LifecycleStep
  <1>3. QED
    BY <1>1, <1>2, InductiveInvariant, PTL DEF Spec, ImplementsLifecycle, Lifecycle!LSpec
=============================================================================
