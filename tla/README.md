# Formal model of the financial-advisor agent

This directory models the financial-advisor agent in TLA+: a FastAPI back end
over one SQLite file, with an in-process pool of optimisation threads and an
Angular client. The modules are translated from the source, not from its
documentation. TLC checks them on small instances, and TLAPS proves what matters
most for every instance.

Run everything from this directory:

    tlc -workers 2 -config OptimisationJobs_safety.cfg MCOptimisationJobs.tla
    tlapm OptimisationJobsProofs.tla

`PROJECT.json` lists the components, the runs, the mutants that show that each
property can fail, the source lines behind every definition, the findings, the
hazards of the code and the theorems.

## 1. Inventory

| Component | State | Operations | Hard behaviour | Modelled in |
|---|---|---|---|---|
| Job table and worker pool (`optimisation/jobs.py`) | table `optimisation_jobs`; executor queue, threads, `_futures` | `submit`, `_execute`, `_forget`, sweep, `shutdown` | request and executor threads interleave; errors inside error handling; kill and restart | `OptimisationJobs`, `JobLifecycle` |
| Application lifespan (`main.py`) | whether the process is up | migrate, seed, sweep, purge, start, stop | kill at any point; order of start-up steps; drain | the modules whose data it touches |
| Prompt versions, optimisation loop (`prompt_store.py`, `gepa_loop.py`) | tables `prompt_versions`, `optimisation_results` | seed, upsert, judge, activate, save result | an optimisation of minutes in many transactions, beside activations and another optimisation | `PromptOptimisation`, `PromptRegistry` |
| Candidate selection (`pareto.py`) | none, a function of means | guardrails, frontier, sort | doubles at a bound; strict and weak comparisons; ties | `ParetoSelection` |
| Advisor memory (`memory/advisor_memory.py`, `routes/memory.py`) | one row per advisor | get (creates), save, delete | read in one transaction, write in the next | `AdvisorRecords`, `RecordService` |
| Runs and audit trail (`traces/trace_logger.py`, `routes/runs.py`, `audit.py`) | tables `agent_runs`, `audit_events` | log, evaluate, read, delete, purge, audit | a run deleted while it is evaluated; the event in a transaction of its own | `AdvisorRecords`, `RecordService` |
| Rate limiter (`security/middleware.py`) | a queue of admissions per client | admit, refuse | the edge of the window; truncated `Retry-After` | `RateLimiter`, `SlidingWindow` |
| Optimisation and prompt routes | none | submit, activate | audit after the change | actions `CreateJob`, `Activate`, `HandleCreate` |
| Database, migrations (`database.py`) | schema, indexes, `schema_migrations` | six migrations at every start | DDL committed without its bookkeeping row; files of older releases | `Migrations` |
| LLM client (`llm/client.py`) and its callers | a cached client, its connections and credential | construct and cache, call, translate errors, close | two threads construct it; closed while jobs drain; two rules for "configured" | `LlmClient` |
| Optimiser page (`optimiser.page.ts`) | agent, prompts, jobs, job shown, result | load, poll, start, select, activate | answers out of order, errors inside polling | `OptimiserPage` |
| Evaluation (`evaluation/`) | none | rules, averages, regression gate | rounding at thresholds | not modelled; the means enter `ParetoSelection` |
| Run, preferences and runner pages | selected run, form | load, evaluate, delete | answers out of order | not modelled; their server side is `AdvisorRecords` |
| Authentication, encryption, configuration, schemas, shell, scripts | none of their own | pure functions, rendering, I/O | none of it concurrent | not modelled |

How they interact. A request passes the rate limiter, then its handler calls the
stores one transaction at a time and writes its audit event last. Submitting an
optimisation inserts a job row and hands a work item to the executor; the thread
that takes it runs the optimisation loop, which reads and writes prompt versions,
logs runs, applies the candidate selection, stores a result, and reports progress
into the job row through a callback. Agents, judge, reflection and mutation all call
the provider through one cached client. The optimiser page submits a job and polls
its row. At start the
lifespan migrates, seeds the baselines, sweeps the jobs that a previous process
left unfinished and purges old runs; only then does it create the executor and
serve. At an orderly stop it drains the executor first and closes the provider client
last. Tables survive a kill and nothing else does.

What makes each part correct:

* jobs: a row is unfinished exactly while somebody will still finish it; one
  optimisation per owner and agent at a time; a completed row points at its own
  result; final is final; every job ends; shutdown drains and returns;
* prompts: exactly one active version while the process serves, always an
  approved one; candidates descend from approved versions; verdicts are final and
  agree with the stored result;
* selection: nothing selected is beaten by any candidate, nothing qualified is
  dropped without a better one, and the list starts with the best;
* limiter: no window over the limit, nobody refused below it, a wait that is long
  enough;
* records: deleted runs stay deleted, answers are true and audited, one request
  claims a deletion, the preferences persist;
* migrations: a version that is recorded is complete in the file, a process serves
  only a complete file, and no killed start stands in the way of the next one;
* provider client: no call on closed connections, the cached client is closed at the
  end, and what a caller is told is what happened to its request;
* optimiser page: an unfinished job that is shown is watched until it ends, and what
  is shown belongs to the agent that is named.

## 2. Plan

Order of the modules, the most important behaviour first:

1. `JobLifecycle` (abstract) and `OptimisationJobs`, which implements it. *Done.*
2. `OptimisationJobsProofs`. *Done.*
3. `PromptOptimisation`, `PromptOptimisationProofs`. *Done.*
4. `ParetoSelection`, `ParetoSelectionProofs`. *Done.*
5. `RateLimiter`, `RateLimiterProofs`. *Done.*
6. `AdvisorRecords`, `AdvisorRecordsProofs`. *Done.*
7. `OptimiserPage`, `OptimiserPageProofs`. *Done.*
8. `Migrations`, `MigrationsProofs`. *Done.*
9. `LlmClient`, `LlmClientProofs`. *Done.*
10. Proofs of `ProgressNeverGoesBack` of `OptimisationJobs` and of what
    `RateLimiter` tells refused clients. *Done.*
11. Proofs of `EveryQualifiedIsCovered` and `FirstIsBest` of `ParetoSelection`. *Done.*
12. The abstract specifications `SlidingWindow`, `PromptRegistry` and `RecordService`,
    and the proofs that the limiter, the prompt table and the records implement them.
    *Done.*
13. What could still be stated in the same way: a page that shows one agent at a time
    for `OptimiserPage`, a file that grows release by release for `Migrations`.

An `Evaluation` module was considered and left out: its functions are pure and
sequential, and what they decide is string work. So was a `RunPage`: it has the
hazard of the optimiser page, an answer for what is no longer shown, without the
polling that makes that page interesting.

No module of the plan declares a RECURSIVE operator, so each can be proved about.
The modules share no variables: the job module takes an optimisation as "reports,
saves a result, or raises", the prompt module as the transactions it makes, the
selection module as the function it applies. What joins them is the order of those
steps, which each module states from the same lines of `gepa_loop.py`. The page
module repeats of the server what a page can observe of it: that a job of an agent
without an unfinished one is created, and that a job may end, or stay unfinished for
ever as a stranded one does.

## 3. Modules and code

Everywhere: a `with get_connection()` block is one transaction and so one step. A
step that can raise has an action that raises, and leaves the tables alone.
History variables (`stranded`, `interrupted`, `remover`, `admitted`, `told`) are
read by no guard of the code's steps, except where a bound is stated with them.

### OptimisationJobs (`jobs.py`, `main.py`)

`rows` and `results` are the two tables, `queue` and `worker` the
`ThreadPoolExecutor`, `submitter` the request threads inside `submit`, `futures`
the dictionary `_futures`, `done` and `callbacks` the state inside the futures.
`submit` is four steps: the INSERT (`CreateJob`), the hand-over (`Enqueue`), the
registration (`RegisterFuture`) and `AddDoneCallback`, which runs `_forget` at once
when the thread was faster. `_execute` is `Take`, `MarkRunning`, then any number of
`ReportProgress`, one `SaveResult`, and `MarkCompleted` or `OptimiseRaises` with
`MarkFailed`. The bookkeeping itself may fail: the read-back of the row just
inserted (`ReadBackRaises`), `mark_running` before the `try` (`MarkRunningRaises`)
and `mark_failed` inside the `except` (`MarkFailedRaises`). Such a job is
*stranded*: its row stays unfinished, and blocks its owner and agent, until the
sweep of the next start. This is what the code does, and the properties say so
instead of assuming it away. Progress is kept in percent; the milestones are those
`optimise` reports.

Abstracted: owner and agent are one key; the request, timestamps and messages; the
reads of a polling client. A refused INSERT changes nothing and has no action.

`JobLifecycle` is what the API promises: absent, queued, running, then completed or
failed, one unfinished job per key, completion only with a result of its own. The
refinement maps `status` and `key` to the columns and `solved` to the rows that are
completed with an existing result of the same job and key. Progress, queue and
thread steps are stutters; `Startup` is `Fail` of a set of jobs, or a stutter.

### PromptOptimisation (`prompt_store.py`, `gepa_loop.py`, `main.py`)

One agent type, because every statement is restricted to one. A version is the
clock reading of its optimisation and an index; `prompts` keeps status, the active
flag, whose text it is, and the parent. The lifespan and every optimisation run
`seed_baselines`, in three steps: INSERT, SELECT, UPDATE (the SELECT runs before
the driver opens the transaction of the UPDATE). The unique index makes the UPDATE
raise when somebody activated a version between the two. An optimisation reads the
active version, draws its clock reading, saves its candidates one at a time, judges
them in one transaction and stores the result in another; any step may raise.
Activation is one write transaction, for approved versions only.

Assumed: **two optimisations never read the same microsecond**, and the clock is
not set back. Names would collide otherwise, and the upsert would overwrite a
judged version; the mutant `CoarseTimestamp` shows that `VerdictIsFinal` finds it.
With one executor thread, the number `README.md:435` of the repository documents,
the assumption holds by itself; with two, the default of the dataclass and of
`.env.example`, it is very likely but not guaranteed.

`PromptRegistry` is what the table promises its readers: a version is proposed once, as
a refinement of an approved one, and judged once, with others that refine the same; its
text and its verdict are final; one approved version is active at a time and the active
one is never lost; a report tells verdicts that were given. It knows no threads, names
of versions, transactions or kills. The refinement maps `status`, `text` and `parent` to
the columns, `active` to the flagged rows and `reports` to the stored results.
`SeedInsert` is `Install` or nothing, `SaveCandidate` is `Propose`, `MarkSelection` is
`Judge` of what the optimisation has saved, `SaveResult` is `Report`, the UPDATE of a
seed and `Activate` are `MakeActive`; kills, reads and mutations are stutters.

### ParetoSelection (`pareto.py`)

A baseline, up to `MaxVariants` measured candidates, and the one step that decides
(`select_candidates_with_policy`). Quality and safety are thousandths, which is
what the rounding of the means leaves of them. The gate `delta < minimum` subtracts
two doubles and compares the difference with a third. `RoundedBelow` computes that
comparison in integers: the rounding error of `q / 1000` is a remainder modulo 125,
so the three errors can be compared exactly. The formula was compared with Python
for every minimum of three decimals and every pair of qualities from 1.000 to 5.000
that differ by it, 8,006,001 comparisons, without a difference. Below a minimum of 2
the subtraction itself is exact; above it, where it rounds once more, `HalfUnit` says
when. Where the decimals differ from the minimum, they decide. So the policy is any
with at most three decimals in its scores and two in its ratios, which is
`SelectionAssumption`; configuration accepts longer decimals, and those are outside.
Sums and products with the tolerances are exact here, where the code uses doubles, and
the instances use values for which the doubles agree.

Abstracted: the rounding inside `average_quality`; the texts of the reasons. The
older strict-Pareto selector is called by tests only.

### RateLimiter (`security/middleware.py`)

`dispatch` awaits nothing between reading the clock and deciding, and there is one
event loop, so a request is one step. `events` is the queue per client; `admitted`
and `told` are history. The prune loop is the longest expired prefix. The clock is
discrete, in ticks; the theorems hold for every resolution. `Retry-After` is
truncated to whole seconds, hence the extra second in `RetryAfterIsEnough`: a
client that waits exactly as told may be refused again.

`SlidingWindow` judges a request by every admission of its client in the last window,
without a queue that is pruned: it is served exactly below the limit, and otherwise told
the whole seconds until the oldest of them leaves. The refinement is by the same names
(`now`, `admitted`, `told`); the queue is hidden. It holds because the queue, after
pruning, has one entry per admission that still counts. The docstring of the class
promises a fixed window instead; finding 4 is about that.

### AdvisorRecords (`advisor_memory.py`, `trace_logger.py`, `audit.py`, routes)

One advisor. A request has an operation and goes through the phases of its handler;
each phase is one transaction or one provider call, and may raise instead, so every
handler can stop half-way, and everything else can happen in between. A benchmark
is the same chain without an audit event. The process may be killed, and the next
start purges old runs or, without a retention period, none. The tables may be filled at the start. Identifiers are fresh, as
uuid4's are taken to be. Requests are used once, which bounds their number.

Abstracted: `updated_at`, the encryption of values (a stored value is read back
with the key it was written with), which runs are old (time passes for one run at a
time; the cutoff of a purge is read when its DELETE runs), access checks (callers
are the ones admitted), list and paging handlers, which change nothing.

`RecordService` is what the API promises: a run is kept once, evaluated while it is
kept, and removed once; a request does only what it was asked, and only while it is
pending; an answer is true when it is given and has its event, but for the benchmarks
and the deletions that found nothing; a deletion is claimed by exactly the one who
removed the run; a stop loses answers and no record. It has no phases: `GetMemory`,
`Generate`, `Evaluate` and a `Fetch` that finds its run are stutters. `SavePreferences`
is `Put`, `DeleteMemory` is `Forget`, `LogRun` is `Keep`, `StoreEvaluation` is `Evaluate`
while the run is stored, `DeleteRun` and `PurgeRuns` are `Delete` and `Purge`, `Audit` is
`Confirm`, a `Fetch` that finds nothing is `NotFound` or `ConfirmUnlogged`, `Raise` is
`Fail`, `Kill` is `LoseAnswers`, and `Startup` is `Expire`. What preferences a row holds
is no part of it, since a read may change them (finding 2); who created the row is.

### OptimiserPage (`optimiser.page.ts`)

One browser thread runs the handlers, so a handler is one step; what interleaves is
the answers. A request under way is "sent", then handled by the server, then
received, so that its answer may be old; only `changeAgent` takes a request back, and
only the polling. `load` is one `forkJoin` of four requests (`NewLoad`, `HandleLoad`,
`ReceiveLoad`, `LoadFails`), and `loads` keeps those under way in the order they were
sent. The polling is `timer`, `switchMap`, `takeWhile` and `finalize`: `Tick` drops a
pending status request and sends the next one, `ReceivePoll` ends the polling with a
final status and loads the result of a completed job, `PollFails` ends it as well,
since the pipeline has no `catchError`. The template shows nothing but the selector
while `loading` (`Content`), so no other click happens then.

Abstracted: queued and running are one status; the page belongs to one owner;
prompts, versions and results are known by the agent they belong to; the candidate
that is compared follows the result and is left out. A `FetchFails` changes nothing
that is kept.

### Migrations (`database.py`)

A file is which statements it has (`done`), which versions are `recorded`, the prompts
of each agent, and whether two unfinished jobs of one owner and agent exist
(`twins`). One connection runs all migrations. The driver opens a transaction before
an INSERT, UPDATE or DELETE only. A CREATE or ALTER before the first of these is
committed by itself (`file'` follows `work'` as long as `open` is FALSE), and one
after it belongs to the transaction that `get_connection` commits or rolls back at the
end. `applied` is read once, at the start. `Init` is the file of any earlier release
(`Released`; `ReleasedPrompts` lists the rows it may have), or one in which no version
was ever recorded (`Unrecorded`): an empty one, or any of the first four tables with
prompts in their old form, as `tests/test_database_and_privacy.py:93` writes it. `Kill`
is the end of a process at any point, including one that serves or was refused.

Abstracted: statements that only add a column or a table are one name each; rows that
no later statement depends on are left out.

### LlmClient (`llm/client.py`, the callers, `main.py`)

`lru_cache` runs the constructor without a lock, so a miss and the end of the
construction are two steps of a thread; the client of the one that is slower is used
by that thread and forgotten. A call makes attempts: those are repeated by the OpenAI
SDK, `max_retries` times, which is external and taken from how the client configures
it. An attempt has one of the outcomes that `structured_chat` tells apart, and the
call ends as an output, as one of the three errors that `llm_http_exception`
translates, or, without a configured provider, as a placeholder. `Stop`,
`RequestsDone` and `Close` are the end of the lifespan: no new requests, the executor
joined with its queue run empty, the cached client closed and the cache cleared, also
when closing raises. `settings` are the configurations of a deployment, read once.

Abstracted: headers, token counts, logging, prompts and the parsed values.

## 4. Runs

| Run | Instance | States | Shows |
|---|---|---|---|
| `jobs_safety` | 3 jobs, 2 keys, 2 threads, 1 submitter, 1 variant, 1 end of the process, 1 stranded job | 1.4 M | the safety of the pool, and that the table implements `JobLifecycle` |
| `jobs_liveness` | 2 jobs, 2 keys, 1 thread, same bounds, fair | 80 k | jobs end, futures are dropped, shutdown returns |
| `prompts` | 2 optimisations at once, 2 variants, 2 optimisations in all, 1 kill | 77 k | the invariants of the prompt table, and that it implements `PromptRegistry` |
| `selection` | 1 to 3 candidates out of 36, 2 baselines | 192 k | the selection at the bound of every guardrail |
| `quality_gate` | 1 candidate, 3 baseline qualities | violation | finding 1 |
| `limiter` | 2 clients, limit 2, window of 3 s in half seconds, 10 ticks | 563 k | the window, the refusals and the wait, and that they are those of `SlidingWindow` |
| `records` | 3 requests of any kind, 2 runs, 1 set of preferences, 1 kill | 2.2 M | deletions, answers, audit, `created_at`, and that all of it implements `RecordService` |
| `persistence` | 2 requests, 1 run | violation | finding 2 |
| `optimiser_page` | 2 agents, 1 job, 2 loads under way, fair | 770 k | what the page shows and watches |
| `optimiser_poll` | the same | violation | finding 3 |
| `migrations` | 2 agents, 2 kills, files of 6 releases and without records | 43 k | recorded, complete and served files |
| `llm_client` | 1 request thread, 1 job thread, 2 calls each, 1 retry, 64 configurations | 837 k | calls, closing and answers |

Why the bounds are enough.

* Jobs: two jobs of one key and one of another give every conflict on the index
  while the queue is longer than one and both threads are busy. One end of the
  process is followed by a whole second life. One stranded job meets a sweep and
  a job of its own key that is refused. Properties relate at most two jobs.
* Prompts: two optimisations beside activations are the smallest race; two
  candidates give selections that differ; a kill at each step with a second start
  covers the half-done seed.
* Selection: every metric takes values below, at and above its bound, and a
  baseline cost of zero; three candidates allow a chain, a tie and an incomparable
  one. The proofs lift all three properties to any number of them.
* Limiter: more than a window and a half of time for a queue of two, at twice the
  resolution of `Retry-After`, so that truncation happens.
* Records: races are between two requests; the third lets a purge or a benchmark
  interfere with both.
* Optimiser page: a load for one agent that answers after one for the other, beside a
  submission and the polling of a job of either agent, is the smallest case of every
  race of that page. With one job, a change of what is polled comes from loads and
  clicks; the proof has any number of jobs and loads.
* Migrations: the second kill comes during the repetition of what the first one
  interrupted; of two agents one may lack a baseline or have a selected candidate.
* LLM client: two threads race for the cache, and the second call of a thread finds
  the cached client or that of nobody; every configuration is tried.

Symmetry is used only for interchangeable model values and only with invariants and
action properties; the fair run uses none.

Deadlock is checked for `prompts`, `limiter` and `optimiser_page`. It is off where the
system may really stop: the job and record instances use up their jobs, requests and
restarts, the selection is a function that returns, a file is migrated or refused once
no kill is left, and a stopped process calls no provider.

No run checks a type invariant: each module has one, `TypeOK`, and each is proved
(`TypeCorrect` in all eight proof modules), so the runs are kept for properties that
several steps of several actors could break.

Every property has a mutant in PROJECT.json: a definition of the model changed as a
plausible bug would change the code (a sweep without its status test, an index
without running jobs, an upsert that replaces, an event that leaves the window a
tick early). With it, the same run finds the property violated.

### Fairness

`FairSpec` asks for weak fairness of the forward steps of each submitter, of each
executor thread, of `Startup` and of `EndShutdown`. A thread that can run is run;
a call to the provider and a wait for the database have timeouts, so each call in
`_execute` returns or raises; the process is started again by its supervisor. There
is no fairness on submitting, on killing, on stopping, or on any step that raises.
`EveryJobEnds` therefore has the exception it needs: a stranded job ends only if the
process ends, which nothing enforces.

`OptimiserPage.FairSpec` asks for weak fairness of the timer, of the server's handling
of a status request (one SELECT, with a timeout for its lock), and of receiving an
answer. The last is weak on purpose: `switchMap` drops an answer that is slower than the
interval of two seconds, the next tick disables `ReceivePoll`, and nothing in the code
keeps all answers from being dropped. Nothing is asked of loads, of clicks, of requests
that fail, or of jobs, of which a stranded one stays unfinished. What the fairness does
not give, `WatchedJobEnds` states as its premises: the job has ended on the server, and
from some time on no pending status request is dropped (`AnswersInTime`), however many
were before. It has the exception of a failed status request, and finding 3 shows that
it is needed: `PollsUntilEnd` has the same premises and not the exception. A page whose
answers are slower than the interval for ever shows no end of a job; no property says
otherwise.

### Findings

1. `quality_gate`. `README.md:475` asks for an improvement of "at least +0.05".
   4.05 against 4.0 is refused, since the doubles differ by 0.0499...98; 4.15 against
   4.1 is accepted.
2. `persistence`. `README.md:80` calls the preferences persistent. The first read of
   an advisor without a row saves the defaults in a second transaction, by an upsert,
   and so overwrites preferences that another request saved in between.
3. `optimiser_poll`. `README.md:163` says that the client polls "until the job is
   completed or failed". One failed status request ends the polling for good
   (`optimiser.page.ts:289`): the job stays shown as unfinished until somebody clicks
   it or reloads.
4. `limiter`, which passes. The docstring `security/middleware.py:29` says "Small
   fixed-window limiter". The code drops each admission by itself when it is a window
   old, a sliding window: `ImplementsSlidingWindow` holds, and fails for `PrunedAtEdge`,
   a fixed window that begins with its first event. At an edge the two differ: a fixed
   window admits nearly twice the limit around it, which `WindowHoldsLimit` excludes. The
   code is the stronger; the docstring is wrong.

Seen while modelling, without a run of their own: an answer that comes after a change
of agent fills the page with the old agent's data (`foreign` in `ShownBelongsToAgent`);
a file of a release before migration 6 with two unfinished jobs of one owner and agent
can never be started again, because the sweep that would end them comes after
`init_db` (`RefusedOnlyForTwins`); a provider client that lost the race of the
constructors is never closed; when closing the connections raises, the Azure credential
is left open (`closeFailed` in `CachedClientIsClosed`).

## 5. Proofs

TLAPS checks every leaf; nothing is assumed but the named ASSUMEs of the modules,
which TLC evaluates on each run.

**OptimisationJobsProofs** (any jobs, keys, threads, variants, restarts and
stranded jobs; `JobsAssumption`). The properties are not inductive: that two threads
never share a key depends on the rows they hold, and that a completed row has its
own result depends on the thread about to write it. `IInv` adds to `TypeOK`:

* `BusyOK`: a busy thread has a real job and key;
* `HeldRows`: a submitter and a queue slot hold a queued row, a thread a queued or
  a running one, each with its key. This is what makes the missing status guards
  of `mark_completed` and `mark_failed` harmless;
* `HeldOnce`: no row is held twice, so no other thread writes a held row;
* `IndexHolds`: unfinished rows of one key are one row. With the two above, two busy
  threads of one key would hold the same row, which is `OneWorkerPerKey`;
* `ProcessOK`: outside a running process there is no thread and no work, so the
  sweep races with nothing;
* `StrandedOK`: a row nobody holds is finished or stranded, and `ShutdownDrains`;
* `ResultsOK`: which results a job and its thread may have, with `AtMostOneResult`
  and `CompletedHasOwnResult`.

`UnfinishedIffHeld` follows from `HeldRows` and `StrandedOK`. There is one step per
action and one lemma per part. The refinement `ImplementsLifecycleAlways` uses the
same invariant: `CreateJob` is `Submit` by the guard of the index; `MarkRunning` is
`Start`; `MarkCompleted` is `Complete` because the row it writes is running and its
result is its own; `MarkFailed` and `Startup` are `Fail`; in all other steps the
mapped variables stay, in particular since a stored result is never changed.

`ProgressNeverGoesBackAlways` adds `ProgressOK`: a row that waits shows 0, and one that
is optimised shows at most what its thread has reported. A thread starts at its first
milestone (`ResultsOK`), the milestones grow for every number of variants, integer
division included (`MilestonesGrow`), and by `HeldOnce` nobody else writes the row.

**PromptOptimisationProofs** (any threads, variants, optimisations and kills;
`PromptsAssumption`). Every statement looks at one or a few rows by name, so what the
table promises follows from what an optimisation under way knows of its own rows:

* `TagsDiffer`: no two optimisations under way name their versions alike. This is
  where the model's `Timestamp`, which tells any two starts apart, is used; with
  `CoarseTimestamp` the verdicts fall, as the mutant of `VerdictIsFinal` shows;
* `OwnRows`: an optimisation has saved the first `saved` of its names, with the parent
  it read and a status that only its own judgement gave; the other names are absent.
  So its upsert inserts, and its judgement judges candidates only;
* `CountsOK`: how many names it has, and that it judges when all are saved;
* `BaseOK`: the version it read as active stays approved and is older than its own;
* `NamesOK`, `BaselineOK`, `PhasesOK`: names come from the clock, the baseline is
  stored before a seed looks for an active version, and threads optimise while the
  process is up.

`IInv` joins these with `TypeOK` and the five safety properties; the properties need
each other (the active version is approved, hence so is the base an optimisation reads,
hence the parent of what it saves). `VerdictIsFinalAlways` follows from `OwnRows` in the
two actions that write a status.

`ImplementsRegistryAlways` has one lemma per action of the registry. That an upsert is
`Propose` is `OwnRows`: the name is absent, and its parent is the approved version that
was read. That `MarkSelection` is `Judge` is `OwnRows` again: what it judges are its own
rows, all candidates of one parent, and what it selects is among them. That a stored
result is a `Report` needs one more part of `IInv`, `SelectedOK`: between the judgement
and the result the optimisation still knows exactly the verdicts that are in the table.

**ParetoSelectionProofs** (any policy within `SelectionAssumption`, any metrics, any
number of candidates). `dominates` is a strict partial order. The guardrails are
monotone: a candidate no worse than one that passes also passes; rounding matters
only when both gain exactly the minimum, and then their qualities are equal.
`SelectedIsUndominatedAlways` follows.
`PrecedesIsStrictTotalOrder` says that the sort key orders candidates totally. `Sorted`
chooses a list in that order; that there is one is shown by counting, without
induction: each candidate is put behind as many as precede it (`SortedIsInOrder`). It
lists every candidate (`SortedListsAll`). The first candidate of the list
precedes all others, which is `FirstIsBestAlways`; a candidate that dominates another
precedes it (`DominatingIsBetter`), so the first of those that dominate a given
candidate is dominated by none of them, and by transitivity by nobody
(`FirstIsOnFrontier`). That is `FrontierCovers`, and with the guardrails
`EveryQualifiedIsCoveredAlways`.

**RateLimiterProofs** (any limit, window, resolution, number of clients). The
invariant: the queue of a client is the tail of its admissions, these do not
decrease, and whatever is no longer in the queue is at least a window old. The lemma
on the prune loop says that it drops a prefix of expired events and stops at the first
live one. `ToldInv` adds that admissions come in the order of the clock, so that all
behind a live one are live, which is `RefusedOnlyAtLimit`; and that the head of the
queue of a client that was refused last leaves the window within the announced time and
the second that was cut off (`ToldOK`; `RetryAfterCovers` is the arithmetic), which,
with a queue no longer than the limit, is `RetryAfterIsEnough`.
`ImplementsSlidingWindowAlways`: the admissions of a client that still count and its
queue after pruning have the same number of entries (`CountedAreLive`), so the code
admits and refuses when the abstract limiter does (`ServesBelowLimit`,
`TurnsAwayAtLimit`), and the head of the queue is the oldest of them.

**AdvisorRecordsProofs** (any requests, runs and kills; `RecordsAssumption`). A handler
acts on what it read in an earlier transaction; the invariant says what is left of it.
Of the tables: a run that was logged stays known, is not stored again once removed, and
keeps its one remover (`RunsKept`, for every step). Of each request (`RequestOK`): its
phase fits its operation (`Fits`), its run is a known one (`NamesKnown`), what
`AnswersAreTrue` says holds from its last change on, not only from its answer
(`SettledTrue`), a claimed deletion is its own (`Claims`), and an answer has its event
(`Audited`). Of each event: its request is over, so that no later step makes it false
(`EventOK`). A step of one request keeps what is known of the others by `RunsKept`
and because the trail only grows, which is the lemma `BystanderOK`.

`ImplementsServiceAlways` needs the converse of `Claims`, too: whoever removed a run says
so (`ServiceOK`). It is what makes the event of a deletion *exactly* true, and it is
preserved since a step removes runs only on behalf of the request that takes it
(`RemoverOnly`). Each handler's steps are one lemma that gives both `ServiceOK` and the
step of the service. That `Audit` is `Confirm` uses `SettledTrue` (what is confirmed is
the case now, several transactions later), `NamesKnown` (a run that is not stored is
gone, not unknown) and `EventOK` (a request has no event before its last step); that a
`Fetch` of a gone run is `ConfirmUnlogged` uses that this request has not removed it.

**OptimiserPageProofs** (any agents, jobs and loads; `PageAssumption`). The invariant:
`TypeOK`; `UnfinishedIsPolled`; a created job is one of the agent it was created for
(`CreatedBelongs`); and, while no foreign answer came in, the job that is shown and the
one that is polled are of the selected agent (`JobsBelong`), and so is everything shown
once the page no longer loads (`ContentBelongs`). The job that is polled is no part of
the property, but becomes the one that is shown. The history variable turns "since the
agent was chosen" into a state, which is what makes this inductive.

**MigrationsProofs** (any agents, any number of kills, files of every release, recorded
or not). The
invariant speaks of the file and of the connection's view of it, in terms of `done`
alone: rows that a statement has left fit the statements that have run (`RowsFit`,
statement by statement; files of every release and files without records are two lemmas,
`ReleaseFits` and `UnrecordedFits`), recorded versions are complete in both, outside a transaction
both are equal, and the migration is as far as `at` says (`Progress`). That a unique
index is refused only for twins is that the rows fit when the index is created.

**LlmClientProofs** (any threads, clients, retries, calls and configurations). Nothing
is closed before the process has stopped (`NothingClosed`), and then no thread calls
(`ThreadsEnd`); a cached client is a built one and the only one ever cached
(`UsedIsBuilt`, `CacheKept`, `CachedIsClosed`); a thread under way has the attempts its
last outcome allows (`Underway`), and what is accepted is also configured
(`AcceptedIsConfigured`), which is where the two rules meet.

Only model-checked: the liveness properties (`EveryJobEnds`, `FuturesAreForgotten`,
`ShutdownReturns`, `WatchedJobEnds`), which need fairness and ENABLED. The three
properties that the code breaks (section 4, findings) are refuted by TLC and have no
theorem. Every other property of a run is proved.

## 6. Not modelled

* Authentication, encryption, configuration, schemas: pure functions of one request
  or one value, sequential.
* The texts of agents, reflection, mutation and judge: when they call a provider,
  answer offline or refuse is in `LlmClient`; what they return is taken as a step that
  returns something or raises.
* Rule-based evaluation, text matching and the regression gate: pure functions of one
  answer, one benchmark or two files. Character offsets and regular expressions are out
  of TLC's reach at a useful size.
* Run, preferences and runner pages: one request at a time, no polling; a late answer
  for what is no longer shown is the hazard of the optimiser page again.
* Session and API services, shell and remaining pages of the client: stateless
  wrappers and rendering.
* The limiter's dictionary, which gains a key per client and loses none: no bound in
  the code, and a small instance cannot tell growth from a leak.
* Paging: a total and its rows come from two statements, which the next read corrects.
* The database's own locking: a lock that is not released in time is a step that raises.
