----------------------------- MODULE Migrations -----------------------------
(***************************************************************************)
(* The numbered migrations of backend/database.py, which init_db runs at    *)
(* every start over the file that an older release, or an earlier start     *)
(* that was killed, has left.                                               *)
(*                                                                          *)
(* One connection runs all of them.  Python's sqlite3 opens a transaction   *)
(* before an INSERT or UPDATE only: a CREATE or ALTER that comes earlier is *)
(* committed by itself, one that comes later belongs to the transaction,    *)
(* and that one ends when get_connection commits or rolls back.             *)
(*                                                                          *)
(* A statement is named by what it leaves in the file.  `done` tells which  *)
(* of them the file has; rows are kept only where a statement depends on    *)
(* them: the prompts of each agent, and whether two unfinished jobs of one  *)
(* owner and agent exist, which releases before migration 6 allowed.        *)
(***************************************************************************)
EXTENDS Naturals, Sequences, FiniteSets, Functions

CONSTANTS
    Agents,   \* the agent types that have prompts
    MaxKills  \* bound: how often the process ends and is started again

ASSUME MigrationsAssumption == MaxKills \in Nat

VARIABLES
    file,     \* the database file: [done, recorded, prompts, twins]
    work,     \* the same, as the migrating connection sees it
    open,     \* whether the connection is inside a transaction
    applied,  \* the versions that init_db found recorded
    at,       \* the statement it runs next: [version, step]
    process,  \* "down", "migrating", "serving", "refused" (init_db raised)
    kills     \* how often the process has ended

vars == <<file, work, open, applied, at, process, kills>>

-----------------------------------------------------------------------------
BaseSchema ==
    <<"agent_runs", "prompt_versions", "advisor_memory", "optimisation_results">>

RequestIds == <<"runs.provider_request_id", "runs.client_request_id">>

PromptLifecycle ==
    <<"prompts.status", "prompts.is_active", "prompts.selected_at",
      "prompts.activated_at", "baseline status", "historical selections",
      "active baselines", "idx_prompt_one_active_per_agent">>

SecurityJobsAudit ==
    <<"runs.owner_id", "runs.advisor_id", "memory.owner_id", "memory.created_at",
      "memory owners", "memory creation", "results.owner_id", "results.job_id",
      "optimisation_jobs", "audit_events">>

Indexes ==
    <<"idx_runs_owner", "idx_runs_advisor", "idx_runs_task", "idx_runs_prompt",
      "idx_prompt_status", "idx_jobs_owner", "idx_jobs_status",
      "idx_results_owner", "idx_audit_principal">>

JobConcurrencyGuard == <<"idx_one_active_job_per_owner_agent">>

MIGRATIONS == <<BaseSchema, RequestIds, PromptLifecycle, SecurityJobsAudit,
                Indexes, JobConcurrencyGuard>>

Versions  == DOMAIN MIGRATIONS
Statements(versions) == UNION {Range(MIGRATIONS[v]) : v \in versions}

(* The statements before which the driver opens a transaction; so does the   *)
(* INSERT of a version's row.                                                *)
Updates == {"baseline status", "historical selections", "active baselines",
            "memory owners", "memory creation"}

-----------------------------------------------------------------------------
(* The rows of one agent: which of "baseline" and "candidate" exist, whether *)
(* a stored result lists the candidate as selected, the statuses, the flags. *)
Prompts == [rows : SUBSET {"baseline", "candidate"}, listed : BOOLEAN,
            status : [{"baseline", "candidate"} -> {"baseline", "candidate", "selected"}],
            active : SUBSET {"baseline", "candidate"}]

(* What ALTER TABLE gives the rows of a release that knew no status.         *)
Unmarked(rows, listed) ==
    [rows |-> rows, listed |-> listed,
     status |-> [r \in {"baseline", "candidate"} |-> "candidate"], active |-> {}]

MarkedBaseline(p) ==
    IF "baseline" \in p.rows THEN [p EXCEPT !.status["baseline"] = "baseline"] ELSE p

MarkedSelected(p) ==
    IF p.listed /\ "candidate" \in p.rows
    THEN [p EXCEPT !.status["candidate"] = "selected"] ELSE p

(* Mutant: an agent without an active prompt gets its newest one.            *)
ActivatedNewest(p) ==
    IF p.active # {} \/ p.rows = {} THEN p
    ELSE [p EXCEPT !.active = IF "candidate" \in p.rows THEN {"candidate"} ELSE {"baseline"}]

(* An agent without an active prompt gets its baseline.                      *)
Activated(p) ==
    IF p.active = {} /\ "baseline" \in p.rows THEN [p EXCEPT !.active = {"baseline"}] ELSE p

(* What the prompt statements do to the rows of one agent.                   *)
PromptRows(s, p) ==
    CASE s = "baseline status"       -> MarkedBaseline(p)
      [] s = "historical selections" -> MarkedSelected(p)
      [] s = "active baselines"      -> Activated(p)
      [] OTHER                       -> p

(* The unique indexes refuse rows that break them.                           *)
Breaks(s, db) ==
    \/ /\ s = "idx_prompt_one_active_per_agent"
       /\ \E a \in Agents : Cardinality(db.prompts[a].active) > 1
    \/ s = "idx_one_active_job_per_owner_agent" /\ db.twins

(* Mutant: ALTER TABLE without a look at the columns that are there.         *)
RaisesOnRepeat(s, db) ==
    Breaks(s, db) \/ (s \in Range(RequestIds) /\ s \in db.done)

(* Everything else is repeatable: IF NOT EXISTS, and _ensure_column.         *)
Raises(s, db) == Breaks(s, db)

Executed(s, db) ==
    [db EXCEPT !.done = @ \cup {s},
               !.prompts = [a \in Agents |-> PromptRows(s, db.prompts[a])]]

-----------------------------------------------------------------------------
Current == MIGRATIONS[at.version][at.step]

(* init_db opens a connection and reads which versions are recorded.         *)
Start ==
    /\ process = "down"
    /\ process' = "migrating"
    /\ applied' = file.recorded
    /\ work' = file
    /\ open' = FALSE
    /\ at' = [version |-> 1, step |-> 1]
    /\ UNCHANGED <<file, kills>>

NextVersion == at' = [version |-> at.version + 1, step |-> 1]

(* A version that is recorded is skipped.                                    *)
Skip ==
    /\ process = "migrating" /\ at.version \in applied
    /\ NextVersion
    /\ UNCHANGED <<file, work, open, applied, process, kills>>

(* A statement of a migration that is not.  Before the first UPDATE or       *)
(* INSERT of the connection it is committed by itself.                       *)
Execute ==
    /\ process = "migrating" /\ at.version \in Versions \ applied
    /\ at.step <= Len(MIGRATIONS[at.version])
    /\ ~Raises(Current, work)
    /\ work' = Executed(Current, work)
    /\ open' = (open \/ Current \in Updates)
    /\ file' = IF open' THEN file ELSE work'
    /\ at' = [at EXCEPT !.step = @ + 1]
    /\ UNCHANGED <<applied, process, kills>>

(* The INSERT into schema_migrations.                                        *)
Record ==
    /\ process = "migrating" /\ at.version \in Versions \ applied
    /\ at.step > Len(MIGRATIONS[at.version])
    /\ work' = [work EXCEPT !.recorded = @ \cup {at.version}]
    /\ open' = TRUE
    /\ NextVersion
    /\ UNCHANGED <<file, applied, process, kills>>

(* Mutant: an IntegrityError of a migration is swallowed.                    *)
RefuseNothing ==
    /\ process = "migrating" /\ at.version \in Versions \ applied
    /\ at.step <= Len(MIGRATIONS[at.version])
    /\ Raises(Current, work)
    /\ at' = [at EXCEPT !.step = @ + 1]
    /\ UNCHANGED <<file, work, open, applied, process, kills>>

(* The statement raises: rollback, and the process does not come up.         *)
Refuse ==
    /\ process = "migrating" /\ at.version \in Versions \ applied
    /\ at.step <= Len(MIGRATIONS[at.version])
    /\ Raises(Current, work)
    /\ process' = "refused"
    /\ work' = file /\ open' = FALSE
    /\ UNCHANGED <<file, applied, at, kills>>

(* conn.commit(), and the lifespan goes on.                                  *)
Commit ==
    /\ process = "migrating" /\ at.version = Len(MIGRATIONS) + 1
    /\ file' = work /\ open' = FALSE
    /\ process' = "serving"
    /\ UNCHANGED <<work, applied, at, kills>>

(* Somebody activates the approved candidate: only a complete file serves.   *)
Activate(a) ==
    /\ process = "serving"
    /\ file.prompts[a].status["candidate"] = "selected"
    /\ "candidate" \in file.prompts[a].rows
    /\ file' = [file EXCEPT !.prompts[a].active = {"candidate"}]
    /\ UNCHANGED <<work, open, applied, at, process, kills>>

(* A kill, a full disk, a lock that is not released, or the restart of a     *)
(* process that serves or was refused: what is not committed is lost.        *)
Kill ==
    /\ process # "down" /\ kills < MaxKills
    /\ process' = "down"
    /\ work' = file /\ open' = FALSE
    /\ kills' = kills + 1
    /\ UNCHANGED <<file, applied, at>>

(* The prompts of releases that knew no status, those that later ones        *)
(* managed, one active for each agent with a baseline, and what a version's  *)
(* release may have left.                                                    *)
OldPrompts ==
    {Unmarked(rows, listed) :
        rows \in {{}, {"baseline"}, {"baseline", "candidate"}}, listed \in BOOLEAN}

Managed(p) ==
    IF p.rows = {} THEN {p}
    ELSE {[p EXCEPT !.active = {r}] : r \in {x \in p.rows : p.status[x] # "candidate"}}

ReleasedPrompts(v) ==
    IF v < 3 THEN OldPrompts
    ELSE UNION {Managed(MarkedSelected(MarkedBaseline(p))) : p \in OldPrompts}

(* From version 4 on and without the guard of version 6 there may be two     *)
(* unfinished jobs of one owner and agent.                                   *)
Released(v) ==
    [done : {Statements(1 .. v)}, recorded : {1 .. v},
     prompts : [Agents -> ReleasedPrompts(v)],
     twins : IF v \in {4, 5} THEN BOOLEAN ELSE {FALSE}]

(* A file of a time when no version was recorded, or none at all: any of the *)
(* first tables, with the rows that those can hold.                          *)
Unrecorded ==
    {db \in [done : SUBSET Range(BaseSchema), recorded : {{}},
             prompts : [Agents -> OldPrompts], twins : {FALSE}] :
        \A a \in Agents :
           /\ "prompt_versions" \in db.done \/ db.prompts[a].rows = {}
           /\ "optimisation_results" \in db.done \/ ~db.prompts[a].listed}

Init ==
    /\ file \in Unrecorded \cup UNION {Released(v) : v \in Versions}
    /\ work = file
    /\ open = FALSE
    /\ applied = {}
    /\ at = [version |-> 1, step |-> 1]
    /\ process = "down"
    /\ kills = 0

Next ==
    \/ Start \/ Skip \/ Execute \/ Record \/ Refuse \/ Commit \/ Kill
    \/ \E a \in Agents : Activate(a)

Spec == Init /\ [][Next]_vars

-----------------------------------------------------------------------------
(* Whatever the release that wrote the file and however many starts were     *)
(* killed in it, a version that is recorded in the file has left there all   *)
(* that its migration makes: no later start will look at it again.           *)
RecordedIsApplied == Statements(file.recorded) \subseteq file.done

(* A process serves only with every migration recorded, with exactly one     *)
(* active prompt for each agent that has a baseline and none for the others, *)
(* and with the selections of the past, which can then be activated.         *)
ServesMigrated ==
    process = "serving" =>
        /\ file.recorded = Versions
        /\ \A a \in Agents :
              LET p == file.prompts[a] IN
              /\ "baseline" \in p.rows => Cardinality(p.active) = 1
              /\ p.active \subseteq {r \in p.rows : p.status[r] # "candidate"}
              /\ p.listed /\ "candidate" \in p.rows => p.status["candidate"] = "selected"

(* A start is refused only because of two unfinished jobs of one owner and   *)
(* agent, which the sweep that comes after init_db would have ended: what an *)
(* earlier, killed start has left never stands in the way.                   *)
RefusedOnlyForTwins == process = "refused" => file.twins
=============================================================================
