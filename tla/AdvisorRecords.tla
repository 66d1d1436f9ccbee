--------------------------- MODULE AdvisorRecords ---------------------------
(***************************************************************************)
(* What the API keeps for one advisor: the preferences row of               *)
(* backend/memory/advisor_memory.py, the agent runs of                      *)
(* backend/traces/trace_logger.py and the audit events of backend/audit.py, *)
(* under the concurrent requests of backend/api/routes/memory.py and        *)
(* runs.py, the benchmarks of an optimisation, and kills.                   *)
(*                                                                          *)
(* A request goes through the phases of its handler.  Each                  *)
(* `with get_connection()` block is one step and one transaction, and every *)
(* step may raise instead; between two steps anything else may happen.      *)
(* The handlers that list runs or events change nothing and are left out;   *)
(* reads that write an audit event are modelled.                            *)
(***************************************************************************)
EXTENDS Integers, FiniteSets

CONSTANTS
    Requests,     \* the requests, and the benchmarks of executor threads
    Runs,         \* the run identifiers uuid4 can draw
    Preferences,  \* the preferences a client may save
    Default,      \* AdvisorPreferences(), the defaults
    Nobody,       \* no request
    Retention,    \* the purge at the start of the process
    MaxRestarts   \* bound: how often the process may be killed

ASSUME RecordsAssumption ==
    /\ Default \notin Preferences
    /\ Nobody \notin Requests /\ Retention \notin Requests /\ Nobody # Retention
    /\ MaxRestarts \in Nat

VARIABLES
    memory,    \* the advisor's row of advisor_memory
    runs,      \* table agent_runs
    audit,     \* table audit_events: the requests that logged one, and
               \* whether it claims a deletion
    request,   \* what each request is doing, and what it answered
    process,   \* "up" or "down"
    remover,   \* history: which request removed a run
    restarts   \* how often the process has been killed

tables == <<memory, runs, audit>>
vars == <<tables, request, process, remover, restarts>>

-----------------------------------------------------------------------------
Operations == {"get", "update", "forget", "run", "benchmark", "evaluate",
               "detail", "delete", "purge"}

FirstPhase == [get       |-> "reading",    update   |-> "saving",
               forget    |-> "forgetting", run      |-> "generating",
               benchmark |-> "generating", evaluate |-> "fetching",
               detail    |-> "fetching",   delete   |-> "fetching",
               purge     |-> "purging"]

(* What a handler does with the run it fetched.                              *)
AfterFetch == [evaluate |-> "evaluating", detail |-> "auditing", delete |-> "deleting"]

NoMemory == [exists |-> FALSE, preferences |-> Default, created |-> Nobody]
NoRun    == [stored |-> FALSE, old |-> FALSE, evaluation |-> Nobody]
NewRun   == [NoRun EXCEPT !.stored = TRUE]

NewRequest == [op |-> "none", run |-> Nobody, preferences |-> Default,
               phase |-> "new", deleted |-> FALSE, answer |-> "none"]

Stored == {r \in Runs : runs[r].stored}
Known  == Stored \cup {r \in Runs : remover[r] # Nobody}
InFlight(q) == request[q].phase \notin {"new", "done"}

(* The request goes on to another phase, or ends with an answer.             *)
GoesTo(q, phase) == request' = [request EXCEPT ![q].phase = phase]
Answers(q, answer) ==
    request' = [request EXCEPT ![q].phase = "done", ![q].answer = answer]

-----------------------------------------------------------------------------
(* A request arrives.  The handlers of one run name one that was logged;     *)
(* those that create a run draw its identifier when they log it.             *)
Begin(q, op) ==
    /\ process = "up"
    /\ request[q].phase = "new"
    /\ \E r \in Known \cup {Nobody}, p \in Preferences :
       /\ r # Nobody <=> op \in DOMAIN AfterFetch
       /\ request' = [request EXCEPT ![q] =
              [NewRequest EXCEPT
                  !.op = op, !.phase = FirstPhase[op],
                  !.run = r,
                  !.preferences = IF op = "update" THEN p ELSE Default]]
    /\ UNCHANGED <<tables, process, remover, restarts>>

(* get_memory reads the row; when there is none it goes on to save the       *)
(* defaults, in another transaction.                                         *)
GetMemory(q) ==
    /\ request[q].phase = "reading"
    /\ GoesTo(q, IF memory.exists THEN "auditing" ELSE "saving")
    /\ UNCHANGED <<tables, process, remover, restarts>>

(* Mutant: INSERT OR REPLACE instead of the upsert.                          *)
SavePreferencesReplacing(q) ==
    /\ request[q].phase = "saving"
    /\ memory' = [exists |-> TRUE, preferences |-> request[q].preferences, created |-> q]
    /\ GoesTo(q, "auditing")
    /\ UNCHANGED <<runs, audit, process, remover, restarts>>

(* save_preferences: an upsert that keeps created_at.                        *)
SavePreferences(q) ==
    /\ request[q].phase = "saving"
    /\ memory' = [exists |-> TRUE, preferences |-> request[q].preferences,
                  created |-> IF memory.exists THEN memory.created ELSE q]
    /\ GoesTo(q, "auditing")
    /\ UNCHANGED <<runs, audit, process, remover, restarts>>

DeleteMemory(q) ==
    /\ request[q].phase = "forgetting"
    /\ memory' = NoMemory
    /\ request' = [request EXCEPT ![q].phase = "auditing", ![q].deleted = memory.exists]
    /\ UNCHANGED <<runs, audit, process, remover, restarts>>

-----------------------------------------------------------------------------
(* Runs.                                                                     *)

(* The preferences and the prompt are read and the agent answers.            *)
Generate(q) ==
    /\ request[q].phase = "generating"
    /\ GoesTo(q, "logging")
    /\ UNCHANGED <<tables, process, remover, restarts>>

(* log_run, under a fresh identifier.  A benchmark evaluates next.           *)
LogRun(q) ==
    /\ request[q].phase = "logging"
    /\ \E r \in Runs :
          /\ r \notin Known
          /\ runs' = [runs EXCEPT ![r] = NewRun]
          /\ request' = [request EXCEPT ![q].run = r,
                            ![q].phase = IF request[q].op = "benchmark"
                                         THEN "evaluating" ELSE "auditing"]
    /\ UNCHANGED <<memory, audit, process, remover, restarts>>

(* get_run.  A run that is gone is a 404, but for a deletion it is an answer *)
(* without an audit event.                                                   *)
Fetch(q) ==
    /\ request[q].phase = "fetching"
    /\ IF request[q].run \in Stored
       THEN GoesTo(q, AfterFetch[request[q].op])
       ELSE Answers(q, IF request[q].op = "delete" THEN "ok" ELSE "not_found")
    /\ UNCHANGED <<tables, process, remover, restarts>>

Evaluate(q) ==
    /\ request[q].phase = "evaluating"
    /\ GoesTo(q, "storing")
    /\ UNCHANGED <<tables, process, remover, restarts>>

(* Mutant: the evaluation is written with an upsert.                         *)
StoreEvaluationUpsert(q) ==
    /\ request[q].phase = "storing"
    /\ runs' = [runs EXCEPT ![request[q].run].stored = TRUE,
                            ![request[q].run].evaluation = q]
    /\ IF request[q].op = "benchmark" THEN Answers(q, "ok") ELSE GoesTo(q, "auditing")
    /\ UNCHANGED <<memory, audit, process, remover, restarts>>

(* Mutant: the handler answers at once when the UPDATE matched no row.       *)
StoreEvaluationOrAnswer(q) ==
    /\ request[q].phase = "storing"
    /\ IF request[q].run \in Stored
       THEN /\ runs' = [runs EXCEPT ![request[q].run].evaluation = q]
            /\ IF request[q].op = "benchmark" THEN Answers(q, "ok") ELSE GoesTo(q, "auditing")
       ELSE Answers(q, "ok") /\ UNCHANGED runs
    /\ UNCHANGED <<memory, audit, process, remover, restarts>>

(* update_evaluation.  Whether the UPDATE matched a row is returned and      *)
(* ignored.                                                                  *)
StoreEvaluation(q) ==
    /\ request[q].phase = "storing"
    /\ runs' = IF request[q].run \in Stored
               THEN [runs EXCEPT ![request[q].run].evaluation = q] ELSE runs
    /\ IF request[q].op = "benchmark" THEN Answers(q, "ok") ELSE GoesTo(q, "auditing")
    /\ UNCHANGED <<memory, audit, process, remover, restarts>>

(* The rows of S are removed on behalf of q.                                 *)
Remove(S, q) ==
    /\ runs' = [r \in Runs |-> IF r \in S THEN NoRun ELSE runs[r]]
    /\ remover' = [r \in Runs |-> IF r \in S THEN q ELSE remover[r]]

(* Mutant: the handler reports what its earlier read found.                  *)
DeleteRunAsRead(q) ==
    /\ request[q].phase = "deleting"
    /\ Remove({request[q].run} \cap Stored, q)
    /\ request' = [request EXCEPT ![q].phase = "auditing", ![q].deleted = TRUE]
    /\ UNCHANGED <<memory, audit, process, restarts>>

(* Mutant: a run that was evaluated since is left alone.                     *)
DeleteRunUnlessEvaluated(q) ==
    LET S == {r \in {request[q].run} \cap Stored : runs[r].evaluation = Nobody} IN
    /\ request[q].phase = "deleting"
    /\ Remove(S, q)
    /\ request' = [request EXCEPT ![q].phase = "auditing", ![q].deleted = S # {}]
    /\ UNCHANGED <<memory, audit, process, restarts>>

(* Mutant: the handler does not look at how many rows were deleted.          *)
DeleteRunUnclaimed(q) ==
    /\ request[q].phase = "deleting"
    /\ Remove({request[q].run} \cap Stored, q)
    /\ GoesTo(q, "auditing")
    /\ UNCHANGED <<memory, audit, process, restarts>>

(* delete_run: by now the run may be gone, and then nothing was deleted.     *)
DeleteRun(q) ==
    LET S == {request[q].run} \cap Stored IN
    /\ request[q].phase = "deleting"
    /\ Remove(S, q)
    /\ request' = [request EXCEPT ![q].phase = "auditing", ![q].deleted = S # {}]
    /\ UNCHANGED <<memory, audit, process, restarts>>

(* purge_runs, of all runs or of those older than a number of days.          *)
PurgeRuns(q) ==
    /\ request[q].phase = "purging"
    /\ \E S \in {Stored, {r \in Stored : runs[r].old}} : Remove(S, q)
    /\ GoesTo(q, "auditing")
    /\ UNCHANGED <<memory, audit, process, restarts>>

-----------------------------------------------------------------------------
(* AuditRepository.log, the last step of every handler that writes one.      *)
Audit(q) ==
    /\ request[q].phase = "auditing"
    /\ audit' = audit \cup {[request |-> q, deleted |-> request[q].deleted]}
    /\ Answers(q, "ok")
    /\ UNCHANGED <<memory, runs, process, remover, restarts>>

(* A step raises: the provider, the database or the encryption of a value.   *)
Raise(q) ==
    /\ InFlight(q)
    /\ Answers(q, "error")
    /\ UNCHANGED <<tables, process, remover, restarts>>

(* Time passes for a run.                                                    *)
Age(r) ==
    /\ runs[r].stored
    /\ ~runs[r].old
    /\ runs' = [runs EXCEPT ![r].old = TRUE]
    /\ UNCHANGED <<memory, audit, request, process, remover, restarts>>

(* The process is killed; whoever waits for an answer gets none.             *)
Kill ==
    /\ process = "up"
    /\ restarts < MaxRestarts
    /\ restarts' = restarts + 1
    /\ process' = "down"
    /\ request' = [q \in Requests |->
                      IF InFlight(q) THEN [request[q] EXCEPT !.phase = "done",
                                                             !.answer = "lost"]
                      ELSE request[q]]
    /\ UNCHANGED <<tables, remover>>

(* The process starts, and purges what is older than the retention period,   *)
(* if one is configured.                                                     *)
Startup ==
    /\ process = "down"
    /\ process' = "up"
    /\ \E S \in {{}, {r \in Stored : runs[r].old}} : Remove(S, Retention)
    /\ UNCHANGED <<memory, audit, request, restarts>>

-----------------------------------------------------------------------------
(* The tables may hold runs and a preferences row of earlier requests.       *)
Init ==
    /\ memory \in {NoMemory, [NoMemory EXCEPT !.exists = TRUE]}
    /\ runs \in [Runs -> {NoRun, NewRun}]
    /\ audit = {}
    /\ request = [q \in Requests |-> NewRequest]
    /\ process = "down"
    /\ remover = [r \in Runs |-> Nobody]
    /\ restarts = 0

Handle(q) ==
    \/ \E op \in Operations : Begin(q, op)
    \/ GetMemory(q)
    \/ SavePreferences(q)
    \/ DeleteMemory(q)
    \/ Generate(q)
    \/ LogRun(q)
    \/ Fetch(q)
    \/ Evaluate(q)
    \/ StoreEvaluation(q)
    \/ DeleteRun(q)
    \/ PurgeRuns(q)
    \/ Audit(q)
    \/ Raise(q)

Next == Kill \/ Startup \/ (\E r \in Runs : Age(r)) \/ (\E q \in Requests : Handle(q))

Spec == Init /\ [][Next]_vars

-----------------------------------------------------------------------------
Phases == {"new", "reading", "saving", "forgetting", "generating", "logging",
           "fetching", "evaluating", "storing", "deleting", "purging",
           "auditing", "done"}

(* Rows, events and requests are well formed; a run is evaluated only while  *)
(* it is stored.                                                             *)
TypeOK ==
    /\ memory \in [exists : BOOLEAN, preferences : Preferences \cup {Default},
                   created : Requests \cup {Nobody}]
    /\ runs \in [Runs -> [stored : BOOLEAN, old : BOOLEAN,
                          evaluation : Requests \cup {Nobody}]]
    /\ \A r \in Runs \ Stored : runs[r] = NoRun
    /\ audit \subseteq [request : Requests, deleted : BOOLEAN]
    /\ request \in [Requests -> [op : Operations \cup {"none"}, run : Runs \cup {Nobody},
                                 preferences : Preferences \cup {Default},
                                 phase : Phases, deleted : BOOLEAN,
                                 answer : {"none", "ok", "not_found", "error", "lost"}]]
    /\ process \in {"up", "down"}
    /\ remover \in [Runs -> Requests \cup {Nobody, Retention}]
    /\ restarts \in 0 .. MaxRestarts

(* A run that was deleted or purged does not come back, although it may be   *)
(* in the middle of an evaluation (runs.py:177-206, gepa_loop.py:294).       *)
DeletedStaysDeleted == \A r \in Stored : remover[r] = Nobody

(* What a request was told is true, whoever interfered: an evaluation that   *)
(* was answered is in its run's row, unless the run is gone; a run that was  *)
(* created is stored or was removed by somebody; and after a deletion was    *)
(* answered the run is not stored, whether this request deleted it or not.   *)
AnswersAreTrue ==
    \A q \in Requests : request[q].answer = "ok" =>
        /\ request[q].op \in {"evaluate", "benchmark"} /\ request[q].run \in Stored =>
              runs[request[q].run].evaluation # Nobody
        /\ request[q].op \in {"run", "benchmark"} =>
              request[q].run \in Stored \/ remover[request[q].run] # Nobody
        /\ request[q].op = "delete" => request[q].run \notin Stored

(* Of all the requests that delete one run, at most one is told that it did, *)
(* and it is the one whose statement removed the row; nobody claims what a   *)
(* purge removed (runs.py:314-326 reads the run before it deletes it).       *)
OneDeletionPerRun ==
    \A q \in Requests :
        request[q].op = "delete" /\ request[q].deleted => remover[request[q].run] = q

(* An answer comes after its audit event: whoever was told that a change was *)
(* made, or was shown preferences, is in the audit trail, except a deletion  *)
(* that found nothing, and the benchmarks; and an event that reports a       *)
(* deleted run reports a run that was removed by that request.               *)
AnsweredIsAudited ==
    /\ \A q \in Requests :
          /\ request[q].answer = "ok"
          /\ request[q].op # "benchmark"
          /\ request[q].op = "delete" => request[q].deleted
          => \E e \in audit : e.request = q
    /\ \A e \in audit :
          request[e.request].op = "delete" /\ e.deleted =>
              remover[request[e.request].run] = e.request

(* As long as the preferences row exists its created_at does not change,     *)
(* whichever of two requests that both found no row inserts it.              *)
CreatedAtKept ==
    [][memory.exists /\ memory'.exists => memory'.created = memory.created]_vars

Evaluated == {r \in Stored : runs[r].evaluation # Nobody}

(* The tables and the answers implement the service: whatever requests,      *)
(* purges and kills interleave, a run is kept once and removed once, every   *)
(* request does only what was asked, each answer is true when it is given,   *)
(* and the trail names for every deletion exactly the one who did it.        *)
Service == INSTANCE RecordService WITH
               kept      <- Stored,
               removed   <- remover,
               evaluated <- Evaluated,
               since     <- IF memory.exists THEN {memory.created} ELSE {},
               trail     <- audit,
               op        <- [q \in Requests |-> request[q].op],
               run       <- [q \in Requests |-> request[q].run],
               answer    <- [q \in Requests |-> request[q].answer]
ImplementsService == Service!SSpec

(* README.md:80 calls the preferences "persistent": a request that only      *)
(* reads them never changes preferences that are stored.                     *)
ReadsKeepPreferences ==
    [][\A q \in Requests :
          request[q].op = "get" /\ request'[q].phase # request[q].phase /\ memory.exists
              => memory'.preferences = memory.preferences]_vars
=============================================================================
