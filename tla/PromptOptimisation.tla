------------------------- MODULE PromptOptimisation -------------------------
(***************************************************************************)
(* The prompt versions of one agent type: the table of                      *)
(* backend/optimisation/prompt_store.py, the optimisations of               *)
(* gepa_loop.py that fill it, and the administrators who activate versions. *)
(* Every statement is restricted to one agent type, so one is enough.       *)
(*                                                                          *)
(* Actors: the lifespan, which seeds the baseline before the process serves *)
(* a request; executor threads, each inside `optimise`; and requests that   *)
(* activate a version.  Each `with get_connection()` block is one step, and *)
(* so is each of the two statements of seed_baselines' block: the SELECT    *)
(* runs before Python opens the transaction of the UPDATE.  The benchmarks, *)
(* the reflection and the mutation are provider calls, which return         *)
(* something or raise; what they measured is abstracted to the set of       *)
(* candidates that select_candidates_with_policy picks.                     *)
(***************************************************************************)
EXTENDS Integers, FiniteSets

CONSTANTS
    Optimisers,        \* the executor threads
    Lifespan,          \* the thread that starts the process
    MaxVariants,       \* max_variants of a request
    MaxOptimisations,  \* bound: how many optimisations may name their versions
    MaxRestarts        \* bound: how often the process may be killed

ASSUME PromptsAssumption ==
    /\ Lifespan \notin Optimisers
    /\ MaxVariants \in Nat \ {0}
    /\ MaxOptimisations \in Nat
    /\ MaxRestarts \in Nat

VARIABLES
    prompts,      \* table prompt_versions
    results,      \* table optimisation_results, with the candidates a row lists
    process,      \* "down", "seeding" or "up"
    actor,        \* what the lifespan and each executor thread is doing
    clock,        \* how many optimisations have read the clock
    interrupted,  \* history: the optimisations that ended between the
                  \* selection and the result
    restarts      \* how often the process has been killed

tables == <<prompts, results>>
vars == <<tables, process, actor, clock, interrupted, restarts>>

-----------------------------------------------------------------------------
(* A version is named by the clock reading of its optimisation and its index *)
(* in the list of variants.                                                  *)
Baseline   == <<0, 0>>
Candidates == (1 .. MaxOptimisations) \X (1 .. MaxVariants)
Versions   == {Baseline} \cup Candidates
Actors     == {Lifespan} \cup Optimisers

(* Mutant: the format of the time stamp stops at coarser units, so that two  *)
(* optimisations share it.                                                   *)
CoarseTimestamp(serial) == (serial + 1) \div 2

(* The clock reading that names the versions of the serial-th optimisation,  *)
(* in microseconds.  Readings of two optimisations are taken to differ.      *)
Timestamp(serial) == serial

NoPrompt == [status |-> "absent", active |-> FALSE, text |-> Baseline,
             parent |-> Baseline]

NewPrompt(status, text, parent) ==
    [status |-> status, active |-> FALSE, text |-> text, parent |-> parent]

Idle == [phase |-> "idle", serial |-> 0, base |-> Baseline, tag |-> 0,
         count |-> 0, saved |-> 0, selected |-> {}]

Stored   == {v \in Versions : prompts[v].status # "absent"}
Active   == {v \in Versions : prompts[v].active}
Own(a)   == {<<actor[a].tag, i>> : i \in 1 .. actor[a].count}
Approved == {"baseline", "selected"}

(* Mutant: a candidate may be activated before it was judged.                *)
ActivatableUnlessRejected(v) ==
    prompts[v].status \in {"baseline", "selected", "candidate"}

(* The statuses activate_prompt accepts.                                     *)
Activatable(v) == prompts[v].status \in Approved

(* save_prompt_version with overwrite: an upsert that keeps is_active and    *)
(* never turns a baseline into a candidate.                                  *)
Upserted(row, text, parent) ==
    IF row.status = "absent"
    THEN NewPrompt("candidate", text, parent)
    ELSE [row EXCEPT !.text = text, !.parent = parent,
                     !.status = IF @ = "baseline" THEN @ ELSE "candidate"]

-----------------------------------------------------------------------------
Init ==
    /\ prompts = [v \in Versions |-> NoPrompt]
    /\ results = {}
    /\ process = "down"
    /\ actor = [a \in Actors |-> Idle]
    /\ clock = 0
    /\ interrupted = {}
    /\ restarts = 0

-----------------------------------------------------------------------------
(* seed_baselines, by the lifespan at every start and by every optimisation. *)

SeedInsert(a) ==
    /\ actor[a].phase = "seed"
    /\ prompts' = [prompts EXCEPT ![Baseline] =
                      IF @.status = "absent"
                      THEN NewPrompt("baseline", Baseline, Baseline) ELSE @]
    /\ actor' = [actor EXCEPT ![a].phase = "seeded"]
    /\ UNCHANGED <<results, process, clock, interrupted, restarts>>

(* What follows the seed: the process serves requests, or `optimise` reads   *)
(* the active prompt.                                                        *)
AfterSeed(a) ==
    IF a = Lifespan
    THEN /\ process' = "up"
         /\ actor' = [actor EXCEPT ![a] = Idle]
    ELSE /\ actor' = [actor EXCEPT ![a].phase = "reading"]
         /\ UNCHANGED process

(* Mutant: the start-up takes any stored version for the active one.         *)
SeedFindsStored(a) ==
    /\ actor[a].phase = "seeded"
    /\ IF Stored # {}
       THEN AfterSeed(a)
       ELSE actor' = [actor EXCEPT ![a].phase = "unseeded"] /\ UNCHANGED process
    /\ UNCHANGED <<tables, clock, interrupted, restarts>>

(* The SELECT: is some version active?                                       *)
SeedFindsActive(a) ==
    /\ actor[a].phase = "seeded"
    /\ IF Active # {}
       THEN AfterSeed(a)
       ELSE actor' = [actor EXCEPT ![a].phase = "unseeded"] /\ UNCHANGED process
    /\ UNCHANGED <<tables, clock, interrupted, restarts>>

(* The UPDATE; the unique index on the active rows lets it through only when *)
(* no other version is active, and makes it raise otherwise.                 *)
SeedActivates(a) ==
    /\ actor[a].phase = "unseeded"
    /\ Active = {}
    /\ prompts' = [prompts EXCEPT ![Baseline].active = TRUE]
    /\ AfterSeed(a)
    /\ UNCHANGED <<results, clock, interrupted, restarts>>

-----------------------------------------------------------------------------
(* One optimisation.                                                         *)

Begin(o) ==
    /\ process = "up"
    /\ actor[o].phase = "idle"
    /\ actor' = [actor EXCEPT ![o] = [Idle EXCEPT !.phase = "seed"]]
    /\ UNCHANGED <<tables, process, clock, interrupted, restarts>>

(* Mutant: the newest version is refined instead of the active one.          *)
ReadNewest(o) ==
    /\ actor[o].phase = "reading"
    /\ \E v \in Stored :
          /\ \A u \in Stored : u[1] <= v[1]
          /\ actor' = [actor EXCEPT ![o].phase = "mutating", ![o].base = v]
    /\ UNCHANGED <<tables, process, clock, interrupted, restarts>>

(* get_prompt: the active prompt becomes the baseline of the comparison.     *)
ReadActive(o) ==
    /\ actor[o].phase = "reading"
    /\ \E v \in Active :
          actor' = [actor EXCEPT ![o].phase = "mutating", ![o].base = v]
    /\ UNCHANGED <<tables, process, clock, interrupted, restarts>>

(* The baseline was benchmarked, the variants are generated, the clock read. *)
Mutate(o) ==
    /\ actor[o].phase = "mutating"
    /\ clock < MaxOptimisations
    /\ clock' = clock + 1
    /\ \E n \in 1 .. MaxVariants :
          actor' = [actor EXCEPT ![o].phase = "saving", ![o].count = n,
                                 ![o].serial = clock + 1,
                                 ![o].tag = Timestamp(clock + 1)]
    /\ UNCHANGED <<tables, process, interrupted, restarts>>

(* The next variant was benchmarked; save_prompt_version stores it.          *)
SaveCandidate(o) ==
    LET i == actor[o].saved + 1
        v == <<actor[o].tag, i>> IN
    /\ actor[o].phase = "saving"
    /\ i <= actor[o].count
    /\ prompts' = [prompts EXCEPT ![v] =
                      Upserted(@, <<actor[o].serial, i>>, actor[o].base)]
    /\ actor' = [actor EXCEPT ![o].saved = i]
    /\ UNCHANGED <<results, process, clock, interrupted, restarts>>

(* Mutant: the rejected candidates keep their status.                        *)
JudgedSelectedOnly(own, S) ==
    [v \in Versions |->
        IF v \in S THEN [prompts[v] EXCEPT !.status = "selected"] ELSE prompts[v]]

(* Mutant: every candidate is judged, not only those of the optimisation.    *)
JudgedAll(own, S) ==
    [v \in Versions |->
        IF prompts[v].status # "candidate"
        THEN prompts[v]
        ELSE [prompts[v] EXCEPT !.status =
                 IF v \in S THEN "selected" ELSE "rejected"]]

(* mark_candidate_selection over the versions of one optimisation.           *)
Judged(own, S) ==
    [v \in Versions |->
        IF v \notin own \/ prompts[v].status \in {"absent", "baseline"}
        THEN prompts[v]
        ELSE [prompts[v] EXCEPT !.status =
                 IF v \in S THEN "selected" ELSE "rejected"]]

(* Some candidates pass the guardrails and the frontier.                     *)
MarkSelection(o) ==
    /\ actor[o].phase = "saving"
    /\ actor[o].saved = actor[o].count
    /\ \E S \in SUBSET Own(o) :
          /\ prompts' = Judged(Own(o), S)
          /\ actor' = [actor EXCEPT ![o].phase = "selected", ![o].selected = S]
    /\ UNCHANGED <<results, process, clock, interrupted, restarts>>

(* Mutant: a result is stored only for an optimisation that selected all.    *)
SaveResultOfSuccess(o) ==
    /\ actor[o].phase = "selected"
    /\ results' = IF actor[o].selected = Own(o)
                  THEN results \cup {[serial |-> actor[o].serial, base |-> actor[o].base,
                                      candidates |-> Own(o), selected |-> actor[o].selected]}
                  ELSE results
    /\ actor' = [actor EXCEPT ![o] = Idle]
    /\ UNCHANGED <<prompts, process, clock, interrupted, restarts>>

SaveResult(o) ==
    /\ actor[o].phase = "selected"
    /\ results' = results \cup {[serial |-> actor[o].serial, base |-> actor[o].base,
                                 candidates |-> Own(o), selected |-> actor[o].selected]}
    /\ actor' = [actor EXCEPT ![o] = Idle]
    /\ UNCHANGED <<prompts, process, clock, interrupted, restarts>>

(* The serial numbers of those in A that have selected but stored no result. *)
Between(A) == {actor[a].serial : a \in {b \in A : actor[b].phase = "selected"}}

(* A provider call, a database call or the validation of an answer raises,   *)
(* and the job is marked failed (OptimisationJobs).                          *)
Raise(o) ==
    /\ actor[o].phase # "idle"
    /\ interrupted' = interrupted \cup Between({o})
    /\ actor' = [actor EXCEPT ![o] = Idle]
    /\ UNCHANGED <<tables, process, clock, restarts>>

-----------------------------------------------------------------------------
(* An administrator activates a version: one write transaction clears the    *)
(* flag of every version and sets one.  A version that is unknown or not     *)
(* approved is refused and changes nothing.                                  *)
Activate(v) ==
    /\ process = "up"
    /\ Activatable(v)
    /\ prompts' = [u \in Versions |-> [prompts[u] EXCEPT !.active = (u = v)]]
    /\ UNCHANGED <<results, process, actor, clock, interrupted, restarts>>

(* The process starts; nothing is served before the seed is done.            *)
Startup ==
    /\ process = "down"
    /\ process' = "seeding"
    /\ actor' = [actor EXCEPT ![Lifespan] = [Idle EXCEPT !.phase = "seed"]]
    /\ UNCHANGED <<tables, clock, interrupted, restarts>>

(* The process is killed, or the lifespan raises.                            *)
Kill ==
    /\ process # "down"
    /\ restarts < MaxRestarts
    /\ restarts' = restarts + 1
    /\ process' = "down"
    /\ interrupted' = interrupted \cup Between(Actors)
    /\ actor' = [a \in Actors |-> Idle]
    /\ UNCHANGED <<tables, clock>>

-----------------------------------------------------------------------------
Seed(a) == SeedInsert(a) \/ SeedFindsActive(a) \/ SeedActivates(a)

Optimise(o) ==
    \/ Begin(o)
    \/ ReadActive(o)
    \/ Mutate(o)
    \/ SaveCandidate(o)
    \/ MarkSelection(o)
    \/ SaveResult(o)
    \/ Raise(o)

Next ==
    \/ \E a \in Actors : Seed(a)
    \/ \E o \in Optimisers : Optimise(o)
    \/ \E v \in Versions : Activate(v)
    \/ Startup
    \/ Kill

Spec == Init /\ [][Next]_vars

-----------------------------------------------------------------------------
(* Properties.                                                               *)

Prompt == [status : {"absent", "baseline", "candidate", "selected", "rejected"},
           active : BOOLEAN, text : Versions, parent : Versions]

ActorState == [phase : {"idle", "seed", "seeded", "unseeded", "reading", "mutating",
                        "saving", "selected"},
               serial : 0 .. MaxOptimisations, base : Versions,
               tag : 0 .. MaxOptimisations, count : 0 .. MaxVariants,
               saved : 0 .. MaxVariants, selected : SUBSET Versions]

Result == [serial : 1 .. MaxOptimisations, base : Versions,
           candidates : SUBSET Versions, selected : SUBSET Versions]

(* Every variable keeps the shape the code gives it.                         *)
TypeOK ==
    /\ prompts \in [Versions -> Prompt]
    /\ results \in SUBSET Result
    /\ process \in {"down", "seeding", "up"}
    /\ actor \in [Actors -> ActorState]
    /\ clock \in 0 .. MaxOptimisations
    /\ interrupted \in SUBSET (1 .. MaxOptimisations)
    /\ restarts \in 0 .. MaxRestarts

(* While the process serves requests exactly one version is active, so       *)
(* get_prompt always finds its row, and at no time are there two: through    *)
(* activations, a kill between the two halves of the seed, and the seeds of  *)
(* optimisations beside activations (prompt_store.py:31-43, 245-256).        *)
OneActivePrompt ==
    /\ \A u, v \in Active : u = v
    /\ process = "up" => Active # {}

(* The version that agents run with is the baseline or was selected by an    *)
(* optimisation, whatever is saved and judged beside it (README.md:112).     *)
ActiveIsApproved == \A v \in Active : prompts[v].status \in Approved

(* Every candidate refines an older version that was approved, so every      *)
(* lineage ends at the baseline, although the active version may change      *)
(* while its optimisation runs (gepa_loop.py:71, 141).                       *)
LineageIsApproved ==
    \A v \in Stored \ {Baseline} :
        LET parent == prompts[v].parent IN
        prompts[parent].status \in Approved /\ parent[1] < v[1]

(* A stored result tells what the table says: its candidates are there, each *)
(* with the text its own optimisation generated, the parent the result       *)
(* compared it with and the verdict the result lists (gepa_loop.py:164-220). *)
ResultsMatchPrompts ==
    \A r \in results : \A v \in r.candidates :
        /\ prompts[v].text[1] = r.serial
        /\ prompts[v].parent = r.base
        /\ prompts[v].status = IF v \in r.selected THEN "selected" ELSE "rejected"

(* A version that may be activated has a result that explains its selection, *)
(* unless its optimisation is just about to store it or was interrupted      *)
(* between the two transactions (gepa_loop.py:164, 213).                     *)
SelectionIsExplained ==
    \A v \in Versions : prompts[v].status = "selected" =>
        \/ \E r \in results : v \in r.selected
        \/ prompts[v].text[1] \in Between(Optimisers) \cup interrupted

(* A verdict is final, and so is the text it was given for: no other         *)
(* optimisation, seed or activation revises a version that was judged        *)
(* (the upsert of prompt_store.py:76-84 and the updates of 198-216 would).   *)
VerdictIsFinal ==
    [][\A v \in Versions :
          prompts[v].status \in {"baseline", "selected", "rejected"} =>
             /\ prompts'[v].status = prompts[v].status
             /\ prompts'[v].text = prompts[v].text]_vars

(* The table and the stored results implement the registry: whatever threads *)
(* and kills do, a version is proposed once, as a refinement of an approved  *)
(* one, and judged once, with others that refine the same; what is reported  *)
(* is what was judged; and one approved version is active at a time.         *)
Registry == INSTANCE PromptRegistry WITH
                status  <- [v \in Versions |-> prompts[v].status],
                text    <- [v \in Versions |-> prompts[v].text],
                parent  <- [v \in Versions |-> prompts[v].parent],
                active  <- Active,
                reports <- {[base |-> r.base, candidates |-> r.candidates,
                             selected |-> r.selected] : r \in results}
ImplementsRegistry == Registry!RSpec
=============================================================================
