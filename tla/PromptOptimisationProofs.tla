---------------------- MODULE PromptOptimisationProofs ----------------------
(***************************************************************************)
(* What the table of prompt versions promises, for any number of executor   *)
(* threads, variants, optimisations and kills.  The upsert, the judgement   *)
(* and the activation look at one row each; what they may do to a row that  *)
(* was judged, activated or refined by others follows only from what every  *)
(* optimisation under way knows of its own rows.                            *)
(***************************************************************************)
EXTENDS PromptOptimisation, TLAPS

Working(o) == actor[o].phase \in {"saving", "selected"}

(* The baseline is stored as such, and before a seed looks for a version.    *)
BaselineOK ==
    /\ prompts[Baseline].status \in {"absent", "baseline"}
    /\ \A a \in Actors : actor[a].phase \in {"seeded", "unseeded"} =>
          prompts[Baseline].status = "baseline"

(* Executor threads optimise while the process is up, the lifespan seeds     *)
(* before that.                                                              *)
PhasesOK ==
    /\ \A o \in Optimisers : actor[o].phase # "idle" => process = "up"
    /\ actor[Lifespan].phase \in {"idle", "seed", "seeded", "unseeded"}
    /\ actor[Lifespan].phase # "idle" => process = "seeding"

(* A row has the text its name stands for, and names come from the clock.    *)
NamesOK == \A v \in Stored : prompts[v].text = v /\ v[1] <= clock

(* The version that an optimisation read stays approved.                     *)
BaseApproved(o) ==
    /\ actor[o].phase = "mutating" =>
          prompts[actor[o].base].status \in Approved /\ actor[o].base[1] <= clock
    /\ Working(o) =>
          prompts[actor[o].base].status \in Approved /\ actor[o].base[1] < actor[o].serial

BaseOK == \A o \in Optimisers : BaseApproved(o)

(* How far an optimisation is with its variants.                             *)
CountsOK ==
    \A o \in Optimisers :
        IF Working(o)
        THEN /\ actor[o].serial \in 1 .. clock /\ actor[o].tag = actor[o].serial
             /\ actor[o].count # 0 /\ actor[o].saved <= actor[o].count
             /\ actor[o].phase = "selected" => actor[o].saved = actor[o].count
        ELSE actor[o].saved = 0

(* No two optimisations under way name their versions alike.                 *)
TagsDiffer ==
    \A o, p \in Optimisers :
        Working(o) /\ Working(p) /\ actor[o].serial = actor[p].serial => o = p

(* What an optimisation knows of a version of its own: it has saved so many, *)
(* and nobody but itself has judged them.                                    *)
OwnVersion(o, v) ==
    IF v[2] <= actor[o].saved
    THEN /\ prompts[v].parent = actor[o].base
         /\ prompts[v].status = IF actor[o].phase = "saving" THEN "candidate"
                                ELSE IF v \in actor[o].selected THEN "selected" ELSE "rejected"
    ELSE prompts[v].status = "absent"

OwnRows ==
    \A o \in Optimisers : Working(o) =>
        \A v \in Candidates : v[1] = actor[o].serial => OwnVersion(o, v)

(* An optimisation selects versions of its own.                              *)
SelectedOK ==
    \A o \in Optimisers : actor[o].phase = "selected" => actor[o].selected \subseteq Own(o)

Inv1 == TypeOK /\ BaselineOK /\ PhasesOK /\ NamesOK
Inv2 == BaseOK /\ CountsOK /\ TagsDiffer /\ OwnRows /\ SelectedOK

IInv ==
    /\ Inv1 /\ Inv2
    /\ OneActivePrompt /\ ActiveIsApproved /\ LineageIsApproved
    /\ ResultsMatchPrompts /\ SelectionIsExplained

-----------------------------------------------------------------------------
(* Versions are pairs, and the baseline is the only one of the serial 0.     *)
LEMMA VersionFacts ==
    /\ Baseline \in Versions /\ Baseline[1] = 0 /\ Baseline \notin Candidates
    /\ Candidates \subseteq Versions /\ \A v \in Versions : v # Baseline => v \in Candidates
    /\ \A v \in Candidates : v[1] \in 1 .. MaxOptimisations /\ v[2] \in 1 .. MaxVariants
    /\ \A v \in Versions : v[1] \in 0 .. MaxOptimisations
    /\ \A u, v \in Candidates : u[1] = v[1] /\ u[2] = v[2] => u = v
    /\ \A s \in 1 .. MaxOptimisations, i \in 1 .. MaxVariants :
          <<s, i>> \in Candidates /\ <<s, i>>[1] = s /\ <<s, i>>[2] = i
BY PromptsAssumption DEF Baseline, Versions, Candidates

LEMMA ActorFacts ==
    Lifespan \in Actors /\ Optimisers \subseteq Actors /\ Lifespan \notin Optimisers
BY PromptsAssumption DEF Actors

(* The versions of one optimisation.                                         *)
LEMMA OwnFacts ==
    ASSUME TypeOK, CountsOK, NEW o \in Optimisers, Working(o)
    PROVE  /\ Own(o) \subseteq Candidates
           /\ \A v \in Candidates :
                 v \in Own(o) <=> v[1] = actor[o].serial /\ v[2] <= actor[o].count
<1>1. /\ actor[o].tag = actor[o].serial /\ actor[o].serial \in 1 .. MaxOptimisations
      /\ actor[o].count \in 1 .. MaxVariants
  BY ActorFacts, PromptsAssumption DEF TypeOK, ActorState, CountsOK
<1>2. ASSUME NEW i \in 1 .. actor[o].count
      PROVE  /\ i \in 1 .. MaxVariants
             /\ <<actor[o].tag, i>> \in Candidates
             /\ <<actor[o].tag, i>>[1] = actor[o].serial /\ <<actor[o].tag, i>>[2] = i
  BY <1>1, <1>2, VersionFacts, PromptsAssumption
<1>3. ASSUME NEW v \in Candidates, v[1] = actor[o].serial, v[2] <= actor[o].count
      PROVE  v \in Own(o)
  <2>1. v[2] \in 1 .. actor[o].count
    BY <1>1, <1>3, VersionFacts, PromptsAssumption
  <2>2. /\ <<actor[o].tag, v[2]>> \in Candidates
        /\ <<actor[o].tag, v[2]>>[1] = v[1] /\ <<actor[o].tag, v[2]>>[2] = v[2]
    BY <1>2, <1>3, <2>1
  <2>3. v = <<actor[o].tag, v[2]>>
    BY <2>2, VersionFacts, Zenon
  <2> QED
    BY <2>1, <2>3 DEF Own
<1> QED
  BY <1>2, <1>3 DEF Own

-----------------------------------------------------------------------------
THEOREM InitIInv == Init => IInv
<1> SUFFICES ASSUME Init PROVE IInv
  OBVIOUS
<1> USE VersionFacts, ActorFacts, PromptsAssumption DEF Init
<1>1. NoPrompt \in Prompt /\ Idle \in ActorState
  BY DEF NoPrompt, Prompt, Idle, ActorState
<1>2. TypeOK
  BY <1>1 DEF TypeOK
<1>3. \A v \in Versions : prompts[v].status = "absent" /\ ~prompts[v].active
  BY DEF NoPrompt
<1>4. \A a \in Actors : actor[a].phase = "idle" /\ actor[a].saved = 0
  BY DEF Idle
<1>5. Inv1 /\ Inv2
  BY <1>2, <1>3, <1>4 DEF Inv1, Inv2, BaselineOK, PhasesOK, NamesOK, Stored, BaseOK, BaseApproved,
     CountsOK, TagsDiffer, OwnRows, SelectedOK, Working
<1>6. OneActivePrompt /\ ActiveIsApproved /\ LineageIsApproved
  BY <1>3 DEF OneActivePrompt, ActiveIsApproved, LineageIsApproved, Active, Stored
<1>7. ResultsMatchPrompts /\ SelectionIsExplained
  BY <1>3 DEF ResultsMatchPrompts, SelectionIsExplained
<1> QED
  BY <1>5, <1>6, <1>7 DEF IInv

-----------------------------------------------------------------------------
LEMMA MutatedType ==
    ASSUME NEW r \in ActorState, NEW n \in 0 .. MaxVariants,
           NEW s \in 0 .. MaxOptimisations, NEW t \in 0 .. MaxOptimisations
    PROVE  [r EXCEPT !.phase = "saving", !.count = n, !.serial = s, !.tag = t] \in ActorState
BY DEF ActorState

LEMMA BaseType ==
    ASSUME NEW r \in ActorState, NEW v \in Versions
    PROVE  [r EXCEPT !.phase = "mutating", !.base = v] \in ActorState
BY DEF ActorState

LEMMA SavedType ==
    ASSUME NEW r \in ActorState, NEW n \in 0 .. MaxVariants
    PROVE  [r EXCEPT !.saved = n] \in ActorState
BY DEF ActorState

LEMMA FlagType ==
    ASSUME NEW row \in Prompt, NEW b \in BOOLEAN
    PROVE  [row EXCEPT !.active = b] \in Prompt /\ [row EXCEPT !.active = b].active = b
<1>1. [row EXCEPT !.active = b] \in Prompt
  BY DEF Prompt
<1>2. "active" \in DOMAIN row
  BY DEF Prompt
<1> QED
  BY <1>1, <1>2, Zenon

LEMMA TypeStep == TypeOK /\ PhasesOK /\ CountsOK /\ [Next]_vars => TypeOK'
<1> SUFFICES ASSUME TypeOK, PhasesOK, CountsOK, [Next]_vars PROVE TypeOK'
  OBVIOUS
<1> USE VersionFacts, ActorFacts, PromptsAssumption
<1>0. NoPrompt \in Prompt /\ Idle \in ActorState
  BY DEF NoPrompt, Prompt, Idle, ActorState
<1>1. ASSUME NEW a \in Actors, SeedInsert(a) PROVE TypeOK'
  <2>1. prompts' \in [Versions -> Prompt]
    BY <1>1 DEF TypeOK, SeedInsert, NewPrompt, Prompt
  <2>2. actor' \in [Actors -> ActorState]
    BY <1>1 DEF TypeOK, SeedInsert, ActorState
  <2> QED
    BY <1>1, <2>1, <2>2 DEF TypeOK, SeedInsert
<1>2. ASSUME NEW a \in Actors, AfterSeed(a)
      PROVE  actor' \in [Actors -> ActorState] /\ process' \in {"down", "seeding", "up"}
  BY <1>0, <1>2 DEF TypeOK, AfterSeed, ActorState
<1>3. ASSUME NEW a \in Actors, SeedFindsActive(a) PROVE TypeOK'
  <2>1. actor' \in [Actors -> ActorState] /\ process' \in {"down", "seeding", "up"}
    BY <1>2, <1>3 DEF SeedFindsActive, TypeOK, ActorState
  <2> QED
    BY <1>3, <2>1 DEF TypeOK, SeedFindsActive, tables
<1>4. ASSUME NEW a \in Actors, SeedActivates(a) PROVE TypeOK'
  <2>1. prompts' \in [Versions -> Prompt]
    <3>1. [prompts[Baseline] EXCEPT !.active = TRUE] \in Prompt
      BY FlagType DEF TypeOK
    <3>2. prompts' = [prompts EXCEPT ![Baseline] = [prompts[Baseline] EXCEPT !.active = TRUE]]
      BY <1>4 DEF SeedActivates, TypeOK
    <3> QED
      BY <3>1, <3>2 DEF TypeOK
  <2>2. actor' \in [Actors -> ActorState] /\ process' \in {"down", "seeding", "up"}
    BY <1>2, <1>4 DEF SeedActivates
  <2> QED
    BY <1>4, <2>1, <2>2 DEF TypeOK, SeedActivates
<1>5. ASSUME NEW o \in Optimisers, Begin(o) PROVE TypeOK'
  <2>1. [Idle EXCEPT !.phase = "seed"] \in ActorState
    BY <1>0 DEF ActorState
  <2> QED
    BY <1>5, <2>1 DEF TypeOK, Begin, tables
<1>6. ASSUME NEW o \in Optimisers, ReadActive(o) PROVE TypeOK'
  <2>1. actor' \in [Actors -> ActorState]
    <3>1. PICK v \in Active :
             actor' = [actor EXCEPT ![o].phase = "mutating", ![o].base = v]
      BY <1>6, Zenon DEF ReadActive
    <3> DEFINE r == [actor[o] EXCEPT !.phase = "mutating", !.base = v]
    <3>2. r \in ActorState
      BY BaseType DEF TypeOK, Active
    <3>3. actor' = [actor EXCEPT ![o] = r]
      BY <3>1, Zenon DEF TypeOK
    <3> QED
      BY <3>2, <3>3 DEF TypeOK
  <2> QED
    BY <1>6, <2>1 DEF TypeOK, ReadActive, tables
<1>7. ASSUME NEW o \in Optimisers, Mutate(o) PROVE TypeOK'
  <2>1. clock' \in 0 .. MaxOptimisations /\ clock + 1 \in 0 .. MaxOptimisations
    BY <1>7 DEF TypeOK, Mutate
  <2>2. \A n \in 1 .. MaxVariants : n \in 0 .. MaxVariants
    OBVIOUS
  <2>3. PICK n \in 1 .. MaxVariants :
           actor' = [actor EXCEPT ![o].phase = "saving", ![o].count = n,
                                  ![o].serial = clock + 1,
                                  ![o].tag = Timestamp(clock + 1)]
    BY <1>7 DEF Mutate
  <2>4. Timestamp(clock + 1) = clock + 1 /\ n \in 0 .. MaxVariants
    BY <2>2 DEF Timestamp
  <2>5. actor' \in [Actors -> ActorState]
    <3> DEFINE r == [actor[o] EXCEPT !.phase = "saving", !.count = n,
                                     !.serial = clock + 1, !.tag = Timestamp(clock + 1)]
    <3>1. r \in ActorState
      BY <2>1, <2>4, MutatedType DEF TypeOK
    <3>2. actor' = [actor EXCEPT ![o] = r]
      BY <2>3, Zenon DEF TypeOK
    <3> QED
      BY <3>1, <3>2 DEF TypeOK
  <2> QED
    BY <1>7, <2>1, <2>5 DEF TypeOK, Mutate, tables
<1>8. ASSUME NEW o \in Optimisers, SaveCandidate(o) PROVE TypeOK'
  <2> DEFINE i == actor[o].saved + 1
  <2>1. i \in 1 .. MaxVariants /\ i \in 0 .. MaxVariants
    BY <1>8 DEF SaveCandidate, TypeOK, ActorState
  <2>2. actor[o].serial \in 1 .. MaxOptimisations
    BY <1>8 DEF SaveCandidate, TypeOK, CountsOK, Working
  <2>3. <<actor[o].serial, i>> \in Versions /\ actor[o].base \in Versions
    BY <2>1, <2>2 DEF TypeOK, ActorState
  <2>4. ASSUME NEW row \in Prompt
        PROVE  Upserted(row, <<actor[o].serial, i>>, actor[o].base) \in Prompt
    BY <2>3 DEF Upserted, NewPrompt, Prompt
  <2>5. prompts' \in [Versions -> Prompt]
    BY <1>8, <2>4 DEF TypeOK, SaveCandidate
  <2>6. actor' \in [Actors -> ActorState]
    <3>1. actor' = [actor EXCEPT ![o] = [actor[o] EXCEPT !.saved = i]]
      BY <1>8 DEF SaveCandidate, TypeOK
    <3>2. [actor[o] EXCEPT !.saved = i] \in ActorState
      BY <2>1, SavedType DEF TypeOK
    <3> QED
      BY <3>1, <3>2 DEF TypeOK
  <2> QED
    BY <1>8, <2>5, <2>6 DEF TypeOK, SaveCandidate
<1>9. ASSUME NEW o \in Optimisers, MarkSelection(o) PROVE TypeOK'
  <2>1. PICK S \in SUBSET Own(o) :
           /\ prompts' = Judged(Own(o), S)
           /\ actor' = [actor EXCEPT ![o].phase = "selected", ![o].selected = S]
    BY <1>9 DEF MarkSelection
  <2>2. Working(o)
    BY <1>9 DEF MarkSelection, Working
  <2>3. S \in SUBSET Versions
    BY <2>2, OwnFacts
  <2>4. prompts' \in [Versions -> Prompt]
    BY <2>1 DEF TypeOK, Judged, Prompt
  <2>5. actor' \in [Actors -> ActorState]
    BY <2>1, <2>3 DEF TypeOK, ActorState
  <2> QED
    BY <1>9, <2>4, <2>5 DEF TypeOK, MarkSelection
<1>10. ASSUME NEW o \in Optimisers, SaveResult(o) PROVE TypeOK'
  <2>1. Working(o)
    BY <1>10 DEF SaveResult, Working
  <2>2. Own(o) \in SUBSET Versions /\ actor[o].serial \in 1 .. MaxOptimisations
    BY <2>1, OwnFacts DEF CountsOK, TypeOK
  <2>3. actor[o].base \in Versions /\ actor[o].selected \in SUBSET Versions
    BY DEF TypeOK, ActorState
  <2>4. [serial |-> actor[o].serial, base |-> actor[o].base,
         candidates |-> Own(o), selected |-> actor[o].selected] \in Result
    BY <2>2, <2>3 DEF Result
  <2> QED
    BY <1>0, <1>10, <2>4 DEF TypeOK, SaveResult
<1>11. ASSUME NEW A \in SUBSET Actors PROVE Between(A) \subseteq 1 .. MaxOptimisations
  BY DEF Between, CountsOK, Working, PhasesOK, Actors, TypeOK
<1>12. ASSUME NEW o \in Optimisers, Raise(o) PROVE TypeOK'
  <2>1. Between({o}) \subseteq 1 .. MaxOptimisations
    BY <1>11
  <2> QED
    BY <1>0, <1>12, <2>1 DEF TypeOK, Raise, tables
<1>13. ASSUME NEW v \in Versions, Activate(v) PROVE TypeOK'
  <2>1. ASSUME NEW u \in Versions PROVE [prompts[u] EXCEPT !.active = (u = v)] \in Prompt
    BY FlagType DEF TypeOK
  <2>2. prompts' \in [Versions -> Prompt]
    BY <1>13, <2>1 DEF Activate
  <2> QED
    BY <1>13, <2>2 DEF TypeOK, Activate
<1>14. CASE Startup
  <2>1. [Idle EXCEPT !.phase = "seed"] \in ActorState
    BY <1>0 DEF ActorState
  <2> QED
    BY <1>14, <2>1 DEF TypeOK, Startup, tables
<1>15. CASE Kill
  <2>1. actor' \in [Actors -> ActorState] /\ restarts' \in 0 .. MaxRestarts
    BY <1>0, <1>15 DEF TypeOK, Kill
  <2>2. interrupted' \in SUBSET (1 .. MaxOptimisations)
    BY <1>11, <1>15 DEF TypeOK, Kill
  <2> QED
    BY <1>15, <2>1, <2>2 DEF TypeOK, Kill, tables
<1>16. CASE UNCHANGED vars
  BY <1>16 DEF vars, tables, TypeOK
<1> QED
  BY <1>1, <1>3, <1>4, <1>5, <1>6, <1>7, <1>8, <1>9, <1>10, <1>12, <1>13, <1>14, <1>15,
     <1>16 DEF Next, Seed, Optimise

-----------------------------------------------------------------------------
(* What a step does to the rows of the table.                                *)
Same(v) ==
    /\ prompts'[v].status = prompts[v].status
    /\ prompts'[v].text = prompts[v].text
    /\ prompts'[v].parent = prompts[v].parent

LEMMA SeedRows ==
    ASSUME IInv, NEW a \in Actors, SeedInsert(a)
    PROVE  /\ \A v \in Versions : v # Baseline => prompts'[v] = prompts[v]
           /\ prompts'[Baseline].status = "baseline" /\ prompts'[Baseline].text = Baseline
           /\ prompts'[Baseline].active = prompts[Baseline].active
<1> USE VersionFacts DEF IInv, Inv1, TypeOK, SeedInsert
<1>1. \A v \in Versions : v # Baseline => prompts'[v] = prompts[v]
  OBVIOUS
<1>2. CASE prompts[Baseline].status = "absent"
  <2>1. prompts'[Baseline] = NewPrompt("baseline", Baseline, Baseline)
    BY <1>2
  <2>2. ~prompts[Baseline].active
    BY <1>2 DEF ActiveIsApproved, Active, Approved
  <2>3. prompts[Baseline].active = FALSE
    <3>1. prompts[Baseline].active \in BOOLEAN
      BY DEF Prompt
    <3> QED
      BY <2>2, <3>1, Zenon
  <2>4. /\ prompts'[Baseline].status = "baseline" /\ prompts'[Baseline].text = Baseline
        /\ prompts'[Baseline].active = FALSE
    BY <2>1 DEF NewPrompt
  <2> QED
    BY <1>1, <2>3, <2>4, Zenon
<1>3. CASE prompts[Baseline].status # "absent"
  <2>1. prompts'[Baseline] = prompts[Baseline]
    BY <1>3
  <2> QED
    BY <1>1, <1>3, <2>1 DEF BaselineOK, NamesOK, Stored
<1> QED
  BY <1>2, <1>3

LEMMA FlagRows ==
    ASSUME TypeOK, \/ \E a \in Actors : SeedActivates(a)
                   \/ \E v \in Versions : Activate(v)
    PROVE  \A v \in Versions : Same(v)
<1>1. ASSUME NEW a \in Actors, SeedActivates(a), NEW v \in Versions PROVE Same(v)
  <2>1. CASE v = Baseline
    BY <1>1, <2>1 DEF SeedActivates, TypeOK, Prompt, Same
  <2>2. CASE v # Baseline
    BY <1>1, <2>2 DEF SeedActivates, TypeOK, Prompt, Same
  <2> QED
    BY <2>1, <2>2
<1>2. ASSUME NEW u \in Versions, Activate(u), NEW v \in Versions PROVE Same(v)
  <2>1. prompts'[v] = [prompts[v] EXCEPT !.active = (v = u)]
    BY <1>2 DEF Activate
  <2> QED
    BY <2>1 DEF TypeOK, Prompt, Same
<1> QED
  BY <1>1, <1>2

Inserts(o, v) ==
    /\ v[1] = actor[o].serial /\ v[2] = actor[o].saved + 1
    /\ prompts[v].status = "absent" /\ prompts'[v].status = "candidate"
    /\ prompts'[v].text = v /\ prompts'[v].parent = actor[o].base
    /\ prompts'[v].active = FALSE
    /\ \A u \in Versions : u # v => prompts'[u] = prompts[u]

LEMMA SaveRows ==
    ASSUME IInv, NEW o \in Optimisers, SaveCandidate(o)
    PROVE  \E v \in Candidates : Inserts(o, v)
<1> USE VersionFacts, ActorFacts, PromptsAssumption DEF IInv, Inv1, Inv2
<1> DEFINE v == <<actor[o].serial, actor[o].saved + 1>>
<1>1. /\ Working(o) /\ actor[o].tag = actor[o].serial
      /\ actor[o].serial \in 1 .. MaxOptimisations
      /\ actor[o].saved + 1 \in 1 .. MaxVariants /\ actor[o].saved \in Nat
  BY DEF SaveCandidate, CountsOK, Working, TypeOK, ActorState
<1>2. v \in Candidates /\ v[1] = actor[o].serial /\ v[2] = actor[o].saved + 1
  BY <1>1
<1> HIDE DEF v
<1>3. prompts[v].status = "absent"
  BY <1>1, <1>2 DEF OwnRows, OwnVersion
<1>4. prompts' = [prompts EXCEPT ![v] = Upserted(@, v, actor[o].base)]
  BY <1>1 DEF SaveCandidate, v
<1>5. prompts'[v] = NewPrompt("candidate", v, actor[o].base)
  BY <1>2, <1>3, <1>4 DEF Upserted, TypeOK
<1>6. \A u \in Versions : u # v => prompts'[u] = prompts[u]
  BY <1>4 DEF TypeOK
<1> QED
  BY <1>2, <1>3, <1>5, <1>6 DEF NewPrompt, Inserts

Judges(o, S) ==
    /\ actor' = [actor EXCEPT ![o].phase = "selected", ![o].selected = S]
    /\ \A v \in Own(o) : prompts[v].status = "candidate"
    /\ \A v \in Versions \ Own(o) : prompts'[v] = prompts[v]
    /\ \A v \in Own(o) :
          /\ prompts'[v].status = IF v \in S THEN "selected" ELSE "rejected"
          /\ prompts'[v].text = prompts[v].text
          /\ prompts'[v].parent = prompts[v].parent
          /\ prompts'[v].active = prompts[v].active

LEMMA MarkRows ==
    ASSUME IInv, NEW o \in Optimisers, MarkSelection(o)
    PROVE  \E S \in SUBSET Own(o) : Judges(o, S)
<1> USE VersionFacts, ActorFacts DEF IInv, Inv1, Inv2
<1>1. Working(o) /\ actor[o].phase = "saving" /\ actor[o].saved = actor[o].count
  BY DEF MarkSelection, Working
<1>2. PICK S \in SUBSET Own(o) :
         /\ prompts' = Judged(Own(o), S)
         /\ actor' = [actor EXCEPT ![o].phase = "selected", ![o].selected = S]
  BY DEF MarkSelection
<1>3. ASSUME NEW v \in Own(o) PROVE v \in Versions /\ prompts[v].status = "candidate"
  <2>1. v \in Candidates /\ v[1] = actor[o].serial /\ v[2] <= actor[o].saved
    BY <1>1, OwnFacts
  <2> QED
    BY <1>1, <2>1 DEF OwnRows, OwnVersion
<1>4. ASSUME NEW v \in Versions \ Own(o) PROVE prompts'[v] = prompts[v]
  BY <1>2 DEF Judged
<1>5. ASSUME NEW v \in Own(o)
      PROVE  /\ prompts'[v].status = IF v \in S THEN "selected" ELSE "rejected"
             /\ prompts'[v].text = prompts[v].text
             /\ prompts'[v].parent = prompts[v].parent
             /\ prompts'[v].active = prompts[v].active
  <2>1. prompts'[v] = [prompts[v] EXCEPT !.status = IF v \in S THEN "selected" ELSE "rejected"]
    BY <1>2, <1>3 DEF Judged
  <2>2. prompts[v] \in Prompt
    BY <1>3 DEF TypeOK
  <2> QED
    BY <2>1, <2>2 DEF Prompt
<1> QED
  BY <1>2, <1>3, <1>4, <1>5 DEF Judges

(* All other steps leave the table alone.                                    *)
QuietStep ==
    \/ \E a \in Actors : SeedFindsActive(a)
    \/ \E o \in Optimisers : Begin(o) \/ ReadActive(o) \/ Mutate(o) \/ SaveResult(o) \/ Raise(o)
    \/ Startup \/ Kill \/ UNCHANGED vars

LEMMA QuietRows == QuietStep => prompts' = prompts
BY DEF QuietStep, SeedFindsActive, Begin, ReadActive, Mutate, SaveResult, Raise, Startup,
   Kill, vars, tables

LEMMA Steps ==
    [Next]_vars <=>
        \/ QuietStep
        \/ \E a \in Actors : SeedInsert(a) \/ SeedActivates(a)
        \/ \E o \in Optimisers : SaveCandidate(o) \/ MarkSelection(o)
        \/ \E v \in Versions : Activate(v)
BY DEF QuietStep, Next, Seed, Optimise

(* A row that is the baseline or was judged keeps what it says.              *)
LEMMA JudgedKept ==
    ASSUME IInv, [Next]_vars, NEW v \in Versions,
           prompts[v].status \in {"baseline", "selected", "rejected"}
    PROVE  Same(v)
<1>1. CASE QuietStep
  BY <1>1, QuietRows DEF Same
<1>2. ASSUME NEW a \in Actors, SeedInsert(a) PROVE Same(v)
  <2>1. CASE v # Baseline
    BY <1>2, <2>1, SeedRows DEF Same
  <2>2. CASE v = Baseline
    BY <1>2, <2>2 DEF IInv, Inv1, TypeOK, SeedInsert, Same
  <2> QED
    BY <2>1, <2>2
<1>3. ASSUME NEW o \in Optimisers, SaveCandidate(o) PROVE Same(v)
  BY <1>3, SaveRows DEF Same, Inserts
<1>4. ASSUME NEW o \in Optimisers, MarkSelection(o) PROVE Same(v)
  BY <1>4, MarkRows DEF Same, Judges
<1> QED
  BY <1>1, <1>2, <1>3, <1>4, Steps, FlagRows DEF IInv, Inv1

-----------------------------------------------------------------------------
LEMMA ClockStep == TypeOK /\ [Next]_vars => clock' = clock \/ clock' = clock + 1
<1> SUFFICES ASSUME TypeOK, [Next]_vars PROVE clock' = clock \/ clock' = clock + 1
  OBVIOUS
<1>1. ASSUME NEW o \in Optimisers, Mutate(o) PROVE clock' = clock + 1
  BY <1>1 DEF Mutate
<1>2. CASE ~\E o \in Optimisers : Mutate(o)
  <2>1. clock' = clock
    BY <1>2, Zenon DEF Next, vars, tables, Seed, Optimise, SeedInsert, SeedFindsActive,
       SeedActivates, Begin, ReadActive, SaveCandidate, MarkSelection, SaveResult, Raise,
       Activate, Startup, Kill
  <2> QED
    BY <2>1
<1> QED
  BY <1>1, <1>2

(* What a step does to the optimisation that takes it.                       *)
OthersKept(o) == \A a \in Actors : a # o => actor'[a] = actor[a]

LEMMA ReadStep ==
    ASSUME TypeOK, NEW o \in Optimisers, ReadActive(o)
    PROVE  /\ OthersKept(o) /\ actor'[o].phase = "mutating"
           /\ actor'[o].base \in Active /\ actor'[o].saved = actor[o].saved
BY ActorFacts DEF ReadActive, TypeOK, ActorState, OthersKept

LEMMA MutateStep ==
    ASSUME TypeOK, NEW o \in Optimisers, Mutate(o)
    PROVE  /\ OthersKept(o) /\ actor'[o].phase = "saving"
           /\ actor'[o].base = actor[o].base /\ actor'[o].saved = actor[o].saved
           /\ actor'[o].serial = clock + 1 /\ actor'[o].tag = clock + 1
           /\ actor'[o].count \in 1 .. MaxVariants
<1>1. PICK n \in 1 .. MaxVariants :
         actor' = [actor EXCEPT ![o].phase = "saving", ![o].count = n,
                                ![o].serial = clock + 1, ![o].tag = Timestamp(clock + 1)]
  BY DEF Mutate
<1> DEFINE r == [actor[o] EXCEPT !.phase = "saving", !.count = n,
                                 !.serial = clock + 1, !.tag = Timestamp(clock + 1)]
<1>2. actor' = [actor EXCEPT ![o] = r]
  BY <1>1, ActorFacts, Zenon DEF TypeOK
<1>3. actor'[o] = r /\ OthersKept(o)
  BY <1>2, ActorFacts DEF TypeOK, OthersKept
<1>4. /\ r.phase = "saving" /\ r.base = actor[o].base /\ r.saved = actor[o].saved
      /\ r.serial = Timestamp(clock + 1) /\ r.tag = Timestamp(clock + 1) /\ r.count = n
  BY ActorFacts DEF TypeOK, ActorState, Timestamp
<1> QED
  BY <1>3, <1>4 DEF Timestamp

LEMMA SaveStep ==
    ASSUME TypeOK, NEW o \in Optimisers, SaveCandidate(o)
    PROVE  /\ OthersKept(o) /\ actor[o].phase = "saving" /\ actor'[o].phase = "saving"
           /\ actor'[o].saved = actor[o].saved + 1 /\ actor'[o].saved <= actor[o].count
           /\ actor'[o].serial = actor[o].serial /\ actor'[o].tag = actor[o].tag
           /\ actor'[o].count = actor[o].count /\ actor'[o].base = actor[o].base
BY ActorFacts DEF SaveCandidate, TypeOK, ActorState, OthersKept

LEMMA MarkStep ==
    ASSUME TypeOK, NEW o \in Optimisers, NEW S,
           actor' = [actor EXCEPT ![o].phase = "selected", ![o].selected = S]
    PROVE  /\ OthersKept(o) /\ actor'[o].phase = "selected" /\ actor'[o].selected = S
           /\ actor'[o].saved = actor[o].saved /\ actor'[o].base = actor[o].base
           /\ actor'[o].serial = actor[o].serial /\ actor'[o].tag = actor[o].tag
           /\ actor'[o].count = actor[o].count
BY ActorFacts DEF TypeOK, ActorState, OthersKept

(* In every other step, whoever refines or saves does what it did before.    *)
Refining(o) == actor[o].phase = "mutating" \/ Working(o)

StartsOver(o) == actor'[o].saved = 0 \/ (~Working(o) /\ actor'[o].saved = actor[o].saved)

LEMMA OtherSteps ==
    ASSUME TypeOK, [Next]_vars, NEW o \in Optimisers, actor'[o] # actor[o],
           ~ReadActive(o), ~Mutate(o), ~SaveCandidate(o), ~MarkSelection(o)
    PROVE  ~Refining(o)' /\ StartsOver(o)
<1>1. ASSUME NEW a \in Actors, Seed(a)
      PROVE  ~Refining(o)' /\ StartsOver(o)
  <2>1. CASE SeedInsert(a)
    BY <2>1, ActorFacts DEF SeedInsert, TypeOK, ActorState, Refining, Working, StartsOver
  <2>2. ASSUME AfterSeed(a), actor[a].phase \in {"seeded", "unseeded"}
        PROVE  ~Refining(o)' /\ StartsOver(o)
    BY <2>2, ActorFacts DEF AfterSeed, TypeOK, ActorState, Refining, Working, StartsOver
  <2>3. CASE SeedFindsActive(a)
    BY <2>2, <2>3, ActorFacts DEF SeedFindsActive, TypeOK, ActorState, Refining,
       Working, StartsOver
  <2>4. CASE SeedActivates(a)
    BY <2>2, <2>4 DEF SeedActivates
  <2> QED
    BY <1>1, <2>1, <2>3, <2>4 DEF Seed
<1>2. ASSUME NEW p \in Optimisers, Optimise(p)
      PROVE  ~Refining(o)' /\ StartsOver(o)
  <2>1. CASE Begin(p) \/ SaveResult(p) \/ Raise(p)
    BY <2>1, ActorFacts DEF Begin, SaveResult, Raise, TypeOK, ActorState, Idle,
       Refining, Working, StartsOver
  <2>2. CASE p = o
    BY <1>2, <2>1, <2>2 DEF Optimise
  <2>3. CASE p # o
    <3>1. ~OthersKept(p)
      BY <2>3, ActorFacts DEF OthersKept
    <3>2. CASE MarkSelection(p)
      BY <3>1, <3>2, MarkStep DEF MarkSelection
    <3> QED
      BY <1>2, <2>1, <3>1, <3>2, ReadStep, MutateStep, SaveStep DEF Optimise
  <2> QED
    BY <2>2, <2>3
<1>3. CASE Startup \/ Kill
  BY <1>3, ActorFacts DEF Startup, Kill, TypeOK, ActorState, Idle, Refining, Working,
     StartsOver
<1>4. CASE UNCHANGED vars \/ \E v \in Versions : Activate(v)
  BY <1>4 DEF vars, Activate
<1> QED
  BY <1>1, <1>2, <1>3, <1>4 DEF Next

(* The rows that are stored and what they are named after a step.            *)
LEMMA NamesStep == IInv /\ [Next]_vars => BaselineOK' /\ NamesOK'
<1> SUFFICES ASSUME IInv, [Next]_vars PROVE BaselineOK' /\ NamesOK'
  OBVIOUS
<1> USE VersionFacts, ActorFacts DEF IInv, Inv1, Inv2
<1>1. \A v \in Versions : v[1] <= clock => v[1] <= clock'
  BY ClockStep DEF TypeOK
<1>2. NamesOK'
  <2> SUFFICES ASSUME NEW v \in Versions, prompts'[v].status # "absent"
               PROVE  prompts'[v].text = v /\ v[1] <= clock'
    BY DEF NamesOK, Stored
  <2>1. CASE Same(v)
    BY <1>1, <2>1 DEF Same, NamesOK, Stored
  <2>2. ASSUME NEW a \in Actors, SeedInsert(a)
        PROVE  prompts'[v].text = v /\ v[1] <= clock'
    <3>1. CASE v = Baseline
      <4>1. prompts'[Baseline].text = Baseline
        BY <2>2, SeedRows
      <4>2. 0 <= clock'
        BY ClockStep DEF TypeOK
      <4> QED
        BY <3>1, <4>1, <4>2
    <3>2. CASE v # Baseline
      BY <2>1, <2>2, <3>2, SeedRows DEF Same
    <3> QED
      BY <3>1, <3>2
  <2>3. ASSUME NEW o \in Optimisers, SaveCandidate(o)
        PROVE  prompts'[v].text = v /\ v[1] <= clock'
    <3>1. actor[o].serial <= clock
      BY <2>3 DEF SaveCandidate, CountsOK, Working, TypeOK
    <3>2. PICK u \in Candidates : Inserts(o, u)
      BY <2>3, SaveRows
    <3>3. CASE v = u
      BY <1>1, <3>1, <3>2, <3>3 DEF Inserts
    <3>4. CASE v # u
      BY <2>1, <3>2, <3>4 DEF Same, Inserts
    <3> QED
      BY <3>3, <3>4
  <2>4. ASSUME NEW o \in Optimisers, MarkSelection(o)
        PROVE  prompts'[v].text = v /\ v[1] <= clock'
    <3>1. prompts'[v].text = prompts[v].text /\ prompts[v].status # "absent"
      BY <2>4, MarkRows DEF Judges
    <3> QED
      BY <1>1, <3>1 DEF NamesOK, Stored
  <2> QED
    BY <2>1, <2>2, <2>3, <2>4, Steps, FlagRows, QuietRows DEF Same
<1>3. prompts'[Baseline].status \in {"absent", "baseline"}
  <2>1. CASE Same(Baseline)
    BY <2>1 DEF Same, BaselineOK
  <2>2. ASSUME NEW o \in Optimisers, MarkSelection(o) PROVE Same(Baseline)
    <3>1. Working(o)
      BY <2>2 DEF MarkSelection, Working
    <3>2. Baseline \notin Own(o)
      BY <3>1, OwnFacts
    <3> QED
      BY <2>2, <3>2, MarkRows DEF Same, Judges
  <2>3. ASSUME NEW o \in Optimisers, SaveCandidate(o) PROVE Same(Baseline)
    BY <2>3, SaveRows DEF Same, Inserts
  <2> QED
    BY <2>1, <2>2, <2>3, Steps, SeedRows, FlagRows, QuietRows DEF Same
<1>4. ASSUME NEW b \in Actors, actor'[b].phase \in {"seeded", "unseeded"}
      PROVE  prompts'[Baseline].status = "baseline"
  <2>1. ASSUME NEW a \in Actors, SeedInsert(a)
        PROVE  prompts'[Baseline].status = "baseline"
    BY <2>1, SeedRows
  <2>2. CASE ~\E a \in Actors : SeedInsert(a)
    <3>1. actor[b].phase \in {"seeded", "unseeded"}
      <4>1. ASSUME NEW a \in Actors, AfterSeed(a), actor[a].phase \in {"seeded", "unseeded"}
            PROVE  actor[b].phase \in {"seeded", "unseeded"}
        BY <1>4, <4>1 DEF AfterSeed, TypeOK, ActorState, Idle
      <4>2. ASSUME NEW a \in Actors, SeedFindsActive(a) \/ SeedActivates(a)
            PROVE  actor[b].phase \in {"seeded", "unseeded"}
        BY <1>4, <4>1, <4>2 DEF SeedFindsActive, SeedActivates, TypeOK, ActorState
      <4>3. ASSUME NEW o \in Optimisers, Optimise(o)
            PROVE  actor[b].phase \in {"seeded", "unseeded"}
        <5>1. CASE Begin(o) \/ SaveResult(o) \/ Raise(o)
          BY <1>4, <5>1 DEF Begin, SaveResult, Raise, TypeOK, ActorState, Idle
        <5>2. CASE ReadActive(o) \/ Mutate(o)
          BY <1>4, <5>2, ReadStep, MutateStep DEF OthersKept
        <5>3. CASE SaveCandidate(o)
          BY <1>4, <5>3, SaveStep DEF OthersKept
        <5>4. CASE MarkSelection(o)
          <6>1. PICK S : actor' = [actor EXCEPT ![o].phase = "selected", ![o].selected = S]
            BY <5>4 DEF MarkSelection
          <6>2. OthersKept(o) /\ actor'[o].phase = "selected"
            BY <6>1, MarkStep
          <6> QED
            BY <1>4, <6>2 DEF OthersKept
        <5> QED
          BY <4>3, <5>1, <5>2, <5>3, <5>4 DEF Optimise
      <4>4. CASE Startup \/ Kill \/ UNCHANGED vars \/ \E v \in Versions : Activate(v)
        BY <1>4, <4>4 DEF Startup, Kill, vars, Activate, TypeOK, ActorState, Idle
      <4> QED
        BY <2>2, <4>2, <4>3, <4>4 DEF Next, Seed
    <3> QED
      BY <3>1, JudgedKept DEF BaselineOK, Same
  <2> QED
    BY <2>1, <2>2
<1> QED
  BY <1>2, <1>3, <1>4 DEF BaselineOK

LEMMA PhasesStep == IInv /\ [Next]_vars => PhasesOK'
<1> SUFFICES ASSUME IInv, [Next]_vars PROVE PhasesOK'
  OBVIOUS
<1> USE ActorFacts DEF IInv, Inv1, PhasesOK
<1>1. ASSUME NEW a \in Actors, actor[a].phase # "idle", AfterSeed(a) PROVE PhasesOK'
  <2>1. CASE a = Lifespan
    BY <1>1, <2>1 DEF AfterSeed, TypeOK, Idle
  <2>2. CASE a # Lifespan
    <3>1. a \in Optimisers /\ process = "up"
      BY <1>1, <2>2 DEF Actors
    <3> QED
      BY <1>1, <2>2, <3>1 DEF AfterSeed, TypeOK, ActorState
  <2> QED
    BY <2>1, <2>2
<1>2. ASSUME NEW a \in Actors, SeedInsert(a) PROVE PhasesOK'
  BY <1>2 DEF SeedInsert, TypeOK, ActorState, Actors
<1>3. ASSUME NEW a \in Actors, SeedFindsActive(a) PROVE PhasesOK'
  <2>1. CASE Active # {}
    BY <1>1, <1>3, <2>1 DEF SeedFindsActive
  <2>2. CASE Active = {}
    BY <1>3, <2>2 DEF SeedFindsActive, TypeOK, ActorState, Actors
  <2> QED
    BY <2>1, <2>2
<1>4. ASSUME NEW a \in Actors, SeedActivates(a) PROVE PhasesOK'
  BY <1>1, <1>4 DEF SeedActivates
<1>5. ASSUME NEW o \in Optimisers, Optimise(o) PROVE PhasesOK'
  <2>1. process' = process /\ OthersKept(o)
    <3>1. CASE Begin(o) \/ SaveResult(o) \/ Raise(o)
      BY <3>1 DEF Begin, SaveResult, Raise, TypeOK, OthersKept
    <3>2. CASE MarkSelection(o)
      BY <3>2, MarkStep DEF MarkSelection
    <3> QED
      BY <1>5, <3>1, <3>2, ReadStep, MutateStep, SaveStep DEF Optimise, ReadActive, Mutate,
         SaveCandidate
  <2>2. process = "up"
    BY <1>5 DEF Optimise, Begin, ReadActive, Mutate, SaveCandidate, MarkSelection,
       SaveResult, Raise
  <2> QED
    BY <2>1, <2>2 DEF OthersKept
<1>6. CASE Startup
  BY <1>6 DEF Startup, TypeOK, ActorState, Idle
<1>7. CASE Kill
  BY <1>7 DEF Kill, TypeOK, Idle
<1>8. CASE UNCHANGED vars \/ \E v \in Versions : Activate(v)
  BY <1>8 DEF vars, Activate
<1> QED
  BY <1>2, <1>3, <1>4, <1>5, <1>6, <1>7, <1>8 DEF Next, Seed

LEMMA BaseStep == IInv /\ [Next]_vars => BaseOK'
<1> SUFFICES ASSUME IInv, [Next]_vars, NEW o \in Optimisers
             PROVE  BaseApproved(o)'
  BY DEF BaseOK
<1> USE VersionFacts, ActorFacts DEF IInv, Inv1, Inv2
<1>1. ASSUME NEW v \in Versions, prompts[v].status \in Approved
      PROVE  prompts'[v].status \in Approved
  BY <1>1, JudgedKept DEF Approved, Same
<1>2. actor[o].base \in Versions /\ clock \in Nat /\ clock <= clock'
  BY ClockStep DEF TypeOK, ActorState
<1>3. \A v \in Versions : v[1] \in Nat
  BY PromptsAssumption
<1>4. CASE actor'[o] = actor[o]
  BY <1>1, <1>2, <1>3, <1>4, ClockStep DEF BaseOK, BaseApproved, Working, TypeOK
<1>5. CASE ReadActive(o)
  <2>1. PICK v \in Active : actor'[o].base = v /\ actor'[o].phase = "mutating"
    BY <1>5, ReadStep
  <2>2. v \in Versions /\ prompts[v].status \in Approved
    BY <2>1 DEF Active, ActiveIsApproved
  <2>3. v[1] <= clock
    BY <2>2 DEF NamesOK, Stored, Approved
  <2> QED
    BY <1>1, <1>2, <1>3, <2>1, <2>2, <2>3, ClockStep DEF BaseApproved, Working, TypeOK
<1>6. CASE Mutate(o)
  <2>1. prompts[actor[o].base].status \in Approved /\ actor[o].base[1] <= clock
    BY <1>6 DEF BaseOK, BaseApproved, Mutate
  <2>2. /\ actor'[o].phase = "saving" /\ actor'[o].base = actor[o].base
        /\ actor'[o].serial = clock + 1
    BY <1>6, MutateStep
  <2>3. actor[o].base[1] < clock + 1
    BY <1>2, <1>3, <2>1
  <2> QED
    BY <1>1, <1>2, <2>1, <2>2, <2>3 DEF BaseApproved
<1>7. CASE SaveCandidate(o)
  BY <1>1, <1>2, <1>7, SaveStep DEF BaseOK, BaseApproved, Working
<1>8. CASE MarkSelection(o)
  <2>1. /\ actor[o].phase = "saving" /\ actor'[o].phase = "selected"
        /\ actor'[o].base = actor[o].base /\ actor'[o].serial = actor[o].serial
    BY <1>8, MarkStep DEF MarkSelection
  <2> QED
    BY <1>1, <1>2, <2>1 DEF BaseOK, BaseApproved, Working
<1> QED
  BY <1>4, <1>5, <1>6, <1>7, <1>8, OtherSteps DEF BaseApproved, Refining

(* What was named stays named until the optimisation ends.                   *)
LEMMA NamedKept ==
    ASSUME IInv, [Next]_vars, NEW o \in Optimisers, Working(o)', ~Mutate(o)
    PROVE  /\ Working(o)
           /\ actor'[o].serial = actor[o].serial /\ actor'[o].tag = actor[o].tag
           /\ actor'[o].count = actor[o].count /\ actor'[o].base = actor[o].base
<1> USE DEF IInv, Inv1, Working
<1>1. CASE actor'[o] = actor[o]
  BY <1>1
<1>2. CASE ReadActive(o)
  BY <1>2, ReadStep
<1>3. CASE SaveCandidate(o)
  BY <1>3, SaveStep
<1>4. CASE MarkSelection(o)
  BY <1>4, MarkStep DEF MarkSelection
<1> QED
  BY <1>1, <1>2, <1>3, <1>4, OtherSteps DEF Refining

LEMMA CountsStep == IInv /\ [Next]_vars => CountsOK'
<1> SUFFICES ASSUME IInv, [Next]_vars, NEW o \in Optimisers
             PROVE  IF Working(o)'
                    THEN /\ actor'[o].serial \in 1 .. clock' /\ actor'[o].tag = actor'[o].serial
                         /\ actor'[o].count # 0 /\ actor'[o].saved <= actor'[o].count
                         /\ actor'[o].phase = "selected" => actor'[o].saved = actor'[o].count
                    ELSE actor'[o].saved = 0
  BY DEF CountsOK
<1> USE ActorFacts DEF IInv, Inv1, Inv2
<1>1. clock \in Nat /\ clock \in 0 .. clock' /\ clock' \in Nat
  BY ClockStep DEF TypeOK
<1>2. CASE actor'[o] = actor[o]
  BY <1>1, <1>2 DEF CountsOK, Working
<1>3. CASE ReadActive(o)
  BY <1>3, ReadStep DEF CountsOK, Working, ReadActive
<1>4. CASE Mutate(o)
  <2>1. clock' = clock + 1 /\ actor[o].saved = 0
    BY <1>4 DEF Mutate, CountsOK, Working
  <2> QED
    BY <1>1, <1>4, <2>1, MutateStep, PromptsAssumption DEF Working
<1>5. CASE SaveCandidate(o)
  BY <1>1, <1>5, SaveStep DEF CountsOK, Working
<1>6. CASE MarkSelection(o)
  <2>1. Working(o) /\ actor[o].saved = actor[o].count
    BY <1>6 DEF MarkSelection, Working
  <2>2. PICK S : actor' = [actor EXCEPT ![o].phase = "selected", ![o].selected = S]
    BY <1>6 DEF MarkSelection
  <2>3. /\ actor'[o].phase = "selected" /\ actor'[o].saved = actor[o].saved
        /\ actor'[o].serial = actor[o].serial /\ actor'[o].tag = actor[o].tag
        /\ actor'[o].count = actor[o].count
    BY <2>2, MarkStep
  <2> QED
    BY <1>1, <2>1, <2>3 DEF CountsOK, Working
<1>7. CASE ~Refining(o)' /\ StartsOver(o)
  BY <1>7 DEF Refining, StartsOver, CountsOK
<1> QED
  BY <1>2, <1>3, <1>4, <1>5, <1>6, <1>7, OtherSteps

LEMMA SelectedStep == IInv /\ [Next]_vars => SelectedOK'
<1> SUFFICES ASSUME IInv, [Next]_vars, NEW o \in Optimisers, actor'[o].phase = "selected"
             PROVE  actor'[o].selected \subseteq Own(o)'
  BY DEF SelectedOK
<1> USE ActorFacts DEF IInv, Inv1, Inv2
<1>1. CASE actor'[o] = actor[o]
  BY <1>1 DEF SelectedOK, Own
<1>2. CASE MarkSelection(o)
  <2>1. PICK S \in SUBSET Own(o) :
           actor' = [actor EXCEPT ![o].phase = "selected", ![o].selected = S]
    BY <1>2 DEF MarkSelection
  <2>2. /\ actor'[o].selected = S /\ actor'[o].tag = actor[o].tag
        /\ actor'[o].count = actor[o].count
    BY <2>1, MarkStep
  <2> QED
    BY <2>2 DEF Own
<1> QED
  BY <1>1, <1>2, OtherSteps, ReadStep, MutateStep, SaveStep DEF Refining, Working

LEMMA TagsStep == IInv /\ [Next]_vars => TagsDiffer'
<1> SUFFICES ASSUME IInv, [Next]_vars, NEW o \in Optimisers, NEW p \in Optimisers,
                    Working(o)', Working(p)', actor'[o].serial = actor'[p].serial
             PROVE  o = p
  BY DEF TagsDiffer
<1> USE ActorFacts DEF IInv, Inv1, Inv2
<1>1. ASSUME NEW q \in Optimisers, NEW r \in Optimisers, Mutate(q), q # r, Working(r)'
      PROVE  actor'[q].serial # actor'[r].serial
  <2>1. actor'[r] = actor[r] /\ actor'[q].serial = clock + 1
    BY <1>1, MutateStep DEF OthersKept
  <2>2. actor[r].serial \in 1 .. clock /\ clock \in Nat
    BY <1>1, <2>1 DEF CountsOK, Working, TypeOK
  <2> QED
    BY <2>1, <2>2
<1>2. CASE ~Mutate(o) /\ ~Mutate(p)
  BY <1>2, NamedKept DEF TagsDiffer
<1> QED
  BY <1>1, <1>2

LEMMA OwnRowsStep == IInv /\ [Next]_vars => OwnRows'
<1> SUFFICES ASSUME IInv, [Next]_vars, NEW o \in Optimisers, Working(o)',
                    NEW v \in Candidates, v[1] = actor'[o].serial
             PROVE  OwnVersion(o, v)'
  BY DEF OwnRows
<1> USE VersionFacts, ActorFacts, PromptsAssumption DEF IInv, Inv1, Inv2
<1>1. CASE Mutate(o)
  <2>1. prompts'[v].status = "absent"
    <3>1. ~(v[1] <= clock)
      BY <1>1, MutateStep DEF TypeOK
    <3> QED
      BY <1>1, <3>1 DEF NamesOK, Stored, Mutate, tables
  <2>2. actor'[o].saved = 0
    BY <1>1, MutateStep DEF CountsOK, Working, Mutate
  <2> QED
    BY <2>1, <2>2 DEF OwnVersion
<1>2. ASSUME ~Mutate(o)
      PROVE  /\ Working(o) /\ v[1] = actor[o].serial /\ OwnVersion(o, v)
             /\ actor'[o].base = actor[o].base /\ actor'[o].count = actor[o].count
  BY <1>2, NamedKept DEF OwnRows
<1>3. CASE SaveCandidate(o)
  <2>1. ~Mutate(o)
    BY <1>3 DEF SaveCandidate, Mutate
  <2>2. PICK u \in Candidates : Inserts(o, u)
    BY <1>3, SaveRows
  <2>3. actor'[o].saved = actor[o].saved + 1 /\ actor[o].saved \in Nat /\ v[2] \in Nat
    BY <1>3, SaveStep DEF TypeOK, ActorState
  <2>4. actor[o].phase = "saving" /\ actor'[o].phase = "saving"
    BY <1>3, SaveStep
  <2>5. CASE v = u
    BY <1>2, <2>1, <2>2, <2>3, <2>4, <2>5 DEF OwnVersion, Inserts
  <2>6. CASE v # u
    <3>1. v[2] # actor[o].saved + 1
      BY <1>2, <2>1, <2>2, <2>6 DEF Inserts
    <3>2. v[2] <= actor'[o].saved <=> v[2] <= actor[o].saved
      BY <2>3, <3>1
    <3> QED
      BY <1>2, <2>1, <2>2, <2>4, <2>6, <3>2 DEF OwnVersion, Inserts
  <2> QED
    BY <2>5, <2>6
<1>4. CASE MarkSelection(o)
  <2>1. ~Mutate(o) /\ actor[o].phase = "saving" /\ actor[o].saved = actor[o].count
    BY <1>4 DEF MarkSelection, Mutate
  <2>2. PICK S \in SUBSET Own(o) : Judges(o, S)
    BY <1>4, MarkRows
  <2>3. /\ actor'[o].phase = "selected" /\ actor'[o].selected = S
        /\ actor'[o].saved = actor[o].saved
    <3>1. actor' = [actor EXCEPT ![o].phase = "selected", ![o].selected = S]
      BY <2>2 DEF Judges
    <3> QED
      BY <3>1, MarkStep
  <2>4. v \in Own(o) <=> v[2] <= actor[o].saved
    BY <1>2, <2>1, OwnFacts
  <2> QED
    BY <1>2, <2>1, <2>2, <2>3, <2>4 DEF OwnVersion, Judges
<1>5. CASE actor'[o] = actor[o]
  <2>1. ~Mutate(o)
    BY <1>5, MutateStep DEF Mutate
  <2>2. Same(v)
    <3>1. ASSUME NEW p \in Optimisers, SaveCandidate(p) PROVE Same(v)
      <4>1. p # o /\ Working(p)
        BY <1>5, <3>1, SaveStep DEF Working, TypeOK, ActorState
      <4>2. actor[p].serial # v[1]
        BY <1>2, <2>1, <4>1 DEF TagsDiffer
      <4> QED
        <5>1. PICK u \in Candidates : Inserts(p, u)
          BY <3>1, SaveRows
        <5> QED
          BY <4>2, <5>1 DEF Same, Inserts
    <3>2. ASSUME NEW p \in Optimisers, MarkSelection(p) PROVE Same(v)
      <4>1. p # o /\ Working(p)
        BY <1>5, <3>2, MarkStep DEF Working, MarkSelection
      <4>2. actor[p].serial # v[1]
        BY <1>2, <2>1, <4>1 DEF TagsDiffer
      <4>3. v \notin Own(p)
        BY <4>1, <4>2, OwnFacts
      <4> QED
        BY <3>2, <4>3, MarkRows DEF Same, Judges
    <3> QED
      BY <3>1, <3>2, Steps, SeedRows, FlagRows, QuietRows DEF Same
  <2> QED
    BY <1>2, <1>5, <2>1, <2>2 DEF OwnVersion, Same
<1> QED
  BY <1>1, <1>2, <1>3, <1>4, <1>5, OtherSteps, ReadStep DEF Refining, Working

-----------------------------------------------------------------------------
(* The flags stay, or an activation or a seed moves them to one version.     *)
LEMMA ActiveRows ==
    ASSUME IInv, [Next]_vars
    PROVE  \/ Active' = Active
           \/ \E v \in Versions : Active' = {v} /\ prompts[v].status \in Approved
<1> USE VersionFacts DEF IInv, Inv1, TypeOK
<1>1. ASSUME \A v \in Versions : prompts'[v].active = prompts[v].active
      PROVE  Active' = Active
  BY <1>1 DEF Active
<1>2. CASE QuietStep
  BY <1>1, <1>2, QuietRows
<1>3. ASSUME NEW a \in Actors, SeedInsert(a) PROVE Active' = Active
  BY <1>1, <1>3, SeedRows
<1>4. ASSUME NEW a \in Actors, SeedActivates(a)
      PROVE  Active' = {Baseline} /\ prompts[Baseline].status \in Approved
  <2>1. prompts[Baseline].status = "baseline"
    BY <1>4 DEF SeedActivates, BaselineOK
  <2>2. \A v \in Versions : ~prompts[v].active
    BY <1>4 DEF SeedActivates, Active
  <2>3. prompts'[Baseline].active
    BY <1>4 DEF SeedActivates, Prompt
  <2>4. \A v \in Versions : v # Baseline => prompts'[v] = prompts[v]
    BY <1>4 DEF SeedActivates
  <2> QED
    BY <2>1, <2>2, <2>3, <2>4 DEF Active, Approved
<1>5. ASSUME NEW o \in Optimisers, SaveCandidate(o) PROVE Active' = Active
  <2>1. PICK v \in Candidates : Inserts(o, v)
    BY <1>5, SaveRows
  <2>2. v \notin Active
    BY <2>1 DEF ActiveIsApproved, Approved, Inserts
  <2> QED
    BY <2>1, <2>2 DEF Active, Inserts
<1>6. ASSUME NEW o \in Optimisers, MarkSelection(o) PROVE Active' = Active
  BY <1>1, <1>6, MarkRows DEF Judges
<1>7. ASSUME NEW v \in Versions, Activate(v)
      PROVE  Active' = {v} /\ prompts[v].status \in Approved
  <2>1. \A u \in Versions : prompts'[u] = [prompts[u] EXCEPT !.active = (u = v)]
    BY <1>7 DEF Activate
  <2>2. ASSUME NEW u \in Versions PROVE prompts'[u].active <=> u = v
    <3>1. [prompts[u] EXCEPT !.active = (u = v)].active = (u = v)
      BY FlagType
    <3> QED
      BY <2>1, <3>1, Zenon
  <2>3. Active' = {v}
    BY <2>2 DEF Active
  <2> QED
    BY <1>7, <2>3 DEF Activate, Activatable
<1> QED
  BY <1>2, <1>3, <1>4, <1>5, <1>6, <1>7, Steps

LEMMA ActiveStep == IInv /\ [Next]_vars => OneActivePrompt' /\ ActiveIsApproved'
<1> SUFFICES ASSUME IInv, [Next]_vars PROVE OneActivePrompt' /\ ActiveIsApproved'
  OBVIOUS
<1> USE DEF IInv, Inv1
<1>1. ActiveIsApproved'
  BY ActiveRows, JudgedKept DEF ActiveIsApproved, Active, Approved, Same
<1>2. \A u, v \in Active' : u = v
  BY ActiveRows DEF OneActivePrompt
<1>3. ASSUME process' = process, process' = "up" PROVE Active' # {}
  <2>1. Active # {}
    BY <1>3 DEF OneActivePrompt
  <2> QED
    BY <2>1, ActiveRows
<1>4. ASSUME process' # process, process' = "up" PROVE Active' # {}
  <2>1. ASSUME NEW a \in Actors, SeedFindsActive(a) PROVE Active' # {}
    <3>1. CASE Active # {}
      BY <3>1, ActiveRows
    <3>2. CASE Active = {}
      BY <1>4, <2>1, <3>2 DEF SeedFindsActive
    <3> QED
      BY <3>1, <3>2
  <2>2. ASSUME NEW a \in Actors, SeedActivates(a) PROVE Active' # {}
    <3>1. prompts'[Baseline].active
      BY <2>2, VersionFacts DEF SeedActivates, TypeOK, Prompt
    <3> QED
      BY <3>1, VersionFacts DEF Active
  <2>3. CASE ~\E a \in Actors : SeedFindsActive(a) \/ SeedActivates(a)
    BY <1>4, <2>3, Zenon DEF Next, Seed, Optimise, SeedInsert, Begin, ReadActive, Mutate,
       SaveCandidate, MarkSelection, SaveResult, Raise, Activate, Startup, Kill, vars
  <2> QED
    BY <2>1, <2>2, <2>3
<1> QED
  BY <1>1, <1>2, <1>3, <1>4 DEF OneActivePrompt

LEMMA LineageStep == IInv /\ [Next]_vars => LineageIsApproved'
<1> SUFFICES ASSUME IInv, [Next]_vars, NEW v \in Versions, v # Baseline,
                    prompts'[v].status # "absent"
             PROVE  /\ prompts'[prompts'[v].parent].status \in Approved
                    /\ prompts'[v].parent[1] < v[1]
  BY DEF LineageIsApproved, Stored
<1> USE VersionFacts, ActorFacts DEF IInv, Inv1, Inv2
<1>1. ASSUME NEW u \in Versions, prompts[u].status \in Approved
      PROVE  prompts'[u].status \in Approved
  BY <1>1, JudgedKept DEF Approved, Same
<1>2. prompts[v].parent \in Versions
  BY DEF TypeOK, Prompt
<1>3. CASE prompts'[v].parent = prompts[v].parent /\ prompts[v].status # "absent"
  BY <1>1, <1>2, <1>3 DEF LineageIsApproved, Stored
<1>4. ASSUME NEW o \in Optimisers, SaveCandidate(o),
             prompts'[v].parent = actor[o].base, v[1] = actor[o].serial
      PROVE  /\ prompts'[prompts'[v].parent].status \in Approved
             /\ prompts'[v].parent[1] < v[1]
  <2>1. Working(o) /\ actor[o].base \in Versions
    BY <1>4 DEF SaveCandidate, Working, TypeOK, ActorState
  <2>2. prompts[actor[o].base].status \in Approved /\ actor[o].base[1] < actor[o].serial
    BY <2>1 DEF BaseOK, BaseApproved
  <2> QED
    BY <1>1, <1>4, <2>1, <2>2
<1>5. ASSUME NEW o \in Optimisers, MarkSelection(o)
      PROVE  prompts'[v].parent = prompts[v].parent /\ prompts[v].status # "absent"
  <2>1. CASE v \in Own(o)
    BY <1>5, <2>1, MarkRows DEF Judges
  <2>2. CASE v \notin Own(o)
    <3>1. prompts'[v] = prompts[v]
      BY <1>5, <2>2, MarkRows DEF Judges
    <3> QED
      BY <3>1 DEF Stored
  <2> QED
    BY <2>1, <2>2
<1>6. ASSUME NEW o \in Optimisers, SaveCandidate(o)
      PROVE  \/ prompts'[v].parent = prompts[v].parent /\ prompts[v].status # "absent"
             \/ prompts'[v].parent = actor[o].base /\ v[1] = actor[o].serial
  <2>1. PICK w \in Candidates : Inserts(o, w)
    BY <1>6, SaveRows
  <2>2. CASE v = w
    BY <2>1, <2>2 DEF Inserts
  <2>3. CASE v # w
    BY <2>1, <2>3 DEF Inserts, Stored
  <2> QED
    BY <2>2, <2>3
<1> QED
  BY <1>3, <1>4, <1>5, <1>6, Steps, SeedRows, FlagRows, QuietRows DEF Same

(* A stored result stays true, and a new one is.                             *)
LEMMA ResultsStep == IInv /\ [Next]_vars => ResultsMatchPrompts'
<1> SUFFICES ASSUME IInv, [Next]_vars, NEW r \in results', NEW v \in r.candidates
             PROVE  /\ prompts'[v].text[1] = r.serial /\ prompts'[v].parent = r.base
                    /\ prompts'[v].status = IF v \in r.selected THEN "selected" ELSE "rejected"
  BY DEF ResultsMatchPrompts
<1> USE VersionFacts, ActorFacts DEF IInv, Inv1, Inv2
<1>1. CASE r \in results
  <2>1. /\ prompts[v].text[1] = r.serial /\ prompts[v].parent = r.base
        /\ prompts[v].status = IF v \in r.selected THEN "selected" ELSE "rejected"
    BY <1>1 DEF ResultsMatchPrompts
  <2>2. v \in Versions
    BY <1>1 DEF TypeOK, Result
  <2>3. Same(v)
    BY <2>1, <2>2, JudgedKept
  <2> QED
    BY <2>1, <2>3 DEF Same
<1>2. ASSUME NEW o \in Optimisers, SaveResult(o), r \notin results
      PROVE  /\ prompts'[v].text[1] = r.serial /\ prompts'[v].parent = r.base
             /\ prompts'[v].status = IF v \in r.selected THEN "selected" ELSE "rejected"
  <2>1. /\ prompts' = prompts /\ actor[o].phase = "selected" /\ Working(o)
        /\ r = [serial |-> actor[o].serial, base |-> actor[o].base,
                candidates |-> Own(o), selected |-> actor[o].selected]
    BY <1>2 DEF SaveResult, Working
  <2>2. v \in Own(o)
    BY <2>1
  <2>3. v \in Candidates /\ v[1] = actor[o].serial /\ v[2] <= actor[o].saved
    BY <2>1, <2>2, OwnFacts DEF CountsOK
  <2>4. /\ prompts[v].parent = actor[o].base
        /\ prompts[v].status = IF v \in actor[o].selected THEN "selected" ELSE "rejected"
    BY <2>1, <2>3 DEF OwnRows, OwnVersion
  <2>5. prompts[v].text = v
    BY <2>3, <2>4 DEF NamesOK, Stored
  <2> QED
    BY <2>1, <2>3, <2>4, <2>5
<1>3. CASE ~\E o \in Optimisers : SaveResult(o)
  <2>1. results' = results
    BY <1>3, Zenon DEF Next, Seed, Optimise, SeedInsert, SeedFindsActive, SeedActivates, Begin,
       ReadActive, Mutate, SaveCandidate, MarkSelection, Raise, Activate, Startup, Kill,
       vars, tables
  <2> QED
    BY <1>1, <2>1
<1> QED
  BY <1>1, <1>2, <1>3

(* What explains the selection of a version outlives the step.               *)
Explained(v) ==
    \/ \E r \in results : v \in r.selected
    \/ prompts[v].text[1] \in Between(Optimisers) \cup interrupted

LEMMA ExplainedStep == IInv /\ [Next]_vars => SelectionIsExplained'
<1> SUFFICES ASSUME IInv, [Next]_vars, NEW v \in Versions,
                    prompts'[v].status = "selected"
             PROVE  Explained(v)'
  BY DEF SelectionIsExplained, Explained
<1> USE VersionFacts, ActorFacts DEF IInv, Inv1, Inv2
<1>1. results \subseteq results' /\ interrupted \subseteq interrupted'
  BY DEF Next, Seed, Optimise, SeedInsert, SeedFindsActive, SeedActivates, Begin, ReadActive,
     Mutate, SaveCandidate, MarkSelection, SaveResult, Raise, Activate, Startup, Kill, vars,
     tables
<1>2. ASSUME NEW o \in Optimisers, actor'[o].phase = "selected"
      PROVE  actor'[o].serial \in Between(Optimisers)'
  BY <1>2 DEF Between
<1>3. ASSUME NEW o \in Optimisers, MarkSelection(o), v \in Own(o)
      PROVE  Explained(v)'
  <2>1. actor'[o].phase = "selected" /\ actor'[o].serial = actor[o].serial /\ Working(o)
    BY <1>3, MarkStep DEF MarkSelection, Working
  <2>2. v[1] = actor[o].serial
    BY <1>3, <2>1, OwnFacts
  <2>3. prompts'[v].text = v
    BY NamesStep DEF NamesOK, Stored
  <2> QED
    BY <1>2, <2>1, <2>2, <2>3 DEF Explained
<1>4. ASSUME prompts[v].status = "selected" PROVE Explained(v)'
  <2>1. Same(v) /\ Explained(v)
    BY <1>4, JudgedKept DEF SelectionIsExplained, Explained
  <2>2. CASE \E r \in results : v \in r.selected
    BY <1>1, <2>2 DEF Explained
  <2>3. CASE prompts[v].text[1] \in interrupted
    BY <1>1, <2>1, <2>3 DEF Explained, Same
  <2>4. ASSUME NEW o \in Optimisers, actor[o].phase = "selected",
               prompts[v].text[1] = actor[o].serial
        PROVE  Explained(v)'
    <3>1. CASE actor'[o] = actor[o]
      BY <1>2, <2>1, <2>4, <3>1 DEF Explained, Same
    <3>2. CASE SaveResult(o)
      <4>1. v[1] = actor[o].serial /\ v \in Candidates /\ Working(o)
        BY <1>4, <2>4 DEF NamesOK, Stored, CountsOK, Working, TypeOK
      <4>2. v \in actor[o].selected
        BY <1>4, <2>4, <4>1 DEF OwnRows, OwnVersion
      <4>3. [serial |-> actor[o].serial, base |-> actor[o].base,
             candidates |-> Own(o), selected |-> actor[o].selected] \in results'
        BY <3>2 DEF SaveResult
      <4> QED
        BY <4>2, <4>3 DEF Explained
    <3>3. CASE Raise(o)
      <4>1. actor[o].serial \in interrupted'
        BY <2>4, <3>3 DEF Raise, Between
      <4> QED
        BY <2>1, <2>4, <4>1 DEF Explained, Same
    <3>4. CASE Kill
      <4>1. actor[o].serial \in interrupted'
        BY <2>4, <3>4 DEF Kill, Between
      <4> QED
        BY <2>1, <2>4, <4>1 DEF Explained, Same
    <3>5. ASSUME ~SaveResult(o), ~Raise(o), ~Kill PROVE actor'[o] = actor[o]
      <4>1. ASSUME NEW a \in Actors, Seed(a) PROVE actor'[o] = actor[o]
        BY <2>4, <4>1 DEF Seed, SeedInsert, SeedFindsActive, SeedActivates, AfterSeed, TypeOK
      <4>2. ASSUME NEW p \in Optimisers, Optimise(p) PROVE actor'[o] = actor[o]
        <5>1. CASE p # o
          <6>1. CASE Begin(p) \/ SaveResult(p) \/ Raise(p)
            BY <5>1, <6>1 DEF Begin, SaveResult, Raise, TypeOK
          <6>2. CASE MarkSelection(p)
            <7>1. OthersKept(p)
              BY <6>2, MarkStep DEF MarkSelection
            <7> QED
              BY <5>1, <7>1 DEF OthersKept
          <6> QED
            BY <4>2, <5>1, <6>1, <6>2, ReadStep, MutateStep, SaveStep DEF Optimise, OthersKept
        <5>2. CASE p = o
          BY <2>4, <3>5, <4>2, <5>2 DEF Optimise, Begin, ReadActive, Mutate, SaveCandidate,
             MarkSelection
        <5> QED
          BY <5>1, <5>2
      <4>3. CASE Startup \/ UNCHANGED vars \/ \E u \in Versions : Activate(u)
        BY <4>3 DEF Startup, vars, Activate, TypeOK
      <4> QED
        BY <3>5, <4>1, <4>2, <4>3 DEF Next
    <3> QED
      BY <3>1, <3>2, <3>3, <3>4, <3>5
  <2> QED
    BY <2>1, <2>2, <2>3, <2>4 DEF Explained, Between
<1>5. ASSUME NEW o \in Optimisers, MarkSelection(o), v \notin Own(o)
      PROVE  prompts[v].status = "selected"
  BY <1>5, MarkRows DEF Judges
<1>6. ASSUME NEW o \in Optimisers, SaveCandidate(o) PROVE prompts[v].status = "selected"
  BY <1>6, SaveRows DEF Inserts
<1> QED
  BY <1>3, <1>4, <1>5, <1>6, Steps, SeedRows, FlagRows, QuietRows DEF Same

-----------------------------------------------------------------------------
THEOREM NextIInv == IInv /\ [Next]_vars => IInv'
BY TypeStep, NamesStep, PhasesStep, BaseStep, CountsStep, TagsStep, OwnRowsStep, SelectedStep,
   ActiveStep, LineageStep, ResultsStep, ExplainedStep DEF IInv, Inv1, Inv2

LEMMA Invariance == Spec => []IInv
BY InitIInv, NextIInv, PTL DEF Spec

(* Type correctness: rows, results and actors keep the shape the code gives  *)
(* them, for any number of optimisations, threads and kills.                 *)
THEOREM TypeCorrect == Spec => []TypeOK
<1>1. IInv => TypeOK
  BY DEF IInv, Inv1
<1> QED
  BY <1>1, Invariance, PTL

(* While the process serves exactly one version is active (seed_baselines    *)
(* beside activate_prompt).                                                  *)
THEOREM OneActivePromptAlways == Spec => []OneActivePrompt
<1>1. IInv => OneActivePrompt
  BY DEF IInv
<1> QED
  BY <1>1, Invariance, PTL

(* The active version is the baseline or was selected.                       *)
THEOREM ActiveIsApprovedAlways == Spec => []ActiveIsApproved
<1>1. IInv => ActiveIsApproved
  BY DEF IInv
<1> QED
  BY <1>1, Invariance, PTL

(* Every lineage ends at the baseline, through approved versions.            *)
THEOREM LineageIsApprovedAlways == Spec => []LineageIsApproved
<1>1. IInv => LineageIsApproved
  BY DEF IInv
<1> QED
  BY <1>1, Invariance, PTL

(* Stored results and prompt rows tell the same.                             *)
THEOREM ResultsMatchPromptsAlways == Spec => []ResultsMatchPrompts
<1>1. IInv => ResultsMatchPrompts
  BY DEF IInv
<1> QED
  BY <1>1, Invariance, PTL

(* A selection is explained by a result, or its optimisation was cut off.    *)
THEOREM SelectionIsExplainedAlways == Spec => []SelectionIsExplained
<1>1. IInv => SelectionIsExplained
  BY DEF IInv
<1> QED
  BY <1>1, Invariance, PTL

(* No step revises a version that was judged, although the upsert and the    *)
(* judgement of the code would.                                              *)
THEOREM VerdictIsFinalAlways == Spec => VerdictIsFinal
<1>1. IInv /\ [Next]_vars =>
        [\A v \in Versions :
            prompts[v].status \in {"baseline", "selected", "rejected"} =>
               /\ prompts'[v].status = prompts[v].status
               /\ prompts'[v].text = prompts[v].text]_vars
  BY JudgedKept DEF Same
<1> QED
  BY <1>1, Invariance, PTL DEF Spec, VerdictIsFinal

-----------------------------------------------------------------------------
(* The registry, step by step.                                               *)

(* What a reader of the registry sees of a row and of the stored results.    *)
RowsStay    == \A v \in Versions : Same(v)
ResultsStay == results' = results

(* A step that writes no row and no result moves a flag at most.             *)
LEMMA RegistryFlags ==
    ASSUME IInv, [Next]_vars, RowsStay, ResultsStay
    PROVE  Registry!RNext \/ UNCHANGED Registry!registryVars
<1>1. /\ UNCHANGED [v \in Versions |-> prompts[v].status]
      /\ UNCHANGED [v \in Versions |-> prompts[v].text]
      /\ UNCHANGED [v \in Versions |-> prompts[v].parent]
  BY DEF RowsStay, Same
<1>2. UNCHANGED {[base |-> r.base, candidates |-> r.candidates,
                  selected |-> r.selected] : r \in results}
  BY DEF ResultsStay
<1>3. CASE Active' = Active
  BY <1>1, <1>2, <1>3 DEF Registry!registryVars
<1>4. ASSUME NEW v \in Versions, Active' = {v}, prompts[v].status \in Approved
      PROVE  Registry!MakeActive(v)
  BY <1>1, <1>2, <1>4 DEF Registry!MakeActive, Registry!Approved, Approved
<1> QED
  BY <1>3, <1>4, ActiveRows DEF Registry!RNext

LEMMA RegistryInstalls ==
    ASSUME IInv, NEW a \in Actors, SeedInsert(a)
    PROVE  Registry!Install \/ (RowsStay /\ ResultsStay)
<1>1. /\ \A v \in Versions : v # Baseline => prompts'[v] = prompts[v]
      /\ prompts'[Baseline].active = prompts[Baseline].active
  BY SeedRows
<1>2. \A v \in Versions : prompts'[v].active = prompts[v].active
  BY <1>1
<1>3. Active' = Active /\ results' = results
  BY <1>2 DEF Active, SeedInsert
<1>4. prompts \in [Versions -> Prompt] /\ Baseline \in Versions
  BY VersionFacts DEF IInv, Inv1, TypeOK
<1>5. CASE prompts[Baseline].status = "absent"
  <2>1. prompts'[Baseline] = NewPrompt("baseline", Baseline, Baseline)
    BY <1>4, <1>5 DEF SeedInsert
  <2>2. /\ prompts'[Baseline].status = "baseline" /\ prompts'[Baseline].text = Baseline
        /\ prompts'[Baseline].parent = Baseline
    BY <2>1 DEF NewPrompt
  <2>3. /\ [v \in Versions |-> prompts'[v].status]
              = [[v \in Versions |-> prompts[v].status] EXCEPT ![Baseline] = "baseline"]
        /\ [v \in Versions |-> prompts'[v].text]
              = [[v \in Versions |-> prompts[v].text] EXCEPT ![Baseline] = Baseline]
        /\ [v \in Versions |-> prompts'[v].parent]
              = [[v \in Versions |-> prompts[v].parent] EXCEPT ![Baseline] = Baseline]
    BY <1>1, <2>2
  <2> QED
    BY <1>3, <1>4, <1>5, <2>3 DEF Registry!Install
<1>6. CASE prompts[Baseline].status # "absent"
  <2>1. prompts'[Baseline] = prompts[Baseline]
    BY <1>4, <1>6 DEF SeedInsert
  <2> QED
    BY <1>1, <1>3, <2>1 DEF RowsStay, Same, ResultsStay
<1> QED
  BY <1>5, <1>6

(* An upsert proposes: its row is absent, and what it refines is approved.   *)
LEMMA RegistryProposes ==
    ASSUME IInv, NEW o \in Optimisers, SaveCandidate(o)
    PROVE  \E v, t, p \in Versions : Registry!Propose(v, t, p)
<1> USE VersionFacts, ActorFacts DEF IInv, Inv1, Inv2
<1>1. PICK v \in Candidates : Inserts(o, v)
  BY SaveRows
<1>2. /\ actor[o].base \in Versions /\ prompts[actor[o].base].status \in Approved
  BY DEF SaveCandidate, BaseOK, BaseApproved, Working, TypeOK, ActorState
<1>3. Active' = Active
  <2>1. v \notin Active
    BY <1>1 DEF ActiveIsApproved, Approved, Inserts
  <2> QED
    BY <1>1, <2>1 DEF Active, Inserts
<1>4. results' = results
  BY DEF SaveCandidate
<1>5. PICK p \in Versions : p = actor[o].base
  BY <1>2
<1>6. /\ \A u \in Versions : u # v => prompts'[u] = prompts[u]
      /\ v \in Versions /\ prompts[v].status = "absent" /\ prompts'[v].status = "candidate"
      /\ prompts'[v].text = v /\ prompts'[v].parent = p
  BY <1>1, <1>5 DEF Inserts
<1>7. prompts[p].status \in Approved
  BY <1>2, <1>5
<1>8. Registry!Propose(v, v, p)
  <2>1. [u \in Versions |-> prompts'[u].status]
           = [[u \in Versions |-> prompts[u].status] EXCEPT ![v] = "candidate"]
    BY ONLY <1>6
  <2>2. [u \in Versions |-> prompts'[u].text]
           = [[u \in Versions |-> prompts[u].text] EXCEPT ![v] = v]
    BY ONLY <1>6
  <2>3. [u \in Versions |-> prompts'[u].parent]
           = [[u \in Versions |-> prompts[u].parent] EXCEPT ![v] = p]
    BY ONLY <1>6
  <2> QED
    BY <1>3, <1>4, <1>6, <1>7, <2>1, <2>2, <2>3 DEF Registry!Propose, Registry!Approved, Approved
<1> QED
  BY <1>6, <1>8

(* A judgement judges a whole batch of unjudged versions of one parent.      *)
LEMMA RegistryJudges ==
    ASSUME IInv, NEW o \in Optimisers, MarkSelection(o)
    PROVE  Registry!RNext
<1> USE VersionFacts, ActorFacts DEF IInv, Inv1, Inv2
<1>1. /\ Working(o) /\ actor[o].phase = "saving" /\ actor[o].saved = actor[o].count
      /\ actor[o].base \in Versions /\ actor[o].count \in Nat \ {0}
  BY PromptsAssumption DEF MarkSelection, Working, TypeOK, ActorState, CountsOK
<1>2. Own(o) \subseteq Candidates /\ Own(o) # {}
  <2>1. <<actor[o].tag, 1>> \in Own(o)
    BY <1>1 DEF Own
  <2> QED
    BY <1>1, <2>1, OwnFacts
<1>3. PICK S \in SUBSET Own(o) : Judges(o, S)
  BY MarkRows
<1>4. \A v \in Own(o) : prompts[v].parent = actor[o].base
  BY <1>1, OwnFacts DEF OwnRows, OwnVersion
<1>5. Own(o) \in SUBSET Registry!Judgeable(actor[o].base)
  BY <1>2, <1>3, <1>4 DEF Registry!Judgeable, Judges
<1>6. Active' = Active
  BY <1>3 DEF Active, Judges
<1>7. results' = results
  BY DEF MarkSelection
<1> DEFINE B == Own(o)
<1> HIDE DEF B
<1>8. /\ B # {} /\ B \subseteq Versions
      /\ \A v \in Versions \ B : prompts'[v] = prompts[v]
      /\ \A v \in B : /\ prompts'[v].status = IF v \in S THEN "selected" ELSE "rejected"
                      /\ prompts'[v].text = prompts[v].text
                      /\ prompts'[v].parent = prompts[v].parent
  BY <1>2, <1>3 DEF B, Judges
<1>9. Registry!Judge(B, S)
  BY <1>6, <1>7, <1>8 DEF Registry!Judge
<1> QED
  BY <1>1, <1>3, <1>5, <1>9 DEF Registry!RNext, B

(* A stored result reports the verdicts of a batch that was judged.          *)
LEMMA RegistryReports ==
    ASSUME IInv, NEW o \in Optimisers, SaveResult(o)
    PROVE  Registry!RNext
<1> USE VersionFacts, ActorFacts DEF IInv, Inv1, Inv2
<1>1. /\ Working(o) /\ actor[o].phase = "selected" /\ actor[o].saved = actor[o].count
      /\ actor[o].base \in Versions /\ actor[o].count \in Nat \ {0}
  BY PromptsAssumption DEF SaveResult, Working, TypeOK, ActorState, CountsOK
<1>2. Own(o) \subseteq Candidates /\ Own(o) # {}
  <2>1. <<actor[o].tag, 1>> \in Own(o)
    BY <1>1 DEF Own
  <2> QED
    BY <1>1, <2>1, OwnFacts
<1>3. \A v \in Own(o) :
         /\ prompts[v].parent = actor[o].base
         /\ prompts[v].status = IF v \in actor[o].selected THEN "selected" ELSE "rejected"
  BY <1>1, OwnFacts DEF OwnRows, OwnVersion
<1>4. actor[o].selected \subseteq Own(o)
  BY <1>1 DEF SelectedOK
<1>5. PICK p \in Versions : p = actor[o].base
  BY <1>1
<1> DEFINE B == Own(o)
           rec == [serial |-> actor[o].serial, base |-> p,
                   candidates |-> B, selected |-> actor[o].selected]
           Reported(r) == [base |-> r.base, candidates |-> r.candidates,
                           selected |-> r.selected]
<1>6. B \in SUBSET Registry!Judged(p)
  BY <1>2, <1>3, <1>5 DEF Registry!Judged
<1>7. actor[o].selected = {v \in B : prompts[v].status = "selected"}
  BY <1>3, <1>4
<1>8. prompts' = prompts /\ results' = results \cup {rec}
  BY <1>5 DEF SaveResult
<1>9. Reported(rec) = [base |-> p, candidates |-> B, selected |-> actor[o].selected]
  OBVIOUS
<1>10. {Reported(r) : r \in results'} = {Reported(r) : r \in results} \cup {Reported(rec)}
  <2> HIDE DEF Reported, rec
  <2> QED
    BY ONLY <1>8
<1>11. {v \in B : [u \in Versions |-> prompts[u].status][v] = "selected"} = actor[o].selected
  BY <1>2, <1>7
<1>12. B # {}
  BY <1>2
<1>13. Registry!Report(B, p)
  <2> HIDE DEF B
  <2> QED
    BY ONLY <1>8, <1>9, <1>10, <1>11, <1>12 DEF Registry!Report, Active
<1> HIDE DEF B
<1> QED
  BY <1>6, <1>13 DEF Registry!RNext

(* Every step of threads, requests, start-ups and kills is one of the        *)
(* registry, or the registry does not see it.                                *)
LEMMA RegistryStep ==
    ASSUME IInv, [Next]_vars
    PROVE  Registry!RNext \/ UNCHANGED Registry!registryVars
<1>1. CASE \E o \in Optimisers : SaveResult(o)
  BY <1>1, RegistryReports
<1>2. CASE QuietStep /\ ~\E o \in Optimisers : SaveResult(o)
  <2>1. results' = results
    BY <1>2 DEF QuietStep, SeedFindsActive, Begin, ReadActive, Mutate, Raise, Startup, Kill,
       vars, tables
  <2> QED
    BY <1>2, <2>1, QuietRows, RegistryFlags DEF RowsStay, ResultsStay, Same
<1>3. CASE \/ \E a \in Actors : SeedActivates(a)
           \/ \E v \in Versions : Activate(v)
  <2>1. results' = results
    BY <1>3 DEF SeedActivates, Activate
  <2> QED
    BY <1>3, <2>1, FlagRows, RegistryFlags DEF RowsStay, ResultsStay, IInv, Inv1
<1>4. ASSUME NEW a \in Actors, SeedInsert(a)
      PROVE  Registry!RNext \/ UNCHANGED Registry!registryVars
  BY <1>4, RegistryInstalls, RegistryFlags DEF Registry!RNext
<1>5. ASSUME NEW o \in Optimisers, SaveCandidate(o) PROVE Registry!RNext
  BY <1>5, RegistryProposes DEF Registry!RNext
<1>6. ASSUME NEW o \in Optimisers, MarkSelection(o) PROVE Registry!RNext
  BY <1>6, RegistryJudges
<1> QED
  BY <1>1, <1>2, <1>3, <1>4, <1>5, <1>6, Steps

(* The optimisation threads, the administrators and the start-ups implement  *)
(* the registry: proposed once, judged once, one active version at a time.   *)
THEOREM ImplementsRegistryAlways == Spec => ImplementsRegistry
<1>1. Init => Registry!RInit
  BY DEF Init, Registry!RInit, NoPrompt, Active
<1> QED
  BY <1>1, RegistryStep, Invariance, PTL DEF Spec, ImplementsRegistry, Registry!RSpec
=============================================================================
