-------------------------- MODULE MigrationsProofs --------------------------
(***************************************************************************)
(* What the migrations promise, for any number of agents and of kills.  The *)
(* invariant is about files: whatever statement was run last, and whether   *)
(* it was committed alone or not at all, the rows are as the statements in  *)
(* `done` say, so that it does not matter where a start was interrupted.    *)
(***************************************************************************)
EXTENDS Migrations, FiniteSetTheorems, TLAPS

Db == [done : SUBSET Statements(Versions), recorded : SUBSET Versions,
       prompts : [Agents -> Prompts], twins : BOOLEAN]

(* The rows of an agent are as the statements that were run leave them.      *)
RowsFit(p, done) ==
    /\ \/ p.active = {}
       \/ p.active = {"baseline"} /\ "baseline" \in p.rows
       \/ p.active = {"candidate"} /\ "candidate" \in p.rows /\ p.status["candidate"] # "candidate"
    /\ "baseline status" \in done /\ "baseline" \in p.rows => p.status["baseline"] # "candidate"
    /\ "historical selections" \in done /\ p.listed /\ "candidate" \in p.rows =>
          p.status["candidate"] = "selected"
    /\ "active baselines" \in done /\ "baseline" \in p.rows => p.active # {}

DbFits(db) ==
    /\ db \in Db
    /\ Statements(db.recorded) \subseteq db.done
    /\ \A a \in Agents : RowsFit(db.prompts[a], db.done)

(* What the migrating connection has done so far.                            *)
Progress ==
    process = "migrating" =>
        /\ applied \subseteq work.recorded
        /\ at.version \in 1 .. Len(MIGRATIONS) + 1 /\ at.step \in Nat \ {0}
        /\ 1 .. at.version - 1 \subseteq work.recorded
        /\ at.version \in Versions \ applied =>
              \A k \in 1 .. Len(MIGRATIONS[at.version]) :
                  k < at.step => MIGRATIONS[at.version][k] \in work.done

IInv ==
    /\ DbFits(file) /\ DbFits(work)
    /\ work.twins = file.twins
    /\ Progress
    /\ process = "serving" => file.recorded = Versions
    /\ process = "refused" => file.twins

-----------------------------------------------------------------------------
LEMMA MigrationList ==
    /\ Versions = 1 .. 6 /\ Len(MIGRATIONS) = 6
    /\ \A v \in Versions : DOMAIN MIGRATIONS[v] = 1 .. Len(MIGRATIONS[v])
    /\ {"baseline status", "historical selections", "active baselines"}
          \subseteq Range(MIGRATIONS[3])
<1>1. /\ DOMAIN BaseSchema = 1 .. Len(BaseSchema)
      /\ DOMAIN RequestIds = 1 .. Len(RequestIds)
      /\ DOMAIN PromptLifecycle = 1 .. Len(PromptLifecycle)
      /\ DOMAIN JobConcurrencyGuard = 1 .. Len(JobConcurrencyGuard)
  BY DEF BaseSchema, RequestIds, PromptLifecycle, JobConcurrencyGuard
<1>2. /\ DOMAIN SecurityJobsAudit = 1 .. Len(SecurityJobsAudit)
      /\ DOMAIN Indexes = 1 .. Len(Indexes)
  BY DEF SecurityJobsAudit, Indexes
<1>3. /\ DOMAIN MIGRATIONS = 1 .. 6 /\ Len(MIGRATIONS) = 6
      /\ MIGRATIONS[1] = BaseSchema /\ MIGRATIONS[2] = RequestIds
      /\ MIGRATIONS[3] = PromptLifecycle /\ MIGRATIONS[4] = SecurityJobsAudit
      /\ MIGRATIONS[5] = Indexes /\ MIGRATIONS[6] = JobConcurrencyGuard
  BY DEF MIGRATIONS
<1>4. /\ 5 \in DOMAIN PromptLifecycle /\ PromptLifecycle[5] = "baseline status"
      /\ 6 \in DOMAIN PromptLifecycle /\ PromptLifecycle[6] = "historical selections"
      /\ 7 \in DOMAIN PromptLifecycle /\ PromptLifecycle[7] = "active baselines"
  BY DEF PromptLifecycle
<1>5. \A v \in 1 .. 6 : v = 1 \/ v = 2 \/ v = 3 \/ v = 4 \/ v = 5 \/ v = 6
  OBVIOUS
<1>6. \A v \in Versions : DOMAIN MIGRATIONS[v] = 1 .. Len(MIGRATIONS[v])
  BY <1>1, <1>2, <1>3, <1>5 DEF Versions
<1>7. {"baseline status", "historical selections", "active baselines"} \subseteq Range(MIGRATIONS[3])
  <2> HIDE DEF PromptLifecycle
  <2>1. Range(PromptLifecycle) = {PromptLifecycle[k] : k \in DOMAIN PromptLifecycle}
    BY DEF Range
  <2> QED
    BY <1>3, <1>4, <2>1
<1> QED
  BY <1>3, <1>6, <1>7 DEF Versions

LEMMA SixMigrations == Versions = 1 .. 6 /\ Len(MIGRATIONS) = 6
BY MigrationList, Zenon

(* A statement keeps the rows as the statements say.                         *)
LEMMA RowsStep ==
    ASSUME NEW p \in Prompts, NEW done, RowsFit(p, done), NEW s
    PROVE  PromptRows(s, p) \in Prompts /\ RowsFit(PromptRows(s, p), done \cup {s})
<1> USE DEF Prompts
<1>1. CASE s = "baseline status"
  <2>1. CASE "baseline" \in p.rows
    BY <1>1, <2>1 DEF PromptRows, MarkedBaseline, RowsFit
  <2>2. CASE "baseline" \notin p.rows
    BY <1>1, <2>2 DEF PromptRows, MarkedBaseline, RowsFit
  <2> QED
    BY <2>1, <2>2
<1>2. CASE s = "historical selections"
  <2>1. CASE p.listed /\ "candidate" \in p.rows
    BY <1>2, <2>1 DEF PromptRows, MarkedSelected, RowsFit
  <2>2. CASE ~(p.listed /\ "candidate" \in p.rows)
    BY <1>2, <2>2 DEF PromptRows, MarkedSelected, RowsFit
  <2> QED
    BY <2>1, <2>2
<1>3. CASE s = "active baselines"
  <2>1. CASE p.active = {} /\ "baseline" \in p.rows
    BY <1>3, <2>1 DEF PromptRows, Activated, RowsFit
  <2>2. CASE ~(p.active = {} /\ "baseline" \in p.rows)
    BY <1>3, <2>2 DEF PromptRows, Activated, RowsFit
  <2> QED
    BY <2>1, <2>2
<1>4. CASE s \notin {"baseline status", "historical selections", "active baselines"}
  BY <1>4 DEF PromptRows, RowsFit
<1> QED
  BY <1>1, <1>2, <1>3, <1>4

LEMMA ExecutedFits ==
    ASSUME NEW db, DbFits(db), NEW s \in Statements(Versions)
    PROVE  DbFits(Executed(s, db))
<1>1. /\ Executed(s, db).done = db.done \cup {s}
      /\ Executed(s, db).recorded = db.recorded
      /\ Executed(s, db).prompts = [a \in Agents |-> PromptRows(s, db.prompts[a])]
      /\ Executed(s, db).twins = db.twins
  BY DEF Executed, DbFits, Db
<1>2. \A a \in Agents : PromptRows(s, db.prompts[a]) \in Prompts
                        /\ RowsFit(PromptRows(s, db.prompts[a]), db.done \cup {s})
  BY RowsStep DEF DbFits, Db
<1>3. Executed(s, db) \in Db
  <2>1. [a \in Agents |-> PromptRows(s, db.prompts[a])] \in [Agents -> Prompts]
    BY <1>2
  <2>2. db.done \cup {s} \in SUBSET Statements(Versions)
    BY DEF DbFits, Db
  <2> QED
    BY <2>1, <2>2 DEF Executed, DbFits, Db
<1> QED
  BY <1>1, <1>2, <1>3 DEF DbFits

(* Rows that fit break the index on active prompts never.                    *)
LEMMA OnlyTwinsBreak ==
    ASSUME NEW db, DbFits(db), NEW s, Breaks(s, db)
    PROVE  db.twins
<1>1. \A a \in Agents : ~(Cardinality(db.prompts[a].active) > 1)
  <2> SUFFICES ASSUME NEW a \in Agents PROVE ~(Cardinality(db.prompts[a].active) > 1)
    OBVIOUS
  <2>1. \/ db.prompts[a].active = {}
        \/ db.prompts[a].active = {"baseline"}
        \/ db.prompts[a].active = {"candidate"}
    BY DEF DbFits, RowsFit
  <2>2. Cardinality({}) = 0 /\ Cardinality({"baseline"}) = 1 /\ Cardinality({"candidate"}) = 1
    BY FS_EmptySet, FS_Singleton
  <2>3. ~(0 > 1) /\ ~(1 > 1)
    OBVIOUS
  <2> QED
    BY <2>1, <2>2, <2>3
<1> QED
  BY <1>1 DEF Breaks

(* What a complete file says of the prompts of an agent.                     *)
LEMMA CompleteRows ==
    ASSUME NEW db, DbFits(db), db.recorded = Versions, NEW a \in Agents
    PROVE  LET p == db.prompts[a] IN
           /\ "baseline" \in p.rows => Cardinality(p.active) = 1
           /\ p.active \subseteq {r \in p.rows : p.status[r] # "candidate"}
           /\ p.listed /\ "candidate" \in p.rows => p.status["candidate"] = "selected"
<1> DEFINE p == db.prompts[a]
<1>1. {"baseline status", "historical selections", "active baselines"} \subseteq db.done
  <2>1. Range(MIGRATIONS[3]) \subseteq Statements(Versions)
    <3>0. Versions = 1 .. 6
      BY MigrationList, Zenon
    <3>1. 3 \in Versions
      BY <3>0
    <3> QED
      BY <3>1, Zenon DEF Statements
  <2> QED
    BY <2>1, MigrationList DEF DbFits
<1>2. RowsFit(p, db.done)
  BY DEF DbFits
<1>3. Cardinality({"baseline"}) = 1 /\ Cardinality({"candidate"}) = 1
  BY FS_Singleton
<1> QED
  BY <1>1, <1>2, <1>3 DEF RowsFit

-----------------------------------------------------------------------------
(* The statements on prompts belong to migration 3: releases before it never *)
(* ran them.                                                                 *)
LEMMA OldReleases ==
    ASSUME NEW v \in 0 .. 6, v < 3
    PROVE  /\ "baseline status" \notin Statements(1 .. v)
           /\ "historical selections" \notin Statements(1 .. v)
           /\ "active baselines" \notin Statements(1 .. v)
<1>1. Range(BaseSchema) = {"agent_runs", "prompt_versions", "advisor_memory", "optimisation_results"}
  <2>1. DOMAIN BaseSchema = {1, 2, 3, 4}
    BY DEF BaseSchema
  <2>2. /\ BaseSchema[1] = "agent_runs" /\ BaseSchema[2] = "prompt_versions"
        /\ BaseSchema[3] = "advisor_memory" /\ BaseSchema[4] = "optimisation_results"
    BY DEF BaseSchema
  <2> HIDE DEF BaseSchema
  <2>3. Range(BaseSchema) = {BaseSchema[k] : k \in DOMAIN BaseSchema}
    BY DEF Range
  <2> QED
    BY <2>1, <2>2, <2>3
<1>2. Range(RequestIds) = {"runs.provider_request_id", "runs.client_request_id"}
  <2>1. /\ DOMAIN RequestIds = {1, 2}
        /\ RequestIds[1] = "runs.provider_request_id" /\ RequestIds[2] = "runs.client_request_id"
    BY DEF RequestIds
  <2>2. Range(RequestIds) = {RequestIds[k] : k \in DOMAIN RequestIds}
    BY DEF Range
  <2> QED
    BY <2>1, <2>2
<1>3. MIGRATIONS[1] = BaseSchema /\ MIGRATIONS[2] = RequestIds
  BY DEF MIGRATIONS
<1>4. 1 .. v \subseteq {1, 2}
  OBVIOUS
<1>5. Statements(1 .. v) \subseteq Range(MIGRATIONS[1]) \cup Range(MIGRATIONS[2])
  BY <1>4, Zenon DEF Statements
<1> QED
  BY <1>1, <1>2, <1>3, <1>5

LEMMA MarkedType ==
    ASSUME NEW rows \in SUBSET {"baseline", "candidate"}, NEW listed \in BOOLEAN
    PROVE  LET q == MarkedSelected(MarkedBaseline(Unmarked(rows, listed))) IN
           /\ Unmarked(rows, listed) \in Prompts /\ q \in Prompts
           /\ q.rows = rows /\ q.listed = listed /\ q.active = {}
           /\ "baseline" \in rows => q.status["baseline"] = "baseline"
           /\ listed /\ "candidate" \in rows => q.status["candidate"] = "selected"
<1> DEFINE u == Unmarked(rows, listed)
           m == MarkedBaseline(u)
<1>1. /\ u \in Prompts /\ u.rows = rows /\ u.listed = listed /\ u.active = {}
  BY DEF Unmarked, Prompts
<1> HIDE DEF u
<1>2. /\ m \in Prompts /\ m.rows = rows /\ m.listed = listed /\ m.active = {}
      /\ "baseline" \in rows => m.status["baseline"] = "baseline"
  BY <1>1 DEF MarkedBaseline, Prompts
<1> HIDE DEF m
<1>3. LET q == MarkedSelected(m) IN
      /\ q \in Prompts
      /\ q.rows = rows /\ q.listed = listed /\ q.active = {}
      /\ "baseline" \in rows => q.status["baseline"] = "baseline"
      /\ listed /\ "candidate" \in rows => q.status["candidate"] = "selected"
  BY <1>2 DEF MarkedSelected, Prompts
<1> QED
  BY <1>1, <1>3 DEF m, u

(* A file of any release fits.                                               *)
LEMMA ReleasedFits ==
    ASSUME NEW v \in 0 .. 6, NEW p \in ReleasedPrompts(v)
    PROVE  p \in Prompts /\ RowsFit(p, Statements(1 .. v))
<1>1. CASE v < 3
  <2>1. PICK rows \in SUBSET {"baseline", "candidate"}, listed \in BOOLEAN :
           p = Unmarked(rows, listed)
    <3>1. p \in OldPrompts
      BY <1>1 DEF ReleasedPrompts
    <3> QED
      BY <3>1 DEF OldPrompts
  <2>2. p \in Prompts /\ p.active = {}
    BY <2>1, MarkedType DEF Unmarked
  <2> QED
    BY <1>1, <2>2, OldReleases DEF RowsFit
<1>2. CASE ~(v < 3)
  <2>1. PICK rows \in SUBSET {"baseline", "candidate"}, listed \in BOOLEAN :
           p \in Managed(MarkedSelected(MarkedBaseline(Unmarked(rows, listed))))
    <3>1. PICK o \in OldPrompts : p \in Managed(MarkedSelected(MarkedBaseline(o)))
      BY <1>2 DEF ReleasedPrompts
    <3>2. PICK rows \in SUBSET {"baseline", "candidate"}, listed \in BOOLEAN :
             o = Unmarked(rows, listed)
      BY DEF OldPrompts
    <3> QED
      BY <3>1, <3>2
  <2> DEFINE q == MarkedSelected(MarkedBaseline(Unmarked(rows, listed)))
  <2>2. /\ q \in Prompts
        /\ q.rows = rows /\ q.listed = listed /\ q.active = {}
        /\ "baseline" \in rows => q.status["baseline"] = "baseline"
        /\ listed /\ "candidate" \in rows => q.status["candidate"] = "selected"
    BY MarkedType
  <2>3. \/ \E r \in {r \in q.rows : q.status[r] # "candidate"} : p = [q EXCEPT !.active = {r}]
        \/ p = q /\ q.rows = {}
    BY <2>1 DEF Managed
  <2> HIDE DEF q
  <2>4. CASE p = q /\ q.rows = {}
    BY <2>2, <2>4 DEF RowsFit
  <2>5. ASSUME NEW r \in q.rows, q.status[r] # "candidate", p = [q EXCEPT !.active = {r}]
        PROVE  p \in Prompts /\ RowsFit(p, Statements(1 .. v))
    <3>1. r = "baseline" \/ r = "candidate"
      BY <2>2, <2>5
    <3>2. /\ p \in Prompts /\ p.rows = q.rows /\ p.listed = q.listed
          /\ p.status = q.status /\ p.active = {r}
      BY <2>2, <2>5, <3>1 DEF Prompts
    <3> QED
      BY <2>2, <2>5, <3>1, <3>2 DEF RowsFit
  <2> QED
    BY <2>3, <2>4, <2>5
<1> QED
  BY <1>1, <1>2

-----------------------------------------------------------------------------
LEMMA ReleaseFits ==
    ASSUME NEW v \in Versions, NEW db \in Released(v)
    PROVE  DbFits(db)
<1>0. v \in 0 .. 6 /\ Versions = 1 .. 6
  <2>1. Versions = 1 .. 6
    BY MigrationList, Zenon
  <2> QED
    BY <2>1
<1>1. /\ db.done = Statements(1 .. v) /\ db.recorded = 1 .. v
      /\ db.prompts \in [Agents -> ReleasedPrompts(v)] /\ db.twins \in BOOLEAN
      /\ db = [done |-> db.done, recorded |-> db.recorded,
                prompts |-> db.prompts, twins |-> db.twins]
  BY DEF Released
<1>2. \A a \in Agents : db.prompts[a] \in Prompts /\ RowsFit(db.prompts[a], db.done)
  BY <1>0, <1>1, ReleasedFits
<1>3. 1 .. v \subseteq Versions
  BY <1>0
<1>4. Statements(1 .. v) \subseteq Statements(Versions)
  BY <1>3, Zenon DEF Statements
<1>5. db.prompts \in [Agents -> Prompts]
  BY <1>1, <1>2
<1>6. db \in Db
  BY <1>1, <1>3, <1>4, <1>5 DEF Db
<1> QED
  BY <1>1, <1>2, <1>6 DEF DbFits

(* A file without records fits as one of the first release does, with fewer  *)
(* tables: none of its statements is about prompts.                          *)
LEMMA UnrecordedFits ==
    ASSUME NEW db \in Unrecorded
    PROVE  DbFits(db)
<1>0. 1 \in Versions /\ MIGRATIONS[1] = BaseSchema
  <2>1. Versions = 1 .. 6
    BY MigrationList, Zenon
  <2> QED
    BY <2>1 DEF MIGRATIONS
<1>1. /\ db.done \subseteq Range(BaseSchema) /\ db.recorded = {}
      /\ db.prompts \in [Agents -> OldPrompts] /\ db.twins = FALSE
      /\ db = [done |-> db.done, recorded |-> db.recorded,
                prompts |-> db.prompts, twins |-> db.twins]
  BY DEF Unrecorded
<1>2. Range(BaseSchema) \subseteq Statements(Versions) /\ Range(BaseSchema) \subseteq Statements(1 .. 1)
  <2>1. 1 \in 1 .. 1
    OBVIOUS
  <2> QED
    BY <1>0, <2>1, Zenon DEF Statements
<1>3. Statements({}) = {}
  BY Zenon DEF Statements
<1>4. ASSUME NEW a \in Agents
      PROVE  db.prompts[a] \in Prompts /\ RowsFit(db.prompts[a], db.done)
  <2>1. PICK rows \in SUBSET {"baseline", "candidate"}, listed \in BOOLEAN :
           db.prompts[a] = Unmarked(rows, listed)
    BY <1>1 DEF OldPrompts
  <2>2. db.prompts[a] \in Prompts /\ db.prompts[a].active = {}
    BY <2>1, MarkedType DEF Unmarked
  <2>3. /\ "baseline status" \notin db.done
        /\ "historical selections" \notin db.done
        /\ "active baselines" \notin db.done
    <3>1. 1 \in 0 .. 6 /\ 1 < 3
      OBVIOUS
    <3> QED
      BY <3>1, <1>1, <1>2, OldReleases
  <2> QED
    BY <2>2, <2>3 DEF RowsFit
<1>5. db.prompts \in [Agents -> Prompts]
  BY <1>1, <1>4
<1>6. db \in Db
  BY <1>1, <1>2, <1>5 DEF Db
<1> QED
  BY <1>1, <1>3, <1>4, <1>6 DEF DbFits

LEMMA InvInit == Init => IInv
<1> SUFFICES ASSUME Init PROVE IInv
  OBVIOUS
<1>1. DbFits(file)
  BY ReleaseFits, UnrecordedFits DEF Init
<1> QED
  BY <1>1 DEF Init, IInv, Progress

LEMMA LenIsNat == \A v \in Versions : Len(MIGRATIONS[v]) \in Nat
<1>1. /\ Len(BaseSchema) \in Nat /\ Len(RequestIds) \in Nat /\ Len(PromptLifecycle) \in Nat
      /\ Len(JobConcurrencyGuard) \in Nat
  BY DEF BaseSchema, RequestIds, PromptLifecycle, JobConcurrencyGuard
<1>2. Len(SecurityJobsAudit) \in Nat /\ Len(Indexes) \in Nat
  BY DEF SecurityJobsAudit, Indexes
<1>3. /\ MIGRATIONS[1] = BaseSchema /\ MIGRATIONS[2] = RequestIds
      /\ MIGRATIONS[3] = PromptLifecycle /\ MIGRATIONS[4] = SecurityJobsAudit
      /\ MIGRATIONS[5] = Indexes /\ MIGRATIONS[6] = JobConcurrencyGuard
  BY DEF MIGRATIONS
<1>4. Versions = 1 .. 6
  BY MigrationList, Zenon
<1>5. \A v \in 1 .. 6 : v = 1 \/ v = 2 \/ v = 3 \/ v = 4 \/ v = 5 \/ v = 6
  OBVIOUS
<1> QED
  BY <1>1, <1>2, <1>3, <1>4, <1>5

(* The statement that is run next is one of its migration.                   *)
LEMMA CurrentStatement ==
    ASSUME IInv, process = "migrating", at.version \in Versions,
           at.step <= Len(MIGRATIONS[at.version])
    PROVE  /\ at.step \in 1 .. Len(MIGRATIONS[at.version])
           /\ Current \in Statements(Versions)
<1>1. DOMAIN MIGRATIONS[at.version] = 1 .. Len(MIGRATIONS[at.version])
  BY MigrationList
<1>2. at.step \in Nat \ {0}
  BY DEF IInv, Progress
<1>3. at.step \in DOMAIN MIGRATIONS[at.version]
  BY <1>1, <1>2, LenIsNat
<1>4. MIGRATIONS[at.version][at.step] \in Range(MIGRATIONS[at.version])
  BY <1>3, Zenon DEF Range
<1>5. Current \in Statements(Versions)
  BY <1>4, Zenon DEF Current, Statements
<1> QED
  BY <1>1, <1>3, <1>5

LEMMA ExecuteStep == IInv /\ Execute => IInv'
<1> SUFFICES ASSUME IInv, Execute PROVE IInv'
  OBVIOUS
<1>1. /\ process = "migrating" /\ process' = "migrating" /\ applied' = applied
      /\ at.version \in Versions \ applied /\ at.step <= Len(MIGRATIONS[at.version])
      /\ work' = Executed(Current, work)
      /\ file' = file \/ file' = work'
      /\ at' = [at EXCEPT !.step = @ + 1]
  BY DEF Execute
<1>2. at.step \in 1 .. Len(MIGRATIONS[at.version]) /\ Current \in Statements(Versions)
  BY <1>1, CurrentStatement
<1>3. DbFits(work')
  BY <1>1, <1>2, ExecutedFits DEF IInv
<1>4. /\ work'.done = work.done \cup {Current} /\ work'.recorded = work.recorded
      /\ work'.twins = work.twins
  BY <1>1 DEF Executed, IInv, DbFits, Db
<1>5. at'.version = at.version /\ at'.step = at.step + 1 /\ at'.step \in Nat \ {0}
  BY <1>1, <1>2, LenIsNat DEF Execute
<1>6. Progress'
  <2>1. ASSUME NEW k \in 1 .. Len(MIGRATIONS[at.version]), k < at.step + 1
        PROVE  MIGRATIONS[at.version][k] \in work'.done
    <3>1. CASE k = at.step
      BY <1>4, <3>1 DEF Current
    <3>2. CASE k < at.step
      BY <1>1, <1>4, <3>2 DEF IInv, Progress
    <3> QED
      BY <1>1, <1>2, <2>1, <3>1, <3>2, LenIsNat
  <2> QED
    BY <1>1, <1>4, <1>5, <2>1 DEF IInv, Progress
<1>7. DbFits(file') /\ work'.twins = file'.twins
  BY <1>1, <1>3, <1>4 DEF IInv
<1> QED
  BY <1>1, <1>3, <1>6, <1>7 DEF IInv

LEMMA RecordStep == IInv /\ Record => IInv'
<1> SUFFICES ASSUME IInv, Record PROVE IInv'
  OBVIOUS
<1>1. /\ process = "migrating" /\ process' = "migrating" /\ applied' = applied
      /\ at.version \in Versions \ applied /\ at.step > Len(MIGRATIONS[at.version])
      /\ work' = [work EXCEPT !.recorded = @ \cup {at.version}]
      /\ at' = [version |-> at.version + 1, step |-> 1] /\ file' = file
  BY DEF Record, NextVersion
<1>2. /\ work'.done = work.done /\ work'.recorded = work.recorded \cup {at.version}
      /\ work'.prompts = work.prompts /\ work'.twins = work.twins /\ work' \in Db
  BY <1>1 DEF IInv, DbFits, Db
<1>3. Range(MIGRATIONS[at.version]) \subseteq work.done
  <2>1. DOMAIN MIGRATIONS[at.version] = 1 .. Len(MIGRATIONS[at.version])
    BY <1>1, MigrationList
  <2>2. \A k \in 1 .. Len(MIGRATIONS[at.version]) : MIGRATIONS[at.version][k] \in work.done
    <3> SUFFICES ASSUME NEW k \in 1 .. Len(MIGRATIONS[at.version])
                 PROVE  MIGRATIONS[at.version][k] \in work.done
      OBVIOUS
    <3>1. k < at.step
      BY <1>1, LenIsNat DEF IInv, Progress
    <3> QED
      BY <1>1, <3>1 DEF IInv, Progress
  <2> QED
    BY <2>1, <2>2 DEF Range
<1>4. Statements(work'.recorded) \subseteq work'.done
  <2>1. Statements(work.recorded) \subseteq work.done
    BY DEF IInv, DbFits
  <2>2. ASSUME NEW s \in Statements(work'.recorded) PROVE s \in work.done
    <3>1. PICK v \in work'.recorded : s \in Range(MIGRATIONS[v])
      BY <2>2, Zenon DEF Statements
    <3>2. CASE v = at.version
      BY <1>3, <3>1, <3>2
    <3>3. CASE v \in work.recorded
      BY <2>1, <3>1, <3>3, Zenon DEF Statements
    <3> QED
      BY <1>2, <3>1, <3>2, <3>3
  <2> QED
    BY <1>2, <2>2
<1>5. DbFits(work')
  BY <1>2, <1>4 DEF IInv, DbFits
<1>6. Progress'
  <2>1. at'.version \in 1 .. Len(MIGRATIONS) + 1 /\ at'.step \in Nat \ {0}
    BY <1>1, SixMigrations
  <2>2. 1 .. at'.version - 1 \subseteq work'.recorded
    BY <1>1, <1>2, SixMigrations DEF IInv, Progress
  <2>3. \A k : k \in 1 .. Len(MIGRATIONS[at'.version]) => ~(k < at'.step)
    BY <1>1
  <2> QED
    BY <1>1, <1>2, <2>1, <2>2, <2>3 DEF IInv, Progress
<1> QED
  BY <1>1, <1>2, <1>5, <1>6 DEF IInv

LEMMA ActivateStep == ASSUME NEW a \in Agents PROVE IInv /\ Activate(a) => IInv'
<1> SUFFICES ASSUME IInv, Activate(a) PROVE IInv'
  OBVIOUS
<1> DEFINE p == [file.prompts[a] EXCEPT !.active = {"candidate"}]
<1>1. /\ process = "serving" /\ process' = "serving" /\ work' = work
      /\ file.prompts[a].status["candidate"] = "selected"
      /\ "candidate" \in file.prompts[a].rows
      /\ file' = [file EXCEPT !.prompts = [file.prompts EXCEPT ![a] = p]]
  BY DEF Activate, IInv, DbFits, Db
<1>2. file \in Db /\ file.prompts[a] \in Prompts /\ RowsFit(file.prompts[a], file.done)
  BY DEF IInv, DbFits, Db
<1>3. p \in Prompts /\ RowsFit(p, file.done)
  BY <1>1, <1>2 DEF Prompts, RowsFit
<1> HIDE DEF p
<1>4. /\ file'.done = file.done /\ file'.recorded = file.recorded /\ file'.twins = file.twins
      /\ file'.prompts = [file.prompts EXCEPT ![a] = p] /\ file' \in Db
  BY <1>1, <1>2, <1>3 DEF Db
<1>5. DbFits(file')
  BY <1>2, <1>3, <1>4 DEF IInv, DbFits, Db
<1> QED
  BY <1>1, <1>4, <1>5 DEF IInv, Progress

LEMMA InvStep == IInv /\ [Next]_vars => IInv'
<1> SUFFICES ASSUME IInv, [Next]_vars PROVE IInv'
  OBVIOUS
<1>1. CASE Start
  <2>1. at' = [version |-> 1, step |-> 1] /\ work' = file /\ file' = file
        /\ applied' = file.recorded /\ process' = "migrating"
    BY <1>1 DEF Start
  <2>2. Progress'
    BY <2>1, SixMigrations DEF Progress
  <2> QED
    BY <2>1, <2>2 DEF IInv
<1>2. CASE Skip
  <2>1. /\ at' = [version |-> at.version + 1, step |-> 1] /\ work' = work /\ file' = file
        /\ applied' = applied /\ process' = process /\ process = "migrating"
        /\ at.version \in applied
    BY <1>2 DEF Skip, NextVersion
  <2>2. at.version \in work.recorded /\ at.version \in Versions
    BY <2>1 DEF IInv, Progress, DbFits, Db
  <2>3. Progress'
    BY <2>1, <2>2, SixMigrations DEF IInv, Progress
  <2> QED
    BY <2>1, <2>3 DEF IInv
<1>3. CASE Execute
  BY <1>3, ExecuteStep
<1>4. CASE Record
  BY <1>4, RecordStep
<1>5. CASE Refuse
  <2>1. /\ Raises(Current, work) /\ process' = "refused" /\ work' = file /\ file' = file
    BY <1>5 DEF Refuse
  <2>2. work.twins
    BY <2>1, OnlyTwinsBreak DEF Raises, IInv
  <2> QED
    BY <2>1, <2>2 DEF IInv, Progress
<1>6. CASE Commit
  <2>1. /\ process = "migrating" /\ at.version = Len(MIGRATIONS) + 1
        /\ file' = work /\ work' = work /\ process' = "serving"
    BY <1>6 DEF Commit
  <2>2. work.recorded = Versions
    BY <2>1, SixMigrations DEF IInv, Progress, DbFits, Db
  <2> QED
    BY <2>1, <2>2 DEF IInv, Progress
<1>7. ASSUME NEW a \in Agents, Activate(a) PROVE IInv'
  BY <1>7, ActivateStep
<1>8. CASE Kill
  BY <1>8 DEF Kill, IInv, Progress
<1>9. CASE UNCHANGED vars
  BY <1>9 DEF vars, IInv, Progress
<1> QED
  BY <1>1, <1>2, <1>3, <1>4, <1>5, <1>6, <1>7, <1>8, <1>9 DEF Next

LEMMA InductiveInvariant == Spec => []IInv
BY InvInit, InvStep, PTL DEF Spec

(* What is recorded was applied, however many starts were killed.            *)
THEOREM RecordedIsAppliedAlways == Spec => []RecordedIsApplied
<1>1. IInv => RecordedIsApplied
  BY DEF IInv, DbFits, RecordedIsApplied
<1> QED
  BY <1>1, InductiveInvariant, PTL

(* Only a complete file, with its prompts in order, is ever served.          *)
THEOREM ServesMigratedAlways == Spec => []ServesMigrated
<1>1. IInv => ServesMigrated
  BY CompleteRows DEF IInv, ServesMigrated
<1> QED
  BY <1>1, InductiveInvariant, PTL

(* Nothing but duplicate unfinished jobs stops a start.                      *)
THEOREM RefusedOnlyForTwinsAlways == Spec => []RefusedOnlyForTwins
<1>1. IInv => RefusedOnlyForTwins
  BY DEF IInv, RefusedOnlyForTwins
<1> QED
  BY <1>1, InductiveInvariant, PTL
=============================================================================
