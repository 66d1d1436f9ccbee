------------------------ MODULE AdvisorRecordsProofs ------------------------
(***************************************************************************)
(* What requests on one advisor's records may rely on, for any number of    *)
(* requests, runs and kills.  Every handler acts on what it read in an      *)
(* earlier transaction; the invariant says what is left of it: a run that   *)
(* was known stays known, is never stored again once it was removed, and    *)
(* has one remover.  With it every step of a handler is a step of the       *)
(* record service, or none.                                                 *)
(***************************************************************************)
EXTENDS AdvisorRecords, TLAPS

(* Which operations a phase belongs to.                                      *)
Fits(q) ==
    /\ request[q].phase = "new"        <=> request[q].op = "none"
    /\ request[q].phase = "reading"    => request[q].op = "get"
    /\ request[q].phase = "saving"     => request[q].op \in {"get", "update"}
    /\ request[q].phase = "forgetting" => request[q].op = "forget"
    /\ request[q].phase \in {"generating", "logging"}   => request[q].op \in {"run", "benchmark"}
    /\ request[q].phase \in {"evaluating", "storing"}   => request[q].op \in {"evaluate", "benchmark"}
    /\ request[q].phase = "fetching"   => request[q].op \in {"evaluate", "detail", "delete"}
    /\ request[q].phase = "deleting"   => request[q].op = "delete"
    /\ request[q].phase = "purging"    => request[q].op = "purge"
    /\ request[q].phase # "done"       => request[q].answer = "none"

(* The request has done all it does to the tables.                           *)
Settled(q) == request[q].phase = "auditing" \/ request[q].answer = "ok"

(* The run of a request is one that was logged.                              *)
NamesKnown(q) ==
    /\ request[q].op \in {"evaluate", "detail", "delete"} => request[q].run \in Known
    /\ request[q].phase \in {"evaluating", "storing"} => request[q].run \in Known
    /\ request[q].op \in {"run", "benchmark"} /\ Settled(q) => request[q].run \in Known

(* What AnswersAreTrue says, from the last change of a table on.             *)
SettledTrue(q) ==
    Settled(q) =>
        /\ request[q].op \in {"evaluate", "benchmark"} /\ request[q].run \in Stored =>
              runs[request[q].run].evaluation # Nobody
        /\ request[q].op = "delete" => request[q].run \notin Stored

Claims(q) ==
    /\ request[q].op = "delete" /\ request[q].deleted => remover[request[q].run] = q
    /\ request[q].phase = "fetching" => ~request[q].deleted

Audited(q) ==
    /\ request[q].answer = "ok"
    /\ request[q].op # "benchmark"
    /\ request[q].op = "delete" => request[q].deleted
    => \E e \in audit : e.request = q

RequestOK(q) == Fits(q) /\ NamesKnown(q) /\ SettledTrue(q) /\ Claims(q) /\ Audited(q)

(* An event is logged at the end, and what it claims was true.               *)
EventOK(e) ==
    /\ request[e.request].phase = "done"
    /\ request[e.request].op = "delete" /\ e.deleted =>
          remover[request[e.request].run] = e.request

IInv ==
    /\ TypeOK /\ DeletedStaysDeleted
    /\ \A q \in Requests : RequestOK(q)
    /\ \A e \in audit : EventOK(e)

-----------------------------------------------------------------------------
RunRow == [stored : BOOLEAN, old : BOOLEAN, evaluation : Requests \cup {Nobody}]

RequestRow ==
    [op : Operations \cup {"none"}, run : Runs \cup {Nobody},
     preferences : Preferences \cup {Default}, phase : Phases, deleted : BOOLEAN,
     answer : {"none", "ok", "not_found", "error", "lost"}]

MemoryRow == [exists : BOOLEAN, preferences : Preferences \cup {Default},
              created : Requests \cup {Nobody}]

LEMMA NewRows ==
    /\ NoMemory \in MemoryRow /\ [NoMemory EXCEPT !.exists = TRUE] \in MemoryRow
    /\ NoRun \in RunRow /\ NoRun.stored = FALSE /\ NoRun.evaluation = Nobody
    /\ NewRun \in RunRow /\ NewRun.stored = TRUE /\ NewRun.evaluation = Nobody
    /\ NewRequest \in RequestRow
BY DEF NoMemory, MemoryRow, NoRun, NewRun, RunRow, NewRequest, RequestRow, Phases, Operations

(* What a request may do to its own row.                                     *)
LEMMA RowSteps ==
    ASSUME NEW r \in RequestRow, NEW phase \in Phases, NEW run \in Runs \cup {Nobody},
           NEW b \in BOOLEAN, NEW answer \in {"none", "ok", "not_found", "error", "lost"}
    PROVE  /\ [r EXCEPT !.phase = phase] \in RequestRow
           /\ [r EXCEPT !.phase = phase, !.deleted = b] \in RequestRow
           /\ [r EXCEPT !.phase = phase, !.answer = answer] \in RequestRow
           /\ [r EXCEPT !.run = run, !.phase = phase] \in RequestRow
BY DEF RequestRow

LEMMA BegunRow ==
    ASSUME NEW op \in Operations, NEW run \in Runs \cup {Nobody}, NEW p \in Preferences \cup {Default}
    PROVE  [NewRequest EXCEPT !.op = op, !.phase = FirstPhase[op], !.run = run,
                              !.preferences = p] \in RequestRow
<1>1. FirstPhase[op] \in Phases
  BY DEF Operations, FirstPhase, Phases
<1> QED
  BY <1>1, NewRows DEF RequestRow, NewRequest

-----------------------------------------------------------------------------
THEOREM InitIInv == Init => IInv
<1> SUFFICES ASSUME Init PROVE IInv
  OBVIOUS
<1> USE RecordsAssumption, NewRows DEF Init
<1>1. TypeOK
  <2>1. runs \in [Runs -> RunRow]
    OBVIOUS
  <2>2. \A r \in Runs \ Stored : runs[r] = NoRun
    BY DEF Stored
  <2>3. memory \in MemoryRow /\ request \in [Requests -> RequestRow]
    OBVIOUS
  <2> QED
    BY <2>1, <2>2, <2>3 DEF TypeOK, RunRow, MemoryRow, RequestRow
<1>2. DeletedStaysDeleted
  BY DEF DeletedStaysDeleted, Stored
<1>3. ASSUME NEW q \in Requests PROVE RequestOK(q)
  <2>1. /\ request[q].phase = "new" /\ request[q].op = "none" /\ request[q].answer = "none"
    BY DEF NewRequest
  <2> QED
    BY <2>1 DEF RequestOK, Fits, NamesKnown, SettledTrue, Settled, Claims, Audited
<1> QED
  BY <1>1, <1>2, <1>3 DEF IInv

-----------------------------------------------------------------------------
(* The table of runs, whoever writes to it.                                  *)
RunsOK ==
    /\ runs \in [Runs -> RunRow] /\ \A r \in Runs \ Stored : runs[r] = NoRun
    /\ remover \in [Runs -> Requests \cup {Nobody, Retention}]
    /\ DeletedStaysDeleted

(* What was known stays known and is not stored again; a remover stays, and  *)
(* so does the fact that a stored run was evaluated.                         *)
RunsKept ==
    /\ Known \subseteq Known'
    /\ \A r \in Runs : remover[r] # Nobody => remover'[r] = remover[r]
    /\ \A r \in Known : r \in Stored' =>
          /\ r \in Stored
          /\ runs[r].evaluation # Nobody => runs'[r].evaluation # Nobody

LEMMA RemoveKeeps ==
    ASSUME RunsOK, NEW S \in SUBSET Stored, NEW q \in Requests \cup {Retention}, Remove(S, q)
    PROVE  /\ RunsOK' /\ RunsKept
           /\ \A r \in S : remover'[r] = q
           /\ Stored' = Stored \ S
<1> USE RecordsAssumption, NewRows DEF RunsOK
<1>1. S \subseteq Runs /\ \A r \in S : remover[r] = Nobody
  BY DEF Stored, DeletedStaysDeleted
<1>2. \A r \in S : runs'[r] = NoRun /\ remover'[r] = q
  BY <1>1 DEF Remove
<1>3. \A r \in Runs \ S : runs'[r] = runs[r] /\ remover'[r] = remover[r]
  BY DEF Remove
<1>4. Stored' = Stored \ S
  BY <1>1, <1>2, <1>3 DEF Stored
<1>5. runs' \in [Runs -> RunRow] /\ remover' \in [Runs -> Requests \cup {Nobody, Retention}]
  BY DEF Remove
<1>6. \A r \in Runs \ Stored' : runs'[r] = NoRun
  BY <1>1, <1>2, <1>3, <1>4
<1>7. DeletedStaysDeleted'
  BY <1>3, <1>4 DEF DeletedStaysDeleted, Stored
<1>8. RunsKept
  BY <1>1, <1>2, <1>3, <1>4 DEF RunsKept, Known, Stored
<1> QED
  BY <1>2, <1>4, <1>5, <1>6, <1>7, <1>8

LEMMA RunWritten ==
    ASSUME RunsOK, NEW r \in Runs, NEW row \in RunRow, row.stored = TRUE,
           runs' = [runs EXCEPT ![r] = row], remover' = remover,
           IF r \in Known
           THEN r \in Stored /\ (runs[r].evaluation # Nobody => row.evaluation # Nobody)
           ELSE TRUE
    PROVE  RunsOK' /\ RunsKept
<1> USE NewRows DEF RunsOK
<1>1. runs'[r] = row /\ \A x \in Runs : x # r => runs'[x] = runs[x]
  OBVIOUS
<1>2. Stored' = Stored \cup {r}
  BY <1>1 DEF Stored
<1>3. runs' \in [Runs -> RunRow] /\ \A x \in Runs \ Stored' : runs'[x] = NoRun
  BY <1>1, <1>2
<1>4. remover[r] = Nobody
  BY DEF Known, DeletedStaysDeleted
<1>5. DeletedStaysDeleted'
  BY <1>2, <1>4 DEF DeletedStaysDeleted
<1>6. RunsKept
  BY <1>1, <1>2 DEF RunsKept, Known, Stored
<1> QED
  BY <1>3, <1>5, <1>6

LEMMA RunsStep == IInv /\ [Next]_vars => RunsOK' /\ RunsKept
<1> SUFFICES ASSUME IInv, [Next]_vars PROVE RunsOK' /\ RunsKept
  OBVIOUS
<1> USE NewRows, RecordsAssumption
<1>0. RunsOK
  BY DEF IInv, TypeOK, RunsOK, RunRow
<1>1. CASE UNCHANGED <<runs, remover>>
  BY <1>0, <1>1 DEF RunsOK, RunsKept, DeletedStaysDeleted, Known, Stored
<1>2. ASSUME NEW q \in Requests, LogRun(q) PROVE RunsOK' /\ RunsKept
  <2>1. PICK r \in Runs : r \notin Known /\ runs' = [runs EXCEPT ![r] = NewRun]
    BY <1>2 DEF LogRun
  <2> QED
    BY <1>0, <1>2, <2>1, RunWritten DEF LogRun
<1>3. ASSUME NEW q \in Requests, StoreEvaluation(q) PROVE RunsOK' /\ RunsKept
  <2>1. CASE request[q].run \in Stored
    <3> DEFINE r == request[q].run
               row == [runs[r] EXCEPT !.evaluation = q]
    <3>1. r \in Runs /\ runs[r] \in RunRow /\ runs[r].stored
      BY <1>0, <2>1 DEF Stored, RunsOK
    <3>2. row \in RunRow /\ row.stored = runs[r].stored /\ row.evaluation = q
      BY <3>1 DEF RunRow
    <3>3. row.stored = TRUE
      <4>1. row.stored \in BOOLEAN
        BY <3>2 DEF RunRow
      <4> QED
        BY <3>1, <3>2, <4>1, Zenon
    <3>4. runs' = [runs EXCEPT ![r] = row] /\ remover' = remover
      BY <1>3, <2>1, Zenon DEF StoreEvaluation
    <3> QED
      BY <1>0, <2>1, <3>1, <3>2, <3>3, <3>4, RunWritten
  <2>2. CASE request[q].run \notin Stored
    BY <1>1, <1>3, <2>2 DEF StoreEvaluation
  <2> QED
    BY <2>1, <2>2
<1>4. ASSUME NEW q \in Requests, DeleteRun(q) PROVE RunsOK' /\ RunsKept
  BY <1>0, <1>4, RemoveKeeps DEF DeleteRun
<1>5. ASSUME NEW q \in Requests, PurgeRuns(q) PROVE RunsOK' /\ RunsKept
  <2>1. PICK S \in SUBSET Stored : Remove(S, q)
    BY <1>5 DEF PurgeRuns
  <2> QED
    BY <1>0, <2>1, RemoveKeeps
<1>6. CASE Startup
  <2>1. PICK S \in SUBSET Stored : Remove(S, Retention)
    BY <1>6 DEF Startup
  <2> QED
    BY <1>0, <2>1, RemoveKeeps
<1>7. ASSUME NEW r \in Runs, Age(r) PROVE RunsOK' /\ RunsKept
  <2> DEFINE row == [runs[r] EXCEPT !.old = TRUE]
  <2>1. r \in Stored /\ runs[r] \in RunRow /\ runs[r].stored
    BY <1>0, <1>7 DEF Age, Stored, RunsOK
  <2>2. row \in RunRow /\ row.stored = runs[r].stored /\ row.evaluation = runs[r].evaluation
    BY <2>1 DEF RunRow
  <2>3. row.stored = TRUE
    <3>1. row.stored \in BOOLEAN
      BY <2>2 DEF RunRow
    <3> QED
      BY <2>1, <2>2, <3>1, Zenon
  <2>4. runs' = [runs EXCEPT ![r] = row] /\ remover' = remover
    BY <1>7, Zenon DEF Age
  <2> QED
    BY <1>0, <2>1, <2>2, <2>3, <2>4, RunWritten
<1>8. ASSUME NEW q \in Requests, Handle(q), ~LogRun(q), ~StoreEvaluation(q), ~DeleteRun(q),
             ~PurgeRuns(q)
      PROVE  UNCHANGED <<runs, remover>>
  BY <1>8, Zenon DEF Handle, Begin, GetMemory, SavePreferences, DeleteMemory, Generate, Fetch,
     Evaluate, Audit, Raise, tables
<1>9. CASE Kill \/ UNCHANGED vars
  BY <1>1, <1>9 DEF Kill, vars, tables
<1> QED
  BY <1>1, <1>2, <1>3, <1>4, <1>5, <1>6, <1>7, <1>8, <1>9 DEF Next

-----------------------------------------------------------------------------
(* The rows of requests.                                                     *)
OthersKept(q) == \A p \in Requests : p # q => request'[p] = request[p]
RequestType == request \in [Requests -> RequestRow]

LEMMA GoesToRow ==
    ASSUME RequestType, NEW q \in Requests, NEW phase \in Phases, GoesTo(q, phase)
    PROVE  /\ RequestType' /\ OthersKept(q) /\ request'[q].phase = phase
           /\ request'[q].op = request[q].op /\ request'[q].run = request[q].run
           /\ request'[q].deleted = request[q].deleted
           /\ request'[q].answer = request[q].answer
<1> DEFINE row == [request[q] EXCEPT !.phase = phase]
<1>1. request' = [request EXCEPT ![q] = row]
  BY Zenon DEF GoesTo
<1>2. row \in RequestRow
  BY RowSteps DEF RequestType, Phases
<1>3. /\ row.phase = phase /\ row.op = request[q].op /\ row.run = request[q].run
      /\ row.deleted = request[q].deleted /\ row.answer = request[q].answer
  BY DEF RequestType, RequestRow
<1> HIDE DEF row
<1> QED
  BY <1>1, <1>2, <1>3 DEF RequestType, OthersKept

LEMMA AnswersRow ==
    ASSUME RequestType, NEW q \in Requests, Answers(q, "ok") \/ Answers(q, "not_found")
                                             \/ Answers(q, "error")
    PROVE  /\ RequestType' /\ OthersKept(q) /\ request'[q].phase = "done"
           /\ request'[q].op = request[q].op /\ request'[q].run = request[q].run
           /\ request'[q].deleted = request[q].deleted
           /\ \A answer : Answers(q, answer) => request'[q].answer = answer
<1>1. ASSUME NEW answer \in {"ok", "not_found", "error"}, Answers(q, answer)
      PROVE  /\ RequestType' /\ OthersKept(q) /\ request'[q].phase = "done"
             /\ request'[q].op = request[q].op /\ request'[q].run = request[q].run
             /\ request'[q].deleted = request[q].deleted /\ request'[q].answer = answer
  <2> DEFINE row == [request[q] EXCEPT !.phase = "done", !.answer = answer]
  <2>1. request' = [request EXCEPT ![q] = row]
    BY <1>1, Zenon DEF Answers, RequestType
  <2>2. row \in RequestRow
    BY RowSteps DEF RequestType, Phases
  <2>3. /\ row.phase = "done" /\ row.op = request[q].op /\ row.run = request[q].run
        /\ row.deleted = request[q].deleted /\ row.answer = answer
    BY DEF RequestType, RequestRow
  <2> HIDE DEF row
  <2> QED
    BY <2>1, <2>2, <2>3 DEF RequestType, OthersKept
<1>2. ASSUME NEW answer, Answers(q, answer) PROVE request'[q].answer = answer
  BY <1>2 DEF Answers, RequestType, RequestRow
<1> QED
  BY <1>1, <1>2

LEMMA DeletedRow ==
    ASSUME RequestType, NEW q \in Requests, NEW b \in BOOLEAN,
           request' = [request EXCEPT ![q].phase = "auditing", ![q].deleted = b]
    PROVE  /\ RequestType' /\ OthersKept(q) /\ request'[q].phase = "auditing"
           /\ request'[q].op = request[q].op /\ request'[q].run = request[q].run
           /\ (request'[q].deleted <=> b) /\ request'[q].answer = request[q].answer
<1> DEFINE row == [request[q] EXCEPT !.phase = "auditing", !.deleted = b]
<1>1. request' = [request EXCEPT ![q] = row]
  BY Zenon DEF RequestType
<1>2. row \in RequestRow
  BY RowSteps DEF RequestType, Phases
<1>3. /\ row.phase = "auditing" /\ row.op = request[q].op /\ row.run = request[q].run
      /\ row.answer = request[q].answer
  BY DEF RequestType, RequestRow
<1>4. row.deleted <=> b
  <2>1. "deleted" \in DOMAIN request[q] /\ "deleted" \in DOMAIN [request[q] EXCEPT !.phase = "auditing"]
    BY DEF RequestType, RequestRow
  <2>2. row.deleted = b
    BY <2>1, Zenon
  <2> QED
    BY <2>2, Zenon
<1> HIDE DEF row
<1> QED
  BY <1>1, <1>2, <1>3, <1>4 DEF RequestType, OthersKept

LEMMA LoggedRow ==
    ASSUME RequestType, NEW q \in Requests, LogRun(q)
    PROVE  \E r \in Runs :
              /\ r \notin Known /\ runs' = [runs EXCEPT ![r] = NewRun]
              /\ RequestType' /\ OthersKept(q) /\ request'[q].run = r
              /\ request'[q].phase = IF request[q].op = "benchmark" THEN "evaluating" ELSE "auditing"
              /\ request'[q].op = request[q].op /\ request'[q].deleted = request[q].deleted
              /\ request'[q].answer = request[q].answer
<1> DEFINE phase == IF request[q].op = "benchmark" THEN "evaluating" ELSE "auditing"
<1>1. PICK r \in Runs :
         /\ r \notin Known /\ runs' = [runs EXCEPT ![r] = NewRun]
         /\ request' = [request EXCEPT ![q].run = r, ![q].phase = phase]
  BY DEF LogRun
<1>2. phase \in Phases
  BY DEF Phases
<1> HIDE DEF phase
<1> DEFINE row == [request[q] EXCEPT !.run = r, !.phase = phase]
<1>3. request' = [request EXCEPT ![q] = row]
  BY <1>1, Zenon DEF RequestType
<1>4. row \in RequestRow
  BY <1>2, RowSteps DEF RequestType
<1>5. /\ row.phase = phase /\ row.op = request[q].op /\ row.run = r
      /\ row.deleted = request[q].deleted /\ row.answer = request[q].answer
  BY DEF RequestType, RequestRow
<1> HIDE DEF row
<1>6. /\ RequestType' /\ OthersKept(q) /\ request'[q] = row
  BY <1>3, <1>4 DEF RequestType, OthersKept
<1> QED
  BY <1>1, <1>5, <1>6 DEF phase

LEMMA BegunStep ==
    ASSUME RequestType, NEW q \in Requests, NEW op \in Operations, Begin(q, op)
    PROVE  /\ RequestType' /\ OthersKept(q) /\ request'[q].phase = FirstPhase[op]
           /\ request'[q].op = op /\ request'[q].answer = "none" /\ ~request'[q].deleted
           /\ request'[q].run \in Known \cup {Nobody}
           /\ request'[q].run # Nobody <=> op \in DOMAIN AfterFetch
<1>1. PICK r \in Known \cup {Nobody}, p \in Preferences :
         /\ r # Nobody <=> op \in DOMAIN AfterFetch
         /\ request' = [request EXCEPT ![q] =
                [NewRequest EXCEPT !.op = op, !.phase = FirstPhase[op], !.run = r,
                                   !.preferences = IF op = "update" THEN p ELSE Default]]
  BY DEF Begin
<1> DEFINE pref == IF op = "update" THEN p ELSE Default
           row == [NewRequest EXCEPT !.op = op, !.phase = FirstPhase[op], !.run = r,
                                     !.preferences = pref]
<1>2. pref \in Preferences \cup {Default} /\ r \in Runs \cup {Nobody}
  BY DEF Known, Stored
<1>3. row \in RequestRow
  BY <1>2, BegunRow
<1>4. /\ row.phase = FirstPhase[op] /\ row.op = op /\ row.run = r
      /\ row.deleted = FALSE /\ row.answer = "none"
  BY DEF NewRequest
<1>5. request' = [request EXCEPT ![q] = row]
  BY <1>1
<1> HIDE DEF row
<1>6. RequestType' /\ request'[q] = row
  BY <1>3, <1>5 DEF RequestType
<1>7. OthersKept(q)
  BY <1>5 DEF RequestType, OthersKept
<1> QED
  BY <1>1, <1>4, <1>6, <1>7

-----------------------------------------------------------------------------
(* A request keeps what it knows while others write.                         *)
LEMMA BystanderOK ==
    ASSUME IInv, RunsKept, audit \subseteq audit', NEW p \in Requests,
           request'[p] = request[p]
    PROVE  RequestOK(p)'
<1>1. RequestOK(p)
  BY DEF IInv
<1>2. Fits(p)' /\ NamesKnown(p)' /\ Audited(p)'
  BY <1>1 DEF RequestOK, Fits, NamesKnown, Settled, Audited, RunsKept
<1>3. SettledTrue(p)'
  <2>1. Settled(p)' => Settled(p)
    BY DEF Settled
  <2>2. ASSUME Settled(p), request[p].op \in {"evaluate", "benchmark", "delete"}
        PROVE  request[p].run \in Known
    BY <1>1, <2>2 DEF RequestOK, NamesKnown
  <2> QED
    BY <1>1, <2>1, <2>2 DEF RequestOK, SettledTrue, RunsKept
<1>4. Claims(p)'
  <2>1. ASSUME request[p].op = "delete", request[p].deleted
        PROVE  remover'[request[p].run] = p
    <3>1. remover[request[p].run] = p /\ request[p].run \in Runs /\ p # Nobody
      BY <1>1, <2>1, RecordsAssumption DEF RequestOK, NamesKnown, Claims, Known, Stored
    <3> QED
      BY <3>1 DEF RunsKept
  <2> QED
    BY <1>1, <2>1 DEF RequestOK, Claims
<1> QED
  BY <1>2, <1>3, <1>4 DEF RequestOK

LEMMA EventKept ==
    ASSUME IInv, RunsKept, NEW e \in audit,
           request'[e.request].phase = request[e.request].phase,
           request'[e.request].op = request[e.request].op,
           request'[e.request].run = request[e.request].run
    PROVE  EventOK(e)'
<1>1. EventOK(e) /\ e.request \in Requests
  BY DEF IInv, TypeOK
<1>2. ASSUME request[e.request].op = "delete" PROVE request[e.request].run \in Runs
  BY <1>1, <1>2 DEF IInv, RequestOK, NamesKnown, Known, Stored
<1> QED
  BY <1>1, <1>2, RecordsAssumption DEF EventOK, RunsKept

(* A step of one request: it is enough to look at that request.              *)
Served(q) ==
    /\ RequestType' /\ OthersKept(q) /\ audit' \subseteq [request : Requests, deleted : BOOLEAN]
    /\ memory' \in MemoryRow /\ process' = process /\ restarts' = restarts
    /\ request[q].phase # "done" /\ audit \subseteq audit'
    /\ RequestOK(q)' /\ \A e \in audit' \ audit : EventOK(e)'

LEMMA ServedStep ==
    ASSUME IInv, RunsOK', RunsKept, NEW q \in Requests, Served(q)
    PROVE  IInv'
<1>1. TypeOK'
  BY DEF IInv, TypeOK, Served, RunsOK, RequestType, RequestRow, MemoryRow, RunRow
<1>2. ASSUME NEW p \in Requests PROVE RequestOK(p)'
  BY <1>2, BystanderOK DEF Served, OthersKept
<1>3. ASSUME NEW e \in audit PROVE EventOK(e)'
  <2>1. e.request # q /\ e.request \in Requests
    BY DEF IInv, EventOK, Served, TypeOK
  <2>2. request'[e.request] = request[e.request]
    BY <2>1 DEF Served, OthersKept
  <2> QED
    BY <2>2, EventKept
<1>4. \A e \in audit' : EventOK(e)'
  BY <1>3 DEF Served
<1> QED
  BY <1>1, <1>2, <1>4 DEF IInv, RunsOK

LEMMA Facts ==
    ASSUME IInv, NEW q \in Requests
    PROVE  /\ RequestType /\ RequestOK(q) /\ memory \in MemoryRow
           /\ audit \subseteq [request : Requests, deleted : BOOLEAN]
           /\ request[q].op \in Operations \cup {"none"}
BY DEF IInv, TypeOK, RequestType, RequestRow, MemoryRow

(* The steps that go on to a phase and write at most the preferences.        *)
LEMMA PreferencesStep ==
    ASSUME IInv, RunsKept, NEW q \in Requests,
           GetMemory(q) \/ SavePreferences(q) \/ DeleteMemory(q) \/ Generate(q) \/ Evaluate(q)
    PROVE  Served(q)
<1> USE Facts
<1>1. CASE GetMemory(q)
  <2> DEFINE phase == IF memory.exists THEN "auditing" ELSE "saving"
  <2>1. phase \in {"auditing", "saving"} /\ GoesTo(q, phase)
    BY <1>1 DEF GetMemory
  <2> HIDE DEF phase
  <2>2. /\ RequestType' /\ OthersKept(q) /\ request'[q].phase \in {"auditing", "saving"}
        /\ request'[q].op = "get" /\ request'[q].answer = "none"
    BY <1>1, <2>1, GoesToRow DEF GetMemory, RequestOK, Fits, Phases
  <2>3. RequestOK(q)'
    BY <2>2 DEF RequestOK, Fits, NamesKnown, SettledTrue, Settled, Claims, Audited
  <2> QED
    BY <1>1, <2>2, <2>3 DEF GetMemory, Served, tables
<1>2. CASE SavePreferences(q)
  <2>1. /\ RequestType' /\ OthersKept(q) /\ request'[q].phase = "auditing"
        /\ request'[q].op \in {"get", "update"} /\ request'[q].answer = "none"
    BY <1>2, GoesToRow DEF SavePreferences, RequestOK, Fits, Phases
  <2>2. RequestOK(q)'
    BY <2>1 DEF RequestOK, Fits, NamesKnown, SettledTrue, Settled, Claims, Audited
  <2>3. memory' \in MemoryRow
    <3>1. request[q].preferences \in Preferences \cup {Default}
      BY DEF RequestType, RequestRow
    <3> QED
      BY <1>2, <3>1 DEF SavePreferences, MemoryRow
  <2> QED
    BY <1>2, <2>1, <2>2, <2>3 DEF SavePreferences, Served
<1>3. CASE DeleteMemory(q)
  <2>1. memory.exists \in BOOLEAN
    BY DEF MemoryRow
  <2>2. PICK b \in BOOLEAN :
           request' = [request EXCEPT ![q].phase = "auditing", ![q].deleted = b]
    BY <1>3, <2>1, Zenon DEF DeleteMemory
  <2>3. /\ RequestType' /\ OthersKept(q) /\ request'[q].phase = "auditing"
        /\ request'[q].op = "forget" /\ request'[q].answer = "none"
    <3>1. request[q].op = "forget" /\ request[q].answer = "none"
      BY <1>3 DEF DeleteMemory, RequestOK, Fits
    <3> QED
      BY <2>2, <3>1, DeletedRow
  <2>4. RequestOK(q)'
    BY <2>3 DEF RequestOK, Fits, NamesKnown, SettledTrue, Settled, Claims, Audited
  <2> QED
    BY <1>3, <2>3, <2>4, NewRows DEF DeleteMemory, Served
<1>4. CASE Generate(q)
  <2>1. /\ RequestType' /\ OthersKept(q) /\ request'[q].phase = "logging"
        /\ request'[q].op \in {"run", "benchmark"} /\ request'[q].answer = "none"
    BY <1>4, GoesToRow DEF Generate, RequestOK, Fits, Phases
  <2>2. RequestOK(q)'
    BY <2>1 DEF RequestOK, Fits, NamesKnown, SettledTrue, Settled, Claims, Audited
  <2> QED
    BY <1>4, <2>1, <2>2 DEF Generate, Served, tables
<1>5. CASE Evaluate(q)
  <2>1. /\ RequestType' /\ OthersKept(q) /\ request'[q].phase = "storing"
        /\ request'[q].op \in {"evaluate", "benchmark"} /\ request'[q].answer = "none"
        /\ request'[q].run = request[q].run /\ request[q].run \in Known
    BY <1>5, GoesToRow DEF Evaluate, RequestOK, Fits, Phases, NamesKnown
  <2>2. RequestOK(q)'
    BY <2>1 DEF RequestOK, Fits, NamesKnown, SettledTrue, Settled, Claims, Audited, RunsKept
  <2> QED
    BY <1>5, <2>1, <2>2 DEF Evaluate, Served, tables
<1> QED
  BY <1>1, <1>2, <1>3, <1>4, <1>5

(* The steps that read or write a run.                                       *)
LEMMA RunSteps ==
    ASSUME IInv, RunsOK', RunsKept, NEW q \in Requests,
           LogRun(q) \/ Fetch(q) \/ StoreEvaluation(q) \/ DeleteRun(q) \/ PurgeRuns(q)
    PROVE  Served(q)
<1> USE Facts
<1>0. RunsOK
  BY DEF IInv, TypeOK, RunsOK, RunRow
<1>1. CASE LogRun(q)
  <2>1. PICK r \in Runs :
           /\ r \notin Known /\ runs' = [runs EXCEPT ![r] = NewRun]
           /\ RequestType' /\ OthersKept(q) /\ request'[q].run = r
           /\ request'[q].phase = IF request[q].op = "benchmark" THEN "evaluating" ELSE "auditing"
           /\ request'[q].op = request[q].op /\ request'[q].deleted = request[q].deleted
           /\ request'[q].answer = request[q].answer
    BY <1>1, LoggedRow
  <2>2. r \in Stored'
    BY <1>0, <2>1, NewRows DEF Stored, RunsOK
  <2>3. request[q].op \in {"run", "benchmark"} /\ request[q].answer = "none"
    BY <1>1 DEF LogRun, RequestOK, Fits
  <2>4. RequestOK(q)'
    BY <2>1, <2>2, <2>3 DEF RequestOK, Fits, NamesKnown, SettledTrue, Settled, Claims, Audited,
       Known
  <2> QED
    BY <1>1, <2>1, <2>4 DEF LogRun, Served
<1>2. CASE Fetch(q)
  <2> DEFINE op == request[q].op
  <2>1. /\ op \in {"evaluate", "detail", "delete"} /\ request[q].run \in Known
        /\ ~request[q].deleted /\ request[q].answer = "none"
    BY <1>2 DEF Fetch, RequestOK, Fits, NamesKnown, Claims
  <2>2. Stored' = Stored /\ audit' = audit /\ memory' = memory /\ process' = process
        /\ restarts' = restarts /\ request[q].phase # "done"
    BY <1>2 DEF Fetch, Stored, tables
  <2>3. CASE request[q].run \in Stored
    <3>1. /\ AfterFetch[op] = IF op = "evaluate" THEN "evaluating"
                              ELSE IF op = "detail" THEN "auditing" ELSE "deleting"
          /\ AfterFetch[op] \in Phases
      BY <2>1 DEF AfterFetch, Phases
    <3>2. /\ RequestType' /\ OthersKept(q) /\ request'[q].phase = AfterFetch[op]
          /\ request'[q].op = op /\ request'[q].run = request[q].run
          /\ ~request'[q].deleted /\ request'[q].answer = "none"
      BY <1>2, <2>1, <2>3, <3>1, GoesToRow DEF Fetch
    <3>3. RequestOK(q)'
      BY <2>1, <3>1, <3>2 DEF RequestOK, Fits, NamesKnown, SettledTrue, Settled, Claims,
         Audited, RunsKept
    <3> QED
      BY <2>2, <3>2, <3>3 DEF Served
  <2>4. CASE request[q].run \notin Stored
    <3>1. /\ RequestType' /\ OthersKept(q) /\ request'[q].phase = "done"
          /\ request'[q].op = op /\ request'[q].run = request[q].run
          /\ ~request'[q].deleted
          /\ request'[q].answer = IF op = "delete" THEN "ok" ELSE "not_found"
      BY <1>2, <2>1, <2>4, AnswersRow DEF Fetch
    <3>2. RequestOK(q)'
      BY <2>1, <2>2, <2>4, <3>1 DEF RequestOK, Fits, NamesKnown, SettledTrue, Settled, Claims,
         Audited, RunsKept
    <3> QED
      BY <2>2, <3>1, <3>2 DEF Served
  <2> QED
    BY <2>3, <2>4
<1>3. CASE StoreEvaluation(q)
  <2>1. /\ request[q].op \in {"evaluate", "benchmark"} /\ request[q].run \in Known
        /\ request[q].answer = "none" /\ request[q].run \in Known'
    BY <1>3 DEF StoreEvaluation, RequestOK, Fits, NamesKnown, RunsKept
  <2>2. /\ RequestType' /\ OthersKept(q) /\ request'[q].op = request[q].op
        /\ request'[q].run = request[q].run
        /\ \/ /\ request'[q].phase = "done" /\ request'[q].answer = "ok"
              /\ request[q].op = "benchmark"
           \/ /\ request'[q].phase = "auditing" /\ request'[q].answer = "none"
    <3>1. CASE request[q].op = "benchmark"
      BY <1>3, <3>1, AnswersRow DEF StoreEvaluation
    <3>2. CASE request[q].op # "benchmark"
      BY <1>3, <2>1, <3>2, GoesToRow DEF StoreEvaluation, Phases
    <3> QED
      BY <3>1, <3>2
  <2>3. request[q].run \in Stored' => runs'[request[q].run].evaluation # Nobody
    <3>1. CASE request[q].run \in Stored
      BY <1>0, <1>3, <3>1, RecordsAssumption DEF StoreEvaluation, RunsOK, RunRow, Stored
    <3>2. CASE request[q].run \notin Stored
      BY <1>3, <3>2 DEF StoreEvaluation, Stored
    <3> QED
      BY <3>1, <3>2
  <2>4. RequestOK(q)'
    BY <2>1, <2>2, <2>3 DEF RequestOK, Fits, NamesKnown, SettledTrue, Settled, Claims, Audited
  <2> QED
    BY <1>3, <2>2, <2>4 DEF StoreEvaluation, Served
<1>4. CASE DeleteRun(q)
  <2> DEFINE S == {request[q].run} \cap Stored
  <2>1. /\ request[q].op = "delete" /\ request[q].answer = "none" /\ Remove(S, q)
        /\ request[q].run \in Known'
    BY <1>4 DEF DeleteRun, RequestOK, Fits, NamesKnown, RunsKept
  <2>2. (\A r \in S : remover'[r] = q) /\ Stored' = Stored \ S
    BY <1>0, <2>1, RemoveKeeps
  <2>3. PICK b \in BOOLEAN :
           /\ b <=> S # {}
           /\ request' = [request EXCEPT ![q].phase = "auditing", ![q].deleted = b]
    BY <1>4, Zenon DEF DeleteRun
  <2>4. /\ RequestType' /\ OthersKept(q) /\ request'[q].phase = "auditing"
        /\ request'[q].op = "delete" /\ request'[q].run = request[q].run
        /\ (request'[q].deleted <=> S # {}) /\ request'[q].answer = "none"
    BY <2>1, <2>3, DeletedRow
  <2>5. RequestOK(q)'
    BY <2>1, <2>2, <2>4 DEF RequestOK, Fits, NamesKnown, SettledTrue, Settled, Claims, Audited
  <2> QED
    BY <1>4, <2>4, <2>5 DEF DeleteRun, Served
<1>5. CASE PurgeRuns(q)
  <2>1. /\ RequestType' /\ OthersKept(q) /\ request'[q].phase = "auditing"
        /\ request'[q].op = "purge" /\ request'[q].answer = "none"
    BY <1>5, GoesToRow DEF PurgeRuns, RequestOK, Fits, Phases
  <2>2. RequestOK(q)'
    BY <2>1 DEF RequestOK, Fits, NamesKnown, SettledTrue, Settled, Claims, Audited
  <2> QED
    BY <1>5, <2>1, <2>2 DEF PurgeRuns, Served
<1> QED
  BY <1>1, <1>2, <1>3, <1>4, <1>5

(* The first step of a request, and the last.                                *)
LEMMA EndSteps ==
    ASSUME IInv, RunsKept, NEW q \in Requests,
           (\E op \in Operations : Begin(q, op)) \/ Audit(q) \/ Raise(q)
    PROVE  Served(q)
<1> USE Facts
<1>1. ASSUME NEW op \in Operations, Begin(q, op) PROVE Served(q)
  <2>1. /\ RequestType' /\ OthersKept(q) /\ request'[q].phase = FirstPhase[op]
        /\ request'[q].op = op /\ request'[q].answer = "none" /\ ~request'[q].deleted
        /\ request'[q].run \in Known \cup {Nobody}
        /\ request'[q].run # Nobody <=> op \in DOMAIN AfterFetch
    BY <1>1, BegunStep
  <2>2. op \in {"evaluate", "detail", "delete"} => request'[q].run \in Known'
    BY <2>1 DEF AfterFetch, RunsKept
  <2>3. Fits(q)' /\ request'[q].phase \notin {"evaluating", "storing", "auditing"}
    BY <2>1 DEF Fits, FirstPhase, Operations
  <2>4. RequestOK(q)'
    BY <2>1, <2>2, <2>3 DEF RequestOK, NamesKnown, SettledTrue, Settled, Claims, Audited
  <2> QED
    BY <1>1, <2>1, <2>4 DEF Begin, Served, tables
<1>2. CASE Audit(q)
  <2>1. /\ RequestType' /\ OthersKept(q) /\ request'[q].phase = "done"
        /\ request'[q].op = request[q].op /\ request'[q].run = request[q].run
        /\ request'[q].deleted = request[q].deleted /\ request'[q].answer = "ok"
    BY <1>2, AnswersRow DEF Audit
  <2>2. PICK e \in [request : Requests, deleted : BOOLEAN] :
           /\ e.request = q /\ e.deleted = request[q].deleted
           /\ audit' = audit \cup {e}
    <3>1. request[q].deleted \in BOOLEAN
      BY DEF RequestType, RequestRow
    <3> QED
      BY <1>2, <3>1 DEF Audit
  <2>3. /\ UNCHANGED <<runs, remover, memory, process, restarts>>
        /\ request[q].phase = "auditing"
    BY <1>2 DEF Audit
  <2>4. e.deleted => request[q].deleted
    BY <2>2, Zenon
  <2>5. RequestOK(q)'
    BY <2>1, <2>2, <2>3 DEF RequestOK, Fits, NamesKnown, SettledTrue, Settled, Claims, Audited,
       Known, Stored
  <2>6. EventOK(e)'
    BY <2>1, <2>2, <2>3, <2>4 DEF RequestOK, Claims, EventOK
  <2> QED
    BY <2>1, <2>2, <2>3, <2>5, <2>6 DEF Served
<1>3. CASE Raise(q)
  <2>1. /\ RequestType' /\ OthersKept(q) /\ request'[q].phase = "done"
        /\ request'[q].op = request[q].op /\ request'[q].run = request[q].run
        /\ request'[q].deleted = request[q].deleted /\ request'[q].answer = "error"
    BY <1>3, AnswersRow DEF Raise
  <2>2. UNCHANGED <<runs, remover, audit, memory, process, restarts>>
    BY <1>3 DEF Raise, tables
  <2>3. request[q].phase \notin {"new", "done"}
    BY <1>3 DEF Raise, InFlight
  <2>4. RequestOK(q)'
    BY <2>1, <2>2, <2>3 DEF RequestOK, Fits, NamesKnown, SettledTrue, Settled, Claims, Audited,
       Known, Stored
  <2> QED
    BY <2>1, <2>2, <2>3, <2>4 DEF Served
<1> QED
  BY <1>1, <1>2, <1>3

-----------------------------------------------------------------------------
(* Whoever waited for an answer gets none; nothing else is lost.             *)
LEMMA KillStep == IInv /\ RunsOK' /\ RunsKept /\ Kill => IInv'
<1> SUFFICES ASSUME IInv, RunsOK', RunsKept, Kill PROVE IInv'
  OBVIOUS
<1> USE Facts
<1>1. UNCHANGED <<memory, runs, audit, remover>>
  BY DEF Kill, tables
<1>2. ASSUME NEW q \in Requests, InFlight(q)
      PROVE  /\ request'[q] \in RequestRow /\ RequestOK(q)'
             /\ request'[q].op = request[q].op /\ request'[q].run = request[q].run
             /\ request[q].phase # "done"
  <2> DEFINE row == [request[q] EXCEPT !.phase = "done", !.answer = "lost"]
  <2>1. request'[q] = row
    BY <1>2 DEF Kill
  <2>2. row \in RequestRow
    BY RowSteps DEF RequestType, Phases
  <2>3. /\ row.phase = "done" /\ row.op = request[q].op /\ row.run = request[q].run
        /\ row.deleted = request[q].deleted /\ row.answer = "lost"
    BY DEF RequestType, RequestRow
  <2> HIDE DEF row
  <2>4. request[q].phase \notin {"new", "done"}
    BY <1>2 DEF InFlight
  <2>5. /\ request'[q].phase = "done" /\ request'[q].op = request[q].op
        /\ request'[q].run = request[q].run /\ request'[q].deleted = request[q].deleted
        /\ request'[q].answer = "lost"
    BY <2>1, <2>3
  <2>6. RequestOK(q)'
    BY <1>1, <2>4, <2>5 DEF RequestOK, Fits, NamesKnown, SettledTrue, Settled, Claims, Audited,
       Known, Stored
  <2> QED
    BY <2>1, <2>2, <2>4, <2>5, <2>6
<1>3. ASSUME NEW q \in Requests, ~InFlight(q)
      PROVE  request'[q] = request[q] /\ request'[q] \in RequestRow /\ RequestOK(q)'
  <2>1. request'[q] = request[q]
    BY <1>3 DEF Kill
  <2> QED
    BY <1>1, <2>1, BystanderOK DEF RequestType
<1>4. RequestType'
  BY <1>2, <1>3 DEF RequestType, Kill
<1>5. ASSUME NEW e \in audit PROVE EventOK(e)'
  <2>1. e.request \in Requests /\ ~InFlight(e.request)
    BY DEF IInv, TypeOK, EventOK, InFlight
  <2> QED
    BY <1>3, <2>1, EventKept
<1>6. process' \in {"up", "down"} /\ restarts' \in 0 .. MaxRestarts
  <2>1. restarts \in 0 .. MaxRestarts
    BY DEF IInv, TypeOK
  <2>2. process' = "down" /\ restarts' = restarts + 1 /\ restarts < MaxRestarts
    BY DEF Kill
  <2> HIDE Facts
  <2> QED
    BY <2>1, <2>2, RecordsAssumption
<1>7. TypeOK'
  BY <1>1, <1>4, <1>6 DEF IInv, TypeOK, RunsOK, RequestType, RequestRow, RunRow
<1> QED
  BY <1>1, <1>2, <1>3, <1>5, <1>7 DEF IInv, RunsOK

THEOREM NextIInv == IInv /\ [Next]_vars => IInv'
<1> SUFFICES ASSUME IInv, [Next]_vars PROVE IInv'
  OBVIOUS
<1>1. RunsOK' /\ RunsKept
  BY RunsStep
<1>2. ASSUME NEW q \in Requests, Handle(q) PROVE IInv'
  <2>1. Served(q)
    BY <1>1, <1>2, PreferencesStep, RunSteps, EndSteps DEF Handle
  <2> QED
    BY <1>1, <2>1, ServedStep
<1>3. CASE Kill
  BY <1>1, <1>3, KillStep
<1>4. CASE UNCHANGED <<memory, audit, request, restarts>> /\ process' \in {"up", "down"}
  <2>1. \A q \in Requests : RequestOK(q)'
    BY <1>1, <1>4, BystanderOK
  <2>2. \A e \in audit' : EventOK(e)'
    BY <1>1, <1>4, EventKept
  <2>3. TypeOK'
    BY <1>1, <1>4 DEF IInv, TypeOK, RunsOK, RunRow
  <2> QED
    BY <1>1, <2>1, <2>2, <2>3 DEF IInv, RunsOK
<1>5. CASE Startup \/ UNCHANGED vars \/ \E r \in Runs : Age(r)
  BY <1>4, <1>5 DEF Startup, vars, tables, Age, IInv, TypeOK
<1> QED
  BY <1>2, <1>3, <1>5 DEF Next

LEMMA Invariance == Spec => []IInv
BY InitIInv, NextIInv, PTL DEF Spec

-----------------------------------------------------------------------------
(* Type correctness: rows, events and requests stay well formed, and a run   *)
(* is evaluated only while it is stored.                                     *)
THEOREM TypeCorrect == Spec => []TypeOK
<1>1. IInv => TypeOK
  BY DEF IInv
<1> QED
  BY <1>1, Invariance, PTL

(* A deleted or purged run does not come back (update_evaluation, log_run).  *)
THEOREM DeletedStaysDeletedAlways == Spec => []DeletedStaysDeleted
<1>1. IInv => DeletedStaysDeleted
  BY DEF IInv
<1> QED
  BY <1>1, Invariance, PTL

(* What a request was told about a run is true (routes/runs.py).             *)
THEOREM AnswersAreTrueAlways == Spec => []AnswersAreTrue
<1>1. IInv => AnswersAreTrue
  BY DEF IInv, RequestOK, NamesKnown, SettledTrue, Settled, AnswersAreTrue, Known
<1> QED
  BY <1>1, Invariance, PTL

(* One request at most is told that it deleted a run (delete_run).           *)
THEOREM OneDeletionPerRunAlways == Spec => []OneDeletionPerRun
<1>1. IInv => OneDeletionPerRun
  BY DEF IInv, RequestOK, Claims, OneDeletionPerRun
<1> QED
  BY <1>1, Invariance, PTL

(* Every answer that must be is in the audit trail, and the trail is true.   *)
THEOREM AnsweredIsAuditedAlways == Spec => []AnsweredIsAudited
<1>1. IInv => AnsweredIsAudited
  BY DEF IInv, RequestOK, Audited, EventOK, AnsweredIsAudited
<1> QED
  BY <1>1, Invariance, PTL

(* created_at survives every write of the preferences (save_preferences).    *)
THEOREM CreatedAtKeptAlways == Spec => CreatedAtKept
<1>1. [Next]_vars => [memory.exists /\ memory'.exists => memory'.created = memory.created]_vars
  <2> SUFFICES ASSUME [Next]_vars, memory.exists, memory'.exists
               PROVE  memory'.created = memory.created
    OBVIOUS
  <2>1. ASSUME NEW q \in Requests, SavePreferences(q) PROVE memory'.created = memory.created
    BY <2>1 DEF SavePreferences
  <2>2. ASSUME NEW q \in Requests, DeleteMemory(q) PROVE FALSE
    BY <2>2 DEF DeleteMemory, NoMemory
  <2>3. ASSUME NEW q \in Requests, Handle(q), ~SavePreferences(q), ~DeleteMemory(q)
        PROVE  memory' = memory
    BY <2>3, Zenon DEF Handle, Begin, GetMemory, Generate, LogRun, Fetch, Evaluate,
       StoreEvaluation, DeleteRun, PurgeRuns, Audit, Raise, tables
  <2>4. CASE Kill \/ Startup \/ UNCHANGED vars \/ \E r \in Runs : Age(r)
    BY <2>4 DEF Kill, Startup, vars, Age, tables
  <2> QED
    BY <2>1, <2>2, <2>3, <2>4 DEF Next
<1> QED
  BY <1>1, PTL DEF Spec, CreatedAtKept

-----------------------------------------------------------------------------
(* The service, step by step.  Besides the invariant it needs that whoever   *)
(* removed a run says so, and that phases and answers fit.                   *)
Removes(q, r) ==
    \/ request[q].op = "purge"
    \/ request[q].op = "delete" /\ request[q].deleted /\ request[q].run = r

ServiceOK(q) ==
    /\ request[q].phase = "done" => request[q].answer # "none"
    /\ request[q].phase \in {"generating", "logging"} => request[q].run = Nobody
    /\ request[q].phase = "auditing" => request[q].op # "benchmark"
    /\ request[q].phase = "deleting" => ~request[q].deleted
    /\ \A r \in Runs : remover[r] = q => Removes(q, r)

SInv == IInv /\ \A q \in Requests : ServiceOK(q)

(* Only the request that takes the step removes something.                   *)
RemoverOnly(q) == \A r \in Runs : remover'[r] = remover[r] \/ remover'[r] = q

LEMMA RemovedRuns ==
    ASSUME RunsOK, NEW S \in SUBSET Stored, NEW q \in Requests \cup {Retention}, Remove(S, q)
    PROVE  /\ Stored' = Stored \ S /\ Evaluated' = Evaluated \ S
           /\ remover' = [r \in Runs |-> IF r \in S THEN q ELSE remover[r]]
<1>1. Stored' = Stored \ S
  BY RemoveKeeps
<1>2. \A r \in Stored \ S : runs'[r] = runs[r]
  BY DEF Remove, Stored
<1>3. Evaluated' = Evaluated \ S
  BY <1>1, <1>2 DEF Evaluated
<1> QED
  BY <1>1, <1>3 DEF Remove

(* What the mapping makes of the row of the request that takes a step.       *)
Ops     == [q \in Requests |-> request[q].op]
RunsOf  == [q \in Requests |-> request[q].run]
Replies == [q \in Requests |-> request[q].answer]

LEMMA MappedRows ==
    ASSUME NEW q \in Requests, OthersKept(q)
    PROVE  /\ Ops' = [Ops EXCEPT ![q] = request'[q].op]
           /\ RunsOf' = [RunsOf EXCEPT ![q] = request'[q].run]
           /\ Replies' = [Replies EXCEPT ![q] = request'[q].answer]
           /\ request'[q].op = request[q].op => Ops' = Ops
           /\ request'[q].run = request[q].run => RunsOf' = RunsOf
           /\ request'[q].answer = request[q].answer => Replies' = Replies
<1>1. \A p \in Requests : p # q => request'[p] = request[p]
  BY DEF OthersKept
<1> QED
  BY ONLY <1>1, q \in Requests DEF Ops, RunsOf, Replies

(* A step of one request does what the request may do to itself, and is a    *)
(* step of the service.                                                      *)
Serves(q) == OthersKept(q) /\ ServiceOK(q)' /\ RemoverOnly(q)
ServesAsPromised(q) ==
    Serves(q) /\ (Service!Serve(q) \/ UNCHANGED Service!serviceVars)

LEMMA ServiceFacts ==
    ASSUME SInv, NEW q \in Requests
    PROVE  /\ IInv /\ RunsOK /\ RequestType /\ RequestOK(q) /\ ServiceOK(q)
           /\ memory \in MemoryRow /\ q # Nobody
BY Facts, RecordsAssumption DEF SInv, IInv, TypeOK, RunsOK, RunRow

(* A request that removes nothing has said before what it removed.           *)
LEMMA SameRemover ==
    ASSUME NEW q \in Requests, ServiceOK(q), remover' = remover,
           request'[q].op = request[q].op,
           request[q].op # "delete" \/ (/\ request'[q].deleted = request[q].deleted
                                        /\ request'[q].run = request[q].run)
    PROVE  RemoverOnly(q) /\ \A r \in Runs : remover'[r] = q => Removes(q, r)'
BY DEF ServiceOK, RemoverOnly, Removes

LEMMA SilentStep ==
    ASSUME NEW q \in Requests, OthersKept(q), UNCHANGED <<memory, remover, audit, Stored, Evaluated>>,
           request'[q].op = request[q].op, request'[q].run = request[q].run,
           request'[q].answer = request[q].answer
    PROVE  UNCHANGED Service!serviceVars
<1>1. Ops' = Ops /\ RunsOf' = RunsOf /\ Replies' = Replies
  BY MappedRows
<1>2. UNCHANGED <<memory, remover, audit, Stored, Evaluated>>
  OBVIOUS
<1> QED
  BY ONLY <1>1, <1>2 DEF Service!serviceVars, Service!records, Ops, RunsOf, Replies

(* The steps on the preferences, and those that change nothing.              *)
LEMMA PreferencesServe ==
    ASSUME SInv, NEW q \in Requests,
           GetMemory(q) \/ SavePreferences(q) \/ DeleteMemory(q) \/ Generate(q) \/ Evaluate(q)
    PROVE  ServesAsPromised(q)
<1> USE ServiceFacts
<1>1. ASSUME NEW phase \in Phases \ {"done", "deleting"}, GoesTo(q, phase),
             UNCHANGED <<tables, remover>>,
             phase \in {"generating", "logging"} => request[q].run = Nobody,
             phase = "auditing" => request[q].op # "benchmark"
      PROVE  ServesAsPromised(q)
  <2>1. /\ OthersKept(q) /\ request'[q].phase = phase
        /\ request'[q].op = request[q].op /\ request'[q].run = request[q].run
        /\ request'[q].deleted = request[q].deleted /\ request'[q].answer = request[q].answer
    BY <1>1, GoesToRow
  <2>2. RemoverOnly(q) /\ \A r \in Runs : remover'[r] = q => Removes(q, r)'
    BY <1>1, <2>1, SameRemover
  <2>3. ServiceOK(q)'
    BY <1>1, <2>1, <2>2 DEF ServiceOK
  <2>4. UNCHANGED <<memory, remover, audit, Stored, Evaluated>>
    BY <1>1 DEF tables, Stored, Evaluated
  <2>5. UNCHANGED Service!serviceVars
    BY <2>1, <2>4, SilentStep
  <2> QED
    BY <2>1, <2>2, <2>3, <2>5 DEF ServesAsPromised, Serves
<1>2. CASE GetMemory(q)
  <2>1. PICK phase \in {"auditing", "saving"} : GoesTo(q, phase)
    BY <1>2 DEF GetMemory
  <2>2. request[q].op = "get"
    BY <1>2 DEF GetMemory, RequestOK, Fits
  <2> QED
    BY <1>1, <1>2, <2>1, <2>2 DEF GetMemory, Phases
<1>3. CASE Generate(q)
  BY <1>1, <1>3 DEF Generate, Phases, ServiceOK
<1>4. CASE Evaluate(q)
  BY <1>1, <1>4 DEF Evaluate, Phases
<1>5. CASE SavePreferences(q)
  <2>1. /\ OthersKept(q) /\ request'[q].phase = "auditing"
        /\ request'[q].op = request[q].op /\ request'[q].run = request[q].run
        /\ request'[q].deleted = request[q].deleted /\ request'[q].answer = request[q].answer
    BY <1>5, GoesToRow DEF SavePreferences, Phases
  <2>2. request[q].op \in {"get", "update"} /\ request[q].answer = "none"
    BY <1>5 DEF SavePreferences, RequestOK, Fits
  <2>3. UNCHANGED <<runs, remover, audit, Stored, Evaluated>>
    BY <1>5 DEF SavePreferences, Stored, Evaluated
  <2>4. Serves(q)
    BY <2>1, <2>2, <2>3, SameRemover DEF Serves, ServiceOK
  <2>5. Ops' = Ops /\ RunsOf' = RunsOf /\ Replies' = Replies
    BY <2>1, MappedRows
  <2>6. memory'.exists /\ memory'.created = IF memory.exists THEN memory.created ELSE q
    BY <1>5 DEF SavePreferences
  <2>7. Service!Put(q)
    BY ONLY q \in Requests, <2>2, <2>3, <2>5, <2>6
       DEF Service!Put, Service!Pending, Ops, RunsOf, Replies
  <2> QED
    BY <2>4, <2>7 DEF ServesAsPromised, Service!Serve
<1>6. CASE DeleteMemory(q)
  <2>1. PICK b \in BOOLEAN :
           request' = [request EXCEPT ![q].phase = "auditing", ![q].deleted = b]
    <3>1. memory.exists \in BOOLEAN
      BY DEF MemoryRow
    <3> QED
      BY <1>6, <3>1, Zenon DEF DeleteMemory
  <2>2. /\ OthersKept(q) /\ request'[q].phase = "auditing"
        /\ request'[q].op = request[q].op /\ request'[q].run = request[q].run
        /\ request'[q].answer = request[q].answer
    BY <2>1, DeletedRow
  <2>3. request[q].op = "forget" /\ request[q].answer = "none"
    BY <1>6 DEF DeleteMemory, RequestOK, Fits
  <2>4. UNCHANGED <<runs, remover, audit, Stored, Evaluated>> /\ ~memory'.exists
    BY <1>6 DEF DeleteMemory, NoMemory, Stored, Evaluated
  <2>5. Serves(q)
    BY <2>2, <2>3, <2>4, SameRemover DEF Serves, ServiceOK
  <2>6. Ops' = Ops /\ RunsOf' = RunsOf /\ Replies' = Replies
    BY <2>2, MappedRows
  <2>7. Service!Forget(q)
    BY ONLY q \in Requests, <2>3, <2>4, <2>6
       DEF Service!Forget, Service!Pending, Ops, RunsOf, Replies
  <2> QED
    BY <2>5, <2>7 DEF ServesAsPromised, Service!Serve
<1> QED
  BY <1>2, <1>3, <1>4, <1>5, <1>6

(* What was asked is asked, and nobody has removed a run for a new request.  *)
LEMMA BeginServes ==
    ASSUME SInv, NEW q \in Requests, NEW o \in Operations, Begin(q, o)
    PROVE  ServesAsPromised(q)
<1> USE ServiceFacts
<1>1. /\ OthersKept(q) /\ request'[q].phase = FirstPhase[o]
      /\ request'[q].op = o /\ request'[q].answer = "none" /\ ~request'[q].deleted
      /\ request'[q].run \in Known \cup {Nobody}
      /\ request'[q].run # Nobody <=> o \in DOMAIN AfterFetch
  BY BegunStep
<1>2. /\ request[q].phase = "new" /\ request[q].op = "none" /\ request[q].answer = "none"
      /\ UNCHANGED <<memory, runs, audit, remover, Stored, Evaluated>>
  BY DEF Begin, RequestOK, Fits, tables, Stored, Evaluated
<1>3. \A r \in Runs : remover'[r] # q
  BY <1>2 DEF ServiceOK, Removes
<1>4. ServiceOK(q)'
  <2>1. /\ request'[q].phase \in {"generating", "logging"} => o \in {"run", "benchmark"}
        /\ request'[q].phase \notin {"done", "auditing", "deleting"}
    BY <1>1 DEF FirstPhase, Operations
  <2>2. DOMAIN AfterFetch = {"evaluate", "detail", "delete"}
    BY DEF AfterFetch
  <2> QED
    BY <1>1, <1>3, <2>1, <2>2 DEF ServiceOK
<1>5. Serves(q)
  BY <1>1, <1>2, <1>4 DEF Serves, RemoverOnly
<1> DEFINE x == request'[q].run
<1>6. /\ Ops' = [Ops EXCEPT ![q] = o] /\ RunsOf' = [RunsOf EXCEPT ![q] = x]
      /\ Replies' = Replies
  BY <1>1, <1>2, MappedRows
<1>7. x \in Service!Known \cup {Nobody}
  BY <1>1 DEF Service!Known, Known
<1>8. x # Nobody <=> o \in Service!OfOneRun
  BY <1>1 DEF AfterFetch, Service!OfOneRun
<1>9. o \in Service!Operations
  BY DEF Operations, Service!Operations, Service!OfOneRun
<1> HIDE DEF x
<1>10. Service!Ask(q)
  BY ONLY q \in Requests, <1>2, <1>6, <1>7, <1>8, <1>9
     DEF Service!Ask, Service!records, Ops, RunsOf, Replies
<1> QED
  BY <1>5, <1>10 DEF ServesAsPromised, Service!Serve

LEMMA LogServes ==
    ASSUME SInv, NEW q \in Requests, LogRun(q)
    PROVE  ServesAsPromised(q)
<1> USE ServiceFacts
<1>1. PICK r \in Runs :
         /\ r \notin Known /\ runs' = [runs EXCEPT ![r] = NewRun]
         /\ RequestType' /\ OthersKept(q) /\ request'[q].run = r
         /\ request'[q].phase = IF request[q].op = "benchmark" THEN "evaluating" ELSE "auditing"
         /\ request'[q].op = request[q].op /\ request'[q].deleted = request[q].deleted
         /\ request'[q].answer = request[q].answer
  BY LoggedRow
<1>2. /\ request[q].op \in {"run", "benchmark"} /\ request[q].answer = "none"
      /\ request[q].run = Nobody /\ UNCHANGED <<memory, audit, remover>>
  BY DEF LogRun, RequestOK, Fits, ServiceOK
<1>3. Stored' = Stored \cup {r} /\ Evaluated' = Evaluated
  <2>1. runs'[r] = NewRun /\ \A x \in Runs : x # r => runs'[x] = runs[x]
    BY <1>1 DEF RunsOK
  <2>2. r \notin Stored
    BY <1>1 DEF Known
  <2> QED
    BY <2>1, <2>2, NewRows DEF Stored, Evaluated
<1>4. Serves(q)
  <2>1. RemoverOnly(q) /\ \A x \in Runs : remover'[x] = q => Removes(q, x)'
    BY <1>1, <1>2, SameRemover
  <2> QED
    BY <1>1, <1>2, <2>1 DEF Serves, ServiceOK
<1>5. Ops' = Ops /\ RunsOf' = [RunsOf EXCEPT ![q] = r] /\ Replies' = Replies
  BY <1>1, MappedRows
<1>6. r \in Runs \ Service!Known
  BY <1>1 DEF Known, Service!Known
<1>7. Service!Keep(q)
  BY ONLY q \in Requests, <1>2, <1>3, <1>5, <1>6
     DEF Service!Keep, Service!Pending, Ops, RunsOf, Replies
<1> QED
  BY <1>4, <1>7 DEF ServesAsPromised, Service!Serve

(* An answer, or none, that says nothing that was not so before.             *)
LEMMA AnswerServes ==
    ASSUME SInv, NEW q \in Requests, NEW answer \in {"ok", "not_found", "error"},
           Answers(q, answer), UNCHANGED <<memory, remover, Stored, Evaluated>>
    PROVE  Serves(q) /\ Service!Tell(q, answer)
<1> USE ServiceFacts
<1>1. /\ OthersKept(q) /\ request'[q].phase = "done"
      /\ request'[q].op = request[q].op /\ request'[q].run = request[q].run
      /\ request'[q].deleted = request[q].deleted /\ request'[q].answer = answer
  BY AnswersRow
<1>2. Serves(q)
  <2>1. RemoverOnly(q) /\ \A r \in Runs : remover'[r] = q => Removes(q, r)'
    BY <1>1, SameRemover
  <2> QED
    BY <1>1, <2>1 DEF Serves, ServiceOK
<1>3. Ops' = Ops /\ RunsOf' = RunsOf /\ Replies' = [Replies EXCEPT ![q] = answer]
  BY <1>1, MappedRows
<1>4. UNCHANGED <<memory, remover, Stored, Evaluated>>
  OBVIOUS
<1>5. Service!Tell(q, answer)
  BY ONLY <1>3, <1>4 DEF Service!Tell, Service!records, Ops, RunsOf, Replies
<1> QED
  BY <1>2, <1>5

(* A run that is known and not stored is gone for the service, too.          *)
LEMMA MappedGone ==
    ASSUME NEW q \in Requests
    PROVE  /\ Service!Gone = Known \ Stored /\ Service!Known = Known
           /\ Ops[q] = request[q].op /\ RunsOf[q] = request[q].run
           /\ Replies[q] = request[q].answer
BY DEF Service!Gone, Service!Known, Known, Ops, RunsOf, Replies

LEMMA FetchServes ==
    ASSUME SInv, NEW q \in Requests, Fetch(q)
    PROVE  ServesAsPromised(q)
<1> USE ServiceFacts
<1> DEFINE o == request[q].op
<1>1. /\ o \in {"evaluate", "detail", "delete"} /\ request[q].run \in Known
      /\ request[q].answer = "none" /\ ~request[q].deleted
      /\ UNCHANGED <<memory, audit, remover, Stored, Evaluated>>
  BY DEF Fetch, RequestOK, Fits, NamesKnown, Claims, tables, Stored, Evaluated
<1>2. CASE request[q].run \in Stored
  <2>1. /\ AfterFetch[o] \in {"evaluating", "auditing", "deleting"}
        /\ GoesTo(q, AfterFetch[o])
    BY <1>1, <1>2 DEF Fetch, AfterFetch
  <2>2. /\ OthersKept(q) /\ request'[q].phase = AfterFetch[o]
        /\ request'[q].op = request[q].op /\ request'[q].run = request[q].run
        /\ request'[q].deleted = request[q].deleted /\ request'[q].answer = request[q].answer
    <3>1. AfterFetch[o] \in Phases
      BY <2>1 DEF Phases
    <3> QED
      BY <2>1, <3>1, GoesToRow
  <2>3. RemoverOnly(q) /\ \A r \in Runs : remover'[r] = q => Removes(q, r)'
    BY <1>1, <2>2, SameRemover
  <2>4. Serves(q)
    BY <1>1, <2>1, <2>2, <2>3 DEF Serves, ServiceOK
  <2>5. UNCHANGED Service!serviceVars
    BY <1>1, <2>2, SilentStep
  <2> QED
    BY <2>4, <2>5 DEF ServesAsPromised
<1>3. CASE request[q].run \notin Stored
  <2>1. PICK a \in {"ok", "not_found"} :
           Answers(q, a) /\ a = IF o = "delete" THEN "ok" ELSE "not_found"
    BY <1>3 DEF Fetch
  <2>2. Serves(q) /\ Service!Tell(q, a)
    BY <1>1, <2>1, AnswerServes
  <2>3. RunsOf[q] \in Service!Gone /\ Ops[q] = o /\ Replies[q] = "none"
    BY <1>1, <1>3, MappedGone
  <2>4. audit' = audit
    BY <1>1
  <2>5. CASE o = "delete"
    <3>1. remover[RunsOf[q]] # q
      BY <1>1, <1>3, <2>5, MappedGone DEF ServiceOK, Removes, Known
    <3>2. Service!Tell(q, "ok")
      BY <2>1, <2>2, <2>5
    <3>3. Service!ConfirmUnlogged(q)
      BY ONLY <2>3, <2>4, <2>5, <3>1, <3>2
         DEF Service!ConfirmUnlogged, Service!Pending, Ops, RunsOf, Replies
    <3> QED
      BY <2>2, <3>3 DEF ServesAsPromised, Service!Serve
  <2>6. CASE o # "delete"
    <3>1. Service!Tell(q, "not_found") /\ o \in {"evaluate", "detail"}
      BY <1>1, <2>1, <2>2, <2>6
    <3>2. Service!NotFound(q)
      BY ONLY <2>3, <2>4, <3>1
         DEF Service!NotFound, Service!Pending, Ops, RunsOf, Replies
    <3> QED
      BY <2>2, <3>2 DEF ServesAsPromised, Service!Serve
  <2> QED
    BY <2>5, <2>6
<1> QED
  BY <1>2, <1>3

(* An evaluation reaches a row that is there, and no other.                  *)
LEMMA StoreServes ==
    ASSUME SInv, NEW q \in Requests, StoreEvaluation(q)
    PROVE  ServesAsPromised(q)
<1> USE ServiceFacts
<1> DEFINE r == request[q].run
<1>1. /\ request[q].op \in {"evaluate", "benchmark"} /\ r \in Known
      /\ request[q].answer = "none" /\ UNCHANGED <<memory, audit, remover>>
  BY DEF StoreEvaluation, RequestOK, Fits, NamesKnown
<1>2. /\ OthersKept(q) /\ request'[q].op = request[q].op /\ request'[q].run = r
      /\ request'[q].deleted = request[q].deleted
      /\ \/ /\ request[q].op = "benchmark" /\ request'[q].phase = "done"
            /\ request'[q].answer = "ok" /\ Answers(q, "ok")
         \/ /\ request[q].op = "evaluate" /\ request'[q].phase = "auditing"
            /\ request'[q].answer = "none"
  <2>1. CASE request[q].op = "benchmark"
    BY <2>1, AnswersRow DEF StoreEvaluation
  <2>2. CASE request[q].op # "benchmark"
    BY <1>1, <2>2, GoesToRow DEF StoreEvaluation, Phases
  <2> QED
    BY <2>1, <2>2
<1>3. Serves(q)
  <2>1. RemoverOnly(q) /\ \A x \in Runs : remover'[x] = q => Removes(q, x)'
    BY <1>1, <1>2, SameRemover
  <2> QED
    BY <1>2, <2>1 DEF Serves, ServiceOK
<1>4. /\ Ops' = Ops /\ RunsOf' = RunsOf
      /\ Replies' = [Replies EXCEPT ![q] = request'[q].answer]
      /\ request'[q].answer = request[q].answer => Replies' = Replies
      /\ Ops[q] = request[q].op /\ RunsOf[q] = r /\ Replies[q] = "none"
      /\ Service!Gone = Known \ Stored
  BY <1>1, <1>2, MappedRows, MappedGone
<1>5. CASE r \in Stored
  <2>1. Stored' = Stored /\ Evaluated' = Evaluated \cup {r}
    <3>1. runs' = [runs EXCEPT ![r].evaluation = q]
      BY <1>5 DEF StoreEvaluation
    <3>2. /\ runs'[r].evaluation = q /\ runs'[r].stored = runs[r].stored
          /\ \A x \in Runs : x # r => runs'[x] = runs[x]
      BY <1>5, <3>1 DEF RunsOK, RunRow, Stored
    <3> QED
      BY <1>5, <3>2 DEF Stored, Evaluated
  <2>2. Replies' = IF Ops[q] = "benchmark" THEN [Replies EXCEPT ![q] = "ok"] ELSE Replies
    BY <1>1, <1>2, <1>4
  <2>3. RunsOf[q] \in Stored /\ Evaluated' = Evaluated \cup {RunsOf[q]}
    BY <1>4, <1>5, <2>1
  <2>4. Ops[q] \in {"evaluate", "benchmark"}
    BY <1>1, <1>4
  <2>5. Service!Evaluate(q)
    BY ONLY q \in Requests, <1>1, <1>4, <2>1, <2>2, <2>3, <2>4
       DEF Service!Evaluate, Service!Pending, Ops, RunsOf, Replies
  <2> QED
    BY <1>3, <2>5 DEF ServesAsPromised, Service!Serve
<1>6. CASE r \notin Stored
  <2>1. UNCHANGED <<Stored, Evaluated>>
    BY <1>6 DEF StoreEvaluation, Stored, Evaluated
  <2>2. CASE request[q].op = "benchmark"
    <3>1. Service!Tell(q, "ok")
      BY <1>1, <1>2, <2>1, <2>2, AnswerServes
    <3>2. RunsOf[q] \in Service!Gone /\ Ops[q] = "benchmark"
      BY <1>1, <1>4, <1>6, <2>2
    <3>3. Service!ConfirmUnlogged(q)
      BY ONLY <1>1, <1>4, <3>1, <3>2
         DEF Service!ConfirmUnlogged, Service!Pending, Ops, RunsOf, Replies
    <3> QED
      BY <1>3, <3>3 DEF ServesAsPromised, Service!Serve
  <2>3. CASE request[q].op # "benchmark"
    BY <1>1, <1>2, <1>3, <2>1, <2>3, SilentStep DEF ServesAsPromised
  <2> QED
    BY <2>2, <2>3
<1> QED
  BY <1>5, <1>6

(* The deletion of a run that is gone is silent; otherwise it is this        *)
(* request that removes the run, and its row says so.                        *)
LEMMA DeleteServes ==
    ASSUME SInv, NEW q \in Requests, DeleteRun(q)
    PROVE  ServesAsPromised(q)
<1> USE ServiceFacts
<1> DEFINE S == {request[q].run} \cap Stored
<1>1. /\ request[q].op = "delete" /\ request[q].answer = "none" /\ ~request[q].deleted
      /\ Remove(S, q) /\ UNCHANGED <<memory, audit>>
  BY DEF DeleteRun, RequestOK, Fits, ServiceOK
<1>2. PICK b \in BOOLEAN :
         /\ b <=> S # {}
         /\ request' = [request EXCEPT ![q].phase = "auditing", ![q].deleted = b]
  BY Zenon DEF DeleteRun
<1>3. /\ OthersKept(q) /\ request'[q].phase = "auditing"
      /\ request'[q].op = request[q].op /\ request'[q].run = request[q].run
      /\ (request'[q].deleted <=> S # {}) /\ request'[q].answer = request[q].answer
  BY <1>2, DeletedRow
<1>4. /\ Stored' = Stored \ S /\ Evaluated' = Evaluated \ S
      /\ remover' = [r \in Runs |-> IF r \in S THEN q ELSE remover[r]]
  <2>1. S \in SUBSET Stored /\ Remove(S, q) /\ RunsOK /\ q \in Requests \cup {Retention}
    BY <1>1
  <2> HIDE DEF S
  <2> QED
    BY ONLY <2>1, RemovedRuns
<1>5. \A r \in Runs : remover[r] # q
  BY <1>1 DEF ServiceOK, Removes
<1>6. Serves(q)
  <2>1. \A r \in Runs : remover'[r] = q => Removes(q, r)'
    BY <1>1, <1>3, <1>4, <1>5 DEF Removes
  <2>2. RemoverOnly(q)
    BY <1>4 DEF RemoverOnly
  <2> QED
    BY <1>1, <1>3, <2>1, <2>2 DEF Serves, ServiceOK
<1>7. CASE S = {}
  <2>1. UNCHANGED <<memory, remover, audit, Stored, Evaluated>>
    BY <1>1, <1>4, <1>7 DEF RunsOK
  <2> QED
    BY <1>3, <1>6, <2>1, SilentStep DEF ServesAsPromised
<1>8. CASE S # {}
  <2>1. Ops' = Ops /\ RunsOf' = RunsOf /\ Replies' = Replies
    BY <1>3, MappedRows
  <2>2. /\ Ops[q] = "delete" /\ Replies[q] = "none" /\ RunsOf[q] \in Stored
        /\ S = {RunsOf[q]}
    BY <1>1, <1>8, MappedGone
  <2>3. /\ Stored' = Stored \ {RunsOf[q]} /\ Evaluated' = Evaluated \ {RunsOf[q]}
        /\ remover' = [r \in Runs |-> IF r \in {RunsOf[q]} THEN q ELSE remover[r]]
        /\ UNCHANGED <<memory, audit>>
    BY <1>1, <1>4, <2>2
  <2>4. Service!Delete(q)
    BY ONLY q \in Requests, <2>1, <2>2, <2>3
       DEF Service!Delete, Service!Remove, Service!Pending, Ops, RunsOf, Replies
  <2> QED
    BY <1>6, <2>4 DEF ServesAsPromised, Service!Serve
<1> QED
  BY <1>7, <1>8

LEMMA PurgeServes ==
    ASSUME SInv, NEW q \in Requests, PurgeRuns(q)
    PROVE  ServesAsPromised(q)
<1> USE ServiceFacts
<1>1. PICK S \in SUBSET Stored : Remove(S, q)
  BY DEF PurgeRuns
<1>2. /\ request[q].op = "purge" /\ request[q].answer = "none" /\ UNCHANGED <<memory, audit>>
  BY DEF PurgeRuns, RequestOK, Fits
<1>3. /\ OthersKept(q) /\ request'[q].phase = "auditing"
      /\ request'[q].op = request[q].op /\ request'[q].run = request[q].run
      /\ request'[q].answer = request[q].answer
  BY GoesToRow DEF PurgeRuns, Phases
<1>4. /\ Stored' = Stored \ S /\ Evaluated' = Evaluated \ S
      /\ remover' = [r \in Runs |-> IF r \in S THEN q ELSE remover[r]]
  BY <1>1, RemovedRuns
<1>5. Serves(q)
  BY <1>2, <1>3, <1>4 DEF Serves, ServiceOK, Removes, RemoverOnly
<1>6. /\ Ops' = Ops /\ RunsOf' = RunsOf /\ Replies' = Replies
      /\ Ops[q] = "purge" /\ Replies[q] = "none"
  BY <1>2, <1>3, MappedRows, MappedGone
<1>7. Service!Remove(S, q)
  BY ONLY <1>2, <1>4, <1>6 DEF Service!Remove, Ops, RunsOf, Replies
<1>8. Service!Purge(q)
  BY ONLY S \in SUBSET Stored, <1>6, <1>7 DEF Service!Purge, Service!Pending, Ops, RunsOf, Replies
<1> QED
  BY <1>5, <1>8 DEF ServesAsPromised, Service!Serve

(* The event says what the row says, and the row says who removed the run.   *)
LEMMA AuditServes ==
    ASSUME SInv, NEW q \in Requests, Audit(q)
    PROVE  ServesAsPromised(q)
<1> USE ServiceFacts
<1>1. /\ request[q].phase = "auditing" /\ request[q].answer = "none"
      /\ request[q].op \in Operations \ {"benchmark"} /\ Answers(q, "ok")
      /\ UNCHANGED <<memory, remover, Stored, Evaluated>>
  BY Facts DEF Audit, RequestOK, Fits, ServiceOK, Stored, Evaluated
<1>2. Serves(q) /\ Service!Tell(q, "ok")
  BY <1>1, AnswerServes
<1>3. \A e \in audit : e.request # q
  BY <1>1 DEF IInv, EventOK
<1>4. PICK claim \in BOOLEAN :
         /\ claim <=> request[q].deleted
         /\ audit' = audit \cup {[request |-> q, deleted |-> claim]}
  <2>1. request[q].deleted \in BOOLEAN
    BY DEF RequestType, RequestRow
  <2> QED
    BY <2>1 DEF Audit
<1>5. request[q].op = "delete" => (claim <=> remover[request[q].run] = q)
  <2>1. ASSUME request[q].op = "delete" PROVE request[q].run \in Runs
    BY <2>1 DEF RequestOK, NamesKnown, Known, Stored
  <2> QED
    BY <1>4, <2>1 DEF RequestOK, Claims, ServiceOK, Removes
<1>6. /\ request[q].op = "evaluate" => request[q].run \in Evaluated \cup (Known \ Stored)
      /\ request[q].op = "run" => request[q].run \in Known
      /\ request[q].op = "delete" => request[q].run \in Known \ Stored
  BY <1>1 DEF RequestOK, NamesKnown, SettledTrue, Settled, Evaluated
<1>7. Service!Satisfied(q)
  BY <1>6, MappedGone DEF Service!Satisfied, Ops, RunsOf
<1>8. Ops[q] \in Operations \ {"benchmark"} /\ Replies[q] = "none"
  BY <1>1, MappedGone
<1>9. Ops[q] = "delete" => (claim <=> remover[RunsOf[q]] = q)
  BY <1>5, MappedGone
<1>10. Operations = Service!Operations
  BY DEF Operations, Service!Operations, Service!OfOneRun
<1>11. Service!Confirm(q)
  BY ONLY claim \in BOOLEAN, <1>2, <1>3, <1>4, <1>7, <1>8, <1>9, <1>10
     DEF Service!Confirm, Service!Pending, Ops, RunsOf, Replies
<1> QED
  BY <1>2, <1>11 DEF ServesAsPromised, Service!Serve

LEMMA RaiseServes ==
    ASSUME SInv, NEW q \in Requests, Raise(q)
    PROVE  ServesAsPromised(q)
<1> USE ServiceFacts
<1>1. /\ request[q].phase \notin {"new", "done"} /\ Answers(q, "error")
      /\ UNCHANGED <<memory, audit, remover, Stored, Evaluated>>
  BY DEF Raise, InFlight, tables, Stored, Evaluated
<1>2. Serves(q) /\ Service!Tell(q, "error")
  BY <1>1, AnswerServes
<1>3. request[q].op \in Operations /\ request[q].answer = "none"
  BY <1>1, Facts DEF RequestOK, Fits
<1>4. Ops[q] \in Service!Operations /\ Replies[q] = "none"
  BY <1>3, MappedGone DEF Operations, Service!Operations, Service!OfOneRun
<1>5. audit' = audit
  BY <1>1
<1>6. Service!Fail(q)
  BY ONLY <1>2, <1>4, <1>5 DEF Service!Fail, Service!Pending, Ops, RunsOf, Replies
<1> QED
  BY <1>2, <1>6 DEF ServesAsPromised, Service!Serve

(* The start of the process, the passing of time and the kill.               *)
LEMMA ProcessServes ==
    ASSUME SInv, Startup \/ UNCHANGED vars \/ \E r \in Runs : Age(r)
    PROVE  /\ \A q \in Requests : ServiceOK(q)'
           /\ Service!Expire \/ UNCHANGED Service!serviceVars
<1>0. RunsOK /\ request' = request
  BY DEF SInv, IInv, TypeOK, RunsOK, RunRow, Startup, vars, tables, Age
<1>1. CASE Startup
  <2>1. PICK S \in SUBSET Stored : Remove(S, Retention)
    BY <1>1 DEF Startup
  <2>2. /\ Stored' = Stored \ S /\ Evaluated' = Evaluated \ S
        /\ remover' = [r \in Runs |-> IF r \in S THEN Retention ELSE remover[r]]
    BY <1>0, <2>1, RemovedRuns
  <2>3. UNCHANGED <<memory, audit, request>>
    BY <1>1 DEF Startup
  <2>4. ASSUME NEW q \in Requests PROVE ServiceOK(q)'
    BY <1>0, <2>2, RecordsAssumption DEF SInv, ServiceOK, Removes
  <2>5. Service!Remove(S, Retention)
    BY ONLY <2>2, <2>3 DEF Service!Remove
  <2>6. Service!Expire
    BY ONLY S \in SUBSET Stored, <2>5 DEF Service!Expire
  <2> QED
    BY <2>4, <2>6
<1>2. CASE UNCHANGED vars \/ \E r \in Runs : Age(r)
  <2>1. UNCHANGED <<memory, audit, request, remover>>
    BY <1>2 DEF vars, tables, Age
  <2>2. UNCHANGED <<Stored, Evaluated>>
    <3>1. CASE UNCHANGED vars
      BY <3>1 DEF vars, tables, Stored, Evaluated
    <3>2. ASSUME NEW r \in Runs, Age(r) PROVE UNCHANGED <<Stored, Evaluated>>
      BY <1>0, <3>2 DEF Age, RunsOK, RunRow, Stored, Evaluated
    <3> QED
      BY <1>2, <3>1, <3>2
  <2>3. \A q \in Requests : ServiceOK(q)'
    BY <2>1 DEF SInv, ServiceOK, Removes
  <2>4. UNCHANGED Service!serviceVars
    BY ONLY <2>1, <2>2 DEF Service!serviceVars, Service!records
  <2> QED
    BY <2>3, <2>4
<1> QED
  BY <1>1, <1>2

LEMMA KillServes ==
    ASSUME SInv, Kill
    PROVE  (\A q \in Requests : ServiceOK(q)') /\ Service!LoseAnswers
<1> USE ServiceFacts
<1>1. UNCHANGED <<memory, runs, audit, remover, Stored, Evaluated>>
  BY DEF Kill, tables, Stored, Evaluated
<1>2. ASSUME NEW q \in Requests
      PROVE  /\ request'[q].op = request[q].op /\ request'[q].run = request[q].run
             /\ request'[q].deleted = request[q].deleted
             /\ IF InFlight(q) THEN request'[q].phase = "done" /\ request'[q].answer = "lost"
                ELSE request'[q] = request[q]
  <2>1. request'[q] = IF InFlight(q) THEN [request[q] EXCEPT !.phase = "done", !.answer = "lost"]
                      ELSE request[q]
    BY DEF Kill
  <2> QED
    BY <2>1 DEF RequestType, RequestRow
<1>3. ASSUME NEW q \in Requests PROVE ServiceOK(q)'
  <2>1. \A r \in Runs : remover'[r] = q => Removes(q, r)'
    BY <1>1, <1>2 DEF ServiceOK, Removes
  <2> QED
    BY <1>2, <2>1 DEF ServiceOK
<1>4. ASSUME NEW q \in Requests
      PROVE  InFlight(q) <=> Replies[q] = "none" /\ Ops[q] \in Service!Operations
  <2>1. Operations = Service!Operations /\ "none" \notin Operations
    BY DEF Operations, Service!Operations, Service!OfOneRun
  <2> QED
    BY <2>1, Facts, MappedGone DEF InFlight, RequestOK, Fits, ServiceOK
<1>5. Ops' = Ops /\ RunsOf' = RunsOf
  BY ONLY <1>2 DEF Ops, RunsOf
<1>6. ASSUME NEW q \in Requests
      PROVE  request'[q].answer = IF InFlight(q) THEN "lost" ELSE request[q].answer
  BY <1>2
<1>7. Service!LoseAnswers
  BY ONLY <1>1, <1>4, <1>5, <1>6
     DEF Service!LoseAnswers, Service!Pending, Service!records, Ops, RunsOf, Replies
<1> QED
  BY <1>3, <1>7

(* Whoever takes no step keeps its row, and nobody removes a run for it.     *)
LEMMA ServiceBystander ==
    ASSUME SInv, NEW q \in Requests, Serves(q)
    PROVE  \A p \in Requests : ServiceOK(p)'
<1>1. ASSUME NEW p \in Requests, p # q PROVE ServiceOK(p)'
  <2>1. request'[p] = request[p]
    BY <1>1 DEF Serves, OthersKept
  <2>2. \A r \in Runs : remover'[r] = p => remover[r] = p
    BY <1>1 DEF Serves, RemoverOnly
  <2> QED
    BY <2>1, <2>2 DEF SInv, ServiceOK, Removes
<1> QED
  BY <1>1 DEF Serves

LEMMA ServiceStep ==
    SInv /\ [Next]_vars => SInv' /\ (Service!SNext \/ UNCHANGED Service!serviceVars)
<1> SUFFICES ASSUME SInv, [Next]_vars
             PROVE  /\ \A q \in Requests : ServiceOK(q)'
                    /\ Service!SNext \/ UNCHANGED Service!serviceVars
  BY NextIInv DEF SInv
<1>1. ASSUME NEW q \in Requests, Handle(q)
      PROVE  /\ \A p \in Requests : ServiceOK(p)'
             /\ Service!SNext \/ UNCHANGED Service!serviceVars
  <2>1. ServesAsPromised(q)
    BY <1>1, PreferencesServe, BeginServes, LogServes, FetchServes, StoreServes, DeleteServes,
       PurgeServes, AuditServes, RaiseServes DEF Handle
  <2> QED
    BY <2>1, ServiceBystander DEF ServesAsPromised, Service!SNext
<1>2. CASE Kill
  BY <1>2, KillServes DEF Service!SNext
<1>3. CASE Startup \/ UNCHANGED vars \/ \E r \in Runs : Age(r)
  BY <1>3, ProcessServes DEF Service!SNext
<1> QED
  BY <1>1, <1>2, <1>3 DEF Next

LEMMA InitSInv == Init => SInv
<1> SUFFICES ASSUME Init, NEW q \in Requests PROVE ServiceOK(q)
  BY InitIInv DEF SInv
<1>1. request[q].phase = "new" /\ \A r \in Runs : remover[r] = Nobody
  BY DEF Init, NewRequest
<1> QED
  BY <1>1, RecordsAssumption DEF ServiceOK

LEMMA InitService == Init => Service!SInit
<1> SUFFICES ASSUME Init PROVE Service!SInit
  OBVIOUS
<1>1. Stored \in SUBSET Runs /\ remover = [r \in Runs |-> Nobody] /\ audit = {}
  BY DEF Init, Stored
<1>2. Evaluated = {}
  <2>1. \A r \in Runs : runs[r].evaluation = Nobody
    BY NewRows DEF Init
  <2> QED
    BY <2>1 DEF Evaluated, Stored
<1>3. memory.created = Nobody
  BY DEF Init, NoMemory
<1>4. \A q \in Requests : /\ request[q].op = "none" /\ request[q].run = Nobody
                          /\ request[q].answer = "none"
  BY DEF Init, NewRequest
<1> QED
  BY ONLY <1>1, <1>2, <1>3, <1>4 DEF Service!SInit

(* The tables and the answers implement the service (routes/runs.py,         *)
(* routes/memory.py, trace_logger.py, audit.py): with any number of          *)
(* requests, runs and kills every step is one the service allows, or none.   *)
THEOREM ImplementsServiceAlways == Spec => ImplementsService
BY InitSInv, InitService, ServiceStep, PTL DEF Spec, ImplementsService, Service!SSpec

=============================================================================
