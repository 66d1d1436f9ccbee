--------------------------- MODULE RecordService ---------------------------
(***************************************************************************)
(* What the API promises about one advisor's records, with no mention of    *)
(* handlers, phases, transactions or rows.                                  *)
(*                                                                          *)
(* A run is kept once, may be evaluated while it is kept, and is removed    *)
(* once.  What a request does to the records it does while it is pending,   *)
(* and only what was asked.  An answer says what is the case when it is     *)
(* given; it comes with an event in the trail, unless nothing was done or   *)
(* nobody asked from outside; and a deletion is claimed by exactly the one  *)
(* who removed the run.  A stop of the process loses answers and no record. *)
(***************************************************************************)
CONSTANTS Requests, Runs,
          Nobody,     \* no request and no run
          Retention   \* the start of the process, when it removes old runs

VARIABLES kept,       \* the runs that are kept
          removed,    \* Runs -> who removed a run
          evaluated,  \* the runs that are kept with an evaluation
          since,      \* who created the preferences row, when there is one
          trail,      \* the events that were logged
          op,         \* Requests -> what was asked
          run,        \* Requests -> the run it was asked of, or that it made
          answer      \* Requests -> what was answered

records == <<kept, removed, evaluated, since>>
serviceVars == <<records, trail, op, run, answer>>

Known == kept \cup {r \in Runs : removed[r] # Nobody}
Gone  == Known \ kept

Pending(q, ops) == answer[q] = "none" /\ op[q] \in ops
OfOneRun   == {"evaluate", "detail", "delete"}
Operations == OfOneRun \cup {"get", "update", "forget", "run", "benchmark", "purge"}

SInit ==
    /\ kept \in SUBSET Runs
    /\ removed = [r \in Runs |-> Nobody]
    /\ evaluated = {}
    /\ since \in {{}, {Nobody}}
    /\ trail = {}
    /\ op = [q \in Requests |-> "none"]
    /\ run = [q \in Requests |-> Nobody]
    /\ answer = [q \in Requests |-> "none"]

Ask(q) ==
    /\ op[q] = "none"
    /\ \E o \in Operations : \E r \in Known \cup {Nobody} :
          /\ r # Nobody <=> o \in OfOneRun
          /\ op' = [op EXCEPT ![q] = o]
          /\ run' = [run EXCEPT ![q] = r]
    /\ UNCHANGED <<records, trail, answer>>

-----------------------------------------------------------------------------
(* What requests do to the records.                                          *)
Put(q) ==
    /\ Pending(q, {"get", "update"})
    /\ since' = IF since = {} THEN {q} ELSE since
    /\ UNCHANGED <<kept, removed, evaluated, trail, op, run, answer>>

Forget(q) ==
    /\ Pending(q, {"forget"})
    /\ since' = {}
    /\ UNCHANGED <<kept, removed, evaluated, trail, op, run, answer>>

Keep(q) ==
    /\ Pending(q, {"run", "benchmark"})
    /\ run[q] = Nobody
    /\ \E r \in Runs \ Known :
          /\ kept' = kept \cup {r}
          /\ run' = [run EXCEPT ![q] = r]
    /\ UNCHANGED <<removed, evaluated, since, trail, op, answer>>

(* Nobody waits for the confirmation of a benchmark.                         *)
Evaluate(q) ==
    /\ Pending(q, {"evaluate", "benchmark"})
    /\ run[q] \in kept
    /\ evaluated' = evaluated \cup {run[q]}
    /\ answer' = IF op[q] = "benchmark" THEN [answer EXCEPT ![q] = "ok"] ELSE answer
    /\ UNCHANGED <<kept, removed, since, trail, op, run>>

Remove(S, who) ==
    /\ kept' = kept \ S
    /\ evaluated' = evaluated \ S
    /\ removed' = [r \in Runs |-> IF r \in S THEN who ELSE removed[r]]
    /\ UNCHANGED <<since, trail, op, run, answer>>

Delete(q) == Pending(q, {"delete"}) /\ run[q] \in kept /\ Remove({run[q]}, q)
Purge(q)  == Pending(q, {"purge"}) /\ \E S \in SUBSET kept : Remove(S, q)
Expire    == \E S \in SUBSET kept : Remove(S, Retention)

-----------------------------------------------------------------------------
(* What requests are told.                                                   *)

(* What was asked of a run is the case.                                      *)
Satisfied(q) ==
    /\ op[q] = "evaluate" => run[q] \in evaluated \cup Gone
    /\ op[q] = "run" => run[q] \in Known
    /\ op[q] = "delete" => run[q] \in Gone

Tell(q, what) == answer' = [answer EXCEPT ![q] = what] /\ UNCHANGED <<records, op, run>>

Confirm(q) ==
    /\ Pending(q, Operations \ {"benchmark"})
    /\ Satisfied(q)
    /\ \A e \in trail : e.request # q
    /\ \E claim \in BOOLEAN :
          /\ op[q] = "delete" => (claim <=> removed[run[q]] = q)
          /\ trail' = trail \cup {[request |-> q, deleted |-> claim]}
    /\ Tell(q, "ok")

ConfirmUnlogged(q) ==
    /\ \/ Pending(q, {"benchmark"}) /\ run[q] \in Gone
       \/ Pending(q, {"delete"}) /\ run[q] \in Gone /\ removed[run[q]] # q
    /\ Tell(q, "ok") /\ UNCHANGED trail

NotFound(q) ==
    /\ Pending(q, {"evaluate", "detail"})
    /\ run[q] \in Gone
    /\ Tell(q, "not_found") /\ UNCHANGED trail

Fail(q) == Pending(q, Operations) /\ Tell(q, "error") /\ UNCHANGED trail

LoseAnswers ==
    /\ answer' = [q \in Requests |-> IF Pending(q, Operations) THEN "lost" ELSE answer[q]]
    /\ UNCHANGED <<records, trail, op, run>>

-----------------------------------------------------------------------------
Serve(q) ==
    \/ Ask(q)
    \/ Put(q) \/ Forget(q)
    \/ Keep(q) \/ Evaluate(q) \/ Delete(q) \/ Purge(q)
    \/ Confirm(q) \/ ConfirmUnlogged(q) \/ NotFound(q) \/ Fail(q)

SNext == (\E q \in Requests : Serve(q)) \/ LoseAnswers \/ Expire

SSpec == SInit /\ [][SNext]_serviceVars
=============================================================================
