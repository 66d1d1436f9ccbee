---------------------------- MODULE JobLifecycle ----------------------------
(***************************************************************************)
(* What the optimisation API promises a client about its jobs, with no      *)
(* mention of threads, queues, transactions or restarts.                    *)
(*                                                                          *)
(* A job is submitted for a key (its owner and agent type), at most one job *)
(* of a key is unfinished at any time, a job only moves forward             *)
(*      absent -> queued -> running -> completed | failed                   *)
(* and what it ends as is final.  Only a running job completes, and it      *)
(* completes with a result of its own.  A job may fail from any unfinished  *)
(* status, and a restart may fail several at once.                          *)
(***************************************************************************)
CONSTANTS Jobs,     \* the job identifiers uuid4 can draw
          Keys,     \* the (owner_id, agent_type) pairs
          NoKey     \* the key of a job that was never submitted

VARIABLES status,   \* Jobs -> the status a client reads
          key,      \* Jobs -> the key of a submitted job
          solved    \* the jobs whose row points at a result of that job

lifecycleVars == <<status, key, solved>>

Active   == {"queued", "running"}
Terminal == {"completed", "failed"}

LInit ==
    /\ status = [j \in Jobs |-> "absent"]
    /\ key = [j \in Jobs |-> NoKey]
    /\ solved = {}

Submit(j, k) ==
    /\ status[j] = "absent"
    /\ \A i \in Jobs : status[i] \in Active => key[i] # k
    /\ status' = [status EXCEPT ![j] = "queued"]
    /\ key' = [key EXCEPT ![j] = k]
    /\ UNCHANGED solved

Start(j) ==
    /\ status[j] = "queued"
    /\ status' = [status EXCEPT ![j] = "running"]
    /\ UNCHANGED <<key, solved>>

Complete(j) ==
    /\ status[j] = "running"
    /\ status' = [status EXCEPT ![j] = "completed"]
    /\ solved' = solved \cup {j}
    /\ UNCHANGED key

Fail(S) ==
    /\ S # {}
    /\ \A j \in S : status[j] \in Active
    /\ status' = [j \in Jobs |-> IF j \in S THEN "failed" ELSE status[j]]
    /\ UNCHANGED <<key, solved>>

LNext ==
    \/ \E j \in Jobs, k \in Keys : Submit(j, k)
    \/ \E j \in Jobs : Start(j) \/ Complete(j)
    \/ \E S \in SUBSET Jobs : Fail(S)

LSpec == LInit /\ [][LNext]_lifecycleVars
=============================================================================
