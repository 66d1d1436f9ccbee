--------------------------- MODULE PromptRegistry ---------------------------
(***************************************************************************)
(* What the table of prompt versions of one agent promises those who read   *)
(* it, with no mention of threads, names, transactions or restarts.         *)
(*                                                                          *)
(* A version is proposed once, as a refinement of one that is approved, and *)
(* judged once, together with others that refine the same; what it says and *)
(* its verdict are final.  Only approved versions become active, one at a   *)
(* time, and the active version is never lost.  A report on a batch tells   *)
(* the verdicts that were given.                                            *)
(***************************************************************************)
CONSTANTS Versions,  \* the names of versions
          Baseline   \* the version that the release ships with

VARIABLES status,    \* Versions -> the status of a version
          text,      \* Versions -> what a version says
          parent,    \* Versions -> the version it refines
          active,    \* the versions that are active
          reports    \* what was published of the batches

registryVars == <<status, text, parent, active, reports>>

Approved == {"baseline", "selected"}

RInit ==
    /\ status = [v \in Versions |-> "absent"]
    /\ text = [v \in Versions |-> Baseline]
    /\ parent = [v \in Versions |-> Baseline]
    /\ active = {}
    /\ reports = {}

Install ==
    /\ status[Baseline] = "absent"
    /\ status' = [status EXCEPT ![Baseline] = "baseline"]
    /\ text' = [text EXCEPT ![Baseline] = Baseline]
    /\ parent' = [parent EXCEPT ![Baseline] = Baseline]
    /\ UNCHANGED <<active, reports>>

Propose(v, t, p) ==
    /\ status[v] = "absent"
    /\ status[p] \in Approved
    /\ status' = [status EXCEPT ![v] = "candidate"]
    /\ text' = [text EXCEPT ![v] = t]
    /\ parent' = [parent EXCEPT ![v] = p]
    /\ UNCHANGED <<active, reports>>

(* What may be judged together: candidates that refine the same version.     *)
Judgeable(p) == {v \in Versions : status[v] = "candidate" /\ parent[v] = p}
Judged(p)    == {v \in Versions : status[v] \in {"selected", "rejected"} /\ parent[v] = p}

Judge(batch, S) ==
    /\ batch # {}
    /\ status' = [v \in Versions |->
                     IF v \notin batch THEN status[v]
                     ELSE IF v \in S THEN "selected" ELSE "rejected"]
    /\ UNCHANGED <<text, parent, active, reports>>

Report(batch, p) ==
    /\ batch # {}
    /\ reports' = reports \cup {[base |-> p, candidates |-> batch,
                                 selected |-> {v \in batch : status[v] = "selected"}]}
    /\ UNCHANGED <<status, text, parent, active>>

MakeActive(v) ==
    /\ status[v] \in Approved
    /\ active' = {v}
    /\ UNCHANGED <<status, text, parent, reports>>

RNext ==
    \/ Install
    \/ \E v, t, p \in Versions : Propose(v, t, p)
    \/ \E p \in Versions : \E batch \in SUBSET Judgeable(p) : \E S \in SUBSET batch :
          Judge(batch, S)
    \/ \E p \in Versions : \E batch \in SUBSET Judged(p) : Report(batch, p)
    \/ \E v \in Versions : MakeActive(v)

RSpec == RInit /\ [][RNext]_registryVars
=============================================================================
