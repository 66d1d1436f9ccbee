-------------------------- MODULE MCAdvisorRecords --------------------------
(***************************************************************************)
(* Instances of AdvisorRecords for TLC: interchangeable requests and runs,  *)
(* and one set of preferences that differs from the defaults.               *)
(***************************************************************************)
EXTENDS AdvisorRecords, TLC

CONSTANTS q1, q2, q3, r1, r2, p1

MCRequests2 == {q1, q2}
MCRequests3 == {q1, q2, q3}
MCRuns1 == {r1}
MCRuns2 == {r1, r2}
MCPreferences == {p1}

MCSymmetry == Permutations(MCRequests3) \cup Permutations(MCRuns2)
=============================================================================
