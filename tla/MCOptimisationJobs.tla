------------------------- MODULE MCOptimisationJobs -------------------------
(***************************************************************************)
(* Instances of OptimisationJobs for TLC: model values for the job ids,     *)
(* keys and threads, which are interchangeable for the safety runs.         *)
(***************************************************************************)
EXTENDS OptimisationJobs, TLC

CONSTANTS j1, j2, j3, k1, k2, w1, w2, s1

MCJobs2 == {j1, j2}
MCJobs3 == {j1, j2, j3}
MCKeys2 == {k1, k2}
MCWorkers1 == {w1}
MCWorkers2 == {w1, w2}
MCSubmitters1 == {s1}

MCSymmetry == Permutations(MCJobs3) \cup Permutations(MCKeys2)
              \cup Permutations(MCWorkers2)
=============================================================================
