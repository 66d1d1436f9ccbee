------------------------ MODULE MCPromptOptimisation ------------------------
(***************************************************************************)
(* Instance of PromptOptimisation for TLC: two executor threads, which are  *)
(* interchangeable.                                                         *)
(***************************************************************************)
EXTENDS PromptOptimisation, TLC

CONSTANTS o1, o2

MCOptimisers == {o1, o2}
MCSymmetry == Permutations(MCOptimisers)
=============================================================================
