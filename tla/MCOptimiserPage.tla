-------------------------- MODULE MCOptimiserPage --------------------------
(***************************************************************************)
(* Instance of OptimiserPage for TLC: two agents to change between, one     *)
(* job of either agent, and two loads, so that one can be answered late.    *)
(***************************************************************************)
EXTENDS OptimiserPage

CONSTANTS a1, a2, j1

MCAgents == {a1, a2}
MCJobs   == {j1}
=============================================================================
