---------------------------- MODULE MCMigrations ----------------------------
(***************************************************************************)
(* Instance of Migrations for TLC: two agents, so that one may lack a       *)
(* baseline or be activated before the other, and two kills, the second in  *)
(* the repetition of what the first one interrupted.                        *)
(***************************************************************************)
EXTENDS Migrations, TLC

CONSTANTS a1, a2

MCAgents   == {a1, a2}
MCSymmetry == Permutations(MCAgents)
=============================================================================
