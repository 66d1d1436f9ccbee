--------------------------- MODULE MCRateLimiter ---------------------------
(***************************************************************************)
(* Instance of RateLimiter for TLC: two interchangeable clients, a clock of *)
(* half seconds, and time beyond the window.                               *)
(***************************************************************************)
EXTENDS RateLimiter, TLC

CONSTANTS c1, c2

MCClients  == {c1, c2}
MCSymmetry == Permutations(MCClients)
=============================================================================
