------------------------ MODULE MCParetoSelection ------------------------
(***************************************************************************)
(* Instances of ParetoSelection for TLC.  Every value lies at or next to    *)
(* the bound of a guardrail, and the products of the multipliers are exact  *)
(* as doubles: 1.20 * 1000 ms and 1.10 * 100000 units of 1e-8 dollars.      *)
(***************************************************************************)
EXTENDS ParetoSelection

Of(qualities, safeties, latencies, costs) ==
    [quality : qualities, safety : safeties, latency : latencies, cost : costs]

(* 4.150 - 4.100 is 0.05 as doubles subtract.                                *)
MCBaselines    == Of({4100}, {4500}, {1000}, {0, 100000})
MCMeasurements == Of({4149, 4150, 4200}, {4400, 4500}, {900, 1200, 1201}, {0, 110000})

(* 4.050 - 4.000 and 4.100 - 4.050 are less, 4.150 - 4.100 is not.           *)
MCGateBaselines    == Of({4000, 4050, 4100}, {4500}, {1000}, {0, 100000})
MCGateMeasurements == Of({4000, 4050, 4100, 4150}, {4500}, {900, 1000}, {0, 100000})
=============================================================================
