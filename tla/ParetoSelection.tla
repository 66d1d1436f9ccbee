-------------------------- MODULE ParetoSelection --------------------------
(***************************************************************************)
(* How an optimisation chooses among its candidates: the guardrails and the *)
(* Pareto frontier of backend/optimisation/pareto.py, over the means that   *)
(* metrics.average_quality rounded.                                         *)
(*                                                                          *)
(* Quality and safety are in thousandths, which is what the rounding leaves *)
(* of them; latency and cost are whole numbers of their smallest unit.  The *)
(* code computes with doubles.  Sums and products are exact here; the one   *)
(* difference it takes, of two qualities, is compared as doubles compare.   *)
(***************************************************************************)
EXTENDS Integers, Sequences, SequencesExt

CONSTANTS
    Baselines,            \* the metrics the active prompt may have
    Measurements,         \* the metrics a candidate may have
    MaxVariants,          \* max_variants of a request
    MinimumQualityDelta,  \* the selection policy, in thousandths
    SafetyTolerance,      \* in thousandths
    LatencyPercent,       \* latency_tolerance_ratio, in hundredths
    CostPercent           \* cost_tolerance_ratio, in hundredths

Metrics == [quality : Nat, safety : Nat, latency : Nat, cost : Nat]

(* Scores lie between 1 and 5.  The policy is any that has at most three     *)
(* decimals in its scores and two in its ratios.                             *)
ASSUME SelectionAssumption ==
    /\ Baselines \subseteq Metrics
    /\ Measurements \subseteq Metrics
    /\ \A m \in Baselines \cup Measurements : m.quality \in 1000 .. 5000
    /\ MaxVariants \in Nat \ {0}
    /\ MinimumQualityDelta \in Nat
    /\ SafetyTolerance \in Nat
    /\ LatencyPercent \in Nat
    /\ CostPercent \in Nat

VARIABLES
    baseline,   \* the metrics of the active prompt
    measured,   \* the metrics of the candidates, in the order of the variants
    selected,   \* the selected candidates, best first
    decisions   \* what the result says of each candidate

vars == <<baseline, measured, selected, decisions>>

-----------------------------------------------------------------------------
(* The quality gate.  A decimal q / 1000 becomes the nearest double, off by  *)
(* RoundingError(q) / 125 units in the last place.                           *)

Exponent(q) ==
    CHOOSE e \in -10 .. 2 : 1024 * q \in 1000 * 2^(e + 10) .. 1000 * 2^(e + 11) - 1

TwoToTheModulo125(n) == ((2^30 % 125) * (2^(n - 30) % 125)) % 125

RoundingError(q) ==
    LET remainder == ((q % 125) * TwoToTheModulo125(49 - Exponent(q))) % 125
    IN  IF remainder <= 62 THEN -remainder ELSE 125 - remainder

(* The error in one unit for all three numbers, a 125th of 2^-62.            *)
ScaledError(q) == IF q = 0 THEN 0 ELSE RoundingError(q) * 2^(10 + Exponent(q))

(* a/1000 - b/1000 < d/1000, as doubles, when a - b = d.  Above 2 the        *)
(* difference is rounded once more: by half a unit in the last place, a tie  *)
(* towards the even neighbour.                                               *)
HalfUnit == 125 * 2^10

RoundedBelow(a, b, d) ==
    LET excess == ScaledError(a) - ScaledError(b) - ScaledError(d)
    IN  IF d <= 2000 THEN excess < 0
        ELSE excess < -HalfUnit \/ (excess = -HalfUnit /\ RoundingError(d) % 2 = 1)

QualityTooLow(c, b) ==
    LET delta == c.quality - b.quality
    IN  \/ delta < MinimumQualityDelta
        \/ /\ delta = MinimumQualityDelta
           /\ RoundedBelow(c.quality, b.quality, MinimumQualityDelta)

SafetyTooLow(c, b) == c.safety + SafetyTolerance < b.safety

(* Mutant: the multiplier is taken as a floor.                               *)
LatencyTooLow(c, b) == 100 * c.latency < b.latency * LatencyPercent

LatencyTooHigh(c, b) == 100 * c.latency > b.latency * LatencyPercent

CostTooHigh(c, b) == 100 * c.cost > b.cost * CostPercent

Passes(c, b) ==
    /\ ~QualityTooLow(c, b)
    /\ ~SafetyTooLow(c, b)
    /\ ~LatencyTooHigh(c, b)
    /\ ~CostTooHigh(c, b)

-----------------------------------------------------------------------------
(* The frontier.                                                             *)

NoWorse(c, d) ==
    /\ c.quality >= d.quality
    /\ c.safety >= d.safety
    /\ c.latency <= d.latency
    /\ c.cost <= d.cost

(* Mutant: equal candidates dominate each other.                             *)
DominatesOrEquals(c, d) == NoWorse(c, d)

dominates(c, d) ==
    /\ NoWorse(c, d)
    /\ \/ c.quality > d.quality
       \/ c.safety > d.safety
       \/ c.latency < d.latency
       \/ c.cost < d.cost

Candidates == 1 .. Len(measured)
Qualified  == {i \in Candidates : Passes(measured[i], baseline)}

Frontier(S) ==
    {i \in S : \A j \in S \ {i} : ~dominates(measured[j], measured[i])}

(* The sort key: quality, then safety, then low cost, then low latency.      *)
Better(c, d) ==
    \/ c.quality > d.quality
    \/ /\ c.quality = d.quality
       /\ \/ c.safety > d.safety
          \/ /\ c.safety = d.safety
             /\ \/ c.cost < d.cost
                \/ c.cost = d.cost /\ c.latency < d.latency

(* Mutant: the sort is ascending.                                            *)
WorstFirst(i, j) ==
    \/ Better(measured[j], measured[i])
    \/ ~Better(measured[i], measured[j]) /\ i < j

(* The sort is stable: equal candidates keep the order of the variants.      *)
Precedes(i, j) ==
    \/ Better(measured[i], measured[j])
    \/ ~Better(measured[j], measured[i]) /\ i < j

Sorted(S) ==
    CHOOSE s \in SetToSeqs(S) :
        \A k, l \in DOMAIN s : k < l => Precedes(s[k], s[l])

-----------------------------------------------------------------------------
Init ==
    /\ baseline \in Baselines
    /\ measured = <<>>
    /\ selected = <<>>
    /\ decisions = <<>>

(* The benchmark of one more variant returns its means.                      *)
Measure ==
    /\ decisions = <<>>
    /\ Len(measured) < MaxVariants
    /\ \E m \in Measurements : measured' = Append(measured, m)
    /\ UNCHANGED <<baseline, selected, decisions>>

(* select_candidates_with_policy, over however many variants were generated. *)
Select ==
    /\ decisions = <<>>
    /\ measured # <<>>
    /\ selected' = Sorted(Frontier(Qualified))
    /\ decisions' = [i \in Candidates |->
                        [qualifies |-> i \in Qualified,
                         selected  |-> i \in Frontier(Qualified)]]
    /\ UNCHANGED <<baseline, measured>>

Next == Measure \/ Select

Spec == Init /\ [][Next]_vars

-----------------------------------------------------------------------------
Decided == decisions # <<>>
Chosen  == {i \in DOMAIN decisions : decisions[i].selected}

(* Metrics, verdicts and the list of selected candidates are well formed,    *)
(* and the list names each candidate whose verdict is "selected" once.       *)
TypeOK ==
    /\ baseline \in Baselines
    /\ measured \in Seq(Measurements)
    /\ Len(measured) <= MaxVariants
    /\ Decided => decisions \in [Candidates -> [qualifies : BOOLEAN, selected : BOOLEAN]]
    /\ ToSet(selected) = Chosen
    /\ IsInjective(selected)

(* A selected candidate is dominated by no candidate of the optimisation,    *)
(* not even by one that a guardrail turned down: whatever dominates a        *)
(* candidate that passes also passes, rounding included, so filtering first  *)
(* never promotes a candidate another one beats on every metric.             *)
SelectedIsUndominated ==
    \A i \in Chosen, j \in Candidates : ~dominates(measured[j], measured[i])

(* A candidate that qualifies and is not selected is dominated by one that   *)
(* is: equal candidates do not eliminate each other, and an optimisation     *)
(* with a qualified candidate never selects nothing.                         *)
EveryQualifiedIsCovered ==
    \A i \in DOMAIN decisions :
        decisions[i].qualifies /\ ~decisions[i].selected =>
            \E j \in Chosen : dominates(measured[j], measured[i])

(* The first of the selected versions is the best by the sort key of all the *)
(* candidates that qualify, not only of the frontier: the dropped ones never *)
(* include one with a higher quality.                                        *)
FirstIsBest ==
    \A i \in DOMAIN decisions :
        decisions[i].qualifies =>
            /\ selected # <<>>
            /\ ~Better(measured[i], measured[selected[1]])

(* README.md:475: a candidate is required to improve the quality "by at      *)
(* least +0.05".  One that improves it by exactly the minimum and is worse   *)
(* in nothing else qualifies.                                                *)
MinimumGainQualifies ==
    \A i \in DOMAIN decisions :
        /\ NoWorse(measured[i], baseline)
        /\ measured[i].quality - baseline.quality = MinimumQualityDelta
        => decisions[i].qualifies

=============================================================================
