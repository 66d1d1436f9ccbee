----------------------- MODULE ParetoSelectionProofs -----------------------
(***************************************************************************)
(* What holds of the selection for every policy, every set of metrics and   *)
(* every number of candidates.  Dominance is a strict partial order; a      *)
(* candidate that is no worse than one that passes the guardrails passes    *)
(* them too, whatever the rounding does; and therefore no selected          *)
(* candidate is dominated by any candidate at all.  The sort key orders the *)
(* candidates totally, the first of a sorted list beats the others, and so  *)
(* the first of those that dominate a candidate is on the frontier.         *)
(***************************************************************************)
EXTENDS ParetoSelection, TLAPS, FiniteSetTheorems

(* dominates is irreflexive and transitive, so a frontier is well defined.   *)
THEOREM DominanceIsStrictOrder ==
    /\ \A c \in Metrics : ~dominates(c, c)
    /\ \A c, d, e \in Metrics : dominates(c, d) /\ dominates(d, e) => dominates(c, e)
BY DEF dominates, NoWorse, Metrics

(* The guardrails are monotone: whatever is no worse than a candidate that   *)
(* passes also passes.  The rounding of doubles only matters when both gain  *)
(* exactly the minimum, and then they have the same quality.                 *)
LEMMA GuardrailsAreMonotone ==
    ASSUME NEW b \in Metrics, NEW c \in Metrics, NEW d \in Metrics,
           NoWorse(c, d), Passes(d, b)
    PROVE  Passes(c, b)
<1>1. ~QualityTooLow(c, b)
  BY SelectionAssumption DEF QualityTooLow, NoWorse, Passes, Metrics
<1>2. ~SafetyTooLow(c, b)
  BY SelectionAssumption DEF SafetyTooLow, NoWorse, Passes, Metrics
<1>3. ~LatencyTooHigh(c, b)
  BY SelectionAssumption DEF LatencyTooHigh, NoWorse, Passes, Metrics
<1>4. ~CostTooHigh(c, b)
  BY SelectionAssumption DEF CostTooHigh, NoWorse, Passes, Metrics
<1> QED
  BY <1>1, <1>2, <1>3, <1>4 DEF Passes

-----------------------------------------------------------------------------
(* The order of the sort.  It is strict and total on the candidates, since   *)
(* the position of a variant decides between equal metrics.                  *)
THEOREM PrecedesIsStrictTotalOrder ==
    ASSUME measured \in Seq(Metrics)
    PROVE  /\ \A i \in Candidates : ~Precedes(i, i)
           /\ \A i, j \in Candidates : i # j => Precedes(i, j) \/ Precedes(j, i)
           /\ \A i, j, k \in Candidates :
                 Precedes(i, j) /\ Precedes(j, k) => Precedes(i, k)
<1>1. \A i \in Candidates : measured[i] \in Metrics /\ i \in Nat
  BY DEF Candidates
<1>2. \A c, d \in Metrics : ~(Better(c, d) /\ Better(d, c))
  BY DEF Better, Metrics
<1>3. \A c, d, e \in Metrics : Better(c, d) /\ Better(d, e) => Better(c, e)
  BY DEF Better, Metrics
<1>4. \A c, d, e \in Metrics : Better(c, e) => Better(c, d) \/ Better(d, e)
  BY DEF Better, Metrics
<1>5. \A i \in Candidates : ~Precedes(i, i)
  BY <1>1, <1>2 DEF Precedes
<1>6. \A i, j \in Candidates : i # j => Precedes(i, j) \/ Precedes(j, i)
  BY <1>1, <1>2 DEF Precedes
<1>7. ASSUME NEW i \in Candidates, NEW j \in Candidates, NEW k \in Candidates,
             Precedes(i, j), Precedes(j, k)
      PROVE  Precedes(i, k)
  <2> DEFINE c == measured[i]
             d == measured[j]
             e == measured[k]
  <2>1. c \in Metrics /\ d \in Metrics /\ e \in Metrics
    BY <1>1
  <2>2. i < j /\ j < k => i < k
    BY <1>1
  <2>3. /\ Better(c, d) \/ (~Better(d, c) /\ i < j)
        /\ Better(d, e) \/ (~Better(e, d) /\ j < k)
    BY <1>7 DEF Precedes
  <2>4. Better(c, e) \/ (~Better(e, c) /\ i < k)
    <3> HIDE DEF c, d, e
    <3> QED
      BY <2>1, <2>2, <2>3, <1>2, <1>3, <1>4, Zenon
  <2> QED
    BY <2>4 DEF Precedes
<1> QED
  BY <1>5, <1>6, <1>7

(* Where a candidate stands among those of S.                                *)
Before(S, i)  == {j \in S : Precedes(j, i)}
Position(S)   == [i \in S |-> Cardinality(Before(S, i)) + 1]
InOrder(s, S) == /\ s \in SetToSeqs(S)
                 /\ \A k, l \in DOMAIN s : k < l => Precedes(s[k], s[l])

(* Counting the candidates that come before one gives each its place, so     *)
(* there is a list of any set of candidates in the order of the sort, and    *)
(* Sorted returns one.                                                       *)
LEMMA SortedIsInOrder ==
    ASSUME measured \in Seq(Metrics), NEW S \in SUBSET Candidates
    PROVE  IsFiniteSet(S) /\ InOrder(Sorted(S), S)
<1> DEFINE n == Cardinality(S)
           p == Position(S)
<1>1. IsFiniteSet(S)
  <2>1. IsFiniteSet(Candidates)
    BY FS_Interval DEF Candidates
  <2> QED
    BY <2>1, FS_Subset
<1>2. n \in Nat
  BY <1>1, FS_CardinalityType
<1>3. ASSUME NEW i \in S
      PROVE  /\ IsFiniteSet(Before(S, i))
             /\ Cardinality(Before(S, i)) \in Nat
             /\ Cardinality(Before(S, i)) < n
  <2>1. Before(S, i) \in SUBSET S /\ i \notin Before(S, i)
    BY PrecedesIsStrictTotalOrder DEF Before
  <2>2. Cardinality(Before(S, i)) <= n /\ Cardinality(Before(S, i)) # n
    BY <2>1, <1>1, FS_Subset
  <2> QED
    BY <2>1, <2>2, <1>1, <1>2, FS_Subset, FS_CardinalityType
<1>4. ASSUME NEW i \in S, NEW j \in S, Precedes(i, j)
      PROVE  p[i] < p[j]
  <2>1. Before(S, i) \in SUBSET Before(S, j)
    BY <1>4, PrecedesIsStrictTotalOrder DEF Before
  <2>2. i \in Before(S, j) /\ i \notin Before(S, i)
    BY <1>4, PrecedesIsStrictTotalOrder DEF Before
  <2>3. /\ Cardinality(Before(S, i)) <= Cardinality(Before(S, j))
        /\ Cardinality(Before(S, i)) # Cardinality(Before(S, j))
    BY <2>1, <2>2, <1>3, FS_Subset
  <2> QED
    BY <2>3, <1>3 DEF Position
<1>5. p \in [S -> 1 .. n]
  BY <1>2, <1>3 DEF Position
<1>6. \A i, j \in S : p[i] = p[j] => i = j
  <2> SUFFICES ASSUME NEW i \in S, NEW j \in S, i # j
               PROVE  p[i] # p[j]
    OBVIOUS
  <2>1. Precedes(i, j) \/ Precedes(j, i)
    BY PrecedesIsStrictTotalOrder
  <2>2. p[i] \in Int /\ p[j] \in Int
    BY <1>5
  <2> HIDE DEF p
  <2> QED
    BY <2>1, <2>2, <1>4
<1>7. \A k \in 1 .. n : \E i \in S : p[i] = k
  <2>1. IsFiniteSet(1 .. n) /\ Cardinality(1 .. n) = n
    BY <1>2, FS_Interval
  <2>2. p \in Injection(S, 1 .. n)
    BY <1>5, <1>6 DEF Injection, IsInjective
  <2>3. p \in Surjection(S, 1 .. n)
    BY <2>1, <2>2, FS_Injection
  <2> QED
    BY <2>3 DEF Surjection
<1> DEFINE s == [k \in 1 .. n |-> CHOOSE i \in S : p[i] = k]
<1>8. \A k \in 1 .. n : s[k] \in S /\ p[s[k]] = k
  <2> SUFFICES ASSUME NEW k \in 1 .. n
               PROVE  s[k] \in S /\ p[s[k]] = k
    OBVIOUS
  <2> HIDE DEF p
  <2> QED
    BY <1>7
<1>9. s \in SetToSeqs(S)
  <2> s \in [1 .. n -> S]
    BY <1>8
  <2> \A k, l \in 1 .. n : k # l => s[k] # s[l]
    BY <1>8
  <2> HIDE DEF s
  <2> QED
    BY DEF SetToSeqs
<1>10. ASSUME NEW k \in DOMAIN s, NEW l \in DOMAIN s, k < l
       PROVE  Precedes(s[k], s[l])
  <2>1. k \in 1 .. n /\ l \in 1 .. n
    OBVIOUS
  <2> HIDE DEF s, p
  <2>2. s[k] \in S /\ s[l] \in S /\ p[s[k]] = k /\ p[s[l]] = l
    BY <2>1, <1>8
  <2>3. s[k] # s[l] /\ ~(l < k)
    BY <2>1, <2>2, <1>10, <1>2
  <2> QED
    BY <2>2, <2>3, <1>4, PrecedesIsStrictTotalOrder
<1>11. InOrder(s, S)
  <2> HIDE DEF s
  <2> QED
    BY <1>9, <1>10 DEF InOrder
<1>12. \E t \in SetToSeqs(S) :
          \A k, l \in DOMAIN t : k < l => Precedes(t[k], t[l])
  <2> HIDE DEF s
  <2> QED
    BY <1>11 DEF InOrder
<1> QED
  BY <1>1, <1>12 DEF Sorted, InOrder

(* The list names every candidate of the set, and each only once.            *)
LEMMA SortedListsAll ==
    ASSUME measured \in Seq(Metrics), NEW S \in SUBSET Candidates
    PROVE  /\ Sorted(S) \in [1 .. Cardinality(S) -> S]
           /\ Cardinality(S) \in Nat
           /\ ToSet(Sorted(S)) = S
           /\ IsInjective(Sorted(S))
<1> DEFINE s == Sorted(S)
           n == Cardinality(S)
<1>1. IsFiniteSet(S) /\ s \in SetToSeqs(S)
  BY SortedIsInOrder DEF InOrder
<1> HIDE DEF s
<1>2. n \in Nat
  BY <1>1, FS_CardinalityType
<1>3. s \in [1 .. n -> S] /\ IsInjective(s)
  BY <1>1 DEF SetToSeqs, IsInjective
<1>4. s \in Surjection(1 .. n, S)
  <2>1. s \in Injection(1 .. n, S)
    BY <1>3 DEF Injection
  <2>2. Cardinality(1 .. n) = n
    BY <1>2, FS_Interval
  <2> QED
    BY <2>1, <2>2, <1>1, FS_Injection
<1>5. ToSet(s) = S
  BY <1>3, <1>4 DEF ToSet, Surjection
<1> QED
  BY <1>2, <1>3, <1>5 DEF s

(* The first of a sorted list precedes all the others, so none of the set is *)
(* better.                                                                   *)
LEMMA FirstPrecedesAll ==
    ASSUME measured \in Seq(Metrics), NEW S \in SUBSET Candidates, S # {}
    PROVE  /\ Sorted(S) # <<>>
           /\ Sorted(S)[1] \in S
           /\ \A i \in S : /\ i # Sorted(S)[1] => Precedes(Sorted(S)[1], i)
                           /\ ~Better(measured[i], measured[Sorted(S)[1]])
<1> DEFINE s == Sorted(S)
           n == Cardinality(S)
<1>1. /\ s \in [1 .. n -> S] /\ n \in Nat /\ ToSet(s) = S
      /\ \A k, l \in DOMAIN s : k < l => Precedes(s[k], s[l])
  BY SortedListsAll, SortedIsInOrder DEF InOrder
<1> HIDE DEF s, n
<1>2. 1 \in DOMAIN s /\ s # <<>> /\ s[1] \in S
  BY <1>1 DEF ToSet
<1>3. ASSUME NEW i \in S, i # s[1]
      PROVE  Precedes(s[1], i)
  <2>1. PICK l \in DOMAIN s : s[l] = i
    BY <1>1 DEF ToSet
  <2>2. 1 < l
    BY <2>1, <1>1, <1>3
  <2> QED
    BY <2>1, <2>2, <1>1, <1>2
<1>4. ASSUME NEW i \in S
      PROVE  ~Better(measured[i], measured[s[1]])
  <2>1. measured[i] \in Metrics /\ measured[s[1]] \in Metrics
    <3>1. \A j \in Candidates : measured[j] \in Metrics
      BY DEF Candidates
    <3> QED
      BY <3>1, <1>2
  <2>2. CASE i = s[1]
    <3>1. \A c \in Metrics : ~Better(c, c)
      BY DEF Better, Metrics
    <3> QED
      BY <2>1, <2>2, <3>1
  <2>3. CASE i # s[1]
    <3>1. Better(measured[s[1]], measured[i]) \/ ~Better(measured[i], measured[s[1]])
      BY <1>3, <2>3 DEF Precedes
    <3>2. \A c, d \in Metrics : ~(Better(c, d) /\ Better(d, c))
      BY DEF Better, Metrics
    <3> QED
      BY <3>1, <3>2, <2>1
  <2> QED
    BY <2>2, <2>3
<1> QED
  BY <1>2, <1>3, <1>4 DEF s

(* What dominates a candidate is better by the sort key.                     *)
LEMMA DominatingIsBetter ==
    \A c, d \in Metrics : dominates(c, d) => Better(c, d)
BY DEF dominates, NoWorse, Better, Metrics

(* The best of a set lies on its frontier.                                   *)
LEMMA FirstIsOnFrontier ==
    ASSUME measured \in Seq(Metrics), NEW S \in SUBSET Candidates, S # {}
    PROVE  Sorted(S)[1] \in Frontier(S)
<1> DEFINE b == Sorted(S)[1]
<1>1. b \in S /\ \A i \in S : ~Better(measured[i], measured[b])
  BY FirstPrecedesAll
<1> HIDE DEF b
<1>2. \A i \in S : measured[i] \in Metrics
  BY DEF Candidates
<1>3. b \in Frontier(S)
  BY <1>1, <1>2, DominatingIsBetter DEF Frontier
<1> QED
  BY <1>3 DEF b

(* A frontier covers its set: who is dropped is dominated by one that stays. *)
(* Of those that dominate a candidate the best is dominated by none, for     *)
(* whatever dominated it would be among them.                                *)
THEOREM FrontierCovers ==
    ASSUME measured \in Seq(Metrics), NEW S \in SUBSET Candidates,
           NEW i \in S, i \notin Frontier(S)
    PROVE  \E j \in Frontier(S) : dominates(measured[j], measured[i])
<1> DEFINE D == {j \in S : dominates(measured[j], measured[i])}
           d == Sorted(D)[1]
<1>1. \A j \in S : measured[j] \in Metrics
  BY DEF Candidates
<1>2. D \in SUBSET Candidates /\ D # {}
  BY DEF Frontier
<1>3. d \in Frontier(D)
  BY <1>2, FirstIsOnFrontier
<1> HIDE DEF d
<1>4. d \in S /\ dominates(measured[d], measured[i])
  BY <1>3 DEF Frontier
<1>5. ASSUME NEW j \in S \ {d}
      PROVE  ~dominates(measured[j], measured[d])
  <2> SUFFICES ASSUME dominates(measured[j], measured[d])
               PROVE  FALSE
    OBVIOUS
  <2>1. dominates(measured[j], measured[i])
    BY <1>1, <1>4, DominanceIsStrictOrder
  <2> QED
    BY <2>1, <1>3 DEF Frontier
<1> QED
  BY <1>4, <1>5 DEF Frontier

-----------------------------------------------------------------------------
(* The verdicts and the list are the ones that the guardrails, the frontier  *)
(* and the sort give for the candidates that were measured.                  *)
Verdicts == [i \in Candidates |-> [qualifies |-> i \in Qualified,
                                   selected  |-> i \in Frontier(Qualified)]]

IInv ==
    /\ baseline \in Baselines
    /\ measured \in Seq(Measurements)
    /\ Len(measured) <= MaxVariants
    /\ Decided => decisions = Verdicts /\ selected = Sorted(Frontier(Qualified))
    /\ ~Decided => selected = <<>>

LEMMA InductiveInvariant == Spec => []IInv
<1>1. Init => IInv
  BY SelectionAssumption DEF Init, IInv, Decided
<1>2. IInv /\ [Next]_vars => IInv'
  <2> SUFFICES ASSUME IInv, [Next]_vars
               PROVE  IInv'
    OBVIOUS
  <2>1. CASE Measure
    <3>1. PICK m \in Measurements : measured' = Append(measured, m)
      BY <2>1 DEF Measure
    <3>2. /\ decisions = <<>> /\ decisions' = <<>>
          /\ baseline' = baseline
          /\ selected' = selected
      BY <2>1 DEF Measure
    <3>3. measured' \in Seq(Measurements) /\ Len(measured') = Len(measured) + 1
      BY <3>1 DEF IInv
    <3>4. Len(measured') <= MaxVariants
      BY <3>3, <2>1, SelectionAssumption DEF Measure, IInv
    <3> QED
      BY <3>2, <3>3, <3>4 DEF IInv, Decided
  <2>2. CASE Select
    <3>1. baseline' = baseline /\ measured' = measured
      BY <2>2 DEF Select
    <3>2. /\ Candidates' = Candidates
          /\ Qualified' = Qualified
          /\ Frontier(Qualified)' = Frontier(Qualified)
      BY <3>1 DEF Candidates, Qualified, Frontier
    <3>3. Sorted(Frontier(Qualified))' = Sorted(Frontier(Qualified))
      BY <3>1, <3>2 DEF Sorted, Precedes
    <3>4. decisions' = Verdicts /\ selected' = Sorted(Frontier(Qualified))
      BY <2>2 DEF Select, Verdicts
    <3>5. Verdicts' = Verdicts
      BY <3>2 DEF Verdicts
    <3>6. Decided'
      <4>1. 1 \in Candidates
        BY <2>2 DEF Select, IInv, Candidates
      <4>2. 1 \in DOMAIN decisions'
        BY <4>1, <3>4 DEF Verdicts
      <4> QED
        BY <4>2 DEF Decided
    <3> QED
      BY <3>1, <3>3, <3>4, <3>5, <3>6 DEF IInv
  <2>3. CASE UNCHANGED vars
    BY <2>3 DEF IInv, vars, Decided, Verdicts, Candidates, Qualified, Frontier,
                Sorted, Precedes
  <2> QED
    BY <2>1, <2>2, <2>3 DEF Next
<1> QED
  BY <1>1, <1>2, PTL DEF Spec

LEMMA MetricsAreTyped ==
    ASSUME IInv
    PROVE  /\ baseline \in Metrics
           /\ measured \in Seq(Metrics)
           /\ \A i \in Candidates : measured[i] \in Metrics
           /\ Qualified \in SUBSET Candidates
           /\ Frontier(Qualified) \in SUBSET Qualified
<1>1. baseline \in Metrics /\ measured \in Seq(Metrics)
  BY SelectionAssumption DEF IInv
<1> QED
  BY <1>1 DEF Candidates, Qualified, Frontier

(* What the verdict of a candidate says.                                     *)
LEMMA VerdictSays ==
    ASSUME IInv, NEW i \in DOMAIN decisions
    PROVE  /\ Decided
           /\ DOMAIN decisions = Candidates
           /\ i \in Candidates
           /\ decisions[i].qualifies <=> i \in Qualified
           /\ decisions[i].selected <=> i \in Frontier(Qualified)
<1>1. Decided
  <2> SUFFICES ASSUME decisions = <<>>
               PROVE  FALSE
    BY DEF Decided
  <2>1. DOMAIN decisions = {}
    OBVIOUS
  <2> QED
    BY <2>1
<1>2. decisions = Verdicts
  BY <1>1 DEF IInv
<1>3. DOMAIN decisions = Candidates
  BY <1>2 DEF Verdicts
<1>4. PICK q \in BOOLEAN, f \in BOOLEAN :
        (q <=> i \in Qualified) /\ (f <=> i \in Frontier(Qualified))
  OBVIOUS
<1>5. decisions[i] = [qualifies |-> q, selected |-> f]
  <2>1. q = (i \in Qualified) /\ f = (i \in Frontier(Qualified))
    BY <1>4
  <2>2. decisions[i] = [qualifies |-> i \in Qualified,
                        selected  |-> i \in Frontier(Qualified)]
    BY <1>2, <1>3, Zenon DEF Verdicts
  <2> QED
    BY <2>1, <2>2
<1>6. decisions[i].qualifies = q /\ decisions[i].selected = f
  BY <1>5
<1> QED
  BY <1>1, <1>3, <1>4, <1>6

(* What is chosen is the frontier of the qualified candidates.               *)
LEMMA ChosenAreFrontier ==
    ASSUME IInv
    PROVE  /\ Chosen = (IF Decided THEN Frontier(Qualified) ELSE {})
           /\ Chosen \in SUBSET Candidates
<1>1. CASE Decided
  <2>1. decisions = Verdicts
    BY <1>1 DEF IInv
  <2>2. DOMAIN decisions = Candidates
    BY <2>1 DEF Verdicts
  <2>3. Frontier(Qualified) \in SUBSET Candidates
    BY MetricsAreTyped
  <2> QED
    BY <1>1, <2>2, <2>3, VerdictSays DEF Chosen
<1>2. CASE ~Decided
  <2>1. DOMAIN decisions = {}
    BY <1>2 DEF Decided
  <2> QED
    BY <1>2, <2>1 DEF Chosen
<1> QED
  BY <1>1, <1>2

(* The result is well formed whatever was measured: one verdict for each     *)
(* candidate, and a list that names each chosen one once.                    *)
THEOREM TypeCorrect == Spec => []TypeOK
<1>1. IInv => TypeOK
  <2> SUFFICES ASSUME IInv
               PROVE  TypeOK
    OBVIOUS
  <2>1. baseline \in Baselines /\ measured \in Seq(Measurements) /\ Len(measured) <= MaxVariants
    BY DEF IInv
  <2>2. Decided => decisions \in [Candidates -> [qualifies : BOOLEAN, selected : BOOLEAN]]
    <3>1. \A i \in Candidates : /\ (i \in Qualified) \in BOOLEAN
                               /\ (i \in Frontier(Qualified)) \in BOOLEAN
      OBVIOUS
    <3>2. Verdicts \in [Candidates -> [qualifies : BOOLEAN, selected : BOOLEAN]]
      BY <3>1, Zenon DEF Verdicts
    <3> QED
      BY <3>2 DEF IInv
  <2>3. ToSet(selected) = Chosen /\ IsInjective(selected)
    <3>1. CASE Decided
      <4>1. selected = Sorted(Frontier(Qualified)) /\ Chosen = Frontier(Qualified)
        BY <3>1, ChosenAreFrontier DEF IInv
      <4>2. Frontier(Qualified) \in SUBSET Candidates
        BY MetricsAreTyped
      <4> QED
        BY <4>1, <4>2, MetricsAreTyped, SortedListsAll
    <3>2. CASE ~Decided
      <4>1. selected = <<>> /\ Chosen = {}
        BY <3>2, ChosenAreFrontier DEF IInv
      <4> QED
        BY <4>1 DEF ToSet, IsInjective
    <3> QED
      BY <3>1, <3>2
  <2> QED
    BY <2>1, <2>2, <2>3 DEF TypeOK
<1> QED
  BY <1>1, InductiveInvariant, PTL

(* What is chosen is dominated by no candidate, qualified or not: a          *)
(* candidate that dominated it would qualify, and the frontier would have    *)
(* dropped the chosen one.                                                   *)
THEOREM SelectedIsUndominatedAlways == Spec => []SelectedIsUndominated
<1>1. IInv => SelectedIsUndominated
  <2> SUFFICES ASSUME IInv, NEW i \in Chosen, NEW j \in Candidates,
                      dominates(measured[j], measured[i])
               PROVE  FALSE
    BY DEF SelectedIsUndominated
  <2>1. i \in Frontier(Qualified)
    BY ChosenAreFrontier
  <2>2. i \in Candidates /\ Passes(measured[i], baseline)
    BY <2>1 DEF Frontier, Qualified
  <2>3. measured[i] \in Metrics /\ measured[j] \in Metrics /\ baseline \in Metrics
    BY <2>2, MetricsAreTyped
  <2>4. Passes(measured[j], baseline)
    BY <2>2, <2>3, GuardrailsAreMonotone DEF dominates
  <2>5. j # i
    BY <2>3, DominanceIsStrictOrder
  <2> QED
    BY <2>1, <2>4, <2>5 DEF Frontier, Qualified
<1> QED
  BY <1>1, InductiveInvariant, PTL

(* A qualified candidate is only ever dropped for one that is selected and   *)
(* beats it, whatever the number of candidates.                              *)
THEOREM EveryQualifiedIsCoveredAlways == Spec => []EveryQualifiedIsCovered
<1>1. IInv => EveryQualifiedIsCovered
  <2> SUFFICES ASSUME IInv, NEW i \in DOMAIN decisions,
                      decisions[i].qualifies, ~decisions[i].selected
               PROVE  \E j \in Chosen : dominates(measured[j], measured[i])
    BY DEF EveryQualifiedIsCovered
  <2>1. i \in Qualified /\ i \notin Frontier(Qualified) /\ Chosen = Frontier(Qualified)
    BY VerdictSays, ChosenAreFrontier
  <2> QED
    BY <2>1, MetricsAreTyped, FrontierCovers
<1> QED
  BY <1>1, InductiveInvariant, PTL

(* The first selected version is the best of all that qualify.  The best of  *)
(* the qualified ones is on the frontier, and there the sort puts nothing    *)
(* before it.                                                                *)
THEOREM FirstIsBestAlways == Spec => []FirstIsBest
<1>1. IInv => FirstIsBest
  <2> SUFFICES ASSUME IInv, NEW i \in DOMAIN decisions, decisions[i].qualifies
               PROVE  selected # <<>> /\ ~Better(measured[i], measured[selected[1]])
    BY DEF FirstIsBest
  <2> DEFINE b == Sorted(Qualified)[1]
             F == Frontier(Qualified)
             f == Sorted(F)[1]
  <2>1. /\ measured \in Seq(Metrics)
        /\ Qualified \in SUBSET Candidates /\ Qualified # {}
        /\ F \in SUBSET Candidates /\ F \in SUBSET Qualified
        /\ i \in Qualified
    BY VerdictSays, MetricsAreTyped
  <2>2. selected = Sorted(F)
    BY VerdictSays DEF IInv
  <2>3. /\ b \in F
        /\ \A j \in Qualified : /\ j # b => Precedes(b, j)
                               /\ ~Better(measured[j], measured[b])
    BY <2>1, FirstIsOnFrontier, FirstPrecedesAll
  <2>4. /\ Sorted(F) # <<>>
        /\ f \in F
        /\ \A j \in F : j # f => Precedes(f, j)
    BY <2>1, <2>3, FirstPrecedesAll
  <2>5. f = b
    <3> HIDE DEF b, f, F
    <3> QED
      BY <2>1, <2>3, <2>4, PrecedesIsStrictTotalOrder
  <2> QED
    BY <2>1, <2>2, <2>3, <2>4, <2>5
<1> QED
  BY <1>1, InductiveInvariant, PTL
=============================================================================
