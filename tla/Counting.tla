------------------------------ MODULE Counting ------------------------------
(***************************************************************************)
(* What the proofs about budgets, queues and tables count with: the sizes  *)
(* of finite sets.  A component's lemmas take CountingFacts as a           *)
(* hypothesis; Access_proofs proves it.                                    *)
(***************************************************************************)
EXTENDS Integers, FiniteSets

EmptyCounts == IsFiniteSet({}) /\ Cardinality({}) = 0
OneCounts == \A x : IsFiniteSet({x}) /\ Cardinality({x}) = 1
RangesCount == \A a, b \in Int :
  IsFiniteSet(a..b) /\ Cardinality(a..b) = IF a > b THEN 0 ELSE b - a + 1
PartsCount == \A S : IsFiniteSet(S) =>
  /\ Cardinality(S) \in Nat
  /\ \A T \in SUBSET S :
       IsFiniteSet(T) /\ Cardinality(T) \in Nat /\ Cardinality(T) <= Cardinality(S)
AddingCounts == \A S, x : IsFiniteSet(S) =>
  Cardinality(S \cup {x}) = IF x \in S THEN Cardinality(S) ELSE Cardinality(S) + 1
RemovingCounts == \A S, x : IsFiniteSet(S) =>
  Cardinality(S \ {x}) = IF x \in S THEN Cardinality(S) - 1 ELSE Cardinality(S)
PairsCount == \A S, T : IsFiniteSet(S) /\ IsFiniteSet(T) => IsFiniteSet(S \X T)

CountingFacts ==
  /\ EmptyCounts /\ OneCounts /\ RangesCount /\ PartsCount
  /\ AddingCounts /\ RemovingCounts /\ PairsCount

=============================================================================
