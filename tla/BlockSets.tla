------------------------------- MODULE BlockSets -------------------------------
(***************************************************************************)
(* What the proofs about the scheduler and the parallel executor use of    *)
(* the theory of finite sets.  The step lemmas take these facts as         *)
(* hypotheses; SerialProofs.tla proves them from the library.              *)
(***************************************************************************)
EXTENDS Block, FiniteSets

\* Cardinality counts the transactions of a set.
Counted ==
  /\ Cardinality({}) = 0
  /\ \A S \in SUBSET Tx :
       /\ Cardinality(S) \in Nat
       /\ \A t \in Tx \ S : Cardinality(S \cup {t}) = Cardinality(S) + 1
       /\ \A t \in S : Cardinality(S \ {t}) = Cardinality(S) - 1
       /\ \A T \in SUBSET Tx : S \subseteq T =>
            /\ Cardinality(S) <= Cardinality(T)
            /\ S # T => Cardinality(S) < Cardinality(T)

\* A set of transactions that is not empty has a least and a greatest one.
Ordered ==
  \A S \in SUBSET Tx : S # {} =>
    /\ \E m \in S : \A n \in S : ~(n < m)
    /\ \E m \in S : \A n \in S : m >= n
=============================================================================
