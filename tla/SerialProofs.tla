---------------------------- MODULE SerialProofs ----------------------------
(***************************************************************************)
(* What `execute' collects is the outcome of the serial execution, and     *)
(* what a read returns are the amounts of the versions it names.           *)
(*                                                                         *)
(* The evaluation of a location, the sum of a read and the serial          *)
(* execution are folds of the community modules.  A fold is the value of a *)
(* recursive function on the subsets of a finite set; such a function      *)
(* exists, and a sum does not depend on the order in which it is taken.    *)
(* Induction is by the least counterexample.  By induction over the block  *)
(* the serial state below each transaction is the one that its valid reads *)
(* found in the memory.                                                    *)
(***************************************************************************)
EXTENDS ValueInvariants, FiniteSetTheorems, WellFoundedInduction, TLAPS

\* The default prover of this module; a leaf with arithmetic names SMT.
USE ZenonT(40)

\* A set of natural numbers that is not empty has a least element.
LEMMA LeastNat ==
  ASSUME NEW D \in SUBSET Nat, D # {}
  PROVE  \E m \in D : \A n \in D : ~(n < m)
<1> DEFINE Less == {p \in Nat \X Nat : p[1] < p[2]}
<1>1. IsWellFoundedOn(Less, Nat)
  BY NatLessThanWellFounded, SMTT(30) DEF OpToRel
<1>2. PICK m \in D : \A n \in D : ~(<<n, m>> \in Less)
  BY <1>1, WFMin, ZenonT(40)
<1>3. \A n \in D : n < m => <<n, m>> \in Less
  BY SMTT(30)
<1> QED
  BY <1>2, <1>3

\* Induction: a set with 0 that is closed under + 1 has all natural numbers.
LEMMA Induct ==
  ASSUME NEW P, 0 \in P, \A n \in Nat : n \in P => n + 1 \in P
  PROVE  \A n \in Nat : n \in P
<1> SUFFICES ASSUME NEW x \in Nat, x \notin P PROVE FALSE
  OBVIOUS
<1> DEFINE D == {n \in Nat : n \notin P}
<1>1. D \in SUBSET Nat /\ x \in D
  OBVIOUS
<1> HIDE DEF D
<1>2. PICK m \in D : \A n \in D : ~(n < m)
  BY <1>1, LeastNat
<1>3. m \in Nat /\ m \notin P /\ \A n \in Nat : n < m => n \in P
  BY <1>1, <1>2 DEF D
<1>4. m - 1 \in Nat /\ m - 1 < m /\ m = (m - 1) + 1
  BY <1>3, SMTT(30)
<1>5. m - 1 \in P
  BY <1>3, <1>4
<1>6. (m - 1) + 1 \in P
  BY <1>4, <1>5
<1> QED
  BY <1>3, <1>4, <1>6

-----------------------------------------------------------------------------
(***************************************************************************)
(* The recursive function of a fold exists: sel chooses the elements, and  *)
(* step[x][v] combines x with the fold v of the rest.                      *)
(***************************************************************************)
Folds(it, S, base, sel, step) ==
  it = [s \in SUBSET S |-> IF s = {} THEN base ELSE step[sel[s]][it[s \ {sel[s]}]]]

Small(S, n) == {s \in SUBSET S : Cardinality(s) <= n}

FoldsTo(it, S, base, sel, step, n) ==
  it = [s \in Small(S, n) |-> IF s = {} THEN base ELSE step[sel[s]][it[s \ {sel[s]}]]]

LEMMA FoldExists ==
  ASSUME NEW S, IsFiniteSet(S), NEW base, NEW sel, NEW step,
         \A s \in SUBSET S : s # {} => sel[s] \in s
  PROVE  \E it : Folds(it, S, base, sel, step)
<1>1. ASSUME NEW s \in SUBSET S
      PROVE  /\ IsFiniteSet(s) /\ Cardinality(s) \in Nat
             /\ Cardinality(s) <= Cardinality(S)
             /\ s # {} => /\ s \ {sel[s]} \in SUBSET S
                          /\ Cardinality(s \ {sel[s]}) = Cardinality(s) - 1
             /\ Cardinality(s) = 0 <=> s = {}
  <2>1. IsFiniteSet(s) /\ Cardinality(s) <= Cardinality(S)
    BY FS_Subset
  <2>2. Cardinality(s) \in Nat
    BY <2>1, FS_CardinalityType
  <2>3. s # {} => Cardinality(s \ {sel[s]}) = Cardinality(s) - 1
    BY <2>1, FS_RemoveElement
  <2>4. Cardinality(s) = 0 <=> s = {}
    BY <2>1, FS_EmptySet
  <2> QED
    BY <2>1, <2>2, <2>3, <2>4
<1> DEFINE P == {n \in Nat : \E it : FoldsTo(it, S, base, sel, step, n)}
<1>2. 0 \in P
  <2> DEFINE it == [s \in Small(S, 0) |-> base]
  <2>1. \A s \in Small(S, 0) : s = {}
    <3> SUFFICES ASSUME NEW s \in Small(S, 0) PROVE s = {}
      OBVIOUS
    <3>1. s \in SUBSET S /\ Cardinality(s) <= 0
      BY DEF Small
    <3>2. Cardinality(s) \in Nat
      BY <3>1, <1>1
    <3>3. Cardinality(s) = 0
      BY <3>1, <3>2, SMTT(30)
    <3> QED
      BY <1>1, <3>1, <3>3
  <2>2. it = [s \in Small(S, 0) |-> IF s = {} THEN base ELSE step[sel[s]][it[s \ {sel[s]}]]]
    BY <2>1
  <2>3. FoldsTo(it, S, base, sel, step, 0)
    BY <2>2 DEF FoldsTo
  <2>4. 0 \in Nat
    BY SMTT(30)
  <2> QED
    BY <2>3, <2>4
<1>3. ASSUME NEW n \in Nat, n \in P PROVE n + 1 \in P
  <2>1. PICK g : FoldsTo(g, S, base, sel, step, n)
    BY <1>3
  <2> DEFINE it == [s \in Small(S, n + 1) |-> IF s = {} THEN base ELSE step[sel[s]][g[s \ {sel[s]}]]]
  <2>2. ASSUME NEW s \in Small(S, n) PROVE s \in Small(S, n + 1) /\ it[s] = g[s]
    <3>1. s \in SUBSET S /\ Cardinality(s) <= n
      BY DEF Small
    <3>2. Cardinality(s) \in Nat
      BY <3>1, <1>1
    <3>3. Cardinality(s) <= n + 1
      BY <3>1, <3>2, SMTT(30)
    <3>4. s \in Small(S, n + 1)
      BY <3>1, <3>3 DEF Small
    <3>5. g[s] = IF s = {} THEN base ELSE step[sel[s]][g[s \ {sel[s]}]]
      BY <2>1 DEF FoldsTo
    <3> QED
      BY <3>4, <3>5
  <2>3. ASSUME NEW s \in Small(S, n + 1), s # {} PROVE s \ {sel[s]} \in Small(S, n)
    <3>1. s \in SUBSET S /\ Cardinality(s) <= n + 1
      BY DEF Small
    <3>2. Cardinality(s) \in Nat /\ Cardinality(s \ {sel[s]}) = Cardinality(s) - 1
      BY <3>1, <2>3, <1>1
    <3>3. Cardinality(s \ {sel[s]}) <= n
      BY <3>1, <3>2, SMTT(30)
    <3> QED
      BY <3>1, <3>3 DEF Small
  <2>4. it = [s \in Small(S, n + 1) |-> IF s = {} THEN base ELSE step[sel[s]][it[s \ {sel[s]}]]]
    <3>1. ASSUME NEW s \in Small(S, n + 1)
          PROVE  (IF s = {} THEN base ELSE step[sel[s]][g[s \ {sel[s]}]])
                   = (IF s = {} THEN base ELSE step[sel[s]][it[s \ {sel[s]}]])
      <4>1. CASE s = {}
        BY <4>1
      <4>2. CASE s # {}
        <5>1. it[s \ {sel[s]}] = g[s \ {sel[s]}]
          BY <4>2, <2>2, <2>3
        <5> QED
          BY <4>2, <5>1
      <4> QED
        BY <4>1, <4>2
    <3> QED
      BY <3>1
  <2>5. FoldsTo(it, S, base, sel, step, n + 1)
    BY <2>4 DEF FoldsTo
  <2>6. n + 1 \in Nat
    BY SMTT(30)
  <2> QED
    BY <2>5, <2>6
<1>4. \A n \in Nat : n \in P
  <2> HIDE DEF P
  <2> QED
    BY <1>2, <1>3, Induct
<1>5. S \in SUBSET S /\ Cardinality(S) \in Nat
  BY FS_CardinalityType
<1>6. PICK it : FoldsTo(it, S, base, sel, step, Cardinality(S))
  BY <1>4, <1>5
<1>7. Small(S, Cardinality(S)) = SUBSET S
  BY <1>1 DEF Small
<1> QED
  BY <1>6, <1>7 DEF FoldsTo, Folds

\* it follows step as long as its values are in V.
Follows(it, S, V, base, sel, step) ==
  /\ base \in V /\ it[{}] = base
  /\ \A s \in SUBSET S : s # {} => sel[s] \in s
  /\ \A x \in S : \A v \in V : step[x][v] \in V
  /\ \A s \in SUBSET S : s # {} /\ it[s \ {sel[s]}] \in V =>
       it[s] = step[sel[s]][it[s \ {sel[s]}]]

\* Then it keeps them in V.
LEMMA FoldTyped ==
  ASSUME NEW S, IsFiniteSet(S), NEW V, NEW base, NEW sel, NEW step, NEW it,
         Follows(it, S, V, base, sel, step)
  PROVE  \A s \in SUBSET S : it[s] \in V
<1> USE DEF Follows
<1> DEFINE P == {n \in Nat : \A s \in Small(S, n) : it[s] \in V}
<1>1. ASSUME NEW s \in SUBSET S
      PROVE  /\ Cardinality(s) \in Nat
             /\ s # {} => /\ s \ {sel[s]} \in SUBSET S
                          /\ Cardinality(s \ {sel[s]}) = Cardinality(s) - 1
             /\ Cardinality(s) = 0 <=> s = {}
  <2>1. IsFiniteSet(s)
    BY FS_Subset
  <2>2. Cardinality(s) \in Nat
    BY <2>1, FS_CardinalityType
  <2>3. s # {} => Cardinality(s \ {sel[s]}) = Cardinality(s) - 1
    BY <2>1, FS_RemoveElement
  <2>4. Cardinality(s) = 0 <=> s = {}
    BY <2>1, FS_EmptySet
  <2> QED
    BY <2>2, <2>3, <2>4
<1>3. 0 \in P
  <2> SUFFICES ASSUME NEW s \in Small(S, 0) PROVE it[s] \in V
    BY SMTT(30)
  <2>1. s \in SUBSET S /\ Cardinality(s) <= 0
    BY DEF Small
  <2>2. Cardinality(s) \in Nat
    BY <1>1, <2>1
  <2>3. Cardinality(s) = 0
    BY <2>1, <2>2, SMTT(30)
  <2> QED
    BY <1>1, <2>1, <2>3
<1>4. ASSUME NEW n \in Nat, n \in P PROVE n + 1 \in P
  <2>1. n + 1 \in Nat
    BY SMTT(30)
  <2> SUFFICES ASSUME NEW s \in Small(S, n + 1) PROVE it[s] \in V
    BY <2>1
  <2>2. s \in SUBSET S /\ Cardinality(s) <= n + 1
    BY DEF Small
  <2>3. CASE s = {}
    BY <2>3
  <2>4. CASE s # {}
    <3>1. Cardinality(s) \in Nat /\ Cardinality(s \ {sel[s]}) = Cardinality(s) - 1
      BY <1>1, <2>2, <2>4
    <3>2. Cardinality(s \ {sel[s]}) <= n
      BY <2>2, <3>1, SMTT(30)
    <3>3. s \ {sel[s]} \in Small(S, n)
      BY <2>2, <3>2 DEF Small
    <3>4. it[s \ {sel[s]}] \in V
      BY <1>4, <3>3
    <3> QED
      BY <2>2, <2>4, <3>4
  <2> QED
    BY <2>3, <2>4
<1>5. \A n \in Nat : n \in P
  <2> HIDE DEF P
  <2> QED
    BY <1>3, <1>4, Induct
<1> SUFFICES ASSUME NEW s \in SUBSET S PROVE it[s] \in V
  OBVIOUS
<1>6. s \in Small(S, Cardinality(s))
  <2>1. Cardinality(s) \in Nat
    BY <1>1
  <2>2. Cardinality(s) <= Cardinality(s)
    BY <2>1, SMTT(30)
  <2> QED
    BY <2>2 DEF Small
<1> QED
  BY <1>1, <1>5, <1>6

-----------------------------------------------------------------------------
(***************************************************************************)
(* Sums.                                                                   *)
(***************************************************************************)
SumOver(base, f) == FoldFunction(LAMBDA n, acc : acc + n, base, f)

Adds(it, m, f) ==
  /\ it \in [SUBSET (1 .. m) -> Int]
  /\ \A s \in SUBSET (1 .. m) : s # {} => \E x \in s : it[s] = it[s \ {x}] + f[x]

AddsAny(it, m, f) ==
  \A s \in SUBSET (1 .. m) : \A x \in s : it[s] = it[s \ {x}] + f[x]

\* The recursive function of a sum, and that the order does not matter to it.
LEMMA SumFunctionExists ==
  ASSUME NEW base \in Int, NEW m \in Nat, NEW f \in [1 .. m -> Int]
  PROVE  \E it : Adds(it, m, f) /\ it[{}] = base /\ SumOver(base, f) = it[1 .. m]
<1> DEFINE S == 1 .. m
           sel == [s \in SUBSET S |-> CHOOSE x \in s : TRUE]
           step == [x \in S |-> [v \in Int |-> v + f[x]]]
           G(it) == [s \in SUBSET S |->
                       IF s = {} THEN base
                       ELSE it[s \ {CHOOSE x \in s : TRUE}] + f[CHOOSE x \in s : TRUE]]
<1>1. IsFiniteSet(S)
  <2>1. 1 \in Int /\ m \in Int
    BY SMTT(30)
  <2> QED
    BY <2>1, FS_Interval
<1>2. \A s \in SUBSET S : s # {} => sel[s] \in s /\ sel[s] = CHOOSE x \in s : TRUE
  OBVIOUS
<1>3. \A x \in S : \A v \in Int : step[x][v] \in Int /\ step[x][v] = v + f[x]
  BY SMTT(30)
<1>4. \E it : Folds(it, S, base, sel, step)
  <2> HIDE DEF S, sel, step
  <2> QED
    BY <1>1, <1>2, FoldExists
<1>5. ASSUME NEW it, it[{}] = base,
             \A s \in SUBSET S : s # {} /\ it[s \ {sel[s]}] \in Int =>
               it[s] = it[s \ {sel[s]}] + f[sel[s]]
      PROVE  \A s \in SUBSET S : it[s] \in Int
  <2>1. \A s \in SUBSET S : s # {} /\ it[s \ {sel[s]}] \in Int =>
          it[s] = step[sel[s]][it[s \ {sel[s]}]]
    <3> SUFFICES ASSUME NEW s \in SUBSET S, s # {}, it[s \ {sel[s]}] \in Int
                 PROVE  it[s] = step[sel[s]][it[s \ {sel[s]}]]
      OBVIOUS
    <3> HIDE DEF sel, step
    <3>1. sel[s] \in S
      BY <1>2
    <3>2. step[sel[s]][it[s \ {sel[s]}]] = it[s \ {sel[s]}] + f[sel[s]]
      BY <1>3, <3>1
    <3>3. it[s] = it[s \ {sel[s]}] + f[sel[s]]
      BY <1>5
    <3> QED
      BY <3>2, <3>3
  <2>2. \A s \in SUBSET S : s # {} => sel[s] \in s
    BY <1>2
  <2>3. \A x \in S : \A v \in Int : step[x][v] \in Int
    BY <1>3
  <2> HIDE DEF S, sel, step
  <2>4. Follows(it, S, Int, base, sel, step)
    BY <1>5, <2>1, <2>2, <2>3 DEF Follows
  <2> QED
    BY <1>1, <2>4, FoldTyped
<1>6. \E it : it = G(it)
  <2>1. PICK it : Folds(it, S, base, sel, step)
    <3> HIDE DEF S, sel, step
    <3> QED
      BY <1>1, <1>2, FoldExists
  <2>2. ASSUME NEW s \in SUBSET S
        PROVE  it[s] = IF s = {} THEN base ELSE step[sel[s]][it[s \ {sel[s]}]]
    <3> HIDE DEF S, sel, step
    <3> QED
      BY <2>1 DEF Folds
  <2>3. \A s \in SUBSET S : s # {} /\ it[s \ {sel[s]}] \in Int =>
          it[s] = it[s \ {sel[s]}] + f[sel[s]]
    <3> SUFFICES ASSUME NEW s \in SUBSET S, s # {}, it[s \ {sel[s]}] \in Int
                 PROVE  it[s] = it[s \ {sel[s]}] + f[sel[s]]
      OBVIOUS
    <3> HIDE DEF sel, step
    <3>1. sel[s] \in S
      BY <1>2
    <3>2. step[sel[s]][it[s \ {sel[s]}]] = it[s \ {sel[s]}] + f[sel[s]]
      BY <1>3, <3>1
    <3> QED
      BY <2>2, <3>2
  <2>4. it[{}] = base
    BY <2>2
  <2>5. \A s \in SUBSET S : it[s] \in Int
    BY <1>5, <2>3, <2>4
  <2>6. ASSUME NEW s \in SUBSET S
        PROVE  it[s] = IF s = {} THEN base
                       ELSE it[s \ {CHOOSE x \in s : TRUE}] + f[CHOOSE x \in s : TRUE]
    <3>1. CASE s = {}
      BY <3>1, <2>4
    <3>2. CASE s # {}
      <4>1. it[s] = it[s \ {sel[s]}] + f[sel[s]]
        BY <2>3, <2>5, <3>2
      <4> QED
        BY <1>2, <3>2, <4>1
    <3> QED
      BY <3>1, <3>2
  <2>7. it = [s \in SUBSET S |-> it[s]]
    <3> HIDE DEF S, sel, step
    <3> QED
      BY <2>1 DEF Folds
  <2>8. ASSUME NEW s \in SUBSET S PROVE it[s] = G(it)[s]
    BY <2>6
  <2>9. G(it) = [s \in SUBSET S |-> G(it)[s]]
    BY SMTT(30)
  <2> HIDE DEF S, G
  <2>10. [s \in SUBSET S |-> it[s]] = [s \in SUBSET S |-> G(it)[s]]
    BY <2>8
  <2> QED
    BY <2>7, <2>9, <2>10
<1> DEFINE chosen == CHOOSE it : it = G(it)
<1>7. chosen = G(chosen)
  <2> HIDE DEF S, sel, step, G
  <2> QED
    BY <1>6
<1>8. SumOver(base, f) = chosen[S]
  BY DEF SumOver, FoldFunction, FoldFunctionOnSet, MapThenFoldSet
<1> HIDE DEF chosen
<1>9. \A s \in SUBSET S : s # {} => chosen[s] = chosen[s \ {sel[s]}] + f[sel[s]]
  BY <1>7
<1>10. chosen[{}] = base
  BY <1>7
<1>11. chosen \in [SUBSET S -> Int]
  <2>1. chosen = [s \in SUBSET S |-> chosen[s]]
    BY <1>7
  <2>2. \A s \in SUBSET S : chosen[s] \in Int
    BY <1>5, <1>9, <1>10
  <2> QED
    BY <2>1, <2>2
<1>12. ASSUME NEW s \in SUBSET S, s # {}
       PROVE  \E x \in s : chosen[s] = chosen[s \ {x}] + f[x]
  <2> HIDE DEF sel
  <2> QED
    BY <1>2, <1>9, <1>12
<1> QED
  BY <1>8, <1>10, <1>11, <1>12 DEF Adds

LEMMA SumAnyOrder ==
  ASSUME NEW m \in Nat, NEW f \in [1 .. m -> Int], NEW it, Adds(it, m, f)
  PROVE  AddsAny(it, m, f)
<1> DEFINE S == 1 .. m
           P == {n \in Nat : \A s \in SUBSET S : Cardinality(s) = n =>
                                \A x \in s : it[s] = it[s \ {x}] + f[x]}
<1>1. ASSUME NEW s \in SUBSET S
      PROVE  /\ Cardinality(s) \in Nat
             /\ \A x \in s : Cardinality(s \ {x}) = Cardinality(s) - 1
             /\ Cardinality(s) = 0 => s = {}
  <2>1. 1 \in Int /\ m \in Int
    BY SMTT(30)
  <2>2. IsFiniteSet(S)
    BY <2>1, FS_Interval
  <2>3. IsFiniteSet(s)
    BY <2>2, FS_Subset
  <2> QED
    BY <2>3, FS_CardinalityType, FS_RemoveElement, FS_EmptySet
<1>2. 0 \in P
  <2>1. 0 \in Nat
    BY SMTT(30)
  <2> QED
    BY <1>1, <2>1
<1>3. ASSUME NEW n \in Nat, n \in P PROVE n + 1 \in P
  <2>1. n + 1 \in Nat
    BY SMTT(30)
  <2> SUFFICES ASSUME NEW s \in SUBSET S, Cardinality(s) = n + 1, NEW x \in s
               PROVE  it[s] = it[s \ {x}] + f[x]
    BY <2>1
  <2>2. PICK c \in s : it[s] = it[s \ {c}] + f[c]
    BY DEF Adds
  <2>3. CASE x = c
    BY <2>2, <2>3
  <2>4. CASE x # c
    <3>1. Cardinality(s \ {c}) = Cardinality(s) - 1 /\ Cardinality(s \ {x}) = Cardinality(s) - 1
      BY <1>1
    <3>2. Cardinality(s \ {c}) = n /\ Cardinality(s \ {x}) = n
      BY <3>1, SMTT(30)
    <3>3. it[s \ {c}] = it[(s \ {c}) \ {x}] + f[x]
      BY <1>3, <2>4, <3>2
    <3>4. it[s \ {x}] = it[(s \ {x}) \ {c}] + f[c]
      BY <1>3, <2>4, <3>2
    <3>5. (s \ {c}) \ {x} = (s \ {x}) \ {c}
      OBVIOUS
    <3> DEFINE r == (s \ {x}) \ {c}
    <3>6. it[r] \in Int /\ f[x] \in Int /\ f[c] \in Int
      BY DEF Adds
    <3>7. it[s \ {c}] = it[r] + f[x] /\ it[s \ {x}] = it[r] + f[c]
      BY <3>3, <3>4, <3>5
    <3> HIDE DEF r
    <3> QED
      BY <2>2, <3>6, <3>7, SMTT(30)
  <2> QED
    BY <2>3, <2>4
<1>4. \A n \in Nat : n \in P
  <2> HIDE DEF P
  <2> QED
    BY <1>2, <1>3, Induct
<1> SUFFICES ASSUME NEW s \in SUBSET S, NEW x \in s PROVE it[s] = it[s \ {x}] + f[x]
  BY DEF AddsAny
<1>5. Cardinality(s) \in P
  BY <1>1, <1>4
<1> QED
  BY <1>5

\* A sum over 1 .. m is the last of its partial sums.
PartialSums(p, base, m, f) ==
  /\ p \in [0 .. m -> Int]
  /\ p[0] = base
  /\ \A j \in 1 .. m : p[j] = p[j - 1] + f[j]
  /\ SumOver(base, f) = p[m]

LEMMA SumSteps ==
  ASSUME NEW base \in Int, NEW m \in Nat, NEW f \in [1 .. m -> Int]
  PROVE  \E p : PartialSums(p, base, m, f)
<1>1. PICK it : Adds(it, m, f) /\ it[{}] = base /\ SumOver(base, f) = it[1 .. m]
  BY SumFunctionExists
<1>2. AddsAny(it, m, f)
  BY <1>1, SumAnyOrder
<1> DEFINE p == [j \in 0 .. m |-> it[1 .. j]]
<1>3. ASSUME NEW j \in 0 .. m PROVE 1 .. j \in SUBSET (1 .. m) /\ p[j] = it[1 .. j]
  BY SMTT(30)
<1>4. p \in [0 .. m -> Int]
  BY <1>1, <1>3 DEF Adds
<1>5. p[0] = base
  <2>1. 0 \in 0 .. m /\ 1 .. 0 = {}
    BY SMTT(30)
  <2> QED
    BY <1>1, <1>3, <2>1
<1>6. ASSUME NEW j \in 1 .. m PROVE p[j] = p[j - 1] + f[j]
  <2>1. j \in 0 .. m /\ j - 1 \in 0 .. m /\ j \in 1 .. j /\ (1 .. j) \ {j} = 1 .. (j - 1)
    BY SMTT(30)
  <2>2. it[1 .. j] = it[(1 .. j) \ {j}] + f[j]
    BY <1>2, <1>3, <2>1 DEF AddsAny
  <2> QED
    BY <1>3, <2>1, <2>2
<1>7. p[m] = SumOver(base, f)
  <2>1. m \in 0 .. m
    BY SMTT(30)
  <2> QED
    BY <1>1, <1>3, <2>1
<1> HIDE DEF p
<1> QED
  BY <1>4, <1>5, <1>6, <1>7 DEF PartialSums

-----------------------------------------------------------------------------
(***************************************************************************)
(* Sets of transactions.                                                   *)
(***************************************************************************)
LEMMA TxFinite == IsFiniteSet(Tx)
<1>1. 0 \in Int /\ block_size - 1 \in Int
  BY BlockSizeAssumption, SMTT(30)
<1> QED
  BY <1>1, FS_Interval DEF Tx

\* There are finitely many transactions, so their sets can be counted.
LEMMA CountedHolds == Counted
<1>1. Cardinality({}) = 0
  BY FS_EmptySet
<1>2. ASSUME NEW S \in SUBSET Tx PROVE IsFiniteSet(S) /\ Cardinality(S) \in Nat
  BY TxFinite, FS_Subset, FS_CardinalityType
<1>3. ASSUME NEW S \in SUBSET Tx, NEW t \in Tx \ S
      PROVE  Cardinality(S \cup {t}) = Cardinality(S) + 1
  BY <1>2, FS_AddElement
<1>4. ASSUME NEW S \in SUBSET Tx, NEW t \in S
      PROVE  Cardinality(S \ {t}) = Cardinality(S) - 1
  BY <1>2, FS_RemoveElement
<1>5. ASSUME NEW S \in SUBSET Tx, NEW T \in SUBSET Tx, S \subseteq T
      PROVE  /\ Cardinality(S) <= Cardinality(T)
             /\ S # T => Cardinality(S) < Cardinality(T)
  <2>1. Cardinality(S) <= Cardinality(T) /\ (Cardinality(S) = Cardinality(T) => S = T)
    BY <1>2, <1>5, FS_Subset
  <2>2. Cardinality(S) \in Nat /\ Cardinality(T) \in Nat
    BY <1>2
  <2> QED
    BY <2>1, <2>2, SMTT(30)
<1> QED
  BY <1>1, <1>2, <1>3, <1>4, <1>5 DEF Counted

\* The order of the natural numbers is well-founded.
LEMMA OrderedHolds == Ordered
<1> SUFFICES ASSUME NEW S \in SUBSET Tx, S # {}
             PROVE  /\ \E m \in S : \A n \in S : ~(n < m)
                    /\ \E m \in S : \A n \in S : m >= n
  BY DEF Ordered
<1> DEFINE D == {block_size - k : k \in S}
<1>1. S \in SUBSET Nat /\ D \in SUBSET Nat /\ D # {}
  <2>1. \A k \in S : k \in Nat /\ block_size - k \in Nat
    BY BlockSizeAssumption, SMTT(30) DEF Tx
  <2> QED
    BY <2>1
<1>2. PICK d \in D : \A n \in D : ~(n < d)
  <2> HIDE DEF D
  <2> QED
    BY <1>1, LeastNat
<1>3. PICK x \in S : d = block_size - x
  BY <1>2
<1>4. \A n \in S : x >= n
  BY <1>1, <1>2, <1>3, BlockSizeAssumption, SMTT(30)
<1> QED
  BY <1>1, <1>4, LeastNat

LEMMA MaxTx ==
  ASSUME NEW S \in SUBSET Tx, S # {}
  PROVE  Max(S) \in S /\ \A n \in S : Max(S) >= n
  BY OrderedHolds DEF Ordered, Max

-----------------------------------------------------------------------------
(***************************************************************************)
(* Places of entries.                                                      *)
(***************************************************************************)
\* A location has finitely many entries.
LEMMA LowerEntries ==
  ASSUME Counted, NEW l, NEW t, DOMAIN data[l] \subseteq Tx
  PROVE  /\ Entries(l, t) \subseteq Int /\ Entries(l, t) \subseteq Tx
         /\ \A S \in SUBSET Entries(l, t) : Cardinality(S) \in Nat
<1>1. Entries(l, t) \subseteq Tx
  BY DEF Entries
<1>2. Tx \subseteq Int
  BY BlockSizeAssumption, SMTT(30) DEF Tx
<1> QED
  BY <1>1, <1>2 DEF Counted

\* Walking from the end, higher entries come first.
LEMMA PlacesDescend ==
  ASSUME Counted, NEW l, NEW t, DOMAIN data[l] \subseteq Tx,
         NEW j \in Entries(l, t), NEW k \in Entries(l, t)
  PROVE  /\ Place(l, t, k) \in Nat \ {0}
         /\ Place(l, t, k) <= Cardinality(Entries(l, t))
         /\ j < k => Place(l, t, k) < Place(l, t, j)
<1> DEFINE E == Entries(l, t)
           From(x) == {y \in E : y >= x}
<1>1. /\ E \subseteq Int /\ E \subseteq Tx
      /\ \A S \in SUBSET E : Cardinality(S) \in Nat
  BY LowerEntries
<1>2. \A S, T \in SUBSET E : S \subseteq T => Cardinality(S) <= Cardinality(T)
  BY <1>1 DEF Counted
<1>3. \A S, T \in SUBSET E : S \subseteq T /\ S # T => Cardinality(S) < Cardinality(T)
  BY <1>1 DEF Counted
<1>4. From(k) \in SUBSET E /\ From(j) \in SUBSET E /\ E \in SUBSET E
  OBVIOUS
<1>5. j < k => From(k) \subseteq From(j) /\ From(k) # From(j)
  BY <1>1, SMTT(30)
<1>6. Cardinality({}) < Cardinality(From(k)) /\ Cardinality({}) \in Nat
  <2>1. {} \in SUBSET E /\ {} \subseteq From(k) /\ {} # From(k)
    BY <1>1, SMTT(30)
  <2> HIDE DEF From, E
  <2> QED
    BY <1>1, <1>3, <1>4, <2>1, SMTT(30)
<1>7. Place(l, t, k) = Cardinality(From(k)) /\ Place(l, t, j) = Cardinality(From(j))
  BY DEF Place
<1> HIDE DEF From, E
<1> QED
  BY <1>1, <1>2, <1>3, <1>4, <1>5, <1>7, <1>6, SMTT(30), ZenonT(40) DEF E

-----------------------------------------------------------------------------
(***************************************************************************)
(* The evaluation of a location, entry by entry.                           *)
(***************************************************************************)
Evaluates(e, l) ==
  /\ e[{}] = storage[l]
  /\ \A s \in SUBSET DOMAIN data[l] : e[s] \in Int
  /\ \A s \in SUBSET DOMAIN data[l] : s # {} =>
       e[s] = (IF IsLazy(data[l][Max(s)]) THEN e[s \ {Max(s)}] ELSE 0)
                + data[l][Max(s)].value.amount
  /\ Evaluate(l) = e[DOMAIN data[l]]

LEMMA EvaluateSteps ==
  ASSUME NEW l \in Loc, DOMAIN data[l] \subseteq Tx,
         \A k \in DOMAIN data[l] : data[l][k].value.amount \in Int
  PROVE  \E e : Evaluates(e, l)
<1> DEFINE S == DOMAIN data[l]
           base == storage[l]
           amt(k) == data[l][k].value.amount
           sel == [s \in SUBSET S |-> Max(s)]
           step == [x \in S |-> [v \in Int |-> (IF IsLazy(data[l][x]) THEN v ELSE 0) + amt(x)]]
           G(it) == [s \in SUBSET S |->
                       IF s = {} THEN base
                       ELSE (IF IsLazy(data[l][Max(s)]) THEN it[s \ {Max(s)}] ELSE 0)
                              + data[l][Max(s)].value.amount]
<1>1. IsFiniteSet(S)
  BY TxFinite, FS_Subset
<1>2. \A s \in SUBSET S : s # {} => sel[s] \in s /\ sel[s] = Max(s)
  BY MaxTx
<1>3. \A x \in S : \A v \in Int :
        /\ step[x][v] \in Int
        /\ step[x][v] = (IF IsLazy(data[l][x]) THEN v ELSE 0) + amt(x)
  <2> SUFFICES ASSUME NEW x \in S, NEW v \in Int
               PROVE  (IF IsLazy(data[l][x]) THEN v ELSE 0) + amt(x) \in Int
    OBVIOUS
  <2>1. amt(x) \in Int
    OBVIOUS
  <2> HIDE DEF amt
  <2> QED
    BY <2>1, SMTT(30)
<1>4. base \in Int
  BY LocationAssumption
<1>5. ASSUME NEW it, it[{}] = base,
             \A s \in SUBSET S : s # {} /\ it[s \ {sel[s]}] \in Int =>
               it[s] = (IF IsLazy(data[l][sel[s]]) THEN it[s \ {sel[s]}] ELSE 0) + amt(sel[s])
      PROVE  \A s \in SUBSET S : it[s] \in Int
  <2>1. ASSUME NEW s \in SUBSET S, s # {}, it[s \ {sel[s]}] \in Int
        PROVE  it[s] = step[sel[s]][it[s \ {sel[s]}]]
    <3> HIDE DEF sel, step, amt
    <3>1. sel[s] \in S
      BY <1>2, <2>1
    <3> QED
      BY <1>3, <1>5, <2>1, <3>1
  <2>2. \A s \in SUBSET S : s # {} => sel[s] \in s
    BY <1>2
  <2>3. \A x \in S : \A v \in Int : step[x][v] \in Int
    BY <1>3
  <2> HIDE DEF S, sel, step, base
  <2>4. Follows(it, S, Int, base, sel, step)
    BY <1>4, <1>5, <2>1, <2>2, <2>3 DEF Follows
  <2> QED
    BY <1>1, <2>4, FoldTyped
<1>6. \E it : it = G(it)
  <2>1. PICK it : Folds(it, S, base, sel, step)
    <3> HIDE DEF S, sel, step, base
    <3> QED
      BY <1>1, <1>2, FoldExists
  <2>2. ASSUME NEW s \in SUBSET S
        PROVE  it[s] = IF s = {} THEN base ELSE step[sel[s]][it[s \ {sel[s]}]]
    <3> HIDE DEF S, sel, step, base
    <3> QED
      BY <2>1 DEF Folds
  <2>3. ASSUME NEW s \in SUBSET S, s # {}, it[s \ {sel[s]}] \in Int
        PROVE  it[s] = (IF IsLazy(data[l][sel[s]]) THEN it[s \ {sel[s]}] ELSE 0) + amt(sel[s])
    <3> HIDE DEF sel, step, amt
    <3>1. sel[s] \in S
      BY <1>2, <2>3
    <3> QED
      BY <1>3, <2>2, <2>3, <3>1
  <2>4. it[{}] = base
    BY <2>2
  <2>5. \A s \in SUBSET S : it[s] \in Int
    BY <1>5, <2>3, <2>4
  <2>6. ASSUME NEW s \in SUBSET S
        PROVE  it[s] = IF s = {} THEN base
                       ELSE (IF IsLazy(data[l][Max(s)]) THEN it[s \ {Max(s)}] ELSE 0)
                              + data[l][Max(s)].value.amount
    <3>1. CASE s = {}
      BY <3>1, <2>4
    <3>2. CASE s # {}
      <4>1. sel[s] = Max(s)
        BY <1>2, <3>2
      <4>2. it[s] = (IF IsLazy(data[l][sel[s]]) THEN it[s \ {sel[s]}] ELSE 0) + amt(sel[s])
        BY <2>3, <2>5, <3>2
      <4> HIDE DEF sel
      <4> QED
        BY <3>2, <4>1, <4>2
    <3> QED
      BY <3>1, <3>2
  <2>7. it = [s \in SUBSET S |-> it[s]]
    <3> HIDE DEF S, sel, step, base
    <3> QED
      BY <2>1 DEF Folds
  <2>8. ASSUME NEW s \in SUBSET S PROVE it[s] = G(it)[s]
    BY <2>6
  <2>9. G(it) = [s \in SUBSET S |-> G(it)[s]]
    OBVIOUS
  <2> HIDE DEF S, G
  <2>10. [s \in SUBSET S |-> it[s]] = [s \in SUBSET S |-> G(it)[s]]
    BY <2>8
  <2> QED
    BY <2>7, <2>9, <2>10
<1> DEFINE chosen == CHOOSE it : it = G(it)
<1>7. chosen = G(chosen)
  <2> HIDE DEF S, sel, step, G, base
  <2> QED
    BY <1>6
<1>8. Evaluate(l) = chosen[S]
  BY DEF Evaluate, MapThenFoldSet
<1> HIDE DEF chosen
<1>9. ASSUME NEW s \in SUBSET S, s # {}
      PROVE  chosen[s] = (IF IsLazy(data[l][Max(s)]) THEN chosen[s \ {Max(s)}] ELSE 0)
                           + data[l][Max(s)].value.amount
  BY <1>7, <1>9
<1>10. chosen[{}] = base
  BY <1>7
<1>11. \A s \in SUBSET S : chosen[s] \in Int
  <2>1. ASSUME NEW s \in SUBSET S, s # {}
        PROVE  chosen[s] = (IF IsLazy(data[l][sel[s]]) THEN chosen[s \ {sel[s]}] ELSE 0)
                             + amt(sel[s])
    <3>1. sel[s] = Max(s)
      BY <1>2, <2>1
    <3> HIDE DEF sel
    <3> QED
      BY <1>9, <2>1, <3>1
  <2> QED
    BY <1>5, <1>10, <2>1
<1> QED
  BY <1>8, <1>9, <1>10, <1>11 DEF Evaluates

-----------------------------------------------------------------------------
(***************************************************************************)
(* The serial execution, transaction by transaction.                       *)
(***************************************************************************)
BlockStates == [ok : BOOLEAN, results : Seq(Seq(Int)), state : [Loc -> Int]]

FirstState == [ok |-> TRUE, results |-> <<>>, state |-> storage]

LEMMA StateRecord ==
  /\ \A b \in Seq(Seq(Int)), c \in [Loc -> Int] :
       /\ [ok |-> TRUE, results |-> b, state |-> c] \in BlockStates
       /\ [ok |-> FALSE, results |-> b, state |-> c] \in BlockStates
  /\ \A st \in BlockStates :
       /\ st.ok \in BOOLEAN /\ st.results \in Seq(Seq(Int)) /\ st.state \in [Loc -> Int]
       /\ [st EXCEPT !.ok = FALSE] = [ok |-> FALSE, results |-> st.results, state |-> st.state]
<1> DEFINE A == BOOLEAN
           B == Seq(Seq(Int))
           C == [Loc -> Int]
<1>1. BlockStates = [ok : A, results : B, state : C] /\ TRUE \in A /\ FALSE \in A
  BY DEF BlockStates
<1> HIDE DEF A, B, C
<1>2. ASSUME NEW b \in B, NEW c \in C, NEW a \in A
      PROVE  [ok |-> a, results |-> b, state |-> c] \in BlockStates
  BY <1>1, SMTT(30)
<1>3. ASSUME NEW st \in BlockStates
      PROVE  /\ st.ok \in A /\ st.results \in B /\ st.state \in C
             /\ \A a \in A : [st EXCEPT !.ok = a]
                               = [ok |-> a, results |-> st.results, state |-> st.state]
  BY <1>1, SMTT(30)
<1> QED
  BY <1>1, <1>2, <1>3 DEF A, B, C

LEMMA TotalInt ==
  ASSUME NEW seen \in Seq(Int)
  PROVE  Total(seen) \in Int
<1>1. Len(seen) \in Nat /\ seen \in [1 .. Len(seen) -> Int] /\ 0 \in Int
  BY SMTT(30)
<1>2. PICK p : PartialSums(p, 0, Len(seen), seen)
  BY <1>1, SumSteps
<1>3. Len(seen) \in 0 .. Len(seen)
  BY <1>1, SMTT(30)
<1> QED
  BY <1>2, <1>3 DEF Total, SumOver, PartialSums

LEMMA WritesTyped ==
  ASSUME txs \in Blocks, NEW t \in Tx, NEW seen, Total(seen) \in Int,
         NEW l \in DOMAIN WriteSet(txs[t], seen)
  PROVE  /\ l \in Loc
         /\ WriteSet(txs[t], seen)[l] \in Values
         /\ l \in CodeLoc => WriteSet(txs[t], seen)[l].kind # "Lazy"
<1> DEFINE writes == IF Total(seen) = 0 THEN txs[t].onZero ELSE txs[t].otherwise
           ws == WriteSet(txs[t], seen)
<1>1. writes \in {txs[t].onZero, txs[t].otherwise}
  OBVIOUS
<1>2. /\ DOMAIN ws = DOMAIN writes
      /\ ws[l] = IF writes[l].kind = "Absolute"
                 THEN Write("Absolute", Total(seen) + writes[l].amount) ELSE writes[l]
  BY DEF WriteSet
<1>3. l \in Loc
  BY <1>1, <1>2, BlocksAssumption
<1>4. writes[l] \in Values /\ (l \in CodeLoc => writes[l].kind # "Lazy")
  BY <1>1, <1>2, WritesAssumption DEF Values
<1> HIDE DEF writes, ws
<1>5. ws[l] \in Values /\ (l \in CodeLoc => ws[l].kind # "Lazy")
  <2>1. CASE writes[l].kind = "Absolute"
    <3>1. Total(seen) + writes[l].amount \in Int
      BY <1>4, SMTT(30) DEF Values
    <3>2. ws[l] = [kind |-> "Absolute", amount |-> Total(seen) + writes[l].amount]
      BY <1>2, <2>1 DEF Write
    <3> QED
      BY <3>1, <3>2, SMTT(30) DEF Values
  <2>2. CASE writes[l].kind # "Absolute"
    BY <1>2, <1>4, <2>2
  <2> QED
    BY <2>1, <2>2
<1> QED
  BY <1>3, <1>5 DEF ws

LEMMA SeqStepTyped ==
  ASSUME txs \in Blocks, NEW t \in Tx, NEW st \in BlockStates
  PROVE  SeqStep(st, txs[t]) \in BlockStates
<1> DEFINE p == txs[t]
           seen == [i \in DOMAIN p.reads |-> st.state[p.reads[i]]]
           ws == WriteSet(p, seen)
           next == [l \in Loc |-> IF l \notin DOMAIN ws THEN st.state[l]
                                   ELSE IF ws[l].kind = "Lazy" THEN st.state[l] + ws[l].amount
                                   ELSE ws[l].amount]
<1>1. p.reads \in Seq(Loc)
  BY BlocksAssumption
<1>2. st.ok \in BOOLEAN /\ st.results \in Seq(Seq(Int)) /\ st.state \in [Loc -> Int]
  BY StateRecord
<1>3. seen \in Seq(Int)
  <2>1. Len(p.reads) \in Nat /\ DOMAIN p.reads = 1 .. Len(p.reads)
    BY <1>1, SMTT(30)
  <2>2. \A i \in DOMAIN p.reads : p.reads[i] \in Loc
    BY <1>1, SMTT(30)
  <2>3. seen \in [1 .. Len(p.reads) -> Int]
    BY <1>2, <2>1, <2>2
  <2> HIDE DEF seen
  <2> QED
    BY <2>1, <2>3, SMTT(30)
<1>4. next \in [Loc -> Int]
  <2> SUFFICES ASSUME NEW l \in Loc PROVE next[l] \in Int
    OBVIOUS
  <2>1. st.state[l] \in Int
    BY <1>2
  <2>2. CASE l \notin DOMAIN ws
    BY <2>1, <2>2
  <2>3. CASE l \in DOMAIN ws
    <3>1. ws[l] \in Values
      <4> HIDE DEF seen
      <4> QED
        BY <1>3, <2>3, TotalInt, WritesTyped
    <3>2. ws[l].amount \in Int
      BY <3>1 DEF Values
    <3>3. next[l] = IF ws[l].kind = "Lazy" THEN st.state[l] + ws[l].amount ELSE ws[l].amount
      BY <2>3
    <3> HIDE DEF next, ws
    <3> QED
      BY <2>1, <3>2, <3>3, SMTT(30)
  <2> QED
    BY <2>2, <2>3
<1>5. Append(st.results, seen) \in Seq(Seq(Int))
  <2> HIDE DEF seen
  <2> QED
    BY <1>2, <1>3, SMTT(30)
<1>6. CASE st.ok /\ Affordable(p, seen)
  <2>1. SeqStep(st, p) = [ok |-> TRUE, results |-> Append(st.results, seen), state |-> next]
    BY <1>6 DEF SeqStep
  <2> HIDE DEF seen, next, p
  <2>2. [ok |-> TRUE, results |-> Append(st.results, seen), state |-> next] \in BlockStates
    BY <1>4, <1>5, StateRecord
  <2> QED
    BY <2>1, <2>2 DEF p
<1>7. CASE ~(st.ok /\ Affordable(p, seen))
  <2>1. SeqStep(st, p) = [st EXCEPT !.ok = FALSE]
    BY <1>7 DEF SeqStep
  <2> HIDE DEF p
  <2>2. [ok |-> FALSE, results |-> st.results, state |-> st.state] \in BlockStates
    BY <1>2, StateRecord
  <2>3. [st EXCEPT !.ok = FALSE] = [ok |-> FALSE, results |-> st.results, state |-> st.state]
    BY StateRecord
  <2> QED
    BY <2>1, <2>2, <2>3 DEF p
<1> QED
  BY <1>6, <1>7

\* q holds the states of the block before each transaction and at the end.
Serially(q) ==
  /\ q[0] = FirstState
  /\ \A t \in Tx : q[t + 1] = SeqStep(q[t], txs[t])
  /\ \A t \in 0 .. block_size : q[t] \in BlockStates
  /\ Serial = q[block_size]

LEMMA SerialSteps ==
  ASSUME txs \in Blocks
  PROVE  \E q : Serially(q)
<1> DEFINE sel == [s \in SUBSET Tx |-> Max(s)]
           step == [x \in Tx |-> [v \in BlockStates |-> SeqStep(v, txs[x])]]
           G(it) == [s \in SUBSET Tx |-> IF s = {} THEN FirstState
                                          ELSE SeqStep(it[s \ {Max(s)}], txs[Max(s)])]
<1>1. \A s \in SUBSET Tx : s # {} => sel[s] \in s /\ sel[s] = Max(s)
  BY MaxTx
<1>2. \A x \in Tx : \A v \in BlockStates :
        step[x][v] \in BlockStates /\ step[x][v] = SeqStep(v, txs[x])
  BY SeqStepTyped
<1>3. FirstState \in BlockStates
  <2>1. <<>> \in Seq(Seq(Int))
    BY SMTT(30)
  <2> QED
    BY <2>1, StateRecord, LocationAssumption DEF FirstState
<1>4. ASSUME NEW it, it[{}] = FirstState,
             \A s \in SUBSET Tx : s # {} /\ it[s \ {sel[s]}] \in BlockStates =>
               it[s] = SeqStep(it[s \ {sel[s]}], txs[sel[s]])
      PROVE  \A s \in SUBSET Tx : it[s] \in BlockStates
  <2>1. ASSUME NEW s \in SUBSET Tx, s # {}, it[s \ {sel[s]}] \in BlockStates
        PROVE  it[s] = step[sel[s]][it[s \ {sel[s]}]]
    <3> HIDE DEF sel, step
    <3>1. sel[s] \in Tx
      BY <1>1, <2>1
    <3> QED
      BY <1>2, <1>4, <2>1, <3>1
  <2>2. \A s \in SUBSET Tx : s # {} => sel[s] \in s
    BY <1>1
  <2>3. \A x \in Tx : \A v \in BlockStates : step[x][v] \in BlockStates
    BY <1>2
  <2> HIDE DEF sel, step
  <2>4. Follows(it, Tx, BlockStates, FirstState, sel, step)
    BY <1>3, <1>4, <2>1, <2>2, <2>3 DEF Follows
  <2> QED
    BY TxFinite, <2>4, FoldTyped
<1>5. \E it : it = G(it)
  <2>1. PICK it : Folds(it, Tx, FirstState, sel, step)
    <3> HIDE DEF sel, step
    <3> QED
      BY TxFinite, <1>1, FoldExists
  <2>2. ASSUME NEW s \in SUBSET Tx
        PROVE  it[s] = IF s = {} THEN FirstState ELSE step[sel[s]][it[s \ {sel[s]}]]
    <3> HIDE DEF sel, step
    <3> QED
      BY <2>1 DEF Folds
  <2>3. ASSUME NEW s \in SUBSET Tx, s # {}, it[s \ {sel[s]}] \in BlockStates
        PROVE  it[s] = SeqStep(it[s \ {sel[s]}], txs[sel[s]])
    <3> HIDE DEF sel, step
    <3>1. sel[s] \in Tx
      BY <1>1, <2>3
    <3> QED
      BY <1>2, <2>2, <2>3, <3>1
  <2>4. it[{}] = FirstState
    BY <2>2
  <2>5. \A s \in SUBSET Tx : it[s] \in BlockStates
    BY <1>4, <2>3, <2>4
  <2>6. ASSUME NEW s \in SUBSET Tx
        PROVE  it[s] = IF s = {} THEN FirstState
                       ELSE SeqStep(it[s \ {Max(s)}], txs[Max(s)])
    <3>1. CASE s = {}
      BY <3>1, <2>4
    <3>2. CASE s # {}
      <4>1. sel[s] = Max(s)
        BY <1>1, <3>2
      <4>2. it[s] = SeqStep(it[s \ {sel[s]}], txs[sel[s]])
        BY <2>3, <2>5, <3>2
      <4> HIDE DEF sel
      <4> QED
        BY <3>2, <4>1, <4>2
    <3> QED
      BY <3>1, <3>2
  <2>7. it = [s \in SUBSET Tx |-> it[s]]
    <3> HIDE DEF sel, step
    <3> QED
      BY <2>1 DEF Folds
  <2>8. ASSUME NEW s \in SUBSET Tx PROVE it[s] = G(it)[s]
    BY <2>6
  <2>9. G(it) = [s \in SUBSET Tx |-> G(it)[s]]
    OBVIOUS
  <2> HIDE DEF G
  <2>10. [s \in SUBSET Tx |-> it[s]] = [s \in SUBSET Tx |-> G(it)[s]]
    BY <2>8
  <2> QED
    BY <2>7, <2>9, <2>10
<1> DEFINE chosen == CHOOSE it : it = G(it)
<1>6. chosen = G(chosen)
  <2> HIDE DEF G
  <2> QED
    BY <1>5
<1>7. Serial = chosen[Tx]
  BY DEF Serial, MapThenFoldSet, FirstState
<1> HIDE DEF chosen
<1>8. ASSUME NEW s \in SUBSET Tx, s # {}
      PROVE  chosen[s] = SeqStep(chosen[s \ {Max(s)}], txs[Max(s)])
  BY <1>6, <1>8
<1>9. chosen[{}] = FirstState
  BY <1>6
<1>10. \A s \in SUBSET Tx : chosen[s] \in BlockStates
  <2>1. ASSUME NEW s \in SUBSET Tx, s # {}
        PROVE  chosen[s] = SeqStep(chosen[s \ {sel[s]}], txs[sel[s]])
    <3>1. sel[s] = Max(s)
      BY <1>1, <2>1
    <3> HIDE DEF sel
    <3> QED
      BY <1>8, <2>1, <3>1
  <2> QED
    BY <1>4, <1>9, <2>1
<1> DEFINE below(t) == {k \in Tx : k < t}
           q == [t \in 0 .. block_size |-> chosen[below(t)]]
<1>11. below(0) = {} /\ below(block_size) = Tx /\ 0 \in 0 .. block_size /\ block_size \in 0 .. block_size
  BY BlockSizeAssumption, SMTT(30) DEF Tx
<1>12. ASSUME NEW t \in Tx
       PROVE  /\ t \in 0 .. block_size /\ t + 1 \in 0 .. block_size
              /\ below(t + 1) # {} /\ Max(below(t + 1)) = t /\ below(t + 1) \ {t} = below(t)
  <2>1. t \in Nat /\ t \in 0 .. block_size /\ t + 1 \in 0 .. block_size
    BY BlockSizeAssumption, SMTT(30) DEF Tx
  <2>2. t \in below(t + 1) /\ \A k \in below(t + 1) : k \in Nat /\ k <= t
    BY <2>1, BlockSizeAssumption, SMTT(30) DEF Tx
  <2>3. Max(below(t + 1)) \in below(t + 1) /\ Max(below(t + 1)) >= t
    BY <2>2, MaxTx
  <2>4. Max(below(t + 1)) = t
    <3> DEFINE m == Max(below(t + 1))
    <3>1. m \in Nat /\ m <= t /\ m >= t
      BY <2>2, <2>3
    <3> HIDE DEF m
    <3>2. m = t
      BY <2>1, <3>1, SMTT(30)
    <3> QED
      BY <3>2 DEF m
  <2>5. below(t + 1) \ {t} = below(t)
    BY <2>1, BlockSizeAssumption, SMTT(30) DEF Tx
  <2> QED
    BY <2>1, <2>2, <2>4, <2>5
<1>13. ASSUME NEW t \in Tx PROVE q[t + 1] = SeqStep(q[t], txs[t])
  <2>1. below(t + 1) \in SUBSET Tx
    OBVIOUS
  <2>2. q[t + 1] = chosen[below(t + 1)] /\ q[t] = chosen[below(t)]
    BY <1>12
  <2> DEFINE s == below(t + 1)
  <2>3. s \in SUBSET Tx /\ s # {} /\ Max(s) = t /\ s \ {t} = below(t)
    BY <1>12, <2>1
  <2> HIDE DEF s
  <2>4. chosen[s] = SeqStep(chosen[s \ {Max(s)}], txs[Max(s)])
    BY <1>8, <2>3
  <2>5. chosen[s] = SeqStep(chosen[below(t)], txs[t])
    BY <2>3, <2>4
  <2> HIDE DEF q, below
  <2> QED
    BY <2>2, <2>5 DEF s
<1>14. \A t \in 0 .. block_size : q[t] \in BlockStates
  BY <1>10
<1>15. q[0] = FirstState /\ Serial = q[block_size]
  BY <1>7, <1>9, <1>11
<1> HIDE DEF q
<1> QED
  BY <1>13, <1>14, <1>15 DEF Serially
-----------------------------------------------------------------------------
(***************************************************************************)
(* A valid read found the evaluation of the entries below the reader.      *)
(***************************************************************************)
\* The i-th origin of a valid read is the version of the i-th entry, k.
Backs(hist, l, t, o, i, k) ==
  /\ k \in Entries(l, t) /\ Place(l, t, k) = i
  /\ data[l][k] # Estimate /\ data[l][k].value = hist[l][o[i]]

LEMMA ValidBacked ==
  ASSUME NEW hist, EntriesAre(hist), NEW l \in Loc, NEW t, NEW o, OriginsValid(l, t, o),
         NEW i \in DOMAIN o, o[i] # StorageOrigin
  PROVE  \E k : Backs(hist, l, t, o, i, k)
<1>1. PICK k \in Entries(l, t) : /\ Place(l, t, k) = i
                                 /\ data[l][k] # Estimate
                                 /\ o[i] = Version(k, data[l][k].incarnation)
  BY DEF OriginsValid
<1>2. PICK n \in Nat : data[l][k] = Data(n, hist[l][Version(k, n)])
  BY <1>1 DEF EntriesAre, Entries
<1>3. data[l][k].incarnation = n /\ data[l][k].value = hist[l][Version(k, n)]
  BY <1>2, SMTT(30) DEF Data
<1> QED
  BY <1>1, <1>3 DEF Backs

\* The entries that come after the j-th when range(..t) is walked from the end.
Rest(l, t, j) == {k \in Entries(l, t) : Place(l, t, k) > j}

TakesFirst(l, t, j, k) ==
  /\ Rest(l, t, j) # {} /\ Rest(l, t, j) \in SUBSET DOMAIN data[l]
  /\ Max(Rest(l, t, j)) = k /\ Rest(l, t, j) \ {k} = Rest(l, t, j + 1)

LEMMA RestSteps ==
  ASSUME Counted, NEW l, NEW t, DOMAIN data[l] \subseteq Tx, NEW j \in Nat,
         NEW k \in Entries(l, t), Place(l, t, k) = j + 1
  PROVE  TakesFirst(l, t, j, k)
<1> DEFINE E == Entries(l, t)
           R == Rest(l, t, j)
           P(x) == Place(l, t, x)
<1>1. \A x, y \in E : /\ x \in Int /\ P(x) \in Nat
                      /\ x < y => P(y) < P(x)
  BY LowerEntries, PlacesDescend
<1>2. k \in R
  <2>1. P(k) > j
    BY SMTT(30)
  <2> QED
    BY <2>1 DEF Rest
<1>3. R \in SUBSET Tx /\ R \in SUBSET DOMAIN data[l] /\ R \subseteq E
  BY DEF Rest, Entries
<1>4. Max(R) \in R /\ Max(R) >= k
  BY <1>2, <1>3, MaxTx
<1>5. \A x \in R : x \in E /\ P(x) > j
  BY DEF Rest
<1>6. \A x \in R : x <= k /\ (x # k => P(x) > j + 1)
  <2> HIDE DEF E, R, P
  <2>1. k \in E /\ P(k) = j + 1
    BY <1>2, <1>5 DEF P
  <2> QED
    BY <1>1, <1>5, <2>1, SMTT(30)
<1>7. Max(R) = k
  <2>1. Max(R) \in Int /\ k \in Int /\ Max(R) <= k /\ Max(R) >= k
    BY <1>1, <1>3, <1>4, <1>6
  <2> HIDE DEF R
  <2>2. Max(R) = k
    BY <2>1, SMTT(30)
  <2> QED
    BY <2>2
<1>8. R \ {k} = Rest(l, t, j + 1)
  <2>1. ASSUME NEW x \in E, P(x) > j + 1 PROVE P(x) > j /\ x # k
    <3>1. P(x) \in Nat
      BY <1>1
    <3> HIDE DEF P
    <3> QED
      BY <2>1, <3>1, SMTT(30) DEF P
  <2> QED
    BY <1>5, <1>6, <2>1 DEF Rest
<1> QED
  BY <1>2, <1>3, <1>7, <1>8 DEF TakesFirst

LEMMA RestEnds ==
  ASSUME Counted, NEW l, NEW t, DOMAIN data[l] \subseteq Tx
  PROVE  /\ Rest(l, t, 0) = Entries(l, t)
         /\ \A n \in Nat : Cardinality(Entries(l, t)) < n + 1 => Rest(l, t, n) = {}
<1>1. \A x \in Entries(l, t) : Place(l, t, x) \in Nat \ {0}
                               /\ Place(l, t, x) <= Cardinality(Entries(l, t))
  BY PlacesDescend
<1>2. Cardinality(Entries(l, t)) \in Nat
  BY LowerEntries
<1>3. \A x \in Entries(l, t) : Place(l, t, x) > 0
  BY <1>1, SMTT(30)
<1>4. ASSUME NEW n \in Nat, Cardinality(Entries(l, t)) < n + 1
      PROVE  \A x \in Entries(l, t) : ~(Place(l, t, x) > n)
  BY <1>1, <1>2, <1>4, SMTT(30)
<1> QED
  BY <1>3, <1>4 DEF Rest

LEMMA ValidAmount ==
  ASSUME Counted, NEW hist, History(hist), EntriesAre(hist), NEW l \in Loc,
         DOMAIN data[l] \subseteq Tx, NEW t, NEW o, OriginsOf(hist, t, l, o),
         OriginsValid(l, t, o), NEW e, Evaluates(e, l)
  PROVE  Amount(hist, l, o) = e[Entries(l, t)]
<1> DEFINE n == Len(o)
           m == IF FromStorage(o) THEN n - 1 ELSE n
           base == IF FromStorage(o) THEN storage[l] ELSE 0
           f == [i \in 1 .. m |-> hist[l][o[i]].amount]
           kind(i) == hist[l][o[i]].kind
           R(j) == Rest(l, t, j)
<1>1. /\ n \in Nat /\ n >= 1 /\ DOMAIN o = 1 .. n
      /\ \A i \in 1 .. n : o[i] \in Versions \cup {StorageOrigin}
  BY SMTT(30) DEF OriginsOf
<1>2. ASSUME NEW i \in 1 .. n, i < n
      PROVE  o[i] # StorageOrigin /\ kind(i) = "Lazy"
  <2>1. i \in 1 .. n - 1
    BY <1>1, <1>2, SMTT(30)
  <2> QED
    BY <2>1 DEF OriginsOf
<1>3. ~FromStorage(o) => o[n] # StorageOrigin /\ kind(n) # "Lazy"
  BY DEF OriginsOf, FromStorage
<1>4. m \in Nat /\ m <= n /\ n - 1 <= m
  BY <1>1, SMTT(30)
<1>5. ASSUME NEW i \in 1 .. m PROVE i \in 1 .. n /\ o[i] # StorageOrigin /\ o[i] \in Versions
  <2>1. i \in 1 .. n
    BY <1>1, <1>4, SMTT(30)
  <2>2. i < n \/ (i = n /\ ~FromStorage(o))
    <3>1. (FromStorage(o) => m = n - 1) /\ (~FromStorage(o) => m = n)
      OBVIOUS
    <3> HIDE DEF m, n
    <3>2. (m = n - 1 => i < n) /\ (m = n => i < n \/ i = n)
      BY <1>1, SMTT(30)
    <3> QED
      BY <3>1, <3>2
  <2> QED
    BY <1>1, <1>2, <1>3, <2>1, <2>2
<1>6. f \in [1 .. m -> Int]
  <2> SUFFICES ASSUME NEW i \in 1 .. m PROVE hist[l][o[i]].amount \in Int
    OBVIOUS
  <2>1. hist[l][o[i]] \in Values
    BY <1>5 DEF History
  <2> QED
    BY <2>1, SMTT(30) DEF Values
<1>7. base \in Int
  <2>1. storage[l] \in Int /\ 0 \in Int
    BY LocationAssumption, SMTT(30)
  <2> QED
    BY <2>1
<1>8. Amount(hist, l, o) = SumOver(base, f)
  BY DEF Amount, SumOver
<1> HIDE DEF f, base, m
<1>9. PICK p : PartialSums(p, base, m, f)
  BY <1>4, <1>6, <1>7, SumSteps
<1>10. ASSUME NEW i \in 1 .. m
       PROVE  /\ e[R(i - 1)] = (IF kind(i) = "Lazy" THEN e[R(i)] ELSE 0) + f[i]
              /\ p[i] = p[i - 1] + f[i] /\ p[i] \in Int /\ p[i - 1] \in Int /\ f[i] \in Int
              /\ e[R(i)] \in Int
  <2>1. PICK k : Backs(hist, l, t, o, i, k)
    BY <1>1, <1>5, ValidBacked
  <2>2. PICK j \in Nat : j = i - 1 /\ j + 1 = i
    BY <1>4, SMTT(30)
  <2>3. /\ R(i - 1) # {} /\ R(i - 1) \in SUBSET DOMAIN data[l]
        /\ Max(R(i - 1)) = k /\ R(i - 1) \ {k} = R(i)
    <3>1. k \in Entries(l, t) /\ Place(l, t, k) = j + 1
      BY <2>1, <2>2 DEF Backs
    <3> HIDE DEF R, kind, n
    <3>2. TakesFirst(l, t, j, k)
      BY <3>1, RestSteps
    <3>3. R(i - 1) = Rest(l, t, j) /\ R(i) = Rest(l, t, j + 1)
      BY <2>2 DEF R
    <3> QED
      BY <3>2, <3>3 DEF TakesFirst
  <2>4. R(i) \in SUBSET DOMAIN data[l]
    BY DEF Rest, Entries
  <2> HIDE DEF R
  <2>5. e[R(i - 1)] = (IF IsLazy(data[l][k]) THEN e[R(i)] ELSE 0) + data[l][k].value.amount
    BY <2>3 DEF Evaluates
  <2>6. IsLazy(data[l][k]) <=> kind(i) = "Lazy"
    BY <2>1 DEF IsLazy, Backs
  <2>7. data[l][k].value.amount = f[i]
    BY <2>1 DEF Backs, f
  <2>8. i - 1 \in 0 .. m /\ i \in 0 .. m
    BY <1>4, SMTT(30)
  <2>9. e[R(i)] \in Int
    BY <2>4 DEF Evaluates
  <2> QED
    BY <1>6, <1>9, <2>5, <2>6, <2>7, <2>8, <2>9 DEF PartialSums
<1> HIDE DEF R
<1>11. R(0) = Entries(l, t) /\ \A i \in Nat : Cardinality(Entries(l, t)) < i + 1 => R(i) = {}
  BY RestEnds DEF R
<1> DEFINE P == {j \in Nat : j <= n - 1 => e[R(0)] + base = p[j] + e[R(j)]}
<1>12. e[R(0)] \in Int /\ p[0] = base
  <2>1. R(0) \in SUBSET DOMAIN data[l]
    BY DEF R, Rest, Entries
  <2> QED
    BY <1>9, <2>1 DEF Evaluates, PartialSums
<1>13. 0 \in P
  BY <1>1, <1>7, <1>12, SMTT(30)
<1>14. ASSUME NEW j \in Nat, j \in P PROVE j + 1 \in P
  <2>1. j + 1 \in Nat
    BY SMTT(30)
  <2> SUFFICES ASSUME j + 1 <= n - 1 PROVE e[R(0)] + base = p[j + 1] + e[R(j + 1)]
    BY <2>1
  <2> DEFINE i == j + 1
  <2>2. i \in 1 .. m /\ i \in 1 .. n /\ i < n /\ i - 1 = j /\ j <= n - 1
    BY <1>1, <1>4, SMTT(30)
  <2>3. e[R(0)] + base = p[j] + e[R(j)]
    BY <1>14, <2>2
  <2> HIDE DEF i
  <2>4. kind(i) = "Lazy"
    BY <1>2, <2>2
  <2>5. /\ e[R(j)] = e[R(i)] + f[i] /\ p[i] = p[j] + f[i]
        /\ p[j] \in Int /\ f[i] \in Int /\ e[R(i)] \in Int
    BY <1>10, <2>2, <2>4
  <2>6. p[j] + e[R(j)] = p[i] + e[R(i)]
    BY <2>5, SMTT(30)
  <2> QED
    BY <2>3, <2>6 DEF i
<1>15. e[R(0)] + base = p[n - 1] + e[R(n - 1)]
  <2>1. n - 1 \in Nat /\ n - 1 <= n - 1
    BY <1>1, SMTT(30)
  <2>2. \A j \in Nat : j \in P
    <3> HIDE DEF P
    <3> QED
      BY <1>13, <1>14, Induct
  <2> QED
    BY <2>1, <2>2
<1>16. CASE FromStorage(o)
  <2>1. m = n - 1 /\ base = storage[l]
    BY <1>16 DEF m, base
  <2>2. Cardinality(Entries(l, t)) < n
    <3>1. n \in DOMAIN o
      BY <1>1, SMTT(30)
    <3> QED
      BY <1>16, <3>1 DEF OriginsValid, FromStorage
  <2>3. n - 1 \in Nat /\ (n - 1) + 1 = n
    BY <1>1, SMTT(30)
  <2>4. R(n - 1) = {}
    BY <1>11, <2>2, <2>3
  <2>5. e[R(n - 1)] = base
    BY <2>1, <2>4 DEF Evaluates
  <2>6. p[m] \in Int
    <3>1. m \in 0 .. m
      BY <1>4, SMTT(30)
    <3> QED
      BY <1>9, <3>1 DEF PartialSums
  <2>7. e[R(0)] + base = p[m] + base
    BY <1>15, <2>1, <2>5
  <2>8. e[R(0)] = p[m]
    BY <1>7, <1>12, <2>6, <2>7, SMTT(30)
  <2> QED
    BY <1>8, <1>9, <1>11, <2>8 DEF PartialSums
<1>17. CASE ~FromStorage(o)
  <2>1. m = n /\ base = 0
    BY <1>17 DEF m, base
  <2>2. n \in 1 .. m
    BY <1>1, <2>1, SMTT(30)
  <2>3. e[R(n - 1)] = 0 + f[n] /\ p[n] = p[n - 1] + f[n] /\ p[n - 1] \in Int /\ f[n] \in Int
    BY <1>3, <1>10, <1>17, <2>2
  <2>4. e[R(0)] = p[n]
    BY <1>12, <1>15, <2>1, <2>3, SMTT(30)
  <2> QED
    BY <1>8, <1>9, <1>11, <2>1, <2>4 DEF PartialSums
<1> QED
  BY <1>16, <1>17

-----------------------------------------------------------------------------
(***************************************************************************)
(* The end of the block: every execution is concluded, what it read is     *)
(* valid, and no ESTIMATE is left.                                         *)
(***************************************************************************)
Collects(hist) ==
  /\ MemInv /\ EntriesDefinite
  /\ \A t \in Tx : Concluded(t) /\ ReadSetValid(t)
  /\ ResultsWritten
  /\ History(hist) /\ EntriesAre(hist) /\ ResultsSaw(hist)

Evaluations(E) == \A l \in Loc : Evaluates(E[l], l)

LEMMA EvaluationsExist ==
  ASSUME NEW hist, Collects(hist)
  PROVE  \E E : Evaluations(E)
<1>1. ASSUME NEW l \in Loc, NEW k \in DOMAIN data[l]
      PROVE  data[l][k].value.amount \in Int
  <2>1. PICK n \in Nat : data[l][k] = Data(n, hist[l][Version(k, n)])
    BY DEF Collects, EntriesDefinite, EntriesAre
  <2>2. Version(k, n) \in Versions
    <3>1. k \in Tx
      BY DEF Collects, MemInv
    <3> QED
      BY <3>1, SMTT(30) DEF Version, Versions
  <2>3. hist[l][Version(k, n)] \in Values
    BY <2>2 DEF Collects, History
  <2>4. hist[l][Version(k, n)].amount \in Int
    BY <2>3, SMTT(30) DEF Values
  <2>5. data[l][k].value = hist[l][Version(k, n)]
    BY <2>1, SMTT(30) DEF Data
  <2> QED
    BY <2>4, <2>5
<1>2. ASSUME NEW l \in Loc PROVE \E e : Evaluates(e, l)
  <2>1. DOMAIN data[l] \subseteq Tx
    BY DEF Collects, MemInv
  <2> QED
    BY <1>1, <2>1, EvaluateSteps
<1> DEFINE E == [l \in Loc |-> CHOOSE e : Evaluates(e, l)]
<1>3. \A l \in Loc : Evaluates(E[l], l)
  BY <1>2
<1> HIDE DEF E
<1> QED
  BY <1>3 DEF Evaluations

\* The state of the block before transaction t.
StateAt(E, t) ==
  [ok |-> TRUE, results |-> [i \in 1 .. t |-> execution_results[i - 1]],
   state |-> [l \in Loc |-> E[l][Entries(l, t)]]]

\* A transaction changes it as the entries it wrote say.
Applies(E, l, t, ws) ==
  E[l][Entries(l, t + 1)] =
    IF l \notin DOMAIN ws THEN E[l][Entries(l, t)]
    ELSE IF ws[l].kind = "Lazy" THEN E[l][Entries(l, t)] + ws[l].amount
    ELSE ws[l].amount

LEMMA StateBelow ==
  ASSUME NEW hist, Collects(hist), NEW E, Evaluations(E), NEW t \in Tx, NEW l \in Loc,
         NEW ws, ws = WriteSet(txs[t], execution_results[t])
  PROVE  Applies(E, l, t, ws)
<1> DEFINE S == Entries(l, t + 1)
           v == E[l][Entries(l, t)]
<1>1. t \in Nat /\ \A k \in Tx : k \in Nat
  BY BlockSizeAssumption, SMTT(30) DEF Tx
<1>2. /\ S \in SUBSET Tx /\ S \in SUBSET DOMAIN data[l] /\ Entries(l, t) \in SUBSET DOMAIN data[l]
      /\ DOMAIN data[l] \subseteq Tx
  BY DEF Collects, MemInv, Entries
<1>3. \A k \in Tx : (k < t + 1 <=> k < t \/ k = t) /\ ~(t < t)
  BY <1>1, SMTT(30)
<1>4. S \ {t} = Entries(l, t)
  BY <1>2, <1>3 DEF Entries
<1>5. /\ locations[t].write = DOMAIN ws
      /\ \A m \in locations[t].write : EntryOf(m, t, execution_results[t])
  BY DEF Collects, ResultsWritten, Wrote
<1>6. CASE l \notin DOMAIN ws
  <2>1. t \notin DOMAIN data[l]
    BY <1>5, <1>6 DEF Collects, EntriesDefinite, MemInv, EntriesOwned
  <2>2. t \notin S
    BY <1>2, <2>1
  <2>3. S = Entries(l, t)
    BY <1>4, <2>2
  <2> QED
    BY <1>6, <2>3 DEF Applies
<1>7. CASE l \in DOMAIN ws
  <2>1. t \in DOMAIN data[l] /\ data[l][t] # Estimate /\ data[l][t].value = ws[l]
    BY <1>5, <1>7 DEF EntryOf
  <2>2. t \in S
    BY <1>3, <2>1 DEF Entries
  <2>3. Max(S) = t
    <3>1. Max(S) \in S /\ Max(S) >= t
      BY <1>2, <2>2, MaxTx
    <3>2. \A k \in S : k \in Nat /\ k < t + 1
      BY <1>1, <1>2 DEF Entries
    <3> DEFINE m == Max(S)
    <3>3. m \in Nat /\ m < t + 1 /\ m >= t
      BY <3>1, <3>2
    <3> HIDE DEF m
    <3>4. m = t
      BY <1>1, <3>3, SMTT(30)
    <3> QED
      BY <3>4 DEF m
  <2>4. Evaluates(E[l], l)
    BY DEF Evaluations
  <2>5. v \in Int
    BY <1>2, <2>4 DEF Evaluates
  <2>6. E[l][S] = (IF IsLazy(data[l][t]) THEN v ELSE 0) + ws[l].amount
    <3>1. S # {} /\ S \in SUBSET DOMAIN data[l]
      BY <1>2, <2>2
    <3> HIDE DEF S
    <3> QED
      BY <1>4, <2>1, <2>3, <2>4, <3>1 DEF Evaluates
  <2>7. IsLazy(data[l][t]) <=> ws[l].kind = "Lazy"
    BY <2>1 DEF IsLazy
  <2>8. 0 + ws[l].amount = ws[l].amount
    <3>1. execution_results[t] \in Seq(Int)
      BY DEF Collects, ResultsSaw, SeenFrom
    <3>2. ws[l] \in Values
      BY <1>7, <3>1, TotalInt, WritesTyped DEF Collects, MemInv
    <3>3. ws[l].amount \in Int
      BY <3>2, SMTT(30) DEF Values
    <3> QED
      BY <3>3, SMTT(30)
  <2> HIDE DEF v
  <2>9. E[l][S] = IF ws[l].kind = "Lazy" THEN v + ws[l].amount ELSE ws[l].amount
    BY <2>6, <2>7, <2>8
  <2> QED
    BY <1>7, <2>9 DEF v, Applies
<1> QED
  BY <1>6, <1>7

\* A transaction read the state before it.
LEMMA SeenBelow ==
  ASSUME Counted, NEW hist, Collects(hist), NEW E, Evaluations(E), NEW t \in Tx
  PROVE  execution_results[t]
           = [i \in DOMAIN txs[t].reads |-> E[txs[t].reads[i]][Entries(txs[t].reads[i], t)]]
<1> DEFINE r == txs[t].reads
           x == execution_results[t]
           R == locations[t].read
<1>1. SeenFrom(hist, t, txs[t], x, R) /\ Executes(txs[t], x) /\ ReadSetValid(t)
  BY DEF Collects, ResultsSaw, ResultsWritten
<1>2. r \in Seq(Loc)
  BY BlocksAssumption DEF Collects, MemInv
<1>3. x \in Seq(Int) /\ Len(x) = Len(r)
  BY <1>1 DEF SeenFrom, Executes
<1>4. x = [i \in DOMAIN r |-> x[i]] /\ DOMAIN r = 1 .. Len(x) /\ \A i \in DOMAIN r : r[i] \in Loc
  <2> HIDE DEF r, x
  <2> QED
    BY <1>2, <1>3, SMTT(30)
<1>5. ASSUME NEW i \in DOMAIN r PROVE x[i] = E[r[i]][Entries(r[i], t)]
  <2>1. r[i] \in DOMAIN R /\ x[i] = Amount(hist, r[i], R[r[i]]) /\ OriginsOf(hist, t, r[i], R[r[i]])
    BY <1>1, <1>4, <1>5 DEF SeenFrom
  <2>2. OriginsValid(r[i], t, R[r[i]])
    BY <1>1, <2>1 DEF ReadSetValid
  <2>3. r[i] \in Loc /\ DOMAIN data[r[i]] \subseteq Tx /\ Evaluates(E[r[i]], r[i])
    BY <1>4, <1>5 DEF Collects, MemInv, Evaluations
  <2>4. History(hist) /\ EntriesAre(hist)
    BY DEF Collects
  <2> DEFINE l == r[i]
             o == R[r[i]]
  <2>5. /\ l \in Loc /\ DOMAIN data[l] \subseteq Tx /\ Evaluates(E[l], l)
        /\ OriginsOf(hist, t, l, o) /\ OriginsValid(l, t, o)
    BY <2>1, <2>2, <2>3
  <2> HIDE DEF l, o
  <2>6. Amount(hist, l, o) = E[l][Entries(l, t)]
    BY <2>4, <2>5, ValidAmount
  <2> QED
    BY <2>1, <2>6 DEF l, o
<1> HIDE DEF x
<1>6. [i \in DOMAIN r |-> x[i]] = [i \in DOMAIN r |-> E[r[i]][Entries(r[i], t)]]
  BY <1>5
<1> QED
  BY <1>4, <1>6 DEF x

Prolongs(r1, r, x, n, S) ==
  /\ r \in Seq(S) /\ x \in S /\ n \in Nat /\ Len(r) = n
  /\ r1 \in [1 .. n + 1 -> S] /\ r1[n + 1] = x /\ \A i \in 1 .. n : r1[i] = r[i]

LEMMA AppendIs ==
  ASSUME NEW S, NEW r, NEW x, NEW n, NEW r1, Prolongs(r1, r, x, n, S)
  PROVE  Append(r, x) = r1
<1> USE DEF Prolongs
<1>1. r1 \in Seq(S) /\ Len(r1) = n + 1
  BY SMTT(30)
<1>2. Append(r, x) \in Seq(S) /\ Len(Append(r, x)) = n + 1
  BY SMTT(30)
<1>3. \A i \in 1 .. n + 1 : Append(r, x)[i] = r1[i]
  BY SMTT(30)
<1> QED
  BY <1>1, <1>2, <1>3, SMTT(30)

LEMMA StateStep ==
  ASSUME Counted, NEW hist, Collects(hist), NEW E, Evaluations(E), NEW t \in Tx
  PROVE  SeqStep(StateAt(E, t), txs[t]) = StateAt(E, t + 1)
<1> DEFINE st == StateAt(E, t)
           p == txs[t]
           x == execution_results[t]
           seen == [i \in DOMAIN p.reads |-> st.state[p.reads[i]]]
           ws == WriteSet(p, x)
           next == [l \in Loc |-> IF l \notin DOMAIN ws THEN st.state[l]
                                   ELSE IF ws[l].kind = "Lazy" THEN st.state[l] + ws[l].amount
                                   ELSE ws[l].amount]
<1>1. /\ st.ok = TRUE /\ st.results = [i \in 1 .. t |-> execution_results[i - 1]]
      /\ \A l \in Loc : st.state[l] = E[l][Entries(l, t)]
  BY DEF StateAt
<1>2. \A i \in DOMAIN p.reads : p.reads[i] \in Loc
  <2>1. p.reads \in Seq(Loc)
    BY BlocksAssumption DEF Collects, MemInv
  <2> HIDE DEF p
  <2> QED
    BY <2>1, SMTT(30)
<1>3. seen = x
  <2>1. x = [i \in DOMAIN p.reads |-> E[p.reads[i]][Entries(p.reads[i], t)]]
    BY SeenBelow
  <2> HIDE DEF st
  <2> QED
    BY <1>1, <1>2, <2>1
<1>4. Affordable(p, x)
  BY DEF Collects, ResultsWritten, Executes
<1>5. SeqStep(st, p) = [ok |-> TRUE, results |-> Append(st.results, x), state |-> next]
  <2> HIDE DEF st, p, x
  <2> QED
    BY <1>1, <1>3, <1>4 DEF SeqStep
<1>6. Append(st.results, x) = [i \in 1 .. t + 1 |-> execution_results[i - 1]]
  <2> DEFINE r == [i \in 1 .. t |-> execution_results[i - 1]]
             r1 == [i \in 1 .. t + 1 |-> execution_results[i - 1]]
  <2>1. t \in Nat /\ t + 1 \in 1 .. t + 1 /\ (t + 1) - 1 = t
    BY BlockSizeAssumption, SMTT(30) DEF Tx
  <2>2. r1[t + 1] = x /\ DOMAIN r = 1 .. t /\ DOMAIN r1 = 1 .. t + 1
    BY <2>1
  <2>3. \A i \in 1 .. t : i \in 1 .. t + 1
    BY <2>1, SMTT(30)
  <2>4. \A i \in 1 .. t : r[i] = r1[i]
    BY <2>3
  <2>5. r1 = [i \in 1 .. t + 1 |-> r1[i]]
    OBVIOUS
  <2> HIDE DEF r, r1, x
  <2>6. Append(r, x) = r1
    <3>1. r \in Seq(Seq(Int)) /\ x \in Seq(Int) /\ r1 \in [1 .. t + 1 -> Seq(Int)] /\ Len(r) = t
      <4> DEFINE S == Seq(Int)
      <4>1. \A i \in 1 .. t + 1 : i - 1 \in Tx
        BY <2>1, BlockSizeAssumption, SMTT(30) DEF Tx
      <4>2. \A k \in Tx : execution_results[k] \in S
        BY DEF Collects, ResultsSaw, SeenFrom
      <4>3. r1 \in [1 .. t + 1 -> S] /\ r \in [1 .. t -> S] /\ x \in S
        BY <2>3, <4>1, <4>2 DEF r, r1, x
      <4> HIDE DEF S
      <4>4. r \in Seq(S) /\ Len(r) = t
        BY <2>1, <4>3, SMTT(30)
      <4> QED
        BY <4>3, <4>4 DEF S
    <3>2. Prolongs(r1, r, x, t, Seq(Int))
      BY <2>1, <2>2, <2>4, <3>1 DEF Prolongs
    <3> QED
      BY <3>2, AppendIs
  <2> QED
    BY <1>1, <2>6 DEF r, r1
<1>7. next = [l \in Loc |-> E[l][Entries(l, t + 1)]]
  <2>1. ASSUME NEW l \in Loc PROVE next[l] = E[l][Entries(l, t + 1)]
    <3>1. st.state[l] = E[l][Entries(l, t)]
      BY <1>1
    <3>2. ws = WriteSet(txs[t], execution_results[t])
      OBVIOUS
    <3>3. next[l] = IF l \notin DOMAIN ws THEN st.state[l]
                    ELSE IF ws[l].kind = "Lazy" THEN st.state[l] + ws[l].amount
                    ELSE ws[l].amount
      OBVIOUS
    <3> HIDE DEF next, ws, st
    <3>4. Applies(E, l, t, ws)
      BY <3>2, StateBelow
    <3> QED
      BY <3>1, <3>3, <3>4 DEF Applies
  <2>2. next = [l \in Loc |-> next[l]]
    OBVIOUS
  <2> HIDE DEF next
  <2> QED
    BY <2>1, <2>2
<1> HIDE DEF next, st, x
<1> QED
  BY <1>5, <1>6, <1>7 DEF StateAt, st

(***************************************************************************)
(* What is collected without an abort is the outcome of the serial         *)
(* execution.                                                              *)
(***************************************************************************)
LEMMA CollectedSerial ==
  ASSUME Counted, NEW hist, Collects(hist)
  PROVE  SerialOutcome = Ok([i \in 1 .. block_size |-> execution_results[i - 1]],
                            [l \in Loc |-> Evaluate(l)])
<1>1. PICK E : Evaluations(E)
  BY EvaluationsExist
<1>2. txs \in Blocks /\ \A l \in Loc : DOMAIN data[l] \subseteq Tx
  BY DEF Collects, MemInv
<1>3. PICK q : Serially(q)
  BY <1>2, SerialSteps
<1> DEFINE P == {t \in Nat : t <= block_size => q[t] = StateAt(E, t)}
<1>4. 0 \in P
  <2>1. [i \in 1 .. 0 |-> execution_results[i - 1]] = <<>>
    BY SMTT(30)
  <2>2. ASSUME NEW l \in Loc PROVE E[l][Entries(l, 0)] = storage[l]
    <3>1. \A k \in Tx : ~(k < 0)
      BY BlockSizeAssumption, SMTT(30) DEF Tx
    <3>2. Entries(l, 0) = {}
      BY <1>2, <3>1 DEF Entries
    <3> QED
      BY <1>1, <3>2 DEF Evaluations, Evaluates
  <2>3. storage = [l \in Loc |-> storage[l]]
    BY LocationAssumption
  <2>4. [l \in Loc |-> E[l][Entries(l, 0)]] = storage
    BY <2>2, <2>3
  <2>5. q[0] = StateAt(E, 0)
    BY <1>3, <2>1, <2>4 DEF Serially, FirstState, StateAt
  <2>6. 0 \in Nat
    BY SMTT(30)
  <2> QED
    BY <2>5, <2>6
<1>5. ASSUME NEW t \in Nat, t \in P PROVE t + 1 \in P
  <2>1. t + 1 \in Nat
    BY SMTT(30)
  <2> SUFFICES ASSUME t + 1 <= block_size PROVE q[t + 1] = StateAt(E, t + 1)
    BY <2>1
  <2>2. t <= block_size /\ t \in Tx
    BY BlockSizeAssumption, SMTT(30) DEF Tx
  <2>3. q[t + 1] = SeqStep(q[t], txs[t])
    BY <1>3, <2>2 DEF Serially
  <2>4. q[t] = StateAt(E, t)
    BY <1>5, <2>2
  <2> QED
    BY <1>1, <2>2, <2>3, <2>4, StateStep
<1>6. q[block_size] = StateAt(E, block_size)
  <2>1. \A t \in Nat : t \in P
    <3> HIDE DEF P
    <3> QED
      BY <1>4, <1>5, Induct
  <2>2. block_size \in Nat /\ block_size <= block_size
    BY BlockSizeAssumption, SMTT(30)
  <2> QED
    BY <2>1, <2>2
<1>7. ASSUME NEW l \in Loc PROVE E[l][Entries(l, block_size)] = Evaluate(l)
  <2>1. \A k \in Tx : k < block_size
    BY BlockSizeAssumption, SMTT(30) DEF Tx
  <2>2. Entries(l, block_size) = DOMAIN data[l]
    BY <1>2, <2>1 DEF Entries
  <2> QED
    BY <1>1, <2>2 DEF Evaluations, Evaluates
<1>8. /\ Serial.ok = TRUE
      /\ Serial.results = [i \in 1 .. block_size |-> execution_results[i - 1]]
      /\ Serial.state = [l \in Loc |-> E[l][Entries(l, block_size)]]
  <2>1. Serial = StateAt(E, block_size)
    BY <1>3, <1>6 DEF Serially
  <2> QED
    BY <2>1 DEF StateAt
<1>9. Serial.state = [l \in Loc |-> Evaluate(l)]
  BY <1>7, <1>8
<1> QED
  BY <1>8, <1>9 DEF SerialOutcome

\* A block whose first transaction cannot pay fails serially.
LEMMA FailedSerial ==
  ASSUME txs \in Blocks, FirstFails
  PROVE  SerialOutcome = Err
<1>1. PICK q : Serially(q)
  BY SerialSteps
<1> DEFINE P == {t \in Nat : t < block_size => q[t + 1].ok = FALSE}
<1>2. 0 \in P
  <2>1. 0 \in Tx /\ 0 \in Nat
    BY BlockSizeAssumption, SMTT(30) DEF Tx
  <2>2. q[0 + 1] = SeqStep(FirstState, txs[0])
    BY <1>1, <2>1 DEF Serially
  <2>3. SeqStep(FirstState, txs[0]) = [FirstState EXCEPT !.ok = FALSE]
    BY DEF SeqStep, FirstState, FirstFails
  <2>4. [FirstState EXCEPT !.ok = FALSE].ok = FALSE
    BY DEF FirstState
  <2> QED
    BY <2>1, <2>2, <2>3, <2>4
<1>3. ASSUME NEW t \in Nat, t \in P PROVE t + 1 \in P
  <2>1. t + 1 \in Nat
    BY SMTT(30)
  <2> SUFFICES ASSUME t + 1 < block_size PROVE q[(t + 1) + 1].ok = FALSE
    BY <2>1
  <2>2. t < block_size /\ t + 1 \in Tx /\ t + 1 \in 0 .. block_size
    BY BlockSizeAssumption, SMTT(30) DEF Tx
  <2>3. q[(t + 1) + 1] = SeqStep(q[t + 1], txs[t + 1]) /\ q[t + 1] \in BlockStates
    BY <1>1, <2>2 DEF Serially
  <2>4. ~q[t + 1].ok
    BY <1>3, <2>2
  <2>5. q[(t + 1) + 1] = [q[t + 1] EXCEPT !.ok = FALSE]
    BY <2>3, <2>4 DEF SeqStep
  <2>6. q[(t + 1) + 1] = [ok |-> FALSE, results |-> q[t + 1].results, state |-> q[t + 1].state]
    BY <2>3, <2>5, StateRecord
  <2>7. [ok |-> FALSE, results |-> q[t + 1].results, state |-> q[t + 1].state].ok = FALSE
    OBVIOUS
  <2> QED
    BY <2>6, <2>7
<1>4. q[block_size].ok = FALSE
  <2>1. \A t \in Nat : t \in P
    <3> HIDE DEF P
    <3> QED
      BY <1>2, <1>3, Induct
  <2>2. block_size - 1 \in Nat /\ block_size - 1 < block_size /\ (block_size - 1) + 1 = block_size
    BY BlockSizeAssumption, SMTT(30)
  <2>3. q[(block_size - 1) + 1].ok = FALSE
    BY <2>1, <2>2
  <2> QED
    BY <2>2, <2>3
<1> QED
  BY <1>1, <1>4 DEF Serially, SerialOutcome

-----------------------------------------------------------------------------
(***************************************************************************)
(* What `execute' collects when nothing aborted the block satisfies what   *)
(* the argument about the serial execution asks for.                       *)
(***************************************************************************)
LEMMA JoinedCollects ==
  ASSUME MemInv, ValueInv, JoinedComplete, FinalReadsValid, Joined, abort_reason = "none"
  PROVE  \E hist : Collects(hist)
<1>1. EntriesDefinite /\ \A t \in Tx : ReadSetValid(t)
  BY DEF FinalReadsValid
<1>2. \A t \in Tx : Concluded(t)
  BY DEF JoinedComplete, Finished, Concluded
<1>3. PICK hist : SeenInv(hist)
  BY DEF ValueInv, AccountInv
<1>4. MemInv /\ ResultsWritten
  BY DEF ValueInv, AccountInv
<1>5. Collects(hist)
  BY <1>1, <1>2, <1>3, <1>4 DEF Collects, SeenInv
<1> QED
  BY <1>5

LEMMA CollectSerial ==
  ASSUME TypeOK, Counted, MemInv, ValueInv, JoinedComplete, FinalReadsValid, Collect
  PROVE  outcome' = SerialOutcome
<1>0. Joined /\ abort_reason \in {"none", "FallbackToSequential", "ExecutionError"}
  BY DEF Collect, TypeOK, AbortReason
<1>1. CASE abort_reason = "FallbackToSequential"
  BY <1>1 DEF Collect
<1>2. CASE abort_reason = "ExecutionError"
  <2>1. outcome' = Err
    BY <1>2 DEF Collect
  <2>2. FirstFails /\ txs \in Blocks
    BY <1>2 DEF ValueInv, ErrorsJustified, MemInv
  <2> QED
    BY <2>1, <2>2, FailedSerial
<1>3. CASE abort_reason = "none"
  <2>1. outcome' = Ok([i \in 1 .. block_size |-> execution_results[i - 1]],
                      [l \in Loc |-> Evaluate(l)])
    BY <1>3 DEF Collect
  <2>2. PICK hist : Collects(hist)
    BY <1>0, <1>3, JoinedCollects
  <2> QED
    BY <2>1, <2>2, CollectedSerial
<1> QED
  BY <1>0, <1>1, <1>2, <1>3

\* Nobody but the joining thread decides what `execute' returns.
LEMMA WorkerOutcome ==
  ASSUME NEW th \in Threads, Worker(th)
  PROVE  UNCHANGED <<txs, outcome>>
<1>1. CASE \/ SchedulerOnly(th) \/ ReadLocation(th) \/ LackOfFund(th) \/ BeginRecord(th)
           \/ RecordRemove(th) \/ RecordInsert(th)
  BY <1>1 DEF SchedulerOnly, ReadLocation, LackOfFund, BeginRecord, RecordRemove, RecordInsert
<1>2. CASE \/ RecordDone(th) \/ HandleBlocking(th) \/ HandleRetry(th) \/ HandleAbort(th)
           \/ BeginValidate(th)
  BY <1>2 DEF RecordDone, HandleBlocking, HandleRetry, HandleAbort, BeginValidate
<1>3. CASE \/ CheckLocation(th) \/ ValidateDone(th) \/ BeginConvert(th) \/ ConvertWrite(th)
           \/ ConvertDone(th)
  BY <1>3 DEF CheckLocation, ValidateDone, BeginConvert, ConvertWrite, ConvertDone
<1> QED
  BY <1>1, <1>2, <1>3 DEF Worker

LEMMA SerialStep ==
  ASSUME TypeOK, Counted, MemInv, ValueInv, JoinedComplete, FinalReadsValid, [PNext]_peVars
  PROVE  [ExecuteBlock]_<<txs, outcome>>
<1>1. ASSUME NEW th \in Threads, Worker(th) PROVE UNCHANGED <<txs, outcome>>
  BY <1>1, WorkerOutcome
<1>2. CASE Collect
  <2>1. outcome' = SerialOutcome
    BY <1>2, CollectSerial
  <2>2. outcome = Running /\ txs' = txs
    BY <1>2 DEF Collect
  <2> QED
    BY <2>1, <2>2 DEF ExecuteBlock
<1>3. CASE UNCHANGED peVars
  BY <1>3 DEF peVars
<1> QED
  BY <1>1, <1>2, <1>3 DEF PNext, Returned

-----------------------------------------------------------------------------
(***************************************************************************)
(* The walk of VmDB::basic.                                                *)
(***************************************************************************)
\* The closest entry comes first, every entry but the lowest has a successor.
LEMMA PlaceFirst ==
  ASSUME Counted, NEW l, NEW t, DOMAIN data[l] \subseteq Tx, Entries(l, t) # {}
  PROVE  \E k \in Entries(l, t) : Place(l, t, k) = 1
<1> DEFINE E == Entries(l, t)
<1>1. E \subseteq Tx /\ E \subseteq Int
  BY LowerEntries
<1>2. PICK k \in E : \A n \in E : k >= n
  BY <1>1, MaxTx
<1>3. {j \in E : j >= k} = {} \cup {k}
  BY <1>1, <1>2, SMTT(30)
<1>4. Cardinality({} \cup {k}) = Cardinality({}) + 1
  BY <1>1 DEF Counted
<1>5. Cardinality({}) = 0
  BY DEF Counted
<1>6. Place(l, t, k) = 1
  BY <1>3, <1>4, <1>5, SMTT(30) DEF Place
<1> QED
  BY <1>6

LEMMA PlaceNext ==
  ASSUME Counted, NEW l, NEW t, DOMAIN data[l] \subseteq Tx,
         NEW k \in Entries(l, t), Place(l, t, k) # Cardinality(Entries(l, t))
  PROVE  \E j \in Entries(l, t) : Place(l, t, j) = Place(l, t, k) + 1
<1> DEFINE E == Entries(l, t)
           D == {j \in E : j < k}
<1>1. E \subseteq Tx /\ E \subseteq Int
  BY LowerEntries
<1>2. D # {}
  <2> SUFFICES ASSUME D = {} PROVE FALSE
    OBVIOUS
  <2>1. {j \in E : j >= k} = E
    BY <1>1, SMTT(30)
  <2> QED
    BY <2>1 DEF Place
<1>3. D \in SUBSET Tx
  BY <1>1
<1> HIDE DEF D
<1>4. PICK j \in D : \A n \in D : j >= n
  BY <1>2, <1>3, MaxTx
<1>5. j \in E /\ j \in Tx /\ j \notin {i \in E : i >= k}
  BY <1>1, <1>4, SMTT(30) DEF D
<1>6. {i \in E : i >= j} = {i \in E : i >= k} \cup {j}
  <2> SUFFICES ASSUME NEW i \in E PROVE i >= j <=> i >= k \/ i = j
    BY <1>5
  <2>1. i \in Int /\ j \in Int /\ k \in Int /\ j < k
    BY <1>1, <1>4 DEF D
  <2>2. i < k => j >= i
    BY <1>4 DEF D
  <2> HIDE DEF E
  <2> QED
    BY <2>1, <2>2, SMTT(30)
<1>7. {i \in E : i >= k} \in SUBSET Tx
  BY <1>1
<1>8. Cardinality({i \in E : i >= k} \cup {j}) = Cardinality({i \in E : i >= k}) + 1
  BY <1>5, <1>7 DEF Counted
<1>9. Place(l, t, j) = Place(l, t, k) + 1
  BY <1>6, <1>8 DEF Place
<1> QED
  BY <1>5, <1>9

LEMMA PlaceOnto ==
  ASSUME Counted, NEW l, NEW t, DOMAIN data[l] \subseteq Tx,
         NEW i \in 1 .. Cardinality(Entries(l, t))
  PROVE  \E k \in Entries(l, t) : Place(l, t, k) = i
<1> DEFINE E == Entries(l, t)
           n == Cardinality(E)
           P == {x \in Nat : x \in 1 .. n => \E k \in E : Place(l, t, k) = x}
<1>1. n \in Nat /\ E \subseteq Tx
  BY LowerEntries
<1>2. 0 \in P
  BY <1>1, SMTT(30)
<1>3. ASSUME NEW x \in Nat, x \in P PROVE x + 1 \in P
  <2> SUFFICES ASSUME x + 1 \in 1 .. n PROVE \E k \in E : Place(l, t, k) = x + 1
    <3>1. x + 1 \in Nat
      BY SMTT(30)
    <3> QED
      BY <3>1
  <2>1. CASE x = 0
    <3>1. n # 0 /\ x + 1 = 1
      BY <1>1, <2>1, SMTT(30)
    <3>2. E # {}
      BY <3>1 DEF Counted
    <3> QED
      BY <3>1, <3>2, PlaceFirst
  <2>2. CASE x # 0
    <3>1. x \in 1 .. n /\ x # n
      BY <1>1, <2>2, SMTT(30)
    <3>2. PICK k \in E : Place(l, t, k) = x
      BY <1>3, <3>1
    <3> QED
      BY <3>1, <3>2, PlaceNext
  <2> QED
    BY <2>1, <2>2
<1>4. \A x \in Nat : x \in P
  <2> HIDE DEF P
  <2> QED
    BY <1>2, <1>3, Induct
<1>5. i \in Nat
  BY <1>1, SMTT(30)
<1> QED
  BY <1>4, <1>5

\* Where the walk stops: at the storage, or at the first entry that is not lazy.
Bottom(l, t) == Stop(l, t) = -1 /\ \A k \in Entries(l, t) : IsLazy(data[l][k])

StopsAt(l, t, s) ==
  /\ Stop(l, t) = s /\ s \in Entries(l, t) /\ ~IsLazy(data[l][s])
  /\ \A k \in Entries(l, t) : k > s => IsLazy(data[l][k])

LEMMA WalkStops ==
  ASSUME NEW l, NEW t, DOMAIN data[l] \subseteq Tx
  PROVE  Bottom(l, t) \/ StopsAt(l, t, Stop(l, t))
<1> DEFINE stops == {k \in Entries(l, t) : ~IsLazy(data[l][k])}
<1>1. CASE stops = {}
  BY <1>1 DEF Stop, Bottom
<1>2. CASE stops # {}
  <2>1. stops \in SUBSET Tx
    BY DEF Entries
  <2>2. Stop(l, t) = Max(stops)
    BY <1>2 DEF Stop
  <2> HIDE DEF stops
  <2>3. Max(stops) \in stops /\ \A n \in stops : Max(stops) >= n
    BY <1>2, <2>1, MaxTx
  <2>4. PICK s : s = Max(stops)
    OBVIOUS
  <2>5. \A k \in Tx : s >= k => ~(k > s)
    <3>1. Tx \subseteq Int
      BY BlockSizeAssumption, SMTT(30) DEF Tx
    <3>2. s \in Int
      BY <2>1, <2>3, <2>4, <3>1
    <3> QED
      BY <3>1, <3>2, SMTT(30)
  <2>6. \A k \in Entries(l, t) : k > s => IsLazy(data[l][k])
    BY <2>3, <2>4, <2>5 DEF stops, Entries
  <2> QED
    BY <2>2, <2>3, <2>4, <2>6 DEF stops, StopsAt
<1> QED
  BY <1>1, <1>2

\* The walk takes the first entries, in order; it takes the one it stops at last.
LEMMA TakenFirst ==
  ASSUME Counted, NEW l, NEW t, DOMAIN data[l] \subseteq Tx, NEW i \in 1 .. Cardinality(Taken(l, t))
  PROVE  Nth(l, t, i) \in Taken(l, t) /\ Place(l, t, Nth(l, t, i)) = i
<1> DEFINE E == Entries(l, t)
           T == Taken(l, t)
<1>1. E \subseteq Tx /\ E \subseteq Int /\ \A S \in SUBSET E : Cardinality(S) \in Nat
  BY LowerEntries
<1>2. T \in SUBSET E
  BY DEF Taken
<1>3. Cardinality(T) <= Cardinality(E) /\ Cardinality(T) \in Nat /\ Cardinality(E) \in Nat
  BY <1>1, <1>2 DEF Counted
<1>4. i \in 1 .. Cardinality(E) /\ i <= Cardinality(T) /\ i \in Nat
  BY <1>3, SMTT(30)
<1>5. \E x \in E : Place(l, t, x) = i
  BY <1>4, PlaceOnto
<1>6. PICK k \in E : k = Nth(l, t, i) /\ Place(l, t, k) = i
  BY <1>5 DEF Nth
<1>7. SUFFICES ASSUME k \notin T PROVE FALSE
  BY <1>6
<1> DEFINE F == {j \in E : j >= k}
<1>8. T \subseteq F /\ k \in F /\ F \in SUBSET Tx /\ F \in SUBSET E
  <2>1. ASSUME NEW x \in T PROVE x >= k
    <3>1. x \in Int /\ k \in Int
      BY <1>1, <1>2
    <3>2. PICK s : s = Stop(l, t)
      OBVIOUS
    <3>3. s \in Int
      <4>1. s = -1 \/ s \in E
        BY <3>2, WalkStops DEF Bottom, StopsAt
      <4>2. -1 \in Int
        BY SMTT(30)
      <4> QED
        BY <1>1, <4>1, <4>2
    <3>4. (x > s \/ x = s) /\ ~(k > s)
      BY <1>7, <3>2 DEF Taken
    <3> QED
      BY <3>1, <3>3, <3>4, SMTT(30)
  <2>2. k >= k
    BY <1>1, SMTT(30)
  <2> QED
    BY <1>1, <1>2, <2>1, <2>2
<1>9. Cardinality(F) = i
  BY <1>6 DEF Place
<1>10. T # F /\ T \in SUBSET Tx
  BY <1>1, <1>2, <1>7, <1>8
<1> HIDE DEF T, F
<1>11. Cardinality(T) < Cardinality(F)
  BY <1>8, <1>10 DEF Counted
<1> QED
  BY <1>3, <1>4, <1>9, <1>11, SMTT(30), ZenonT(40)

LastTaken(l, t, s, n) ==
  /\ n \in Nat \ {0} /\ Nth(l, t, n) = s
  /\ \A i \in 1 .. n : i # n => Nth(l, t, i) # s

LEMMA TakenLast ==
  ASSUME Counted, NEW l, NEW t, DOMAIN data[l] \subseteq Tx, NEW s, StopsAt(l, t, s),
         ~Blocked(l, t), NEW n, n = Cardinality(Taken(l, t))
  PROVE  LastTaken(l, t, s, n)
<1>1. Entries(l, t) \subseteq Tx /\ Entries(l, t) \subseteq Int /\ s \in Entries(l, t)
  BY LowerEntries DEF StopsAt
<1>2. Taken(l, t) = {j \in Entries(l, t) : j >= s}
  <2> SUFFICES ASSUME NEW j \in Entries(l, t) PROVE j > s \/ j = s <=> j >= s
    BY DEF Taken, StopsAt
  <2> QED
    BY <1>1, SMTT(30)
<1>3. Place(l, t, s) = n
  BY <1>2 DEF Place
<1>4. n \in Nat \ {0}
  BY <1>1, <1>3, PlacesDescend
<1>5. n \in 1 .. n
  BY <1>4, SMTT(30)
<1>6. Nth(l, t, n) \in Entries(l, t) /\ Place(l, t, Nth(l, t, n)) = n
  BY <1>5, TakenFirst DEF Taken
<1>7. PICK x \in Entries(l, t) : x = Nth(l, t, n) /\ Place(l, t, x) = n
  BY <1>6
<1>8. x = s
  <2>1. /\ x < s => Place(l, t, s) < Place(l, t, x)
        /\ s < x => Place(l, t, x) < Place(l, t, s)
    BY <1>1, PlacesDescend
  <2>2. x \in Int /\ s \in Int
    BY <1>1
  <2>3. ~(n < n)
    BY <1>4, SMTT(30)
  <2>4. x < s \/ s < x \/ x = s
    BY <2>2, SMTT(30)
  <2> QED
    BY <1>3, <1>7, <2>1, <2>3, <2>4
<1>9. ASSUME NEW i \in 1 .. n, i # n PROVE Nth(l, t, i) # s
  <2>1. i \in 1 .. Cardinality(Taken(l, t))
    OBVIOUS
  <2>2. Place(l, t, Nth(l, t, i)) = i
    BY <2>1, TakenFirst
  <2> QED
    BY <1>3, <1>9, <2>2
<1> QED
  BY <1>4, <1>7, <1>8, <1>9 DEF LastTaken

\* Version v is that of the entry of k.
EntryIs(hist, l, k, v) ==
  /\ v \in Versions /\ v.tx_idx = k /\ HoldsVersion(l, v)
  /\ data[l][k].value = hist[l][v]

LEMMA HeldVersion ==
  ASSUME NEW hist, EntriesAre(hist), NEW l \in Loc, NEW k \in DOMAIN data[l], k \in Tx,
         data[l][k] # Estimate, NEW v, v = Version(k, data[l][k].incarnation)
  PROVE  EntryIs(hist, l, k, v)
<1>1. PICK i \in Nat : data[l][k] = Data(i, hist[l][Version(k, i)])
  BY DEF EntriesAre
<1>2. data[l][k].incarnation = i /\ data[l][k].value = hist[l][Version(k, i)]
  BY <1>1, SMTT(30) DEF Data
<1>3. v = Version(k, i)
  BY <1>2
<1>4. v.tx_idx = k /\ v.tx_incarnation = i /\ v \in Versions
  BY <1>3, SMTT(30) DEF Version, Versions
<1> QED
  BY <1>2, <1>3, <1>4 DEF HoldsVersion, EntryIs

\* The i-th origin of the walk is a version that an entry holds.
Meets(hist, l, t, i, v) ==
  /\ WalkOrigins(l, t)[i] = v /\ v.tx_idx < t
  /\ v.tx_idx = Nth(l, t, i) /\ v.tx_idx \in Taken(l, t)
  /\ EntryIs(hist, l, v.tx_idx, v)

LEMMA WalkMeets ==
  ASSUME Counted, NEW hist, EntriesAre(hist), NEW l \in Loc, NEW t,
         DOMAIN data[l] \subseteq Tx, ~Blocked(l, t), NEW i \in 1 .. Cardinality(Taken(l, t))
  PROVE  \E v : Meets(hist, l, t, i, v)
<1>1. PICK k : k = Nth(l, t, i)
  OBVIOUS
<1>2. k \in Taken(l, t)
  BY <1>1, TakenFirst
<1>3. k \in DOMAIN data[l] /\ k \in Tx /\ k < t
  BY <1>2 DEF Taken, Entries
<1>4. data[l][k] # Estimate
  <2>1. CASE Bottom(l, t)
    BY <1>2, <2>1 DEF Bottom, IsLazy, Taken
  <2>2. CASE StopsAt(l, t, Stop(l, t))
    <3>1. CASE k = Stop(l, t)
      <4>1. Stop(l, t) >= 0
        <5>1. Stop(l, t) \in Tx
          BY <1>3, <3>1
        <5> QED
          BY <5>1, BlockSizeAssumption, SMTT(30) DEF Tx
      <4> QED
        BY <3>1, <4>1 DEF Blocked
    <3>2. CASE k # Stop(l, t)
      BY <1>2, <2>2, <3>2 DEF StopsAt, Taken, IsLazy
    <3> QED
      BY <3>1, <3>2
  <2> QED
    BY <2>1, <2>2, WalkStops
<1>5. PICK v : v = Version(k, data[l][k].incarnation)
  OBVIOUS
<1>6. EntryIs(hist, l, k, v)
  BY <1>3, <1>4, <1>5, HeldVersion
<1>7. WalkOrigins(l, t)[i] = v
  BY <1>1, <1>5 DEF WalkOrigins
<1> QED
  BY <1>1, <1>2, <1>3, <1>6, <1>7 DEF Meets, EntryIs

LEMMA OriginTypes ==
  /\ StorageOrigin \notin Versions /\ StorageOrigin.tx_idx = -1
  /\ \A t \in Tx : t \in Int /\ -1 < t
<1>1. StorageOrigin.tx_idx = -1 /\ \A v \in Versions : v.tx_idx \in Tx
  BY SMTT(30) DEF StorageOrigin, Version, Versions
<1>2. -1 \notin Tx /\ \A t \in Tx : t \in Int /\ -1 < t
  BY BlockSizeAssumption, SMTT(30) DEF Tx
<1> QED
  BY <1>1, <1>2

\* The origins of the walk are n versions.
LEMMA WalkTyped ==
  ASSUME Counted, NEW hist, EntriesAre(hist), NEW l \in Loc, NEW t,
         DOMAIN data[l] \subseteq Tx, ~Blocked(l, t), NEW n, n = Cardinality(Taken(l, t))
  PROVE  n \in Nat /\ WalkOrigins(l, t) \in Seq(Versions) /\ Len(WalkOrigins(l, t)) = n
<1>1. n \in Nat
  <2>1. Taken(l, t) \in SUBSET Entries(l, t)
    BY DEF Taken
  <2> QED
    BY <2>1, LowerEntries
<1>2. PICK w : w = WalkOrigins(l, t)
  OBVIOUS
<1>3. w = [i \in 1 .. n |-> w[i]]
  BY <1>2 DEF WalkOrigins
<1>4. ASSUME NEW i \in 1 .. n PROVE w[i] \in Versions
  <2>1. PICK v : Meets(hist, l, t, i, v)
    BY WalkMeets
  <2> QED
    BY <1>2, <2>1 DEF Meets, EntryIs
<1>5. w \in [1 .. n -> Versions]
  BY <1>3, <1>4
<1>6. w \in Seq(Versions) /\ Len(w) = n
  BY <1>1, <1>5, SMTT(30)
<1> QED
  BY <1>1, <1>2, <1>6

LEMMA WalkBottom ==
  ASSUME Counted, NEW hist, History(hist), EntriesAre(hist), NEW l \in Loc, NEW t \in Tx,
         DOMAIN data[l] \subseteq Tx, ~Blocked(l, t), Bottom(l, t),
         NEW o, o = Append(WalkOrigins(l, t), StorageOrigin)
  PROVE  Gives(hist, l, t, o, WalkAmount(l, t)) /\ FromStorage(o)
<1>1. PICK n : n = Cardinality(Taken(l, t))
  OBVIOUS
<1>2. PICK w : w = WalkOrigins(l, t)
  OBVIOUS
<1>3. n \in Nat /\ w \in Seq(Versions) /\ Len(w) = n
  BY <1>1, <1>2, WalkTyped
<1>4. /\ o \in Seq(Versions \cup {StorageOrigin}) /\ Len(o) = n + 1 /\ o # <<>>
      /\ DOMAIN o = 1 .. n + 1 /\ o[n + 1] = StorageOrigin
      /\ \A i \in 1 .. n : o[i] = w[i]
      /\ \A i \in 1 .. n + 1 : i \in 1 .. n \/ i = n + 1
      /\ Len(o) - 1 = n
  BY <1>2, <1>3, SMTT(30)
<1>5. ASSUME NEW i \in 1 .. n
      PROVE  /\ o[i] \in Versions /\ o[i].tx_idx < t /\ HoldsVersion(l, o[i])
             /\ hist[l][o[i]].kind = "Lazy"
             /\ data[l][Nth(l, t, i)].value.amount = hist[l][o[i]].amount
  <2>1. PICK v : Meets(hist, l, t, i, v)
    BY <1>1, WalkMeets
  <2>2. o[i] = v
    BY <1>2, <1>4, <2>1 DEF Meets
  <2>3. IsLazy(data[l][v.tx_idx])
    BY <2>1 DEF Bottom, Meets, Taken
  <2> QED
    BY <2>1, <2>2, <2>3 DEF Meets, EntryIs, IsLazy
<1>6. FromStorage(o)
  BY <1>4 DEF FromStorage
<1>7. OriginsOf(hist, t, l, o)
  <2>1. \A i \in DOMAIN o : o[i].tx_idx < t
    <3>1. o[n + 1].tx_idx < t
      BY <1>4, OriginTypes
    <3> QED
      BY <1>4, <1>5, <3>1
  <2>2. \A i \in 1 .. Len(o) - 1 : o[i] # StorageOrigin /\ hist[l][o[i]].kind = "Lazy"
    BY <1>4, <1>5, OriginTypes
  <2> QED
    BY <1>4, <1>6, <2>1, <2>2 DEF OriginsOf
<1>8. WalkAmount(l, t) = Amount(hist, l, o)
  <2>1. [i \in 1 .. n |-> data[l][Nth(l, t, i)].value.amount]
          = [i \in 1 .. n |-> hist[l][o[i]].amount]
    BY <1>5
  <2>2. Stop(l, t) = -1 /\ Len(o) - 1 = n
    BY <1>4 DEF Bottom
  <2>3. WalkAmount(l, t) = SumOver(storage[l], [i \in 1 .. n |-> data[l][Nth(l, t, i)].value.amount])
    BY <1>1, <2>2 DEF WalkAmount, SumOver
  <2>4. Amount(hist, l, o) = SumOver(storage[l], [i \in 1 .. n |-> hist[l][o[i]].amount])
    BY <1>6, <2>2 DEF Amount, SumOver
  <2> QED
    BY <2>1, <2>3, <2>4
<1>9. \A i \in DOMAIN o : o[i] \in Versions => HoldsVersion(l, o[i])
  BY <1>4, <1>5, OriginTypes
<1> QED
  BY <1>6, <1>7, <1>8, <1>9 DEF Gives

LEMMA WalkEntry ==
  ASSUME Counted, NEW hist, History(hist), EntriesAre(hist), NEW l \in Loc, NEW t \in Tx,
         DOMAIN data[l] \subseteq Tx, ~Blocked(l, t), NEW s, StopsAt(l, t, s),
         NEW o, o = WalkOrigins(l, t)
  PROVE  Gives(hist, l, t, o, WalkAmount(l, t)) /\ ~FromStorage(o)
<1>1. PICK n : n = Cardinality(Taken(l, t))
  OBVIOUS
<1>2. n \in Nat /\ o \in Seq(Versions) /\ Len(o) = n
  BY <1>1, WalkTyped
<1>3. n \in Nat \ {0} /\ Nth(l, t, n) = s /\ \A i \in 1 .. n : i # n => Nth(l, t, i) # s
  <2>1. LastTaken(l, t, s, n)
    BY <1>1, TakenLast
  <2> QED
    BY <2>1 DEF LastTaken
<1>4. /\ o \in Seq(Versions \cup {StorageOrigin}) /\ o # <<>> /\ DOMAIN o = 1 .. n
      /\ n \in 1 .. n /\ \A i \in 1 .. n - 1 : i \in 1 .. n /\ i # n
  <2>1. o # <<>> /\ DOMAIN o = 1 .. n
    BY <1>2, <1>3, SMTT(30)
  <2>2. n \in 1 .. n /\ \A i \in 1 .. n - 1 : i \in 1 .. n /\ i # n
    BY <1>3, SMTT(30)
  <2>3. o \in Seq(Versions \cup {StorageOrigin})
    BY <1>2, SMTT(30)
  <2> QED
    BY <2>1, <2>2, <2>3
<1>5. ASSUME NEW i \in 1 .. n
      PROVE  /\ o[i] \in Versions /\ o[i].tx_idx < t /\ HoldsVersion(l, o[i])
             /\ hist[l][o[i]].kind = "Lazy" <=> i # n
             /\ data[l][Nth(l, t, i)].value.amount = hist[l][o[i]].amount
  <2>1. PICK v : Meets(hist, l, t, i, v)
    BY <1>1, WalkMeets
  <2>2. o[i] = v
    BY <2>1 DEF Meets
  <2>3. IsLazy(data[l][v.tx_idx]) <=> i # n
    <3>1. v.tx_idx = Nth(l, t, i) /\ v.tx_idx \in Taken(l, t)
      BY <2>1 DEF Meets
    <3>2. CASE i = n
      BY <1>3, <3>1, <3>2 DEF StopsAt
    <3>3. CASE i # n
      <4>1. v.tx_idx \in Entries(l, t) /\ v.tx_idx > s
        BY <1>3, <3>1, <3>3 DEF Taken, StopsAt
      <4> QED
        BY <3>3, <4>1 DEF StopsAt
    <3> QED
      BY <3>2, <3>3
  <2>4. data[l][v.tx_idx] # Estimate /\ data[l][v.tx_idx].value = hist[l][v]
    BY <2>1 DEF Meets, EntryIs, HoldsVersion
  <2>5. hist[l][v].kind = "Lazy" <=> i # n
    BY <2>3, <2>4 DEF IsLazy
  <2> QED
    BY <2>1, <2>2, <2>5 DEF Meets, EntryIs
<1>6. ~FromStorage(o)
  BY <1>2, <1>4, <1>5, OriginTypes DEF FromStorage
<1>7. OriginsOf(hist, t, l, o)
  <2>1. \A i \in DOMAIN o : o[i].tx_idx < t
    BY <1>4, <1>5
  <2>2. \A i \in 1 .. Len(o) - 1 : o[i] # StorageOrigin /\ hist[l][o[i]].kind = "Lazy"
    BY <1>2, <1>4, <1>5, OriginTypes
  <2>3. hist[l][o[Len(o)]].kind # "Lazy"
    BY <1>2, <1>4, <1>5
  <2> QED
    BY <1>4, <2>1, <2>2, <2>3 DEF OriginsOf
<1>8. WalkAmount(l, t) = Amount(hist, l, o)
  <2>1. [i \in 1 .. n |-> data[l][Nth(l, t, i)].value.amount]
          = [i \in 1 .. n |-> hist[l][o[i]].amount]
    BY <1>5
  <2>2. Stop(l, t) # -1
    <3>1. s \in Tx
      BY DEF StopsAt, Entries
    <3>2. -1 \notin Tx
      BY BlockSizeAssumption, SMTT(30) DEF Tx
    <3> QED
      BY <3>1, <3>2 DEF StopsAt
  <2>3. WalkAmount(l, t) = SumOver(0, [i \in 1 .. n |-> data[l][Nth(l, t, i)].value.amount])
    BY <1>1, <2>2 DEF WalkAmount, SumOver
  <2>4. Amount(hist, l, o) = SumOver(0, [i \in 1 .. n |-> hist[l][o[i]].amount])
    BY <1>2, <1>6 DEF Amount, SumOver
  <2> QED
    BY <2>1, <2>3, <2>4
<1>9. \A i \in DOMAIN o : o[i] \in Versions => HoldsVersion(l, o[i])
  BY <1>4, <1>5
<1> QED
  BY <1>6, <1>7, <1>8, <1>9 DEF Gives

\* A read that follows another one of the same location finds the same origins.
LEMMA SameAgain ==
  ASSUME NEW hist, NEW l, NEW t, NEW o, NEW prior,
         OriginsOf(hist, t, l, o), OriginsOf(hist, t, l, prior), ~FromStorage(o), Agree(o, prior)
  PROVE  o = prior
<1>1. /\ o \in Seq(Versions \cup {StorageOrigin}) /\ prior \in Seq(Versions \cup {StorageOrigin})
      /\ o # <<>> /\ prior # <<>>
  BY DEF OriginsOf
<1>2. PICK n \in Nat : n = Len(o)
  BY <1>1, SMTT(30)
<1>3. PICK m \in Nat : m = Len(prior)
  BY <1>1, SMTT(30)
<1>4. n # 0 /\ DOMAIN o = 1 .. n /\ DOMAIN prior = 1 .. m /\ n \in 1 .. n
  BY <1>1, <1>2, <1>3, SMTT(30), ZenonT(40)
<1>5. n \in 1 .. m /\ \A i \in 1 .. n : o[i] = prior[i]
  BY <1>4 DEF Agree
<1>6. n = m
  <2> SUFFICES ASSUME n # m PROVE FALSE
    OBVIOUS
  <2>1. n \in 1 .. m - 1
    BY <1>5, SMTT(30)
  <2>2. hist[l][prior[n]].kind = "Lazy"
    BY <1>3, <2>1 DEF OriginsOf
  <2>3. hist[l][o[n]].kind # "Lazy"
    BY <1>2 DEF OriginsOf
  <2> QED
    BY <1>4, <1>5, <2>2, <2>3
<1>7. o = [i \in 1 .. n |-> o[i]] /\ prior = [i \in 1 .. n |-> prior[i]]
  <2>1. o \in Seq(Versions \cup {StorageOrigin}) /\ Len(o) = n
    BY <1>1, <1>2
  <2>2. prior \in Seq(Versions \cup {StorageOrigin}) /\ Len(prior) = n
    BY <1>1, <1>3, <1>6
  <2>3. o = [i \in 1 .. n |-> o[i]]
    BY <2>1, SMTT(30)
  <2>4. prior = [i \in 1 .. n |-> prior[i]]
    BY <2>2, SMTT(30)
  <2> QED
    BY <2>3, <2>4
<1> QED
  BY <1>5, <1>7

LEMMA ReadValueGives ==
  ASSUME Counted, NEW hist, History(hist), EntriesAre(hist), NEW l \in Loc, NEW t \in Tx,
         DOMAIN data[l] \subseteq Tx, NEW prior, NEW r, r = ReadValue(l, t, prior), r.result = "Ok"
  PROVE  /\ Gives(hist, l, t, r.origins, r.amount)
         /\ prior # <<>> /\ OriginsOf(hist, t, l, prior) => r.origins = prior
<1> DEFINE found == WalkOrigins(l, t)
           bottom == Stop(l, t) = -1
           new == IF bottom THEN Append(found, StorageOrigin) ELSE found
           bad == [result |-> "InconsistentRead"]
           blocking == [result |-> "Blocking", on |-> Stop(l, t)]
           ok == [result |-> "Ok", amount |-> WalkAmount(l, t), origins |-> new]
<1>1. r = IF prior # <<>> /\ ~Agree(found, prior) THEN bad
          ELSE IF Blocked(l, t) THEN blocking
          ELSE IF prior # <<>> /\ bottom /\ prior # new THEN bad ELSE ok
  BY DEF ReadValue
<1>2. bad.result # "Ok" /\ blocking.result # "Ok" /\ ok.amount = WalkAmount(l, t) /\ ok.origins = new
  OBVIOUS
<1> HIDE DEF bad, blocking, ok
<1>3. /\ ~Blocked(l, t) /\ r.amount = WalkAmount(l, t) /\ r.origins = new
      /\ prior # <<>> => Agree(found, prior) /\ (bottom => prior = new)
  BY <1>1, <1>2
<1>4. PICK o : o = r.origins
  OBVIOUS
<1>5. CASE Bottom(l, t)
  <2>1. bottom /\ o = Append(WalkOrigins(l, t), StorageOrigin)
    BY <1>3, <1>4, <1>5 DEF Bottom
  <2>2. Gives(hist, l, t, o, WalkAmount(l, t))
    BY <1>3, <1>5, <2>1, WalkBottom
  <2> QED
    BY <1>3, <1>4, <2>1, <2>2
<1>6. CASE StopsAt(l, t, Stop(l, t))
  <2>1. ~bottom
    <3>1. Stop(l, t) \in Tx
      BY <1>6 DEF StopsAt, Entries
    <3>2. -1 \notin Tx
      BY BlockSizeAssumption, SMTT(30) DEF Tx
    <3> QED
      BY <3>1, <3>2
  <2>2. o = WalkOrigins(l, t)
    BY <1>3, <1>4, <2>1
  <2>3. Gives(hist, l, t, o, WalkAmount(l, t)) /\ ~FromStorage(o)
    BY <1>3, <1>6, <2>2, WalkEntry
  <2>4. prior # <<>> /\ OriginsOf(hist, t, l, prior) => o = prior
    BY <1>3, <2>2, <2>3, SameAgain DEF Gives
  <2> QED
    BY <1>3, <1>4, <2>3, <2>4
<1> QED
  BY <1>5, <1>6, WalkStops

\* A single origin: its own amount, or that of the storage.
LEMMA SingleAmount ==
  ASSUME NEW hist, History(hist), NEW l \in Loc
  PROVE  /\ Amount(hist, l, <<StorageOrigin>>) = storage[l]
         /\ \A v \in Versions : Amount(hist, l, <<v>>) = hist[l][v].amount
<1>1. storage[l] \in Int
  BY LocationAssumption
<1>2. \A x : <<x>>[Len(<<x>>)] = x /\ <<x>>[1] = x /\ Len(<<x>>) = 1 /\ Len(<<x>>) - 1 = 0
  BY SMTT(30)
<1>3. Amount(hist, l, <<StorageOrigin>>) = storage[l]
  <2> DEFINE f == [i \in 1 .. 0 |-> hist[l][<<StorageOrigin>>[i]].amount]
  <2>1. Amount(hist, l, <<StorageOrigin>>) = SumOver(storage[l], f)
    BY <1>2 DEF Amount, FromStorage, SumOver
  <2>2. f \in [1 .. 0 -> Int] /\ 0 \in Nat
    BY SMTT(30)
  <2> HIDE DEF f
  <2>3. PICK p : PartialSums(p, storage[l], 0, f)
    BY <1>1, <2>2, SumSteps
  <2> QED
    BY <2>1, <2>3 DEF PartialSums
<1>4. ASSUME NEW v \in Versions PROVE Amount(hist, l, <<v>>) = hist[l][v].amount
  <2> DEFINE f == [i \in 1 .. 1 |-> hist[l][<<v>>[i]].amount]
  <2>1. Amount(hist, l, <<v>>) = SumOver(0, f)
    BY <1>2, OriginTypes DEF Amount, FromStorage, SumOver
  <2>2. hist[l][v].amount \in Int
    <3>1. hist[l][v] \in Values
      BY DEF History
    <3> QED
      BY <3>1, SMTT(30) DEF Values
  <2>3. 1 \in 1 .. 1 /\ \A i \in 1 .. 1 : i = 1
    BY SMTT(30)
  <2>4. f[1] = hist[l][v].amount /\ f \in [1 .. 1 -> Int]
    BY <1>2, <2>2, <2>3
  <2>5. 1 \in Nat /\ 0 \in Int
    BY SMTT(30)
  <2> HIDE DEF f
  <2>6. PICK p : PartialSums(p, 0, 1, f)
    BY <2>4, <2>5, SumSteps
  <2>7. p[0] = 0 /\ p[1] = p[1 - 1] + f[1] /\ SumOver(0, f) = p[1]
    BY <2>3, <2>6 DEF PartialSums
  <2> QED
    BY <2>1, <2>2, <2>4, <2>7, SMTT(30), ZenonT(40)
<1> QED
  BY <1>3, <1>4

\* A code hash has one origin.
LEMMA CodeOrigin ==
  ASSUME NEW hist, History(hist), NEW l \in CodeLoc, NEW t, NEW o, OriginsOf(hist, t, l, o)
  PROVE  o = <<o[Len(o)]>>
<1>1. o \in Seq(Versions \cup {StorageOrigin}) /\ o # <<>>
  BY DEF OriginsOf
<1>2. PICK n \in Nat : n = Len(o)
  BY <1>1, SMTT(30)
<1>3. n # 0 /\ DOMAIN o = 1 .. n /\ 1 \in 1 .. n
  BY <1>1, <1>2, SMTT(30)
<1>4. n = 1
  <2> SUFFICES ASSUME n # 1 PROVE FALSE
    OBVIOUS
  <2>1. 1 \in 1 .. n - 1
    BY <1>3, SMTT(30)
  <2>2. o[1] # StorageOrigin /\ hist[l][o[1]].kind = "Lazy"
    BY <1>2, <2>1 DEF OriginsOf
  <2>3. o[1] \in Versions
    <3>1. o[1] \in Versions \cup {StorageOrigin}
      BY <1>1, <1>2, <1>3, SMTT(30), ZenonT(40)
    <3> QED
      BY <2>2, <3>1
  <2> QED
    BY <2>2, <2>3 DEF History
<1>5. Len(o) = 1
  BY <1>2, <1>4
<1> QED
  BY <1>1, <1>5, SMTT(30)

LEMMA ReadCodeGives ==
  ASSUME Counted, NEW hist, History(hist), EntriesAre(hist), NEW l \in CodeLoc, NEW t \in Tx,
         DOMAIN data[l] \subseteq Tx, NEW prior, NEW r, r = ReadCodeHash(l, t, prior),
         r.result = "Ok"
  PROVE  /\ Gives(hist, l, t, r.origins, r.amount)
         /\ prior # <<>> /\ OriginsOf(hist, t, l, prior) => r.origins = prior
<1> DEFINE k == Max(Entries(l, t))
           entry == data[l][k]
           found == Entries(l, t) # {} /\ entry # Estimate
           origin == IF found THEN Version(k, entry.incarnation) ELSE StorageOrigin
           amount == IF found THEN entry.value.amount ELSE storage[l]
           bad == [result |-> "InconsistentRead"]
           gone == [result |-> "SelfDestructed"]
           ok == [result |-> "Ok", origins |-> <<origin>>, amount |-> amount]
<1>1. r = IF found /\ entry.value.kind = "SelfDestructed" THEN gone
          ELSE IF prior # <<>> /\ prior[Len(prior)] # origin THEN bad ELSE ok
  BY DEF ReadCodeHash
<1>2. bad.result # "Ok" /\ gone.result # "Ok" /\ ok.amount = amount /\ ok.origins = <<origin>>
  OBVIOUS
<1> HIDE DEF bad, gone, ok
<1>3. /\ r.amount = amount /\ r.origins = <<origin>>
      /\ prior # <<>> => prior[Len(prior)] = origin
  BY <1>1, <1>2
<1>4. prior # <<>> /\ OriginsOf(hist, t, l, prior) => r.origins = prior
  BY <1>3, CodeOrigin
<1>5. l \in Loc
  BY LocationAssumption
<1>6. /\ Amount(hist, l, <<StorageOrigin>>) = storage[l]
      /\ \A v \in Versions : Amount(hist, l, <<v>>) = hist[l][v].amount
  BY <1>5, SingleAmount
<1>7. ASSUME NEW x, x \in Versions => x.tx_idx < t /\ hist[l][x].kind # "Lazy" /\ HoldsVersion(l, x),
             x \in Versions \/ x = StorageOrigin
      PROVE  /\ OriginsOf(hist, t, l, <<x>>)
             /\ \A i \in DOMAIN <<x>> : <<x>>[i] \in Versions => HoldsVersion(l, <<x>>[i])
  <2>1. /\ Len(<<x>>) = 1 /\ DOMAIN <<x>> = {1} /\ <<x>>[1] = x /\ <<x>> # <<>>
        /\ <<x>> \in Seq(Versions \cup {StorageOrigin})
        /\ 1 .. Len(<<x>>) - 1 = {}
    BY <1>7, SMTT(30)
  <2>2. x.tx_idx < t
    BY <1>7, OriginTypes
  <2> QED
    BY <1>7, <2>1, <2>2 DEF OriginsOf, FromStorage
<1>8. CASE found
  <2>1. k \in Entries(l, t)
    <3>1. Entries(l, t) \in SUBSET Tx
      BY DEF Entries
    <3> QED
      BY <1>8, <3>1, MaxTx
  <2>2. k \in DOMAIN data[l] /\ k \in Tx /\ k < t
    BY <2>1 DEF Entries
  <2>3. PICK v : v = Version(k, entry.incarnation)
    OBVIOUS
  <2>4. EntryIs(hist, l, k, v)
    <3>1. PICK j : j = k
      OBVIOUS
    <3>2. j \in DOMAIN data[l] /\ j \in Tx /\ data[l][j] # Estimate /\ v = Version(j, data[l][j].incarnation)
      BY <1>8, <2>2, <2>3, <3>1
    <3>3. EntryIs(hist, l, j, v)
      BY <1>5, <3>2, HeldVersion
    <3> QED
      BY <3>1, <3>3
  <2>5. v \in Versions /\ v.tx_idx < t /\ HoldsVersion(l, v) /\ entry.value = hist[l][v]
    BY <2>2, <2>4 DEF EntryIs
  <2>6. hist[l][v].kind # "Lazy"
    BY <2>5 DEF History
  <2>7. r.origins = <<v>> /\ r.amount = hist[l][v].amount
    BY <1>3, <1>8, <2>3, <2>5
  <2>8. Gives(hist, l, t, <<v>>, hist[l][v].amount)
    BY <1>6, <1>7, <2>5, <2>6 DEF Gives
  <2> QED
    BY <1>4, <2>7, <2>8
<1>9. CASE ~found
  <2>1. r.origins = <<StorageOrigin>> /\ r.amount = storage[l]
    BY <1>3, <1>9
  <2>2. Gives(hist, l, t, <<StorageOrigin>>, storage[l])
    BY <1>6, <1>7, OriginTypes DEF Gives
  <2> QED
    BY <1>4, <2>1, <2>2
<1> QED
  BY <1>8, <1>9

LEMMA ReadsGive ==
  ASSUME Counted, NEW hist, History(hist), EntriesAre(hist), NEW l \in Loc, NEW t \in Tx,
         DOMAIN data[l] \subseteq Tx, NEW prior, NEW r, r = Read(l, t, prior), r.result = "Ok"
  PROVE  ReadGives(hist, l, t, prior, r)
<1>1. CASE l \in CodeLoc
  <2>1. r = ReadCodeHash(l, t, prior)
    BY <1>1 DEF Read
  <2> QED
    BY <1>1, <2>1, ReadCodeGives DEF ReadGives
<1>2. CASE l \notin CodeLoc
  <2>1. r = ReadValue(l, t, prior)
    BY <1>2 DEF Read
  <2> QED
    BY <2>1, ReadValueGives DEF ReadGives
<1> QED
  BY <1>1, <1>2

\* Amounts are numbers.
LEMMA AmountInt ==
  ASSUME NEW hist, History(hist), NEW l \in Loc, NEW t, NEW o, OriginsOf(hist, t, l, o)
  PROVE  Amount(hist, l, o) \in Int
<1> DEFINE n == Len(o)
           m == IF FromStorage(o) THEN n - 1 ELSE n
           base == IF FromStorage(o) THEN storage[l] ELSE 0
           f == [i \in 1 .. m |-> hist[l][o[i]].amount]
<1>1. /\ n \in Nat /\ n >= 1 /\ DOMAIN o = 1 .. n
      /\ \A i \in 1 .. n : o[i] \in Versions \cup {StorageOrigin}
  BY SMTT(30) DEF OriginsOf
<1>2. m \in Nat
  BY <1>1, SMTT(30)
<1>3. ASSUME NEW i \in 1 .. m PROVE o[i] \in Versions
  <2>1. CASE FromStorage(o)
    <3>1. i \in 1 .. n - 1 /\ i \in 1 .. n
      <4>1. m = n - 1
        BY <2>1
      <4> HIDE DEF m, n
      <4> QED
        BY <1>1, <4>1, SMTT(30)
    <3>2. o[i] # StorageOrigin
      BY <3>1 DEF OriginsOf
    <3> QED
      BY <1>1, <3>1, <3>2
  <2>2. CASE ~FromStorage(o)
    <3>1. i \in 1 .. n /\ (i \in 1 .. n - 1 \/ i = n)
      <4>1. m = n
        BY <2>2
      <4> HIDE DEF m, n
      <4> QED
        BY <1>1, <4>1, SMTT(30)
    <3>2. o[i] # StorageOrigin
      BY <2>2, <3>1 DEF OriginsOf, FromStorage
    <3> QED
      BY <1>1, <3>1, <3>2
  <2> QED
    BY <2>1, <2>2
<1>4. f \in [1 .. m -> Int]
  <2> SUFFICES ASSUME NEW i \in 1 .. m PROVE hist[l][o[i]].amount \in Int
    OBVIOUS
  <2>1. hist[l][o[i]] \in Values
    BY <1>3 DEF History
  <2> QED
    BY <2>1, SMTT(30) DEF Values
<1>5. base \in Int
  <2>1. storage[l] \in Int /\ 0 \in Int
    BY LocationAssumption, SMTT(30)
  <2> QED
    BY <2>1
<1>6. Amount(hist, l, o) = SumOver(base, f)
  BY DEF Amount, SumOver
<1> HIDE DEF f, base, m
<1>7. PICK p : PartialSums(p, base, m, f)
  BY <1>2, <1>4, <1>5, SumSteps
<1>8. m \in 0 .. m
  BY <1>2, SMTT(30)
<1> QED
  BY <1>6, <1>7, <1>8 DEF PartialSums

-----------------------------------------------------------------------------
(***************************************************************************)
(* What the steps of the executor need to know of reads and sums.          *)
(***************************************************************************)
LEMMA FoldedHolds ==
  ASSUME Counted, MemInv
  PROVE  Folded
<1>1. WritesFolded
  <2> SUFFICES ASSUME NEW t \in Tx, NEW seen \in Seq(Int),
                      NEW l \in DOMAIN WriteSet(txs[t], seen)
               PROVE  /\ WriteSet(txs[t], seen)[l] \in Values
                      /\ l \in CodeLoc => WriteSet(txs[t], seen)[l].kind # "Lazy"
    BY DEF WritesFolded
  <2>1. Total(seen) \in Int /\ txs \in Blocks
    BY TotalInt DEF MemInv
  <2> QED
    BY <2>1, WritesTyped
<1>2. ASSUME NEW hist, SeenInv(hist) PROVE ReadsFolded(hist)
  <2>1. /\ History(hist) /\ EntriesAre(hist)
        /\ \A l \in Loc : DOMAIN data[l] \subseteq Tx
    BY <1>2 DEF SeenInv, MemInv
  <2> SUFFICES ASSUME NEW l \in Loc, NEW t \in Tx, NEW prior, NEW r,
                      r = Read(l, t, prior), r.result = "Ok"
               PROVE  ReadGives(hist, l, t, prior, r)
    BY DEF ReadsFolded
  <2> QED
    BY <2>1, ReadsGive
<1>3. ASSUME NEW hist, SeenInv(hist) PROVE AmountsFolded(hist)
  <2>1. History(hist)
    BY <1>3 DEF SeenInv
  <2>2. \A l \in Loc : Amount(hist, l, <<StorageOrigin>>) = storage[l]
    BY <2>1, SingleAmount
  <2>3. \A l \in Loc : \A t, o : OriginsOf(hist, t, l, o) => Amount(hist, l, o) \in Int
    BY <2>1, AmountInt
  <2> QED
    BY <2>2, <2>3 DEF AmountsFolded
<1> QED
  BY <1>1, <1>2, <1>3 DEF Folded
=============================================================================
