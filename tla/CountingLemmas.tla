--------------------------- MODULE CountingLemmas ---------------------------
(***************************************************************************)
(* Facts about cardinalities that the proofs about several components      *)
(* share.  Most counters in this code count threads, and a step moves one  *)
(* thread.                                                                 *)
(***************************************************************************)
EXTENDS Integers, FiniteSets, FiniteSetTheorems, TLAPS

(* One thread is in B or not, all others are in B as they are in A: the    *)
(* cardinality changes by what that thread does.                          *)
LEMMA CardinalityStep ==
  ASSUME NEW A, NEW B, NEW t, IsFiniteSet(A), B \ {t} = A \ {t}
  PROVE  /\ IsFiniteSet(B)
         /\ Cardinality(A) \in Nat
         /\ Cardinality(B) \in Nat
         /\ Cardinality(B) = Cardinality(A) + (IF t \in B THEN 1 ELSE 0)
                                            - (IF t \in A THEN 1 ELSE 0)
<1> DEFINE C == A \ {t}
<1>1. IsFiniteSet(C) /\ Cardinality(C) \in Nat
  BY FS_Subset, FS_CardinalityType, Zenon
<1> HIDE DEF C
<1>2. Cardinality(A) = Cardinality(C) + (IF t \in A THEN 1 ELSE 0)
  <2>1. CASE t \in A
    <3>1. A = C \cup {t} /\ t \notin C
      BY <2>1, Zenon DEF C
    <3> QED BY <1>1, <2>1, <3>1, FS_AddElement, Zenon
  <2>2. CASE t \notin A
    <3>1. A = C
      BY <2>2, Zenon DEF C
    <3> QED BY <1>1, <2>2, <3>1
  <2> QED BY <2>1, <2>2, Zenon
<1>3. IsFiniteSet(B) /\ Cardinality(B) = Cardinality(C) + (IF t \in B THEN 1 ELSE 0)
  <2>1. CASE t \in B
    <3>1. B = C \cup {t} /\ t \notin C
      BY <2>1, Zenon DEF C
    <3> QED BY <1>1, <2>1, <3>1, FS_AddElement, Zenon
  <2>2. CASE t \notin B
    <3>1. B = C
      BY <2>2, Zenon DEF C
    <3> QED BY <1>1, <2>2, <3>1
  <2> QED BY <2>1, <2>2, Zenon
<1>4. Cardinality(A) \in Nat /\ Cardinality(B) \in Nat
  BY <1>1, <1>2, <1>3
<1> QED BY <1>1, <1>2, <1>3, <1>4

(* A set with n[y] elements for each y of S: its cardinality is the sum of *)
(* n over S.                                                               *)
Units(S, n) == UNION {{y} \X (1 .. n[y]) : y \in S}

Splits(S, n, x) ==
  /\ IsFiniteSet(Units(S, n)) /\ IsFiniteSet(Units(S \ {x}, n))
  /\ Cardinality(Units(S, n)) \in Nat /\ Cardinality(Units(S \ {x}, n)) \in Nat
  /\ Cardinality(Units(S, n))
       = Cardinality(Units(S \ {x}, n)) + (IF x \in S THEN n[x] ELSE 0)

(* The units of one element, taken from a sum.                             *)
LEMMA UnitsSplit ==
  ASSUME NEW S, IsFiniteSet(S), NEW n, \A y \in S : n[y] \in Nat, NEW x
  PROVE  Splits(S, n, x)
<1> DEFINE own == [y \in S |-> {y} \X (1 .. n[y])]
           family == {{y} \X (1 .. n[y]) : y \in S}
           rest == Units(S \ {x}, n)
           mine == {x} \X (1 .. n[x])
<1>1. IsFiniteSet(family)
  <2>1. own \in Surjection(S, family)
    BY Zenon DEF Surjection
  <2> HIDE DEF own, family
  <2> QED BY <2>1, FS_Surjection, Zenon
<1>2. ASSUME NEW y \in S
      PROVE  IsFiniteSet({y} \X (1 .. n[y])) /\ Cardinality({y} \X (1 .. n[y])) = n[y]
  <2>1. IsFiniteSet({y}) /\ Cardinality({y}) = 1
    BY FS_Singleton, Zenon
  <2>2. IsFiniteSet(1 .. n[y]) /\ Cardinality(1 .. n[y]) = n[y]
    BY FS_Interval
  <2>3. IsFiniteSet({y} \X (1 .. n[y])) /\ Cardinality({y} \X (1 .. n[y])) = 1 * n[y]
    BY <2>1, <2>2, FS_Product
  <2> QED BY <2>3
<1>3. IsFiniteSet(Units(S, n))
  <2>1. \A F \in family : IsFiniteSet(F)
    BY <1>2, Zenon
  <2> QED BY <1>1, <2>1, FS_UNION, Zenon DEF Units
<1>4. IsFiniteSet(rest)
  <2>1. rest \subseteq Units(S, n)
    BY Zenon DEF Units
  <2> QED BY <1>3, <2>1, FS_Subset, Zenon
<1>5. CASE x \in S
  <2>1. Units(S, n) = rest \cup mine
    BY <1>5, Zenon DEF Units
  <2>2. rest \cap mine = {}
    BY DEF Units
  <2>3. IsFiniteSet(mine) /\ Cardinality(mine) = n[x]
    BY <1>2, <1>5, Zenon
  <2> HIDE DEF rest, mine
  <2>4. Cardinality(Units(S, n)) = Cardinality(rest) + n[x]
    <3>1. Cardinality(rest \cap mine) = 0
      BY <2>2, FS_EmptySet, Zenon
    <3>2. Cardinality(rest) \in Nat /\ n[x] \in Nat
      BY <1>4, <1>5, FS_CardinalityType, Zenon
    <3>3. Cardinality(rest \cup mine)
            = Cardinality(rest) + Cardinality(mine) - Cardinality(rest \cap mine)
      BY <1>4, <2>3, FS_Union, Zenon
    <3> QED BY <2>1, <2>3, <3>1, <3>2, <3>3
  <2> QED BY <1>3, <1>4, <1>5, <2>4, FS_CardinalityType, Zenon DEF rest, Splits
<1>6. CASE x \notin S
  <2>1. S \ {x} = S
    BY <1>6, Zenon
  <2> HIDE DEF rest
  <2>2. Cardinality(Units(S, n)) \in Nat
    BY <1>3, FS_CardinalityType, Zenon
  <2> QED BY <1>3, <1>6, <2>1, <2>2 DEF Splits
<1> QED BY <1>5, <1>6, Zenon

(* A step that changes one element's membership or number changes the sum  *)
(* by what that element does.                                              *)
LEMMA UnitsStep ==
  ASSUME NEW S, NEW R, IsFiniteSet(S), NEW x, R \ {x} = S \ {x},
         NEW n, \A y \in S : n[y] \in Nat, NEW m, \A y \in R : m[y] \in Nat,
         \A y \in S \ {x} : m[y] = n[y]
  PROVE  /\ Cardinality(Units(S, n)) \in Nat /\ Cardinality(Units(R, m)) \in Nat
         /\ Cardinality(Units(R, m)) = Cardinality(Units(S, n))
              + (IF x \in R THEN m[x] ELSE 0) - (IF x \in S THEN n[x] ELSE 0)
<1>1. Units(R \ {x}, m) = Units(S \ {x}, n)
  <2>1. \A y \in S \ {x} : {y} \X (1 .. m[y]) = {y} \X (1 .. n[y])
    BY Zenon
  <2> QED BY <2>1, Zenon DEF Units
<1>2. IsFiniteSet(R)
  BY CardinalityStep, Zenon
<1>3. Splits(S, n, x) /\ Splits(R, m, x)
  BY <1>2, UnitsSplit, Zenon
<1> QED BY <1>1, <1>3 DEF Splits
=============================================================================
