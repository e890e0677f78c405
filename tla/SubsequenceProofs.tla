------------------------- MODULE SubsequenceProofs -------------------------
(* What Subsequence picks, for every finite set of places.                   *)
EXTENDS Subsequence, Sequences, FiniteSetTheorems, TLAPS

LEMMA UpTo ==
  ASSUME NEW n \in Nat
  PROVE  IsFiniteSet(1..n) /\ Cardinality(1..n) = n
<1>1. /\ IsFiniteSet(1..n)
      /\ Cardinality(1..n) = IF 1 > n THEN 0 ELSE n - 1 + 1
  BY FS_Interval
<1> QED BY <1>1

\* Nth enumerates the places in ascending order, each of them once.
THEOREM NthFacts ==
  ASSUME NEW P, P \subseteq Nat, IsFiniteSet(P)
  PROVE  /\ Cardinality(P) \in Nat
         /\ \A n \in 1..Cardinality(P) : Nth(P, n) \in P
         /\ \A k \in P : \E n \in 1..Cardinality(P) : Nth(P, n) = k
         /\ \A m, n \in 1..Cardinality(P) : m < n => Nth(P, m) < Nth(P, n)
<1> DEFINE Upto(k) == {j \in P : j <= k}
           N == Cardinality(P)
<1>1. N \in Nat
  BY FS_CardinalityType
<1>2. ASSUME NEW k \in P
      PROVE  IsFiniteSet(Upto(k)) /\ Cardinality(Upto(k)) \in 1..N
  <2>1. IsFiniteSet(Upto(k)) /\ Cardinality(Upto(k)) <= N
    BY FS_Subset
  <2>2. k \in Upto(k)
    OBVIOUS
  <2> HIDE DEF Upto
  <2>3. Cardinality(Upto(k)) \in Nat /\ Cardinality(Upto(k)) # 0
    BY <2>1, <2>2, FS_CardinalityType, FS_EmptySet
  <2> QED BY <1>1, <2>1, <2>3
<1>3. ASSUME NEW k \in P, NEW l \in P, k < l
      PROVE  Cardinality(Upto(k)) < Cardinality(Upto(l))
  <2>1. Upto(k) \subseteq Upto(l) /\ l \in Upto(l) /\ l \notin Upto(k)
    <3>1. k \in Nat /\ l \in Nat /\ \A j \in P : j \in Nat
      OBVIOUS
    <3>2. \A j \in P : j <= k => j <= l
      BY <1>3, <3>1
    <3>3. l <= l /\ ~(l <= k)
      BY <1>3, <3>1
    <3> QED BY <3>2, <3>3
  <2>2. /\ IsFiniteSet(Upto(k)) /\ IsFiniteSet(Upto(l))
        /\ Cardinality(Upto(k)) \in Nat /\ Cardinality(Upto(l)) \in Nat
    BY <1>1, <1>2
  <2> HIDE DEF Upto
  <2>3. Cardinality(Upto(k)) <= Cardinality(Upto(l)) /\ Cardinality(Upto(k)) # Cardinality(Upto(l))
    BY <2>1, <2>2, FS_Subset
  <2> QED BY <2>2, <2>3
<1> DEFINE c(k) == Cardinality(Upto(k))
<1>4. \A k \in P : k \in Nat /\ c(k) \in 1..N
  BY <1>2
<1>5. \A k, l \in P : k < l => c(k) < c(l)
  BY <1>3
<1>6. \A n : Nth(P, n) = CHOOSE k \in P : c(k) = n
  BY DEF Nth
<1> HIDE DEF c, Upto, N
<1>7. ASSUME NEW k \in P, NEW l \in P, c(k) = c(l) PROVE k = l
  BY <1>1, <1>4, <1>5, <1>7
<1> DEFINE f == [k \in P |-> c(k)]
<1>8. f \in Injection(P, 1..N)
  <2>1. f \in [P -> 1..N]
    BY <1>4
  <2>2. \A k, l \in P : f[k] = f[l] => k = l
    BY <1>7
  <2> HIDE DEF f
  <2> QED BY <2>1, <2>2 DEF Injection, IsInjective
<1>9. \A n \in 1..N : \E k \in P : c(k) = n
  <2>1. IsFiniteSet(1..N) /\ Cardinality(1..N) = N
    BY <1>1, UpTo
  <2>2. f \in Surjection(P, 1..N)
    <3> HIDE DEF f
    <3> QED BY <1>8, <2>1, FS_Injection DEF N
  <2> QED BY <2>2 DEF Surjection
<1>10. \A n \in 1..N : Nth(P, n) \in P /\ c(Nth(P, n)) = n
  BY <1>6, <1>9
<1>11. \A k \in P : \E n \in 1..N : Nth(P, n) = k
  BY <1>4, <1>7, <1>10
<1>12. ASSUME NEW m \in 1..N, NEW n \in 1..N, m < n
       PROVE  Nth(P, m) < Nth(P, n)
  <2>1. /\ Nth(P, m) \in P /\ c(Nth(P, m)) = m
        /\ Nth(P, n) \in P /\ c(Nth(P, n)) = n
    BY <1>10
  <2>2. ~(Nth(P, n) < Nth(P, m)) /\ Nth(P, n) # Nth(P, m)
    <3>1. ~(n < m) /\ m # n
      BY <1>1, <1>12
    <3>2. Nth(P, n) < Nth(P, m) => n < m
      BY <1>5, <2>1
    <3> QED BY <2>1, <3>1, <3>2
  <2>3. Nth(P, m) \in Nat /\ Nth(P, n) \in Nat
    BY <1>4, <2>1
  <2> QED BY <2>2, <2>3
<1> QED BY <1>1, <1>10, <1>11, <1>12 DEF N

\* Picking from a sequence makes one, of elements of it.
THEOREM PickedFacts ==
  ASSUME NEW S, NEW s \in Seq(S), NEW P \in SUBSET DOMAIN s
  PROVE  /\ IsFiniteSet(P) /\ Cardinality(P) \in Nat
         /\ Picked(s, P) \in Seq(S) /\ Len(Picked(s, P)) = Cardinality(P)
         /\ \A n \in 1..Cardinality(P) : Nth(P, n) \in P /\ Picked(s, P)[n] = s[Nth(P, n)]
         /\ \A k \in P : \E n \in 1..Cardinality(P) : Nth(P, n) = k
         /\ \A m, n \in 1..Cardinality(P) : m < n => Nth(P, m) < Nth(P, n)
<1>1. DOMAIN s = 1..Len(s) /\ Len(s) \in Nat
  OBVIOUS
<1>2. IsFiniteSet(P) /\ P \subseteq Nat
  <2>1. IsFiniteSet(1..Len(s))
    BY <1>1, UpTo
  <2> QED BY <1>1, <2>1, FS_Subset
<1>3. /\ Cardinality(P) \in Nat
      /\ \A n \in 1..Cardinality(P) : Nth(P, n) \in P
      /\ \A k \in P : \E n \in 1..Cardinality(P) : Nth(P, n) = k
      /\ \A m, n \in 1..Cardinality(P) : m < n => Nth(P, m) < Nth(P, n)
  BY <1>2, NthFacts
<1> DEFINE N == Cardinality(P)
<1>4. \A n \in 1..N : s[Nth(P, n)] \in S
  BY <1>1, <1>3
<1>5. Picked(s, P) = [n \in 1..N |-> s[Nth(P, n)]]
  BY DEF Picked
<1>6. Picked(s, P) \in Seq(S) /\ Len(Picked(s, P)) = N /\ \A n \in 1..N : Picked(s, P)[n] = s[Nth(P, n)]
  <2> HIDE DEF N
  <2>1. N \in Nat
    BY <1>3 DEF N
  <2> QED BY <1>4, <1>5, <2>1
<1> QED BY <1>2, <1>3, <1>6
=============================================================================
