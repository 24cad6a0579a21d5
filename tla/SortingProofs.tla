--------------------------- MODULE SortingProofs ---------------------------
(***************************************************************************)
(* What the sorted and shortened lists of Sorting contain, for every       *)
(* finite set and every strict order on it.                                *)
(***************************************************************************)
EXTENDS Sorting, SequencesExt, FiniteSetTheorems, SequenceTheorems,
        WellFoundedInduction, TLAPS

(* A strict total order on S.                                              *)
IsOrder(R, S) ==
    /\ \A e \in S : <<e, e>> \notin R
    /\ \A e, f \in S : e # f => <<e, f>> \in R \/ <<f, e>> \in R
    /\ \A e, f, g \in S : <<e, f>> \in R /\ <<f, g>> \in R => <<e, g>> \in R

(* A sequence of all members of S, each once, in the order R.              *)
IsSorting(s, S, R) ==
    /\ s \in Seq(S)
    /\ Len(s) = Cardinality(S)
    /\ ToSet(s) = S
    /\ \A i, j \in 1 .. Len(s) : i < j => <<s[i], s[j]>> \in R
    /\ \A i, j \in 1 .. Len(s) : s[i] = s[j] => i = j

(* Counting the members before each one sorts a finite set.                *)
LEMMA SortedSorts ==
    ASSUME NEW S, IsFiniteSet(S), NEW R, IsOrder(R, S)
    PROVE  IsSorting(Sorted(S, R), S, R)
  <1> DEFINE below(e) == {f \in S : <<f, e>> \in R}
             pick(i) == CHOOSE e \in S : Cardinality(below(e)) = i - 1
             rank == [e \in S |-> Cardinality(below(e))]
             n == Cardinality(S)
             s == Sorted(S, R)
  <1>1. n \in Nat
    BY FS_CardinalityType
  <1>2. ASSUME NEW e \in S
        PROVE  rank[e] \in 0 .. n - 1
    <2>1. below(e) \subseteq S \ {e}
      BY DEF IsOrder
    <2>2. IsFiniteSet(S \ {e}) /\ Cardinality(S \ {e}) = n - 1
      BY FS_RemoveElement
    <2>3. IsFiniteSet(below(e)) /\ Cardinality(below(e)) <= n - 1
      <3> HIDE DEF below, n
      <3> QED
        BY <2>1, <2>2, FS_Subset
    <2>4. Cardinality(below(e)) \in Nat
      BY <2>3, FS_CardinalityType
    <2> QED
      BY <1>1, <2>3, <2>4
  <1>3. ASSUME NEW e \in S, NEW f \in S, <<e, f>> \in R
        PROVE  rank[e] < rank[f]
    <2>1. below(e) \subseteq below(f) /\ e \in below(f) /\ e \notin below(e)
      BY <1>3 DEF IsOrder
    <2>2. IsFiniteSet(below(f))
      BY FS_Subset
    <2>3. /\ Cardinality(below(e)) <= Cardinality(below(f))
          /\ Cardinality(below(f)) # Cardinality(below(e))
      <3>1. below(f) # below(e)
        BY <2>1
      <3> HIDE DEF below
      <3> QED
        BY <2>1, <2>2, <3>1, FS_Subset
    <2>4. rank[e] = Cardinality(below(e)) /\ rank[f] = Cardinality(below(f))
      OBVIOUS
    <2> HIDE DEF rank, below
    <2> QED
      BY <1>2, <2>3, <2>4
  <1> HIDE DEF n
  <1>4. rank \in [S -> 0 .. n - 1]
    BY <1>2
  <1>5. s = [i \in 1 .. n |-> pick(i)]
    BY DEF Sorted, n
  <1>6. ASSUME NEW i, \E e \in S : rank[e] = i - 1
        PROVE  pick(i) \in S /\ rank[pick(i)] = i - 1
    <2>1. \A e \in S : rank[e] = Cardinality(below(e))
      OBVIOUS
    <2> HIDE DEF rank, below
    <2>2. \E e \in S : Cardinality(below(e)) = i - 1
      BY <1>6, <2>1
    <2>3. pick(i) \in S /\ Cardinality(below(pick(i))) = i - 1
      BY <2>2
    <2> QED
      BY <2>1, <2>3
  <1> HIDE DEF rank, pick, s
  <1>7. \A e, f \in S : rank[e] = rank[f] => e = f
    <2> SUFFICES ASSUME NEW e \in S, NEW f \in S, rank[e] = rank[f], e # f
                 PROVE  FALSE
      OBVIOUS
    <2>1. rank[e] < rank[f] \/ rank[f] < rank[e]
      BY <1>3 DEF IsOrder
    <2> QED
      BY <1>2, <2>1
  <1>8. \A k \in 0 .. n - 1 : \E e \in S : rank[e] = k
    <2>1. rank \in Injection(S, 0 .. n - 1)
      BY <1>4, <1>7 DEF Injection, IsInjective
    <2>2. IsFiniteSet(0 .. n - 1) /\ Cardinality(0 .. n - 1) = n
      BY <1>1, FS_Interval
    <2>3. rank \in Surjection(S, 0 .. n - 1)
      BY <2>1, <2>2, FS_Injection DEF n
    <2> QED
      BY <2>3 DEF Surjection
  <1>9. \A i \in 1 .. n : s[i] \in S /\ rank[s[i]] = i - 1
    <2> TAKE i \in 1 .. n
    <2>1. \E e \in S : rank[e] = i - 1
      BY <1>1, <1>8
    <2> QED
      BY <1>5, <1>6, <2>1
  <1>10. s \in Seq(S) /\ Len(s) = n /\ DOMAIN s = 1 .. n
    BY <1>1, <1>5, <1>9
  <1>11. ToSet(s) = S
    <2>1. ASSUME NEW e \in S
          PROVE  \E i \in 1 .. n : s[i] = e
      <3>1. rank[e] + 1 \in 1 .. n
        BY <1>1, <1>2
      <3>2. rank[s[rank[e] + 1]] = rank[e] /\ s[rank[e] + 1] \in S
        BY <1>2, <1>9, <3>1
      <3> QED
        BY <1>7, <3>1, <3>2
    <2> QED
      BY <1>9, <1>10, <2>1 DEF ToSet
  <1>12. ASSUME NEW i \in 1 .. n, NEW j \in 1 .. n
         PROVE  /\ i < j => <<s[i], s[j]>> \in R
                /\ s[i] = s[j] => i = j
    <2>1. /\ s[i] \in S /\ rank[s[i]] = i - 1
          /\ s[j] \in S /\ rank[s[j]] = j - 1
      BY <1>9
    <2>2. s[i] = s[j] => i = j
      BY <1>1, <2>1
    <2>3. <<s[j], s[i]>> \in R => j - 1 < i - 1
      BY <1>3, <2>1
    <2>4. s[i] # s[j] => <<s[i], s[j]>> \in R \/ <<s[j], s[i]>> \in R
      BY <2>1 DEF IsOrder
    <2> QED
      BY <1>1, <2>1, <2>2, <2>3, <2>4
  <1>13. \A i, j \in 1 .. n : /\ i < j => <<s[i], s[j]>> \in R
                              /\ s[i] = s[j] => i = j
    BY <1>12
  <1> QED
    BY <1>10, <1>11, <1>13 DEF IsSorting, n, s

(* Sorting numbers.                                                        *)
LEMMA KeySorts ==
    ASSUME NEW S, S \subseteq Nat, IsFiniteSet(S)
    PROVE  IsSorting(Ascending(S), S, {p \in S \X S : p[1] < p[2]})
  <1> DEFINE R == {p \in S \X S : p[1] < p[2]}
  <1>1. \A e, f \in S : <<e, f>> \in R <=> e < f
    OBVIOUS
  <1>2. IsOrder(R, S)
    <2> HIDE DEF R
    <2> QED
      BY <1>1 DEF IsOrder
  <1> QED
    BY <1>2, SortedSorts DEF Ascending

(* The first m of a sorted set: no more than m, each once, and all ahead   *)
(* of the ones that are cut off.                                           *)
LEMMA FirstFacts ==
    ASSUME NEW S, IsFiniteSet(S), NEW R, NEW s, IsSorting(s, S, R),
           NEW m \in Nat
    PROVE  LET f == FirstOf(s, m)
           IN  /\ f \in Seq(S)
               /\ Len(f) = IF m < Cardinality(S) THEN m ELSE Cardinality(S)
               /\ ToSet(f) \subseteq S
               /\ \A i, j \in 1 .. Len(f) : f[i] = f[j] => i = j
               /\ IsFiniteSet(ToSet(f))
               /\ Cardinality(ToSet(f)) = Len(f)
               /\ m >= Cardinality(S) => ToSet(f) = S
               /\ \A e \in ToSet(f), g \in S \ ToSet(f) : <<e, g>> \in R
  <1> DEFINE f == FirstOf(s, m)
             k == IF m < Len(s) THEN m ELSE Len(s)
  <1>1. /\ s \in Seq(S) /\ Len(s) = Cardinality(S) /\ Len(s) \in Nat
        /\ DOMAIN s = 1 .. Len(s)
        /\ ToSet(s) = S
        /\ \A i, j \in 1 .. Len(s) : i < j => <<s[i], s[j]>> \in R
        /\ \A i, j \in 1 .. Len(s) : s[i] = s[j] => i = j
    BY DEF IsSorting
  <1>2. k \in Nat /\ k <= Len(s) /\ k = IF m < Cardinality(S) THEN m
                                         ELSE Cardinality(S)
    BY <1>1
  <1>3. f = SubSeq(s, 1, k)
    BY DEF FirstOf
  <1> HIDE DEF f, k
  <1>4. /\ f \in Seq(S) /\ Len(f) = k /\ DOMAIN f = 1 .. k
        /\ \A i \in 1 .. k : f[i] = s[i]
    BY <1>1, <1>2, <1>3
  <1>5. \A i, j \in 1 .. k : f[i] = f[j] => i = j
    BY <1>1, <1>2, <1>4
  <1>6. ToSet(f) = {f[i] : i \in 1 .. k} /\ ToSet(f) \subseteq S
    BY <1>4 DEF ToSet
  <1>7. IsFiniteSet(ToSet(f)) /\ Cardinality(ToSet(f)) = k
    <2>1. f \in Surjection(1 .. k, ToSet(f)) /\ f \in Injection(1 .. k, ToSet(f))
      BY <1>4, <1>5, <1>6 DEF Surjection, Injection, IsInjective
    <2>2. IsFiniteSet(1 .. k) /\ Cardinality(1 .. k) = k
      BY <1>2, FS_Interval
    <2> QED
      BY <2>1, <2>2, FS_Surjection
  <1>8. m >= Cardinality(S) => ToSet(f) = S
    BY <1>1, <1>2, <1>4, <1>6 DEF ToSet
  <1>9. ASSUME NEW e \in ToSet(f), NEW g \in S \ ToSet(f)
        PROVE  <<e, g>> \in R
    <2>1. PICK i \in 1 .. k : e = s[i]
      BY <1>4, <1>6
    <2>2. PICK j \in 1 .. Len(s) : g = s[j]
      BY <1>1 DEF ToSet
    <2>3. ~(j <= k)
      BY <1>4, <1>6, <2>2
    <2> QED
      BY <1>1, <1>2, <2>1, <2>2, <2>3
  <1> QED
    BY <1>2, <1>4, <1>5, <1>6, <1>7, <1>8, <1>9 DEF f

(* A set of natural numbers has a least member.                            *)
LEMMA LeastMember ==
    ASSUME NEW S, S \subseteq Nat, S # {}
    PROVE  \E x \in S : \A y \in S : x <= y
  <1>1. \E x \in S : \A y \in S : ~(<<y, x>> \in OpToRel(<, Nat))
    BY NatLessThanWellFounded, WFMin
  <1>2. \E x \in S : \A y \in S : ~(y < x)
    BY <1>1 DEF OpToRel
  <1>3. PICK x \in S : \A y \in S : ~(y < x)
    BY <1>2
  <1> QED
    BY <1>3
=============================================================================
