------------------------ MODULE SubsequenceTheorems ------------------------
(***************************************************************************)
(* What a filter keeps and what it does not, for every sequence and every  *)
(* choice of places.  The ranks of the places go from 1 to their number,   *)
(* each once: a pigeonhole, instead of an induction over the sequence.     *)
(***************************************************************************)
EXTENDS Subsequences, Integers, FiniteSetTheorems, FunctionTheorems, SequenceTheorems, TLAPS

(* A place has one of the ranks there are, and a later place a higher one,
   by at most the places between them. *)
LEMMA PlacesAreFinite ==
  ASSUME NEW m \in Nat, NEW places \in SUBSET (1..m)
  PROVE  /\ IsFiniteSet(places)
         /\ Cardinality(places) \in Nat
         /\ Cardinality(places) <= m
<1>1. IsFiniteSet(1..m) /\ Cardinality(1..m) = m
  BY FS_Interval
<1>2. QED
  BY <1>1, FS_Subset, FS_CardinalityType

LEMMA RankIsBetween ==
  ASSUME NEW m \in Nat, NEW places \in SUBSET (1..m), NEW i \in places
  PROVE  /\ Rank(places, i) \in 1..Cardinality(places)
         /\ Cardinality(places) - Rank(places, i) <= m - i
<1> DEFINE upto == {j \in places : j <= i}
           after == {j \in places : j > i}
<1>0. i \in 1..m /\ \A j \in places : j \in 1..m
  OBVIOUS
<1>1. IsFiniteSet(places) /\ Cardinality(places) \in Nat
  BY PlacesAreFinite
<1>2. IsFiniteSet(upto) /\ Cardinality(upto) \in Nat /\ Cardinality(upto) <= Cardinality(places)
  BY <1>1, FS_Subset, FS_CardinalityType
<1>3. Cardinality(upto) # 0
  BY <1>2, FS_EmptySet
<1>4. IsFiniteSet((i + 1)..m) /\ Cardinality((i + 1)..m) = m - i
  BY FS_Interval
<1>5. after \subseteq (i + 1)..m
  <2>1. \A j \in places : j > i => j \in (i + 1)..m
    BY <1>0
  <2>2. QED
    BY <2>1
<1>6. IsFiniteSet(after) /\ Cardinality(after) \in Nat /\ Cardinality(after) <= m - i
  <2> HIDE DEF after
  <2>1. QED
    BY <1>4, <1>5, FS_Subset, FS_CardinalityType
<1>7. upto \cup after = places /\ upto \cap after = {}
  <2>1. \A j \in places : (j > i) <=> ~(j <= i)
    BY <1>0
  <2>2. QED
    BY <2>1
<1>8. Cardinality(places) = Cardinality(upto) + Cardinality(after)
  <2> HIDE DEF upto, after
  <2>1. Cardinality(upto \cup after)
          = Cardinality(upto) + Cardinality(after) - Cardinality(upto \cap after)
    BY <1>2, <1>6, FS_Union
  <2>2. QED
    BY <2>1, <1>2, <1>6, <1>7, FS_EmptySet
<1>9. QED
  BY <1>1, <1>2, <1>3, <1>6, <1>8 DEF Rank

LEMMA RanksGrow ==
  ASSUME NEW m \in Nat, NEW places \in SUBSET (1..m), NEW i \in places, NEW j \in places, i < j
  PROVE  Rank(places, i) < Rank(places, j)
<1> DEFINE low == {k \in places : k <= i}
           high == {k \in places : k <= j}
<1>0. i \in 1..m /\ j \in 1..m /\ \A k \in places : k \in 1..m
  OBVIOUS
<1>1. IsFiniteSet(places)
  BY PlacesAreFinite
<1>2. IsFiniteSet(high) /\ Cardinality(high) \in Nat
  BY <1>1, FS_Subset, FS_CardinalityType
<1>3. low \subseteq high /\ j \in high /\ j \notin low
  <2>1. \A k \in places : k <= i => k <= j
    BY <1>0
  <2>2. j <= j /\ ~(j <= i)
    BY <1>0
  <2>3. QED
    BY <2>1, <2>2
<1>4. IsFiniteSet(low) /\ Cardinality(low) \in Nat /\ Cardinality(low) <= Cardinality(high)
      /\ Cardinality(low) # Cardinality(high)
  <2> HIDE DEF low, high
  <2>1. QED
    BY <1>2, <1>3, FS_Subset, FS_CardinalityType
<1>5. QED
  BY <1>2, <1>4 DEF Rank

LEMMA RanksDiffer ==
  ASSUME NEW m \in Nat, NEW places \in SUBSET (1..m), NEW i \in places, NEW j \in places,
         Rank(places, i) = Rank(places, j)
  PROVE  i = j
<1>1. Rank(places, i) \in 1..Cardinality(places) /\ Rank(places, j) \in 1..Cardinality(places)
  BY RankIsBetween
<1>2. i \in Int /\ j \in Int
  OBVIOUS
<1>3. ~(i < j)
  <2> SUFFICES ASSUME i < j PROVE FALSE
    OBVIOUS
  <2>1. Rank(places, i) < Rank(places, j)
    BY RanksGrow
  <2>2. QED
    BY <1>1, <2>1
<1>4. ~(j < i)
  <2> SUFFICES ASSUME j < i PROVE FALSE
    OBVIOUS
  <2>1. Rank(places, j) < Rank(places, i)
    BY RanksGrow
  <2>2. QED
    BY <1>1, <2>1
<1>5. QED
  BY <1>2, <1>3, <1>4

(* There are as many places as ranks, so every rank is that of a place. *)
LEMMA EveryRankIsOne ==
  ASSUME NEW m \in Nat, NEW places \in SUBSET (1..m), NEW n \in 1..Cardinality(places)
  PROVE  \E i \in places : Rank(places, i) = n
<1> DEFINE ranks == 1..Cardinality(places)
           f == [i \in places |-> Rank(places, i)]
<1>1. IsFiniteSet(places) /\ Cardinality(places) \in Nat
  BY PlacesAreFinite
<1>2. IsFiniteSet(ranks) /\ Cardinality(ranks) = Cardinality(places)
  BY <1>1, FS_Interval
<1>3. f \in [places -> ranks]
  BY RankIsBetween
<1>4. \A i, j \in places : f[i] = f[j] => i = j
  BY RanksDiffer
<1>5. f \in Injection(places, ranks)
  <2> HIDE DEF f, ranks
  <2>1. QED
    BY <1>3, <1>4 DEF Injection, IsInjective
<1>6. f \in Surjection(places, ranks)
  <2> HIDE DEF f, ranks
  <2>1. QED
    BY <1>2, <1>5, FS_Injection
<1>7. \E i \in places : f[i] = n
  BY <1>6 DEF Surjection
<1>8. QED
  BY <1>7

-----------------------------------------------------------------------------
(* A subsequence has an element for each place and no other, and no element
   is further from its end than it was from the end of the sequence. *)
THEOREM SubsequenceProperties ==
  ASSUME NEW S, NEW s \in Seq(S), NEW places \in SUBSET (1..Len(s))
  PROVE  /\ Subsequence(s, places) \in Seq(S)
         /\ Len(Subsequence(s, places)) <= Len(s)
         /\ \A n \in 1..Len(Subsequence(s, places)) :
              \E i \in places : Subsequence(s, places)[n] = s[i]
         /\ \A i \in places : \E n \in 1..Len(Subsequence(s, places)) :
              /\ Subsequence(s, places)[n] = s[i]
              /\ Len(Subsequence(s, places)) - n <= Len(s) - i
<1> DEFINE m == Len(s)
           size == Cardinality(places)
           place(n) == CHOOSE i \in places : Rank(places, i) = n
<1>1. m \in Nat /\ s \in [1..m -> S]
  BY LenProperties
<1>2. size \in Nat /\ size <= m
  BY <1>1, PlacesAreFinite
<1>3. \A n \in 1..size : place(n) \in places /\ Rank(places, place(n)) = n
  BY <1>1, EveryRankIsOne
<1>4. \A i \in places : place(Rank(places, i)) = i
  <2> SUFFICES ASSUME NEW i \in places PROVE place(Rank(places, i)) = i
    OBVIOUS
  <2>1. Rank(places, i) \in 1..size
    BY <1>1, RankIsBetween
  <2>2. place(Rank(places, i)) \in places /\ Rank(places, place(Rank(places, i))) = Rank(places, i)
    BY <2>1, <1>3
  <2> HIDE DEF place
  <2>3. QED
    BY <1>1, <2>2, RanksDiffer
<1>5. Subsequence(s, places) = [n \in 1..size |-> s[place(n)]]
  BY DEF Subsequence
<1> HIDE DEF place, size, m
<1>6. \A n \in 1..size : s[place(n)] \in S
  BY <1>1, <1>3 DEF m
<1>7. Subsequence(s, places) \in Seq(S) /\ Len(Subsequence(s, places)) = size
  BY <1>2, <1>5, <1>6
<1>8. ASSUME NEW i \in places
      PROVE  \E n \in 1..size : Subsequence(s, places)[n] = s[i] /\ size - n <= m - i
  <2>1. Rank(places, i) \in 1..size /\ size - Rank(places, i) <= m - i
    BY <1>1, RankIsBetween DEF size, m
  <2>2. Subsequence(s, places)[Rank(places, i)] = s[i]
    BY <2>1, <1>4, <1>5
  <2>3. QED
    BY <2>1, <2>2
<1>9. QED
  BY <1>2, <1>3, <1>5, <1>7, <1>8 DEF m
=============================================================================
