--------------------------- MODULE SequenceProofs ---------------------------
(***************************************************************************)
(* Facts about sequences that the proofs of several components share.      *)
(* Sorted enumerates a finite set of numbers in increasing order, and what *)
(* flattenCells builds of a map is one array for all iteration orders,     *)
(* from which the daemon reads exactly that map.  FlattenSeq and functions *)
(* that build a sequence from its end have the recursive values they are   *)
(* meant to have.                                                          *)
(*                                                                         *)
(* The library's induction theorems take a predicate, so none of this uses *)
(* them.  For sorting no induction is needed: ranks map a finite set one   *)
(* to one into 1..Cardinality(S), hence onto it.  The rest uses induction  *)
(* stated of a set of numbers.                                             *)
(***************************************************************************)
EXTENDS Cells, FiniteSetTheorems, SequenceTheorems, TLAPS

\* A larger number has a larger rank.
LEMMA RankIncreases ==
  ASSUME NEW S \in SUBSET Int, IsFiniteSet(S), NEW m \in S, NEW n \in S, m < n
  PROVE  Rank(S, m) < Rank(S, n)
<1> DEFINE Upto(k) == {j \in S : j <= k}
<1>1. IsFiniteSet(Upto(n))
  BY FS_Subset
<1>2. Upto(m) \in SUBSET Upto(n) /\ n \in Upto(n) /\ n \notin Upto(m)
  <2>1. m \in Int /\ n \in Int
    OBVIOUS
  <2>2. ASSUME NEW j \in Upto(m)
        PROVE  j \in Upto(n)
    <3>1. j \in S /\ j \in Int /\ j <= m
      OBVIOUS
    <3> QED BY <2>1, <3>1
  <2>3. n \in Upto(n) /\ n \notin Upto(m)
    BY <2>1
  <2> QED BY <2>2, <2>3
<1>3. /\ Cardinality(Upto(m)) <= Cardinality(Upto(n))
      /\ Cardinality(Upto(m)) # Cardinality(Upto(n))
  <2>1. /\ Cardinality(Upto(m)) <= Cardinality(Upto(n))
        /\ Cardinality(Upto(n)) = Cardinality(Upto(m)) => Upto(n) = Upto(m)
    BY <1>1, <1>2, FS_Subset
  <2> QED BY <1>2, <2>1
<1>4. Cardinality(Upto(m)) \in Nat /\ Cardinality(Upto(n)) \in Nat
  BY <1>1, <1>2, FS_Subset, FS_CardinalityType
<1> QED BY <1>3, <1>4 DEF Rank

\* Ranks go from 1 to the size of the set.
LEMMA RankBounds ==
  ASSUME NEW S \in SUBSET Int, IsFiniteSet(S), NEW n \in S
  PROVE  Rank(S, n) \in 1..Cardinality(S)
<1> DEFINE U == {j \in S : j <= n}
<1>1. IsFiniteSet(U) /\ Cardinality(U) <= Cardinality(S)
  BY FS_Subset
<1>2. n \in U
  OBVIOUS
<1>3. Cardinality(U) \in Nat /\ Cardinality(S) \in Nat /\ Cardinality(U) # 0
  BY <1>1, <1>2, FS_CardinalityType, FS_EmptySet
<1> QED BY <1>1, <1>3 DEF Rank

\* Every place in the order is taken by exactly one member.
LEMMA RankOnce ==
  ASSUME NEW S \in SUBSET Int, IsFiniteSet(S)
  PROVE  /\ Cardinality(S) \in Nat
         /\ \A i \in 1..Cardinality(S) : \E n \in S : Rank(S, n) = i
         /\ \A m, n \in S : Rank(S, m) = Rank(S, n) => m = n
<1> DEFINE T == 1..Cardinality(S)
           rank == [n \in S |-> Rank(S, n)]
<1>1. Cardinality(S) \in Nat
  BY FS_CardinalityType
<1>2. \A m, n \in S : Rank(S, m) \in Int /\ (m < n => Rank(S, m) < Rank(S, n))
  BY <1>1, RankIncreases, RankBounds
<1>3. \A m, n \in S : Rank(S, m) = Rank(S, n) => m = n
  BY <1>2
<1>4. rank \in [S -> T]
  BY RankBounds
<1>5. rank \in Injection(S, T)
  BY <1>3, <1>4 DEF Injection, IsInjective
<1>6. IsFiniteSet(T) /\ Cardinality(T) = Cardinality(S)
  BY <1>1, FS_Interval
<1>7. rank \in Surjection(S, T)
  BY <1>5, <1>6, FS_Injection
<1> QED BY <1>1, <1>3, <1>7 DEF Surjection

\* There is a largest member.
LEMMA MaxIsMember ==
  ASSUME NEW S \in SUBSET Int, IsFiniteSet(S), S # {}
  PROVE  Max(S) \in S /\ \A m \in S : Max(S) >= m
<1>1. Cardinality(S) \in Nat /\ Cardinality(S) # 0
  BY FS_CardinalityType, FS_EmptySet
<1>2. PICK n \in S : Rank(S, n) = Cardinality(S)
  BY <1>1, RankOnce
<1>3. ASSUME NEW m \in S
      PROVE  n >= m
  <2>1. ~(n < m)
    <3> SUFFICES ASSUME n < m PROVE FALSE
      OBVIOUS
    <3>1. Rank(S, n) < Rank(S, m) /\ Rank(S, m) \in 1..Cardinality(S)
      BY RankIncreases, RankBounds
    <3> QED BY <1>1, <1>2, <3>1
  <2> QED BY <2>1
<1> QED BY <1>3 DEF Max

\* Sorted lists the whole set, in increasing order.
LEMMA SortedEnumerates ==
  ASSUME NEW S \in SUBSET Int, IsFiniteSet(S)
  PROVE  /\ Sorted(S) \in Seq(S)
         /\ Cardinality(S) \in Nat
         /\ Len(Sorted(S)) = Cardinality(S)
         /\ DOMAIN Sorted(S) = 1..Cardinality(S)
         /\ \A n \in S : \E i \in 1..Cardinality(S) : Sorted(S)[i] = n
         /\ \A i, j \in 1..Cardinality(S) : i < j => Sorted(S)[i] < Sorted(S)[j]
<1> DEFINE T == 1..Cardinality(S)
<1>1. Cardinality(S) \in Nat
  BY FS_CardinalityType
<1>2. \A i \in T : Sorted(S)[i] \in S /\ Rank(S, Sorted(S)[i]) = i
  BY RankOnce DEF Sorted
<1>3. Sorted(S) \in [T -> S]
  BY <1>2 DEF Sorted
<1>4. Sorted(S) \in Seq(S) /\ Len(Sorted(S)) = Cardinality(S) /\ DOMAIN Sorted(S) = T
  BY <1>1, <1>3
<1>5. ASSUME NEW n \in S
      PROVE  \E i \in T : Sorted(S)[i] = n
  <2>1. Rank(S, n) \in T
    BY RankBounds
  <2> DEFINE k == Sorted(S)[Rank(S, n)]
  <2>2. k \in S /\ Rank(S, k) = Rank(S, n)
    BY <1>2, <2>1
  <2> HIDE DEF k
  <2>3. k = n
    BY <2>2, RankOnce
  <2> QED BY <2>1, <2>3 DEF k
<1>6. ASSUME NEW i \in T, NEW j \in T, i < j
      PROVE  Sorted(S)[i] < Sorted(S)[j]
  <2> DEFINE m == Sorted(S)[i]
             n == Sorted(S)[j]
  <2>1. m \in S /\ n \in S /\ Rank(S, m) = i /\ Rank(S, n) = j
    BY <1>2, <1>6
  <2> HIDE DEF m, n
  <2>2. m \in Int /\ n \in Int /\ i \in Int /\ j \in Int
    BY <1>1, <2>1
  <2>3. ~(n < m)
    BY <1>6, <2>1, <2>2, RankIncreases
  <2>4. m # n
    BY <1>6, <2>1, <2>2
  <2>5. m < n
    BY <2>2, <2>3, <2>4
  <2> QED BY <2>5 DEF m, n
<1> QED BY <1>1, <1>4, <1>5, <1>6

-----------------------------------------------------------------------------
(* flattenCells, client.go:626-640. *)

\* An iteration order lists every id, and there is one.
LEMMA OrdersList ==
  ASSUME NEW S, IsFiniteSet(S)
  PROVE  /\ SetToSeqs(S) # {}
         /\ \A order \in SetToSeqs(S) : ToSet(order) = S
<1> DEFINE D == 1..Cardinality(S)
<1>1. Cardinality(S) \in Nat /\ ExistsBijection(D, S)
  BY FS_CardinalityType
<1>2. IsFiniteSet(D) /\ Cardinality(D) = Cardinality(S)
  BY <1>1, FS_Interval
<1>3. SetToSeqs(S) # {}
  BY <1>1 DEF ExistsBijection, Bijection, Injection, IsInjective, SetToSeqs
<1>4. ASSUME NEW order \in SetToSeqs(S)
      PROVE  ToSet(order) = S
  <2>1. order \in Injection(D, S)
    BY DEF SetToSeqs, Injection, IsInjective
  <2>2. order \in Surjection(D, S)
    BY <1>2, <2>1, FS_Injection
  <2> QED BY <2>2 DEF Surjection, ToSet
<1> QED BY <1>3, <1>4

\* The one array of a map.
WireArray(cells) ==
  Pairwise(Sorted(DOMAIN cells), ValuesOf(Sorted(DOMAIN cells), cells))

LEMMA FlattenIsWireArray ==
  ASSUME NEW cells, IsFiniteSet(DOMAIN cells), NEW order \in RangeOrders(cells)
  PROVE  FlattenCells(cells, order) = WireArray(cells)
<1>1. ToSet(order) = DOMAIN cells
  BY OrdersList DEF RangeOrders
<1> QED BY <1>1 DEF FlattenCells, WireArray

\* Where the i-th id and its value stand.
LEMMA WireArrayPairs ==
  ASSUME NEW cells, IsCells(cells)
  PROVE  LET ids == Sorted(DOMAIN cells)
             n == Cardinality(DOMAIN cells)
             flat == WireArray(cells)
         IN  /\ n \in Nat
             /\ Len(flat) = 2 * n
             /\ \A i \in 1..n : flat[2 * i - 1] = ids[i] /\ flat[2 * i] = cells[ids[i]]
<1> DEFINE ids == Sorted(DOMAIN cells)
           n == Cardinality(DOMAIN cells)
           flat == WireArray(cells)
           entry(i) == IF i % 2 = 1 THEN ids[(i + 1) \div 2] ELSE cells[ids[i \div 2]]
<1>1. n \in Nat /\ Len(ids) = n /\ DOMAIN ids = 1..n
  BY SortedEnumerates DEF IsCells
<1> HIDE DEF ids, n
<1>2. flat = [i \in 1..(2 * n) |-> IF i % 2 = 1 THEN ids[(i + 1) \div 2] 
                                 ELSE ValuesOf(ids, cells)[i \div 2]]
  BY <1>1 DEF WireArray, Pairwise, ids
<1>3. \A i \in 1..(2 * n) : i % 2 # 1 => i \div 2 \in 1..n
  BY <1>1
<1>4. flat = [i \in 1..(2 * n) |-> entry(i)]
  BY <1>1, <1>2, <1>3 DEF ValuesOf
<1> HIDE DEF flat
<1>5. Len(flat) = 2 * n
  <2> DEFINE R == {entry(i) : i \in 1..(2 * n)}
  <2>1. flat \in [1..(2 * n) -> R]
    BY <1>4
  <2> HIDE DEF R
  <2> QED BY <1>1, <2>1
<1>6. ASSUME NEW i \in 1..n
      PROVE  flat[2 * i - 1] = ids[i] /\ flat[2 * i] = cells[ids[i]]
  <2>1. /\ 2 * i - 1 \in 1..(2 * n) /\ 2 * i \in 1..(2 * n)
        /\ (2 * i - 1) % 2 = 1 /\ (2 * i) % 2 = 0
        /\ ((2 * i - 1) + 1) \div 2 = i /\ (2 * i) \div 2 = i
    BY <1>1
  <2> QED BY <1>4, <2>1
<1> QED BY <1>1, <1>5, <1>6 DEF flat, ids, n

\* Read back, the array is the map: nothing is lost, added or moved to another
\* column.
LEMMA WireArrayReadsBack ==
  ASSUME NEW cells, IsCells(cells)
  PROVE  /\ Len(WireArray(cells)) = 2 * Cardinality(DOMAIN cells)
         /\ PairsOf(WireArray(cells)) = {<<id, cells[id]>> : id \in DOMAIN cells}
<1> DEFINE S == DOMAIN cells
           n == Cardinality(S)
           ids == Sorted(S)
           flat == WireArray(cells)
<1>1. /\ n \in Nat /\ Len(flat) = 2 * n
      /\ \A i \in 1..n : flat[2 * i - 1] = ids[i] /\ flat[2 * i] = cells[ids[i]]
  BY WireArrayPairs
<1>2. /\ \A id \in S : \E i \in 1..n : ids[i] = id
      /\ \A i \in 1..n : ids[i] \in S
  <2>1. /\ ids \in Seq(S) /\ DOMAIN ids = 1..n /\ Len(ids) = n
        /\ \A id \in S : \E i \in 1..n : ids[i] = id
    BY SortedEnumerates DEF IsCells
  <2> HIDE DEF ids, n, S
  <2> QED BY <2>1
<1> HIDE DEF S, n, ids, flat
<1>3. Len(flat) \div 2 = n
  BY <1>1
<1>4. PairsOf(flat) = {<<ids[i], cells[ids[i]]>> : i \in 1..n}
  BY <1>1, <1>3 DEF PairsOf
<1>5. PairsOf(flat) = {<<id, cells[id]>> : id \in S}
  BY <1>2, <1>4
<1> QED BY <1>1, <1>5 DEF S, n, flat

\* Maps of equal arrays are equal, so an array stands for one map.
LEMMA GraphDeterminesMap ==
  ASSUME NEW c, NEW d, IsCells(c), IsCells(d),
         PairsOf(WireArray(c)) = PairsOf(WireArray(d))
  PROVE  c = d
<1> DEFINE Graph(m) == {<<id, m[id]>> : id \in DOMAIN m}
<1>1. Graph(c) = Graph(d)
  BY WireArrayReadsBack
<1>2. ASSUME NEW id \in DOMAIN c PROVE id \in DOMAIN d /\ c[id] = d[id]
  <2>1. <<id, c[id]>> \in Graph(d)
    BY <1>1
  <2> QED BY <2>1
<1>3. ASSUME NEW id \in DOMAIN d PROVE id \in DOMAIN c
  <2>1. <<id, d[id]>> \in Graph(c)
    BY <1>1
  <2> QED BY <2>1
<1>4. DOMAIN c = DOMAIN d
  BY <1>2, <1>3
<1> QED BY <1>2, <1>4 DEF IsCells

-----------------------------------------------------------------------------
\* A set of numbers with 0 and every successor is Nat: otherwise a number is
\* missing, and among those at and below it that are, a least one.
LEMMA SetInduction ==
  ASSUME NEW S \in SUBSET Nat, 0 \in S, \A n \in S : n + 1 \in S
  PROVE  S = Nat
<1> SUFFICES ASSUME NEW n \in Nat, n \notin S PROVE FALSE
  OBVIOUS
<1> DEFINE U == {k \in 0..n : n - k \notin S}
<1>1. U \in SUBSET Int /\ IsFiniteSet(U) /\ 0 \in U
  <2>1. U \in SUBSET (0..n) /\ IsFiniteSet(0..n)
    BY FS_Interval
  <2>2. 0 \in U /\ 0..n \subseteq Int
    OBVIOUS
  <2> HIDE DEF U
  <2> QED BY <2>1, <2>2, FS_Subset
<1>2. PICK k \in U : \A m \in U : k >= m
  <2> HIDE DEF U
  <2> QED BY <1>1, MaxIsMember
<1>3. n - k \notin S /\ n - k \in Nat /\ n - k # 0
  BY <1>2
<1>4. k + 1 \in 0..n /\ n - (k + 1) \in Nat /\ k + 1 \notin U
  BY <1>2, <1>3
<1>5. n - (k + 1) \in S
  BY <1>4
<1>6. (n - (k + 1)) + 1 \in S
  BY <1>5
<1> QED BY <1>3, <1>4, <1>6

\* F flattens the first n sequences.
Flattening(F, n, seqs) ==
  /\ F[1] = seqs[1]
  /\ \A i \in 2..n : F[i] = F[i - 1] \o seqs[i]

\* FlattenSeq is the last of those.
LEMMA Flattens ==
  ASSUME NEW S, NEW seqs \in Seq(Seq(S)), Len(seqs) # 0
  PROVE  \E F \in [1..Len(seqs) -> Seq(S)] :
           Flattening(F, Len(seqs), seqs) /\ FlattenSeq(seqs) = F[Len(seqs)]
<1> DEFINE n == Len(seqs)
           Step(F) == [i \in 1..n |-> IF i = 1 THEN seqs[i] ELSE F[i - 1] \o seqs[i]]
           G == CHOOSE F : F = Step(F)
<1>1. FlattenSeq(seqs) = G[n]
  BY Z3 DEF FlattenSeq
<1>2. n \in Nat /\ n >= 1 /\ \A i \in 1..n : seqs[i] \in Seq(S)
  OBVIOUS
<1> HIDE DEF n, G
<1>3. \E F \in [1..n -> Seq(S)] : Flattening(F, n, seqs)
  <2> DEFINE K == {k \in Nat : k + 1 <= n => \E F \in [1..(k + 1) -> Seq(S)] : Flattening(F, k + 1, seqs)}
  <2>1. 0 \in K
    <3> DEFINE F == [i \in 1..1 |-> seqs[1]]
    <3>1. F \in [1..(0 + 1) -> Seq(S)] /\ Flattening(F, 0 + 1, seqs)
      BY <1>2 DEF Flattening
    <3> QED BY <3>1
  <2>2. ASSUME NEW k \in K PROVE k + 1 \in K
    <3>1. SUFFICES ASSUME (k + 1) + 1 <= n
                   PROVE  \E F \in [1..((k + 1) + 1) -> Seq(S)] : Flattening(F, (k + 1) + 1, seqs)
      OBVIOUS
    <3>2. k \in Nat
      OBVIOUS
    <3>3. PICK F \in [1..(k + 1) -> Seq(S)] : Flattening(F, k + 1, seqs)
      BY <1>2, <3>1
    <3> HIDE DEF K
    <3> DEFINE H == [i \in 1..(k + 2) |-> IF i = k + 2 THEN F[k + 1] \o seqs[k + 2] ELSE F[i]]
    <3>4. F[k + 1] \in Seq(S) /\ seqs[k + 2] \in Seq(S) /\ F[k + 1] \o seqs[k + 2] \in Seq(S)
      BY <1>2, <3>1, <3>2, <3>3
    <3>5. H \in [1..(k + 2) -> Seq(S)]
      BY <3>2, <3>3, <3>4
    <3>6. Flattening(H, k + 2, seqs)
      <4>1. H[1] = seqs[1]
        BY <3>2, <3>3 DEF Flattening
      <4>2. ASSUME NEW i \in 2..(k + 2)
            PROVE  H[i] = H[i - 1] \o seqs[i]
        <5>1. CASE i = k + 2
          <6>1. i - 1 = k + 1 /\ k + 1 \in 1..(k + 2) /\ k + 1 # k + 2 /\ k + 2 \in 1..(k + 2)
            BY <3>2, <5>1
          <6>2. H[k + 1] = F[k + 1] /\ H[k + 2] = F[k + 1] \o seqs[k + 2]
            BY <6>1
          <6> HIDE DEF H
          <6> QED BY <5>1, <6>1, <6>2
        <5>2. CASE i # k + 2
          <6>1. i \in 2..(k + 1) /\ i - 1 \in 1..(k + 2) /\ i - 1 # k + 2
            BY <3>2, <5>2
          <6>2. H[i] = F[i] /\ H[i - 1] = F[i - 1]
            BY <5>2, <6>1
          <6> QED BY <3>3, <6>1, <6>2 DEF Flattening
        <5> QED BY <5>1, <5>2
      <4> QED BY <4>1, <4>2 DEF Flattening
    <3>7. (k + 1) + 1 = k + 2
      BY <3>2
    <3> HIDE DEF H
    <3> QED BY <3>5, <3>6, <3>7
  <2>3. K = Nat
    <3> HIDE DEF K
    <3>1. K \in SUBSET Nat
      BY DEF K
    <3> QED BY <2>1, <2>2, <3>1, SetInduction
  <2>4. n - 1 \in Nat /\ (n - 1) + 1 = n
    BY <1>2
  <2>5. n - 1 \in K
    <3> HIDE DEF K
    <3> QED BY <2>3, <2>4
  <2> QED BY <2>4, <2>5
<1>4. G = Step(G)
  <2>1. PICK F \in [1..n -> Seq(S)] : Flattening(F, n, seqs)
    BY <1>3
  <2>2. ASSUME NEW i \in 1..n
        PROVE  F[i] = IF i = 1 THEN seqs[i] ELSE F[i - 1] \o seqs[i]
    <3>1. i = 1 \/ i \in 2..n
      BY <1>2
    <3>2. F[1] = seqs[1] /\ \A k \in 2..n : F[k] = F[k - 1] \o seqs[k]
      BY <2>1 DEF Flattening
    <3> QED BY <3>1, <3>2
  <2>3. F = Step(F)
    BY <2>1, <2>2
  <2> QED BY <2>3 DEF G
<1>5. Flattening(G, n, seqs)
  <2>1. 1 \in 1..n /\ \A i \in 2..n : i \in 1..n /\ i # 1
    BY <1>2
  <2>2. \A i \in 1..n : G[i] = IF i = 1 THEN seqs[i] ELSE G[i - 1] \o seqs[i]
    BY <1>4
  <2> QED BY <2>1, <2>2 DEF Flattening
<1>6. G \in [1..n -> Seq(S)]
  <2> DEFINE K == {k \in Nat : k + 1 <= n => G[k + 1] \in Seq(S)}
  <2>1. 0 \in K
    BY <1>2, <1>5 DEF Flattening
  <2>2. ASSUME NEW k \in K PROVE k + 1 \in K
    <3> SUFFICES ASSUME (k + 1) + 1 <= n PROVE G[(k + 1) + 1] \in Seq(S)
      OBVIOUS
    <3>1. k \in Nat /\ G[k + 1] \in Seq(S) /\ seqs[k + 2] \in Seq(S)
      BY <1>2
    <3>2. k + 2 \in 2..n /\ (k + 2) - 1 = k + 1 /\ (k + 1) + 1 = k + 2
      BY <1>2, <3>1
    <3>3. G[k + 2] = G[k + 1] \o seqs[k + 2]
      BY <1>5, <3>2 DEF Flattening
    <3>4. G[k + 1] \o seqs[k + 2] \in Seq(S)
      BY <3>1
    <3> QED BY <3>2, <3>3, <3>4
  <2>3. K = Nat
    <3> HIDE DEF K
    <3>1. K \in SUBSET Nat
      BY DEF K
    <3> QED BY <2>1, <2>2, <3>1, SetInduction
  <2>4. ASSUME NEW i \in 1..n PROVE G[i] \in Seq(S)
    <3>1. i - 1 \in Nat /\ (i - 1) + 1 = i /\ i <= n
      BY <1>2
    <3>2. i - 1 \in K
      <4> HIDE DEF K
      <4> QED BY <2>3, <3>1
    <3> QED BY <3>1, <3>2
  <2> QED BY <1>4, <2>4
<1> QED BY <1>1, <1>5, <1>6 DEF n

LEMMA FlattenType ==
  ASSUME NEW S, NEW seqs \in Seq(Seq(S))
  PROVE  FlattenSeq(seqs) \in Seq(S)
<1>1. CASE Len(seqs) = 0
  <2>1. FlattenSeq(seqs) = seqs
    BY <1>1, Z3 DEF FlattenSeq
  <2>2. seqs = <<>>
    BY <1>1
  <2> QED BY <2>1, <2>2
<1>2. CASE Len(seqs) # 0
  <2>1. PICK F \in [1..Len(seqs) -> Seq(S)] : FlattenSeq(seqs) = F[Len(seqs)]
    BY <1>2, Flattens
  <2> QED BY <1>2, <2>1
<1> QED BY <1>1, <1>2

-----------------------------------------------------------------------------
\* F[i] is a sequence that begins with head[i] and goes on with what stands
\* width[i] further on; behind n there is nothing.
Backwards(F, n, head, width) ==
  F = [i \in 1..(n + 1) |-> IF i > n THEN <<>> ELSE <<head[i]>> \o F[i + width[i]]]

\* There is such a function if every width leads on and not too far, so the one
\* that is chosen is one.
LEMMA BackwardsExists ==
  ASSUME NEW n \in Nat, NEW S, NEW head \in [1..n -> S], NEW width \in [1..n -> Nat],
         \A i \in 1..n : width[i] >= 1 /\ i + width[i] <= n + 1
  PROVE  \E F \in [1..(n + 1) -> Seq(S)] : Backwards(F, n, head, width)
<1> DEFINE Entry(F, i) == IF i > n THEN <<>> ELSE <<head[i]>> \o F[i + width[i]]
           Good(F, k) == \A i \in k..(n + 1) : F[i] \in Seq(S) /\ F[i] = Entry(F, i)
           K == {k \in Nat : k <= n => \E F : Good(F, n + 1 - k)}
<1>1. 0 \in K
  <2> DEFINE F == [i \in {n + 1} |-> <<>>]
  <2>1. Good(F, n + 1 - 0)
    OBVIOUS
  <2> HIDE DEF F, Good
  <2> QED BY <2>1
<1>2. ASSUME NEW k \in K PROVE k + 1 \in K
  <2>2. k \in Nat /\ (k <= n => \E F : Good(F, n + 1 - k))
    <3> HIDE DEF Good
    <3> QED OBVIOUS
  <2> SUFFICES ASSUME k + 1 <= n PROVE \E F : Good(F, n + 1 - (k + 1))
    <3> HIDE DEF Good
    <3> QED BY <2>2
  <2>1. PICK F : Good(F, n + 1 - k)
    <3> HIDE DEF Good, K
    <3> QED BY <2>2
  <2> DEFINE m == n - k
             H == [i \in m..(n + 1) |-> IF i = m THEN Entry(F, m) ELSE F[i]]
  <2>3. m \in 1..n /\ n + 1 - k = m + 1 /\ n + 1 - (k + 1) = m
    BY <2>2
  <2> HIDE DEF m, K
  <2>4. m + width[m] \in (m + 1)..(n + 1) /\ width[m] \in Nat /\ m \in Nat
    BY <2>3
  <2>5. Entry(F, m) \in Seq(S)
    <3>1. F[m + width[m]] \in Seq(S)
      BY <2>1, <2>3, <2>4
    <3>2. <<head[m]>> \in Seq(S)
      BY <2>3
    <3>3. <<head[m]>> \o F[m + width[m]] \in Seq(S)
      BY <3>1, <3>2, ConcatProperties
    <3> QED BY <2>3, <3>3
  <2>6. \A i \in m..(n + 1) : H[i] = IF i = m THEN Entry(F, m) ELSE F[i]
    OBVIOUS
  <2> HIDE DEF H
  <2>7. ASSUME NEW i \in m..(n + 1)
        PROVE  H[i] \in Seq(S) /\ H[i] = Entry(H, i)
    <3>1. CASE i = m
      <4>1. m + width[m] \in m..(n + 1) /\ m + width[m] # m
        BY <2>3, <2>4
      <4>2. H[m + width[m]] = F[m + width[m]]
        BY <2>6, <4>1
      <4> QED BY <2>5, <2>6, <3>1, <4>2
    <3>2. CASE i # m
      <4>1. i \in (m + 1)..(n + 1)
        BY <2>3, <3>2
      <4>2. F[i] \in Seq(S) /\ F[i] = Entry(F, i)
        BY <2>1, <2>3, <4>1
      <4>3. ASSUME ~(i > n)
            PROVE  H[i + width[i]] = F[i + width[i]]
        <5>1. i \in 1..n
          BY <2>3, <4>1, <4>3
        <5>2. i + width[i] \in m..(n + 1) /\ i + width[i] # m
          BY <2>3, <4>1, <5>1
        <5> QED BY <2>6, <5>2
      <4> QED BY <2>6, <3>2, <4>2, <4>3
    <3> QED BY <3>1, <3>2
  <2> QED BY <2>3, <2>7
<1>3. K = Nat
  <2> HIDE DEF K
  <2>1. K \in SUBSET Nat
    BY DEF K
  <2> QED BY <1>1, <1>2, <2>1, SetInduction
<1>4. PICK F : Good(F, 1)
  <2>1. n \in K
    <3> HIDE DEF K
    <3> QED BY <1>3
  <2>2. n + 1 - n = 1 /\ n <= n
    OBVIOUS
  <2> HIDE DEF Good
  <2>3. \E F : Good(F, n + 1 - n)
    BY <2>1, <2>2
  <2> QED BY <2>2, <2>3
<1> DEFINE G == [i \in 1..(n + 1) |-> F[i]]
<1>5. ASSUME NEW i \in 1..(n + 1) PROVE G[i] = Entry(G, i)
  <2>1. F[i] = Entry(F, i)
    BY <1>4
  <2>2. ASSUME ~(i > n) PROVE i + width[i] \in 1..(n + 1)
    <3>1. i \in 1..n /\ width[i] \in Nat
      BY <2>2
    <3> QED BY <3>1
  <2> QED BY <2>1, <2>2
<1>6. G \in [1..(n + 1) -> Seq(S)]
  BY <1>4
<1>7. G = [i \in 1..(n + 1) |-> Entry(G, i)]
  <2>1. \A i \in 1..(n + 1) : G[i] = Entry(G, i)
    BY <1>5
  <2>2. G = [i \in 1..(n + 1) |-> G[i]]
    OBVIOUS
  <2> HIDE DEF G
  <2> QED BY <2>1, <2>2
<1> HIDE DEF G
<1> QED BY <1>6, <1>7 DEF Backwards

LEMMA BackwardsType ==
  ASSUME NEW n \in Nat, NEW S, NEW head \in [1..n -> S], NEW width \in [1..n -> Nat],
         \A i \in 1..n : width[i] >= 1 /\ i + width[i] <= n + 1,
         NEW F, Backwards(F, n, head, width)
  PROVE  F[1] \in Seq(S)
<1>1. \A i \in 1..(n + 1) : F[i] = IF i > n THEN <<>> ELSE <<head[i]>> \o F[i + width[i]]
  BY DEF Backwards
<1> DEFINE Typed(k) == \A i \in k..(n + 1) : F[i] \in Seq(S)
           K == {k \in Nat : k <= n => Typed(n + 1 - k)}
<1>2. 0 \in K
  <2>1. n + 1 \in 1..(n + 1) /\ n + 1 > n
    OBVIOUS
  <2>2. F[n + 1] = <<>>
    BY <1>1, <2>1
  <2>3. Typed(n + 1 - 0)
    <3>1. \A i \in (n + 1 - 0)..(n + 1) : i = n + 1
      OBVIOUS
    <3>2. <<>> \in Seq(S)
      OBVIOUS
    <3> QED BY <2>2, <3>1, <3>2
  <2> HIDE DEF Typed
  <2> QED BY <2>3
<1>3. ASSUME NEW k \in K PROVE k + 1 \in K
  <2>1. k \in Nat
    OBVIOUS
  <2> SUFFICES ASSUME k + 1 <= n, NEW i \in (n + 1 - (k + 1))..(n + 1) PROVE F[i] \in Seq(S)
    BY <2>1
  <2>2. \A j \in (n + 1 - k)..(n + 1) : F[j] \in Seq(S)
    BY <2>1
  <2> HIDE DEF K
  <2>3. CASE i \in (n + 1 - k)..(n + 1)
    BY <2>2, <2>3
  <2>4. CASE i \notin (n + 1 - k)..(n + 1)
    <3>1. i \in 1..n /\ i + width[i] \in (n + 1 - k)..(n + 1)
      BY <2>1, <2>4
    <3>2. F[i + width[i]] \in Seq(S) /\ <<head[i]>> \in Seq(S)
      BY <2>2, <3>1
    <3>3. <<head[i]>> \o F[i + width[i]] \in Seq(S)
      BY <3>2, ConcatProperties
    <3>4. i \in 1..(n + 1) /\ ~(i > n)
      BY <3>1
    <3> QED BY <1>1, <3>3, <3>4
  <2> QED BY <2>3, <2>4
<1>4. K = Nat
  <2> HIDE DEF K
  <2>1. K \in SUBSET Nat
    BY DEF K
  <2> QED BY <1>2, <1>3, <2>1, SetInduction
<1>5. n \in K
  <2> HIDE DEF K
  <2> QED BY <1>4
<1>6. n + 1 - n = 1 /\ 1 \in 1..(n + 1)
  OBVIOUS
<1> QED BY <1>5, <1>6
=============================================================================
