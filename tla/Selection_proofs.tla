----------------------------- MODULE Selection_proofs -----------------------------
(***************************************************************************)
(* What sorting and picking return, for every finite set, every strict     *)
(* total order and every sequence.                                         *)
(***************************************************************************)
EXTENDS Selection, Integers, Sequences, FiniteSetTheorems, FunctionTheorems, TLAPS

StrictOrder(S, precedes) ==
    /\ \A x \in S : <<x, x>> \notin precedes
    /\ \A x, y, z \in S : <<x, y>> \in precedes /\ <<y, z>> \in precedes => <<x, z>> \in precedes
    /\ \A x, y \in S : x = y \/ <<x, y>> \in precedes \/ <<y, x>> \in precedes

(* Fewer elements come before one that comes before another.               *)
LEMMA RankGrows ==
    ASSUME NEW S, IsFiniteSet(S), NEW precedes, StrictOrder(S, precedes), NEW x \in S
    PROVE  /\ Cardinality(Before(S, precedes, x)) \in 0..(Cardinality(S) - 1)
           /\ \A y \in S : <<y, x>> \in precedes =>
                 Cardinality(Before(S, precedes, y)) < Cardinality(Before(S, precedes, x))
<1>1. x \notin Before(S, precedes, x) /\ Before(S, precedes, x) \in SUBSET S
  BY DEF Before, StrictOrder
<1>2. /\ IsFiniteSet(Before(S, precedes, x))
      /\ Cardinality(Before(S, precedes, x)) <= Cardinality(S)
      /\ Cardinality(Before(S, precedes, x)) # Cardinality(S)
  <2>1. Before(S, precedes, x) # S
    BY <1>1
  <2>2. QED
    BY <1>1, <2>1, FS_Subset
<1>3. Cardinality(S) \in Nat /\ Cardinality(Before(S, precedes, x)) \in Nat
  BY <1>2, FS_CardinalityType
<1>4. ASSUME NEW y \in S, <<y, x>> \in precedes
      PROVE  Cardinality(Before(S, precedes, y)) < Cardinality(Before(S, precedes, x))
  <2>1. Before(S, precedes, y) \in SUBSET Before(S, precedes, x)
    BY <1>4 DEF Before, StrictOrder
  <2>2. y \in Before(S, precedes, x) /\ y \notin Before(S, precedes, y)
    BY <1>4 DEF Before, StrictOrder
  <2>3. /\ IsFiniteSet(Before(S, precedes, y))
        /\ Cardinality(Before(S, precedes, y)) <= Cardinality(Before(S, precedes, x))
        /\ Cardinality(Before(S, precedes, y)) # Cardinality(Before(S, precedes, x))
    BY <1>2, <2>1, <2>2, FS_Subset
  <2>4. Cardinality(Before(S, precedes, y)) \in Nat
    BY <2>3, FS_CardinalityType
  <2>5. QED
    BY <1>3, <2>3, <2>4
<1>5. QED
  BY <1>2, <1>3, <1>4

(* sorted() lists every element once, each after those that precede it.    *)
THEOREM InOrderSorts ==
    ASSUME NEW S, IsFiniteSet(S), NEW precedes, StrictOrder(S, precedes)
    PROVE  LET order == InOrder(S, precedes)
           IN  /\ Cardinality(S) \in Nat
               /\ order \in [1..Cardinality(S) -> S]
               /\ \A x \in S : \E k \in 1..Cardinality(S) : order[k] = x
               /\ \A j, k \in 1..Cardinality(S) : j < k => <<order[j], order[k]>> \in precedes
<1> DEFINE n     == Cardinality(S)
           order == InOrder(S, precedes)
           rank  == [x \in S |-> Cardinality(Before(S, precedes, x)) + 1]
<1>1. n \in Nat
  BY FS_CardinalityType
<1>2. rank \in [S -> 1..n]
  <2>1. \A x \in S : Cardinality(Before(S, precedes, x)) + 1 \in 1..n
    BY <1>1, RankGrows
  <2>2. QED
    BY <2>1
<1>3. ASSUME NEW x \in S, NEW y \in S, rank[x] = rank[y] PROVE x = y
  <2>1. \A u \in S : Cardinality(Before(S, precedes, u)) \in Int
    BY <1>1, RankGrows
  <2>2. Cardinality(Before(S, precedes, x)) = Cardinality(Before(S, precedes, y))
    BY <1>3, <2>1
  <2>3. <<x, y>> \notin precedes /\ <<y, x>> \notin precedes
    BY <2>1, <2>2, RankGrows
  <2>4. QED
    BY <2>3 DEF StrictOrder
<1>4. \A k \in 1..n : \E x \in S : rank[x] = k
  <2> HIDE DEF rank
  <2>1. rank \in Injection(S, 1..n)
    BY <1>2, <1>3 DEF Injection, IsInjective
  <2>2. IsFiniteSet(1..n) /\ Cardinality(1..n) = n
    BY <1>1, FS_Interval
  <2>3. rank \in Surjection(S, 1..n)
    BY <2>1, <2>2, FS_Injection
  <2>4. QED
    BY <2>3 DEF Surjection
<1>5. ASSUME NEW k \in 1..n
      PROVE  order[k] \in S /\ rank[order[k]] = k
  <2>1. \E x \in S : Cardinality(Before(S, precedes, x)) = k - 1
    <3>1. PICK x \in S : rank[x] = k
      BY <1>4
    <3>2. Cardinality(Before(S, precedes, x)) \in Int
      BY <1>1, RankGrows
    <3>3. QED
      BY <3>1, <3>2
  <2>2. order[k] = CHOOSE x \in S : Cardinality(Before(S, precedes, x)) = k - 1
    BY DEF InOrder
  <2>3. order[k] \in S /\ Cardinality(Before(S, precedes, order[k])) = k - 1
    BY <2>1, <2>2
  <2>4. QED
    BY <1>1, <2>3
<1>6. order \in [1..n -> S]
  BY <1>5 DEF InOrder
<1>7. \A x \in S, y \in S : <<y, x>> \in precedes => rank[y] < rank[x]
  <2>1. \A u \in S : Cardinality(Before(S, precedes, u)) \in Int
    BY <1>1, RankGrows
  <2>2. QED
    BY <2>1, RankGrows
<1> HIDE DEF rank, order, n
<1>8. \A x \in S : \E k \in 1..n : order[k] = x
  BY <1>2, <1>3, <1>5
<1>9. ASSUME NEW j \in 1..n, NEW k \in 1..n, j < k PROVE <<order[j], order[k]>> \in precedes
  <2>1. order[j] \in S /\ order[k] \in S /\ rank[order[j]] = j /\ rank[order[k]] = k /\ j # k
    BY <1>1, <1>5, <1>9
  <2>2. ~(rank[order[k]] < rank[order[j]])
    BY <1>1, <1>9, <2>1
  <2>3. QED
    BY <1>7, <2>1, <2>2 DEF StrictOrder
<1>10. QED
  BY <1>1, <1>6, <1>8, <1>9 DEF order, n

(* Numbers are sorted upwards.                                             *)
LEMMA AscendingSorts ==
    ASSUME NEW numbers \in SUBSET Nat, IsFiniteSet(numbers)
    PROVE  LET order == Ascending(numbers)
           IN  /\ Cardinality(numbers) \in Nat
               /\ order \in [1..Cardinality(numbers) -> numbers]
               /\ \A x \in numbers : \E k \in 1..Cardinality(numbers) : order[k] = x
               /\ \A j, k \in 1..Cardinality(numbers) : j < k => order[j] < order[k]
<1> DEFINE less == {p \in numbers \X numbers : p[1] < p[2]}
<1>1. \A x, y \in numbers : <<x, y>> \in less <=> x < y
  OBVIOUS
<1>2. \A x \in numbers : <<x, x>> \notin less
  BY <1>1
<1>3. \A x, y, z \in numbers : <<x, y>> \in less /\ <<y, z>> \in less => <<x, z>> \in less
  BY <1>1
<1>4. \A x, y \in numbers : x = y \/ <<x, y>> \in less \/ <<y, x>> \in less
  <2>1. \A x, y \in numbers : x = y \/ x < y \/ y < x
    OBVIOUS
  <2>2. QED
    BY <1>1, <2>1
<1> HIDE DEF less
<1>5. StrictOrder(numbers, less)
  BY <1>2, <1>3, <1>4 DEF StrictOrder
<1>6. Ascending(numbers) = InOrder(numbers, less)
  BY DEF Ascending, less
<1> DEFINE order == Ascending(numbers)
           n     == Cardinality(numbers)
<1>7. /\ n \in Nat /\ order \in [1..n -> numbers]
      /\ \A x \in numbers : \E k \in 1..n : order[k] = x
      /\ \A j, k \in 1..n : j < k => <<order[j], order[k]>> \in less
  BY <1>5, <1>6, InOrderSorts
<1> HIDE DEF order, n
<1>8. \A j, k \in 1..n : j < k => order[j] < order[k]
  BY <1>1, <1>7
<1>9. QED
  BY <1>7, <1>8 DEF order, n

(* A finite set of numbers has a greatest one.                             *)
LEMMA Greatest ==
    ASSUME NEW numbers \in SUBSET Nat, IsFiniteSet(numbers), numbers # {}
    PROVE  \E m \in numbers : \A x \in numbers : x <= m
<1> DEFINE n     == Cardinality(numbers)
           order == Ascending(numbers)
<1>1. n \in Nat \ {0}
  BY FS_EmptySet, FS_CardinalityType
<1>2. /\ order \in [1..n -> numbers]
      /\ \A x \in numbers : \E k \in 1..n : order[k] = x
      /\ \A j, k \in 1..n : j < k => order[j] < order[k]
  BY AscendingSorts
<1> HIDE DEF n, order
<1>3. n \in 1..n /\ order[n] \in numbers
  BY <1>1, <1>2
<1>4. ASSUME NEW x \in numbers PROVE x <= order[n]
  <2>1. PICK k \in 1..n : order[k] = x
    BY <1>2
  <2>2. k = n \/ k < n
    BY <1>1
  <2>3. order[n] \in Nat /\ x \in Nat
    BY <1>3
  <2>4. QED
    BY <1>2, <1>3, <2>1, <2>2, <2>3
<1>5. QED
  BY <1>3, <1>4

(* [s[i] for i in positions] has an item for each position, in order.      *)
THEOREM PickedInOrder ==
    ASSUME NEW T, NEW s \in Seq(T), NEW positions \in SUBSET DOMAIN s
    PROVE  /\ Cardinality(positions) \in Nat
           /\ Picked(s, positions) \in Seq(T)
           /\ Len(Picked(s, positions)) = Cardinality(positions)
           /\ \E at \in [1..Cardinality(positions) -> positions] :
                 /\ \A i \in positions : \E k \in 1..Cardinality(positions) : at[k] = i
                 /\ \A j, k \in 1..Cardinality(positions) : j < k => at[j] < at[k]
                 /\ \A k \in 1..Cardinality(positions) : Picked(s, positions)[k] = s[at[k]]
<1> DEFINE n     == Cardinality(positions)
           order == Ascending(positions)
<1>1. positions \in SUBSET Nat /\ IsFiniteSet(positions)
  <2>1. DOMAIN s = 1..Len(s) /\ Len(s) \in Nat
    OBVIOUS
  <2>2. IsFiniteSet(1..Len(s))
    BY <2>1, FS_Interval
  <2>3. QED
    BY <2>1, <2>2, FS_Subset
<1>2. /\ n \in Nat /\ order \in [1..n -> positions]
      /\ \A i \in positions : \E k \in 1..n : order[k] = i
      /\ \A j, k \in 1..n : j < k => order[j] < order[k]
  BY <1>1, AscendingSorts
<1> HIDE DEF n, order
<1>3. Picked(s, positions) = [k \in 1..n |-> s[order[k]]]
  BY <1>2 DEF Picked, order
<1>4. \A k \in 1..n : s[order[k]] \in T
  BY <1>2
<1>5. Picked(s, positions) \in [1..n -> T]
  BY <1>3, <1>4
<1>6. Picked(s, positions) \in Seq(T) /\ Len(Picked(s, positions)) = n
  BY <1>2, <1>5
<1>7. \A k \in 1..n : Picked(s, positions)[k] = s[order[k]]
  BY <1>3
<1>8. QED
  BY <1>2, <1>6, <1>7 DEF n

(* What is picked is what stands at the positions, nothing for no position. *)
LEMMA PickedItems ==
    ASSUME NEW T, NEW s \in Seq(T), NEW positions \in SUBSET DOMAIN s
    PROVE  /\ Picked(s, positions) \in Seq(T)
           /\ \A k \in DOMAIN Picked(s, positions) : \E i \in positions : Picked(s, positions)[k] = s[i]
           /\ \A i \in positions : \E k \in DOMAIN Picked(s, positions) : Picked(s, positions)[k] = s[i]
           /\ Picked(s, positions) = <<>> <=> positions = {}
<1> DEFINE n == Cardinality(positions)
<1>1. n \in Nat /\ Picked(s, positions) \in Seq(T) /\ Len(Picked(s, positions)) = n
  BY PickedInOrder
<1>2. PICK at \in [1..n -> positions] :
          /\ \A i \in positions : \E k \in 1..n : at[k] = i
          /\ \A k \in 1..n : Picked(s, positions)[k] = s[at[k]]
  BY PickedInOrder
<1> DEFINE picked == Picked(s, positions)
<1> HIDE DEF n, picked
<1>3. DOMAIN picked = 1..n
  BY <1>1 DEF picked
<1>4. picked = <<>> <=> 1..n = {}
  BY <1>1 DEF picked
<1>5. 1..n = {} <=> positions = {}
  BY <1>2
<1>6. /\ \A k \in DOMAIN picked : \E i \in positions : picked[k] = s[i]
      /\ \A i \in positions : \E k \in DOMAIN picked : picked[k] = s[i]
  <2>1. \A k \in 1..n : at[k] \in positions /\ picked[k] = s[at[k]]
    BY <1>2 DEF picked
  <2>2. QED
    BY <1>2, <1>3, <2>1
<1>7. QED
  BY <1>1, <1>4, <1>5, <1>6 DEF picked

(* Nothing at the positions is left out.                                   *)
LEMMA EachPicked ==
    ASSUME NEW T, NEW s \in Seq(T), NEW positions \in SUBSET DOMAIN s
    PROVE  \A i \in positions : \E k \in DOMAIN Picked(s, positions) : Picked(s, positions)[k] = s[i]
<1>1. /\ Picked(s, positions) \in Seq(T)
      /\ \A k \in DOMAIN Picked(s, positions) : \E i \in positions : Picked(s, positions)[k] = s[i]
      /\ \A i \in positions : \E k \in DOMAIN Picked(s, positions) : Picked(s, positions)[k] = s[i]
      /\ Picked(s, positions) = <<>> <=> positions = {}
  BY PickedItems, Zenon
<1>2. QED
  BY <1>1, Zenon
================================================================================
