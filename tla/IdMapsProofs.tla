---------------------------- MODULE IdMapsProofs ----------------------------
(* Proofs about the two id maps: the map of unique integers with the vectors  *)
(* under it, and the hash table.                                              *)
EXTENDS UniqueIntegerMap, IdToObjectMap, FiniteSetTheorems, SequenceTheorems,
        WellFoundedInduction, TLAPS

-----------------------------------------------------------------------------
(* Recursion: the theorems below reason from the least counterexample.       *)

\* A set of numbers that is not empty has a least one.
LEMMA LeastNumber ==
  ASSUME NEW Q \in SUBSET Nat, Q # {}
  PROVE  \E m \in Q : \A n \in Q : m <= n
<1> DEFINE Below == {0..n : n \in Q}
<1>1. Below \subseteq FiniteSubsetsOf(Nat)
  <2> SUFFICES ASSUME NEW n \in Q PROVE 0..n \in FiniteSubsetsOf(Nat)
    OBVIOUS
  <2>1. n \in Int /\ 0 \in Int /\ 0..n \subseteq Nat
    OBVIOUS
  <2> QED
    BY <2>1, FS_Interval DEF FiniteSubsetsOf
<1>2. IsWellFoundedOn(StrictSubsetOrdering(Nat), FiniteSubsetsOf(Nat))
  BY FS_StrictSubsetOrderingWellFounded
<1>3. Below # {}
  OBVIOUS
<1>4. PICK s \in Below : \A t \in Below : ~(<<t, s>> \in StrictSubsetOrdering(Nat))
  BY ONLY <1>1, <1>2, <1>3, WFMin
<1>5. PICK m \in Q : s = 0..m
  OBVIOUS
<1>6. ASSUME NEW n \in Q, n < m PROVE FALSE
  <2>1. 0..n \in SUBSET Nat /\ 0..m \in SUBSET Nat /\ 0..n \subseteq 0..m
    BY <1>6
  <2>2. m \in 0..m /\ m \notin 0..n
    BY <1>6
  <2>3. <<0..n, s>> \in StrictSubsetOrdering(Nat)
    BY <1>5, <2>1, <2>2 DEF StrictSubsetOrdering
  <2> QED
    BY <1>4, <2>3
<1> QED
  BY <1>6

-----------------------------------------------------------------------------
(* The binary searches.                                                       *)

KeyAt(v, k) == v.cells[k][1]

Sorted(v) ==
  /\ \A k \in 1..v.count : KeyAt(v, k) \in Nat
  /\ \A j, k \in 1..v.count : j < k => KeyAt(v, j) < KeyAt(v, k)

Ranges(v) == (0..v.count) \X (0..v.count)

LEMMA MiddleBetween ==
  ASSUME NEW min \in Nat, NEW max \in Nat, min < max
  PROVE  /\ Middle(min, max) \in Nat
         /\ min <= Middle(min, max) /\ Middle(min, max) < max
BY DEF Middle

\* A statement about ranges that holds of a range if it holds of the smaller ones
\* holds of all: Bad are those of which it does not.
LEMMA RangeInduction ==
  ASSUME NEW n \in Nat, NEW Bad \in SUBSET ((0..n) \X (0..n)),
         \A a, b \in 0..n :
           <<a, b>> \in Bad =>
             a < b /\ \E c, d \in 0..n : <<c, d>> \in Bad /\ d - c < b - a
  PROVE  Bad = {}
<1> SUFFICES ASSUME Bad # {} PROVE FALSE
  OBVIOUS
<1> DEFINE Width == {w \in Nat : \E a, b \in 0..n : <<a, b>> \in Bad /\ w = b - a}
<1>1. ASSUME NEW a \in 0..n, NEW b \in 0..n, <<a, b>> \in Bad
      PROVE  b - a \in Width
  <2>1. a < b
    BY <1>1
  <2>2. b - a \in Nat
    BY <2>1
  <2> QED
    BY <1>1, <2>2
<1>2. Width # {} /\ Width \subseteq Nat
  <2>1. PICK r \in Bad : TRUE
    OBVIOUS
  <2>2. r[1] \in 0..n /\ r[2] \in 0..n /\ r = <<r[1], r[2]>>
    BY <2>1
  <2>3. <<r[1], r[2]>> \in Bad
    BY <2>1, <2>2, Zenon
  <2>4. r[2] - r[1] \in Width
    BY <1>1, <2>2, <2>3
  <2>5. Width \subseteq Nat
    OBVIOUS
  <2> HIDE DEF Width
  <2> QED
    BY <2>4, <2>5
<1>3. PICK w \in Width : \A u \in Width : w <= u
  BY ONLY <1>2, LeastNumber
<1>4. PICK a \in 0..n, b \in 0..n : <<a, b>> \in Bad /\ w = b - a
  BY <1>3
<1>5. PICK c \in 0..n, d \in 0..n : <<c, d>> \in Bad /\ d - c < b - a
  BY <1>4
<1>6. d - c \in Width
  BY <1>1, <1>5
<1>7. w <= d - c
  BY <1>3, <1>6
<1> QED
  BY <1>4, <1>5, <1>7

\* What defines the search for an item.
SearchesIndex(v, x, f) ==
  f = [range \in Ranges(v) |->
        LET min == range[1]
            max == range[2]
            mid == Middle(min, max)
            y == v.cells[mid + 1][1]
        IN  IF min >= max THEN 0
            ELSE IF y < x THEN f[<<mid + 1, max>>]
            ELSE IF y > x THEN f[<<min, mid>>]
            ELSE mid + 1]

\* findKeyIndexPlusOne() finds the item if it is there.
LEMMA FindsItem ==
  ASSUME NEW v, v.count \in Nat, Sorted(v), NEW x \in Nat, NEW at \in 0..v.count,
         at = 0 => \A k \in 1..v.count : KeyAt(v, k) # x,
         at # 0 => KeyAt(v, at) = x
  PROVE  IndexPlusOne(v, x) = at
<1> DEFINE Within(a, b) == IF a < at /\ at <= b THEN at ELSE 0
<1>1. ASSUME NEW a \in 0..v.count, NEW b \in 0..v.count, a < b
      PROVE  LET mid == Middle(a, b)
             IN  /\ mid \in 0..(v.count - 1) /\ a <= mid /\ mid < b
                 /\ KeyAt(v, mid + 1) < x => Within(a, b) = Within(mid + 1, b)
                 /\ KeyAt(v, mid + 1) > x => Within(a, b) = Within(a, mid)
                 /\ KeyAt(v, mid + 1) = x => Within(a, b) = mid + 1
  <2> DEFINE mid == Middle(a, b)
  <2>1. mid \in Nat /\ a <= mid /\ mid < b
    BY <1>1, MiddleBetween
  <2> HIDE DEF mid
  <2>2. mid + 1 \in 1..v.count /\ KeyAt(v, mid + 1) \in Nat
    BY <2>1 DEF Sorted
  <2>3. ASSUME KeyAt(v, mid + 1) < x PROVE at = 0 \/ mid + 1 < at
    BY <2>2, <2>3 DEF Sorted
  <2>4. ASSUME KeyAt(v, mid + 1) > x PROVE at = 0 \/ at < mid + 1
    BY <2>2, <2>4 DEF Sorted
  <2>5. ASSUME KeyAt(v, mid + 1) = x PROVE at = mid + 1
    BY <2>2, <2>5 DEF Sorted
  <2>6. mid \in 0..(v.count - 1)
    BY <2>1
  <2> QED
    BY <2>1, <2>3, <2>4, <2>5, <2>6 DEF mid
<1>2. \E f : SearchesIndex(v, x, f)
  <2> DEFINE f == [range \in Ranges(v) |-> Within(range[1], range[2])]
  <2>1. ASSUME NEW a \in 0..v.count, NEW b \in 0..v.count
        PROVE  f[<<a, b>>] = Within(a, b)
    BY DEF Ranges
  <2> HIDE DEF f
  <2>2. ASSUME NEW a \in 0..v.count, NEW b \in 0..v.count
        PROVE  f[<<a, b>>] =
                 LET mid == Middle(a, b)
                     y == v.cells[mid + 1][1]
                 IN  IF a >= b THEN 0
                     ELSE IF y < x THEN f[<<mid + 1, b>>]
                     ELSE IF y > x THEN f[<<a, mid>>]
                     ELSE mid + 1
    <3>1. CASE a >= b
      BY <2>1, <3>1
    <3>2. CASE a < b
      <4> DEFINE mid == Middle(a, b)
      <4>1. mid \in 0..v.count /\ mid + 1 \in 0..v.count /\ mid + 1 \in 1..v.count
        BY <1>1, <3>2
      <4>2. KeyAt(v, mid + 1) \in Nat
        BY <4>1 DEF Sorted
      <4>3. /\ f[<<a, b>>] = Within(a, b) /\ f[<<a, mid>>] = Within(a, mid)
            /\ f[<<mid + 1, b>>] = Within(mid + 1, b)
        BY <2>1, <4>1
      <4>4. /\ KeyAt(v, mid + 1) < x => Within(a, b) = Within(mid + 1, b)
            /\ KeyAt(v, mid + 1) > x => Within(a, b) = Within(a, mid)
            /\ KeyAt(v, mid + 1) = x => Within(a, b) = mid + 1
        BY <1>1, <3>2
      <4> HIDE DEF mid, Within
      <4>5. f[<<a, b>>] = IF a >= b THEN 0
                          ELSE IF KeyAt(v, mid + 1) < x THEN f[<<mid + 1, b>>]
                          ELSE IF KeyAt(v, mid + 1) > x THEN f[<<a, mid>>]
                          ELSE mid + 1
        BY <3>2, <4>2, <4>3, <4>4
      <4> QED
        BY <4>5 DEF KeyAt, mid
    <3> QED
      BY <3>1, <3>2
  <2>3. SearchesIndex(v, x, f)
    BY <2>2 DEF SearchesIndex, Ranges, f
  <2> QED
    BY <2>3
<1>3. ASSUME NEW f, SearchesIndex(v, x, f) PROVE f[<<0, v.count>>] = at
  <2> DEFINE Bad == {r \in Ranges(v) : f[r] # Within(r[1], r[2])}
  <2>1. ASSUME NEW a \in 0..v.count, NEW b \in 0..v.count, <<a, b>> \in Bad
        PROVE  a < b /\ \E c, d \in 0..v.count : <<c, d>> \in Bad /\ d - c < b - a
    <3> DEFINE mid == Middle(a, b)
    <3>1. f[<<a, b>>] = IF a >= b THEN 0
                        ELSE IF KeyAt(v, mid + 1) < x THEN f[<<mid + 1, b>>]
                        ELSE IF KeyAt(v, mid + 1) > x THEN f[<<a, mid>>]
                        ELSE mid + 1
      BY <1>3 DEF SearchesIndex, Ranges, KeyAt
    <3>2. f[<<a, b>>] # Within(a, b)
      BY <2>1
    <3>3. a < b
      BY <3>1, <3>2
    <3>4. /\ mid \in 0..(v.count - 1) /\ a <= mid /\ mid < b
          /\ KeyAt(v, mid + 1) < x => Within(a, b) = Within(mid + 1, b)
          /\ KeyAt(v, mid + 1) > x => Within(a, b) = Within(a, mid)
          /\ KeyAt(v, mid + 1) = x => Within(a, b) = mid + 1
      BY <1>1, <3>3
    <3> HIDE DEF mid, Within
    <3>5. mid \in 0..v.count /\ mid + 1 \in 1..v.count /\ KeyAt(v, mid + 1) \in Nat
      BY <3>4 DEF Sorted
    <3>6. CASE KeyAt(v, mid + 1) < x
      <4>1. f[<<mid + 1, b>>] # Within(mid + 1, b) /\ mid + 1 \in 0..v.count
        BY <3>1, <3>2, <3>3, <3>4, <3>5, <3>6
      <4>2. <<mid + 1, b>> \in Bad /\ b - (mid + 1) < b - a
        BY <3>4, <3>5, <4>1 DEF Ranges
      <4> QED
        BY <3>3, <4>1, <4>2
    <3>7. CASE KeyAt(v, mid + 1) > x
      <4>1. f[<<a, mid>>] # Within(a, mid)
        BY <3>1, <3>2, <3>3, <3>4, <3>5, <3>7
      <4>2. <<a, mid>> \in Bad /\ mid - a < b - a
        BY <3>4, <3>5, <4>1 DEF Ranges
      <4> QED
        BY <3>3, <3>5, <4>2
    <3>8. CASE KeyAt(v, mid + 1) = x
      BY <3>1, <3>2, <3>3, <3>4, <3>5, <3>8
    <3>9. KeyAt(v, mid + 1) < x \/ KeyAt(v, mid + 1) > x \/ KeyAt(v, mid + 1) = x
      BY <3>5
    <3> QED
      BY <3>6, <3>7, <3>8, <3>9, Zenon
  <2>2. Bad \in SUBSET ((0..v.count) \X (0..v.count))
    BY DEF Ranges
  <2>3. Bad = {}
    <3> HIDE DEF Bad
    <3> QED
      BY <2>1, <2>2, RangeInduction
  <2>4. <<0, v.count>> \in Ranges(v)
    BY DEF Ranges
  <2>5. f[<<0, v.count>>] = Within(0, v.count)
    BY <2>3, <2>4
  <2> QED
    BY <2>5
<1>4. IndexPlusOne(v, x) = (CHOOSE f : SearchesIndex(v, x, f))[<<0, v.count>>]
  BY Zenon DEF IndexPlusOne, SearchesIndex, Ranges
<1> QED
  BY <1>2, <1>3, <1>4

\* What defines the search for a place.
SearchesPlace(v, x, f) ==
  f = [range \in Ranges(v) |->
        LET min == range[1]
            max == range[2]
            mid == Middle(min, max)
        IN  IF min >= max THEN min + 1
            ELSE IF v.cells[mid + 1][1] < x THEN f[<<mid + 1, max>>]
            ELSE f[<<min, mid>>]]

\* add() finds the place between the smaller keys and the others.
LEMMA FindsPlace ==
  ASSUME NEW v, v.count \in Nat, NEW x \in Nat, NEW at \in 1..(v.count + 1),
         \A k \in 1..v.count : KeyAt(v, k) < x <=> k < at
  PROVE  InsertionPoint(v, x) = at
<1> DEFINE Within(a, b) ==
      IF a >= b \/ at <= a THEN a + 1 ELSE IF b < at THEN b + 1 ELSE at
<1>1. ASSUME NEW a \in 0..v.count, NEW b \in 0..v.count, a < b
      PROVE  LET mid == Middle(a, b)
             IN  /\ mid \in 0..(v.count - 1) /\ a <= mid /\ mid < b
                 /\ KeyAt(v, mid + 1) < x => Within(a, b) = Within(mid + 1, b)
                 /\ ~(KeyAt(v, mid + 1) < x) => Within(a, b) = Within(a, mid)
  <2> DEFINE mid == Middle(a, b)
  <2>1. mid \in Nat /\ a <= mid /\ mid < b
    BY <1>1, MiddleBetween
  <2> HIDE DEF mid
  <2>2. mid + 1 \in 1..v.count /\ mid \in 0..(v.count - 1)
    BY <2>1
  <2>3. KeyAt(v, mid + 1) < x <=> mid + 1 < at
    BY <2>2
  <2>4. mid + 1 < at => Within(a, b) = Within(mid + 1, b)
    BY <1>1, <2>1
  <2>5. ~(mid + 1 < at) => Within(a, b) = Within(a, mid)
    BY <1>1, <2>1
  <2> QED
    BY <2>1, <2>2, <2>3, <2>4, <2>5 DEF mid
<1>2. \E f : SearchesPlace(v, x, f)
  <2> DEFINE f == [range \in Ranges(v) |-> Within(range[1], range[2])]
  <2>1. ASSUME NEW a \in 0..v.count, NEW b \in 0..v.count
        PROVE  f[<<a, b>>] = Within(a, b)
    BY DEF Ranges
  <2> HIDE DEF f
  <2>2. ASSUME NEW a \in 0..v.count, NEW b \in 0..v.count
        PROVE  f[<<a, b>>] =
                 LET mid == Middle(a, b)
                 IN  IF a >= b THEN a + 1
                     ELSE IF v.cells[mid + 1][1] < x THEN f[<<mid + 1, b>>]
                     ELSE f[<<a, mid>>]
    <3>1. CASE a >= b
      BY <2>1, <3>1
    <3>2. CASE a < b
      <4> DEFINE mid == Middle(a, b)
      <4>1. mid \in 0..v.count /\ mid + 1 \in 0..v.count /\ mid + 1 \in 1..v.count
        BY <1>1, <3>2
      <4>2. /\ f[<<a, b>>] = Within(a, b) /\ f[<<a, mid>>] = Within(a, mid)
            /\ f[<<mid + 1, b>>] = Within(mid + 1, b)
        BY <2>1, <4>1
      <4>3. /\ KeyAt(v, mid + 1) < x => Within(a, b) = Within(mid + 1, b)
            /\ ~(KeyAt(v, mid + 1) < x) => Within(a, b) = Within(a, mid)
        BY <1>1, <3>2
      <4> HIDE DEF mid, Within
      <4>4. f[<<a, b>>] = IF a >= b THEN a + 1
                          ELSE IF KeyAt(v, mid + 1) < x THEN f[<<mid + 1, b>>]
                          ELSE f[<<a, mid>>]
        BY <3>2, <4>2, <4>3
      <4> QED
        BY <4>4 DEF KeyAt, mid
    <3> QED
      BY <3>1, <3>2
  <2>3. SearchesPlace(v, x, f)
    <3>1. f = [range \in Ranges(v) |-> f[range]]
      BY Zenon DEF f
    <3>2. ASSUME NEW r \in Ranges(v)
          PROVE  f[r] = LET min == r[1]
                            max == r[2]
                            mid == Middle(min, max)
                        IN  IF min >= max THEN min + 1
                            ELSE IF v.cells[mid + 1][1] < x THEN f[<<mid + 1, max>>]
                            ELSE f[<<min, mid>>]
      <4>1. r[1] \in 0..v.count /\ r[2] \in 0..v.count /\ r = <<r[1], r[2]>>
        BY DEF Ranges
      <4> QED
        BY <2>2, <4>1
    <3> QED
      BY ONLY <3>1, <3>2, Zenon DEF SearchesPlace
  <2> QED
    BY <2>3
<1>3. ASSUME NEW f, SearchesPlace(v, x, f) PROVE f[<<0, v.count>>] = at
  <2> DEFINE Bad == {r \in Ranges(v) : f[r] # Within(r[1], r[2])}
  <2>1. ASSUME NEW a \in 0..v.count, NEW b \in 0..v.count, <<a, b>> \in Bad
        PROVE  a < b /\ \E c, d \in 0..v.count : <<c, d>> \in Bad /\ d - c < b - a
    <3> DEFINE mid == Middle(a, b)
    <3>1. f[<<a, b>>] = IF a >= b THEN a + 1
                        ELSE IF KeyAt(v, mid + 1) < x THEN f[<<mid + 1, b>>]
                        ELSE f[<<a, mid>>]
      BY <1>3 DEF SearchesPlace, Ranges, KeyAt
    <3>2. f[<<a, b>>] # Within(a, b)
      BY <2>1
    <3>3. a < b
      BY <3>1, <3>2
    <3>4. /\ mid \in 0..(v.count - 1) /\ a <= mid /\ mid < b
          /\ KeyAt(v, mid + 1) < x => Within(a, b) = Within(mid + 1, b)
          /\ ~(KeyAt(v, mid + 1) < x) => Within(a, b) = Within(a, mid)
      BY <1>1, <3>3
    <3> HIDE DEF mid, Within
    <3>5. mid \in 0..v.count /\ mid + 1 \in 0..v.count
      BY <3>4
    <3>6. CASE KeyAt(v, mid + 1) < x
      <4>1. f[<<mid + 1, b>>] # Within(mid + 1, b)
        BY <3>1, <3>2, <3>3, <3>4, <3>6
      <4>2. <<mid + 1, b>> \in Bad /\ b - (mid + 1) < b - a
        BY <3>4, <3>5, <4>1 DEF Ranges
      <4> QED
        BY <3>3, <3>5, <4>2
    <3>7. CASE ~(KeyAt(v, mid + 1) < x)
      <4>1. f[<<a, mid>>] # Within(a, mid)
        BY <3>1, <3>2, <3>3, <3>4, <3>7
      <4>2. <<a, mid>> \in Bad /\ mid - a < b - a
        BY <3>4, <3>5, <4>1 DEF Ranges
      <4> QED
        BY <3>3, <3>5, <4>2
    <3> QED
      BY <3>6, <3>7
  <2>2. Bad \in SUBSET ((0..v.count) \X (0..v.count))
    BY DEF Ranges
  <2>3. Bad = {}
    <3> HIDE DEF Bad
    <3> QED
      BY <2>1, <2>2, RangeInduction
  <2>4. <<0, v.count>> \in Ranges(v)
    BY DEF Ranges
  <2>5. f[<<0, v.count>>] = Within(0, v.count)
    BY <2>3, <2>4
  <2> QED
    BY <2>5
<1>4. InsertionPoint(v, x) = (CHOOSE f : SearchesPlace(v, x, f))[<<0, v.count>>]
  BY Zenon DEF InsertionPoint, SearchesPlace, Ranges
<1> QED
  BY <1>2, <1>3, <1>4

-----------------------------------------------------------------------------
(* The vectors.                                                               *)

\* A vector of items from T; cells that hold none may be zeroed.
Vector(v, T) ==
  /\ v \in [cells : Seq(T \cup {Zero}), count : Nat]
  /\ v.count <= Len(v.cells)
  /\ \A k \in 1..v.count : v.cells[k] \in T

\* What defines the growth of a block.
Grows(n, f) ==
  f = [k \in Nat |-> IF k >= n THEN k ELSE f[k + k \div 4 + Slack]]

LEMMA GrowthStep ==
  ASSUME NEW k \in Nat
  PROVE  k + k \div 4 + Slack \in Nat /\ k + k \div 4 + Slack >= k + 1
BY VectorAssumption

\* A block grows far enough.
LEMMA GrowsEnough ==
  ASSUME NEW c \in Nat, NEW n \in Nat
  PROVE  GrownCapacity(c, n) \in Nat /\ GrownCapacity(c, n) >= n
<1> DEFINE next(k) == k + k \div 4 + Slack
<1>0. \A k \in Nat : next(k) \in Nat /\ next(k) >= k + 1
  BY GrowthStep
<1> HIDE DEF next
<1>1. \E f : Grows(n, f)
  <2> DEFINE From(j, f) ==
        /\ f \in [Nat -> Nat]
        /\ \A k \in Nat : k >= j => f[k] = IF k >= n THEN k ELSE f[next(k)]
      J == {j \in Nat : \E f : From(j, f)}
  <2>1. n \in J
    <3>1. From(n, [k \in Nat |-> k])
      OBVIOUS
    <3> QED
      BY <3>1
  <2>2. PICK j \in J : \A i \in J : j <= i
    <3>1. J # {} /\ J \in SUBSET Nat
      BY <2>1
    <3> HIDE DEF J
    <3> QED
      BY <3>1, LeastNumber
  <2>3. PICK f : From(j, f)
    BY <2>2
  <2>4. ASSUME j # 0 PROVE FALSE
    <3> DEFINE i == j - 1
               g == [f EXCEPT ![i] = IF i >= n THEN i ELSE f[next(i)]]
    <3>1. i \in Nat /\ next(i) \in Nat /\ next(i) >= j
      BY <1>0, <2>2, <2>4
    <3>2. g \in [Nat -> Nat]
      BY <2>3, <3>1
    <3>3. ASSUME NEW k \in Nat, k >= i
          PROVE  g[k] = IF k >= n THEN k ELSE g[next(k)]
      <4>1. next(k) \in Nat /\ next(k) >= k + 1
        BY <1>0
      <4>2. next(k) # i
        BY <3>1, <3>3, <4>1
      <4>3. g[next(k)] = f[next(k)]
        BY <2>3, <4>1, <4>2
      <4>4. CASE k = i
        BY <2>3, <3>1, <4>3, <4>4
      <4>5. CASE k # i
        BY <2>3, <3>1, <3>3, <4>3, <4>5
      <4> QED
        BY <4>4, <4>5
    <3>4. i \in J
      BY <3>1, <3>2, <3>3
    <3>5. j \in Nat
      OBVIOUS
    <3> HIDE DEF J
    <3>6. j <= i
      BY <2>2, <3>4
    <3> QED
      BY <3>5, <3>6
  <2>5. Grows(n, f)
    <3>1. f = [k \in Nat |-> f[k]] /\ \A k \in Nat : k >= j
      BY <2>3, <2>4
    <3>2. \A k \in Nat : f[k] = IF k >= n THEN k ELSE f[next(k)]
      BY <2>3, <3>1
    <3> QED
      BY <3>1, <3>2 DEF Grows, next
  <2> QED
    BY <2>5
<1>2. ASSUME NEW f, Grows(n, f) PROVE f[c] \in Nat /\ f[c] >= n
  <2>1. \A k \in Nat : f[k] = IF k >= n THEN k ELSE f[next(k)]
    BY <1>2 DEF Grows, next
  <2> DEFINE Bad == {d \in Nat : \E k \in Nat : d = n - k /\ ~(f[k] \in Nat /\ f[k] >= n)}
  <2>2. ASSUME NEW d \in Bad PROVE \E e \in Bad : e < d
    <3>1. PICK k \in Nat : d = n - k /\ ~(f[k] \in Nat /\ f[k] >= n)
      OBVIOUS
    <3>2. k < n /\ f[k] = f[next(k)]
      BY <2>1, <3>1
    <3>3. next(k) \in Nat /\ next(k) >= k + 1
      BY <1>0
    <3>4. next(k) < n
      BY <2>1, <3>1, <3>2, <3>3
    <3>5. n - next(k) \in Bad /\ n - next(k) < d
      BY <3>1, <3>2, <3>3, <3>4
    <3> QED
      BY <3>5
  <2>3. Bad = {}
    <3>1. Bad \in SUBSET Nat
      OBVIOUS
    <3> HIDE DEF Bad
    <3>2. ASSUME Bad # {} PROVE FALSE
      <4>1. PICK d \in Bad : \A e \in Bad : d <= e
        BY <3>1, <3>2, LeastNumber
      <4> QED
        BY <2>2, <3>1, <4>1
    <3> QED
      BY <3>2
  <2> SUFFICES ASSUME ~(f[c] \in Nat /\ f[c] >= n) PROVE FALSE
    OBVIOUS
  <2>4. c < n
    BY <2>1
  <2>5. n - c \in Bad
    BY <2>4
  <2> QED
    BY <2>3, <2>5
<1>3. GrownCapacity(c, n) = (CHOOSE f : Grows(n, f))[c]
  BY Zenon DEF GrownCapacity, Grows
<1> QED
  BY <1>1, <1>2, <1>3

LEMMA CellsOf ==
  ASSUME NEW T, NEW v, Vector(v, T)
  PROVE  /\ v.cells \in Seq(T \cup {Zero}) /\ v.count \in Nat
         /\ Len(v.cells) \in Nat /\ v.count <= Len(v.cells)
         /\ DOMAIN v.cells = 1..Len(v.cells)
         /\ \A k \in 1..Len(v.cells) : v.cells[k] \in T \cup {Zero}
         /\ v = [cells |-> v.cells, count |-> v.count]
<1>1. v.cells \in Seq(T \cup {Zero}) /\ v.count \in Nat /\ v.count <= Len(v.cells)
  BY DEF Vector
<1>2. v = [cells |-> v.cells, count |-> v.count]
  BY DEF Vector
<1>3. /\ Len(v.cells) \in Nat /\ DOMAIN v.cells = 1..Len(v.cells)
      /\ \A k \in 1..Len(v.cells) : v.cells[k] \in T \cup {Zero}
  BY <1>1, LenProperties, ElementOfSeq
<1> QED
  BY <1>1, <1>2, <1>3

\* A block of n cells made from a rule is a sequence.
LEMMA BlockIsSeq ==
  ASSUME NEW S, NEW n \in Nat, NEW b \in [1..n -> S]
  PROVE  b \in Seq(S) /\ Len(b) = n
OBVIOUS

\* A vector with another block, or another count.
LEMMA WithField ==
  ASSUME NEW c, NEW n, NEW v, v = [cells |-> c, count |-> n], NEW x
  PROVE  /\ [v EXCEPT !.cells = x] = [cells |-> x, count |-> n]
         /\ [v EXCEPT !.count = x] = [cells |-> c, count |-> x]
OBVIOUS

\* realloc() keeps the items that fit.
LEMMA ReserveKeeps ==
  ASSUME NEW T, NEW v, Vector(v, T), NEW n \in Nat
  PROVE  LET r == Reserve(v, n)
         IN  /\ r = [cells |-> r.cells, count |-> v.count]
             /\ r.cells \in Seq(T \cup {Zero}) /\ Len(r.cells) = n
             /\ \A k \in 1..n : k <= v.count => r.cells[k] = v.cells[k]
<1>0. /\ v.cells \in Seq(T \cup {Zero}) /\ v.count \in Nat
      /\ Len(v.cells) \in Nat /\ v.count <= Len(v.cells)
      /\ DOMAIN v.cells = 1..Len(v.cells)
      /\ \A k \in 1..Len(v.cells) : v.cells[k] \in T \cup {Zero}
      /\ v = [cells |-> v.cells, count |-> v.count]
  BY ONLY Vector(v, T), CellsOf
<1> DEFINE b == [k \in 1..n |-> IF k <= v.count /\ k <= Len(v.cells)
                               THEN v.cells[k] ELSE Zero]
<1>1. Reserve(v, n) = [cells |-> b, count |-> v.count]
  <2>1. Reserve(v, n) = [v EXCEPT !.cells = b]
    BY DEF Reserve, ItemCapacity
  <2> HIDE DEF b
  <2> QED
    BY <1>0, <2>1, WithField
<1>2. b \in [1..n -> T \cup {Zero}]
  BY <1>0
<1>3. \A k \in 1..n : k <= v.count => b[k] = v.cells[k]
  BY <1>0
<1> HIDE DEF b
<1>4. b \in Seq(T \cup {Zero}) /\ Len(b) = n
  BY <1>2, BlockIsSeq
<1> QED
  BY <1>1, <1>3, <1>4

\* resize() keeps the items, whether the block grows, shrinks or stays.
LEMMA ResizeKeeps ==
  ASSUME NEW T, NEW v, Vector(v, T), NEW n \in Nat
  PROVE  LET r == Resize(v, n)
         IN  /\ r = [cells |-> r.cells, count |-> n]
             /\ r.cells \in Seq(T \cup {Zero}) /\ n <= Len(r.cells)
             /\ \A k \in 1..n : k <= v.count => r.cells[k] = v.cells[k]
<1>0. /\ v.cells \in Seq(T \cup {Zero}) /\ v.count \in Nat
      /\ Len(v.cells) \in Nat /\ v.count <= Len(v.cells)
      /\ DOMAIN v.cells = 1..Len(v.cells)
      /\ \A k \in 1..Len(v.cells) : v.cells[k] \in T \cup {Zero}
      /\ v = [cells |-> v.cells, count |-> v.count]
  BY ONLY Vector(v, T), CellsOf
<1> DEFINE c == Len(v.cells)
           m == GrownCapacity(c, n)
<1>1. c \in Nat /\ m \in Nat /\ m >= n
  BY <1>0, GrowsEnough
<1>2. CASE n > c
  <2>1. Resize(v, n) = [Reserve(v, m) EXCEPT !.count = n]
    BY <1>2 DEF Resize, ItemCapacity
  <2> HIDE DEF m
  <2>2. /\ Reserve(v, m) = [cells |-> Reserve(v, m).cells, count |-> v.count]
        /\ Reserve(v, m).cells \in Seq(T \cup {Zero}) /\ Len(Reserve(v, m).cells) = m
        /\ \A k \in 1..m : k <= v.count => Reserve(v, m).cells[k] = v.cells[k]
    BY <1>1, ReserveKeeps
  <2>3. Resize(v, n) = [cells |-> Reserve(v, m).cells, count |-> n]
    BY <2>1, <2>2
  <2> QED
    BY <1>1, <2>2, <2>3
<1>3. CASE ~(n > c) /\ n < c \div 2 /\ c > MinCapacity
  <2>1. Resize(v, n) = [Reserve(v, n) EXCEPT !.count = n]
    BY <1>3 DEF Resize, ItemCapacity
  <2>2. /\ Reserve(v, n) = [cells |-> Reserve(v, n).cells, count |-> v.count]
        /\ Reserve(v, n).cells \in Seq(T \cup {Zero}) /\ Len(Reserve(v, n).cells) = n
        /\ \A k \in 1..n : k <= v.count => Reserve(v, n).cells[k] = v.cells[k]
    BY ReserveKeeps
  <2>3. Resize(v, n) = [cells |-> Reserve(v, n).cells, count |-> n]
    BY <2>1, <2>2
  <2> QED
    BY <2>2, <2>3
<1>4. CASE ~(n > c) /\ ~(n < c \div 2 /\ c > MinCapacity)
  <2>1. Resize(v, n) = [v EXCEPT !.count = n]
    BY <1>4 DEF Resize, ItemCapacity
  <2>2. Resize(v, n) = [cells |-> v.cells, count |-> n]
    BY <2>1, <1>0
  <2> QED
    BY <1>1, <1>4, <2>2, <1>0
<1> QED
  BY <1>2, <1>3, <1>4

\* insertAt() keeps all items, in their order, around the new one.
LEMMA Inserted ==
  ASSUME NEW T, NEW v, Vector(v, T), NEW pos \in 1..(v.count + 1), NEW x \in T
  PROVE  LET w == InsertAt(v, pos, x)
         IN  /\ Vector(w, T) /\ w.count = v.count + 1
             /\ \A k \in 1..(v.count + 1) :
                  w.cells[k] = IF k < pos THEN v.cells[k]
                               ELSE IF k = pos THEN x ELSE v.cells[k - 1]
<1>0. /\ v.cells \in Seq(T \cup {Zero}) /\ v.count \in Nat
      /\ Len(v.cells) \in Nat /\ v.count <= Len(v.cells)
      /\ DOMAIN v.cells = 1..Len(v.cells)
      /\ \A k \in 1..Len(v.cells) : v.cells[k] \in T \cup {Zero}
      /\ v = [cells |-> v.cells, count |-> v.count]
  BY ONLY Vector(v, T), CellsOf
<1> DEFINE n == v.count + 1
           r == Resize(v, n)
           b == [k \in DOMAIN r.cells |->
                  CASE k = pos -> x
                    [] pos < k /\ k <= r.count -> r.cells[k - 1]
                    [] OTHER -> r.cells[k]]
           w == InsertAt(v, pos, x)
<1>1. v.count \in Nat /\ n \in Nat /\ pos \in Nat /\ pos >= 1
  BY <1>0
<1>2. /\ r = [cells |-> r.cells, count |-> n]
      /\ r.cells \in Seq(T \cup {Zero}) /\ n <= Len(r.cells)
      /\ \A k \in 1..n : k <= v.count => r.cells[k] = v.cells[k]
  <2> DEFINE m == v.count + 1
  <2>1. m \in Nat
    BY <1>1
  <2> HIDE DEF m
  <2>2. LET q == Resize(v, m)
        IN  /\ q = [cells |-> q.cells, count |-> m]
            /\ q.cells \in Seq(T \cup {Zero}) /\ m <= Len(q.cells)
            /\ \A k \in 1..m : k <= v.count => q.cells[k] = v.cells[k]
    BY ONLY <2>1, ResizeKeeps, Vector(v, T), Zenon
  <2> QED
    BY ONLY <2>2, Zenon DEF m, r
<1>3. w = [r EXCEPT !.cells = b]
  BY DEF InsertAt
<1> HIDE DEF r, w
<1>4. w = [cells |-> b, count |-> n]
  <2>1. r = [cells |-> r.cells, count |-> n]
    BY <1>2
  <2> HIDE DEF b, n
  <2> QED
    BY ONLY <1>3, <2>1, WithField
<1>5. /\ Len(r.cells) \in Nat /\ DOMAIN r.cells = 1..Len(r.cells)
      /\ \A k \in 1..Len(r.cells) : r.cells[k] \in T \cup {Zero}
  BY <1>2, LenProperties, ElementOfSeq
<1>6. r.count = n
  BY <1>2
<1>7. b \in [1..Len(r.cells) -> T \cup {Zero}]
  BY <1>1, <1>5, <1>6
<1>8. \A k \in 1..n : b[k] = IF k < pos THEN r.cells[k]
                            ELSE IF k = pos THEN x ELSE r.cells[k - 1]
  BY <1>1, <1>2, <1>5, <1>6
<1> HIDE DEF b
<1>9. \A k \in 1..n : b[k] = IF k < pos THEN v.cells[k]
                            ELSE IF k = pos THEN x ELSE v.cells[k - 1]
  <2> SUFFICES ASSUME NEW k \in 1..n
               PROVE  b[k] = IF k < pos THEN v.cells[k]
                             ELSE IF k = pos THEN x ELSE v.cells[k - 1]
    OBVIOUS
  <2>1. CASE k < pos
    BY <1>1, <1>2, <1>8, <2>1
  <2>2. CASE k = pos
    BY <1>8, <2>2
  <2>3. CASE k > pos
    <3>1. k - 1 \in 1..n /\ k - 1 <= v.count
      BY <1>1, <2>3
    <3> QED
      BY <1>2, <1>8, <2>3, <3>1
  <2> QED
    BY <1>1, <2>1, <2>2, <2>3
<1>10. b \in Seq(T \cup {Zero}) /\ Len(b) = Len(r.cells)
  BY <1>5, <1>7, BlockIsSeq
<1>11. \A k \in 1..n : b[k] \in T
  <2> SUFFICES ASSUME NEW k \in 1..n PROVE b[k] \in T
    OBVIOUS
  <2>1. \A j \in 1..v.count : v.cells[j] \in T
    BY DEF Vector
  <2>2. k < pos => k \in 1..v.count
    BY <1>1
  <2>3. k > pos => k - 1 \in 1..v.count
    BY <1>1
  <2> QED
    BY <1>1, <1>9, <2>1, <2>2, <2>3
<1>12. Vector(w, T)
  BY <1>1, <1>2, <1>4, <1>10, <1>11 DEF Vector
<1> QED
  BY <1>4, <1>9, <1>12 DEF w

\* removeAt() keeps all items but one, in their order.
LEMMA Removed ==
  ASSUME NEW T, NEW v, Vector(v, T), NEW pos \in 1..v.count
  PROVE  LET w == RemoveAt(v, pos)
         IN  /\ Vector(w, T) /\ w.count = v.count - 1
             /\ \A k \in 1..(v.count - 1) :
                  w.cells[k] = IF k < pos THEN v.cells[k] ELSE v.cells[k + 1]
<1>0. /\ v.cells \in Seq(T \cup {Zero}) /\ v.count \in Nat
      /\ Len(v.cells) \in Nat /\ v.count <= Len(v.cells)
      /\ DOMAIN v.cells = 1..Len(v.cells)
      /\ \A k \in 1..Len(v.cells) : v.cells[k] \in T \cup {Zero}
      /\ v = [cells |-> v.cells, count |-> v.count]
  BY ONLY Vector(v, T), CellsOf
<1> DEFINE n == v.count - 1
           b == [k \in DOMAIN v.cells |->
                  IF pos <= k /\ k < v.count THEN v.cells[k + 1] ELSE v.cells[k]]
           u == [cells |-> b, count |-> v.count]
           w == RemoveAt(v, pos)
<1>1. v.count \in Nat /\ n \in Nat /\ pos \in Nat /\ pos >= 1
  BY <1>0
<1>2. w = Resize(u, n)
  <2>1. [v EXCEPT !.cells = b] = u
    <3> HIDE DEF b
    <3>1. v = [cells |-> v.cells, count |-> v.count]
      BY <1>0
    <3> QED
      BY ONLY <3>1, WithField DEF u
  <2> QED
    BY <2>1 DEF RemoveAt
<1>3. b \in [1..Len(v.cells) -> T \cup {Zero}]
  BY <1>1, <1>0
<1>4. \A k \in 1..v.count : b[k] = IF pos <= k /\ k < v.count THEN v.cells[k + 1]
                                  ELSE v.cells[k]
  BY <1>0
<1>5. \A k \in 1..v.count : b[k] \in T
  <2>1. \A j \in 1..v.count : v.cells[j] \in T
    BY DEF Vector
  <2>2. \A k \in 1..v.count : k < v.count => k + 1 \in 1..v.count
    BY <1>1
  <2> HIDE DEF b
  <2> QED
    BY <1>4, <2>1, <2>2
<1> HIDE DEF b, w
<1>6. b \in Seq(T \cup {Zero}) /\ Len(b) = Len(v.cells)
  BY <1>3, <1>0, BlockIsSeq
<1>7. Vector(u, T)
  BY <1>1, <1>5, <1>6, <1>0 DEF Vector
<1> HIDE DEF u
<1>8. /\ w = [cells |-> w.cells, count |-> n]
      /\ w.cells \in Seq(T \cup {Zero}) /\ n <= Len(w.cells)
      /\ \A k \in 1..n : k <= u.count => w.cells[k] = u.cells[k]
  <2> HIDE DEF n
  <2>1. n \in Nat
    BY <1>1
  <2>2. /\ Resize(u, n) = [cells |-> Resize(u, n).cells, count |-> n]
        /\ Resize(u, n).cells \in Seq(T \cup {Zero}) /\ n <= Len(Resize(u, n).cells)
        /\ \A k \in 1..n : k <= u.count => Resize(u, n).cells[k] = u.cells[k]
    BY ONLY <2>1, <1>7, ResizeKeeps
  <2> QED
    BY ONLY <1>2, <2>2
<1>9. u.count = v.count /\ u.cells = b
  BY DEF u
<1>10. \A k \in 1..n : k \in 1..v.count /\ w.cells[k] = b[k]
  BY <1>1, <1>8, <1>9
<1>11. \A k \in 1..n : w.cells[k] = IF k < pos THEN v.cells[k] ELSE v.cells[k + 1]
  BY <1>1, <1>4, <1>10
<1>12. Vector(w, T)
  <2>1. w \in [cells : Seq(T \cup {Zero}), count : Nat] /\ w.count = n
    BY <1>1, <1>8
  <2>2. \A k \in 1..n : w.cells[k] \in T
    BY <1>5, <1>10
  <2> QED
    BY <1>8, <2>1, <2>2 DEF Vector
<1> QED
  BY <1>8, <1>11, <1>12 DEF w

Contents(v) == {v.cells[k] : k \in 1..v.count}

Distinct(v) == \A j, k \in 1..v.count : v.cells[j] = v.cells[k] => j = k

\* Taking an item out of a vector without duplicates takes it out of the set.
LEMMA RemovedFromSet ==
  ASSUME NEW T, NEW v, Vector(v, T), Distinct(v), NEW pos \in 1..v.count
  PROVE  LET w == RemoveAt(v, pos)
         IN  /\ Vector(w, T) /\ Distinct(w) /\ w.count = v.count - 1
             /\ Contents(w) = Contents(v) \ {v.cells[pos]}
<1> DEFINE w == RemoveAt(v, pos)
           from(k) == IF k < pos THEN k ELSE k + 1
<1>1. /\ Vector(w, T) /\ w.count = v.count - 1
      /\ \A k \in 1..(v.count - 1) :
           w.cells[k] = IF k < pos THEN v.cells[k] ELSE v.cells[k + 1]
  BY Removed, Zenon
<1>2. v.count \in Nat /\ pos \in Nat /\ pos >= 1 /\ pos <= v.count
  BY DEF Vector
<1> HIDE DEF w
<1>3. \A k \in 1..w.count : /\ from(k) \in 1..v.count /\ from(k) # pos
                            /\ w.cells[k] = v.cells[from(k)]
  BY <1>1, <1>2
<1>4. \A j, k \in 1..w.count : from(j) = from(k) => j = k
  BY <1>1, <1>2
<1>5. \A j \in 1..v.count : j # pos => \E k \in 1..w.count : from(k) = j
  <2> SUFFICES ASSUME NEW j \in 1..v.count, j # pos
               PROVE  \E k \in 1..w.count : from(k) = j
    OBVIOUS
  <2>1. CASE j < pos
    <3>1. j \in 1..w.count /\ from(j) = j
      BY <1>1, <1>2, <2>1
    <3> QED
      BY <3>1
  <2>2. CASE j > pos
    <3>1. j - 1 \in 1..w.count /\ from(j - 1) = j
      BY <1>1, <1>2, <2>2
    <3> QED
      BY <3>1
  <2> QED
    BY <1>2, <2>1, <2>2
<1> HIDE DEF from
<1>6. Distinct(w)
  BY <1>3, <1>4 DEF Distinct
<1>7. Contents(w) \subseteq Contents(v) \ {v.cells[pos]}
  BY <1>3 DEF Contents, Distinct
<1>8. Contents(v) \ {v.cells[pos]} \subseteq Contents(w)
  <2> SUFFICES ASSUME NEW j \in 1..v.count, j # pos PROVE v.cells[j] \in Contents(w)
    BY DEF Contents
  <2> QED
    BY <1>3, <1>5 DEF Contents
<1> QED
  BY <1>1, <1>6, <1>7, <1>8 DEF w

\* Appending a new item puts it into the set.
LEMMA AppendedToSet ==
  ASSUME NEW T, NEW v, Vector(v, T), Distinct(v), NEW x \in T, x \notin Contents(v)
  PROVE  LET w == Appended(v, x)
         IN  Vector(w, T) /\ Distinct(w) /\ Contents(w) = Contents(v) \cup {x}
<1> DEFINE n == v.count + 1
           w == InsertAt(v, n, x)
<1>1. v.count \in Nat /\ n \in 1..n
  BY DEF Vector
<1>2. /\ Vector(w, T) /\ w.count = n
      /\ \A k \in 1..n : w.cells[k] = IF k < n THEN v.cells[k]
                                       ELSE IF k = n THEN x ELSE v.cells[k - 1]
  BY <1>1, Inserted
<1> HIDE DEF w
<1>3. \A k \in 1..n : k = n \/ k \in 1..v.count
  BY <1>1
<1>4. \A k \in 1..v.count : k \in 1..n /\ k < n /\ w.cells[k] = v.cells[k]
  BY <1>1, <1>2
<1>5. w.cells[n] = x
  BY <1>1, <1>2
<1> HIDE DEF n
<1>6. Contents(w) = Contents(v) \cup {x}
  BY <1>1, <1>2, <1>3, <1>4, <1>5 DEF Contents
<1>7. Distinct(w)
  BY <1>1, <1>2, <1>3, <1>4, <1>5 DEF Contents, Distinct
<1>8. w = Appended(v, x)
  BY DEF w, n, Appended
<1> QED
  BY <1>2, <1>6, <1>7, <1>8

LEMMA SortedIsDistinct ==
  ASSUME NEW v, Sorted(v), v.count \in Nat
  PROVE  /\ Distinct(v)
         /\ \A j, k \in 1..v.count : KeyAt(v, j) = KeyAt(v, k) => j = k
<1>1. \A j, k \in 1..v.count : j < k \/ k < j \/ j = k
  OBVIOUS
<1>2. \A j, k \in 1..v.count : KeyAt(v, j) = KeyAt(v, k) => j = k
  BY <1>1 DEF Sorted
<1> QED
  BY <1>2 DEF Distinct, KeyAt

\* del() keeps a vector sorted.
LEMMA RemovedFromSorted ==
  ASSUME NEW T, NEW v, Vector(v, T), Sorted(v), NEW pos \in 1..v.count
  PROVE  LET w == RemoveAt(v, pos)
         IN  /\ Vector(w, T) /\ Sorted(w) /\ w.count = v.count - 1
             /\ Contents(w) = Contents(v) \ {v.cells[pos]}
<1> DEFINE w == RemoveAt(v, pos)
<1>1. v.count \in Nat /\ Distinct(v)
  BY SortedIsDistinct DEF Vector
<1>2. /\ Vector(w, T) /\ w.count = v.count - 1
      /\ Contents(w) = Contents(v) \ {v.cells[pos]}
  BY <1>1, RemovedFromSet, Zenon
<1>3. \A k \in 1..(v.count - 1) :
        w.cells[k] = IF k < pos THEN v.cells[k] ELSE v.cells[k + 1]
  BY Removed, Zenon
<1> HIDE DEF w
<1>4. \A k \in 1..w.count : /\ k \in 1..v.count /\ k + 1 \in 1..v.count
                            /\ KeyAt(w, k) = IF k < pos THEN KeyAt(v, k)
                                             ELSE KeyAt(v, k + 1)
  BY <1>1, <1>2, <1>3 DEF KeyAt
<1>5. Sorted(w)
  <2>1. \A k \in 1..w.count : KeyAt(w, k) \in Nat
    BY <1>4 DEF Sorted
  <2>2. ASSUME NEW j \in 1..w.count, NEW k \in 1..w.count, j < k
        PROVE  KeyAt(w, j) < KeyAt(w, k)
    BY <1>4, <2>2 DEF Sorted
  <2> QED
    BY <2>1, <2>2 DEF Sorted
<1> QED
  BY <1>2, <1>5 DEF w

\* add() keeps a vector sorted.
LEMMA InsertedIntoSorted ==
  ASSUME NEW T, NEW v, Vector(v, T), Sorted(v),
         NEW x \in Nat, \A k \in 1..v.count : KeyAt(v, k) # x,
         NEW e \in T, e[1] = x, NEW w, w = InsertAt(v, InsertionPoint(v, x), e)
  PROVE  /\ Vector(w, T) /\ Sorted(w) /\ w.count = v.count + 1
         /\ Contents(w) = Contents(v) \cup {e}
<1> DEFINE Q == {k \in 1..(v.count + 1) : k = v.count + 1 \/ ~(KeyAt(v, k) < x)}
<1>1. v.count \in Nat /\ x \in Nat /\ \A k \in 1..v.count : KeyAt(v, k) \in Nat
  BY DEF Vector, Sorted
<1>2. PICK m \in Q : \A k \in Q : m <= k
  <2>1. Q \in SUBSET Nat /\ v.count + 1 \in Q
    BY <1>1
  <2> HIDE DEF Q
  <2> QED
    BY <2>1, LeastNumber
<1>3. m \in 1..(v.count + 1)
  OBVIOUS
<1>4. ASSUME NEW k \in 1..v.count PROVE KeyAt(v, k) < x <=> k < m
  <2>1. k < m => KeyAt(v, k) < x
    BY <1>1, <1>2, <1>3
  <2>2. ASSUME ~(k < m) PROVE ~(KeyAt(v, k) < x)
    <3>1. m \in 1..v.count /\ (m < k \/ m = k)
      BY <1>1, <1>3, <2>2
    <3>2. ~(KeyAt(v, m) < x)
      BY <1>1, <3>1
    <3>3. KeyAt(v, m) \in Nat /\ KeyAt(v, k) \in Nat
      BY <1>1, <3>1
    <3>4. m < k => KeyAt(v, m) < KeyAt(v, k)
      BY <3>1 DEF Sorted
    <3> QED
      BY <1>1, <3>1, <3>2, <3>3, <3>4
  <2> QED
    BY <2>1, <2>2
<1> HIDE DEF Q
<1>5. InsertionPoint(v, x) = m
  BY <1>1, <1>3, <1>4, FindsPlace
<1>6. w = InsertAt(v, m, e)
  BY <1>5
<1>7. /\ Vector(w, T) /\ w.count = v.count + 1
      /\ \A k \in 1..(v.count + 1) :
           w.cells[k] = IF k < m THEN v.cells[k]
                        ELSE IF k = m THEN e ELSE v.cells[k - 1]
  BY ONLY Vector(v, T), e \in T, <1>3, <1>6, Inserted
<1>8. \A k \in 1..w.count :
        /\ k < m => k \in 1..v.count /\ w.cells[k] = v.cells[k]
        /\ k > m => k - 1 \in 1..v.count /\ w.cells[k] = v.cells[k - 1]
        /\ k = m => w.cells[k] = e
        /\ k < m \/ k > m \/ k = m
  BY <1>1, <1>3, <1>7
<1>9. Contents(w) = Contents(v) \cup {e}
  <2>1. Contents(w) \subseteq Contents(v) \cup {e}
    BY <1>8 DEF Contents
  <2>2. m \in 1..w.count
    BY <1>3, <1>7
  <2>3. ASSUME NEW j \in 1..v.count PROVE v.cells[j] \in Contents(w)
    <3>1. CASE j < m
      <4>1. j \in 1..w.count /\ w.cells[j] = v.cells[j]
        BY <1>1, <1>3, <1>7, <3>1
      <4> QED
        BY <4>1 DEF Contents
    <3>2. CASE ~(j < m)
      <4>1. /\ j + 1 \in 1..w.count /\ (j + 1) - 1 = j
            /\ w.cells[j + 1] = v.cells[(j + 1) - 1]
        BY <1>1, <1>3, <1>7, <3>2
      <4> QED
        BY <4>1 DEF Contents
    <3> QED
      BY <3>1, <3>2
  <2>4. e \in Contents(w)
    BY <1>8, <2>2 DEF Contents
  <2>5. Contents(v) \subseteq Contents(w)
    BY <2>3 DEF Contents
  <2> QED
    BY <2>1, <2>4, <2>5
<1>10. e[1] = x
  OBVIOUS
<1>11. \A k \in 1..w.count :
         /\ k < m => k \in 1..v.count /\ KeyAt(w, k) = KeyAt(v, k) /\ KeyAt(w, k) < x
         /\ k > m => k - 1 \in 1..v.count /\ KeyAt(w, k) = KeyAt(v, k - 1)
                     /\ x < KeyAt(w, k)
         /\ k = m => KeyAt(w, k) = x
         /\ KeyAt(w, k) \in Nat
  <2> SUFFICES ASSUME NEW k \in 1..w.count
               PROVE  /\ k < m => /\ k \in 1..v.count /\ KeyAt(w, k) = KeyAt(v, k)
                                  /\ KeyAt(w, k) < x
                      /\ k > m => /\ k - 1 \in 1..v.count
                                  /\ KeyAt(w, k) = KeyAt(v, k - 1) /\ x < KeyAt(w, k)
                      /\ k = m => KeyAt(w, k) = x
                      /\ KeyAt(w, k) \in Nat
    OBVIOUS
  <2>1. CASE k < m
    <3>1. k \in 1..v.count /\ w.cells[k] = v.cells[k]
      BY <1>8, <2>1
    <3>2. KeyAt(v, k) \in Nat /\ KeyAt(v, k) < x
      BY <1>1, <1>4, <2>1, <3>1
    <3>3. KeyAt(w, k) = KeyAt(v, k)
      BY <3>1 DEF KeyAt
    <3> QED
      BY <1>3, <2>1, <3>1, <3>2, <3>3
  <2>2. CASE k > m
    <3>1. k - 1 \in 1..v.count /\ ~(k - 1 < m) /\ w.cells[k] = v.cells[k - 1]
      BY <1>1, <1>3, <1>8, <2>2
    <3>2. KeyAt(v, k - 1) \in Nat /\ ~(KeyAt(v, k - 1) < x) /\ KeyAt(v, k - 1) # x
      BY <1>1, <1>4, <3>1
    <3>3. KeyAt(w, k) = KeyAt(v, k - 1)
      BY <3>1 DEF KeyAt
    <3> QED
      BY <1>1, <1>3, <2>2, <3>1, <3>2, <3>3
  <2>3. CASE k = m
    BY <1>1, <1>8, <1>10, <2>3 DEF KeyAt
  <2> QED
    BY <1>8, <2>1, <2>2, <2>3
<1>12. Sorted(w)
  <2>1. ASSUME NEW j \in 1..w.count, NEW k \in 1..w.count, j < k
        PROVE  KeyAt(w, j) < KeyAt(w, k)
    <3>1. CASE k < m
      <4>1. j < m
        BY <1>3, <2>1, <3>1
      <4> QED
        BY <1>11, <2>1, <3>1, <4>1 DEF Sorted
    <3>2. CASE j > m
      <4>1. k > m /\ j - 1 < k - 1
        BY <1>3, <2>1, <3>2
      <4> QED
        BY <1>11, <2>1, <3>2, <4>1 DEF Sorted
    <3>3. CASE j <= m /\ m <= k
      BY <1>1, <1>3, <1>11, <2>1, <3>3
    <3> QED
      BY <1>3, <3>1, <3>2, <3>3
  <2> QED
    BY <1>11, <2>1 DEF Sorted
<1> QED
  BY <1>7, <1>9, <1>12

-----------------------------------------------------------------------------
(* The map.                                                                   *)

Number == 0..(ValueWord - 1)

UsedValues == {p[1] : p \in Contents(backward)}

Held == UsedValues \cup Contents(freeValues)

\* How long ago a value was handed out new, if it was.
Age(last, x) == IF x <= last THEN last - x ELSE last - x + ValueWord

MapTypeOK ==
  /\ Vector(forward, Key \X Number)
  /\ Vector(backward, Number \X Key)
  /\ Vector(freeValues, Number)
  /\ lastValue \in Number

\* The vectors are sorted and hold the same pairs.
VectorsMirror ==
  /\ Sorted(forward) /\ Sorted(backward) /\ forward.count = backward.count
  /\ \A key \in Key, value \in Number :
       <<key, value>> \in Contents(forward) <=> <<value, key>> \in Contents(backward)

\* The values kept for reuse are different and not in use.
FreeOnce ==
  /\ Distinct(freeValues)
  /\ Contents(freeValues) \cap UsedValues = {}

\* Below a value that is in use or kept, back from the newest, there is no
\* other; 0 is dropped when it comes back.
NoGaps ==
  \A x \in Held, y \in Number :
    Age(lastValue, y) <= Age(lastValue, x) => y \in Held \/ y = 0

MapInv == MapTypeOK /\ VectorsMirror /\ FreeOnce /\ NoGaps

-----------------------------------------------------------------------------
\* A pair is in the vector at the place where its key is.
LEMMA PairAt ==
  ASSUME NEW A, NEW B, NEW v, Vector(v, A \X B), NEW k \in 1..v.count
  PROVE  /\ KeyAt(v, k) \in A /\ v.cells[k][2] \in B
         /\ v.cells[k] = <<KeyAt(v, k), v.cells[k][2]>>
         /\ <<KeyAt(v, k), v.cells[k][2]>> \in Contents(v)
<1>1. v.cells[k] \in A \X B
  BY DEF Vector
<1>2. v.cells[k] = <<KeyAt(v, k), v.cells[k][2]>>
  BY <1>1 DEF KeyAt
<1> QED
  BY <1>1, <1>2 DEF KeyAt, Contents

\* findKeyIndexPlusOne() returns 0 if the key is not there, and its place if it is.
LEMMA IndexTells ==
  ASSUME NEW v, v.count \in Nat, Sorted(v), NEW x \in Nat
  PROVE  /\ IndexPlusOne(v, x) \in 0..v.count
         /\ IndexPlusOne(v, x) = 0 <=> \A k \in 1..v.count : KeyAt(v, k) # x
         /\ \A k \in 1..v.count : KeyAt(v, k) = x <=> IndexPlusOne(v, x) = k
<1>1. CASE \A k \in 1..v.count : KeyAt(v, k) # x
  <2>1. 0 \in 0..v.count /\ \A k \in 1..v.count : k # 0
    OBVIOUS
  <2>2. IndexPlusOne(v, x) = 0
    BY <1>1, <2>1, FindsItem
  <2> QED
    BY <1>1, <2>1, <2>2
<1>2. ASSUME NEW at \in 1..v.count, KeyAt(v, at) = x
      PROVE  /\ IndexPlusOne(v, x) \in 0..v.count
             /\ IndexPlusOne(v, x) = 0 <=> \A k \in 1..v.count : KeyAt(v, k) # x
             /\ \A k \in 1..v.count : KeyAt(v, k) = x <=> IndexPlusOne(v, x) = k
  <2>1. at \in 0..v.count /\ at # 0
    OBVIOUS
  <2>2. IndexPlusOne(v, x) = at
    BY <1>2, <2>1, FindsItem
  <2>3. \A k \in 1..v.count : KeyAt(v, k) = x <=> at = k
    BY <1>2, SortedIsDistinct
  <2> QED
    BY <1>2, <2>1, <2>2, <2>3
<1> QED
  BY <1>1, <1>2

\* add() with a key that is new and a value that is not in use.
LEMMA InsertKeeps ==
  ASSUME MapTypeOK, VectorsMirror, NEW key \in Key, NEW value \in Number,
         IndexPlusOne(forward, key) = 0, value \notin UsedValues, Insert(key, value)
  PROVE  /\ Vector(forward, Key \X Number)' /\ Vector(backward, Number \X Key)'
         /\ VectorsMirror'
         /\ UsedValues' = UsedValues \cup {value}
<1> USE MapAssumption
<1>1. /\ Vector(forward, Key \X Number) /\ Vector(backward, Number \X Key)
      /\ forward.count \in Nat /\ backward.count \in Nat
      /\ Key \in SUBSET Nat /\ Number \in SUBSET Nat
  BY ONLY MapTypeOK, MapAssumption DEF MapTypeOK, Vector, Number
<1>2. Sorted(forward) /\ Sorted(backward) /\ forward.count = backward.count
  BY DEF VectorsMirror
<1>3. \A k \in 1..forward.count : KeyAt(forward, k) # key
  BY <1>1, <1>2, IndexTells
<1>4. \A k \in 1..backward.count : KeyAt(backward, k) # value
  <2> SUFFICES ASSUME NEW k \in 1..backward.count, KeyAt(backward, k) = value
               PROVE  value \in UsedValues
    OBVIOUS
  <2>1. backward.cells[k] \in Contents(backward)
    BY DEF Contents
  <2> QED
    BY <2>1 DEF UsedValues, KeyAt
<1>5. /\ Vector(forward', Key \X Number) /\ Sorted(forward')
      /\ forward'.count = forward.count + 1
      /\ Contents(forward') = Contents(forward) \cup {<<key, value>>}
  <2> DEFINE e == <<key, value>>
             T == Key \X Number
  <2>1. e \in T /\ e[1] = key /\ key \in Nat /\ Vector(forward, T)
    BY <1>1
  <2>2. forward' = InsertAt(forward, InsertionPoint(forward, key), e)
    BY DEF Insert
  <2> HIDE DEF e, T
  <2>3. /\ Vector(forward', T) /\ Sorted(forward')
        /\ forward'.count = forward.count + 1
        /\ Contents(forward') = Contents(forward) \cup {e}
    BY ONLY <1>1, <1>2, <1>3, <2>1, <2>2, InsertedIntoSorted
  <2> QED
    BY <2>3 DEF e, T
<1>6. /\ Vector(backward', Number \X Key) /\ Sorted(backward')
      /\ backward'.count = backward.count + 1
      /\ Contents(backward') = Contents(backward) \cup {<<value, key>>}
  <2> DEFINE e == <<value, key>>
             T == Number \X Key
  <2>1. e \in T /\ e[1] = value /\ value \in Nat /\ Vector(backward, T)
    BY <1>1
  <2>2. backward' = InsertAt(backward, InsertionPoint(backward, value), e)
    BY DEF Insert
  <2> HIDE DEF e, T
  <2>3. /\ Vector(backward', T) /\ Sorted(backward')
        /\ backward'.count = backward.count + 1
        /\ Contents(backward') = Contents(backward) \cup {e}
    BY ONLY <1>1, <1>2, <1>4, <2>1, <2>2, InsertedIntoSorted
  <2> QED
    BY <2>3 DEF e, T
<1>7. VectorsMirror'
  <2>1. ASSUME NEW j \in Key, NEW x \in Number
        PROVE  <<j, x>> \in Contents(forward') <=> <<x, j>> \in Contents(backward')
    <3>1. <<j, x>> \in Contents(forward) <=> <<x, j>> \in Contents(backward)
      BY DEF VectorsMirror
    <3>2. <<j, x>> = <<key, value>> <=> <<x, j>> = <<value, key>>
      OBVIOUS
    <3> QED
      BY <1>5, <1>6, <3>1, <3>2
  <2>2. forward'.count = backward'.count
    BY <1>2, <1>5, <1>6
  <2> QED
    BY <1>5, <1>6, <2>1, <2>2 DEF VectorsMirror, Number
<1>8. UsedValues' = UsedValues \cup {value}
  <2>1. UsedValues' = {p[1] : p \in Contents(backward')}
    BY DEF UsedValues
  <2> DEFINE e == <<value, key>>
  <2>2. e[1] = value /\ Contents(backward') = Contents(backward) \cup {e}
    BY <1>6
  <2> HIDE DEF e
  <2> QED
    BY <2>1, <2>2 DEF UsedValues
<1> QED
  BY <1>5, <1>6, <1>7, <1>8 DEF Number

\* del() of a key that is there takes its pair out of both vectors.
LEMMA DeleteKeeps ==
  ASSUME MapTypeOK, VectorsMirror, NEW key \in Key, NEW i, NEW value,
         i = IndexPlusOne(forward, key), i > 0, value = forward.cells[i][2],
         forward' = RemoveAt(forward, i),
         backward' = RemoveAt(backward, IndexPlusOne(backward, value))
  PROVE  /\ Vector(forward, Key \X Number)' /\ Vector(backward, Number \X Key)'
         /\ VectorsMirror'
         /\ value \in UsedValues /\ value \in Number
         /\ UsedValues' = UsedValues \ {value}
<1> USE MapAssumption
<1>1. /\ Vector(forward, Key \X Number) /\ Vector(backward, Number \X Key)
      /\ forward.count \in Nat /\ backward.count \in Nat
      /\ Key \in SUBSET Nat /\ Number \in SUBSET Nat
  BY ONLY MapTypeOK, MapAssumption DEF MapTypeOK, Vector, Number
<1>2. Sorted(forward) /\ Sorted(backward) /\ forward.count = backward.count
  BY DEF VectorsMirror
<1>3. i \in 1..forward.count /\ KeyAt(forward, i) = key
  <2>1. i \in 0..forward.count
    BY <1>1, <1>2, IndexTells
  <2>2. i \in 1..forward.count
    BY <2>1
  <2> QED
    BY <1>1, <1>2, <2>2, IndexTells
<1>4. /\ forward.cells[i] = <<key, value>> /\ value \in Number
      /\ <<key, value>> \in Contents(forward)
  <2>1. /\ KeyAt(forward, i) \in Key /\ forward.cells[i][2] \in Number
        /\ forward.cells[i] = <<KeyAt(forward, i), forward.cells[i][2]>>
        /\ <<KeyAt(forward, i), forward.cells[i][2]>> \in Contents(forward)
    BY ONLY <1>1, <1>3, PairAt
  <2>2. forward.cells[i][2] = value
    OBVIOUS
  <2> QED
    BY ONLY <1>3, <2>1, <2>2
<1>5. <<value, key>> \in Contents(backward)
  BY <1>4 DEF VectorsMirror
<1>6. PICK j \in 1..backward.count : backward.cells[j] = <<value, key>>
  BY <1>5 DEF Contents
<1>7. KeyAt(backward, j) = value
  BY <1>6 DEF KeyAt
<1>8. IndexPlusOne(backward, value) = j
  BY <1>1, <1>2, <1>4, <1>7, IndexTells
<1>9. /\ Vector(forward', Key \X Number) /\ Sorted(forward')
      /\ forward'.count = forward.count - 1
      /\ Contents(forward') = Contents(forward) \ {<<key, value>>}
  <2> DEFINE w == RemoveAt(forward, i)
  <2>1. /\ Vector(w, Key \X Number) /\ Sorted(w) /\ w.count = forward.count - 1
        /\ Contents(w) = Contents(forward) \ {forward.cells[i]}
    BY <1>1, <1>2, <1>3, RemovedFromSorted, Zenon
  <2>2. forward' = w
    OBVIOUS
  <2> QED
    BY <1>4, <2>1, <2>2, Zenon
<1>10. /\ Vector(backward', Number \X Key) /\ Sorted(backward')
       /\ backward'.count = backward.count - 1
       /\ Contents(backward') = Contents(backward) \ {<<value, key>>}
  <2> DEFINE w == RemoveAt(backward, j)
  <2>1. /\ Vector(w, Number \X Key) /\ Sorted(w) /\ w.count = backward.count - 1
        /\ Contents(w) = Contents(backward) \ {backward.cells[j]}
    BY <1>1, <1>2, RemovedFromSorted, Zenon
  <2>2. backward' = w
    BY <1>8
  <2> QED
    BY <1>6, <2>1, <2>2, Zenon
<1>11. VectorsMirror'
  <2>1. ASSUME NEW a \in Key, NEW x \in Number
        PROVE  <<a, x>> \in Contents(forward') <=> <<x, a>> \in Contents(backward')
    <3>1. <<a, x>> \in Contents(forward) <=> <<x, a>> \in Contents(backward)
      BY DEF VectorsMirror
    <3>2. <<a, x>> = <<key, value>> <=> <<x, a>> = <<value, key>>
      OBVIOUS
    <3> QED
      BY <1>9, <1>10, <3>1, <3>2
  <2>2. forward'.count = backward'.count
    BY <1>2, <1>9, <1>10
  <2> QED
    BY <1>9, <1>10, <2>1, <2>2 DEF VectorsMirror, Number
<1>12. \A p \in Contents(backward) : p[1] = value <=> p = <<value, key>>
  <2> SUFFICES ASSUME NEW k \in 1..backward.count
               PROVE  KeyAt(backward, k) = value <=> backward.cells[k] = <<value, key>>
    BY DEF Contents, KeyAt
  <2>1. KeyAt(backward, k) = value => k = j
    BY <1>1, <1>2, <1>7, SortedIsDistinct
  <2> QED
    BY <1>6, <2>1 DEF KeyAt
<1>13. UsedValues' = UsedValues \ {value}
  <2>1. UsedValues' = {p[1] : p \in Contents(backward')}
    BY DEF UsedValues
  <2> QED
    BY <1>10, <1>12, <2>1 DEF UsedValues
<1>14. value \in UsedValues
  BY <1>5 DEF UsedValues
<1> QED
  BY <1>4, <1>9, <1>10, <1>11, <1>13, <1>14 DEF Number

\* A value is in use for one key, and no key uses two.
LEMMA OneKeyPerValue ==
  ASSUME MapTypeOK, VectorsMirror
  PROVE  /\ \A x \in UsedValues : \E key \in Key : <<key, x>> \in Contents(forward)
         /\ \A key \in Key, x, y \in Number :
              <<key, x>> \in Contents(forward) /\ <<key, y>> \in Contents(forward) => x = y
         /\ \A x \in Number, key, other \in Key :
              <<key, x>> \in Contents(forward) /\ <<other, x>> \in Contents(forward)
                => key = other
         /\ UsedValues \subseteq Number
<1>1. /\ Vector(forward, Key \X Number) /\ Vector(backward, Number \X Key)
      /\ forward.count \in Nat /\ backward.count \in Nat
      /\ Sorted(forward) /\ Sorted(backward)
  BY DEF MapTypeOK, Vector, VectorsMirror
<1>2. ASSUME NEW x \in UsedValues
      PROVE  x \in Number /\ \E key \in Key : <<key, x>> \in Contents(forward)
  <2>1. PICK k \in 1..backward.count : x = KeyAt(backward, k)
    BY DEF UsedValues, Contents, KeyAt
  <2>2. /\ x \in Number /\ backward.cells[k][2] \in Key
        /\ <<x, backward.cells[k][2]>> \in Contents(backward)
    BY <1>1, <2>1, PairAt
  <2> QED
    BY <2>2 DEF VectorsMirror
<1>3. ASSUME NEW v, v.count \in Nat, Sorted(v), NEW a, NEW x, NEW y,
             <<a, x>> \in Contents(v), <<a, y>> \in Contents(v)
      PROVE  x = y
  <2>1. PICK j \in 1..v.count : v.cells[j] = <<a, x>>
    BY <1>3 DEF Contents
  <2>2. PICK k \in 1..v.count : v.cells[k] = <<a, y>>
    BY <1>3 DEF Contents
  <2>3. KeyAt(v, j) = a /\ KeyAt(v, k) = a
    BY <2>1, <2>2 DEF KeyAt
  <2>4. j = k
    BY <1>3, <2>3, SortedIsDistinct
  <2> QED
    BY <2>1, <2>2, <2>4
<1>4. ASSUME NEW x \in Number, NEW key \in Key, NEW other \in Key,
             <<key, x>> \in Contents(forward), <<other, x>> \in Contents(forward)
      PROVE  key = other
  <2>1. <<x, key>> \in Contents(backward) /\ <<x, other>> \in Contents(backward)
    BY <1>4 DEF VectorsMirror
  <2> QED
    BY <1>1, <1>3, <2>1
<1> QED
  BY <1>1, <1>2, <1>3, <1>4

-----------------------------------------------------------------------------
(* The invariant is inductive if there are fewer keys than values: by the time *)
(* mLastValue has come round, every value would be in use, each for a key.     *)

FewerKeys == IsFiniteSet(Key) /\ Cardinality(Key) < ValueWord

LEMMA Modulo ==
  ASSUME NEW n \in Nat \ {0}
  PROVE  n % n = 0 /\ \A a \in 0..(n - 1) : a % n = a
OBVIOUS

\* allocValue(): the next number is not in use if there is none to recycle.
LEMMA NextIsUnused ==
  ASSUME FewerKeys, MapInv, NEW key \in Key, IndexPlusOne(forward, key) = 0,
         freeValues.count = 0,
         NEW new, new = IF lastValue = ValueWord - 1 THEN 0 ELSE lastValue + 1
  PROVE  new \in Number /\ new \notin UsedValues
<1> USE MapAssumption
<1>1. lastValue \in Number /\ MapTypeOK /\ VectorsMirror
  BY DEF MapInv, MapTypeOK
<1>2. new \in Number /\ Age(lastValue, new) = ValueWord - 1
  BY <1>1 DEF Number, Age
<1>3. \A y \in Number : Age(lastValue, y) <= ValueWord - 1
  BY <1>1 DEF Number, Age
<1> SUFFICES ASSUME new \in UsedValues PROVE FALSE
  BY <1>2
<1>4. Contents(freeValues) = {}
  BY DEF Contents
<1>5. \A y \in Number : y # 0 => y \in UsedValues
  BY <1>2, <1>3, <1>4 DEF MapInv, NoGaps, Held
<1> DEFINE keyOf == [y \in 1..(ValueWord - 1) |->
                      CHOOSE k \in Key : <<k, y>> \in Contents(forward)]
<1>6. \A y \in 1..(ValueWord - 1) :
        y \in Number /\ keyOf[y] \in Key /\ <<keyOf[y], y>> \in Contents(forward)
  <2> SUFFICES ASSUME NEW y \in 1..(ValueWord - 1)
               PROVE  /\ y \in Number /\ keyOf[y] \in Key
                      /\ <<keyOf[y], y>> \in Contents(forward)
    OBVIOUS
  <2>1. y \in Number /\ y # 0
    BY DEF Number
  <2>2. \E k \in Key : <<k, y>> \in Contents(forward)
    BY <1>1, <1>5, <2>1, OneKeyPerValue
  <2> QED
    BY <2>1, <2>2
<1>7. key \notin {keyOf[y] : y \in 1..(ValueWord - 1)}
  <2> SUFFICES ASSUME NEW x, <<key, x>> \in Contents(forward) PROVE FALSE
    BY <1>6
  <2>1. PICK k \in 1..forward.count : forward.cells[k] = <<key, x>>
    BY DEF Contents
  <2>2. KeyAt(forward, k) = key
    BY <2>1 DEF KeyAt
  <2>3. forward.count \in Nat /\ Sorted(forward) /\ key \in Nat
    BY <1>1 DEF MapTypeOK, Vector, VectorsMirror
  <2> QED
    BY <2>2, <2>3, IndexTells
<1> HIDE DEF keyOf
<1>8. \A x, y \in 1..(ValueWord - 1) : keyOf[x] = keyOf[y] => x = y
  BY <1>1, <1>6, OneKeyPerValue
<1> DEFINE S == 1..(ValueWord - 1)
           T == Key \ {key}
<1>9. keyOf \in Injection(S, T)
  <2>1. keyOf \in [S -> T]
    BY <1>6, <1>7 DEF keyOf
  <2> QED
    BY <1>8, <2>1 DEF Injection, IsInjective
<1>10. /\ IsFiniteSet(S) /\ Cardinality(S) = ValueWord - 1
  <2>1. 1 \in Int /\ ValueWord - 1 \in Int /\ (1 > ValueWord - 1 <=> ValueWord = 1)
    BY DEF Number
  <2>2. /\ IsFiniteSet(1..(ValueWord - 1))
        /\ Cardinality(1..(ValueWord - 1)) =
             IF 1 > ValueWord - 1 THEN 0 ELSE ValueWord - 1 - 1 + 1
    BY <2>1, FS_Interval, Zenon
  <2> QED
    BY <2>1, <2>2
<1>11. IsFiniteSet(T) /\ Cardinality(T) = Cardinality(Key) - 1
  BY FS_RemoveElement DEF FewerKeys
<1>12. Cardinality(Key) \in Nat /\ Cardinality(Key) < ValueWord
  BY FS_CardinalityType DEF FewerKeys
<1> HIDE DEF S, T
<1>13. Cardinality(S) <= Cardinality(T)
  BY <1>9, <1>10, <1>11, FS_Injection
<1> QED
  BY <1>10, <1>11, <1>12, <1>13

LEMMA MapInvInit ==
  ASSUME MapInit
  PROVE  MapInv
<1> USE MapAssumption
<1>1. ASSUME NEW T PROVE Vector(EmptyVector, T) /\ Sorted(EmptyVector)
  BY EmptySeq DEF Vector, Sorted, EmptyVector
<1>2. Contents(EmptyVector) = {} /\ EmptyVector.count = 0
  BY DEF Contents, EmptyVector
<1>3. /\ forward = EmptyVector /\ backward = EmptyVector
      /\ freeValues = EmptyVector /\ lastValue \in Number
  BY DEF MapInit, Number
<1>4. MapTypeOK
  BY <1>1, <1>3 DEF MapTypeOK
<1>5. VectorsMirror
  BY <1>1, <1>2, <1>3 DEF VectorsMirror
<1>6. UsedValues = {} /\ Held = {}
  BY <1>2, <1>3 DEF UsedValues, Held
<1>7. FreeOnce
  BY <1>2, <1>3, <1>6 DEF FreeOnce, Distinct
<1>8. NoGaps
  BY <1>6 DEF NoGaps
<1> QED
  BY <1>4, <1>5, <1>7, <1>8 DEF MapInv

LEMMA MapInvAddRecycled ==
  ASSUME MapInv, NEW key \in Key, AddRecycled(key)
  PROVE  MapInv'
<1> DEFINE value == freeValues.cells[1]
<1>1. /\ MapTypeOK /\ VectorsMirror /\ FreeOnce /\ Vector(freeValues, Number)
      /\ freeValues.count \in Nat /\ 1 \in 1..freeValues.count
  BY DEF MapInv, MapTypeOK, Vector, AddRecycled
<1>2. value \in Number /\ value \in Contents(freeValues) /\ value \notin UsedValues
  <2>1. value \in Contents(freeValues)
    BY <1>1 DEF Contents
  <2>2. value \in Number
    BY <1>1 DEF Vector
  <2> QED
    BY <1>1, <2>1, <2>2 DEF FreeOnce
<1>3. /\ IndexPlusOne(forward, key) = 0 /\ Insert(key, value)
      /\ freeValues' = RemoveAt(freeValues, 1) /\ lastValue' = lastValue
  BY DEF AddRecycled, Popped
<1>4. /\ Vector(freeValues', Number) /\ Distinct(freeValues')
      /\ Contents(freeValues') = Contents(freeValues) \ {value}
  <2> DEFINE w == RemoveAt(freeValues, 1)
  <2>1. /\ Vector(w, Number) /\ Distinct(w)
        /\ Contents(w) = Contents(freeValues) \ {value}
    BY <1>1, RemovedFromSet, Zenon DEF FreeOnce
  <2> QED
    BY <1>3, <2>1, Zenon
<1> HIDE DEF value
<1>5. /\ Vector(forward, Key \X Number)' /\ Vector(backward, Number \X Key)'
      /\ VectorsMirror' /\ UsedValues' = UsedValues \cup {value}
  BY <1>1, <1>2, <1>3, InsertKeeps
<1>6. MapTypeOK'
  BY <1>1, <1>3, <1>4, <1>5 DEF MapTypeOK, Number
<1>7. FreeOnce'
  BY <1>1, <1>4, <1>5 DEF FreeOnce
<1>8. Held' = Held
  BY <1>2, <1>4, <1>5 DEF Held
<1>9. NoGaps'
  BY <1>3, <1>8 DEF MapInv, NoGaps, Age, Number
<1> QED
  BY <1>5, <1>6, <1>7, <1>9 DEF MapInv

LEMMA MapInvAddNew ==
  ASSUME FewerKeys, MapInv, NEW key \in Key, AddNew(key)
  PROVE  MapInv'
<1> USE MapAssumption
<1>1. /\ MapTypeOK /\ VectorsMirror /\ FreeOnce /\ lastValue \in Number
      /\ freeValues.count = 0
  BY DEF MapInv, MapTypeOK, AddNew
<1>2. /\ IndexPlusOne(forward, key) = 0 /\ Insert(key, lastValue')
      /\ lastValue' = (lastValue + 1) % ValueWord /\ freeValues' = freeValues
  BY DEF AddNew
<1>3. lastValue' = IF lastValue = ValueWord - 1 THEN 0 ELSE lastValue + 1
  <2>1. lastValue = ValueWord - 1 => lastValue + 1 = ValueWord
    BY <1>1 DEF Number
  <2>2. lastValue # ValueWord - 1 => lastValue + 1 \in 0..(ValueWord - 1)
    BY <1>1 DEF Number
  <2> QED
    BY <1>2, <2>1, <2>2, Modulo
<1>4. lastValue' \in Number /\ lastValue' \notin UsedValues
  BY <1>2, <1>3, <1>1, NextIsUnused
<1>5. /\ Vector(forward, Key \X Number)' /\ Vector(backward, Number \X Key)'
      /\ VectorsMirror' /\ UsedValues' = UsedValues \cup {lastValue'}
  BY <1>1, <1>2, <1>4, InsertKeeps
<1>6. MapTypeOK'
  BY <1>1, <1>2, <1>4, <1>5 DEF MapTypeOK, Number
<1>7. Contents(freeValues) = {} /\ Contents(freeValues') = {}
  BY <1>1, <1>2 DEF Contents
<1>8. FreeOnce'
  BY <1>1, <1>2, <1>7 DEF FreeOnce
<1>9. Held' = Held \cup {lastValue'} /\ Held \subseteq Number
  BY <1>1, <1>5, <1>7, OneKeyPerValue DEF Held
<1>10. \A x \in Number : x # lastValue' => Age(lastValue', x) = Age(lastValue, x) + 1
  BY <1>1, <1>3 DEF Age, Number
<1>11. Age(lastValue', lastValue') = 0
  BY <1>1, <1>3, <1>4 DEF Age, Number
<1>12. NoGaps'
  <2> SUFFICES ASSUME NEW x \in Held', NEW y \in Number,
                      Age(lastValue', y) <= Age(lastValue', x),
                      y # lastValue', y # 0
               PROVE  y \in Held
    BY <1>9 DEF NoGaps, Number
  <2>1. \A z \in Number : Age(lastValue, z) \in Nat
    BY <1>1 DEF Age, Number
  <2>2. x # lastValue'
    BY <1>10, <1>11, <2>1
  <2>3. x \in Held /\ Age(lastValue, y) <= Age(lastValue, x)
    BY <1>9, <1>10, <2>1, <2>2
  <2> QED
    BY <2>3 DEF MapInv, NoGaps
<1> QED
  BY <1>5, <1>6, <1>8, <1>12 DEF MapInv

LEMMA MapInvDelete ==
  ASSUME MapInv, NEW key \in Key, Delete(key)
  PROVE  MapInv'
<1> USE MapAssumption
<1>1. /\ MapTypeOK /\ VectorsMirror /\ FreeOnce /\ lastValue \in Number
      /\ Vector(freeValues, Number) /\ UsedValues \subseteq Number
      /\ Contents(freeValues) \subseteq Number
  <2>1. MapTypeOK /\ VectorsMirror /\ FreeOnce
    BY DEF MapInv
  <2> QED
    BY <2>1, OneKeyPerValue DEF MapTypeOK, Contents, Vector
<1> DEFINE i == IndexPlusOne(forward, key)
           value == forward.cells[i][2]
<1>2. /\ i > 0 /\ forward' = RemoveAt(forward, i)
      /\ backward' = RemoveAt(backward, IndexPlusOne(backward, value))
      /\ FreeValue(value)
  BY DEF Delete
<1> HIDE DEF i
<1>3. /\ Vector(forward, Key \X Number)' /\ Vector(backward, Number \X Key)'
      /\ VectorsMirror' /\ value \in UsedValues /\ value \in Number
      /\ UsedValues' = UsedValues \ {value}
  BY <1>1, <1>2, DeleteKeeps DEF i
<1> HIDE DEF value
<1>4. value \notin Contents(freeValues)
  BY <1>1, <1>3 DEF FreeOnce
<1>5. \A z \in Number : Age(lastValue, z) \in Nat
  BY <1>1 DEF Age, Number
<1>6. CASE value = 0
  <2>1. lastValue' = lastValue /\ freeValues' = freeValues
    BY <1>2, <1>6 DEF FreeValue
  <2>2. MapTypeOK'
    BY <1>1, <1>3, <2>1 DEF MapTypeOK, Number
  <2>3. FreeOnce'
    BY <1>1, <1>3, <2>1 DEF FreeOnce
  <2>4. Held' = Held \ {0}
    BY <1>3, <1>4, <1>6, <2>1 DEF Held
  <2>5. NoGaps'
    BY <2>1, <2>4 DEF MapInv, NoGaps, Age, Number
  <2> QED
    BY <1>3, <2>2, <2>3, <2>5 DEF MapInv
<1>7. CASE value # 0 /\ value = lastValue
  <2>1. lastValue' = lastValue - 1 /\ freeValues' = freeValues
    <3>1. value - 1 \in 0..(ValueWord - 1)
      BY <1>3, <1>7 DEF Number
    <3> QED
      BY <1>2, <1>7, <3>1, Modulo DEF FreeValue
  <2>2. MapTypeOK'
    <3>1. lastValue' \in Number
      BY <1>1, <1>7, <2>1 DEF Number
    <3> QED
      BY <1>1, <1>3, <2>1, <3>1 DEF MapTypeOK, Number
  <2>3. FreeOnce'
    BY <1>1, <1>3, <2>1 DEF FreeOnce
  <2>4. Held' = Held \ {value} /\ Held \subseteq Number
    BY <1>1, <1>3, <1>4, <2>1 DEF Held
  <2>5. \A x \in Number : x # value => Age(lastValue', x) = Age(lastValue, x) - 1
    BY <1>1, <1>7, <2>1 DEF Age, Number
  <2>6. /\ Age(lastValue', value) = ValueWord - 1
        /\ \A x \in Number : Age(lastValue', x) <= ValueWord - 1
    BY <1>1, <1>7, <2>1 DEF Age, Number
  <2>7. NoGaps'
    <3> SUFFICES ASSUME NEW x \in Held', NEW y \in Number,
                        Age(lastValue', y) <= Age(lastValue', x), y # 0
                 PROVE  y \in Held'
      BY DEF NoGaps, Number
    <3>1. x \in Held /\ x \in Number /\ x # value /\ Age(lastValue', x) = Age(lastValue, x) - 1
      BY <2>4, <2>5
    <3>2. Age(lastValue, x) <= ValueWord - 1
      BY <1>1, <3>1 DEF Age, Number
    <3>3. y # value
      BY <1>5, <2>6, <3>1, <3>2
    <3>4. Age(lastValue, y) <= Age(lastValue, x)
      BY <1>5, <2>5, <3>1, <3>3
    <3>5. y \in Held
      BY <3>1, <3>4 DEF MapInv, NoGaps
    <3> QED
      BY <2>4, <3>3, <3>5
  <2> QED
    BY <1>3, <2>2, <2>3, <2>7 DEF MapInv
<1>8. CASE value # 0 /\ value # lastValue
  <2>1. lastValue' = lastValue /\ freeValues' = Appended(freeValues, value)
    BY <1>2, <1>8 DEF FreeValue
  <2>2. /\ Vector(freeValues', Number) /\ Distinct(freeValues')
        /\ Contents(freeValues') = Contents(freeValues) \cup {value}
    <3> DEFINE w == Appended(freeValues, value)
    <3>1. /\ Vector(w, Number) /\ Distinct(w)
          /\ Contents(w) = Contents(freeValues) \cup {value}
      BY <1>1, <1>3, <1>4, AppendedToSet, Zenon DEF FreeOnce
    <3> QED
      BY <2>1, <3>1, Zenon
  <2>3. MapTypeOK'
    BY <1>1, <1>3, <2>1, <2>2 DEF MapTypeOK, Number
  <2>4. FreeOnce'
    BY <1>1, <1>3, <2>2 DEF FreeOnce
  <2>5. Held' = Held
    BY <1>3, <2>2 DEF Held
  <2>6. NoGaps'
    BY <2>1, <2>5 DEF MapInv, NoGaps, Age, Number
  <2> QED
    BY <1>3, <2>3, <2>4, <2>6 DEF MapInv
<1> QED
  BY <1>6, <1>7, <1>8

LEMMA MapInvStep ==
  ASSUME FewerKeys, MapInv, [MapNext]_mapVars
  PROVE  MapInv'
<1>1. ASSUME NEW key \in Key, AddRecycled(key) PROVE MapInv'
  BY <1>1, MapInvAddRecycled
<1>2. ASSUME NEW key \in Key, AddNew(key) PROVE MapInv'
  BY <1>2, MapInvAddNew
<1>3. ASSUME NEW key \in Key, Delete(key) PROVE MapInv'
  BY <1>3, MapInvDelete
<1>4. CASE UNCHANGED mapVars
  <2>1. /\ forward' = forward /\ backward' = backward
        /\ lastValue' = lastValue /\ freeValues' = freeValues
    BY <1>4 DEF mapVars
  <2>2. MapTypeOK' <=> MapTypeOK
    BY <2>1 DEF MapTypeOK, Number
  <2>3. VectorsMirror' <=> VectorsMirror
    BY <2>1 DEF VectorsMirror, Number
  <2>4. UsedValues' = UsedValues /\ Held' = Held
    BY <2>1 DEF UsedValues, Held
  <2>5. FreeOnce' <=> FreeOnce
    BY <2>1, <2>4 DEF FreeOnce
  <2>6. NoGaps' <=> NoGaps
    BY <2>1, <2>4 DEF NoGaps, Number
  <2> QED
    BY <2>2, <2>3, <2>5, <2>6 DEF MapInv
<1> QED
  BY <1>1, <1>2, <1>3, <1>4 DEF MapNext

LEMMA MapInvariant ==
  ASSUME FewerKeys
  PROVE  MapSpec => []MapInv
<1>1. MapInit => MapInv
  BY MapInvInit
<1>2. MapInv /\ [MapNext]_mapVars => MapInv'
  BY MapInvStep
<1> QED
  BY <1>1, <1>2, PTL DEF MapSpec

\* Every key has a value of its own, and no value that is kept for reuse is in
\* use: add() and del() in any order, the recycling of values and the wrap of
\* mLastValue hand no value out twice.
THEOREM ValuesStayDistinct ==
  ASSUME FewerKeys
  PROVE  MapSpec => []ValuesDistinct
<1>1. ASSUME MapInv PROVE ValuesDistinct
  <2>1. /\ MapTypeOK /\ VectorsMirror /\ FreeOnce
        /\ Vector(forward, Key \X Number) /\ Vector(freeValues, Number)
        /\ forward.count \in Nat /\ freeValues.count \in Nat
        /\ freeValues.cells \in Seq(Number \cup {Zero})
        /\ freeValues.count <= Len(freeValues.cells) /\ Sorted(forward)
    BY <1>1 DEF MapInv, MapTypeOK, Vector, VectorsMirror
  <2>2. \A k \in 1..forward.count :
           /\ KeyAt(forward, k) \in Key /\ forward.cells[k][2] \in Number
           /\ <<KeyAt(forward, k), forward.cells[k][2]>> \in Contents(forward)
    BY ONLY <2>1, PairAt
  <2> DEFINE n == forward.count
             m == freeValues.count
             used == [k \in 1..n |-> forward.cells[k][2]]
             kept == Items(freeValues)
             all == used \o kept
  <2>3. used \in Seq(Number) /\ Len(used) = n
    <3>1. \A k \in 1..n : forward.cells[k][2] \in Number
      BY <2>1, PairAt
    <3>2. used \in [1..n -> Number]
      BY <3>1
    <3> QED
      BY <2>1, <3>2, BlockIsSeq
  <2>4. kept \in Seq(Number \cup {Zero}) /\ Len(kept) = m
        /\ \A k \in 1..m : kept[k] = freeValues.cells[k]
    BY <2>1, SubSeqProperties DEF Items
  <2>5. \A k \in 1..n : used[k] = forward.cells[k][2]
    OBVIOUS
  <2> HIDE DEF used, kept
  <2>6. /\ Len(all) = n + m
        /\ \A k \in 1..(n + m) : all[k] = IF k <= n THEN used[k] ELSE kept[k - n]
        /\ DOMAIN all = 1..(n + m)
    <3>1. /\ Len(all) = Len(used) + Len(kept) /\ all \in Seq(Number \cup {Zero})
          /\ \A k \in 1..(Len(used) + Len(kept)) :
               all[k] = IF k <= Len(used) THEN used[k] ELSE kept[k - Len(used)]
      <4>1. used \in Seq(Number \cup {Zero})
        BY <2>3
      <4> QED
        BY ONLY <4>1, <2>4, ConcatProperties
    <3> HIDE DEF all
    <3> QED
      BY <2>3, <2>4, <3>1, LenProperties
  <2>7. ASSUME NEW j \in 1..n, NEW k \in 1..n, used[j] = used[k] PROVE j = k
    <3>1. /\ KeyAt(forward, j) \in Key /\ used[j] \in Number
          /\ <<KeyAt(forward, j), used[j]>> \in Contents(forward)
      BY <2>5, <2>2
    <3>2. /\ KeyAt(forward, k) \in Key
          /\ <<KeyAt(forward, k), used[j]>> \in Contents(forward)
      BY <2>5, <2>7, <2>2
    <3>3. KeyAt(forward, j) = KeyAt(forward, k)
      BY <2>1, <3>1, <3>2, OneKeyPerValue
    <3> QED
      BY <2>1, <3>3, SortedIsDistinct
  <2>8. \A k \in 1..n : used[k] \in UsedValues
    <3> SUFFICES ASSUME NEW k \in 1..n PROVE used[k] \in UsedValues
      OBVIOUS
    <3>1. /\ KeyAt(forward, k) \in Key /\ used[k] \in Number
          /\ <<KeyAt(forward, k), used[k]>> \in Contents(forward)
      BY <2>5, <2>2
    <3>2. <<used[k], KeyAt(forward, k)>> \in Contents(backward)
      BY <2>1, <3>1 DEF VectorsMirror
    <3> QED
      BY <3>2 DEF UsedValues
  <2>9. \A k \in 1..m : kept[k] \notin UsedValues
    BY <2>1, <2>4 DEF FreeOnce, Contents
  <2>10. \A j, k \in 1..m : kept[j] = kept[k] => j = k
    BY <2>1, <2>4 DEF FreeOnce, Distinct
  <2>11. ASSUME NEW j \in 1..(n + m), NEW k \in 1..(n + m), all[j] = all[k]
         PROVE  j = k
    <3> HIDE DEF all
    <3>1. /\ j <= n => j \in 1..n /\ all[j] = used[j]
          /\ ~(j <= n) => j - n \in 1..m /\ all[j] = kept[j - n]
          /\ k <= n => k \in 1..n /\ all[k] = used[k]
          /\ ~(k <= n) => k - n \in 1..m /\ all[k] = kept[k - n]
      BY <2>1, <2>6
    <3>2. CASE j <= n /\ k <= n
      BY <2>7, <2>11, <3>1, <3>2
    <3>3. CASE ~(j <= n) /\ ~(k <= n)
      <4>1. j - n = k - n
        BY <2>10, <2>11, <3>1, <3>3
      <4> QED
        BY <2>1, <4>1
    <3>4. CASE j <= n /\ ~(k <= n)
      BY <2>8, <2>9, <2>11, <3>1, <3>4
    <3>5. CASE ~(j <= n) /\ k <= n
      BY <2>8, <2>9, <2>11, <3>1, <3>5
    <3> QED
      BY <3>2, <3>3, <3>4, <3>5
  <2> HIDE DEF all
  <2>12. \A j, k \in DOMAIN all : all[j] = all[k] => j = k
    BY <2>6, <2>11
  <2> QED
    BY <2>12 DEF ValuesDistinct, all, used, kept
<1> QED
  BY <1>1, MapInvariant, PTL

\* The two vectors answer alike: the searches find every key's value and every
\* value's key.
THEOREM LookupsAgree ==
  ASSUME FewerKeys
  PROVE  MapSpec => []PairsAgree
<1> USE MapAssumption
<1>1. ASSUME MapInv PROVE PairsAgree
  <2>1. /\ VectorsMirror /\ Sorted(forward) /\ Sorted(backward)
        /\ Vector(forward, Key \X Number) /\ Vector(backward, Number \X Key)
        /\ forward.count = backward.count
        /\ forward.count \in Nat /\ backward.count \in Nat
    BY <1>1 DEF MapInv, MapTypeOK, Vector, VectorsMirror
  <2>2. \A k \in 1..forward.count :
          /\ KeyAt(forward, k) \in Key /\ forward.cells[k][2] \in Number
          /\ <<KeyAt(forward, k), forward.cells[k][2]>> \in Contents(forward)
    BY ONLY <2>1, PairAt
  <2>3. ASSUME NEW k \in 1..forward.count
        PROVE  LET key == KeyAt(forward, k)
                   value == forward.cells[k][2]
               IN  Find(key) = value /\ FindKeyFor(value) = key
    <3> DEFINE key == KeyAt(forward, k)
               value == forward.cells[k][2]
    <3>1. /\ key \in Key /\ key \in Nat /\ value \in Number /\ value \in Nat
          /\ <<key, value>> \in Contents(forward)
      <4>1. key \in Key /\ value \in Number /\ <<key, value>> \in Contents(forward)
        BY <2>2, Zenon
      <4> HIDE DEF key, value
      <4> QED
        BY <4>1 DEF Number
    <3>2. IndexPlusOne(forward, key) = k /\ k # 0
      BY <2>1, <3>1, IndexTells
    <3>3. Find(key) = value
      BY <3>2 DEF Find
    <3> HIDE DEF key, value
    <3>4. <<value, key>> \in Contents(backward)
      BY <2>1, <3>1 DEF VectorsMirror
    <3>5. PICK j \in 1..backward.count : backward.cells[j] = <<value, key>>
      BY <3>4 DEF Contents
    <3>6. KeyAt(backward, j) = value /\ backward.cells[j][2] = key
      BY <3>5 DEF KeyAt
    <3>7. IndexPlusOne(backward, value) = j /\ j # 0
      BY <2>1, <3>1, <3>6, IndexTells
    <3>8. FindKeyFor(value) = key
      BY <3>6, <3>7 DEF FindKeyFor
    <3> QED
      BY <3>3, <3>8 DEF key, value
  <2> QED
    BY <2>1, <2>3 DEF PairsAgree, KeyAt
<1> QED
  BY <1>1, MapInvariant, PTL

-----------------------------------------------------------------------------
(* The hash table.                                                            *)

Home(shift, key) == key % Prime(shift)

\* No two ids have the same first slot, at any size of the table.
Apart ==
  \A shift \in MinShift..MaxShift : \A j, k \in Id :
    Home(shift, j) = Home(shift, k) => j = k

\* Every key is where its probe starts.
AtHome(shift, keys, values) ==
  /\ keys = [n \in 0..Capacity(shift) |-> keys[n]]
  /\ values = [n \in 0..Capacity(shift) |-> values[n]]
  /\ \A n \in 0..(Capacity(shift) - 1) :
       /\ keys[n] \in Id \cup {InvalidKey, Tombstone}
       /\ keys[n] \in Id => n = Home(shift, keys[n])

\* The table is the dictionary d.
Holds(shift, keys, values, d) ==
  \A key \in Id :
    IF keys[Home(shift, key)] = key
    THEN d[key] = values[Home(shift, key)] /\ d[key] \in Thing
    ELSE d[key] = Null

TableInv ==
  /\ stuck = FALSE
  /\ mShift \in MinShift..MaxShift
  /\ dict = [k \in Id |-> dict[k]]
  /\ AtHome(mShift, mKeys, mValues)
  /\ Holds(mShift, mKeys, mValues, dict)

LEMMA HomeInside ==
  ASSUME NEW shift \in MinShift..MaxShift
  PROVE  /\ Capacity(shift) \in Nat
         /\ \A key \in Id : key \in Nat /\ Home(shift, key) \in 0..(Capacity(shift) - 1)
<1>1. Capacity(shift) \in Nat /\ Prime(shift) \in 1..Capacity(shift)
  BY PrimeAssumption
<1>2. ASSUME NEW key \in Id
      PROVE  key \in Nat /\ Home(shift, key) \in 0..(Capacity(shift) - 1)
  <2> DEFINE p == Prime(shift)
             c == Capacity(shift)
  <2>1. key \in Nat /\ p \in 1..c /\ c \in Nat
    BY <1>1, IdAssumption
  <2> HIDE DEF p, c
  <2>2. key % p \in 0..(c - 1)
    BY <2>1
  <2> QED
    BY <2>1, <2>2 DEF Home, p, c
<1> QED
  BY <1>1, <1>2

\* A probe ends where it starts.
LEMMA FirstSlot ==
  ASSUME Apart, NEW shift \in MinShift..MaxShift, NEW keys, NEW values,
         AtHome(shift, keys, values), NEW key \in Id
  PROVE  /\ ProbeKeys(keys, shift, key) = Home(shift, key)
         /\ Home(shift, key) # NoSlot
         /\ keys[Home(shift, key)] \in {InvalidKey, Tombstone, key}
         /\ IsValidKey(keys[Home(shift, key)]) <=> keys[Home(shift, key)] = key
<1> DEFINE h == Home(shift, key)
<1>1. key \in Nat /\ h \in 0..(Capacity(shift) - 1) /\ Capacity(shift) \in Nat
  BY HomeInside
<1>2. h = key % Prime(shift)
  BY DEF Home
<1>3. keys[h] \in {InvalidKey, Tombstone, key}
  <2>1. keys[h] \in Id => h = Home(shift, keys[h])
    BY <1>1 DEF AtHome
  <2>2. keys[h] \in Id => keys[h] = key
    BY <2>1 DEF Apart
  <2>3. keys[h] \in Id \cup {InvalidKey, Tombstone}
    BY <1>1 DEF AtHome
  <2> QED
    BY <2>2, <2>3
<1>4. IsValidKey(keys[h]) <=> keys[h] = key
  BY <1>1, <1>3 DEF IsValidKey, InvalidKey, Tombstone
<1> HIDE DEF h
<1> DEFINE probes == <<h, 0, Capacity(shift)>>
           stops == {k \in 1..3 : Stops(keys, probes[k], key)}
<1>5. 1 \in stops
  BY <1>3 DEF Stops
<1>6. (CHOOSE k \in stops : \A j \in stops : k <= j) = 1
  <2>1. \A j \in stops : j \in Nat /\ 1 <= j
    OBVIOUS
  <2> HIDE DEF stops
  <2>2. \A k \in stops : (\A j \in stops : k <= j) <=> k = 1
    BY <1>5, <2>1
  <2> QED
    BY <1>5, <2>2
<1>7. probes[1] = h
  OBVIOUS
<1>8. ProbeKeys(keys, shift, key) =
        IF stops = {} THEN NoSlot
        ELSE probes[CHOOSE k \in stops : \A j \in stops : k <= j]
  BY Zenon DEF ProbeKeys, h, Home
<1> HIDE DEF stops, probes
<1>9. ProbeKeys(keys, shift, key) = h
  BY <1>5, <1>6, <1>7, <1>8
<1>10. h # NoSlot
  BY <1>1 DEF NoSlot
<1> QED
  BY <1>3, <1>4, <1>9, <1>10 DEF h

\* resize() picks one of the sizes.
LEMMA ShiftInRange ==
  ASSUME NEW shift \in MinShift..MaxShift, NEW size
  PROVE  NewShift(shift, size) \in MinShift..MaxShift
<1> USE IdAssumption
<1> DEFINE up == {s \in shift..MaxShift : s = MaxShift \/ ~TooSmall(s, size)}
           down == {s \in MinShift..shift : s = MinShift \/ ~TooLarge(s, size)}
           least == CHOOSE s \in up : \A t \in up : s <= t
           greatest == CHOOSE s \in down : \A t \in down : t <= s
<1>1. up \subseteq MinShift..MaxShift /\ MaxShift \in up
  OBVIOUS
<1>2. down \subseteq MinShift..MaxShift /\ MinShift \in down
  OBVIOUS
<1>3. NewShift(shift, size) = IF TooSmall(shift, size) THEN least ELSE greatest
  BY Zenon DEF NewShift
<1> HIDE DEF up, down
<1>4. least \in up
  <2>1. up \in SUBSET Nat /\ up # {}
    BY <1>1
  <2>2. \E s \in up : \A t \in up : s <= t
    BY <2>1, LeastNumber
  <2> QED
    BY <2>2
<1>5. greatest \in down
  <2> DEFINE Q == {MaxShift - s : s \in down}
  <2>1. Q \in SUBSET Nat /\ Q # {}
    BY <1>2
  <2>2. PICK m \in Q : \A q \in Q : m <= q
    <3> HIDE DEF Q
    <3> QED
      BY <2>1, LeastNumber
  <2>3. PICK s \in down : m = MaxShift - s
    BY <2>2
  <2>4. \A t \in down : t <= s
    <3> SUFFICES ASSUME NEW t \in down PROVE t <= s
      OBVIOUS
    <3>1. m <= MaxShift - t
      BY <2>2
    <3> QED
      BY <1>2, <2>3, <3>1
  <2> QED
    BY <2>4
<1> QED
  BY <1>1, <1>2, <1>3, <1>4, <1>5

\* A table with two cells written.
Put(f, i, x) == [f EXCEPT ![i] = x]

Written(t, slot, key, x) == [t EXCEPT !.keys[slot] = key, !.values[slot] = x]

LEMMA WrittenIs ==
  ASSUME NEW A, NEW B, NEW z, NEW t, t = [keys |-> A, values |-> B, stuck |-> z],
         NEW slot, NEW key, NEW x
  PROVE  Written(t, slot, key, x) =
           [keys |-> Put(A, slot, key), values |-> Put(B, slot, x), stuck |-> z]
<1> DEFINE u == [t EXCEPT !.keys[slot] = key]
<1>1. u = [keys |-> [A EXCEPT ![slot] = key], values |-> B, stuck |-> z]
  OBVIOUS
<1>2. [u EXCEPT !.values[slot] = x] =
        [keys |-> [A EXCEPT ![slot] = key], values |-> [B EXCEPT ![slot] = x],
         stuck |-> z]
  <2> DEFINE W == [A EXCEPT ![slot] = key]
  <2>1. u = [keys |-> W, values |-> B, stuck |-> z]
    BY <1>1
  <2> HIDE DEF u, W
  <2>2. [u EXCEPT !.values[slot] = x] =
          [keys |-> W, values |-> [B EXCEPT ![slot] = x], stuck |-> z]
    BY <2>1
  <2> QED
    BY <2>2 DEF W
<1> QED
  BY <1>2 DEF Written, Put

\* A key is written into its cell, or a tombstone.
LEMMA WriteAtHome ==
  ASSUME Apart, NEW shift \in MinShift..MaxShift, NEW keys, NEW values,
         AtHome(shift, keys, values), NEW key \in Id, NEW x,
         NEW y \in {key, Tombstone}
  PROVE  AtHome(shift, [keys EXCEPT ![Home(shift, key)] = y],
                       [values EXCEPT ![Home(shift, key)] = x])
<1> DEFINE h == Home(shift, key)
           K == [keys EXCEPT ![h] = y]
           V == [values EXCEPT ![h] = x]
           c == Capacity(shift)
<1>1. h \in 0..(c - 1) /\ c \in Nat
  BY HomeInside
<1>2. h = Home(shift, key)
  OBVIOUS
<1> HIDE DEF h, c
<1>3. /\ keys = [n \in 0..c |-> keys[n]] /\ values = [n \in 0..c |-> values[n]]
      /\ \A n \in 0..(c - 1) : /\ keys[n] \in Id \cup {InvalidKey, Tombstone}
                               /\ keys[n] \in Id => n = Home(shift, keys[n])
  BY DEF AtHome, c
<1>4. DOMAIN keys = 0..c /\ DOMAIN values = 0..c
  BY ONLY <1>3
<1>5. /\ K = [n \in 0..c |-> IF n = h THEN y ELSE keys[n]]
      /\ V = [n \in 0..c |-> IF n = h THEN x ELSE values[n]]
  BY ONLY <1>4
<1> HIDE DEF K, V
<1>6. K = [n \in 0..c |-> K[n]] /\ V = [n \in 0..c |-> V[n]]
  BY ONLY <1>5
<1>7. \A n \in 0..(c - 1) : K[n] = IF n = h THEN y ELSE keys[n]
  BY <1>1, <1>5
<1>8. \A n \in 0..(c - 1) : /\ K[n] \in Id \cup {InvalidKey, Tombstone}
                            /\ K[n] \in Id => n = Home(shift, K[n])
  <2> SUFFICES ASSUME NEW n \in 0..(c - 1)
               PROVE  /\ K[n] \in Id \cup {InvalidKey, Tombstone}
                      /\ K[n] \in Id => n = Home(shift, K[n])
    OBVIOUS
  <2>1. CASE n = h
    <3>1. K[n] = y
      BY <1>7, <2>1
    <3>2. CASE y = key
      <4>1. Home(shift, K[n]) = h
        BY <1>2, <3>1, <3>2, Zenon
      <4> QED
        BY <2>1, <3>1, <3>2, <4>1
    <3>3. CASE y = Tombstone
      <4>1. Tombstone \notin Id
        BY IdAssumption DEF Tombstone
      <4> QED
        BY <3>1, <3>3, <4>1
    <3> QED
      BY <3>2, <3>3
  <2>2. CASE n # h
    <3>1. K[n] = keys[n]
      BY <1>7, <2>2
    <3>2. /\ keys[n] \in Id \cup {InvalidKey, Tombstone}
          /\ keys[n] \in Id => n = Home(shift, keys[n])
      BY ONLY <1>3, n \in 0..(c - 1), Zenon
    <3> QED
      BY ONLY <3>1, <3>2, Zenon
  <2> QED
    BY <2>1, <2>2
<1>9. AtHome(shift, K, V)
  BY ONLY <1>6, <1>8 DEF AtHome, c
<1> QED
  BY <1>9 DEF K, V, h

\* The dictionary with the object entered, or without it.
LEMMA WriteHolds ==
  ASSUME Apart, NEW shift \in MinShift..MaxShift, NEW keys, NEW values, NEW d,
         AtHome(shift, keys, values), Holds(shift, keys, values, d),
         d = [k \in Id |-> d[k]], NEW key \in Id, NEW x, NEW y,
         (y = key /\ x \in Thing) \/ (y = Tombstone /\ x = Null)
  PROVE  Holds(shift, [keys EXCEPT ![Home(shift, key)] = y],
                      [values EXCEPT ![Home(shift, key)] = x],
                      [d EXCEPT ![key] = x])
<1> DEFINE h == Home(shift, key)
           K == [keys EXCEPT ![h] = y]
           V == [values EXCEPT ![h] = x]
           D == [d EXCEPT ![key] = x]
           c == Capacity(shift)
<1>1. /\ c \in Nat /\ Tombstone \notin Id
      /\ \A k \in Id : Home(shift, k) \in 0..(c - 1)
  BY HomeInside, IdAssumption DEF Tombstone
<1>2. 0..(c - 1) \subseteq 0..c
  BY <1>1
<1>3. h \in 0..(c - 1) /\ \A k \in Id : Home(shift, k) = h <=> k = key
  BY <1>1 DEF Apart
<1> HIDE DEF h, c
<1>4. keys = [n \in 0..c |-> keys[n]] /\ values = [n \in 0..c |-> values[n]]
  BY DEF AtHome, c
<1>5. DOMAIN keys = 0..c /\ DOMAIN values = 0..c /\ DOMAIN d = Id
  BY ONLY <1>4, d = [k \in Id |-> d[k]]
<1>6. \A n \in 0..c : /\ K[n] = IF n = h THEN y ELSE keys[n]
                      /\ V[n] = IF n = h THEN x ELSE values[n]
  BY ONLY <1>5
<1>7. \A k \in Id : D[k] = IF k = key THEN x ELSE d[k]
  BY ONLY <1>5
<1> HIDE DEF K, V, D
<1>8. ASSUME NEW k \in Id
      PROVE  IF K[Home(shift, k)] = k THEN D[k] = V[Home(shift, k)] /\ D[k] \in Thing
             ELSE D[k] = Null
  <2> DEFINE g == Home(shift, k)
  <2>1. g \in 0..c /\ (g = h <=> k = key)
    BY <1>1, <1>2, <1>3
  <2>2. IF keys[g] = k THEN d[k] = values[g] /\ d[k] \in Thing ELSE d[k] = Null
    BY DEF Holds
  <2> HIDE DEF g
  <2>3. CASE k = key
    <3>1. K[g] = y /\ V[g] = x /\ D[k] = x
      BY <1>6, <1>7, <2>1, <2>3
    <3> QED
      BY <1>1, <2>3, <3>1 DEF g
  <2>4. CASE k # key
    <3>1. K[g] = keys[g] /\ V[g] = values[g] /\ D[k] = d[k]
      BY <1>6, <1>7, <2>1, <2>4
    <3> QED
      BY <2>2, <3>1 DEF g
  <2> QED
    BY <2>3, <2>4
<1>9. Holds(shift, K, V, D)
  BY <1>8 DEF Holds
<1> QED
  BY <1>9 DEF K, V, D, h

\* resize() moves every object, and nothing else, to its new place.
LEMMA RehashKeeps ==
  ASSUME Apart, NEW shift \in MinShift..MaxShift, NEW newShift \in MinShift..MaxShift,
         NEW keys, NEW values, NEW d, NEW behind,
         AtHome(shift, keys, values), Holds(shift, keys, values, d)
  PROVE  LET t == Rehash(keys, values, shift, newShift, behind)
         IN  /\ t.stuck = FALSE
             /\ AtHome(newShift, t.keys, t.values)
             /\ Holds(newShift, t.keys, t.values, d)
<1> DEFINE c == Capacity(shift)
           e == Capacity(newShift)
           old(k) == Home(shift, k)
           new(k) == Home(newShift, k)
           Moved(n) == {k \in Id : old(k) < n /\ keys[old(k)] = k}
           Keys(n) == [m \in 0..e |->
             IF m = e THEN behind
             ELSE IF \E k \in Moved(n) : new(k) = m
                  THEN CHOOSE k \in Moved(n) : new(k) = m
                  ELSE InvalidKey]
           Values(n) == [m \in 0..e |->
             IF m # e /\ \E k \in Moved(n) : new(k) = m
             THEN values[old(CHOOSE k \in Moved(n) : new(k) = m)]
             ELSE Null]
           Copy(n) == [keys |-> Keys(n), values |-> Values(n), stuck |-> FALSE]
           Next(n, t) ==
             LET key == keys[n - 1]
                 slot == ProbeKeys(t.keys, newShift, key)
             IN  IF ~IsValidKey(key) THEN t
                 ELSE IF slot = NoSlot THEN [t EXCEPT !.stuck = TRUE]
                 ELSE [t EXCEPT !.keys[slot] = key, !.values[slot] = values[n - 1]]
           First == [keys |-> NewKeys(newShift, behind),
                     values |-> NewValues(newShift), stuck |-> FALSE]
           Copies(f) == f = [n \in 0..c |-> IF n = 0 THEN First ELSE Next(n, f[n - 1])]
<1>1. /\ c \in Nat /\ e \in Nat
      /\ \A k \in Id : k \in Nat /\ old(k) \in 0..(c - 1) /\ new(k) \in 0..(e - 1)
  BY HomeInside
<1>2. \A j, k \in Id : /\ new(j) = new(k) => j = k
                       /\ old(j) = old(k) => j = k
  BY DEF Apart
<1>3. \A n \in 0..(c - 1) : /\ keys[n] \in Id \cup {InvalidKey, Tombstone}
                            /\ keys[n] \in Id => n = old(keys[n])
  BY DEF AtHome
<1>4. Copy(0) = First
  <2>1. Moved(0) = {}
    BY <1>1
  <2>2. Keys(0) = NewKeys(newShift, behind) /\ Values(0) = NewValues(newShift)
    BY <2>1 DEF NewKeys, NewValues
  <2> QED
    BY <2>2
<1>5. \A n : \A k \in Moved(n) :
        /\ k \in Id /\ new(k) \in 0..e /\ new(k) # e
        /\ Keys(n)[new(k)] = k /\ Values(n)[new(k)] = values[old(k)]
  <2> SUFFICES ASSUME NEW n, NEW k \in Moved(n)
               PROVE  /\ k \in Id /\ new(k) \in 0..e /\ new(k) # e
                      /\ Keys(n)[new(k)] = k /\ Values(n)[new(k)] = values[old(k)]
    OBVIOUS
  <2>1. k \in Id
    OBVIOUS
  <2>2. new(k) \in 0..e /\ new(k) # e
    BY <1>1, <2>1
  <2>3. \A j \in Moved(n) : new(j) = new(k) <=> j = k
    BY <1>2
  <2> HIDE DEF Moved, new, old
  <2>4. (CHOOSE j \in Moved(n) : new(j) = new(k)) = k
    BY <2>3
  <2> QED
    BY <2>1, <2>2, <2>4
<1>6. \A n : \A m \in 0..e :
        /\ m = e => Keys(n)[m] = behind /\ Values(n)[m] = Null
        /\ m # e /\ ~(\E k \in Moved(n) : new(k) = m)
             => Keys(n)[m] = InvalidKey /\ Values(n)[m] = Null
  <2> HIDE DEF Moved, new, old, e
  <2> QED
    OBVIOUS
<1> DEFINE K(n) == Keys(n)
           V(n) == Values(n)
<1>7. \A n : K(n) = [m \in 0..e |-> K(n)[m]] /\ V(n) = [m \in 0..e |-> V(n)[m]]
  OBVIOUS
<1> HIDE DEF Keys, Values
<1>8. \A n : AtHome(newShift, K(n), V(n))
  <2> SUFFICES ASSUME NEW n PROVE AtHome(newShift, K(n), V(n))
    OBVIOUS
  <2>1. ASSUME NEW m \in 0..(e - 1)
        PROVE  /\ K(n)[m] \in Id \cup {InvalidKey, Tombstone}
               /\ K(n)[m] \in Id => m = new(K(n)[m])
    <3>1. m \in 0..e /\ m # e
      BY <1>1
    <3>2. CASE \E k \in Moved(n) : new(k) = m
      BY <1>5, <3>2
    <3>3. CASE ~(\E k \in Moved(n) : new(k) = m)
      <4>1. K(n)[m] = InvalidKey
        BY <1>6, <3>1, <3>3
      <4>2. InvalidKey \notin Id
        BY IdAssumption DEF InvalidKey
      <4> QED
        BY <4>1, <4>2
    <3> QED
      BY <3>2, <3>3
  <2> QED
    BY <1>7, <2>1 DEF AtHome
<1>9. ASSUME NEW n \in 1..c PROVE Next(n, Copy(n - 1)) = Copy(n)
  <2> DEFINE key == keys[n - 1]
  <2>1. /\ n - 1 \in 0..(c - 1) /\ key \in Id \cup {InvalidKey, Tombstone}
        /\ key \in Id => n - 1 = old(key)
    BY <1>1, <1>3
  <2>2. \A k \in Id : old(k) < n <=> (old(k) < n - 1 \/ old(k) = n - 1)
    BY <1>1
  <2>3. CASE ~IsValidKey(key)
    <3>1. key \notin Id
      <4> HIDE DEF key
      <4>1. key \in Id => key >= 0
        BY <1>1
      <4> QED
        BY <2>3, <4>1 DEF IsValidKey
    <3>2. Moved(n) = Moved(n - 1)
      BY <2>2, <3>1
    <3>3. Copy(n) = Copy(n - 1)
      BY <3>2 DEF Keys, Values
    <3> QED
      BY <2>3, <3>3
  <2>4. CASE IsValidKey(key)
    <3>1. key \in Id /\ n - 1 = old(key)
      BY <2>1, <2>4 DEF IsValidKey, InvalidKey, Tombstone
    <3> DEFINE h == new(key)
               p == n - 1
    <3>2. /\ ProbeKeys(K(p), newShift, key) = h /\ h # NoSlot
      BY <1>8, <3>1, FirstSlot
    <3>3. h \in 0..e /\ h # e
      BY <1>1, <3>1
    <3>4. Moved(n) = Moved(p) \cup {key}
      BY <1>2, <2>2, <3>1
    <3>5. key \in Moved(n)
      BY <3>4
    <3>6. \A m \in 0..e :
            /\ K(n)[m] = IF m = h THEN key ELSE K(p)[m]
            /\ V(n)[m] = IF m = h THEN values[p] ELSE V(p)[m]
      <4> SUFFICES ASSUME NEW m \in 0..e
                   PROVE  /\ K(n)[m] = IF m = h THEN key ELSE K(p)[m]
                          /\ V(n)[m] = IF m = h THEN values[p] ELSE V(p)[m]
        OBVIOUS
      <4> HIDE DEF Moved
      <4>1. CASE m = h
        BY <1>5, <3>1, <3>5, <4>1
      <4>2. CASE m # h /\ \E k \in Moved(p) : new(k) = m
        <5>1. PICK k \in Moved(p) : new(k) = m
          BY <4>2
        <5>2. k \in Moved(n)
          BY <3>4
        <5> QED
          BY <1>5, <4>2, <5>1, <5>2
      <4>3. CASE m # h /\ ~(\E k \in Moved(p) : new(k) = m)
        <5>1. ~(\E k \in Moved(n) : new(k) = m)
          BY <3>4, <4>3
        <5> QED
          BY <1>6, <4>3, <5>1
      <4> QED
        BY <4>1, <4>2, <4>3
    <3> HIDE DEF K, V, h, key
    <3>7. /\ K(n) = [K(p) EXCEPT ![h] = key]
          /\ V(n) = [V(p) EXCEPT ![h] = values[p]]
      BY <1>7, <3>6
    <3>8. Copy(p) = [keys |-> K(p), values |-> V(p), stuck |-> FALSE]
      BY DEF K, V
    <3>9. Copy(p).keys = K(p)
      BY <3>8
    <3>10. Next(n, Copy(p)) = [Copy(p) EXCEPT !.keys[h] = key, !.values[h] = values[p]]
      BY <2>4, <3>2, <3>9 DEF key
    <3>11. Next(n, Copy(p)) = [keys |-> K(n), values |-> V(n), stuck |-> FALSE]
      <4> DEFINE t == Copy(p)
                 x == values[p]
                 A == K(p)
                 B == V(p)
                 z == FALSE
      <4>1. t = [keys |-> A, values |-> B, stuck |-> z]
        BY <3>8
      <4>2. K(n) = Put(A, h, key) /\ V(n) = Put(B, h, x)
        BY <3>7 DEF Put
      <4>3. Next(n, t) = Written(t, h, key, x)
        BY <3>10 DEF Written
      <4> HIDE DEF t, x, A, B, z
      <4>4. Written(t, h, key, x) =
              [keys |-> Put(A, h, key), values |-> Put(B, h, x), stuck |-> z]
        BY ONLY <4>1, WrittenIs
      <4> QED
        BY <4>2, <4>3, <4>4 DEF t, z
    <3> QED
      BY <3>11 DEF K, V
  <2> QED
    BY <2>3, <2>4
<1> HIDE DEF Copy, Next, First
<1>10. \E f : Copies(f)
  <2> DEFINE f == [n \in 0..c |-> Copy(n)]
  <2>1. ASSUME NEW n \in 0..c
        PROVE  Copy(n) = IF n = 0 THEN First ELSE Next(n, f[n - 1])
    <3>1. CASE n = 0
      BY <1>4, <3>1
    <3>2. CASE n # 0
      <4>1. n \in 1..c /\ n - 1 \in 0..c
        BY <1>1, <3>2
      <4>2. f[n - 1] = Copy(n - 1)
        BY <4>1
      <4> QED
        BY <1>9, <3>2, <4>1, <4>2
    <3> QED
      BY <3>1, <3>2
  <2>2. Copies(f)
    BY <2>1
  <2> QED
    BY <2>2
<1>11. ASSUME NEW f, Copies(f) PROVE f[c] = Copy(c)
  <2> DEFINE Bad == {n \in 0..c : f[n] # Copy(n)}
  <2>1. Bad = {}
    <3> SUFFICES ASSUME Bad # {} PROVE FALSE
      OBVIOUS
    <3>1. Bad \in SUBSET Nat
      BY <1>1
    <3>2. PICK n \in Bad : \A m \in Bad : n <= m
      <4> HIDE DEF Bad
      <4> QED
        BY <3>1, LeastNumber
    <3>3. n \in 0..c /\ f[n] # Copy(n)
      OBVIOUS
    <3>4. f[n] = IF n = 0 THEN First ELSE Next(n, f[n - 1])
      BY <1>11, <3>3
    <3>5. n # 0
      BY <1>4, <3>3, <3>4
    <3>6. n \in 1..c /\ n - 1 \in 0..c /\ ~(n <= n - 1)
      BY <1>1, <3>3, <3>5
    <3>7. f[n - 1] = Copy(n - 1)
      BY <3>2, <3>6
    <3> QED
      BY <1>9, <3>3, <3>4, <3>5, <3>6, <3>7
  <2> QED
    BY <1>1, <2>1
<1>12. Rehash(keys, values, shift, newShift, behind) = (CHOOSE f : Copies(f))[c]
  BY Zenon DEF Rehash, Next, First
<1> HIDE DEF Copies
<1>13. Rehash(keys, values, shift, newShift, behind) = Copy(c)
  BY <1>10, <1>11, <1>12
<1>14. Holds(newShift, K(c), V(c), d)
  <2> SUFFICES ASSUME NEW k \in Id
               PROVE  IF K(c)[new(k)] = k
                      THEN d[k] = V(c)[new(k)] /\ d[k] \in Thing
                      ELSE d[k] = Null
    BY DEF Holds
  <2>1. IF keys[old(k)] = k THEN d[k] = values[old(k)] /\ d[k] \in Thing
        ELSE d[k] = Null
    BY DEF Holds
  <2>2. k \in Moved(c) <=> keys[old(k)] = k
    BY <1>1
  <2>3. CASE k \in Moved(c)
    BY <1>5, <2>1, <2>2, <2>3
  <2>4. CASE k \notin Moved(c)
    <3>1. \A j \in Moved(c) : new(j) # new(k)
      BY <1>2, <2>4
    <3>2. new(k) \in 0..e /\ new(k) # e
      BY <1>1
    <3>3. K(c)[new(k)] = InvalidKey
      BY <1>6, <3>1, <3>2
    <3>4. InvalidKey # k
      BY <1>1 DEF InvalidKey
    <3> QED
      BY <2>1, <2>2, <2>4, <3>3, <3>4
  <2> QED
    BY <2>3, <2>4
<1>15. Copy(c).keys = K(c) /\ Copy(c).values = V(c) /\ Copy(c).stuck = FALSE
  BY DEF Copy, K, V
<1> QED
  BY <1>8, <1>13, <1>14, <1>15

LEMMA TableInvInit ==
  ASSUME TableInit
  PROVE  TableInv
<1>1. MinShift \in MinShift..MaxShift /\ InvalidKey \notin Id /\ Tombstone \notin Id
  BY IdAssumption DEF InvalidKey, Tombstone
<1>2. /\ Capacity(MinShift) \in Nat
      /\ \A k \in Id : Home(MinShift, k) \in 0..(Capacity(MinShift) - 1)
  BY <1>1, HomeInside
<1> DEFINE c == Capacity(MinShift)
<1>3. /\ mShift = MinShift /\ stuck = FALSE
      /\ mValues = NewValues(MinShift) /\ dict = [k \in Id |-> Null]
  BY DEF TableInit
<1>4. PICK b \in Behind : mKeys = NewKeys(MinShift, b)
  BY DEF TableInit
<1>5. /\ mKeys = [n \in 0..c |-> IF n = c THEN b ELSE InvalidKey]
      /\ mValues = [n \in 0..c |-> Null]
  BY <1>3, <1>4 DEF NewKeys, NewValues
<1> HIDE DEF c
<1>6. mKeys = [n \in 0..c |-> mKeys[n]] /\ mValues = [n \in 0..c |-> mValues[n]]
  BY ONLY <1>5
<1>7. \A n \in 0..(c - 1) : mKeys[n] = InvalidKey
  BY <1>2, <1>5 DEF c
<1>8. AtHome(mShift, mKeys, mValues)
  BY <1>1, <1>3, <1>6, <1>7 DEF AtHome, c
<1>9. dict = [k \in Id |-> dict[k]] /\ \A k \in Id : dict[k] = Null
  BY <1>3
<1>10. Holds(mShift, mKeys, mValues, dict)
  <2>1. \A k \in Id : mKeys[Home(MinShift, k)] # k
    BY <1>1, <1>2, <1>7 DEF c
  <2> QED
    BY <1>3, <1>9, <2>1 DEF Holds
<1> QED
  BY <1>1, <1>3, <1>8, <1>9, <1>10 DEF TableInv

\* What a handler finds out first about its key.
LEMMA SlotIs ==
  ASSUME Apart, TableInv, NEW key \in Id
  PROVE  /\ Slot(key) = Home(mShift, key) /\ Slot(key) # NoSlot
         /\ Contains(key) <=> mKeys[Home(mShift, key)] = key
  BY FirstSlot DEF TableInv, Slot, Contains

LEMMA TableInvReplace ==
  ASSUME Apart, TableInv, NEW key \in Id, NEW thing \in Thing, Replace(key, thing)
  PROVE  TableInv'
<1> DEFINE h == Home(mShift, key)
<1>1. /\ mKeys[h] = key /\ mKeys' = mKeys /\ mShift' = mShift /\ stuck' = stuck
      /\ mValues' = [mValues EXCEPT ![h] = thing]
      /\ dict' = [dict EXCEPT ![key] = thing]
  BY SlotIs DEF Replace
<1>2. /\ stuck = FALSE /\ mShift \in MinShift..MaxShift /\ dict = [k \in Id |-> dict[k]]
      /\ AtHome(mShift, mKeys, mValues) /\ Holds(mShift, mKeys, mValues, dict)
  BY DEF TableInv
<1>3. [mKeys EXCEPT ![h] = key] = mKeys
  <2> DEFINE c == Capacity(mShift)
  <2>1. mKeys = [n \in 0..c |-> mKeys[n]]
    BY <1>2 DEF AtHome
  <2> HIDE DEF h, c
  <2> QED
    BY <1>1, <2>1
<1>4. AtHome(mShift, mKeys, mValues')
  <2>1. AtHome(mShift, [mKeys EXCEPT ![h] = key], [mValues EXCEPT ![h] = thing])
    BY <1>2, WriteAtHome
  <2> QED
    BY ONLY <1>1, <1>3, <2>1, Zenon
<1>5. Holds(mShift, mKeys, mValues', dict')
  <2>1. Holds(mShift, [mKeys EXCEPT ![h] = key], [mValues EXCEPT ![h] = thing],
              [dict EXCEPT ![key] = thing])
    BY <1>2, WriteHolds
  <2> QED
    BY ONLY <1>1, <1>3, <2>1, Zenon
<1>6. dict' = [k \in Id |-> dict'[k]]
  BY <1>1, <1>2
<1> QED
  BY <1>1, <1>2, <1>4, <1>5, <1>6 DEF TableInv

LEMMA TableInvEnter ==
  ASSUME Apart, TableInv, NEW key \in Id, NEW thing \in Thing, Enter(key, thing)
  PROVE  TableInv'
<1> DEFINE h == Home(mShift, key)
           K == [mKeys EXCEPT ![h] = key]
           V == [mValues EXCEPT ![h] = thing]
           D == [dict EXCEPT ![key] = thing]
           new == NewShift(mShift, mEntries + 1)
<1>1. Slot(key) = h
  BY SlotIs
<1>2. mShift' = new /\ dict' = D
  BY DEF Enter
<1>3. PICK b \in Behind :
        LET t == IF new = mShift THEN [keys |-> K, values |-> V, stuck |-> FALSE]
                 ELSE Rehash(K, V, mShift, new, b)
        IN  mKeys' = t.keys /\ mValues' = t.values /\ stuck' = t.stuck
  BY <1>1, Zenon DEF Enter
<1>4. /\ mShift \in MinShift..MaxShift /\ dict = [k \in Id |-> dict[k]]
      /\ AtHome(mShift, mKeys, mValues) /\ Holds(mShift, mKeys, mValues, dict)
  BY DEF TableInv
<1>5. AtHome(mShift, K, V)
  BY <1>4, WriteAtHome
<1>6. Holds(mShift, K, V, D)
  BY <1>4, WriteHolds
<1>7. new \in MinShift..MaxShift
  BY <1>4, ShiftInRange
<1>8. dict' = [k \in Id |-> dict'[k]]
  BY <1>2, <1>4
<1> HIDE DEF K, V, D, new
<1>9. CASE new = mShift
  <2>1. mKeys' = K /\ mValues' = V /\ stuck' = FALSE
    BY <1>3, <1>9
  <2>2. AtHome(mShift', mKeys', mValues') /\ Holds(mShift', mKeys', mValues', dict')
    BY ONLY <1>2, <1>5, <1>6, <1>9, <2>1, Zenon
  <2>3. mShift' \in MinShift..MaxShift
    BY <1>2, <1>7
  <2> QED
    BY ONLY <1>8, <2>1, <2>2, <2>3 DEF TableInv
<1>10. CASE new # mShift
  <2> DEFINE t == Rehash(K, V, mShift, new, b)
  <2>1. t.stuck = FALSE /\ AtHome(new, t.keys, t.values) /\ Holds(new, t.keys, t.values, D)
    BY <1>4, <1>5, <1>6, <1>7, RehashKeeps
  <2>2. mKeys' = t.keys /\ mValues' = t.values /\ stuck' = t.stuck
    BY <1>3, <1>10
  <2> HIDE DEF t
  <2>3. AtHome(mShift', mKeys', mValues') /\ Holds(mShift', mKeys', mValues', dict')
    BY ONLY <1>2, <2>1, <2>2, Zenon
  <2>4. mShift' \in MinShift..MaxShift /\ stuck' = FALSE
    BY <1>2, <1>7, <2>1, <2>2
  <2> QED
    BY ONLY <1>8, <2>3, <2>4 DEF TableInv
<1> QED
  BY <1>9, <1>10

LEMMA TableInvDiscard ==
  ASSUME Apart, TableInv, NEW key \in Id, Discard(key)
  PROVE  TableInv'
<1> DEFINE h == Home(mShift, key)
<1>1. /\ mKeys' = [mKeys EXCEPT ![h] = Tombstone] /\ mShift' = mShift /\ stuck' = stuck
      /\ mValues' = [mValues EXCEPT ![h] = Null]
      /\ dict' = [dict EXCEPT ![key] = Null]
  BY SlotIs DEF Discard
<1>2. /\ stuck = FALSE /\ mShift \in MinShift..MaxShift /\ dict = [k \in Id |-> dict[k]]
      /\ AtHome(mShift, mKeys, mValues) /\ Holds(mShift, mKeys, mValues, dict)
  BY DEF TableInv
<1>3. AtHome(mShift, mKeys', mValues')
  <2>1. AtHome(mShift, [mKeys EXCEPT ![h] = Tombstone], [mValues EXCEPT ![h] = Null])
    BY <1>2, WriteAtHome
  <2> QED
    BY ONLY <1>1, <2>1, Zenon
<1>4. Holds(mShift, mKeys', mValues', dict')
  <2>1. Holds(mShift, [mKeys EXCEPT ![h] = Tombstone], [mValues EXCEPT ![h] = Null],
              [dict EXCEPT ![key] = Null])
    BY <1>2, WriteHolds
  <2> QED
    BY ONLY <1>1, <2>1, Zenon
<1>5. dict' = [k \in Id |-> dict'[k]]
  BY <1>1, <1>2
<1> QED
  BY <1>1, <1>2, <1>3, <1>4, <1>5 DEF TableInv

LEMMA TableInvClear ==
  ASSUME TableInv, Clear
  PROVE  TableInv'
<1> DEFINE c == Capacity(mShift)
           live == {n \in 0..(c - 1) : IsValidKey(mKeys[n])}
<1>1. /\ mKeys' = [n \in DOMAIN mKeys |-> IF n \in live THEN InvalidKey ELSE mKeys[n]]
      /\ mValues' = [n \in DOMAIN mValues |-> IF n \in live THEN Null ELSE mValues[n]]
      /\ dict' = [k \in Id |-> Null] /\ mShift' = mShift /\ stuck' = stuck
  BY DEF Clear
<1>2. /\ stuck = FALSE /\ mShift \in MinShift..MaxShift
      /\ AtHome(mShift, mKeys, mValues) /\ Holds(mShift, mKeys, mValues, dict)
  BY DEF TableInv
<1>3. /\ c \in Nat
      /\ \A k \in Id : k \in Nat /\ Home(mShift, k) \in 0..(c - 1)
  BY <1>2, HomeInside
<1>4. /\ mKeys = [n \in 0..c |-> mKeys[n]] /\ mValues = [n \in 0..c |-> mValues[n]]
      /\ \A n \in 0..(c - 1) : mKeys[n] \in Id \cup {InvalidKey, Tombstone}
  BY <1>2 DEF AtHome
<1>5. DOMAIN mKeys = 0..c /\ DOMAIN mValues = 0..c
  BY ONLY <1>4
<1>6. \A n \in 0..(c - 1) : n \in 0..c
  BY <1>3
<1> HIDE DEF c
<1>7. mKeys' = [n \in 0..c |-> mKeys'[n]] /\ mValues' = [n \in 0..c |-> mValues'[n]]
  BY ONLY <1>1, <1>5
<1>8. ASSUME NEW n \in 0..(c - 1) PROVE mKeys'[n] \in {InvalidKey, Tombstone}
  <2>1. mKeys'[n] = IF n \in live THEN InvalidKey ELSE mKeys[n]
    BY <1>1, <1>5, <1>6
  <2>2. mKeys[n] \in Id => n \in live
    BY <1>3 DEF IsValidKey
  <2> QED
    BY <1>4, <2>1, <2>2
<1>9. InvalidKey \notin Id /\ Tombstone \notin Id
  BY IdAssumption DEF InvalidKey, Tombstone
<1>10. AtHome(mShift, mKeys', mValues')
  BY <1>7, <1>8, <1>9 DEF AtHome, c
<1>11. Holds(mShift, mKeys', mValues', dict')
  <2>1. \A k \in Id : mKeys'[Home(mShift, k)] # k
    BY <1>3, <1>8, <1>9
  <2>2. \A k \in Id : dict'[k] = Null
    BY <1>1
  <2> QED
    BY <2>1, <2>2 DEF Holds
<1>12. dict' = [k \in Id |-> dict'[k]]
  BY <1>1
<1> QED
  BY <1>1, <1>2, <1>10, <1>11, <1>12 DEF TableInv

LEMMA TableInvariant ==
  ASSUME Apart
  PROVE  TableSpec => []TableInv
<1>1. TableInit => TableInv
  BY TableInvInit
<1>2. ASSUME TableInv, [TableNext]_tableVars PROVE TableInv'
  <2>1. ASSUME NEW key \in Id, NEW thing \in Thing, Replace(key, thing) PROVE TableInv'
    BY <1>2, <2>1, TableInvReplace
  <2>2. ASSUME NEW key \in Id, NEW thing \in Thing, Enter(key, thing) PROVE TableInv'
    BY <1>2, <2>2, TableInvEnter
  <2>3. ASSUME NEW key \in Id, Discard(key) PROVE TableInv'
    BY <1>2, <2>3, TableInvDiscard
  <2>4. CASE Clear
    BY <1>2, <2>4, TableInvClear
  <2>5. CASE UNCHANGED tableVars
    <3>1. /\ mKeys' = mKeys /\ mValues' = mValues /\ mShift' = mShift
          /\ stuck' = stuck /\ dict' = dict
      BY <2>5 DEF tableVars
    <3> QED
      BY ONLY <1>2, <3>1, Zenon DEF TableInv
  <2> QED
    BY <1>2, <2>1, <2>2, <2>3, <2>4, <2>5 DEF TableNext
<1> QED
  BY <1>1, <1>2, PTL DEF TableSpec

\* The table is the dictionary if no two ids have the same first slot: every object
\* set is found until it is replaced or removed and no other is, through every
\* resize() and clear(), for any ids, sizes and tombstones.
THEOREM EveryObjectFound ==
  ASSUME Apart
  PROVE  TableSpec => []FindsEveryObject
<1>1. ASSUME TableInv PROVE FindsEveryObject
  <2> SUFFICES ASSUME NEW key \in Id
               PROVE  Slot(key) # NoSlot /\ Get(key) = dict[key]
    BY DEF FindsEveryObject
  <2>1. /\ Slot(key) = Home(mShift, key) /\ Slot(key) # NoSlot
        /\ Contains(key) <=> mKeys[Home(mShift, key)] = key
    BY <1>1, SlotIs
  <2>2. IF mKeys[Home(mShift, key)] = key THEN dict[key] = mValues[Home(mShift, key)]
        ELSE dict[key] = Null
    BY <1>1 DEF TableInv, Holds
  <2> QED
    BY <2>1, <2>2 DEF Get
<1> QED
  BY <1>1, TableInvariant, PTL

\* "Returns true iff the dictionary contains a value for |key|" is true of
\* contains() under the same condition; with two ids that share a slot it is not.
THEOREM ContainsTrueIfApart ==
  ASSUME Apart
  PROVE  TableSpec => []ContainsTellsTruth
<1>1. ASSUME TableInv PROVE ContainsTellsTruth
  <2> SUFFICES ASSUME NEW key \in Id PROVE Contains(key) <=> dict[key] # Null
    BY DEF ContainsTellsTruth
  <2>1. Contains(key) <=> mKeys[Home(mShift, key)] = key
    BY <1>1, SlotIs
  <2>2. IF mKeys[Home(mShift, key)] = key THEN dict[key] \in Thing
        ELSE dict[key] = Null
    BY <1>1 DEF TableInv, Holds
  <2> QED
    BY <2>1, <2>2, IdAssumption
<1> QED
  BY <1>1, TableInvariant, PTL
=============================================================================
