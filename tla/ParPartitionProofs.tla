-------------------------- MODULE ParPartitionProofs -------------------------
(***************************************************************************)
(* Proofs about ParPartition: for every range, every number of threads and *)
(* every set of words the blocks cover the range without overlapping, the  *)
(* prefix sums give every word a place of temp of its own, and the outcome *)
(* is the one of the sequential partition Split.                           *)
(***************************************************************************)
EXTENDS ParPartition, FiniteSetTheorems, TLAPS

(***************************************************************************)
(* Arithmetic.                                                             *)
(***************************************************************************)
LEMMA Division ==
  ASSUME NEW a \in Int, NEW d \in Nat \ {0}
  PROVE  /\ a \div d \in Int
         /\ (a \div d) * d <= a /\ a < (a \div d) * d + d
<1>1. a \div d \in Int
  OBVIOUS
<1>2. a = d * (a \div d) + (a % d) /\ 0 <= a % d /\ a % d < d
  OBVIOUS
<1>3. QED
  BY <1>1, <1>2

LEMMA Products ==
  ASSUME NEW j \in Int, NEW k \in Int, NEW d \in Nat
  PROVE  /\ j * d \in Int /\ k * d \in Int
         /\ (k + 1) * d = k * d + d
         /\ j < k => (j + 1) * d <= k * d
         /\ j <= k => j * d <= k * d
<1>1. j * d \in Int /\ k * d \in Int /\ (k + 1) * d = k * d + d
  OBVIOUS
<1>2. j <= k => j * d <= k * d
  OBVIOUS
<1>3. j < k => (j + 1) * d <= k * d
  OBVIOUS
<1>4. QED
  BY <1>1, <1>2, <1>3

(***************************************************************************)
(* Induction up to m for a set: how many numbers have nothing but members  *)
(* below them tells that it is all of them.                                *)
(***************************************************************************)
LEMMA UpTo ==
  ASSUME NEW m \in Nat, NEW S, 0 \in S,
         \A k \in 0 .. (m - 1) : k \in S => k + 1 \in S
  PROVE  0 .. m \subseteq S
<1> DEFINE G == {k \in 0 .. m : \A j \in 0 .. k : j \in S}
           c == Cardinality(G)
<1>1. IsFiniteSet(0 .. m) /\ Cardinality(0 .. m) = m + 1
  BY FS_Interval
<1>2. IsFiniteSet(G) /\ c \in Nat /\ G \subseteq 0 .. m
  BY <1>1, FS_Subset, FS_CardinalityType
<1>3. \A k \in G : \A j \in 0 .. k : j \in G
  OBVIOUS
<1>4. 0 \in G
  OBVIOUS
<1>5. \A k \in G : k + 1 <= m => k + 1 \in G
  <2>1. TAKE k \in G
  <2>2. HAVE k + 1 <= m
  <2>3. k \in 0 .. (m - 1) /\ k \in S /\ \A j \in 0 .. k : j \in S
    BY <2>2
  <2>4. k + 1 \in S
    BY <2>3
  <2>5. \A j \in 0 .. (k + 1) : j \in 0 .. k \/ j = k + 1
    BY <2>3
  <2>6. QED
    BY <2>2, <2>3, <2>4, <2>5
<1> HIDE DEF G
<1>6. c \notin G
  <2>1. SUFFICES ASSUME c \in G PROVE FALSE
    OBVIOUS
  <2>2. 0 .. c \subseteq G
    BY <1>3, <2>1
  <2>3. Cardinality(0 .. c) = c + 1 /\ IsFiniteSet(0 .. c)
    BY <1>2, FS_Interval
  <2>4. Cardinality(0 .. c) <= Cardinality(G)
    BY <1>2, <2>2, FS_Subset
  <2>5. QED
    BY <1>2, <2>3, <2>4
<1>7. c # 0
  BY <1>2, <1>4, FS_EmptySet
<1>8. c - 1 \in G
  <2>1. SUFFICES ASSUME c - 1 \notin G PROVE FALSE
    OBVIOUS
  <2>2. \A k \in G : k \in 0 .. (c - 2)
    BY <1>2, <1>3, <1>7, <2>1
  <2> DEFINE d == c - 2
  <2>3. d \in Int /\ G \subseteq 0 .. d
    BY <1>2, <2>2
  <2>4. Cardinality(0 .. d) = (IF 0 > d THEN 0 ELSE d - 0 + 1) /\ IsFiniteSet(0 .. d)
    BY <2>3, FS_Interval
  <2>5. c <= Cardinality(0 .. d)
    BY <2>3, <2>4, FS_Subset
  <2>6. QED
    BY <1>2, <1>7, <2>4, <2>5
<1>9. ~(c <= m)
  BY <1>2, <1>5, <1>6, <1>7, <1>8
<1>10. m \in G
  BY <1>2, <1>8, <1>9
<1>11. QED
  BY <1>10 DEF G

(***************************************************************************)
(* The blocks.                                                             *)
(***************************************************************************)
LEMMA Cut ==
  ASSUME RangeOK, n > 1
  PROVE  /\ left \in Int /\ right \in Int /\ n \in Int
         /\ p \in Nat \ {0} /\ ws \in Nat \ {0} /\ n <= p * ws
<1>1. left \in Int /\ right \in Int /\ n \in Int /\ n = right - left
  BY DEF RangeOK, n
<1>2. p \in Nat \ {0} /\ p <= n
  BY <1>1, ThreadsAssumption DEF p
<1>3. ws \in Int /\ n + p - 1 < ws * p + p
  BY <1>1, <1>2, Division DEF ws
<1>4. ws >= 1
  <2>1. SUFFICES ASSUME ws <= 0 PROVE FALSE
    BY <1>3
  <2>2. ws * p <= 0 * p
    BY <1>2, <1>3, <2>1, Products
  <2>3. QED
    BY <1>1, <1>2, <1>3, <2>2
<1>5. QED
  BY <1>1, <1>2, <1>3, <1>4

\* Where the range goes on behind block id - 1.
From(id) == IF b(id) > right THEN right ELSE b(id)

LEMMA BlockFacts ==
  ASSUME RangeOK, n > 1, NEW id \in Int, 0 <= id
  PROVE  /\ b(id) \in Int /\ e(id) \in Int /\ From(id) \in Int
         /\ left <= b(id) /\ e(id) <= right /\ e(id) <= b(id) + ws
         /\ left <= From(id) /\ From(id) <= right /\ From(id) <= b(id)
         /\ From(id) <= e(id) /\ From(id + 1) = e(id)
         /\ b(id) <= e(id) => From(id) = b(id)
         /\ b(id) > e(id) => From(id) = e(id)
<1>1. left \in Int /\ right \in Int /\ ws \in Nat /\ ws > 0 /\ left <= right
  BY Cut DEF RangeOK
<1> DEFINE x == id * ws
           y == (id + 1) * ws
<1>2. x \in Int /\ y = x + ws /\ 0 * ws <= x
  BY <1>1, Products
<1>3. 0 <= x
  BY <1>1, <1>2
<1>4. b(id) = left + x /\ b(id + 1) = left + y /\ e(id) = IF left + y > right THEN right ELSE left + y
  BY DEF b, e
<1> HIDE DEF x, y
<1>5. QED
  BY <1>1, <1>2, <1>3, <1>4 DEF From

LEMMA LastBlock ==
  ASSUME RangeOK, n > 1
  PROVE  From(0) = left /\ From(p) = right
<1>1. left \in Int /\ right \in Int /\ ws \in Nat /\ p \in Nat /\ n <= p * ws /\ n = right - left
  BY Cut DEF n
<1>2. left <= right
  BY DEF RangeOK
<1>3. b(0) = left
  BY <1>1 DEF b
<1>4. b(p) >= right
  <2> DEFINE x == p * ws
  <2>1. x \in Int /\ b(p) = left + x /\ n <= x
    BY <1>1, Products DEF b
  <2> HIDE DEF x
  <2>2. QED
    BY <1>1, <2>1
<1>5. b(p) \in Int
  BY <1>1, BlockFacts
<1>6. QED
  BY <1>1, <1>2, <1>3, <1>4, <1>5 DEF From

\* The blocks cover the range.
LEMMA InABlock ==
  ASSUME RangeOK, n > 1, NEW q \in left .. (right - 1)
  PROVE  \E id \in Blocks : q \in b(id) .. (e(id) - 1)
<1>1. /\ left \in Int /\ right \in Int /\ ws \in Nat \ {0} /\ p \in Nat \ {0}
      /\ n <= p * ws /\ n = right - left
  BY Cut DEF n
<1> DEFINE a  == q - left
           id == a \div ws
<1>2. a \in Nat /\ a < n
  BY <1>1
<1>3. id \in Int /\ id * ws <= a /\ a < id * ws + ws
  BY <1>1, <1>2, Division
<1> HIDE DEF id, a
<1>4. 0 <= id
  <2>1. SUFFICES ASSUME id + 1 <= 0 PROVE FALSE
    BY <1>3
  <2>2. (id + 1) * ws <= 0 * ws /\ (id + 1) * ws = id * ws + ws /\ id * ws \in Int
    BY <1>1, <1>3, <2>1, Products
  <2>3. QED
    BY <1>1, <1>2, <1>3, <2>2
<1>5. id < p
  <2>1. SUFFICES ASSUME p <= id PROVE FALSE
    BY <1>1, <1>3
  <2>2. p * ws <= id * ws /\ p * ws \in Int /\ id * ws \in Int
    BY <1>1, <1>3, <2>1, Products
  <2>3. QED
    BY <1>1, <1>2, <1>3, <2>2
<1>6. id \in Blocks
  BY <1>1, <1>3, <1>4, <1>5 DEF Blocks
<1>7. q \in b(id) .. (e(id) - 1)
  <2> DEFINE x == id * ws
             y == (id + 1) * ws
  <2>1. x \in Int /\ y = x + ws /\ x <= a /\ a < x + ws
    BY <1>1, <1>3, Products
  <2>2. b(id) = left + x /\ e(id) = IF left + y > right THEN right ELSE left + y
    BY DEF b, e
  <2>3. q \in Int /\ q < right /\ q = left + a
    BY <1>1 DEF a
  <2> HIDE DEF x, y
  <2>4. QED
    BY <1>1, <1>2, <2>1, <2>2, <2>3
<1>8. QED
  BY <1>6, <1>7

\* No two blocks share a position.
LEMMA BlocksApart ==
  ASSUME RangeOK, n > 1, NEW j \in Blocks, NEW k \in Blocks, j # k,
         NEW q \in b(j) .. (e(j) - 1)
  PROVE  q \notin b(k) .. (e(k) - 1)
<1>1. j \in Int /\ k \in Int /\ 0 <= j /\ 0 <= k
  BY Cut DEF Blocks
<1>2. ws \in Nat /\ left \in Int
  BY Cut
<1>3. /\ j < k => e(j) <= b(k)
      /\ k < j => e(k) <= b(j)
  <2>1. ASSUME NEW x \in Int, NEW y \in Int, 0 <= x, 0 <= y, x < y
        PROVE  e(x) <= b(y)
    <3>1. (x + 1) * ws <= y * ws /\ y * ws \in Int /\ (x + 1) * ws \in Int
      BY <1>2, <2>1, Products
    <3>2. e(x) <= left + (x + 1) * ws /\ b(y) = left + y * ws
      BY <1>2, <3>1, Cut DEF e, b
    <3>3. e(x) \in Int
      BY <2>1, BlockFacts
    <3> DEFINE u == (x + 1) * ws
               v == y * ws
    <3>4. u <= v /\ u \in Int /\ v \in Int /\ e(x) <= left + u /\ b(y) = left + v
      BY <3>1, <3>2
    <3> HIDE DEF u, v
    <3>5. QED
      BY <1>2, <3>3, <3>4
  <2>2. QED
    BY <1>1, <2>1
<1>4. b(j) \in Int /\ e(j) \in Int /\ b(k) \in Int /\ e(k) \in Int
  BY <1>1, BlockFacts
<1>5. QED
  BY <1>1, <1>3, <1>4

(***************************************************************************)
(* Counting the words of a class.                                          *)
(***************************************************************************)
LEMMA DisjointUnion ==
  ASSUME NEW S, NEW T, IsFiniteSet(S), IsFiniteSet(T), S \cap T = {}
  PROVE  /\ Cardinality(S) \in Nat /\ Cardinality(T) \in Nat
         /\ IsFiniteSet(S \cup T) /\ Cardinality(S \cup T) = Cardinality(S) + Cardinality(T)
<1> DEFINE x == Cardinality(S)
           y == Cardinality(T)
           z == Cardinality(S \cup T)
<1>1. x \in Nat /\ y \in Nat
  BY FS_CardinalityType
<1>2. z = x + y - 0 /\ IsFiniteSet(S \cup T)
  <2>1. Cardinality(S \cap T) = 0
    BY FS_EmptySet
  <2>2. QED
    BY <2>1, FS_Union
<1> HIDE DEF x, y, z
<1>3. z = x + y
  BY <1>1, <1>2
<1>4. QED
  BY <1>1, <1>2, <1>3 DEF x, y, z

LEMMA Additive ==
  ASSUME NEW c, NEW l \in Int, NEW m \in Int, NEW r \in Int, l <= m, m <= r
  PROVE  /\ Cardinality(Of(c, l, m)) \in Nat /\ Cardinality(Of(c, m, r)) \in Nat
         /\ Cardinality(Of(c, l, r)) = Cardinality(Of(c, l, m)) + Cardinality(Of(c, m, r))
         /\ l = m => Cardinality(Of(c, l, m)) = 0
<1>1. \A x, y \in Int : IsFiniteSet(Of(c, x, y)) /\ Cardinality(Of(c, x, y)) \in Nat
  <2>1. TAKE x, y \in Int
  <2> DEFINE z == y - 1
  <2>2. z \in Int /\ Of(c, x, y) \subseteq x .. z
    BY DEF Of
  <2> HIDE DEF z
  <2>3. IsFiniteSet(x .. z)
    BY <2>2, FS_Interval
  <2>4. QED
    BY <2>2, <2>3, FS_Subset, FS_CardinalityType
<1>2. Of(c, l, r) = Of(c, l, m) \cup Of(c, m, r) /\ Of(c, l, m) \cap Of(c, m, r) = {}
  BY DEF Of
<1>3. Cardinality(Of(c, l, m)) \in Nat /\ Cardinality(Of(c, m, r)) \in Nat
  BY <1>1
<1>4. Cardinality(Of(c, l, r)) = Cardinality(Of(c, l, m)) + Cardinality(Of(c, m, r))
  BY <1>1, <1>2, DisjointUnion
<1>5. l = m => Cardinality(Of(c, l, m)) = 0
  <2>1. l = m => Of(c, l, m) = {}
    BY DEF Of
  <2>2. QED
    BY <2>1, FS_EmptySet
<1>6. QED
  BY <1>3, <1>4, <1>5

LEMMA OneMore ==
  ASSUME NEW c, NEW l \in Int, NEW m \in Int, l <= m
  PROVE  /\ Cardinality(Of(c, l, m)) \in Nat
         /\ Cardinality(Of(c, l, m + 1)) =
              Cardinality(Of(c, l, m)) + (IF Class(array[m]) = c THEN 1 ELSE 0)
<1>1. Cardinality(Of(c, l, m + 1)) = Cardinality(Of(c, l, m)) + Cardinality(Of(c, m, m + 1))
  BY Additive
<1>2. Of(c, m, m + 1) = IF Class(array[m]) = c THEN {m} ELSE {}
  BY DEF Of
<1>3. Cardinality({m}) = 1 /\ Cardinality({}) = 0
  BY FS_Singleton, FS_EmptySet
<1>4. Cardinality(Of(c, l, m)) \in Nat
  BY Additive
<1>5. QED
  BY <1>1, <1>2, <1>3, <1>4

(***************************************************************************)
(* The prefix sums: what is counted in the blocks before one is what there *)
(* is before it.                                                           *)
(***************************************************************************)
LEMMA PrefixSum ==
  ASSUME RangeOK, n > 1, NEW c \in Classes, NEW id \in 0 .. p,
         \A k \in Blocks : counted[k][c] = Cardinality(Of(c, b(k), e(k)))
  PROVE  Before(id, c) = Cardinality(Of(c, left, From(id)))
<1> DEFINE Sum(f) == f = [k \in 0 .. id |-> IF k = 0 THEN 0 ELSE f[k - 1] + counted[k - 1][c]]
           g == [k \in 0 .. id |-> Cardinality(Of(c, left, From(k)))]
           s == CHOOSE f : Sum(f)
<1>1. id \in Int /\ p \in Int /\ left \in Int
  BY Cut
<1>2. ASSUME NEW k \in 0 .. id, k # 0
      PROVE  g[k] = g[k - 1] + counted[k - 1][c]
  <2> DEFINE j == k - 1
  <2>1. j \in 0 .. id /\ j \in Blocks /\ j \in Int /\ 0 <= j /\ j + 1 = k
    BY <1>1, <1>2 DEF Blocks
  <2> HIDE DEF j
  <2>2. /\ From(j) \in Int /\ e(j) \in Int /\ b(j) \in Int /\ left <= From(j) /\ From(j) <= e(j)
        /\ From(k) = e(j)
        /\ b(j) <= e(j) => From(j) = b(j)
        /\ b(j) > e(j) => From(j) = e(j)
    BY <2>1, BlockFacts
  <2>3. Cardinality(Of(c, left, e(j))) =
          Cardinality(Of(c, left, From(j))) + Cardinality(Of(c, From(j), e(j)))
    BY <1>1, <2>2, Additive
  <2>4. Of(c, From(j), e(j)) = Of(c, b(j), e(j))
    BY <2>2 DEF Of
  <2>5. g[k] = Cardinality(Of(c, left, From(k))) /\ g[j] = Cardinality(Of(c, left, From(j)))
    BY <2>1
  <2>6. g[k] = g[j] + counted[j][c]
    BY <2>1, <2>2, <2>3, <2>4, <2>5
  <2>7. QED
    BY <2>6 DEF j
<1>3. 0 \in 0 .. id => g[0] = 0
  <2>1. From(0) = left
    BY LastBlock
  <2>2. Cardinality(Of(c, left, left)) = 0
    BY <1>1, Additive
  <2>3. QED
    BY <2>1, <2>2
<1>4. Sum(g)
  BY <1>1, <1>2, <1>3
<1> HIDE DEF g
<1>5. Sum(s)
  BY <1>4
<1>6. Before(id, c) = s[id]
  BY DEF Before
<1> HIDE DEF s
<1>7. 0 .. id \subseteq {k \in 0 .. id : s[k] = g[k]}
  <2> DEFINE S == {k \in 0 .. id : s[k] = g[k]}
  <2>1. 0 \in S
    BY <1>1, <1>3, <1>5
  <2>2. ASSUME NEW k \in 0 .. (id - 1), k \in S
        PROVE  k + 1 \in S
    <3>1. k + 1 \in 0 .. id /\ k + 1 # 0 /\ (k + 1) - 1 = k /\ s[k] = g[k]
      BY <1>1, <2>2
    <3>2. s[k + 1] = s[(k + 1) - 1] + counted[(k + 1) - 1][c]
      BY <1>5, <3>1
    <3>3. g[k + 1] = g[(k + 1) - 1] + counted[(k + 1) - 1][c]
      BY <1>2, <3>1
    <3>4. QED
      BY <3>1, <3>2, <3>3
  <2> HIDE DEF S
  <2>3. id \in Nat
    BY <1>1
  <2>4. 0 .. id \subseteq S
    BY <2>1, <2>2, <2>3, UpTo
  <2>5. QED
    BY <2>4 DEF S
<1>8. id \in 0 .. id
  BY <1>1
<1>9. QED
  BY <1>6, <1>7, <1>8 DEF g

(***************************************************************************)
(* The places of temp.                                                     *)
(***************************************************************************)
LEMMA ClassFacts == \A w : Class(w) \in Classes
BY DEF Class, ClassOf, Classes

\* The three classes share temp.
LEMMA Totals ==
  ASSUME RangeOK, n > 1
  PROVE  /\ n \in Nat
         /\ \A c \in Classes : Cardinality(Of(c, left, right)) \in Nat
         /\ Cardinality(Of("L", left, right)) + Cardinality(Of("E", left, right))
              + Cardinality(Of("G", left, right)) = n
<1>1. left \in Int /\ right \in Int /\ left <= right /\ n = right - left
  BY DEF RangeOK, n
<1> DEFINE hi == right - 1
           R  == left .. hi
           L  == Of("L", left, right)
           E  == Of("E", left, right)
           G  == Of("G", left, right)
<1>2. R = L \cup (E \cup G) /\ E \cap G = {} /\ L \cap (E \cup G) = {}
  BY ClassFacts DEF Of, Classes
<1>3. L \subseteq R /\ E \subseteq R /\ G \subseteq R /\ E \cup G \subseteq R
  BY <1>2
<1>4. hi \in Int /\ ~(left > hi) /\ hi - left + 1 = n
  BY <1>1
<1> HIDE DEF hi, L, E, G
<1>5. IsFiniteSet(R) /\ Cardinality(R) = n
  BY <1>1, <1>4, FS_Interval
<1> HIDE DEF R
<1>6. /\ IsFiniteSet(L) /\ IsFiniteSet(E) /\ IsFiniteSet(G) /\ IsFiniteSet(E \cup G)
      /\ Cardinality(L) \in Nat /\ Cardinality(E) \in Nat /\ Cardinality(G) \in Nat
      /\ Cardinality(E \cup G) \in Nat
  BY <1>3, <1>5, FS_Subset, FS_CardinalityType
<1>8. Cardinality(E \cup G) = Cardinality(E) + Cardinality(G)
  BY <1>2, <1>6, DisjointUnion
<1>9. Cardinality(R) = Cardinality(L) + Cardinality(E \cup G)
  BY <1>2, <1>6, DisjointUnion
<1>10. \A c \in Classes : c = "L" \/ c = "E" \/ c = "G"
  BY DEF Classes
<1>11. \A c \in Classes : Cardinality(Of(c, left, right)) \in Nat
  BY <1>6, <1>10 DEF L, E, G
<1>12. Cardinality(L) + Cardinality(E) + Cardinality(G) = n
  BY <1>5, <1>6, <1>8, <1>9
<1>13. QED
  BY <1>1, <1>4, <1>11, <1>12 DEF L, E, G

\* A word's place is behind the smaller classes and before the larger ones.
LEMMA DestFacts ==
  ASSUME RangeOK, n > 1
  PROVE  /\ \A q \in left .. (right - 1) : Dest(q) \in 0 .. (n - 1)
         /\ \A q, r \in left .. (right - 1) : Dest(q) = Dest(r) => q = r
         /\ \A k \in 0 .. (n - 1) : \E q \in left .. (right - 1) : Dest(q) = k
<1> DEFINE R    == left .. (right - 1)
           cl(q) == Class(array[q])
           nL   == Cardinality(Of("L", left, right))
           nE   == Cardinality(Of("E", left, right))
           nG   == Cardinality(Of("G", left, right))
           N(c) == Cardinality(Of(c, left, right))
           Nr(q) == Cardinality(Of(cl(q), left, q))
<1>1. left \in Int /\ right \in Int /\ left <= right /\ n = right - left
  BY DEF RangeOK, n
<1>2. /\ nL \in Nat /\ nE \in Nat /\ nG \in Nat /\ nL + nE + nG = n
      /\ \A c \in Classes : N(c) \in Nat
  BY Totals DEF Classes
<1>3. ASSUME NEW q \in R, NEW r \in Int, q < r, r <= right
      PROVE  /\ Nr(q) \in Nat /\ Nr(q) < Cardinality(Of(cl(q), left, r))
             /\ Cardinality(Of(cl(q), left, r)) \in Nat
             /\ Cardinality(Of(cl(q), left, r)) <= N(cl(q))
  <2> DEFINE c == cl(q)
             s == q + 1
  <2>1. q \in Int /\ left <= q /\ s \in Int /\ s = q + 1
    BY <1>1
  <2> HIDE DEF s
  <2>2. Nr(q) \in Nat /\ Cardinality(Of(c, left, s)) = Nr(q) + 1
    BY <1>1, <2>1, OneMore
  <2>3. /\ Cardinality(Of(c, s, r)) \in Nat /\ Cardinality(Of(c, left, s)) \in Nat
        /\ Cardinality(Of(c, left, r)) = Cardinality(Of(c, left, s)) + Cardinality(Of(c, s, r))
    BY <1>1, <1>3, <2>1, Additive
  <2>4. /\ Cardinality(Of(c, left, r)) \in Nat /\ Cardinality(Of(c, r, right)) \in Nat
        /\ Cardinality(Of(c, left, right)) = Cardinality(Of(c, left, r)) + Cardinality(Of(c, r, right))
    BY <1>1, <1>3, <2>1, Additive
  <2>5. Nr(q) < Cardinality(Of(c, left, r)) /\ Cardinality(Of(c, left, r)) <= Cardinality(Of(c, left, right))
    BY <2>2, <2>3, <2>4
  <2>6. QED
    BY <2>2, <2>4, <2>5
<1>4. \A q \in R : Nr(q) \in Nat /\ Nr(q) < N(cl(q))
  BY <1>1, <1>3
<1>5. \A q \in R : Dest(q) = Below(cl(q)) + Nr(q)
  BY DEF Dest
<1>6. Below("L") = 0 /\ Below("E") = nL /\ Below("G") = nL + nE
  BY DEF Below
<1>7. \A q \in R : cl(q) \in {"L", "E", "G"}
  BY ClassFacts DEF Classes
<1>8. \A q, r \in R : q < r /\ cl(q) = cl(r) => Nr(q) < Nr(r)
  BY <1>1, <1>3
<1> HIDE DEF cl, Nr
<1>9. N("L") = nL /\ N("E") = nE /\ N("G") = nG
  OBVIOUS
<1> HIDE DEF N, nL, nE, nG
<1>10. \A q \in R :
         /\ cl(q) = "L" => 0 <= Dest(q) /\ Dest(q) < nL
         /\ cl(q) = "E" => nL <= Dest(q) /\ Dest(q) < nL + nE
         /\ cl(q) = "G" => nL + nE <= Dest(q) /\ Dest(q) < n
         /\ Dest(q) \in Int
  BY <1>2, <1>4, <1>5, <1>6, <1>7, <1>9
<1>11. \A q \in R : Dest(q) \in 0 .. (n - 1)
  BY <1>1, <1>2, <1>7, <1>10
<1>12. \A q, r \in R : q < r => Dest(q) # Dest(r)
  <2>1. TAKE q, r \in R
  <2>2. HAVE q < r
  <2>3. CASE cl(q) = cl(r)
    BY <1>2, <1>4, <1>5, <1>6, <1>7, <1>8, <2>2, <2>3
  <2>4. CASE cl(q) # cl(r)
    BY <1>2, <1>7, <1>10, <2>4
  <2>5. QED
    BY <2>3, <2>4
<1>13. \A q, r \in R : Dest(q) = Dest(r) => q = r
  BY <1>1, <1>12
<1>14. \A k \in 0 .. (n - 1) : \E q \in R : Dest(q) = k
  <2> DEFINE f == [q \in R |-> Dest(q)]
             hi == right - 1
             m == n - 1
  <2>1. f \in Injection(R, 0 .. m)
    <3>1. f \in [R -> 0 .. m]
      BY <1>11
    <3>2. \A q, r \in R : f[q] = f[r] => q = r
      BY <1>13
    <3>3. DOMAIN f = R
      OBVIOUS
    <3> HIDE DEF f
    <3>4. IsInjective(f)
      BY <3>2, <3>3, Zenon DEF IsInjective
    <3>5. QED
      BY <3>1, <3>4 DEF Injection
  <2>2. hi \in Int /\ ~(left > hi) /\ hi - left + 1 = n /\ m \in Int /\ ~(0 > m) /\ m - 0 + 1 = n
    BY <1>1, <1>2
  <2> HIDE DEF hi, m
  <2>3. Cardinality(left .. hi) = n
    BY <1>1, <2>2, FS_Interval
  <2>4. Cardinality(0 .. m) = n /\ IsFiniteSet(0 .. m)
    BY <2>2, FS_Interval
  <2>5. f \in Surjection(R, 0 .. m)
    <3>1. Cardinality(R) = n
      BY <2>3 DEF hi
    <3> HIDE DEF f, R
    <3>2. QED
      BY <2>1, <2>4, <3>1, FS_Injection
  <2>6. \A k \in 0 .. m : \E q \in R : f[q] = k
    BY <2>5 DEF Surjection
  <2>7. QED
    BY <2>6 DEF m
<1>15. QED
  BY <1>11, <1>13, <1>14

LEMMA FirstPlaceFacts ==
  ASSUME RangeOK, n > 1,
         \A k \in Blocks, d \in Classes : counted[k][d] = Cardinality(Of(d, b(k), e(k))),
         NEW c \in Classes
  PROVE  /\ Total(c) = Cardinality(Of(c, left, right))
         /\ \A id \in Blocks : FirstPlace(id, c) = Below(c) + Cardinality(Of(c, left, From(id)))
<1>1. ASSUME NEW d \in Classes PROVE Total(d) = Cardinality(Of(d, left, right))
  <2>1. p \in 0 .. p
    BY Cut
  <2>2. \A k \in Blocks : counted[k][d] = Cardinality(Of(d, b(k), e(k)))
    OBVIOUS
  <2>3. Before(p, d) = Cardinality(Of(d, left, From(p)))
    BY <2>1, <2>2, PrefixSum
  <2>4. QED
    BY <2>3, LastBlock DEF Total
<1>2. Base[c] = Below(c)
  <2>1. Total("L") = Cardinality(Of("L", left, right)) /\ Total("E") = Cardinality(Of("E", left, right))
    BY <1>1 DEF Classes
  <2>2. CASE c = "L"
    BY <2>2 DEF Base, Below
  <2>3. CASE c = "E"
    BY <2>1, <2>3 DEF Base, Below
  <2>4. CASE c = "G"
    BY <2>1, <2>4 DEF Base, Below
  <2>5. QED
    BY <2>2, <2>3, <2>4 DEF Classes
<1>3. ASSUME NEW id \in Blocks
      PROVE  FirstPlace(id, c) = Below(c) + Cardinality(Of(c, left, From(id)))
  <2>1. id \in 0 .. p
    BY Cut DEF Blocks
  <2>2. \A k \in Blocks : counted[k][c] = Cardinality(Of(c, b(k), e(k)))
    OBVIOUS
  <2>3. Before(id, c) = Cardinality(Of(c, left, From(id)))
    BY <2>1, <2>2, PrefixSum
  <2>4. QED
    BY <1>2, <2>3 DEF FirstPlace
<1>4. QED
  BY <1>1, <1>3

\* The pivot is a word of the range.
LEMMA PivotInRange ==
  ASSUME NEW a, NEW lo \in Int, NEW hi \in Int, lo < hi
  PROVE  \E x \in lo .. (hi - 1) : par_pivot_select(text, a, lo, hi) = a[x]
<1>1. /\ lo \in lo .. (hi - 1) /\ hi - 1 \in lo .. (hi - 1)
      /\ lo + ((hi - lo) \div 2) \in lo .. (hi - 1)
  OBVIOUS
<1>2. par_pivot_select(text, a, lo, hi) \in {a[lo], a[lo + ((hi - lo) \div 2)], a[hi - 1]}
  BY DEF par_pivot_select
<1>3. QED
  BY <1>1, <1>2

(***************************************************************************)
(* The invariant holds initially and every action keeps it.                *)
(***************************************************************************)

\* As long as the words, the range and the pivot stay, so do the blocks and the places.
LEMMA SameWords ==
  ASSUME UNCHANGED <<text, left, right, array, pivot>>
  PROVE  /\ n' = n /\ p' = p /\ ws' = ws /\ Blocks' = Blocks
         /\ \A id : b(id)' = b(id) /\ e(id)' = e(id)
         /\ \A w : Class(w)' = Class(w)
         /\ \A c, l, r : Of(c, l, r)' = Of(c, l, r)
         /\ \A c : Below(c)' = Below(c)
         /\ \A q : Dest(q)' = Dest(q)
<1>1. n' = n
  BY DEF n
<1>2. p' = p
  BY <1>1 DEF p
<1>3. ws' = ws /\ Blocks' = Blocks
  BY <1>1, <1>2 DEF ws, Blocks
<1>4. \A id : b(id)' = b(id) /\ e(id)' = e(id)
  BY <1>3 DEF b, e
<1>5. \A w : Class(w)' = Class(w)
  BY DEF Class
<1>6. \A c, l, r : Of(c, l, r)' = Of(c, l, r)
  BY <1>5 DEF Of
<1>7. \A c : Below(c)' = Below(c)
  BY <1>6 DEF Below
<1>8. \A q : Dest(q)' = Dest(q)
  BY <1>5, <1>6, <1>7 DEF Dest
<1>9. QED
  BY <1>1, <1>2, <1>3, <1>4, <1>5, <1>6, <1>7, <1>8

LEMMA WordsAgain ==
  ASSUME RangeOK, Original, UNCHANGED <<text, left, right, array, pivot>>,
         at' # "returned" => at # "returned", Parallel' => Parallel
  PROVE  RangeOK' /\ Original'
<1>1. n' = n
  BY SameWords
<1>2. RangeOK'
  BY <1>1 DEF RangeOK
<1>3. Original'
  BY DEF Original
<1>4. QED
  BY <1>2, <1>3

\* The positions a block goes through.
LEMMA InLoop ==
  ASSUME RangeOK, LoopOK, Parallel, NEW id \in Blocks
  PROVE  /\ n > 1 /\ i[id] \in Int /\ b(id) \in Int /\ e(id) \in Int
         /\ left \in Int /\ right \in Int /\ id \in Int
         /\ left <= b(id) /\ b(id) <= i[id] /\ e(id) <= right
         /\ i[id] <= e(id) \/ i[id] = b(id)
         /\ i[id] < e(id) => /\ i[id] \in left .. (right - 1)
                             /\ i[id] \in b(id) .. (e(id) - 1)
                             /\ b(id) <= right
<1>1. n > 1
  BY DEF RangeOK
<1>2. id \in Int /\ 0 <= id
  BY <1>1, Cut DEF Blocks
<1>3. /\ b(id) \in Int /\ e(id) \in Int /\ left <= b(id) /\ e(id) <= right
      /\ left \in Int /\ right \in Int
  BY <1>1, <1>2, BlockFacts, Cut
<1>4. i[id] \in Int /\ b(id) <= i[id] /\ (i[id] <= e(id) \/ i[id] = b(id))
  BY DEF LoopOK
<1>5. QED
  BY <1>1, <1>2, <1>3, <1>4

LEMMA InitIInv == Init => IInv
<1> SUFFICES ASSUME Init PROVE IInv
  OBVIOUS
<1>1. PICK count \in Counts :
        /\ text \in [0 .. (count - 1) -> Word]
        /\ array = [q \in 0 .. (count - 1) |-> q]
        /\ left \in 0 .. count /\ right \in left .. count
  BY DEF Init
<1>2. count \in Nat /\ DOMAIN text = 0 .. (count - 1)
  BY <1>1, CountsAssumption
<1>3. at = "called" /\ m1 = 0 /\ m2 = 0 /\ temp = <<>>
  BY DEF Init
<1>4. left \in Nat /\ right \in Nat /\ left <= right /\ right <= count
  BY <1>1, <1>2
<1>5. array \in [DOMAIN text -> DOMAIN text] /\ array = [q \in DOMAIN text |-> q]
  BY <1>1, <1>2
<1>6. left .. (right - 1) \subseteq DOMAIN text /\ DOMAIN text \subseteq Int
  BY <1>2, <1>4
<1>7. {m1, m2} \subseteq 0 .. right
  BY <1>3, <1>4
<1>8. TypeOK
  BY <1>3, <1>5, <1>7 DEF TypeOK
<1>9. RangeOK /\ Original
  BY <1>1, <1>2, <1>3, <1>4, <1>5, <1>6 DEF RangeOK, Original, Parallel
<1>10. LoopOK /\ Counted /\ Placed /\ Filled /\ ThreeWaySplit
  BY <1>3 DEF LoopOK, Counted, Placed, Filled, ThreeWaySplit, Parallel
<1>11. QED
  BY <1>8, <1>9, <1>10 DEF IInv

LEMMA CallKeepsIInv == IInv /\ par_sort_partition => IInv'
<1> SUFFICES ASSUME IInv, par_sort_partition PROVE IInv'
  OBVIOUS
<1>1. /\ at = "called" /\ UNCHANGED <<text, left, right, array, temp>>
      /\ array \in [DOMAIN text -> DOMAIN text] /\ array = [q \in DOMAIN text |-> q]
  BY DEF par_sort_partition, input, IInv, TypeOK, Original
<1>2. n' = n /\ n \in Int /\ left \in Nat /\ right \in Nat /\ left <= right /\ n = right - left
  BY <1>1 DEF n, IInv, RangeOK
<1>3. CASE n <= 1
  <2>1. at' = "returned" /\ m1' = left /\ m2' = right
    BY <1>3 DEF par_sort_partition
  <2>2. {m1', m2'} \subseteq 0 .. right'
    BY <1>1, <1>2, <2>1
  <2>3. TypeOK'
    BY <1>1, <2>1, <2>2 DEF TypeOK
  <2>4. RangeOK' /\ Original'
    BY <1>1, <2>1 DEF IInv, RangeOK, Original, Parallel
  <2>5. LoopOK' /\ Counted' /\ Placed' /\ Filled'
    BY <2>1 DEF LoopOK, Counted, Placed, Filled, Parallel
  <2>6. ThreeWaySplit'
    BY <1>2, <1>3 DEF ThreeWaySplit
  <2>7. QED
    BY <2>3, <2>4, <2>5, <2>6 DEF IInv
<1>4. CASE n > 1
  <2>1. /\ at' = "counting" /\ pivot' = par_pivot_select(text, array, left, right)
        /\ i' = [id \in Blocks |-> b(id)]
        /\ counted' = [id \in Blocks |-> [c \in Classes |-> 0]]
        /\ UNCHANGED <<m1, m2>>
    BY <1>2, <1>4 DEF par_sort_partition
  <2>2. p' = p /\ ws' = ws
    BY <1>2 DEF p, ws
  <2>3. Blocks' = Blocks /\ \A id : b(id)' = b(id) /\ e(id)' = e(id)
    BY <1>1, <2>2 DEF Blocks, b, e
  <2>4. RangeOK' /\ Original'
    BY <1>1, <1>2, <1>4, <2>1 DEF IInv, RangeOK, Original, Parallel
  <2>5. \A id \in Blocks : b(id) \in Int /\ left <= b(id)
    BY <1>4, BlockFacts, Cut DEF IInv, Blocks
  <2>6. LoopOK'
    BY <2>1, <2>3, <2>5 DEF LoopOK, Parallel
  <2>7. pivot' \in DOMAIN text
    <3>1. \E x \in left .. (right - 1) : pivot' = array[x]
      BY <1>2, <1>4, <2>1, PivotInRange
    <3>2. QED
      BY <1>1, <3>1 DEF IInv, RangeOK
  <2>8. TypeOK'
    BY <1>1, <2>1, <2>3, <2>5, <2>7 DEF IInv, TypeOK
  <2>9. Counted'
    <3>1. ASSUME NEW id \in Blocks, NEW c \in Classes
          PROVE  Cardinality(Of(c, b(id), b(id))') = 0
      <4>1. Of(c, b(id), b(id))' = {}
        BY <2>3, <2>5 DEF Of
      <4>2. QED
        BY <4>1, FS_EmptySet
    <3>2. QED
      BY <2>1, <2>3, <3>1 DEF Counted
  <2>10. Placed' /\ Filled' /\ ThreeWaySplit'
    BY <2>1 DEF Placed, Filled, ThreeWaySplit
  <2>11. QED
    BY <2>4, <2>6, <2>8, <2>9, <2>10 DEF IInv
<1>5. QED
  BY <1>2, <1>3, <1>4

LEMMA CountWordKeepsIInv == ASSUME NEW id \in Blocks, IInv, CountWord(id) PROVE IInv'
<1> DEFINE q == i[id]
           k == Class(array[q])
<1>1. /\ at = "counting" /\ q < e(id) /\ at' = at
      /\ UNCHANGED <<text, left, right, array, pivot>> /\ UNCHANGED <<place, temp, m1, m2>>
      /\ counted' = [counted EXCEPT ![id][k] = counted[id][k] + 1]
      /\ i' = [i EXCEPT ![id] = q + 1]
  BY DEF CountWord, input
<1>2. Parallel /\ Parallel' /\ RangeOK /\ LoopOK
  BY <1>1 DEF Parallel, IInv
<1>3. /\ n > 1 /\ q \in Int /\ b(id) \in Int /\ e(id) \in Int /\ b(id) <= q
      /\ left \in Int /\ right \in Int /\ left <= b(id) /\ e(id) <= right
  BY <1>2, InLoop
<1>4. /\ n' = n /\ Blocks' = Blocks
      /\ \A j : b(j)' = b(j) /\ e(j)' = e(j)
      /\ \A c, l, r : Of(c, l, r)' = Of(c, l, r)
  BY <1>1, SameWords
<1>5. RangeOK' /\ Original'
  BY <1>1, <1>2, WordsAgain DEF IInv
<1>6. /\ i \in [Blocks -> Int] /\ counted \in [Blocks -> [Classes -> Nat]]
      /\ \A j \in Blocks : b(j) <= i[j] /\ (i[j] <= e(j) \/ i[j] = b(j))
  BY <1>2 DEF LoopOK
<1>7. /\ i' \in [Blocks -> Int] /\ i'[id] = q + 1 /\ \A j \in Blocks \ {id} : i'[j] = i[j]
  BY <1>1, <1>3, <1>6
<1>8. k \in Classes
  BY ClassFacts
<1> HIDE DEF k
<1>9. /\ counted' \in [Blocks -> [Classes -> Nat]]
      /\ \A c \in Classes : counted'[id][c] = IF c = k THEN counted[id][c] + 1 ELSE counted[id][c]
      /\ \A j \in Blocks \ {id} : counted'[j] = counted[j]
  <2> DEFINE x == counted[id]
             y == [x EXCEPT ![k] = x[k] + 1]
  <2>1. x \in [Classes -> Nat] /\ counted' = [counted EXCEPT ![id] = y]
    BY <1>1, <1>6
  <2>2. y \in [Classes -> Nat] /\ \A c \in Classes : y[c] = IF c = k THEN x[c] + 1 ELSE x[c]
    BY <1>8, <2>1
  <2> HIDE DEF x, y
  <2>3. /\ counted' \in [Blocks -> [Classes -> Nat]] /\ counted'[id] = y
        /\ \A j \in Blocks \ {id} : counted'[j] = counted[j]
    BY <1>6, <2>1, <2>2
  <2>4. QED
    BY <2>2, <2>3 DEF x
<1>10. LoopOK'
  <2>1. \A j \in Blocks : b(j) <= i'[j] /\ (i'[j] <= e(j) \/ i'[j] = b(j))
    BY <1>1, <1>3, <1>6, <1>7
  <2>2. QED
    BY <1>1, <1>4, <1>7, <1>9, <2>1 DEF LoopOK
<1>11. TypeOK'
  <2>1. \A j \in Blocks : left <= i'[j] /\ (i'[j] <= right \/ i'[j] = b(j))
    <3>1. \A j \in Blocks : left <= i[j] /\ (i[j] <= right \/ i[j] = b(j))
      BY <1>1 DEF IInv, TypeOK
    <3>2. left <= q + 1 /\ q + 1 <= right
      BY <1>1, <1>3
    <3>3. QED
      BY <1>7, <3>1, <3>2
  <2>2. QED
    BY <1>1, <1>4, <2>1 DEF IInv, TypeOK
<1>12. Counted'
  <2>1. ASSUME NEW j \in Blocks, NEW c \in Classes
        PROVE  counted'[j][c] = Cardinality(Of(c, b(j), i'[j]))
    <3>1. counted[j][c] = Cardinality(Of(c, b(j), i[j]))
      BY <1>1, <1>2 DEF IInv, Counted
    <3>2. CASE j = id
      <4>1. /\ Cardinality(Of(c, b(id), q)) \in Nat
            /\ Cardinality(Of(c, b(id), q + 1)) =
                 Cardinality(Of(c, b(id), q)) + (IF k = c THEN 1 ELSE 0)
        BY <1>3, OneMore DEF k
      <4>2. QED
        BY <1>7, <1>9, <3>1, <3>2, <4>1
    <3>3. CASE j # id
      BY <1>7, <1>9, <3>1, <3>3
    <3>4. QED
      BY <3>2, <3>3
  <2>2. QED
    BY <1>1, <1>4, <2>1 DEF Counted
<1>13. Placed' /\ Filled' /\ ThreeWaySplit'
  BY <1>1 DEF Placed, Filled, ThreeWaySplit
<1>14. QED
  BY <1>5, <1>10, <1>11, <1>12, <1>13 DEF IInv

LEMMA PrefixSumsKeepsIInv == IInv /\ PrefixSums => IInv'
<1> SUFFICES ASSUME IInv, PrefixSums PROVE IInv'
  OBVIOUS
<1>1. /\ at = "counting" /\ LoopEnded /\ at' = "scattering"
      /\ UNCHANGED <<text, left, right, array, pivot>> /\ UNCHANGED <<counted, m1, m2>>
      /\ place' = [id \in Blocks |-> [c \in Classes |-> FirstPlace(id, c)]]
      /\ temp' = [k \in 0 .. (n - 1) |-> Unset]
      /\ i' = [id \in Blocks |-> b(id)]
  BY DEF PrefixSums, input
<1>2. Parallel /\ Parallel' /\ RangeOK /\ LoopOK
  BY <1>1 DEF Parallel, IInv
<1>3. n > 1 /\ left \in Int /\ right \in Int
  BY <1>2, Cut DEF RangeOK
<1>4. /\ n' = n /\ Blocks' = Blocks
      /\ \A j : b(j)' = b(j) /\ e(j)' = e(j)
      /\ \A c, l, r : Of(c, l, r)' = Of(c, l, r)
      /\ \A c : Below(c)' = Below(c)
      /\ \A q : Dest(q)' = Dest(q)
  BY <1>1, SameWords
<1>5. RangeOK' /\ Original'
  BY <1>1, <1>2, WordsAgain DEF IInv
<1>6. \A id \in Blocks, c \in Classes : counted[id][c] = Cardinality(Of(c, b(id), e(id)))
  <2>1. TAKE id \in Blocks, c \in Classes
  <2>2. counted[id][c] = Cardinality(Of(c, b(id), i[id]))
    BY <1>1, <1>2 DEF IInv, Counted
  <2>3. /\ i[id] >= e(id) /\ i[id] \in Int /\ b(id) \in Int /\ e(id) \in Int
        /\ i[id] <= e(id) \/ i[id] = b(id)
    BY <1>1, <1>2, InLoop DEF LoopEnded
  <2>4. Of(c, b(id), i[id]) = Of(c, b(id), e(id))
    BY <2>3 DEF Of
  <2>5. QED
    BY <2>2, <2>4
<1>7. \A id \in Blocks, c \in Classes :
        FirstPlace(id, c) = Below(c) + Cardinality(Of(c, left, From(id)))
  BY <1>2, <1>3, <1>6, FirstPlaceFacts
<1>8. \A id \in Blocks : /\ b(id) \in Int /\ From(id) \in Int /\ left <= b(id) /\ left <= From(id)
                         /\ id \in Int
  BY <1>2, <1>3, Cut, BlockFacts DEF Blocks
<1>9. \A id \in Blocks, c \in Classes : FirstPlace(id, c) \in Int
  <2>1. TAKE id \in Blocks, c \in Classes
  <2>2. Cardinality(Of(c, left, From(id))) \in Nat
    BY <1>3, <1>8, Additive
  <2>3. Below(c) \in Int
    BY <1>2, <1>3, Totals DEF Below, Classes
  <2>4. QED
    BY <1>7, <2>2, <2>3
<1>10. LoopOK'
  BY <1>1, <1>2, <1>4, <1>8, <1>9 DEF LoopOK
<1>11. TypeOK'
  BY <1>1, <1>4, <1>8 DEF IInv, TypeOK
<1>12. Counted'
  BY <1>1, <1>4, <1>6 DEF Counted
<1>13. Placed'
  <2>1. ASSUME NEW id \in Blocks, NEW c \in Classes, b(id) <= right
        PROVE  place'[id][c] = Below(c) + Cardinality(Of(c, left, i'[id]))
    <3>1. From(id) = b(id)
      BY <1>3, <1>8, <2>1 DEF From
    <3>2. QED
      BY <1>1, <1>7, <3>1
  <2>2. QED
    BY <1>1, <1>4, <2>1 DEF Placed
<1>14. Filled'
  <2>1. ASSUME NEW id \in Blocks, NEW q \in b(id) .. (e(id) - 1)
        PROVE  temp'[Dest(q)] = Unset /\ ~(q < i'[id])
    <3>1. b(id) \in Int /\ e(id) \in Int /\ e(id) <= right /\ left <= b(id)
      BY <1>2, InLoop
    <3>2. q \in left .. (right - 1) /\ b(id) <= q /\ q \in Int
      BY <1>3, <3>1
    <3>3. Dest(q) \in 0 .. (n - 1)
      BY <1>2, <1>3, <3>2, DestFacts
    <3>4. QED
      BY <1>1, <3>1, <3>2, <3>3
  <2>2. Unset' = Unset
    BY DEF Unset
  <2>3. QED
    BY <1>1, <1>4, <2>1, <2>2 DEF Filled
<1>15. ThreeWaySplit'
  BY <1>1 DEF ThreeWaySplit
<1>16. QED
  BY <1>5, <1>10, <1>11, <1>12, <1>13, <1>14, <1>15 DEF IInv

LEMMA ScatterKeepsIInv == ASSUME NEW id \in Blocks, IInv, Scatter(id) PROVE IInv'
<1> DEFINE q == i[id]
           w == array[q]
           k == Class(w)
           d == place[id][k]
<1>1. /\ at = "scattering" /\ q < e(id) /\ at' = at
      /\ UNCHANGED <<text, left, right, array, pivot>> /\ UNCHANGED <<counted, m1, m2>>
      /\ temp' = [temp EXCEPT ![d] = w]
      /\ place' = [place EXCEPT ![id][k] = place[id][k] + 1]
      /\ i' = [i EXCEPT ![id] = q + 1]
  BY DEF Scatter, input
<1>2. Parallel /\ Parallel' /\ RangeOK /\ LoopOK
  BY <1>1 DEF Parallel, IInv
<1>3. /\ n > 1 /\ q \in Int /\ b(id) \in Int /\ e(id) \in Int /\ b(id) <= q
      /\ left \in Int /\ right \in Int /\ left <= b(id) /\ e(id) <= right
      /\ q \in left .. (right - 1) /\ q \in b(id) .. (e(id) - 1) /\ b(id) <= right
  BY <1>1, <1>2, InLoop
<1>4. /\ n' = n /\ Blocks' = Blocks
      /\ \A j : b(j)' = b(j) /\ e(j)' = e(j)
      /\ \A c, l, r : Of(c, l, r)' = Of(c, l, r)
      /\ \A c : Below(c)' = Below(c)
      /\ \A r : Dest(r)' = Dest(r)
  BY <1>1, SameWords
<1>5. RangeOK' /\ Original'
  BY <1>1, <1>2, WordsAgain DEF IInv
<1>6. /\ i \in [Blocks -> Int] /\ counted \in [Blocks -> [Classes -> Nat]]
      /\ place \in [Blocks -> [Classes -> Int]]
      /\ \A j \in Blocks : b(j) <= i[j] /\ (i[j] <= e(j) \/ i[j] = b(j))
  BY <1>1, <1>2 DEF LoopOK
<1>7. /\ i' \in [Blocks -> Int] /\ i'[id] = q + 1 /\ \A j \in Blocks \ {id} : i'[j] = i[j]
  BY <1>1, <1>3, <1>6
<1>8. k \in Classes /\ Dest(q) = Below(k) + Cardinality(Of(k, left, q))
  BY ClassFacts DEF Dest
\* The word goes where it belongs.
<1>9. d = Dest(q) /\ d \in 0 .. (n - 1)
  <2>1. d = Below(k) + Cardinality(Of(k, left, q))
    BY <1>1, <1>3, <1>8 DEF IInv, Placed
  <2>2. Dest(q) \in 0 .. (n - 1)
    BY <1>2, <1>3, DestFacts
  <2>3. QED
    BY <1>8, <2>1, <2>2
<1>10. DOMAIN temp = 0 .. (n - 1)
  BY <1>1 DEF IInv, TypeOK
<1> HIDE DEF k, d
<1>11. /\ place' \in [Blocks -> [Classes -> Int]]
       /\ \A c \in Classes : place'[id][c] = IF c = k THEN place[id][c] + 1 ELSE place[id][c]
       /\ \A j \in Blocks \ {id} : place'[j] = place[j]
  <2> DEFINE x == place[id]
             y == [x EXCEPT ![k] = x[k] + 1]
  <2>1. x \in [Classes -> Int] /\ place' = [place EXCEPT ![id] = y]
    BY <1>1, <1>6
  <2>2. y \in [Classes -> Int] /\ \A c \in Classes : y[c] = IF c = k THEN x[c] + 1 ELSE x[c]
    BY <1>8, <2>1
  <2> HIDE DEF x, y
  <2>3. /\ place' \in [Blocks -> [Classes -> Int]] /\ place'[id] = y
        /\ \A j \in Blocks \ {id} : place'[j] = place[j]
    BY <1>6, <2>1, <2>2
  <2>4. QED
    BY <2>2, <2>3 DEF x
<1>12. LoopOK'
  <2>1. \A j \in Blocks : b(j) <= i'[j] /\ (i'[j] <= e(j) \/ i'[j] = b(j))
    BY <1>1, <1>3, <1>6, <1>7
  <2>2. QED
    BY <1>1, <1>4, <1>6, <1>7, <1>11, <2>1 DEF LoopOK
<1>13. TypeOK'
  <2>1. \A j \in Blocks : left <= i'[j] /\ (i'[j] <= right \/ i'[j] = b(j))
    <3>1. \A j \in Blocks : left <= i[j] /\ (i[j] <= right \/ i[j] = b(j))
      BY <1>1 DEF IInv, TypeOK
    <3>2. left <= q + 1 /\ q + 1 <= right
      BY <1>1, <1>3
    <3>3. QED
      BY <1>7, <3>1, <3>2
  <2>2. DOMAIN temp' = 0 .. (n - 1)
    BY <1>1, <1>10
  <2>3. QED
    BY <1>1, <1>4, <2>1, <2>2 DEF IInv, TypeOK
<1>14. Counted'
  <2>1. \A j \in Blocks, c \in Classes : counted[j][c] = Cardinality(Of(c, b(j), e(j)))
    BY <1>1, <1>2 DEF IInv, Counted
  <2>2. QED
    BY <1>1, <1>4, <2>1 DEF Counted
<1>15. Placed'
  <2>1. ASSUME NEW j \in Blocks, NEW c \in Classes, b(j) <= right
        PROVE  place'[j][c] = Below(c) + Cardinality(Of(c, left, i'[j]))
    <3>1. place[j][c] = Below(c) + Cardinality(Of(c, left, i[j]))
      BY <1>1, <2>1 DEF IInv, Placed
    <3>2. CASE j = id
      <4>1. /\ Cardinality(Of(c, left, q)) \in Nat
            /\ Cardinality(Of(c, left, q + 1)) =
                 Cardinality(Of(c, left, q)) + (IF k = c THEN 1 ELSE 0)
        BY <1>3, OneMore DEF k
      <4>2. Below(c) \in Int
        BY <1>2, <1>3, Totals DEF Below, Classes
      <4> DEFINE x == Cardinality(Of(c, left, q))
                 y == Cardinality(Of(c, left, q + 1))
                 z == Below(c)
      <4>3. /\ x \in Nat /\ y = x + (IF k = c THEN 1 ELSE 0) /\ z \in Int
            /\ place'[id][c] = IF c = k THEN (z + x) + 1 ELSE z + x
        BY <1>11, <3>1, <3>2, <4>1, <4>2
      <4> HIDE DEF x, y, z
      <4>4. place'[id][c] = z + y
        BY <4>3
      <4>5. QED
        BY <1>7, <3>2, <4>4 DEF y, z
    <3>3. CASE j # id
      BY <1>7, <1>11, <3>1, <3>3
    <3>4. QED
      BY <3>2, <3>3
  <2>2. QED
    BY <1>1, <1>4, <2>1 DEF Placed
<1>16. Filled'
  <2>1. ASSUME NEW j \in Blocks, NEW r \in b(j) .. (e(j) - 1)
        PROVE  temp'[Dest(r)] = IF r < i'[j] THEN array[r] ELSE Unset
    <3>1. temp[Dest(r)] = IF r < i[j] THEN array[r] ELSE Unset
      BY <1>1, <1>2 DEF IInv, Filled
    <3>2. /\ b(j) \in Int /\ e(j) \in Int /\ left <= b(j) /\ e(j) <= right /\ i[j] \in Int
      BY <1>2, InLoop
    <3>3. r \in left .. (right - 1) /\ r \in Int
      BY <1>3, <3>2
    <3>4. CASE r = q
      <4>1. j = id
        BY <1>2, <1>3, <3>4, BlocksApart
      <4>2. temp'[Dest(r)] = array[r]
        BY <1>1, <1>9, <1>10, <3>4
      <4>3. QED
        BY <1>3, <1>7, <3>4, <4>1, <4>2
    <3>5. CASE r # q
      <4>1. Dest(r) # d
        BY <1>2, <1>3, <1>9, <3>3, <3>5, DestFacts
      <4>2. Dest(r) \in 0 .. (n - 1)
        BY <1>2, <1>3, <3>3, DestFacts
      <4>3. temp'[Dest(r)] = temp[Dest(r)]
        BY <1>1, <1>10, <4>1, <4>2
      <4>4. r < i'[j] <=> r < i[j]
        BY <1>3, <1>7, <3>2, <3>3, <3>5
      <4>5. QED
        BY <3>1, <4>3, <4>4
    <3>6. QED
      BY <3>4, <3>5
  <2>2. Unset' = Unset
    BY DEF Unset
  <2>3. QED
    BY <1>1, <1>4, <2>1, <2>2 DEF Filled
<1>17. ThreeWaySplit'
  BY <1>1 DEF ThreeWaySplit
<1>18. QED
  BY <1>5, <1>12, <1>13, <1>14, <1>15, <1>16, <1>17 DEF IInv

(***************************************************************************)
(* The places of temp are the ranks of the sequential partition.           *)
(***************************************************************************)
LEMMA DestIsRank ==
  ASSUME RangeOK, n > 1, NEW q \in left .. (right - 1)
  PROVE  Dest(q) = Cardinality({r \in left .. (right - 1) :
                     IF Class(array[r]) = Class(array[q]) THEN r < q
                     ELSE Class(array[r]) = "L" \/ Class(array[q]) = "G"})
<1> DEFINE R     == left .. (right - 1)
           cl(r) == Class(array[r])
           L     == Of("L", left, right)
           E     == Of("E", left, right)
           Own   == Of(cl(q), left, q)
           Rank  == {r \in R : IF cl(r) = cl(q) THEN r < q ELSE cl(r) = "L" \/ cl(q) = "G"}
<1>1. left \in Int /\ right \in Int /\ q \in Int /\ q < right
  BY Cut
<1>2. /\ L = {r \in R : cl(r) = "L"} /\ E = {r \in R : cl(r) = "E"}
      /\ Own = {r \in R : cl(r) = cl(q) /\ r < q}
  BY <1>1 DEF Of
<1>3. Dest(q) = Below(cl(q)) + Cardinality(Own)
  BY DEF Dest
<1>4. cl(q) \in {"L", "E", "G"} /\ \A r \in R : cl(r) \in {"L", "E", "G"}
  BY ClassFacts DEF Classes
<1>5. Below("L") = 0 /\ Below("E") = Cardinality(L) /\ Below("G") = Cardinality(L) + Cardinality(E)
  BY DEF Below
<1> DEFINE hi == right - 1
<1>6. hi \in Int /\ L \subseteq left .. hi /\ E \subseteq left .. hi /\ Own \subseteq left .. hi
  BY <1>1, <1>2
<1> HIDE DEF hi, L, E, Own, cl
<1>7. IsFiniteSet(L) /\ IsFiniteSet(E) /\ IsFiniteSet(Own)
  <2>1. IsFiniteSet(left .. hi)
    BY <1>1, <1>6, FS_Interval
  <2>2. QED
    BY <1>6, <2>1, FS_Subset
<1>8. CASE cl(q) = "L"
  <2>1. Rank = Own
    BY <1>2, <1>4, <1>8
  <2>2. Cardinality(Own) \in Nat
    BY <1>7, FS_CardinalityType
  <2>3. QED
    BY <1>3, <1>5, <1>8, <2>1, <2>2 DEF cl
<1>9. CASE cl(q) = "E"
  <2>1. Rank = L \cup Own /\ L \cap Own = {}
    BY <1>2, <1>4, <1>9
  <2>2. Cardinality(L \cup Own) = Cardinality(L) + Cardinality(Own)
    BY <1>7, <2>1, DisjointUnion
  <2>3. QED
    BY <1>3, <1>5, <1>9, <2>1, <2>2 DEF cl
<1>10. CASE cl(q) = "G"
  <2>1. Rank = (L \cup E) \cup Own /\ (L \cup E) \cap Own = {} /\ L \cap E = {}
    BY <1>2, <1>4, <1>10
  <2>2. IsFiniteSet(L \cup E) /\ Cardinality(L \cup E) = Cardinality(L) + Cardinality(E)
    BY <1>7, <2>1, DisjointUnion
  <2>3. Cardinality((L \cup E) \cup Own) = Cardinality(L \cup E) + Cardinality(Own)
    BY <1>7, <2>1, <2>2, DisjointUnion
  <2>4. QED
    BY <1>3, <1>5, <1>10, <2>1, <2>2, <2>3 DEF cl
<1>11. QED
  BY <1>4, <1>8, <1>9, <1>10

\* An array that has every word where it belongs is the one Split leaves.
LEMMA SplitResult ==
  ASSUME RangeOK, n > 1, DOMAIN array \subseteq Int,
         NEW t, \A q \in left .. (right - 1) : t[Dest(q)] = array[q]
  PROVE  Split(text, array, left, right, pivot) =
           [array |-> [q \in DOMAIN array |->
                         IF left <= q /\ q < right THEN t[q - left] ELSE array[q]],
            m1 |-> left + Cardinality(Of("L", left, right)),
            m2 |-> left + Cardinality(Of("L", left, right)) + Cardinality(Of("E", left, right))]
<1> DEFINE R        == left .. (right - 1)
           class(q) == ClassOf(text, array[q], pivot)
           Rank(q)  == Cardinality({r \in R : IF class(r) = class(q) THEN r < q
                                              ELSE class(r) = "L" \/ class(q) = "G"})
           New      == [x \in DOMAIN array |->
                          IF x \in R THEN array[CHOOSE q \in R : left + Rank(q) = x] ELSE array[x]]
           M1       == left + Cardinality({q \in R : class(q) = "L"})
           M2       == left + Cardinality({q \in R : class(q) # "G"})
           L        == Of("L", left, right)
           E        == Of("E", left, right)
<1>1. Split(text, array, left, right, pivot) = [array |-> New, m1 |-> M1, m2 |-> M2]
  BY DEF Split
<1>2. left \in Int /\ right \in Int /\ n = right - left /\ n \in Int
  BY Cut DEF n
<1>3. \A q \in R : Rank(q) = Dest(q)
  BY DestIsRank DEF Class
<1>4. M1 = left + Cardinality(L)
  BY DEF Of, Class
<1>5. M2 = left + Cardinality(L) + Cardinality(E)
  <2>1. {q \in R : class(q) # "G"} = L \cup E /\ L \cap E = {}
    BY ClassFacts DEF Of, Class, Classes
  <2>2. IsFiniteSet(L) /\ IsFiniteSet(E)
    <3> DEFINE hi == right - 1
    <3>1. hi \in Int /\ L \subseteq left .. hi /\ E \subseteq left .. hi
      BY <1>2 DEF Of
    <3> HIDE DEF hi, L, E
    <3>2. IsFiniteSet(left .. hi)
      BY <1>2, <3>1, FS_Interval
    <3>3. QED
      BY <3>1, <3>2, FS_Subset
  <2>3. /\ Cardinality(L \cup E) = Cardinality(L) + Cardinality(E)
        /\ Cardinality(L) \in Nat /\ Cardinality(E) \in Nat
    BY <2>1, <2>2, DisjointUnion
  <2>4. QED
    BY <1>2, <2>1, <2>3
<1> HIDE DEF Rank, class
<1>6. ASSUME NEW x \in R
      PROVE  array[CHOOSE q \in R : left + Rank(q) = x] = t[x - left]
  <2>1. x - left \in 0 .. (n - 1) /\ x \in Int
    BY <1>2
  <2>2. PICK q \in R : Dest(q) = x - left
    BY <2>1, DestFacts
  <2>3. \A r \in R : left + Rank(r) = x <=> Rank(r) = x - left
    <3>1. \A r \in R : Rank(r) \in Int
      BY <1>3, DestFacts
    <3>2. QED
      BY <1>2, <2>1, <3>1
  <2>4. \A r \in R : left + Rank(r) = x => r = q
    BY <1>3, <2>2, <2>3, DestFacts
  <2>5. left + Rank(q) = x
    BY <1>3, <2>2, <2>3
  <2>6. (CHOOSE r \in R : left + Rank(r) = x) = q
    BY <2>4, <2>5
  <2>7. t[x - left] = array[q]
    BY <2>2
  <2>8. QED
    BY <2>6, <2>7, Zenon
<1>7. \A x \in DOMAIN array : x \in R <=> left <= x /\ x < right
  BY <1>2
<1> DEFINE Copied == [q \in DOMAIN array |-> IF left <= q /\ q < right THEN t[q - left] ELSE array[q]]
<1>8. New = Copied
  <2>1. \A x \in DOMAIN array : New[x] = Copied[x]
    BY <1>6, <1>7
  <2>2. QED
    BY <2>1
<1> HIDE DEF New, Copied, M1, M2
<1>9. Split(text, array, left, right, pivot) =
        [array |-> Copied, m1 |-> left + Cardinality(L), m2 |-> left + Cardinality(L) + Cardinality(E)]
  BY <1>1, <1>4, <1>5, <1>8
<1>10. QED
  BY <1>9 DEF Copied

LEMMA CopyBackKeepsIInv == IInv /\ CopyBack => IInv'
<1> SUFFICES ASSUME IInv, CopyBack PROVE IInv'
  OBVIOUS
<1> DEFINE nL  == Cardinality(Of("L", left, right))
           nE  == Cardinality(Of("E", left, right))
           New == [q \in DOMAIN array |-> IF left <= q /\ q < right THEN temp[q - left] ELSE array[q]]
<1>1. /\ at = "scattering" /\ LoopEnded /\ at' = "returned"
      /\ UNCHANGED <<text, left, right, pivot>>
      /\ array' = New
      /\ m1' = left + Total("L") /\ m2' = left + Total("L") + Total("E")
  BY DEF CopyBack, input
<1>2. Parallel /\ RangeOK /\ LoopOK /\ n > 1
  BY <1>1 DEF Parallel, IInv, RangeOK
<1>3. /\ left \in Nat /\ right \in Nat /\ left <= right /\ n = right - left /\ n' = n
      /\ left .. (right - 1) \subseteq DOMAIN text /\ DOMAIN text \subseteq Int
  BY <1>1, <1>2 DEF RangeOK, n
<1>4. /\ array \in [DOMAIN text -> DOMAIN text] /\ array = [q \in DOMAIN text |-> q]
      /\ pivot = par_pivot_select(text, array, left, right)
  BY <1>1, <1>2 DEF IInv, TypeOK, Original
<1>5. \A k \in Blocks, c \in Classes : counted[k][c] = Cardinality(Of(c, b(k), e(k)))
  BY <1>1, <1>2 DEF IInv, Counted
<1>6. Total("L") = nL /\ Total("E") = nE
  BY <1>2, <1>5, FirstPlaceFacts DEF Classes
<1>7. \A q \in left .. (right - 1) : temp[Dest(q)] = array[q]
  <2>1. TAKE q \in left .. (right - 1)
  <2>2. PICK id \in Blocks : q \in b(id) .. (e(id) - 1)
    BY <1>2, InABlock
  <2>3. q < i[id]
    <3>1. i[id] >= e(id) /\ i[id] \in Int /\ b(id) \in Int /\ e(id) \in Int
      BY <1>1, <1>2, InLoop DEF LoopEnded
    <3>2. QED
      BY <2>2, <3>1
  <2>4. QED
    BY <1>1, <2>2, <2>3 DEF IInv, Filled
<1>8. Split(text, array, left, right, pivot) = [array |-> New, m1 |-> left + nL, m2 |-> left + nL + nE]
  BY <1>2, <1>3, <1>4, <1>7, SplitResult
<1>9. nL \in Nat /\ nE \in Nat /\ nL + nE <= n
  BY <1>2, Totals DEF Classes
<1> HIDE DEF nL, nE
<1>10. New \in [DOMAIN text -> DOMAIN text]
  <2>1. ASSUME NEW q \in DOMAIN text, left <= q, q < right
        PROVE  temp[q - left] \in DOMAIN text
    <3>1. q - left \in 0 .. (n - 1)
      BY <1>3, <2>1
    <3>2. PICK r \in left .. (right - 1) : Dest(r) = q - left
      BY <1>2, <3>1, DestFacts
    <3>3. temp[q - left] = array[r] /\ r \in DOMAIN text
      BY <1>3, <1>7, <3>2
    <3>4. QED
      BY <1>4, <3>3
  <2>2. QED
    BY <1>4, <2>1
<1> HIDE DEF New
<1>11. TypeOK'
  <2>1. {m1', m2'} \subseteq 0 .. right
    BY <1>1, <1>3, <1>6, <1>9
  <2>2. QED
    BY <1>1, <1>10, <2>1 DEF TypeOK
<1>12. RangeOK' /\ Original' /\ LoopOK' /\ Counted' /\ Placed' /\ Filled'
  BY <1>1, <1>3 DEF IInv, RangeOK, Original, LoopOK, Counted, Placed, Filled, Parallel
<1>13. ThreeWaySplit'
  <2>1. [array |-> array', m1 |-> m1', m2 |-> m2'] = Split(text, array, left, right, pivot)
    BY <1>1, <1>6, <1>8
  <2> DEFINE before == [q \in DOMAIN text |-> q]
  <2>2. [array |-> array', m1 |-> m1', m2 |-> m2'] =
          Split(text, before, left, right, par_pivot_select(text, before, left, right))
    BY <1>4, <2>1
  <2>3. QED
    BY <1>1, <2>2 DEF ThreeWaySplit
<1>14. QED
  BY <1>11, <1>12, <1>13 DEF IInv

LEMMA StutterKeepsIInv == IInv /\ UNCHANGED vars => IInv'
<1> SUFFICES ASSUME IInv, UNCHANGED vars PROVE IInv'
  OBVIOUS
<1>1. /\ UNCHANGED <<text, left, right, array, pivot>>
      /\ UNCHANGED <<at, i, counted, place, temp, m1, m2>>
  BY DEF vars, input
<1>2. /\ n' = n /\ Blocks' = Blocks
      /\ \A j : b(j)' = b(j) /\ e(j)' = e(j)
      /\ \A c, l, r : Of(c, l, r)' = Of(c, l, r)
      /\ \A c : Below(c)' = Below(c)
      /\ \A q : Dest(q)' = Dest(q)
  BY <1>1, SameWords
<1>3. RangeOK' /\ Original' /\ (Parallel' <=> Parallel)
  BY <1>1, WordsAgain DEF IInv, Parallel
<1>4. TypeOK' /\ LoopOK'
  BY <1>1, <1>2, <1>3 DEF IInv, TypeOK, LoopOK
<1>5. Counted'
  BY <1>1, <1>2, <1>3 DEF IInv, Counted
<1>6. Placed'
  BY <1>1, <1>2 DEF IInv, Placed
<1>7. Filled'
  BY <1>1, <1>2 DEF IInv, Filled, Unset
<1>8. ThreeWaySplit'
  BY <1>1, <1>2 DEF IInv, ThreeWaySplit
<1>9. QED
  BY <1>3, <1>4, <1>5, <1>6, <1>7, <1>8 DEF IInv

LEMMA NextKeepsIInv == IInv /\ [Next]_vars => IInv'
BY CallKeepsIInv, CountWordKeepsIInv, PrefixSumsKeepsIInv, ScatterKeepsIInv,
   CopyBackKeepsIInv, StutterKeepsIInv
   DEF Next, Step, Returned

(***************************************************************************)
(* The theorems.                                                           *)
(***************************************************************************)

(* The invariant of the parallel partition: at every moment the counters of a    *)
(* block, its places and the part of temp it has filled are those of the words   *)
(* it has passed, however the blocks are interleaved.                            *)
THEOREM PartitionInvariance == Spec => []IInv
<1>1. IInv /\ [Next]_vars => IInv'
  BY NextKeepsIInv
<1>2. QED
  BY InitIInv, <1>1, PTL DEF Spec

(* Every schedule of the two parallel loops ends with the range split the way    *)
(* the sequential partition splits it.                                           *)
THEOREM SchedulesAgree == Spec => []ThreeWaySplit
<1>1. IInv => ThreeWaySplit
  BY DEF IInv
<1>2. QED
  BY PartitionInvariance, <1>1, PTL

\* What a block has still to write are the places of the words it has not passed.
LEMMA OwedFacts ==
  ASSUME IInv, at = "scattering", NEW id \in Blocks, NEW c \in Classes
  PROVE  Owed(id, c) = {Dest(q) : q \in Of(c, i[id], e(id))}
<1> DEFINE X == Of(c, i[id], e(id))
           m == Cardinality(X)
           P == place[id][c]
           hi == P + m - 1
<1>1. Parallel /\ RangeOK /\ LoopOK /\ n > 1
  BY DEF Parallel, IInv, RangeOK
<1>2. /\ i[id] \in Int /\ b(id) \in Int /\ e(id) \in Int /\ left \in Int /\ right \in Int
      /\ left <= b(id) /\ b(id) <= i[id] /\ e(id) <= right
      /\ i[id] < e(id) => b(id) <= right
  BY <1>1, InLoop
<1>3. P \in Int
  BY <1>1 DEF LoopOK
<1>4. Owed(id, c) = P .. hi
  BY DEF Owed, Of
<1>5. CASE ~(i[id] < e(id))
  <2>1. X = {}
    BY <1>2, <1>5 DEF Of
  <2>2. m = 0
    BY <2>1, FS_EmptySet
  <2>3. P .. hi = {}
    BY <1>3, <2>2
  <2>4. QED
    BY <1>4, <2>1, <2>3
<1>6. CASE i[id] < e(id)
  <2>1. P = Below(c) + Cardinality(Of(c, left, i[id])) /\ Below(c) \in Int
    BY <1>1, <1>2, <1>6, Totals DEF IInv, Placed, Below, Classes
  <2>2. m \in Nat
    <3> DEFINE lo   == i[id]
               last == e(id)
    <3>1. lo \in Int /\ last \in Int /\ lo <= last
      BY <1>2, <1>6
    <3> HIDE DEF lo, last
    <3>2. Cardinality(Of(c, lo, last)) \in Nat
      BY <3>1, Additive
    <3>3. QED
      BY <3>2 DEF lo, last
  <2>3. ASSUME NEW q \in X
        PROVE  Dest(q) \in P .. hi /\ q \in left .. (right - 1)
    <3>1. q \in Int /\ i[id] <= q /\ q < e(id) /\ Class(array[q]) = c
      BY <1>2 DEF Of
    <3>2. Dest(q) = Below(c) + Cardinality(Of(c, left, q))
      BY <3>1 DEF Dest
    <3>3. /\ Cardinality(Of(c, left, i[id])) \in Nat
          /\ Cardinality(Of(c, left, q)) =
               Cardinality(Of(c, left, i[id])) + Cardinality(Of(c, i[id], q))
      BY <1>2, <3>1, Additive
    <3>4. /\ Cardinality(Of(c, i[id], q)) \in Nat
          /\ Cardinality(Of(c, i[id], q + 1)) = Cardinality(Of(c, i[id], q)) + 1
      BY <1>2, <3>1, OneMore
    <3>5. Cardinality(Of(c, q + 1, e(id))) \in Nat /\ m = Cardinality(Of(c, i[id], q + 1))
                                                          + Cardinality(Of(c, q + 1, e(id)))
      <4> DEFINE s == q + 1
      <4>1. s \in Int /\ i[id] <= s /\ s <= e(id)
        BY <1>2, <3>1
      <4> HIDE DEF s
      <4>2. /\ Cardinality(Of(c, s, e(id))) \in Nat
            /\ Cardinality(X) = Cardinality(Of(c, i[id], s)) + Cardinality(Of(c, s, e(id)))
        BY <1>2, <4>1, Additive
      <4>3. QED
        BY <4>2 DEF s
    <3> DEFINE x == Cardinality(Of(c, left, i[id]))
               y == Cardinality(Of(c, i[id], q))
               z == Cardinality(Of(c, q + 1, e(id)))
               u == Below(c)
    <3>6. /\ x \in Nat /\ y \in Nat /\ z \in Nat /\ u \in Int /\ m = (y + 1) + z
          /\ P = u + x /\ Dest(q) = u + (x + y)
      BY <2>1, <3>2, <3>3, <3>4, <3>5
    <3> HIDE DEF x, y, z, u, X, m, P
    <3>7. Dest(q) \in Int /\ P <= Dest(q) /\ Dest(q) <= hi
      BY <3>6
    <3>8. hi \in Int
      BY <1>3, <2>2
    <3>9. Dest(q) \in P .. hi
      BY <1>3, <3>7, <3>8
    <3>10. QED
      BY <1>2, <3>1, <3>9
  <2> DEFINE f == [q \in X |-> Dest(q)]
  <2>4. f \in [X -> P .. hi]
    BY <2>3
  <2>5. \A q, r \in X : f[q] = f[r] => q = r
    BY <1>1, <2>3, DestFacts
  <2>6. DOMAIN f = X /\ \A q \in X : f[q] = Dest(q)
    OBVIOUS
  <2> HIDE DEF f
  <2>7. f \in Injection(X, P .. hi)
    <3>1. IsInjective(f)
      BY <2>5, <2>6, Zenon DEF IsInjective
    <3>2. QED
      BY <2>4, <3>1 DEF Injection
  <2>8. hi \in Int /\ Cardinality(P .. hi) = m /\ IsFiniteSet(P .. hi)
    <3> HIDE DEF m, P
    <3>1. hi \in Int
      BY <1>3, <2>2
    <3>2. /\ IsFiniteSet(P .. hi)
          /\ Cardinality(P .. hi) = IF P > hi THEN 0 ELSE hi - P + 1
      <4> HIDE DEF hi
      <4>1. QED
        BY <1>3, <3>1, FS_Interval
    <3>3. QED
      BY <1>3, <2>2, <3>1, <3>2
  <2> HIDE DEF X, hi
  <2>9. f \in Surjection(X, P .. hi)
    BY <2>7, <2>8, FS_Injection
  <2>10. \A k \in P .. hi : \E q \in X : f[q] = k
    BY <2>9 DEF Surjection
  <2>11. P .. hi = {Dest(q) : q \in X}
    BY <2>3, <2>6, <2>10
  <2>12. QED
    BY <1>4, <2>11 DEF X
<1>7. QED
  BY <1>5, <1>6

(* The blocks never write to one place of temp, none of their writes falls       *)
(* outside, and what they have still to write is what is unset.                  *)
THEOREM PlacesOfTemp == Spec => []PlacesPartitionTemp
<1>1. IInv => PlacesPartitionTemp
  <2> SUFFICES ASSUME IInv, at = "scattering"
               PROVE  /\ \A x, y \in Claims : x # y => Owed(x[1], x[2]) \cap Owed(y[1], y[2]) = {}
                      /\ UNION {Owed(x[1], x[2]) : x \in Claims} =
                           {k \in 0 .. (n - 1) : temp[k] = Unset}
    BY DEF PlacesPartitionTemp
  <2> DEFINE R     == left .. (right - 1)
             To(x) == Of(x[2], i[x[1]], e(x[1]))
  <2>1. Parallel /\ RangeOK /\ LoopOK /\ n > 1
    BY DEF Parallel, IInv, RangeOK
  <2>2. \A x \in Claims : x[1] \in Blocks /\ x[2] \in Classes
    BY DEF Claims
  <2>3. ASSUME NEW x \in Claims, NEW q \in To(x)
        PROVE  /\ q \in R /\ q \in b(x[1]) .. (e(x[1]) - 1) /\ ~(q < i[x[1]])
               /\ Class(array[q]) = x[2]
    <3>1. /\ i[x[1]] \in Int /\ b(x[1]) \in Int /\ e(x[1]) \in Int /\ left \in Int /\ right \in Int
          /\ left <= b(x[1]) /\ b(x[1]) <= i[x[1]] /\ e(x[1]) <= right
      BY <2>1, <2>2, InLoop
    <3>2. QED
      BY <2>3, <3>1 DEF Of
  <2>4. \A x \in Claims : Owed(x[1], x[2]) = {Dest(q) : q \in To(x)}
    BY <2>2, OwedFacts
  <2>5. /\ \A q \in R : Dest(q) \in 0 .. (n - 1)
        /\ \A q, r \in R : Dest(q) = Dest(r) => q = r
        /\ \A k \in 0 .. (n - 1) : \E q \in R : Dest(q) = k
    BY <2>1, DestFacts
  <2>6. ASSUME NEW x \in Claims, NEW y \in Claims, x # y
        PROVE  Owed(x[1], x[2]) \cap Owed(y[1], y[2]) = {}
    <3>1. x[1] # y[1] \/ x[2] # y[2]
      BY <2>6 DEF Claims
    <3>2. \A q \in To(x) : q \notin To(y)
      BY <2>1, <2>2, <2>3, <3>1, BlocksApart
    <3> HIDE DEF To, R
    <3>3. QED
      BY <2>3, <2>4, <2>5, <3>2
  <2>7. ASSUME NEW x \in Claims, NEW q \in To(x)
        PROVE  Dest(q) \in 0 .. (n - 1) /\ temp[Dest(q)] = Unset
    BY <2>2, <2>3, <2>5, <2>7 DEF IInv, Filled
  <2>8. ASSUME NEW k \in 0 .. (n - 1), temp[k] = Unset
        PROVE  \E x \in Claims : k \in Owed(x[1], x[2])
    <3>1. PICK q \in R : Dest(q) = k
      BY <2>5
    <3>2. PICK id \in Blocks : q \in b(id) .. (e(id) - 1)
      BY <2>1, <3>1, InABlock
    <3>3. array[q] # Unset
      <4>1. array[q] = q
        BY <3>1 DEF IInv, Original, RangeOK
      <4>2. left \in Nat /\ right \in Nat
        BY <2>1 DEF RangeOK
      <4>3. QED
        BY <3>1, <4>1, <4>2 DEF Unset
    <3>4. ~(q < i[id])
      BY <2>8, <3>1, <3>2, <3>3 DEF IInv, Filled
    <3> DEFINE x == <<id, Class(array[q])>>
    <3>5. x \in Claims /\ x[1] = id /\ x[2] = Class(array[q])
      BY ClassFacts DEF Claims
    <3>6. q \in To(x)
      <4>1. i[id] \in Int /\ b(id) \in Int /\ e(id) \in Int
        BY <2>1, InLoop
      <4>2. QED
        BY <3>2, <3>4, <3>5, <4>1 DEF Of
    <3> HIDE DEF x, To
    <3>7. QED
      BY <2>4, <3>1, <3>5, <3>6
  <2> HIDE DEF To
  <2>9. UNION {Owed(x[1], x[2]) : x \in Claims} = {k \in 0 .. (n - 1) : temp[k] = Unset}
    BY <2>4, <2>7, <2>8
  <2>10. QED
    BY <2>6, <2>9
<1>2. QED
  BY PartitionInvariance, <1>1, PTL
=============================================================================
