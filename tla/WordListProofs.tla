--------------------------- MODULE WordListProofs ----------------------------
(***************************************************************************)
(* Proofs about the two cores, WordList and Baseline: for documents of     *)
(* every length, over every set of letters and separators.  For whatever   *)
(* lies in memory behind the document, the two passes of WordList agree,   *)
(* its block is exactly large enough, and it returns the strings found,    *)
(* each once and in order; of a terminated document these are the words.   *)
(* The baseline returns the words if the document ends in no letter.       *)
(***************************************************************************)
EXTENDS WordList, Baseline, FiniteSetTheorems, SequenceTheorems, TLAPS

(***************************************************************************)
(* Induction up to m for a set: how many numbers have nothing but members  *)
(* below them tells that it is all of them.                                *)
(***************************************************************************)
LEMMA UpTo ==
  ASSUME NEW m \in Nat, NEW S, 0 \in S,
         \A k \in 0 .. (m - 1) : k \in S => k + 1 \in S
  PROVE  0 .. m \subseteq S
<1> DEFINE G == {k \in 0 .. m : \A j \in 0 .. k : j \in S}
           c == Cardinality(G)
<1>1. IsFiniteSet(0 .. m) /\ Cardinality(0 .. m) = m + 1
  BY FS_Interval
<1>2. IsFiniteSet(G) /\ c \in Nat /\ G \subseteq 0 .. m
  BY <1>1, FS_Subset, FS_CardinalityType
<1>3. \A k \in G : \A j \in 0 .. k : j \in G
  OBVIOUS
<1>4. 0 \in G
  OBVIOUS
<1>5. \A k \in G : k + 1 <= m => k + 1 \in G
  <2>1. TAKE k \in G
  <2>2. HAVE k + 1 <= m
  <2>3. k \in 0 .. (m - 1) /\ k \in S /\ \A j \in 0 .. k : j \in S
    BY <2>2
  <2>4. k + 1 \in S
    BY <2>3
  <2>5. \A j \in 0 .. (k + 1) : j \in 0 .. k \/ j = k + 1
    BY <2>3
  <2>6. QED
    BY <2>2, <2>3, <2>4, <2>5
<1> HIDE DEF G
<1>6. c \notin G
  <2>1. SUFFICES ASSUME c \in G PROVE FALSE
    OBVIOUS
  <2>2. 0 .. c \subseteq G
    BY <1>3, <2>1
  <2>3. Cardinality(0 .. c) = c + 1 /\ IsFiniteSet(0 .. c)
    BY <1>2, FS_Interval
  <2>4. Cardinality(0 .. c) <= Cardinality(G)
    BY <1>2, <2>2, FS_Subset
  <2>5. QED
    BY <1>2, <2>3, <2>4
<1>7. c # 0
  BY <1>2, <1>4, FS_EmptySet
<1>8. c - 1 \in G
  <2>1. SUFFICES ASSUME c - 1 \notin G PROVE FALSE
    OBVIOUS
  <2>2. \A k \in G : k \in 0 .. (c - 2)
    BY <1>2, <1>3, <1>7, <2>1
  <2> DEFINE d == c - 2
  <2>3. d \in Int /\ G \subseteq 0 .. d
    BY <1>2, <2>2
  <2>4. Cardinality(0 .. d) = (IF 0 > d THEN 0 ELSE d - 0 + 1) /\ IsFiniteSet(0 .. d)
    BY <2>3, FS_Interval
  <2>5. c <= Cardinality(0 .. d)
    BY <2>3, <2>4, FS_Subset
  <2>6. QED
    BY <1>2, <1>7, <2>4, <2>5
<1>9. ~(c <= m)
  BY <1>2, <1>5, <1>6, <1>7, <1>8
<1>10. m \in G
  BY <1>2, <1>8, <1>9
<1>11. QED
  BY <1>10 DEF G

\* The least member of a set of numbers.
LEMMA Least ==
  ASSUME NEW S, NEW l \in Int, NEW m \in Int, m \in S, \A q \in S : q \in Int /\ l <= q
  PROVE  \E x \in S : \A y \in S : x <= y
<1>1. SUFFICES ASSUME \A x \in S : \E y \in S : ~(x <= y) PROVE FALSE
  OBVIOUS
<1> DEFINE B == { k \in Nat : \A q \in S : l + k <= q }
           d == m - l
<1>2. d \in Nat /\ l + d = m
  OBVIOUS
<1>3. 0 \in B
  OBVIOUS
<1>4. \A k \in 0 .. (d - 1) : k \in B => k + 1 \in B
  <2>1. SUFFICES ASSUME NEW k \in 0 .. (d - 1), k \in B PROVE k + 1 \in B
    OBVIOUS
  <2>2. \A q \in S : q # l + k
    BY <1>1, <2>1
  <2>3. QED
    BY <2>1, <2>2, <1>2
<1>5. d \in B
  <2> HIDE DEF B, d
  <2>1. 0 .. d \subseteq B
    BY <1>2, <1>3, <1>4, UpTo
  <2>2. QED
    BY <1>2, <2>1
<1>6. \E y \in S : ~(m <= y)
  BY <1>1
<1>7. QED
  BY <1>2, <1>5, <1>6

(***************************************************************************)
(* The order of strcmp.                                                    *)
(***************************************************************************)
String == Seq(0 .. 255)

LEMMA StringFacts ==
  ASSUME NEW s \in String
  PROVE  Len(s) \in Nat /\ \A k \in 1 .. Len(s) : s[k] \in 0 .. 255 /\ s[k] \in Int
<1>1. Len(s) \in Nat
  BY LenProperties DEF String
<1>2. ASSUME NEW k \in 1 .. Len(s) PROVE s[k] \in 0 .. 255
  BY ElementOfSeq DEF String
<1>3. \A k \in 1 .. Len(s) : s[k] \in 0 .. 255
  BY <1>2
<1>4. \A x \in 0 .. 255 : x \in Int
  OBVIOUS
<1>5. QED
  BY <1>1, <1>3, <1>4

LEMMA LessTransitive ==
  ASSUME NEW s \in String, NEW t \in String, NEW u \in String, Less(s, t), Less(t, u)
  PROVE  Less(s, u)
<1>1. /\ Len(s) \in Nat /\ Len(t) \in Nat /\ Len(u) \in Nat
      /\ \A k \in 1 .. Len(s) : s[k] \in Int
      /\ \A k \in 1 .. Len(t) : t[k] \in Int
      /\ \A k \in 1 .. Len(u) : u[k] \in Int
  BY StringFacts
<1>2. PICK a \in 0 .. Len(s) :
        /\ a <= Len(t) /\ \A k \in 1 .. a : s[k] = t[k]
        /\ a < Len(t) /\ (a < Len(s) => s[a + 1] < t[a + 1])
  BY DEF Less
<1>3. PICK b \in 0 .. Len(t) :
        /\ b <= Len(u) /\ \A k \in 1 .. b : t[k] = u[k]
        /\ b < Len(u) /\ (b < Len(t) => t[b + 1] < u[b + 1])
  BY DEF Less
<1>4. CASE a <= b
  <2>1. a < Len(u) /\ \A k \in 1 .. a : s[k] = u[k]
    BY <1>1, <1>2, <1>3, <1>4
  <2>2. a < Len(s) => s[a + 1] < u[a + 1]
    <3>1. SUFFICES ASSUME a < Len(s) PROVE s[a + 1] < u[a + 1]
      OBVIOUS
    <3>2. a + 1 \in 1 .. Len(s) /\ a + 1 \in 1 .. Len(t) /\ a + 1 \in 1 .. Len(u)
      BY <1>1, <1>2, <2>1, <3>1
    <3>3. s[a + 1] < t[a + 1]
      BY <1>2, <3>1
    <3>4. a < b => t[a + 1] = u[a + 1]
      BY <1>2, <1>3
    <3>5. a = b => t[a + 1] < u[a + 1]
      BY <1>2, <1>3
    <3>6. a < b \/ a = b
      BY <1>4
    <3>7. s[a + 1] \in Int /\ t[a + 1] \in Int /\ u[a + 1] \in Int
      BY <1>1, <3>2
    <3>8. QED
      BY <3>3, <3>4, <3>5, <3>6, <3>7
  <2>3. QED
    BY SMTT(30), <1>1, <1>2, <2>1, <2>2 DEF Less
<1>5. CASE b < a
  <2>1. b \in 0 .. Len(s) /\ b < Len(s) /\ b < Len(u) /\ \A k \in 1 .. b : s[k] = u[k]
    BY <1>1, <1>2, <1>3, <1>5
  <2>2. s[b + 1] < u[b + 1]
    <3>1. s[b + 1] = t[b + 1]
      BY <1>2, <1>3, <1>5
    <3>2. t[b + 1] < u[b + 1]
      BY <1>1, <1>2, <1>3, <1>5
    <3>3. QED
      BY <3>1, <3>2
  <2>3. QED
    BY <1>1, <2>1, <2>2 DEF Less
<1>6. QED
  BY <1>4, <1>5

LEMMA LessIrreflexive ==
  ASSUME NEW s \in String
  PROVE  ~Less(s, s)
<1>1. Len(s) \in Nat /\ \A k \in 1 .. Len(s) : s[k] \in Int
  BY StringFacts
<1>2. QED
  BY <1>1 DEF Less

LEMMA LessTotal ==
  ASSUME NEW s \in String, NEW t \in String, ~Less(s, t), ~Less(t, s)
  PROVE  s = t
<1>1. /\ Len(s) \in Nat /\ Len(t) \in Nat
      /\ \A k \in 1 .. Len(s) : s[k] \in Int
      /\ \A k \in 1 .. Len(t) : t[k] \in Int
  BY StringFacts
<1> DEFINE m == IF Len(s) <= Len(t) THEN Len(s) ELSE Len(t)
           A == { k \in 0 .. m : \A j \in 1 .. k : s[j] = t[j] }
<1>2. m \in Nat /\ m <= Len(s) /\ m <= Len(t) /\ (m = Len(s) \/ m = Len(t))
  BY <1>1
<1>3. 0 \in A
  BY <1>2
<1>4. \A k \in 0 .. (m - 1) : k \in A => k + 1 \in A
  <2>1. SUFFICES ASSUME NEW k \in 0 .. (m - 1), k \in A, k + 1 \notin A PROVE FALSE
    OBVIOUS
  <2>2. k + 1 \in 0 .. m /\ \A j \in 1 .. (k + 1) : j \in 1 .. k \/ j = k + 1
    BY <1>2
  <2>3. s[k + 1] # t[k + 1]
    BY <2>1, <2>2
  <2>4. s[k + 1] \in Int /\ t[k + 1] \in Int
    BY <1>1, <1>2
  <2>5. s[k + 1] < t[k + 1] \/ t[k + 1] < s[k + 1]
    BY <2>3, <2>4
  <2>6. k \in 0 .. Len(s) /\ k \in 0 .. Len(t) /\ k < Len(s) /\ k < Len(t)
    BY <1>1, <1>2
  <2>7. \A j \in 1 .. k : s[j] = t[j]
    BY <2>1
  <2>8. Less(s, t) \/ Less(t, s)
    BY <2>5, <2>6, <2>7 DEF Less
  <2>9. QED
    BY <2>8
<1>5. m \in A
  <2> HIDE DEF A, m
  <2>1. 0 .. m \subseteq A
    BY <1>2, <1>3, <1>4, UpTo
  <2>2. QED
    BY <1>2, <2>1
<1>6. \A j \in 1 .. m : s[j] = t[j]
  BY <1>5
<1> HIDE DEF m, A
<1>7. ~(m < Len(t))
  BY <1>1, <1>2, <1>6 DEF Less
<1>8. ~(m < Len(s))
  BY <1>1, <1>2, <1>6 DEF Less
<1>9. Len(s) = Len(t) /\ Len(s) = m
  BY <1>1, <1>2, <1>7, <1>8
<1>10. QED
  BY <1>6, <1>9, SeqEqual DEF String

(***************************************************************************)
(* Sums over a set: SumFunctionOnSet takes its members in an order nobody  *)
(* has chosen, so that it must not matter which one is taken first.        *)
(***************************************************************************)
Chosen(s) == CHOOSE x \in s : TRUE

IsSum(F, I, g) ==
  g = [s \in SUBSET I |-> IF s = {} THEN 0 ELSE F[Chosen(s)] + g[s \ {Chosen(s)}]]

LEMMA OneLess ==
  ASSUME NEW s, IsFiniteSet(s), NEW x \in s
  PROVE  /\ Cardinality(s) \in Nat /\ Cardinality(s) > 0
         /\ IsFiniteSet(s \ {x}) /\ Cardinality(s \ {x}) = Cardinality(s) - 1
<1>1. Cardinality(s) \in Nat /\ Cardinality(s) # 0
  BY FS_CardinalityType, FS_EmptySet
<1>2. IsFiniteSet(s \ {x}) /\ Cardinality(s \ {x}) = Cardinality(s) - 1
  BY FS_RemoveElement
<1>3. QED
  BY <1>1, <1>2

LEMMA SumExists ==
  ASSUME NEW F, NEW I, IsFiniteSet(I)
  PROVE  \E g : IsSum(F, I, g)
<1> DEFINE m     == Cardinality(I)
           T(k)  == { s \in SUBSET I : Cardinality(s) <= k }
           G(k, g) == g = [s \in T(k) |-> IF s = {} THEN 0 ELSE F[Chosen(s)] + g[s \ {Chosen(s)}]]
           A     == { k \in Nat : \E g : G(k, g) }
<1>1. m \in Nat /\ \A s \in SUBSET I : IsFiniteSet(s) /\ Cardinality(s) \in Nat /\ Cardinality(s) <= m
  BY FS_CardinalityType, FS_Subset
<1>2. \A s \in SUBSET I : s # {} => /\ Chosen(s) \in s
                                    /\ s \ {Chosen(s)} \in SUBSET I
                                    /\ Cardinality(s \ {Chosen(s)}) = Cardinality(s) - 1
                                    /\ Cardinality(s) > 0
  <2>1. TAKE s \in SUBSET I
  <2>2. HAVE s # {}
  <2>3. Chosen(s) \in s
    BY <2>2 DEF Chosen
  <2>4. QED
    BY <1>1, <2>3, OneLess
<1>3. 0 \in A
  <2> DEFINE z == [s \in T(0) |-> 0]
  <2>1. \A s \in T(0) : s = {}
    <3>1. TAKE s \in T(0)
    <3>2. s \in SUBSET I /\ Cardinality(s) <= 0
      OBVIOUS
    <3>3. s # {} => Cardinality(s) > 0
      BY <1>2, <3>2
    <3>4. Cardinality(s) \in Nat
      BY <1>1, <3>2
    <3>5. QED
      BY <3>2, <3>3, <3>4
  <2>2. [s \in T(0) |-> IF s = {} THEN 0 ELSE F[Chosen(s)] + z[s \ {Chosen(s)}]] = z
    BY <2>1
  <2>3. G(0, z)
    BY <2>2
  <2>4. QED
    BY <2>3
<1>4. \A k \in 0 .. (m - 1) : k \in A => k + 1 \in A
  <2>a. SUFFICES ASSUME NEW k \in Nat, k \in A PROVE k + 1 \in A
    BY <1>1
  <2>1. PICK g : G(k, g)
    BY <2>a
  <2>b. k + 1 \in Nat
    OBVIOUS
  <2> DEFINE h == [s \in T(k + 1) |-> IF s = {} THEN 0 ELSE F[Chosen(s)] + g[s \ {Chosen(s)}]]
  <2>2. \A s \in T(k) : s \in T(k + 1) /\ h[s] = g[s]
    <3>1. TAKE s \in T(k)
    <3>2. s \in T(k + 1)
      BY <1>1
    <3>3. g[s] = IF s = {} THEN 0 ELSE F[Chosen(s)] + g[s \ {Chosen(s)}]
      BY <2>1
    <3>4. QED
      BY <3>2, <3>3
  <2>3. \A s \in T(k + 1) : s # {} => s \ {Chosen(s)} \in T(k)
    BY <1>1, <1>2
  <2>4. \A s \in T(k + 1) :
          h[s] = IF s = {} THEN 0 ELSE F[Chosen(s)] + h[s \ {Chosen(s)}]
    BY <2>2, <2>3
  <2>5. \E f : G(k + 1, f)
    <3> DEFINE e == [s \in T(k + 1) |-> IF s = {} THEN 0 ELSE F[Chosen(s)] + h[s \ {Chosen(s)}]]
    <3>1. \A s \in T(k + 1) : h[s] = e[s]
      BY <2>4
    <3>2. h = e
      BY <3>1
    <3>3. QED
      BY <3>2
  <2> HIDE DEF G
  <2>6. QED
    BY <2>5, <2>b
<1>5. m \in A
  <2> HIDE DEF A, m
  <2>1. 0 .. m \subseteq A
    BY <1>1, <1>3, <1>4, UpTo
  <2>2. QED
    BY <1>1, <2>1
<1>6. PICK g : G(m, g)
  BY <1>5
<1>7. T(m) = SUBSET I
  BY <1>1
<1>8. IsSum(F, I, g)
  BY <1>6, <1>7 DEF IsSum
<1>9. QED
  BY <1>8

\* Whichever member is taken first.
LEMMA SumRemove ==
  ASSUME NEW F, NEW I, IsFiniteSet(I), \A x \in I : F[x] \in Int,
         NEW g, IsSum(F, I, g), NEW s \in SUBSET I, NEW y \in s
  PROVE  g[s] \in Int /\ g[s] = F[y] + g[s \ {y}] /\ g[s \ {y}] \in Int
<1> DEFINE m == Cardinality(I)
           Good(u) == g[u] \in Int /\ \A x \in u : g[u] = F[x] + g[u \ {x}]
           A == { k \in Nat : \A u \in SUBSET I : Cardinality(u) <= k => Good(u) }
<1>1. m \in Nat /\ \A u \in SUBSET I : IsFiniteSet(u) /\ Cardinality(u) \in Nat /\ Cardinality(u) <= m
  BY FS_CardinalityType, FS_Subset
<1>2. \A u \in SUBSET I : g[u] = IF u = {} THEN 0 ELSE F[Chosen(u)] + g[u \ {Chosen(u)}]
  BY DEF IsSum
<1>3. \A u \in SUBSET I : \A x \in u :
        u \ {x} \in SUBSET I /\ Cardinality(u \ {x}) = Cardinality(u) - 1 /\ Cardinality(u) > 0
  BY <1>1, OneLess
<1>4. 0 \in A
  <2>1. SUFFICES ASSUME NEW u \in SUBSET I, Cardinality(u) <= 0 PROVE Good(u)
    OBVIOUS
  <2>2. u = {}
    <3>1. \A x \in u : Cardinality(u) > 0
      BY <1>3
    <3>2. Cardinality(u) \in Nat
      BY <1>1
    <3>3. QED
      BY <2>1, <3>1, <3>2
  <2>3. g[u] = 0
    BY <1>2, <2>2
  <2>4. QED
    BY <2>2, <2>3
<1>5. \A k \in 0 .. (m - 1) : k \in A => k + 1 \in A
  <2>a. SUFFICES ASSUME NEW k \in Nat, k \in A PROVE k + 1 \in A
    BY <1>1
  <2>b. k + 1 \in Nat /\ \A u \in SUBSET I : Cardinality(u) <= k => Good(u)
    BY <2>a
  <2>c. SUFFICES ASSUME NEW u \in SUBSET I, Cardinality(u) <= k + 1 PROVE Good(u)
    BY <2>b
  <2>d. u = {} => Good(u)
    <3>1. u = {} => g[u] = 0
      BY <1>2
    <3>2. QED
      BY <3>1
  <2>1. SUFFICES ASSUME u # {} PROVE Good(u)
    BY <2>d
  <2> DEFINE c == Chosen(u)
             v == u \ {c}
  <2>2. c \in u
    BY <2>1 DEF Chosen
  <2>3. g[u] = F[c] + g[v]
    BY <1>2, <2>1
  <2> HIDE DEF c
  <2>4. v \in SUBSET I /\ Good(v) /\ F[c] \in Int
    <3>1. v \in SUBSET I /\ Cardinality(v) <= k
      BY <1>1, <1>3, <2>c, <2>2
    <3>2. QED
      BY <2>b, <2>2, <3>1
  <2>5. \A x \in u : g[u] = F[x] + g[u \ {x}]
    <3>1. TAKE x \in u
    <3>2. CASE x = c
      BY <2>3, <3>2
    <3>3. CASE x # c
      <4> DEFINE w == u \ {x}
                 z == v \ {x}
      <4>1. x \in v /\ c \in w /\ w \ {c} = z /\ F[x] \in Int
        BY <2>2, <3>3
      <4>2. w \in SUBSET I /\ Cardinality(w) <= k
        BY <1>1, <1>3, <2>c
      <4>3. g[v] = F[x] + g[z] /\ g[v] \in Int
        BY <2>4, <4>1
      <4>4. g[w] = F[c] + g[z] /\ g[w] \in Int
        <5>1. Good(w)
          BY <2>b, <4>2
        <5>2. QED
          BY <4>1, <5>1
      <4>5. g[z] \in Int
        <5>1. z \in SUBSET I /\ Cardinality(z) = Cardinality(v) - 1 /\ v \in SUBSET I
          BY <1>3, <2>4, <4>1
        <5>2. Cardinality(v) = Cardinality(u) - 1
          BY <1>3, <2>2
        <5>3. Cardinality(z) <= k
          BY <1>1, <2>c, <5>1, <5>2
        <5>4. QED
          BY <2>b, <5>1, <5>3
      <4> HIDE DEF v, w, z
      <4>6. g[u] = F[x] + g[w]
        BY <2>3, <2>4, <4>1, <4>3, <4>4, <4>5
      <4>7. QED
        BY <4>6 DEF w
    <3>4. QED
      BY <3>2, <3>3
  <2>6. g[u] \in Int
    BY <2>3, <2>4
  <2>7. QED
    BY <2>5, <2>6
<1>6. m \in A
  <2> HIDE DEF A, m
  <2>1. 0 .. m \subseteq A
    BY <1>1, <1>4, <1>5, UpTo
  <2>2. QED
    BY <1>1, <2>1
<1>7. \A u \in SUBSET I : Good(u)
  BY <1>1, <1>6
<1>8. s \ {y} \in SUBSET I
  OBVIOUS
<1>9. QED
  BY <1>7, <1>8

LEMMA SumAgree ==
  ASSUME NEW F, NEW I, IsFiniteSet(I), NEW J \in SUBSET I,
         NEW g, IsSum(F, I, g), NEW h, IsSum(F, J, h)
  PROVE  h[J] = g[J]
<1> DEFINE m == Cardinality(J)
           A == { k \in Nat : \A u \in SUBSET J : Cardinality(u) <= k => h[u] = g[u] }
<1>1. m \in Nat /\ \A u \in SUBSET J : IsFiniteSet(u) /\ Cardinality(u) \in Nat /\ Cardinality(u) <= m
  <2>1. IsFiniteSet(J)
    BY FS_Subset
  <2>2. QED
    BY <2>1, FS_CardinalityType, FS_Subset
<1>2. \A u \in SUBSET J :
        /\ g[u] = IF u = {} THEN 0 ELSE F[Chosen(u)] + g[u \ {Chosen(u)}]
        /\ h[u] = IF u = {} THEN 0 ELSE F[Chosen(u)] + h[u \ {Chosen(u)}]
  <2>1. SUBSET J \subseteq SUBSET I
    OBVIOUS
  <2>2. QED
    BY <2>1 DEF IsSum
<1>3. \A u \in SUBSET J : u # {} => /\ Chosen(u) \in u
                                    /\ u \ {Chosen(u)} \in SUBSET J
                                    /\ Cardinality(u \ {Chosen(u)}) = Cardinality(u) - 1
                                    /\ Cardinality(u) > 0
  <2>1. TAKE u \in SUBSET J
  <2>2. HAVE u # {}
  <2>3. Chosen(u) \in u
    BY <2>2 DEF Chosen
  <2>4. QED
    BY <1>1, <2>3, OneLess
<1>4. 0 \in A
  <2>1. SUFFICES ASSUME NEW u \in SUBSET J, Cardinality(u) <= 0 PROVE h[u] = g[u]
    OBVIOUS
  <2>2. u # {} => Cardinality(u) > 0
    BY <1>3
  <2>3. u = {}
    BY <1>1, <2>1, <2>2
  <2>4. QED
    BY <1>2, <2>3
<1>5. \A k \in 0 .. (m - 1) : k \in A => k + 1 \in A
  <2>1. SUFFICES ASSUME NEW k \in Nat, k \in A PROVE k + 1 \in A
    BY <1>1
  <2>2. k + 1 \in Nat /\ \A u \in SUBSET J : Cardinality(u) <= k => h[u] = g[u]
    BY <2>1
  <2>3. SUFFICES ASSUME NEW u \in SUBSET J, Cardinality(u) <= k + 1 PROVE h[u] = g[u]
    BY <2>2
  <2> DEFINE v == u \ {Chosen(u)}
  <2>4. u # {} => h[v] = g[v]
    <3>1. SUFFICES ASSUME u # {} PROVE h[v] = g[v]
      OBVIOUS
    <3>2. v \in SUBSET J /\ Cardinality(v) = Cardinality(u) - 1 /\ Cardinality(u) \in Nat
      BY <1>1, <1>3, <3>1
    <3>3. Cardinality(v) <= k
      BY <2>3, <3>2
    <3>4. QED
      BY <2>2, <3>2, <3>3
  <2>5. QED
    BY <1>2, <2>4
<1>6. m \in A
  <2> HIDE DEF A, m
  <2>1. 0 .. m \subseteq A
    BY <1>1, <1>4, <1>5, UpTo
  <2>2. QED
    BY <1>1, <2>1
<1>7. QED
  BY <1>1, <1>6

LEMMA SumIs ==
  ASSUME NEW F, NEW I, IsFiniteSet(I)
  PROVE  \E g : IsSum(F, I, g) /\ SumFunctionOnSet(F, I) = g[I]
<1> DEFINE g == CHOOSE f : IsSum(F, I, f)
<1>1. IsSum(F, I, g)
  BY SumExists
<1>2. SumFunctionOnSet(F, I) = g[I]
  BY DEF SumFunctionOnSet, FoldFunctionOnSet, MapThenFoldSet, IsSum, Chosen
<1>3. QED
  BY <1>1, <1>2

LEMMA SumNone ==
  ASSUME NEW F, NEW I, I = {}
  PROVE  SumFunctionOnSet(F, I) = 0
<1>1. IsFiniteSet(I)
  BY FS_EmptySet
<1>2. PICK g : IsSum(F, I, g) /\ SumFunctionOnSet(F, I) = g[I]
  BY <1>1, SumIs
<1>3. g[I] = 0
  BY <1>2 DEF IsSum
<1>4. QED
  BY <1>2, <1>3

Integral(F, I) == \A x \in I : F[x] \in Int

LEMMA SumOfAll ==
  ASSUME NEW F, NEW I, IsFiniteSet(I), Integral(F, I), NEW y \in I
  PROVE  /\ SumFunctionOnSet(F, I) \in Int /\ SumFunctionOnSet(F, I \ {y}) \in Int
         /\ SumFunctionOnSet(F, I) = F[y] + SumFunctionOnSet(F, I \ {y})
<1> DEFINE J == I \ {y}
<1>1. J \in SUBSET I /\ IsFiniteSet(J)
  BY FS_Subset
<1>2. PICK g : IsSum(F, I, g) /\ SumFunctionOnSet(F, I) = g[I]
  BY SumIs
<1>3. PICK h : IsSum(F, J, h) /\ SumFunctionOnSet(F, J) = h[J]
  BY <1>1, SumIs
<1>4. h[J] = g[J]
  BY <1>1, <1>2, <1>3, SumAgree
<1>5. I \in SUBSET I
  OBVIOUS
<1>6. g[I] \in Int /\ g[I] = F[y] + g[J] /\ g[J] \in Int
  BY <1>2, <1>5, SumRemove DEF Integral
<1>7. QED
  BY <1>2, <1>3, <1>4, <1>6

\* The sum over an interval begins with its first number.
LEMMA SumFirst ==
  ASSUME NEW F, NEW a \in Int, NEW n \in Int, a <= n, \A k \in a .. n : F[k] \in Int
  PROVE  /\ SumFunctionOnSet(F, a .. n) \in Int /\ SumFunctionOnSet(F, (a + 1) .. n) \in Int
         /\ SumFunctionOnSet(F, a .. n) = F[a] + SumFunctionOnSet(F, (a + 1) .. n)
<1> DEFINE I == a .. n
           J == (a + 1) .. n
<1>1. IsFiniteSet(I)
  BY FS_Interval
<1>a. a \in I /\ I \ {a} = J
  OBVIOUS
<1>b. Integral(F, I)
  BY DEF Integral
<1> HIDE DEF I, J
<1>2. /\ SumFunctionOnSet(F, I) \in Int /\ SumFunctionOnSet(F, I \ {a}) \in Int
      /\ SumFunctionOnSet(F, I) = F[a] + SumFunctionOnSet(F, I \ {a})
  BY <1>1, <1>a, <1>b, SumOfAll
<1>3. QED
  BY <1>a, <1>2 DEF I, J

(***************************************************************************)
(* The words of the document.                                              *)
(***************************************************************************)
LEMMA NoLetterIsNul == isalnum(NUL) = FALSE /\ 0 \in 0 .. 255 /\ NUL = 0
  BY LettersAssumption DEF isalnum, NUL

\* strlen stops at the first NUL.
LEMMA StrlenFacts ==
  ASSUME NEW last \in Nat, NEW m \in [0 .. last -> 0 .. 255], m[last] = NUL,
         NEW p \in 0 .. last
  PROVE  /\ strlen(m, p) \in Nat /\ p + strlen(m, p) \in 0 .. last
         /\ m[p + strlen(m, p)] = NUL
         /\ \A q \in p .. (p + strlen(m, p) - 1) : m[q] # NUL
<1> DEFINE S == { q \in DOMAIN m : q >= p /\ m[q] = NUL }
           x == Min(S)
<1>1. last \in S /\ \A q \in S : q \in Int /\ p <= q
  OBVIOUS
<1>2. \E y \in S : \A z \in S : y <= z
  <2>0. p \in Int /\ last \in Int
    OBVIOUS
  <2> HIDE DEF S
  <2>1. QED
    BY <1>1, <2>0, Least
<1>3. x \in S /\ \A z \in S : x <= z
  <2> HIDE DEF S
  <2>1. QED
    BY <1>2 DEF Min
<1>4. strlen(m, p) = x - p
  BY DEF strlen
<1> HIDE DEF x
<1>5. x \in Int /\ x >= p /\ x \in 0 .. last /\ m[x] = NUL
  BY <1>3
<1>6. \A q \in p .. (x - 1) : m[q] # NUL
  <2>1. TAKE q \in p .. (x - 1)
  <2>2. q \in DOMAIN m /\ q >= p /\ q < x
    BY <1>5
  <2>3. QED
    BY <1>3, <1>5, <2>2
<1>7. p + strlen(m, p) = x
  BY <1>4, <1>5
<1>8. QED
  BY <1>4, <1>5, <1>6, <1>7

LEMMA StringAtFacts ==
  ASSUME NEW last \in Nat, NEW m \in [0 .. last -> 0 .. 255], m[last] = NUL,
         NEW p \in 0 .. last
  PROVE  /\ StringAt(m, p) \in String
         /\ Len(StringAt(m, p)) = strlen(m, p)
         /\ \A n \in 1 .. strlen(m, p) : StringAt(m, p)[n] = m[p + n - 1]
<1> DEFINE l == strlen(m, p)
           s == [n \in 1 .. l |-> m[p + n - 1]]
<1>1. l \in Nat /\ p + l \in 0 .. last
  BY StrlenFacts
<1>2. StringAt(m, p) = s
  BY DEF StringAt
<1> HIDE DEF l
<1>3. \A n \in 1 .. l : p + n - 1 \in 0 .. last
  BY <1>1
<1>4. s \in [1 .. l -> 0 .. 255]
  BY <1>3
<1>5. s \in Seq(0 .. 255) /\ Len(s) = l
  BY <1>1, <1>4, SeqDef, LenProperties
<1>6. QED
  BY <1>2, <1>5 DEF String, l

LEMMA LastByte ==
  ASSUME MemoryOK, doc_len \in Nat
  PROVE  \E last \in Nat : /\ last >= doc_len /\ memory[last] = NUL
                           /\ memory \in [0 .. last -> 0 .. 255]
<1>1. PICK last \in DOMAIN memory : /\ last >= doc_len /\ memory[last] = NUL
                                    /\ memory \in [0 .. last -> 0 .. 255]
  BY DEF MemoryOK
<1>2. last \in 0 .. last
  BY <1>1
<1>3. QED
  BY <1>1, <1>2

\* What word_array points to are strings.
LEMMA DocumentStrings ==
  ASSUME MemoryOK, doc_len \in Nat
  PROVE  \A p \in 0 .. (doc_len - 1) : StringAt(memory, p) \in String
<1>1. TAKE p \in 0 .. (doc_len - 1)
<1>2. PICK last \in Nat : /\ last >= doc_len /\ memory[last] = NUL
                          /\ memory \in [0 .. last -> 0 .. 255]
  BY LastByte
<1>3. p \in 0 .. last
  BY <1>2
<1>4. QED
  BY <1>2, <1>3, StringAtFacts

LEMMA ArrayStrings ==
  ASSUME MemoryOK, doc_len \in Nat, word_array \in Seq(0 .. (doc_len - 1))
  PROVE  \A k \in 1 .. Len(word_array) :
           Str(k) \in String /\ Sizes[k] = Len(Str(k)) + 1 /\ Sizes[k] \in Nat
<1>1. TAKE k \in 1 .. Len(word_array)
<1>2. word_array[k] \in 0 .. (doc_len - 1)
  BY ElementOfSeq
<1>3. Str(k) \in String
  BY <1>2, DocumentStrings DEF Str
<1>4. k \in DOMAIN word_array
  BY LenProperties
<1>5. Sizes[k] = Len(Str(k)) + 1
  BY <1>4 DEF Sizes
<1>6. QED
  BY <1>3, <1>5, StringFacts

LEMMA StartsFinite ==
  ASSUME doc_len \in Nat
  PROVE  /\ IsFiniteSet(Starts) /\ Cardinality(Starts) \in Nat
         /\ \A m \in Int : /\ IsFiniteSet(StartsBefore(m)) /\ Cardinality(StartsBefore(m)) \in Nat
                           /\ Cardinality(StartsBefore(m)) <= Cardinality(Starts)
         /\ StartsBefore(doc_len) = Starts /\ StartsBefore(0) = {}
<1> DEFINE d == doc_len - 1
<1>1. d \in Int /\ Starts \subseteq 0 .. d
  BY DEF Starts
<1> HIDE DEF d
<1>2. IsFiniteSet(Starts) /\ Cardinality(Starts) \in Nat
  <2>1. IsFiniteSet(0 .. d)
    BY <1>1, FS_Interval
  <2>2. IsFiniteSet(Starts)
    BY <1>1, <2>1, FS_Subset
  <2>3. QED
    BY <2>2, FS_CardinalityType
<1>3. \A m \in Int : StartsBefore(m) \subseteq Starts
  BY DEF StartsBefore
<1>4. StartsBefore(doc_len) = Starts /\ StartsBefore(0) = {}
  BY DEF StartsBefore, Starts
<1>5. QED
  BY <1>2, <1>3, <1>4, FS_Subset, FS_CardinalityType

\* The byte looked at decides whether there is one start more.
LEMMA StartHere ==
  ASSUME doc_len \in Nat, NEW q \in 0 .. (doc_len - 1)
  PROVE  /\ isalnum(memory[q]) /\ ~Letter(q - 1) =>
              /\ StartsBefore(q + 1) = StartsBefore(q) \cup {q}
              /\ Cardinality(StartsBefore(q + 1)) = Cardinality(StartsBefore(q)) + 1
         /\ ~(isalnum(memory[q]) /\ ~Letter(q - 1)) => StartsBefore(q + 1) = StartsBefore(q)
<1> DEFINE Here == isalnum(memory[q]) /\ ~Letter(q - 1)
<1>1. Here <=> q \in Starts
  BY DEF Starts, Letter
<1>2. \A x \in Starts : x \in Int
  BY DEF Starts
<1>3. ~Here => StartsBefore(q + 1) = StartsBefore(q)
  BY <1>1, <1>2 DEF StartsBefore
<1>4. Here => StartsBefore(q + 1) = StartsBefore(q) \cup {q}
  BY <1>1, <1>2 DEF StartsBefore
<1>5. q \notin StartsBefore(q) /\ IsFiniteSet(StartsBefore(q))
  BY StartsFinite DEF StartsBefore
<1>6. Cardinality(StartsBefore(q) \cup {q}) = Cardinality(StartsBefore(q)) + 1
  BY <1>5, FS_AddElement
<1>7. QED
  BY <1>3, <1>4, <1>6

LEMMA OneMoreStart ==
  ASSUME doc_len \in Nat, i \in 0 .. (doc_len - 1), in_word <=> Letter(i - 1)
  PROVE  /\ StartsWord => /\ StartsBefore(i + 1) = StartsBefore(i) \cup {i}
                          /\ Cardinality(StartsBefore(i + 1)) = Cardinality(StartsBefore(i)) + 1
         /\ ~StartsWord => StartsBefore(i + 1) = StartsBefore(i)
BY StartHere DEF StartsWord

\* A start is put behind the ones found before.
LEMMA OneMoreElement ==
  ASSUME NEW S, NEW s \in Seq(S), NEW x \in S
  PROVE  /\ Append(s, x) \in Seq(S) /\ Len(Append(s, x)) = Len(s) + 1 /\ Len(s) \in Nat
         /\ { Append(s, x)[k] : k \in DOMAIN Append(s, x) } = { s[k] : k \in DOMAIN s } \cup {x}
<1> DEFINE l == Len(s)
           t == Append(s, x)
<1>1. /\ l \in Nat /\ t \in Seq(S) /\ Len(t) = l + 1
      /\ DOMAIN t = 1 .. (l + 1) /\ DOMAIN s = 1 .. l
      /\ \A k \in 1 .. l : t[k] = s[k]
      /\ t[l + 1] = x
  BY AppendProperties, LenProperties
<1> HIDE DEF l, t
<1>2. 1 .. (l + 1) = (1 .. l) \cup {l + 1}
  BY <1>1
<1>3. { t[k] : k \in DOMAIN t } = { s[k] : k \in DOMAIN s } \cup {x}
  BY <1>1, <1>2
<1>4. QED
  BY <1>1, <1>3 DEF l, t

\* Where the run of letters that starts at p ends, and with it the string there if a NUL
\* follows; behind a run that ends before the document does there is one.
LEMMA RunAt ==
  ASSUME MemoryOK, doc_len \in Nat, TerminatedBefore(doc_len), NEW p \in Starts
  PROVE  \E b \in 0 .. (doc_len - 1) :
           /\ p <= b /\ <<p, b>> \in RunsOf(memory, doc_len)
           /\ memory[b + 1] = NUL => StringAt(memory, p) = WordAt(memory, <<p, b>>)
           /\ b # doc_len - 1 => memory[b + 1] = NUL
<1>1. PICK last \in Nat : /\ last >= doc_len /\ memory[last] = NUL
                          /\ memory \in [0 .. last -> 0 .. 255]
  BY LastByte
<1>2. p \in 0 .. (doc_len - 1) /\ p \in 0 .. last /\ Letter(p) /\ ~Letter(p - 1)
  BY <1>1 DEF Starts
<1> DEFINE S == { q \in p .. doc_len : ~Letter(q) }
<1>3. doc_len \in S /\ \A q \in S : q \in Int /\ p <= q
  BY <1>2 DEF Letter
<1>4. PICK x \in S : \A y \in S : x <= y
  <2>1. p \in Int /\ doc_len \in Int
    BY <1>2
  <2> HIDE DEF S
  <2>2. QED
    BY <1>3, <2>1, Least
<1> DEFINE b == x - 1
<1>5. /\ b \in 0 .. (doc_len - 1) /\ p <= b /\ b + 1 = x /\ x \in Int /\ x - 1 = b
      /\ ~Letter(b + 1) /\ x \in p .. doc_len
  BY <1>2, <1>4
<1>6. \A q \in p .. b : Letter(q)
  <2>1. TAKE q \in p .. b
  <2>2. q \in p .. doc_len /\ ~(x <= q)
    BY <1>2, <1>5
  <2>3. QED
    BY <1>4, <2>2
<1> HIDE DEF b, S
<1>7. <<p, b>> \in RunsOf(memory, doc_len)
  BY <1>2, <1>5, <1>6 DEF RunsOf, Letter
<1>8. b # doc_len - 1 => memory[b + 1] = NUL
  <2>1. SUFFICES ASSUME b # doc_len - 1 PROVE memory[x] = NUL
    BY <1>5
  <2>2. x \in 1 .. (doc_len - 1) /\ x < doc_len /\ Letter(x - 1) /\ ~Letter(x)
    BY <1>2, <1>5, <1>6, <2>1
  <2>3. QED
    BY <2>2 DEF TerminatedBefore
<1>9. memory[b + 1] = NUL => StringAt(memory, p) = WordAt(memory, <<p, b>>)
  <2>1. SUFFICES ASSUME memory[x] = NUL PROVE StringAt(memory, p) = WordAt(memory, <<p, b>>)
    BY <1>5
  <2> DEFINE l == strlen(memory, p)
  <2>2. /\ l \in Nat /\ p + l \in 0 .. last /\ memory[p + l] = NUL
        /\ \A q \in p .. (p + l - 1) : memory[q] # NUL
    BY <1>1, <1>2, StrlenFacts
  <2> HIDE DEF l
  <2>3. ~(x < p + l)
    <3>1. x < p + l => x \in p .. (p + l - 1)
      BY <1>2, <1>5, <2>2
    <3>2. QED
      BY <2>1, <2>2, <3>1
  <2>4. ~(p + l < x)
    <3>1. p + l < x => p + l \in p .. b
      BY <1>2, <1>5, <2>2
    <3>2. QED
      BY <1>6, <2>2, <3>1, NoLetterIsNul DEF Letter
  <2>5. l = b - p + 1
    BY <1>2, <1>5, <2>2, <2>3, <2>4
  <2>6. StringAt(memory, p) = [n \in 1 .. (b - p + 1) |-> memory[p + n - 1]]
    BY <2>5 DEF StringAt, l
  <2>7. QED
    BY <2>6 DEF WordAt
<1>10. QED
  BY <1>5, <1>7, <1>8, <1>9

\* A run starts where a word does, and one place is the start of one run.
LEMMA RunFacts ==
  ASSUME doc_len \in Nat, NEW r \in RunsOf(memory, doc_len)
  PROVE  /\ r[1] \in Starts /\ r[2] \in 0 .. (doc_len - 1) /\ r[1] <= r[2]
         /\ r = <<r[1], r[2]>> /\ \A p \in r[1] .. r[2] : Letter(p)
         /\ \A b \in 0 .. (doc_len - 1) : <<r[1], b>> \in RunsOf(memory, doc_len) => b = r[2]
<1>1. /\ r \in (0 .. (doc_len - 1)) \X (0 .. (doc_len - 1))
      /\ r[1] <= r[2] /\ \A p \in r[1] .. r[2] : Letter(p)
      /\ ~Letter(r[1] - 1) /\ ~Letter(r[2] + 1)
  BY DEF RunsOf, Letter
<1>2. r = <<r[1], r[2]>> /\ r[1] \in 0 .. (doc_len - 1) /\ r[2] \in 0 .. (doc_len - 1)
  BY <1>1
<1>3. r[1] \in Starts
  BY <1>1, <1>2 DEF Starts
<1>4. ASSUME NEW b \in 0 .. (doc_len - 1), <<r[1], b>> \in RunsOf(memory, doc_len) PROVE b = r[2]
  <2>1. r[1] <= b /\ (\A p \in r[1] .. b : Letter(p)) /\ ~Letter(b + 1)
    BY <1>4 DEF RunsOf, Letter
  <2>2. b < r[2] => b + 1 \in r[1] .. r[2]
    BY <1>2, <2>1
  <2>3. r[2] < b => r[2] + 1 \in r[1] .. b
    BY <1>1, <1>2
  <2>4. QED
    BY <1>1, <1>2, <2>1, <2>2, <2>3
<1>5. QED
  BY <1>1, <1>2, <1>3, <1>4

\* The strings the starts point to once the words are terminated.
LEMMA StringsAreFound ==
  ASSUME MemoryOK, doc_len \in Nat, TerminatedBefore(doc_len)
  PROVE  StartStrings = Found /\ (Terminated => Found = DocWords)
<1> DEFINE Of(r) == IF r[2] = doc_len - 1 THEN StringAt(memory, r[1]) ELSE WordAt(memory, r)
           R     == RunsOf(memory, doc_len)
<1>1. Found = { Of(r) : r \in R } /\ DocWords = { WordAt(memory, r) : r \in R }
  BY DEF Found, StringsOf, DocWords, WordsOf
<1>2. ASSUME NEW r \in R
      PROVE  /\ r[1] \in Starts /\ Of(r) = StringAt(memory, r[1])
             /\ Terminated => Of(r) = WordAt(memory, r)
  <2>1. /\ r[1] \in Starts /\ r = <<r[1], r[2]>> /\ Letter(r[2]) /\ r[2] \in 0 .. (doc_len - 1)
        /\ \A b \in 0 .. (doc_len - 1) : <<r[1], b>> \in R => b = r[2]
    <3>1. r[2] \in r[1] .. r[2]
      BY RunFacts DEF Starts
    <3>2. QED
      BY <3>1, RunFacts
  <2>2. PICK b \in 0 .. (doc_len - 1) :
          /\ <<r[1], b>> \in R
          /\ memory[b + 1] = NUL => StringAt(memory, r[1]) = WordAt(memory, <<r[1], b>>)
          /\ b # doc_len - 1 => memory[b + 1] = NUL
    BY <2>1, RunAt
  <2>3. b = r[2]
    BY <2>1, <2>2
  <2>4. r[2] = doc_len - 1 /\ Terminated => memory[r[2] + 1] = NUL
    BY <2>1 DEF Terminated
  <2>5. QED
    BY <2>1, <2>2, <2>3, <2>4
<1>3. ASSUME NEW p \in Starts PROVE \E r \in R : r[1] = p
  <2>1. PICK b \in 0 .. (doc_len - 1) : <<p, b>> \in R
    BY RunAt
  <2>2. QED
    BY <2>1
<1> HIDE DEF R, Of
<1>4. StartStrings = Found
  BY <1>1, <1>2, <1>3 DEF StartStrings
<1>5. QED
  BY <1>1, <1>2, <1>4

LEMMA StringsAreWords ==
  ASSUME MemoryOK, doc_len \in Nat, TerminatedBefore(doc_len), Terminated
  PROVE  StartStrings = DocWords
BY StringsAreFound

\* Terminating a word changes no letter, and nothing behind the document.
LEMMA TerminateKeepsLetters ==
  ASSUME MemoryOK, doc_len \in Nat, doc_len' = doc_len, NEW q \in 0 .. (doc_len - 1),
         memory' = memory \/ (~isalnum(memory[q]) /\ memory' = Terminate(q))
  PROVE  /\ MemoryOK' /\ DOMAIN memory' = DOMAIN memory
         /\ \A p \in DOMAIN memory : isalnum(memory[p]) => memory'[p] = memory[p]
         /\ \A p \in DOMAIN memory : p # q => memory'[p] = memory[p]
         /\ \A p \in DOMAIN memory : isalnum(memory'[p]) => isalnum(memory[p])
         /\ 0 .. doc_len \subseteq DOMAIN memory
         /\ memory' = Terminate(q) => memory'[q] = NUL
         /\ \A p \in Int : Letter(p)' <=> Letter(p)
         /\ Starts' = Starts
<1>1. PICK last \in Nat : /\ last >= doc_len /\ memory[last] = NUL
                          /\ memory \in [0 .. last -> 0 .. 255]
  BY LastByte
<1>2. q \in 0 .. last /\ q # last
  BY <1>1
<1>3. memory' = memory \/ (~isalnum(memory[q]) /\ memory' = [memory EXCEPT ![q] = NUL])
  BY DEF Terminate
<1>4. memory' \in [0 .. last -> 0 .. 255] /\ memory'[last] = NUL
  <2>1. CASE memory' = memory
    BY <1>1, <2>1
  <2>2. CASE memory' = [memory EXCEPT ![q] = NUL]
    BY <1>1, <1>2, <2>2, NoLetterIsNul
  <2>3. QED
    BY <1>3, <2>1, <2>2
<1>5. MemoryOK'
  <2>1. last \in DOMAIN memory'
    BY <1>1, <1>4
  <2>2. QED
    BY <1>1, <1>4, <2>1 DEF MemoryOK
<1>6. /\ \A p \in 0 .. last : isalnum(memory[p]) => memory'[p] = memory[p]
      /\ \A p \in 0 .. last : p # q => memory'[p] = memory[p]
      /\ \A p \in 0 .. last : isalnum(memory'[p]) => isalnum(memory[p])
  BY <1>1, <1>2, <1>3, NoLetterIsNul
<1>7. memory' = Terminate(q) => memory'[q] = NUL
  BY <1>1, <1>2 DEF Terminate
<1>8. 0 .. doc_len \subseteq 0 .. last
  BY <1>1
<1>9. \A p \in Int : Letter(p)' <=> Letter(p)
  <2>1. \A p \in 0 .. (doc_len - 1) : p \in 0 .. last
    BY <1>1
  <2>2. QED
    BY <1>6, <2>1 DEF Letter
<1>10. Starts' = Starts
  <2>1. \A p \in 0 .. (doc_len - 1) : p \in Int /\ p - 1 \in Int
    OBVIOUS
  <2>2. QED
    BY <1>9, <2>1 DEF Starts
<1>11. QED
  BY <1>1, <1>4, <1>5, <1>6, <1>7, <1>8, <1>9, <1>10

\* A pass has terminated the words behind it.
LEMMA TerminatedFurther ==
  ASSUME MemoryOK, doc_len \in Nat, doc_len' = doc_len, NEW q \in 0 .. (doc_len - 1),
         memory' = memory \/ (~isalnum(memory[q]) /\ memory' = Terminate(q)),
         Letter(q - 1) /\ ~Letter(q) => memory' = Terminate(q),
         TerminatedBefore(q), i' = q + 1
  PROVE  TerminatedBefore(i)'
<1>1. SUFFICES ASSUME NEW p \in 1 .. (doc_len - 1), p < q + 1, Letter(p - 1)', ~Letter(p)'
               PROVE  memory'[p] = NUL
  BY DEF TerminatedBefore
<1>2. p \in Int /\ p - 1 \in Int
  OBVIOUS
<1>3. Letter(p - 1) /\ ~Letter(p)
  BY <1>1, <1>2, TerminateKeepsLetters
<1>4. CASE p = q
  BY <1>3, <1>4, TerminateKeepsLetters
<1>5. CASE p # q
  <2>1. p < q /\ memory[p] = NUL
    BY <1>1, <1>3, <1>5 DEF TerminatedBefore
  <2>2. p \in 0 .. doc_len
    OBVIOUS
  <2>3. QED
    BY <1>5, <2>1, <2>2, TerminateKeepsLetters
<1>6. QED
  BY <1>4, <1>5

\* The words of a document stay what they are while it is overwritten, and so does the
\* string at an open one.
LEMMA SameWords ==
  ASSUME MemoryOK, doc_len \in Nat, doc_len' = doc_len, NEW q \in 0 .. (doc_len - 1),
         memory' = memory \/ (~isalnum(memory[q]) /\ memory' = Terminate(q))
  PROVE  DocWords' = DocWords /\ Found' = Found /\ (Terminated => Terminated')
<1> DEFINE D == 0 .. (doc_len - 1)
           R == RunsOf(memory, doc_len)
<1>1. 0 .. doc_len \subseteq DOMAIN memory /\ DOMAIN memory' = DOMAIN memory
  BY TerminateKeepsLetters
<1>2. \A p \in D : /\ isalnum(memory'[p]) <=> isalnum(memory[p])
                   /\ isalnum(memory[p]) => memory'[p] = memory[p]
  <2>1. \A p \in D : p \in 0 .. doc_len
    OBVIOUS
  <2>2. QED
    BY <1>1, <2>1, TerminateKeepsLetters
<1>3. RunsOf(memory', doc_len') = R
  <2> DEFINE Run(m, r) == /\ r[1] <= r[2] /\ \A p \in r[1] .. r[2] : p \in D /\ isalnum(m[p])
                          /\ ~(r[1] - 1 \in D /\ isalnum(m[r[1] - 1]))
                          /\ ~(r[2] + 1 \in D /\ isalnum(m[r[2] + 1]))
  <2>1. R = { r \in D \X D : Run(memory, r) } /\ RunsOf(memory', doc_len') = { r \in D \X D : Run(memory', r) }
    BY DEF RunsOf
  <2>2. \A r \in D \X D : Run(memory', r) <=> Run(memory, r)
    BY <1>2
  <2> HIDE DEF Run, D, R
  <2>3. QED
    BY <2>1, <2>2
<1>4. ASSUME NEW r \in R
      PROVE  /\ WordAt(memory', r) = WordAt(memory, r)
             /\ r[2] = doc_len - 1 => StringAt(memory', r[1]) = StringAt(memory, r[1])
  <2>1. /\ r[1] \in D /\ r[2] \in D /\ r[1] <= r[2]
        /\ \A p \in r[1] .. r[2] : p \in D /\ isalnum(memory[p])
    BY RunFacts DEF Starts, Letter
  <2>2. WordAt(memory', r) = WordAt(memory, r)
    <3>1. ASSUME NEW n \in 1 .. (r[2] - r[1] + 1) PROVE memory'[r[1] + n - 1] = memory[r[1] + n - 1]
      <4>1. r[1] + n - 1 \in r[1] .. r[2]
        BY <2>1
      <4>2. QED
        BY <1>2, <2>1, <4>1
    <3>2. QED
      BY <3>1 DEF WordAt
  <2>3. r[2] = doc_len - 1 => StringAt(memory', r[1]) = StringAt(memory, r[1])
    <3>1. SUFFICES ASSUME r[2] = doc_len - 1 PROVE StringAt(memory', r[1]) = StringAt(memory, r[1])
      OBVIOUS
    <3> DEFINE p == r[1]
    <3>2. PICK last \in Nat : /\ last >= doc_len /\ memory[last] = NUL
                              /\ memory \in [0 .. last -> 0 .. 255]
      BY LastByte
    <3>3. \A z \in DOMAIN memory : z >= p => memory'[z] = memory[z]
      <4>1. SUFFICES ASSUME NEW z \in 0 .. last, z >= p, memory'[z] # memory[z] PROVE FALSE
        BY <3>2
      <4>2. z = q /\ ~isalnum(memory[q])
        BY <3>2, <4>1, TerminateKeepsLetters
      <4>3. q \in r[1] .. r[2]
        BY <2>1, <3>1, <4>1, <4>2
      <4>4. QED
        BY <2>1, <4>2, <4>3
    <3>4. { z \in DOMAIN memory' : z >= p /\ memory'[z] = NUL } =
          { z \in DOMAIN memory : z >= p /\ memory[z] = NUL }
      BY <1>1, <3>3
    <3>5. strlen(memory', p) = strlen(memory, p)
      BY <3>4 DEF strlen
    <3> DEFINE l == strlen(memory, p)
    <3>6. l \in Nat /\ p + l \in 0 .. last /\ p \in 0 .. last
      <4>1. p \in 0 .. last
        BY <2>1, <3>2
      <4>2. QED
        BY <3>2, <4>1, StrlenFacts
    <3> HIDE DEF l, p
    <3>7. \A n \in 1 .. l : memory'[p + n - 1] = memory[p + n - 1]
      <4>1. TAKE n \in 1 .. l
      <4>2. p + n - 1 \in 0 .. last /\ p + n - 1 >= p
        BY <3>6
      <4>3. QED
        BY <3>2, <3>3, <4>2
    <3>8. [n \in 1 .. l |-> memory'[p + n - 1]] = [n \in 1 .. l |-> memory[p + n - 1]]
      BY <3>7
    <3>9. QED
      BY <3>5, <3>8 DEF StringAt, l, p
  <2>4. QED
    BY <2>2, <2>3
<1>5. Terminated => Terminated'
  <2>1. memory'[doc_len] = memory[doc_len]
    <3>1. doc_len \in 0 .. doc_len /\ doc_len # q
      OBVIOUS
    <3>2. QED
      BY <1>1, <3>1, TerminateKeepsLetters
  <2>2. doc_len - 1 \in Int
    OBVIOUS
  <2>3. Letter(doc_len - 1)' <=> Letter(doc_len - 1)
    BY <2>2, TerminateKeepsLetters DEF Letter
  <2>4. QED
    BY <2>1, <2>3 DEF Terminated
<1>6. DocWords' = DocWords
  BY <1>3, <1>4 DEF DocWords, WordsOf
<1> DEFINE Of(m, r) == IF r[2] = doc_len - 1 THEN StringAt(m, r[1]) ELSE WordAt(m, r)
<1>7. Found = { Of(memory, r) : r \in R } /\ Found' = { Of(memory', r) : r \in R }
  BY <1>3 DEF Found, StringsOf
<1>8. \A r \in R : Of(memory', r) = Of(memory, r)
  BY <1>4
<1> HIDE DEF R, Of
<1>9. QED
  BY <1>5, <1>6, <1>7, <1>8

(***************************************************************************)
(* The invariant.                                                          *)
(***************************************************************************)
LEMMA InitHolds == Init => IInv
<1> SUFFICES ASSUME Init PROVE IInv
  OBVIOUS
<1> USE DEF Init
<1>1. doc_len \in Nat /\ doc_len \in Int
  BY DocumentAssumption
<1>2. MemoryOK
  <2>1. PICK d \in [0 .. (doc_len - 1) -> Bytes], s \in Following :
          memory = [ p \in 0 .. (doc_len + Len(s) - 1) |->
                       IF p < doc_len THEN d[p] ELSE s[p - doc_len + 1] ]
    OBVIOUS
  <2> DEFINE last == doc_len + Len(s) - 1
  <2>2. /\ s \in Seq(0 .. 255) /\ Len(s) \in Nat /\ Len(s) > 0 /\ s[Len(s)] = NUL
        /\ \A k \in 1 .. Len(s) : s[k] \in 0 .. 255
    <3>1. s \in String
      BY WordListAssumption DEF String
    <3>2. QED
      BY <3>1, WordListAssumption, StringFacts DEF String
  <2>3. Bytes \subseteq 0 .. 255
    BY DocumentAssumption, LettersAssumption DEF Bytes, NUL
  <2>4. last \in Nat /\ last >= doc_len /\ last - doc_len + 1 = Len(s)
    BY <1>1, <2>2
  <2>5. \A p \in 0 .. last : memory[p] \in 0 .. 255
    <3>1. TAKE p \in 0 .. last
    <3>2. CASE p < doc_len
      <4>1. p \in 0 .. (doc_len - 1)
        BY <1>1, <3>2
      <4>2. QED
        BY <2>1, <2>3, <3>2, <4>1
    <3>3. CASE ~(p < doc_len)
      <4>1. p - doc_len + 1 \in 1 .. Len(s)
        BY <1>1, <2>2, <3>3
      <4>2. QED
        BY <2>1, <2>2, <3>3, <4>1
    <3>4. QED
      BY <3>2, <3>3
  <2>6. memory[last] = NUL
    BY <1>1, <2>1, <2>2, <2>4
  <2>7. memory \in [0 .. last -> 0 .. 255]
    BY <2>1, <2>5
  <2>8. last \in DOMAIN memory
    BY <2>4, <2>7
  <2> HIDE DEF last
  <2>9. QED
    BY <2>4, <2>6, <2>7, <2>8 DEF MemoryOK
<1>3. PassOK /\ CountOK
  BY DEF PassOK, CountOK
<1>4. LocateOK /\ PassesAgree
  <2>1. word_array \in Seq(0 .. (doc_len - 1)) /\ Len(word_array) = 0
    OBVIOUS
  <2>2. QED
    BY <2>1 DEF LocateOK, PassesAgree
<1>5. UniqueOK /\ PackOK /\ ResultOK
  BY DEF UniqueOK, PackOK, ResultOK
<1>6. QED
  BY <1>1, <1>2, <1>3, <1>4, <1>5 DEF IInv

\* A step that leaves the document alone.
LEMMA SameDocument ==
  ASSUME IInv, memory' = memory, doc_len' = doc_len
  PROVE  /\ doc_len' \in Nat /\ MemoryOK'
         /\ Starts' = Starts /\ StartStrings' = StartStrings
         /\ TerminatedBefore(doc_len) => TerminatedBefore(doc_len)'
<1>1. doc_len' \in Nat /\ MemoryOK'
  BY DEF IInv, MemoryOK
<1>2. Starts' = Starts /\ StartStrings' = StartStrings
  BY DEF Starts, StartStrings, Letter
<1>3. TerminatedBefore(doc_len) => TerminatedBefore(doc_len)'
  BY DEF TerminatedBefore, Letter
<1>4. QED
  BY <1>1, <1>2, <1>3

LEMMA EnterKeepsIInv ==
  ASSUME IInv, Enter
  PROVE  IInv'
<1> USE DEF Enter
<1>1. /\ UNCHANGED <<memory, doc_len, i, in_word, word_count, word_array, unique_count,
                     str_size, pool, out>>
      /\ words' = <<>> /\ count' = 0 /\ doc_len \in Nat
      /\ at = "called" /\ at' = IF doc_len = 0 THEN "returned" ELSE "counting"
  BY DEF array, block, IInv
<1>2. /\ doc_len' \in Nat /\ MemoryOK' /\ Starts' = Starts /\ StartStrings' = StartStrings
  BY <1>1, SameDocument
<1>3. word_count = 0 /\ i = 0 /\ in_word = FALSE
  BY <1>1 DEF IInv, CountOK
<1>4. PassOK'
  <2>1. i' = 0 /\ i' \in 0 .. doc_len' /\ in_word' = FALSE
    BY <1>1, <1>3
  <2>2. ~Letter(i - 1)'
    BY <2>1 DEF Letter
  <2>3. QED
    BY <2>1, <2>2 DEF PassOK
<1>5. CountOK'
  <2>1. StartsBefore(0) = {} /\ Cardinality({}) = 0
    BY <1>1, StartsFinite, FS_EmptySet
  <2>2. at' = "counting" => word_count' = Cardinality(StartsBefore(i)') /\ TerminatedBefore(i)'
    <3>1. StartsBefore(i)' = StartsBefore(0)
      BY <1>1, <1>2, <1>3 DEF StartsBefore
    <3>2. TerminatedBefore(i)'
      BY <1>1, <1>3 DEF TerminatedBefore
    <3>3. QED
      BY <1>1, <1>3, <2>1, <3>1, <3>2
  <2>3. at' = "returned" => word_count' = Cardinality(Starts') /\ TerminatedBefore(doc_len)'
    <3>1. SUFFICES ASSUME doc_len = 0
                   PROVE  word_count' = Cardinality(Starts') /\ TerminatedBefore(doc_len)'
      BY <1>1
    <3>2. Starts' = {}
      BY <1>2, <3>1 DEF Starts
    <3>3. QED
      BY <1>1, <1>3, <2>1, <3>1, <3>2 DEF TerminatedBefore
  <2>4. QED
    BY <1>1, <2>2, <2>3 DEF CountOK
<1>6. LocateOK' /\ PassesAgree'
  BY <1>1 DEF IInv, LocateOK, PassesAgree
<1>7. UniqueOK' /\ PackOK'
  BY <1>1 DEF IInv, UniqueOK, PackOK
<1>8. ResultOK'
  <2>1. at' = "returned" => StartStrings' = {}
    BY <1>1, <1>2 DEF StartStrings, Starts
  <2>2. Len(words') = 0 /\ words' \in Seq(Seq(0 .. 255))
    BY <1>1
  <2>3. Increasing(words)' /\ { words'[k] : k \in 1 .. count' } = {}
    BY <1>1, <2>2 DEF Increasing
  <2>4. QED
    BY <1>1, <2>1, <2>2, <2>3 DEF ResultOK
<1>9. QED
  BY <1>1, <1>2, <1>4, <1>5, <1>6, <1>7, <1>8 DEF IInv

LEMMA CountKeepsLetters ==
  ASSUME IInv, Count
  PROVE  /\ i \in 0 .. (doc_len - 1) /\ doc_len' = doc_len /\ doc_len \in Nat /\ MemoryOK
         /\ MemoryOK' /\ DOMAIN memory' = DOMAIN memory
         /\ \A p \in DOMAIN memory : isalnum(memory[p]) => memory'[p] = memory[p]
         /\ \A p \in DOMAIN memory : p # i => memory'[p] = memory[p]
         /\ memory' = memory \/ (~isalnum(memory[i]) /\ memory' = Terminate(i))
         /\ EndsWord => memory' = Terminate(i)
<1>1. i \in 0 .. (doc_len - 1) /\ doc_len' = doc_len /\ doc_len \in Nat /\ MemoryOK
  BY DEF Count, IInv, PassOK
<1>2. /\ memory' = memory \/ (~isalnum(memory[i]) /\ memory' = Terminate(i))
      /\ EndsWord => memory' = Terminate(i)
  BY DEF Count, EndsWord
<1>3. QED
  BY <1>1, <1>2, TerminateKeepsLetters

LEMMA CountKeepsStarts ==
  ASSUME IInv, Count
  PROVE  /\ \A p \in Int : Letter(p)' <=> Letter(p)
         /\ Starts' = Starts
BY CountKeepsLetters, TerminateKeepsLetters

LEMMA CountKeepsIInv ==
  ASSUME IInv, Count
  PROVE  IInv'
<1>1. /\ UNCHANGED <<doc_len, words, count, at, word_array, unique_count,
                     str_size, pool, out>>
      /\ at = "counting" /\ i' = i + 1 /\ in_word' = isalnum(memory[i])
      /\ word_count' = IF StartsWord THEN word_count + 1 ELSE word_count
  BY DEF Count, results, block
<1>2. /\ i \in 0 .. (doc_len - 1) /\ doc_len \in Nat /\ MemoryOK' /\ i \in Int
      /\ in_word \in BOOLEAN /\ (in_word <=> Letter(i - 1))
  BY <1>1, CountKeepsLetters DEF IInv, PassOK
<1>3. PassOK'
  <2>1. in_word' \in BOOLEAN
    BY <1>1 DEF isalnum
  <2>2. in_word' <=> Letter(i)
    BY <1>1, <1>2 DEF Letter
  <2>5. Letter(i - 1)' <=> Letter(i)
    <3>1. \A p \in Int : (p \in 0 .. (doc_len' - 1) /\ isalnum(memory'[p])) <=> Letter(p)
      BY CountKeepsStarts DEF Letter
    <3>2. i' - 1 = i /\ i \in Int
      BY <1>1, <1>2
    <3>3. QED
      BY <3>1, <3>2 DEF Letter
  <2>6. QED
    BY <1>1, <1>2, <2>1, <2>2, <2>5 DEF PassOK
<1>4. CountOK'
  <2>1. word_count = Cardinality(StartsBefore(i)) /\ TerminatedBefore(i)
    BY <1>1 DEF IInv, CountOK
  <2>2. word_count' = Cardinality(StartsBefore(i + 1))
    BY <1>1, <1>2, <2>1, OneMoreStart
  <2>3. StartsBefore(i)' = StartsBefore(i + 1)
    BY <1>1, CountKeepsStarts DEF StartsBefore
  <2>4. TerminatedBefore(i)'
    <3>1. Letter(i - 1) /\ ~Letter(i) => memory' = Terminate(i)
      BY <1>2, CountKeepsLetters DEF EndsWord, Letter
    <3>2. QED
      BY <1>1, <2>1, <3>1, CountKeepsLetters, TerminatedFurther
  <2>5. QED
    BY <1>1, <2>2, <2>3, <2>4 DEF CountOK
<1>5. LocateOK'
  BY <1>1 DEF IInv, LocateOK
<1>6. PassesAgree'
  <2>1. Len(word_array) = 0
    BY <1>1 DEF IInv, LocateOK
  <2>2. word_count' \in Nat
    BY <1>1, <1>2, StartsFinite DEF IInv, CountOK
  <2>3. QED
    BY <1>1, <2>1, <2>2 DEF PassesAgree
<1>7. UniqueOK' /\ PackOK'
  BY <1>1 DEF IInv, UniqueOK, PackOK
<1>8. ResultOK'
  BY <1>1 DEF IInv, ResultOK
<1>9. QED
  BY <1>1, <1>2, <1>3, <1>4, <1>5, <1>6, <1>7, <1>8 DEF IInv

LEMMA AllocateKeepsIInv ==
  ASSUME IInv, Allocate
  PROVE  IInv'
<1>1. /\ UNCHANGED <<memory, doc_len, words, count, word_count, word_array, unique_count,
                     str_size, pool, out>>
      /\ at = "counting" /\ i >= doc_len /\ i' = 0 /\ in_word' = FALSE
      /\ at' \in IF word_count = 0 THEN {"returned"} ELSE {"locating", "exited"}
      /\ doc_len \in Nat /\ i \in 0 .. doc_len
  BY DEF Allocate, results, array, block, IInv, PassOK
<1>2. /\ doc_len' \in Nat /\ MemoryOK' /\ Starts' = Starts /\ StartStrings' = StartStrings
      /\ TerminatedBefore(doc_len) => TerminatedBefore(doc_len)'
  BY <1>1, SameDocument
<1>3. word_count = Cardinality(Starts) /\ TerminatedBefore(doc_len)
  <2>1. i = doc_len
    BY <1>1
  <2>2. QED
    BY <1>1, <2>1, StartsFinite DEF IInv, CountOK
<1>4. word_array = <<>> /\ Len(word_array) = 0 /\ word_count \in Nat
  BY <1>1, <1>3, StartsFinite DEF IInv, LocateOK
<1>5. PassOK'
  <2>1. i' = 0 /\ i' \in 0 .. doc_len' /\ in_word' = FALSE
    BY <1>1
  <2>2. ~Letter(i - 1)'
    BY <2>1 DEF Letter
  <2>3. QED
    BY <2>1, <2>2 DEF PassOK
<1>6. CountOK'
  BY <1>1, <1>2, <1>3 DEF CountOK
<1>7. LocateOK' /\ PassesAgree'
  <2>1. at' = "locating" => word_count > 0
    BY <1>1, <1>4
  <2>2. StartsBefore(i)' = {} /\ Cardinality({}) = 0
    BY <1>1, <1>2, FS_EmptySet DEF StartsBefore, Starts
  <2>3. { word_array'[k] : k \in DOMAIN word_array' } = {}
    BY <1>1, <1>4
  <2>4. word_array' \in Seq(0 .. (doc_len' - 1)) /\ Len(word_array') = 0
    BY <1>1, <1>4
  <2>5. QED
    BY <1>1, <1>4, <2>1, <2>2, <2>3, <2>4 DEF LocateOK, PassesAgree
<1>8. UniqueOK' /\ PackOK'
  BY <1>1 DEF IInv, UniqueOK, PackOK
<1>9. ResultOK'
  <2>1. words' = <<>> /\ count' = 0
    BY <1>1 DEF IInv, ResultOK
  <2>2. at' = "returned" => StartStrings' = {}
    <3>1. at' = "returned" => Starts = {}
      BY <1>1, <1>3, StartsFinite, FS_EmptySet
    <3>2. QED
      BY <1>2, <3>1 DEF StartStrings
  <2>3. Len(words') = 0 /\ words' \in Seq(Seq(0 .. 255))
    BY <2>1
  <2>4. Increasing(words)' /\ { words'[k] : k \in 1 .. count' } = {}
    BY <2>1, <2>3 DEF Increasing
  <2>5. QED
    BY <1>1, <2>1, <2>2, <2>3, <2>4 DEF ResultOK
<1>10. QED
  BY <1>1, <1>2, <1>5, <1>6, <1>7, <1>8, <1>9 DEF IInv

LEMMA LocateKeepsIInv ==
  ASSUME IInv, Locate
  PROVE  IInv'
<1>1. /\ UNCHANGED <<memory, doc_len, words, count, at, word_count, unique_count,
                     str_size, pool, out>>
      /\ at = "locating" /\ i < doc_len /\ i' = i + 1 /\ in_word' = isalnum(memory[i])
      /\ word_array' = IF StartsWord THEN Append(word_array, i) ELSE word_array
      /\ doc_len \in Nat /\ i \in 0 .. (doc_len - 1) /\ i \in Int
      /\ in_word \in BOOLEAN /\ (in_word <=> Letter(i - 1))
  BY DEF Locate, results, block, IInv, PassOK
<1>2. /\ doc_len' \in Nat /\ MemoryOK' /\ Starts' = Starts /\ StartStrings' = StartStrings
      /\ TerminatedBefore(doc_len) => TerminatedBefore(doc_len)'
  BY <1>1, SameDocument
<1>3. PassOK'
  <2>1. in_word' \in BOOLEAN
    BY <1>1 DEF isalnum
  <2>2. in_word' <=> Letter(i - 1)'
    BY <1>1 DEF Letter
  <2>3. QED
    BY <1>1, <2>1, <2>2 DEF PassOK
<1>4. CountOK'
  BY <1>1, <1>2 DEF IInv, CountOK
<1>5. /\ word_array \in Seq(0 .. (doc_len - 1)) /\ word_count > 0
      /\ Len(word_array) = Cardinality(StartsBefore(i))
      /\ { word_array[k] : k \in DOMAIN word_array } = StartsBefore(i)
  BY <1>1 DEF IInv, LocateOK
<1>6. StartsBefore(i)' = StartsBefore(i + 1)
  BY <1>1, <1>2 DEF StartsBefore
<1>7. /\ StartsWord => /\ StartsBefore(i + 1) = StartsBefore(i) \cup {i}
                       /\ Cardinality(StartsBefore(i + 1)) = Cardinality(StartsBefore(i)) + 1
      /\ ~StartsWord => StartsBefore(i + 1) = StartsBefore(i)
  BY <1>1, OneMoreStart
<1>8. /\ word_array' \in Seq(0 .. (doc_len - 1))
      /\ Len(word_array') = Cardinality(StartsBefore(i + 1))
      /\ { word_array'[k] : k \in DOMAIN word_array' } = StartsBefore(i + 1)
  <2>1. CASE ~StartsWord
    BY <1>1, <1>5, <1>7, <2>1
  <2>2. CASE StartsWord
    BY <1>1, <1>5, <1>7, <2>2, OneMoreElement
  <2>3. QED
    BY <2>1, <2>2
<1>9. LocateOK'
  BY <1>1, <1>5, <1>6, <1>8 DEF LocateOK
<1>10. PassesAgree'
  <2>1. Cardinality(StartsBefore(i + 1)) <= Cardinality(Starts)
    BY <1>1, StartsFinite
  <2>2. word_count = Cardinality(Starts)
    BY <1>1 DEF IInv, CountOK
  <2>3. QED
    BY <1>1, <1>8, <2>1, <2>2 DEF PassesAgree
<1>11. UniqueOK' /\ PackOK' /\ ResultOK'
  BY <1>1 DEF IInv, UniqueOK, PackOK, ResultOK
<1>12. QED
  BY <1>1, <1>2, <1>3, <1>4, <1>9, <1>10, <1>11 DEF IInv

\* The sort rearranges word_array: the words in it are the same.
LEMMA SortKeepsIInv ==
  ASSUME IInv, Sort
  PROVE  IInv'
<1>1. /\ UNCHANGED <<memory, doc_len, words, count, word_count, str_size, pool, out>>
      /\ at = "locating" /\ at' = "unique" /\ i' = 1 /\ unique_count' = 1
      /\ doc_len \in Nat /\ i = doc_len
      /\ Sorted(word_array')
  BY DEF Sort, results, block, IInv, PassOK
<1>2. /\ doc_len' \in Nat /\ MemoryOK' /\ Starts' = Starts /\ StartStrings' = StartStrings
      /\ TerminatedBefore(doc_len) => TerminatedBefore(doc_len)'
  BY <1>1, SameDocument
<1> DEFINE l == Len(word_array)
<1>3. /\ word_array \in Seq(0 .. (doc_len - 1)) /\ word_count > 0 /\ l \in Nat
      /\ l = word_count /\ DOMAIN word_array = 1 .. l
      /\ { word_array[k] : k \in 1 .. l } = Starts
  <2>1. /\ word_array \in Seq(0 .. (doc_len - 1)) /\ word_count > 0
        /\ l = Cardinality(Starts)
        /\ { word_array[k] : k \in DOMAIN word_array } = Starts
    BY <1>1, StartsFinite DEF IInv, LocateOK
  <2>2. word_count = Cardinality(Starts)
    BY <1>1 DEF IInv, CountOK
  <2>3. QED
    BY <2>1, <2>2, LenProperties
<1>4. PICK f \in Bijection(1 .. l, 1 .. l) :
        word_array' = [k \in 1 .. l |-> word_array[f[k]]]
  BY <1>3 DEF Sort
<1>5. f \in [1 .. l -> 1 .. l] /\ \A j \in 1 .. l : \E k \in 1 .. l : f[k] = j
  BY <1>4 DEF Bijection, Surjection, Injection
<1>6. /\ word_array' \in Seq(0 .. (doc_len - 1)) /\ Len(word_array') = l
      /\ \A k \in 1 .. l : word_array'[k] = word_array[f[k]]
  <2>1. \A k \in 1 .. l : word_array[k] \in 0 .. (doc_len - 1)
    BY <1>3, ElementOfSeq
  <2>2. word_array' \in [1 .. l -> 0 .. (doc_len - 1)]
    BY <1>4, <1>5, <2>1
  <2> DEFINE D == 0 .. (doc_len - 1)
  <2>a. word_array' \in [1 .. l -> D] /\ l \in Nat
    BY <1>3, <2>2
  <2> HIDE DEF l, D
  <2>b. word_array' \in Seq(D)
    BY <2>a, SeqDef
  <2>c. Len(word_array') = l
    BY <2>a, <2>b, LenProperties
  <2>3. word_array' \in Seq(0 .. (doc_len - 1)) /\ Len(word_array') = l
    BY <2>b, <2>c DEF D
  <2>4. QED
    BY <1>4, <2>3
<1>7. LocateOK' /\ PassesAgree'
  BY <1>1, <1>3, <1>6 DEF LocateOK, PassesAgree
<1>8. CountOK'
  BY <1>1, <1>2 DEF IInv, CountOK
<1>9. UniqueOK'
  <2>1. \A k \in 1 .. (word_count - 1) :
          ~Less(StringAt(memory, word_array'[k + 1]), StringAt(memory, word_array'[k]))
    <3>1. TAKE k \in 1 .. (word_count - 1)
    <3>2. k + 1 \in 2 .. Len(word_array') /\ (k + 1) - 1 = k
      BY <1>3, <1>6
    <3>3. QED
      BY <1>1, <3>2 DEF Sorted
  <2>2. (1 .. 1) \cup (2 .. word_count) = 1 .. word_count
    BY <1>3
  <2>3. { StringAt(memory, word_array'[k]) : k \in 1 .. word_count } = StartStrings
    <3>1. ASSUME NEW k \in 1 .. l
          PROVE  StringAt(memory, word_array'[k]) \in StartStrings
      BY <1>3, <1>5, <1>6 DEF StartStrings
    <3>2. ASSUME NEW x \in StartStrings
          PROVE  \E k \in 1 .. l : x = StringAt(memory, word_array'[k])
      <4>1. PICK p \in Starts : x = StringAt(memory, p)
        BY DEF StartStrings
      <4>2. PICK j \in 1 .. l : word_array[j] = p
        BY <1>3
      <4>3. PICK k \in 1 .. l : f[k] = j
        BY <1>5
      <4>4. QED
        BY <1>6, <4>1, <4>2, <4>3
    <3>3. QED
      BY <1>3, <3>1, <3>2
  <2>4. word_count' \in Nat /\ i' \in 1 .. word_count' /\ unique_count' \in 1 .. i'
    BY <1>1, <1>3
  <2>5. { Str(k)' : k \in (1 .. unique_count') \cup ((i' + 1) .. word_count') } = StartStrings'
    BY <1>1, <1>2, <2>2, <2>3 DEF Str
  <2>6. QED
    BY <1>1, <2>1, <2>4, <2>5 DEF UniqueOK, Str
<1>10. PassOK' /\ PackOK' /\ ResultOK'
  BY <1>1 DEF IInv, PassOK, PackOK, ResultOK
<1>11. QED
  BY <1>1, <1>2, <1>7, <1>8, <1>9, <1>10 DEF IInv

LEMMA UniqueKeepsIInv ==
  ASSUME IInv, Unique
  PROVE  IInv'
<1> DEFINE n == word_count
           u == unique_count
<1>1. /\ UNCHANGED <<memory, doc_len, words, count, at, word_count, str_size, pool, out>>
      /\ at = "unique" /\ i < n /\ i' = i + 1
      /\ doc_len \in Nat /\ MemoryOK
  BY DEF Unique, results, block, IInv
<1>2. /\ doc_len' \in Nat /\ MemoryOK' /\ Starts' = Starts /\ StartStrings' = StartStrings
      /\ TerminatedBefore(doc_len) => TerminatedBefore(doc_len)'
  BY <1>1, SameDocument
<1>3. /\ word_array \in Seq(0 .. (doc_len - 1)) /\ Len(word_array) = n
      /\ n \in Nat /\ DOMAIN word_array = 1 .. n
  <2>1. word_array \in Seq(0 .. (doc_len - 1)) /\ Len(word_array) = n
    BY <1>1 DEF IInv, LocateOK
  <2>2. QED
    BY <2>1, LenProperties
<1>4. /\ i \in 1 .. n /\ u \in 1 .. i
      /\ \A k \in 1 .. (u - 1) : Less(Str(k), Str(k + 1))
      /\ \A k \in i .. (n - 1) : ~Less(Str(k + 1), Str(k))
      /\ Str(u) = Str(i)
      /\ { Str(k) : k \in (1 .. u) \cup ((i + 1) .. n) } = StartStrings
  BY <1>1 DEF IInv, UniqueOK
<1>5. PassOK' /\ PackOK' /\ ResultOK'
  BY <1>1 DEF IInv, PassOK, PackOK, ResultOK
<1>6. CountOK'
  BY <1>1, <1>2 DEF IInv, CountOK
<1>7. i + 1 \in 1 .. n /\ u + 1 \in 1 .. n /\ i' \in 1 .. n' /\ u \in Int /\ i \in Int
  BY <1>1, <1>3, <1>4
<1>8. \A k \in 1 .. n : Str(k) \in String
  BY <1>1, <1>3, ArrayStrings
<1>9. CASE Str(i + 1) = Str(i)
  <2>1. UNCHANGED <<word_array, unique_count>>
    BY <1>7, <1>9 DEF Unique, Differs
  <2>2. \A k \in 1 .. n : Str(k)' = Str(k)
    BY <1>1, <2>1 DEF Str
  <2>3. (1 .. u) \cup ((i + 1) .. n) = (1 .. u) \cup ((i + 2) .. n) \cup {i + 1}
    BY <1>7, <1>4
  <2>4. { Str(k) : k \in (1 .. u) \cup ((i + 2) .. n) } = StartStrings
    <3>1. u \in 1 .. u
      BY <1>4
    <3>2. Str(i + 1) = Str(u)
      BY <1>4, <1>9
    <3>3. QED
      BY <1>4, <2>3, <3>1, <3>2
  <2>5. UniqueOK'
    <3>1. i' \in 1 .. n' /\ u' \in 1 .. i'
      BY <1>1, <1>4, <1>7, <2>1
    <3>2. \A k \in 1 .. (u' - 1) : Less(Str(k), Str(k + 1))'
      BY <1>1, <1>4, <2>1 DEF Str
    <3>3. \A k \in i' .. (n' - 1) : ~Less(Str(k + 1), Str(k))'
      <4>1. TAKE k \in i' .. (n' - 1)
      <4>2. k \in i .. (n - 1)
        BY <1>1, <1>7
      <4>3. ~Less(Str(k + 1), Str(k))
        BY <1>4, <4>2
      <4>4. QED
        BY <1>1, <2>1, <4>3 DEF Str
    <3>4. Str(u)' = Str(i)'
      BY <1>1, <1>4, <1>9, <2>1 DEF Str
    <3>5. i' + 1 = i + 2
      BY <1>1, <1>7
    <3>6. { Str(k)' : k \in (1 .. u') \cup ((i' + 1) .. n') } = StartStrings'
      BY <1>1, <1>2, <2>1, <2>4, <3>5 DEF Str
    <3>7. QED
      BY <3>1, <3>2, <3>3, <3>4, <3>6 DEF UniqueOK
  <2>6. LocateOK' /\ PassesAgree'
    BY <1>1, <1>3, <2>1 DEF LocateOK, PassesAgree
  <2>7. QED
    BY <1>1, <1>2, <1>5, <1>6, <2>5, <2>6 DEF IInv
<1>10. CASE Str(i + 1) # Str(i)
  <2>1. /\ word_array' = [word_array EXCEPT ![u + 1] = word_array[i + 1]]
        /\ u' = u + 1
    BY <1>7, <1>10 DEF Unique, Differs
  <2>2. /\ word_array' \in Seq(0 .. (doc_len - 1)) /\ Len(word_array') = n
        /\ DOMAIN word_array' = 1 .. n
        /\ \A k \in 1 .. n : word_array'[k] = IF k = u + 1 THEN word_array[i + 1]
                                                           ELSE word_array[k]
    <3>1. word_array[i + 1] \in 0 .. (doc_len - 1)
      BY <1>3, <1>7, ElementOfSeq
    <3>2. word_array' \in Seq(0 .. (doc_len - 1)) /\ Len(word_array') = n
      BY <1>3, <1>7, <2>1, <3>1, ExceptSeq
    <3>3. QED
      BY <1>3, <2>1, <3>2, LenProperties
  <2> DEFINE New(k) == StringAt(memory', word_array'[k])
  <2>3. \A k \in 1 .. n : New(k) = IF k = u + 1 THEN Str(i + 1) ELSE Str(k)
    BY <1>1, <2>2 DEF Str
  <2> HIDE DEF New
  <2>4. \A k \in (i + 1) .. n : k \in 1 .. n /\ New(k) = Str(k)
    <3>1. TAKE k \in (i + 1) .. n
    <3>2. k = u + 1 => k = i + 1
      BY <1>4, <1>7
    <3>3. k \in 1 .. n
      BY <1>4, <1>7
    <3>4. QED
      BY <2>3, <3>2, <3>3
  <2>5. Less(Str(u), Str(i + 1))
    <3>1. ~Less(Str(i + 1), Str(i))
      BY <1>1, <1>4, <1>3
    <3>2. Less(Str(i), Str(i + 1))
      BY <1>4, <1>7, <1>8, <1>10, <3>1, LessTotal
    <3>3. QED
      BY <1>4, <3>2
  <2>6. i' \in 1 .. n' /\ u' \in 1 .. i'
    BY <1>1, <1>4, <1>7, <2>1
  <2>7. \A k \in 1 .. (u' - 1) : Less(New(k), New(k + 1))
    <3>1. TAKE k \in 1 .. (u' - 1)
    <3>2. k \in 1 .. u /\ k \in 1 .. n /\ k + 1 \in 1 .. n /\ New(k) = Str(k)
      <4>1. k \in 1 .. u /\ k \in 1 .. n /\ k + 1 \in 1 .. n /\ k # u + 1
        BY <1>3, <1>4, <1>7, <2>1
      <4>2. QED
        BY <2>3, <4>1
    <3>3. CASE k = u
      <4>1. New(k + 1) = Str(i + 1)
        BY <2>3, <3>2, <3>3
      <4>2. QED
        BY <2>5, <3>2, <3>3, <4>1
    <3>4. CASE k # u
      <4>1. k \in 1 .. (u - 1) /\ New(k + 1) = Str(k + 1)
        BY <1>7, <2>3, <3>2, <3>4
      <4>2. QED
        BY <1>4, <3>2, <4>1
    <3>5. QED
      BY <3>3, <3>4
  <2>8. \A k \in i' .. (n' - 1) : ~Less(New(k + 1), New(k))
    <3>1. TAKE k \in i' .. (n' - 1)
    <3>2. k \in (i + 1) .. n /\ k + 1 \in (i + 1) .. n /\ k \in i .. (n - 1)
      BY <1>1, <1>3, <1>7
    <3>3. New(k + 1) = Str(k + 1) /\ New(k) = Str(k)
      BY <2>4, <3>2
    <3>4. ~Less(Str(k + 1), Str(k))
      BY <1>4, <3>2
    <3>5. QED
      BY <3>3, <3>4
  <2>9. New(u') = New(i')
    <3>1. i + 1 \in (i + 1) .. n
      BY <1>7
    <3>2. New(i + 1) = Str(i + 1) /\ New(u + 1) = Str(i + 1)
      BY <1>7, <2>3, <2>4, <3>1
    <3>3. QED
      BY <1>1, <2>1, <3>2
  <2>10. { New(k) : k \in (1 .. (u + 1)) \cup ((i + 2) .. n) }
           = StartStrings
    <3>1. /\ (1 .. (u + 1)) \cup ((i + 2) .. n) = (1 .. u) \cup ((i + 2) .. n) \cup {u + 1}
          /\ (1 .. u) \cup ((i + 1) .. n) = (1 .. u) \cup ((i + 2) .. n) \cup {i + 1}
      BY <1>4, <1>7
    <3>2. \A k \in (1 .. u) \cup ((i + 2) .. n) : New(k) = Str(k)
      <4>1. TAKE k \in (1 .. u) \cup ((i + 2) .. n)
      <4>2. k \in 1 .. n /\ k # u + 1
        BY <1>3, <1>4, <1>7
      <4>3. QED
        BY <2>3, <4>2
    <3>3. New(u + 1) = Str(i + 1)
      BY <1>7, <2>3
    <3> DEFINE R == (1 .. u) \cup ((i + 2) .. n)
    <3>4. \A k \in R : New(k) = Str(k)
      BY <3>2
    <3>6. { Str(k) : k \in R \cup {i + 1} } = StartStrings
      BY <1>4, <3>1
    <3> HIDE DEF R
    <3>7. { New(k) : k \in R \cup {u + 1} }
            = { Str(k) : k \in R \cup {i + 1} }
      BY <3>3, <3>4
    <3>8. QED
      BY <3>1, <3>6, <3>7 DEF R
  <2>11. UniqueOK'
    <3>1. i' + 1 = i + 2 /\ u' = u + 1 /\ n' = n
      BY <1>1, <1>7, <2>1
    <3>2. { Str(k)' : k \in (1 .. u') \cup ((i' + 1) .. n') } = StartStrings'
      BY <1>2, <2>10, <3>1 DEF Str, New
    <3>3. QED
      BY <2>6, <2>7, <2>8, <2>9, <3>2 DEF UniqueOK, Str, New
  <2>12. LocateOK' /\ PassesAgree'
    BY <1>1, <1>3, <2>2 DEF LocateOK, PassesAgree
  <2>13. QED
    BY <1>1, <1>2, <1>5, <1>6, <2>11, <2>12 DEF IInv
<1>11. QED
  BY <1>9, <1>10

\* What the unique words from the m-th on need is what the m-th needs and the rest.
LEMMA NeedsFacts ==
  ASSUME IInv, at \in {"unique", "sizing", "packing"},
         unique_count \in 1 .. word_count, NEW m \in 1 .. unique_count
  PROVE  /\ Needs(m) \in Int /\ Needs(m + 1) \in Int
         /\ Str(m) \in String /\ Len(Str(m)) \in Nat
         /\ Needs(m) = Len(Str(m)) + 1 + Needs(m + 1)
<1>1. /\ MemoryOK /\ doc_len \in Nat /\ word_array \in Seq(0 .. (doc_len - 1))
      /\ Len(word_array) = word_count /\ word_count \in Nat
  BY LenProperties DEF IInv, LocateOK
<1>2. \A k \in 1 .. word_count : Str(k) \in String /\ Sizes[k] = Len(Str(k)) + 1 /\ Sizes[k] \in Nat
  BY <1>1, ArrayStrings
<1>3. m \in Int /\ unique_count \in Int /\ m <= unique_count /\ m \in 1 .. word_count
  BY <1>1
<1>4. \A k \in m .. unique_count : Sizes[k] \in Int
  BY <1>1, <1>2, <1>3
<1>5. /\ Needs(m) \in Int /\ Needs(m + 1) \in Int
      /\ Needs(m) = Sizes[m] + Needs(m + 1)
  BY <1>3, <1>4, SumFirst DEF Needs
<1>6. Str(m) \in String /\ Len(Str(m)) \in Nat /\ Sizes[m] = Len(Str(m)) + 1
  BY <1>2, <1>3, StringFacts
<1>7. QED
  BY <1>5, <1>6

LEMMA NothingNeeded ==
  ASSUME unique_count \in Nat
  PROVE  Needs(unique_count + 1) = 0
<1> DEFINE I == (unique_count + 1) .. unique_count
<1>1. I = {}
  OBVIOUS
<1> HIDE DEF I
<1>2. SumFunctionOnSet(Sizes, I) = 0
  BY <1>1, SumNone
<1>3. QED
  BY <1>2 DEF Needs, I

LEMMA UniqueDoneKeepsIInv ==
  ASSUME IInv, UniqueDone
  PROVE  IInv'
<1>1. /\ UNCHANGED <<memory, doc_len, words, count, word_count, word_array, unique_count,
                     str_size, pool, out>>
      /\ at = "unique" /\ at' = "sizing" /\ i >= word_count /\ i' = 0 /\ doc_len \in Nat
  BY DEF UniqueDone, results, array, block, IInv
<1>2. /\ doc_len' \in Nat /\ MemoryOK' /\ Starts' = Starts /\ StartStrings' = StartStrings
      /\ TerminatedBefore(doc_len) => TerminatedBefore(doc_len)'
  BY <1>1, SameDocument
<1>3. word_count \in Nat
  BY <1>1, LenProperties DEF IInv, LocateOK
<1>4. /\ i = word_count /\ unique_count \in 1 .. word_count
      /\ \A k \in 1 .. (unique_count - 1) : Less(Str(k), Str(k + 1))
      /\ { Str(k) : k \in 1 .. unique_count } = StartStrings
  <2>1. /\ i \in 1 .. word_count /\ unique_count \in 1 .. i
        /\ \A k \in 1 .. (unique_count - 1) : Less(Str(k), Str(k + 1))
        /\ { Str(k) : k \in (1 .. unique_count) \cup ((i + 1) .. word_count) } = StartStrings
    BY <1>1 DEF IInv, UniqueOK
  <2>2. i = word_count
    BY <1>1, <1>3, <2>1
  <2>3. (1 .. unique_count) \cup ((i + 1) .. word_count) = 1 .. unique_count
    BY <1>3, <2>2
  <2>4. QED
    BY <2>1, <2>2, <2>3
<1>5. Needs(1) \in Int
  <2>1. 1 \in 1 .. unique_count
    BY <1>3, <1>4
  <2>2. QED
    BY <1>1, <1>4, <2>1, NeedsFacts
<1>6. str_size = 0 /\ pool = 0 /\ out = <<>>
  BY <1>1 DEF IInv, PackOK
<1>7. PackOK'
  <2>1. Needs(i + 1)' = Needs(1) /\ Needs(1)' = Needs(1)
    BY <1>1 DEF Needs, Sizes, Str
  <2>2. str_size' \in Nat /\ str_size' + Needs(i + 1)' = Needs(1)'
    BY <1>1, <1>5, <1>6, <2>1
  <2>3. /\ \A k \in 1 .. (unique_count' - 1) : Less(Str(k), Str(k + 1))'
        /\ { Str(k)' : k \in 1 .. unique_count' } = StartStrings'
    BY <1>1, <1>2, <1>4 DEF Str
  <2>4. unique_count' \in 1 .. word_count' /\ i' \in 0 .. unique_count'
    BY <1>1, <1>3, <1>4
  <2>5. QED
    BY <1>1, <1>6, <2>2, <2>3, <2>4 DEF PackOK
<1>8. CountOK'
  BY <1>1, <1>2 DEF IInv, CountOK
<1>9. PassOK' /\ LocateOK' /\ PassesAgree' /\ UniqueOK' /\ ResultOK'
  BY <1>1 DEF IInv, PassOK, LocateOK, PassesAgree, UniqueOK, ResultOK
<1>10. QED
  BY <1>1, <1>2, <1>7, <1>8, <1>9 DEF IInv

LEMMA SizeKeepsIInv ==
  ASSUME IInv, Size
  PROVE  IInv'
<1>1. /\ UNCHANGED <<memory, doc_len, words, count, at, word_count, word_array, unique_count,
                     pool, out>>
      /\ at = "sizing" /\ i < unique_count /\ i' = i + 1 /\ doc_len \in Nat
      /\ str_size' = str_size + Len(Str(i + 1)) + 1
  BY DEF Size, results, array, IInv
<1>2. /\ doc_len' \in Nat /\ MemoryOK' /\ Starts' = Starts /\ StartStrings' = StartStrings
      /\ TerminatedBefore(doc_len) => TerminatedBefore(doc_len)'
  BY <1>1, SameDocument
<1>3. /\ unique_count \in 1 .. word_count /\ i \in 0 .. unique_count
      /\ \A k \in 1 .. (unique_count - 1) : Less(Str(k), Str(k + 1))
      /\ { Str(k) : k \in 1 .. unique_count } = StartStrings
      /\ str_size \in Nat /\ str_size + Needs(i + 1) = Needs(1)
      /\ pool = 0 /\ out = <<>>
  BY <1>1 DEF IInv, PackOK
<1>4. word_count \in Nat
  BY <1>1, LenProperties DEF IInv, LocateOK
<1>5. i \in Int /\ i + 1 \in 1 .. unique_count /\ i + 1 \in 0 .. unique_count
  BY <1>1, <1>3, <1>4
<1>6. /\ Needs(i + 1) \in Int /\ Needs((i + 1) + 1) \in Int
      /\ Len(Str(i + 1)) \in Nat
      /\ Needs(i + 1) = Len(Str(i + 1)) + 1 + Needs((i + 1) + 1)
  BY <1>1, <1>3, <1>5, NeedsFacts
<1>7. PackOK'
  <2>1. Needs(i + 1)' = Needs((i + 1) + 1) /\ Needs(1)' = Needs(1)
    BY <1>1 DEF Needs, Sizes, Str
  <2>2. str_size' \in Nat
    BY <1>1, <1>3, <1>6
  <2>3. str_size' + Needs(i + 1)' = Needs(1)'
    BY <1>1, <1>3, <1>6, <2>1
  <2>4. /\ \A k \in 1 .. (unique_count' - 1) : Less(Str(k), Str(k + 1))'
        /\ { Str(k)' : k \in 1 .. unique_count' } = StartStrings'
    BY <1>1, <1>2, <1>3 DEF Str
  <2>5. unique_count' \in 1 .. word_count' /\ i' \in 0 .. unique_count'
    BY <1>1, <1>3, <1>5
  <2>6. QED
    BY <1>1, <1>3, <2>2, <2>3, <2>4, <2>5 DEF PackOK
<1>8. CountOK'
  BY <1>1, <1>2 DEF IInv, CountOK
<1>9. PassOK' /\ LocateOK' /\ PassesAgree' /\ UniqueOK' /\ ResultOK'
  BY <1>1 DEF IInv, PassOK, LocateOK, PassesAgree, UniqueOK, ResultOK
<1>10. QED
  BY <1>1, <1>2, <1>7, <1>8, <1>9 DEF IInv

LEMMA AllocateBlockKeepsIInv ==
  ASSUME IInv, AllocateBlock
  PROVE  IInv'
<1>1. /\ UNCHANGED <<memory, doc_len, words, count, word_count, word_array, unique_count,
                     str_size, pool, out>>
      /\ at = "sizing" /\ i >= unique_count /\ i' = 0 /\ doc_len \in Nat
      /\ at' \in {"packing", "exited"}
  BY DEF AllocateBlock, results, array, block, IInv
<1>2. /\ doc_len' \in Nat /\ MemoryOK' /\ Starts' = Starts /\ StartStrings' = StartStrings
      /\ TerminatedBefore(doc_len) => TerminatedBefore(doc_len)'
  BY <1>1, SameDocument
<1>3. /\ unique_count \in 1 .. word_count /\ i \in 0 .. unique_count
      /\ \A k \in 1 .. (unique_count - 1) : Less(Str(k), Str(k + 1))
      /\ { Str(k) : k \in 1 .. unique_count } = StartStrings
      /\ str_size \in Nat /\ str_size + Needs(i + 1) = Needs(1)
      /\ pool = 0 /\ out = <<>>
  BY <1>1 DEF IInv, PackOK
<1>4. word_count \in Nat
  BY <1>1, LenProperties DEF IInv, LocateOK
<1>5. i = unique_count /\ unique_count \in Nat /\ 1 \in 1 .. unique_count
  BY <1>1, <1>3, <1>4
<1>6. str_size = Needs(1)
  BY <1>3, <1>5, NothingNeeded
<1>7. PackOK'
  <2>1. Needs(i + 1)' = Needs(1)
    BY <1>1 DEF Needs, Sizes, Str
  <2>2. pool' \in Nat /\ str_size' \in Nat /\ str_size' = pool' + Needs(i + 1)'
    BY <1>1, <1>3, <1>6, <2>1
  <2>3. /\ \A k \in 1 .. (unique_count' - 1) : Less(Str(k), Str(k + 1))'
        /\ { Str(k)' : k \in 1 .. unique_count' } = StartStrings'
    BY <1>1, <1>2, <1>3 DEF Str
  <2>4. unique_count' \in 1 .. word_count' /\ i' \in 0 .. unique_count'
    BY <1>1, <1>3, <1>5
  <2>5. out' \in Seq(Seq(0 .. 255)) /\ Len(out') = i' /\ 1 .. i' = {}
    BY <1>1, <1>3
  <2>6. QED
    BY <1>1, <1>3, <2>2, <2>3, <2>4, <2>5 DEF PackOK
<1>8. CountOK'
  BY <1>1, <1>2 DEF IInv, CountOK
<1>9. PassOK' /\ LocateOK' /\ PassesAgree' /\ UniqueOK' /\ ResultOK'
  BY <1>1 DEF IInv, PassOK, LocateOK, PassesAgree, UniqueOK, ResultOK
<1>10. QED
  BY <1>1, <1>2, <1>7, <1>8, <1>9 DEF IInv

LEMMA PackKeepsIInv ==
  ASSUME IInv, Pack
  PROVE  IInv'
<1>1. /\ UNCHANGED <<memory, doc_len, words, count, at, word_count, word_array, unique_count,
                     str_size>>
      /\ at = "packing" /\ i < unique_count /\ i' = i + 1 /\ doc_len \in Nat
      /\ out' = Append(out, Str(i + 1))
      /\ pool' = pool + Len(Str(i + 1)) + 1
  BY DEF Pack, results, array, IInv
<1>2. /\ doc_len' \in Nat /\ MemoryOK' /\ Starts' = Starts /\ StartStrings' = StartStrings
      /\ TerminatedBefore(doc_len) => TerminatedBefore(doc_len)'
  BY <1>1, SameDocument
<1>3. /\ unique_count \in 1 .. word_count /\ i \in 0 .. unique_count
      /\ \A k \in 1 .. (unique_count - 1) : Less(Str(k), Str(k + 1))
      /\ { Str(k) : k \in 1 .. unique_count } = StartStrings
      /\ str_size \in Nat /\ pool \in Nat /\ str_size = pool + Needs(i + 1)
      /\ out \in Seq(Seq(0 .. 255)) /\ Len(out) = i
      /\ \A k \in 1 .. i : out[k] = Str(k)
  BY <1>1 DEF IInv, PackOK
<1>4. word_count \in Nat
  BY <1>1, LenProperties DEF IInv, LocateOK
<1>5. i \in Nat /\ i + 1 \in 1 .. unique_count /\ i + 1 \in 0 .. unique_count
  BY <1>1, <1>3, <1>4
<1>6. /\ Needs(i + 1) \in Int /\ Needs((i + 1) + 1) \in Int
      /\ Str(i + 1) \in String /\ Len(Str(i + 1)) \in Nat
      /\ Needs(i + 1) = Len(Str(i + 1)) + 1 + Needs((i + 1) + 1)
  BY <1>1, <1>3, <1>5, NeedsFacts
<1>7. PackOK'
  <2>1. Needs(i + 1)' = Needs((i + 1) + 1)
    BY <1>1 DEF Needs, Sizes, Str
  <2>2. pool' \in Nat /\ str_size' \in Nat
    BY <1>1, <1>3, <1>6
  <2>3. str_size' = pool' + Needs(i + 1)'
    <3> DEFINE l == Len(Str(i + 1))
               n == Needs((i + 1) + 1)
    <3>1. l \in Nat /\ n \in Int /\ str_size = pool + (l + 1 + n) /\ pool \in Nat
      BY <1>3, <1>6
    <3>2. pool' = pool + l + 1 /\ str_size' = str_size /\ Needs(i + 1)' = n
      BY <1>1, <2>1
    <3> HIDE DEF l, n
    <3>3. str_size = (pool + l + 1) + n
      BY <3>1
    <3>4. QED
      BY <3>2, <3>3
  <2>4. /\ \A k \in 1 .. (unique_count' - 1) : Less(Str(k), Str(k + 1))'
        /\ { Str(k)' : k \in 1 .. unique_count' } = StartStrings'
    BY <1>1, <1>2, <1>3 DEF Str
  <2>5. unique_count' \in 1 .. word_count' /\ i' \in 0 .. unique_count'
    BY <1>1, <1>3, <1>5
  <2> DEFINE x == Str(i + 1)
             T == Seq(0 .. 255)
  <2>6. out \in Seq(T) /\ x \in T /\ out' = Append(out, x)
    BY <1>1, <1>3, <1>6 DEF String
  <2> HIDE DEF x, T
  <2>7. /\ out' \in Seq(T) /\ Len(out') = i + 1 /\ out'[i + 1] = x
        /\ \A k \in 1 .. i : out'[k] = out[k]
    BY <1>3, <2>6, AppendProperties
  <2>8. \A k \in 1 .. (i + 1) : out'[k] = Str(k)
    <3>1. TAKE k \in 1 .. (i + 1)
    <3>2. k \in 1 .. i \/ k = i + 1
      BY <1>5
    <3>3. QED
      BY <1>3, <2>7, <3>2 DEF x
  <2>9. /\ out' \in Seq(Seq(0 .. 255)) /\ Len(out') = i'
        /\ \A k \in 1 .. i' : out'[k] = Str(k)'
    BY <1>1, <2>7, <2>8 DEF T, Str
  <2>10. QED
    BY <1>1, <2>2, <2>3, <2>4, <2>5, <2>9 DEF PackOK
<1>8. CountOK'
  BY <1>1, <1>2 DEF IInv, CountOK
<1>9. PassOK' /\ LocateOK' /\ PassesAgree' /\ UniqueOK' /\ ResultOK'
  BY <1>1 DEF IInv, PassOK, LocateOK, PassesAgree, UniqueOK, ResultOK
<1>10. QED
  BY <1>1, <1>2, <1>7, <1>8, <1>9 DEF IInv

LEMMA ReturnKeepsIInv ==
  ASSUME IInv, Return
  PROVE  IInv'
<1>1. /\ UNCHANGED <<memory, doc_len, word_count, word_array, unique_count,
                     str_size, pool, out>>
      /\ at = "packing" /\ i >= unique_count /\ at' = "returned" /\ doc_len \in Nat
      /\ words' = out /\ count' = unique_count
  BY DEF Return, array, block, IInv
<1>2. /\ doc_len' \in Nat /\ MemoryOK' /\ Starts' = Starts /\ StartStrings' = StartStrings
      /\ TerminatedBefore(doc_len) => TerminatedBefore(doc_len)'
  BY <1>1, SameDocument
<1>3. /\ unique_count \in 1 .. word_count /\ i \in 0 .. unique_count
      /\ \A k \in 1 .. (unique_count - 1) : Less(Str(k), Str(k + 1))
      /\ { Str(k) : k \in 1 .. unique_count } = StartStrings
      /\ out \in Seq(Seq(0 .. 255)) /\ Len(out) = i
      /\ \A k \in 1 .. i : out[k] = Str(k)
  BY <1>1 DEF IInv, PackOK
<1>4. word_count \in Nat
  BY <1>1, LenProperties DEF IInv, LocateOK
<1>5. i = unique_count /\ unique_count \in Nat
  BY <1>1, <1>3, <1>4
<1>6. ResultOK'
  <2>1. words' \in Seq(Seq(0 .. 255)) /\ count' = Len(words')
    BY <1>1, <1>3, <1>5
  <2>2. \A k \in 1 .. (unique_count - 1) : Less(out[k], out[k + 1])
    <3>1. TAKE k \in 1 .. (unique_count - 1)
    <3>2. k \in 1 .. i /\ k + 1 \in 1 .. i
      BY <1>5
    <3>3. QED
      BY <1>3, <3>2
  <2>3. Increasing(words)'
    BY <1>1, <1>3, <1>5, <2>2 DEF Increasing
  <2>4. { words'[k] : k \in 1 .. count' } = StartStrings'
    BY <1>1, <1>2, <1>3, <1>5
  <2>5. QED
    BY <1>1, <2>1, <2>3, <2>4 DEF ResultOK
<1>7. CountOK'
  BY <1>1, <1>2 DEF IInv, CountOK
<1>8. PassOK' /\ LocateOK' /\ PassesAgree' /\ UniqueOK' /\ PackOK'
  BY <1>1 DEF IInv, PassOK, LocateOK, PassesAgree, UniqueOK, PackOK
<1>9. QED
  BY <1>1, <1>2, <1>6, <1>7, <1>8 DEF IInv

LEMMA StutterKeepsIInv ==
  ASSUME IInv, UNCHANGED vars
  PROVE  IInv'
<1>1. UNCHANGED <<memory, doc_len, words, count, at, i, in_word, word_count, word_array,
                  unique_count, str_size, pool, out>>
  BY DEF vars, results, array, block
<1>2. /\ doc_len' \in Nat /\ MemoryOK' /\ Starts' = Starts /\ StartStrings' = StartStrings
      /\ TerminatedBefore(doc_len) => TerminatedBefore(doc_len)'
  BY <1>1, SameDocument
<1>3. PassOK' /\ PassesAgree'
  BY <1>1 DEF IInv, PassOK, Letter, PassesAgree
<1>4. CountOK' /\ LocateOK'
  BY <1>1, <1>2 DEF IInv, CountOK, LocateOK, StartsBefore, TerminatedBefore, Letter
<1>5. UniqueOK' /\ PackOK' /\ ResultOK'
  BY <1>1, <1>2 DEF IInv, UniqueOK, PackOK, ResultOK, Str, Needs, Sizes, Increasing
<1>6. QED
  BY <1>1, <1>2, <1>3, <1>4, <1>5 DEF IInv

LEMMA NextKeepsIInv ==
  ASSUME IInv, [Next]_vars
  PROVE  IInv'
<1>1. CASE Next
  BY <1>1, EnterKeepsIInv, CountKeepsIInv, AllocateKeepsIInv, LocateKeepsIInv, SortKeepsIInv,
     UniqueKeepsIInv, UniqueDoneKeepsIInv, SizeKeepsIInv, AllocateBlockKeepsIInv,
     PackKeepsIInv, ReturnKeepsIInv, StutterKeepsIInv DEF Next, Ended
<1>2. CASE UNCHANGED vars
  BY <1>2, StutterKeepsIInv
<1>3. QED
  BY <1>1, <1>2

\* IInv: what each variable of WordList holds at every point of every run.
THEOREM WordListInvariance == Spec => []IInv
<1>1. Init => IInv
  BY InitHolds
<1>2. IInv /\ [Next]_vars => IInv'
  BY NextKeepsIInv
<1>3. QED
  BY <1>1, <1>2, PTL DEF Spec

(***************************************************************************)
(* What follows from the invariant.                                        *)
(***************************************************************************)

\* PassesAgree: the second pass finds as many starts as the first has counted, in the
\* document the first has changed, and word_array has room for each.
THEOREM PassesAlwaysAgree == Spec => []PassesAgree
<1>1. IInv => PassesAgree
  BY DEF IInv
<1>2. QED
  BY <1>1, WordListInvariance, PTL

\* PoolFits: what the packing loop copies is what the sizing loop has added up.
THEOREM BlockIsLargeEnough == Spec => []PoolFits
<1>1. IInv => PoolFits
  <2>1. SUFFICES ASSUME IInv, at = "packing" PROVE str_size - pool = Needs(i + 1)
    BY DEF PoolFits
  <2>2. /\ unique_count \in 1 .. word_count /\ i \in 0 .. unique_count
        /\ pool \in Nat /\ str_size = pool + Needs(i + 1)
    BY <2>1 DEF IInv, PackOK
  <2>3. word_count \in Nat
    BY <2>1, LenProperties DEF IInv, LocateOK
  <2>4. Needs(i + 1) \in Int
    <3>1. CASE i = unique_count
      BY <2>2, <2>3, <3>1, NothingNeeded
    <3>2. CASE i # unique_count
      <4>1. i + 1 \in 1 .. unique_count
        BY <2>2, <2>3, <3>2
      <4>2. QED
        BY <2>1, <2>2, <4>1, NeedsFacts
    <3>3. QED
      BY <3>1, <3>2
  <2>5. QED
    BY <2>2, <2>4
<1>2. QED
  BY <1>1, WordListInvariance, PTL

LEMMA DocumentStays ==
  ASSUME IInv, [Next]_vars
  PROVE  DocWords' = DocWords /\ Found' = Found /\ (Terminated => Terminated')
<1>1. CASE Count
  BY <1>1, CountKeepsLetters, SameWords
<1>2. CASE memory' = memory /\ doc_len' = doc_len
  BY <1>2 DEF DocWords, Found, Terminated, Letter
<1>3. QED
  BY <1>1, <1>2 DEF Next, vars, Enter, Allocate, Locate, Sort, Unique, UniqueDone, Size,
                    AllocateBlock, Pack, Return, Ended

LEMMA TerminatedStays == Spec /\ Terminated => [](IInv /\ Terminated)
<1>1. IInv /\ Terminated /\ [Next]_vars => Terminated'
  BY DocumentStays
<1>2. QED
  BY <1>1, WordListInvariance, PTL DEF Spec

\* UniqueKeepsWords: while duplicates are removed in place no string found is overwritten
\* before it has been kept, whatever the document ends in.
THEOREM NoWordDropped == Spec => []UniqueKeepsWords
<1>1. IInv => UniqueKeepsWords
  <2>1. SUFFICES ASSUME IInv, at = "unique" PROVE UniqueKeepsWords
    BY DEF UniqueKeepsWords
  <2>2. StartStrings = Found
    BY <2>1, StringsAreFound DEF IInv, CountOK
  <2>3. QED
    BY <2>1, <2>2 DEF IInv, UniqueOK, UniqueKeepsWords
<1>2. QED
  BY <1>1, WordListInvariance, PTL

\* ListsTheWords: the result has every word of a terminated document, once, in the order
\* of strcmp.
THEOREM ResultIsTheWordList == Spec /\ Terminated => []ListsTheWords
<1>1. IInv /\ Terminated => ListsTheWords
  <2>1. SUFFICES ASSUME IInv, Terminated, at = "returned" PROVE ListsTheWords
    BY DEF ListsTheWords
  <2>2. StartStrings = DocWords
    BY <2>1, StringsAreWords DEF IInv, CountOK
  <2>3. QED
    BY <2>1, <2>2 DEF IInv, ResultOK, ListsTheWords, Increasing
<1>2. QED
  BY <1>1, TerminatedStays, PTL

(***************************************************************************)
(* A set of strings can be listed in order in one way only.                *)
(***************************************************************************)
LEMMA AllIncrease ==
  ASSUME NEW w \in Seq(String), Increasing(w)
  PROVE  \A j, k \in 1 .. Len(w) : j < k => Less(w[j], w[k])
<1> DEFINE n == Len(w)
           A == { k \in Nat : k <= n => \A j \in 1 .. (k - 1) : Less(w[j], w[k]) }
<1>1. n \in Nat /\ \A k \in 1 .. n : w[k] \in String
  BY ElementOfSeq, LenProperties
<1>2. \A k \in 1 .. (n - 1) : Less(w[k], w[k + 1])
  BY DEF Increasing
<1> HIDE DEF n
<1>3. 0 \in A
  BY <1>1
<1>4. \A k \in 0 .. (n - 1) : k \in A => k + 1 \in A
  <2>1. SUFFICES ASSUME NEW k \in 0 .. (n - 1), k \in A, NEW j \in 1 .. k
                 PROVE  Less(w[j], w[k + 1])
    BY <1>1
  <2>2. k \in 1 .. (n - 1) /\ k \in 1 .. n /\ k + 1 \in 1 .. n /\ j \in 1 .. n
    BY <1>1, <2>1
  <2>3. Less(w[k], w[k + 1])
    BY <1>2, <2>2
  <2>4. CASE j = k
    BY <2>3, <2>4
  <2>5. CASE j # k
    <3>1. j \in 1 .. (k - 1) /\ k <= n
      BY <1>1, <2>1, <2>2, <2>5
    <3>2. Less(w[j], w[k])
      BY <2>1, <3>1
    <3>3. QED
      BY <1>1, <2>2, <2>3, <3>2, LessTransitive
  <2>6. QED
    BY <2>4, <2>5
<1>5. 0 .. n \subseteq A
  <2> HIDE DEF A
  <2>1. QED
    BY <1>1, <1>3, <1>4, UpTo
<1>6. ASSUME NEW j \in 1 .. n, NEW k \in 1 .. n, j < k PROVE Less(w[j], w[k])
  <2>1. k \in 0 .. n /\ j \in 1 .. (k - 1) /\ k <= n
    BY <1>1, <1>6
  <2>2. QED
    BY <1>5, <2>1
<1>7. QED
  BY <1>6 DEF n

\* A map of 1 .. n into itself that increases moves nothing.
LEMMA IncreasingIsIdentity ==
  ASSUME NEW n \in Nat, NEW r \in [1 .. n -> 1 .. n],
         \A j, k \in 1 .. n : j < k => r[j] < r[k]
  PROVE  \A k \in 1 .. n : r[k] = k
<1> DEFINE Up == { k \in Nat : k \in 1 .. n => r[k] >= k }
           Down == { k \in Nat : n - k \in 1 .. n => r[n - k] <= n - k }
<1>1. 0 .. n \subseteq Up
  <2>1. 0 \in Up
    OBVIOUS
  <2>2. \A k \in 0 .. (n - 1) : k \in Up => k + 1 \in Up
    <3>1. SUFFICES ASSUME NEW k \in 0 .. (n - 1), k \in Up PROVE r[k + 1] >= k + 1
      OBVIOUS
    <3>2. k + 1 \in 1 .. n /\ r[k + 1] \in 1 .. n
      OBVIOUS
    <3>3. k \in 1 .. n => r[k] >= k /\ r[k] < r[k + 1] /\ r[k] \in 1 .. n
      BY <3>1, <3>2
    <3>4. QED
      BY <3>2, <3>3
  <2> HIDE DEF Up
  <2>3. QED
    BY <2>1, <2>2, UpTo
<1>2. 0 .. n \subseteq Down
  <2>1. 0 \in Down
    OBVIOUS
  <2>2. \A k \in 0 .. (n - 1) : k \in Down => k + 1 \in Down
    <3>1. SUFFICES ASSUME NEW k \in 0 .. (n - 1), k \in Down, n - (k + 1) \in 1 .. n
                   PROVE  r[n - (k + 1)] <= n - (k + 1)
      OBVIOUS
    <3>2. n - k \in 1 .. n /\ r[n - k] <= n - k
      BY <3>1
    <3>3. r[n - (k + 1)] < r[n - k] /\ r[n - (k + 1)] \in 1 .. n /\ r[n - k] \in 1 .. n
      BY <3>1, <3>2
    <3>4. QED
      BY <3>2, <3>3
  <2> HIDE DEF Down
  <2>3. QED
    BY <2>1, <2>2, UpTo
<1>3. TAKE k \in 1 .. n
<1>4. k \in 0 .. n /\ n - k \in 0 .. n /\ n - (n - k) = k
  OBVIOUS
<1>5. r[k] >= k /\ r[k] <= k
  BY <1>1, <1>2, <1>4
<1>6. QED
  BY <1>5

LEMMA ListingIs ==
  ASSUME NEW S, NEW w \in Seq(String), Increasing(w), { w[k] : k \in 1 .. Len(w) } = S
  PROVE  /\ Cardinality(S) = Len(w)
         /\ { s \in [1 .. Cardinality(S) -> S] :
                \A j, k \in DOMAIN s : j < k => Less(s[j], s[k]) } = {w}
<1> DEFINE n == Len(w)
           Listed(s) == \A j, k \in DOMAIN s : j < k => Less(s[j], s[k])
<1>1. n \in Nat /\ DOMAIN w = 1 .. n /\ \A k \in 1 .. n : w[k] \in String
  BY ElementOfSeq, LenProperties
<1>2. \A j, k \in 1 .. n : j < k => Less(w[j], w[k])
  BY AllIncrease
<1>3. w \in [1 .. n -> S] /\ \A x \in S : \E k \in 1 .. n : w[k] = x
  BY <1>1
<1>4. \A x \in S : x \in String
  BY <1>1
<1> HIDE DEF n
<1>5. Cardinality(S) = n
  <2>1. \A j, k \in 1 .. n : w[j] = w[k] => j = k
    <3>1. SUFFICES ASSUME NEW j \in 1 .. n, NEW k \in 1 .. n, w[j] = w[k], j # k PROVE FALSE
      OBVIOUS
    <3>2. Less(w[j], w[j])
      BY <1>1, <1>2, <3>1
    <3>3. QED
      BY <1>1, <3>2, LessIrreflexive
  <2>2. IsInjective(w)
    BY <1>1, <2>1 DEF IsInjective
  <2>a. w \in Injection(1 .. n, S) /\ w \in Surjection(1 .. n, S)
    BY <1>3, <2>2 DEF Injection, Surjection
  <2>3. ExistsBijection(1 .. n, S)
    BY <2>a DEF ExistsBijection, Bijection
  <2>4. QED
    BY <1>1, <2>3, FS_CountingElements
<1>6. Listed(w)
  BY <1>1, <1>2
<1>7. ASSUME NEW s \in [1 .. n -> S], Listed(s) PROVE s = w
  <2> DEFINE r == [k \in 1 .. n |-> CHOOSE j \in 1 .. n : w[j] = s[k]]
  <2>1. \A k \in 1 .. n : r[k] \in 1 .. n /\ w[r[k]] = s[k]
    BY <1>3
  <2>2. r \in [1 .. n -> 1 .. n]
    BY <2>1
  <2> HIDE DEF r
  <2>3. \A j, k \in 1 .. n : j < k => r[j] < r[k]
    <3>1. SUFFICES ASSUME NEW j \in 1 .. n, NEW k \in 1 .. n, j < k, ~(r[j] < r[k]) PROVE FALSE
      OBVIOUS
    <3>2. Less(w[r[j]], w[r[k]])
      BY <1>7, <2>1, <3>1
    <3>3. r[j] \in 1 .. n /\ r[k] \in 1 .. n /\ w[r[j]] \in String /\ w[r[k]] \in String
      BY <1>1, <2>1
    <3>4. CASE r[j] = r[k]
      BY <3>2, <3>3, <3>4, LessIrreflexive
    <3>5. CASE r[k] < r[j]
      <4>1. Less(w[r[k]], w[r[j]])
        BY <1>2, <3>3, <3>5
      <4>2. Less(w[r[k]], w[r[k]])
        BY <3>2, <3>3, <4>1, LessTransitive
      <4>3. QED
        BY <3>3, <4>2, LessIrreflexive
    <3>6. QED
      BY <3>1, <3>3, <3>4, <3>5
  <2>4. \A k \in 1 .. n : r[k] = k
    BY <1>1, <2>2, <2>3, IncreasingIsIdentity
  <2>5. \A k \in 1 .. n : s[k] = w[k]
    BY <2>1, <2>4
  <2>6. w \in [1 .. n -> S] /\ s \in [1 .. n -> S]
    BY <1>3
  <2>7. s = [k \in 1 .. n |-> s[k]] /\ w = [k \in 1 .. n |-> w[k]]
    BY <2>6
  <2>8. [k \in 1 .. n |-> s[k]] = [k \in 1 .. n |-> w[k]]
    BY <2>5
  <2>9. QED
    BY <2>7, <2>8
<1> HIDE DEF Listed
<1>8. { s \in [1 .. n -> S] : Listed(s) } = {w}
  BY <1>3, <1>6, <1>7
<1>9. QED
  BY <1>5, <1>8 DEF Listed, n

(***************************************************************************)
(* The refinement.                                                         *)
(***************************************************************************)
LEMMA SameCardinality == \A S : U!Cardinality(S) = Cardinality(S)
  BY DEF U!Cardinality, Cardinality

Final == at = "returned" => U!Listings = {words} /\ count = Cardinality(Found)

LEMMA FinalHolds == IInv => Final
<1>1. SUFFICES ASSUME IInv, at = "returned"
               PROVE  U!Listings = {words} /\ count = Cardinality(Found)
  BY DEF Final
<1>2. StartStrings = Found
  BY <1>1, StringsAreFound DEF IInv, CountOK
<1>3. /\ words \in Seq(String) /\ count = Len(words) /\ Increasing(words)
      /\ { words[k] : k \in 1 .. Len(words) } = Found
  BY <1>1, <1>2 DEF IInv, ResultOK, String
<1> DEFINE S == Found
<1>4. /\ Cardinality(S) = Len(words)
      /\ { s \in [1 .. Cardinality(S) -> S] :
             \A j, k \in DOMAIN s : j < k => Less(s[j], s[k]) } = {words}
  <2> HIDE DEF S
  <2>1. QED
    BY <1>3, ListingIs DEF S
<1>5. U!Listings = { s \in [1 .. Cardinality(S) -> S] :
                       \A j, k \in DOMAIN s : j < k => Less(s[j], s[k]) }
  BY SameCardinality DEF U!Listings, U!Less, Less
<1>6. QED
  BY <1>3, <1>4, <1>5

\* WordList implements UniqueWords, what main is written against: it returns once, with
\* every string it finds in order, or it ends the process.  Of a terminated document the
\* strings are the words; of another the last word runs on to the next NUL.
THEOREM WordListImplementsUniqueWords == Spec => U!Spec
<1>1. Spec => [](IInv /\ Final)
  BY WordListInvariance, FinalHolds, PTL
<1>2. Init => U!Init
  BY DEF Init, U!Init
<1>3. IInv /\ Final' /\ [Next]_vars =>
        [U!Return]_<<Found, IF at = "returned" THEN words ELSE <<>>,
                     IF at = "returned" THEN count ELSE 0, (at = "returned")>>
  <2>1. SUFFICES ASSUME IInv, Final', [Next]_vars
                 PROVE  [U!Return]_<<Found, IF at = "returned" THEN words ELSE <<>>,
                                     IF at = "returned" THEN count ELSE 0, (at = "returned")>>
    OBVIOUS
  <2>2. Found' = Found
    BY <2>1, DocumentStays
  <2>3. CASE at # "returned" /\ at' = "returned"
    <3>1. words' \in U!Listings' /\ count' = Cardinality(Found')
      BY <2>1, <2>3 DEF Final
    <3>2. U!Listings' = U!Listings
      BY <2>2 DEF U!Listings, U!Less, Less
    <3>3. QED
      BY <2>2, <2>3, <3>1, <3>2, SameCardinality DEF U!Return
  <2>4. CASE at = "returned" /\ at' = "returned"
    <3>1. UNCHANGED vars
      BY <2>1, <2>4 DEF Next, Enter, Count, Allocate, Locate, Sort, Unique, UniqueDone, Size,
                        AllocateBlock, Pack, Return, Ended
    <3>2. QED
      BY <2>2, <2>4, <3>1 DEF vars, results
  <2>5. CASE at' # "returned"
    <3>1. at # "returned"
      BY <2>1, <2>5 DEF Next, vars, Enter, Count, Allocate, Locate, Sort, Unique, UniqueDone,
                        Size, AllocateBlock, Pack, Return, Ended
    <3>2. QED
      BY <2>2, <2>5, <3>1
  <2>6. QED
    BY <2>3, <2>4, <2>5
<1>4. QED
  BY <1>1, <1>2, <1>3, PTL DEF Spec, U!Spec

(***************************************************************************)
(* The baseline.                                                           *)
(***************************************************************************)
\* A document whose every word has a separator has room for them.
LEMMA Fits ==
  ASSUME NEW c \in Nat, NEW n \in Nat, 2 * c <= n
  PROVE  c <= n \div 2
  OBVIOUS

LEMMA BaseInitHolds == BaseInit => BaseInv
<1> SUFFICES ASSUME BaseInit PROVE BaseInv
  OBVIOUS
<1>1. /\ doc_len \in Nat /\ at = "called" /\ words = <<>> /\ i = 0 /\ is_prev_valid = FALSE
  BY DocumentAssumption DEF BaseInit
<1>2. PICK d \in [0 .. (doc_len - 1) -> Bytes] :
        /\ (~MayEndInWord /\ doc_len > 0) => ~isalnum(d[doc_len - 1])
        /\ memory = [p \in 0 .. doc_len |-> IF p < doc_len THEN d[p] ELSE NUL]
  BY DEF BaseInit
<1>3. memory \in [0 .. doc_len -> 0 .. 255] /\ memory[doc_len] = NUL
  <2>1. Bytes \subseteq 0 .. 255
    BY DocumentAssumption, LettersAssumption DEF Bytes, NUL
  <2>2. \A p \in 0 .. doc_len : p < doc_len => p \in 0 .. (doc_len - 1)
    BY <1>1
  <2>3. doc_len \in 0 .. doc_len /\ ~(doc_len < doc_len)
    BY <1>1
  <2>4. QED
    BY <1>2, <2>1, <2>2, <2>3, NoLetterIsNul
<1>4. MemoryOK /\ Terminated
  <2>1. doc_len \in DOMAIN memory /\ doc_len >= doc_len
    BY <1>1, <1>3
  <2>2. QED
    BY <1>3, <2>1 DEF MemoryOK, Terminated
<1>5. ScanOK
  <2>1. StartsBefore(0) = {} /\ Cardinality({}) = 0
    BY <1>1, StartsFinite, FS_EmptySet
  <2>2. ~Letter(0 - 1)
    BY DEF Letter
  <2>3. words \in Seq(0 .. (doc_len - 1)) /\ Len(words) = 0 /\ { words[k] : k \in DOMAIN words } = {}
    BY <1>1
  <2>4. TerminatedBefore(0)
    BY DEF TerminatedBefore
  <2>5. 2 * Len(words) <= i + (IF is_prev_valid THEN 1 ELSE 0)
    BY <1>1, <2>3
  <2>6. i \in 0 .. doc_len
    BY <1>1
  <2>7. QED
    BY <1>1, <2>1, <2>2, <2>3, <2>4, <2>5, <2>6 DEF ScanOK
<1>6. ~MayEndInWord => ~Letter(doc_len - 1) /\ WordsFit
  <2>1. ASSUME ~MayEndInWord, Letter(doc_len - 1) PROVE FALSE
    <3>1. doc_len - 1 \in 0 .. (doc_len - 1) /\ isalnum(memory[doc_len - 1])
      BY <2>1 DEF Letter
    <3>2. doc_len > 0 /\ doc_len - 1 \in 0 .. doc_len /\ doc_len - 1 < doc_len
      BY <1>1, <3>1
    <3>3. memory[doc_len - 1] = d[doc_len - 1]
      BY <1>2, <3>2
    <3>4. QED
      BY <1>2, <2>1, <3>1, <3>2, <3>3
  <2>2. WordsFit
    BY <1>1 DEF WordsFit
  <2>3. QED
    BY <2>1, <2>2
<1>7. QED
  BY <1>1, <1>4, <1>5, <1>6 DEF BaseInv

\* A step that leaves the document alone.
LEMMA BaseSameDocument ==
  ASSUME memory' = memory, doc_len' = doc_len
  PROVE  /\ MemoryOK => MemoryOK'
         /\ Terminated => Terminated'
         /\ Letter(doc_len - 1)' <=> Letter(doc_len - 1)
         /\ DocWords' = DocWords /\ max_words' = max_words
BY DEF MemoryOK, Terminated, Letter, DocWords, max_words

LEMMA BaseCallKeeps ==
  ASSUME BaseInv, WordListBaseLine
  PROVE  BaseInv'
<1>1. /\ at = "called" /\ at' = "scanning" /\ words' = <<>> /\ words = <<>>
      /\ UNCHANGED <<memory, doc_len, i, is_prev_valid>> /\ doc_len \in Nat
  BY DEF WordListBaseLine, BaseInv
<1>2. ScanOK'
  <2>1. ScanOK
    BY <1>1 DEF BaseInv
  <2>2. QED
    BY <1>1, <2>1 DEF ScanOK, Letter, StartsBefore, Starts, TerminatedBefore
<1>3. WordsFit'
  <2>1. 0 <= doc_len \div 2 /\ Len(<<>>) = 0
    BY <1>1
  <2>2. QED
    BY <1>1, <2>1 DEF WordsFit, max_words
<1>4. QED
  BY <1>1, <1>2, <1>3, BaseSameDocument DEF BaseInv

\* A word that starts has used up a letter, and one that ends a separator.
LEMMA ScanKeeps ==
  ASSUME BaseInv, Scan
  PROVE  BaseInv' /\ DocWords' = DocWords
<1>1. /\ at = "scanning" /\ at' \in {"scanning", "overrun"} /\ i < doc_len /\ i' = i + 1
      /\ doc_len' = doc_len
      /\ is_prev_valid' = isalnum(memory[i])
      /\ words' = IF isalnum(memory[i]) /\ ~is_prev_valid THEN Append(words, i) ELSE words
      /\ memory' = IF ~isalnum(memory[i]) /\ is_prev_valid THEN Terminate(i) ELSE memory
  BY DEF Scan
<1>2. /\ doc_len \in Nat /\ MemoryOK /\ Terminated /\ i \in 0 .. (doc_len - 1) /\ i \in Int
      /\ is_prev_valid \in BOOLEAN /\ (is_prev_valid <=> Letter(i - 1))
      /\ words \in Seq(0 .. (doc_len - 1)) /\ Len(words) = Cardinality(StartsBefore(i))
      /\ { words[k] : k \in DOMAIN words } = StartsBefore(i)
      /\ TerminatedBefore(i)
      /\ 2 * Len(words) <= i + (IF is_prev_valid THEN 1 ELSE 0)
  BY <1>1 DEF BaseInv, ScanOK
<1>3. memory' = memory \/ (~isalnum(memory[i]) /\ memory' = Terminate(i))
  BY <1>1
<1>4. /\ MemoryOK' /\ Starts' = Starts /\ \A p \in Int : Letter(p)' <=> Letter(p)
  BY <1>1, <1>2, <1>3, TerminateKeepsLetters
<1>5. DocWords' = DocWords /\ Terminated'
  BY <1>1, <1>2, <1>3, SameWords
<1>6. TerminatedBefore(i)'
  <2>1. Letter(i - 1) /\ ~Letter(i) => memory' = Terminate(i)
    BY <1>1, <1>2 DEF Letter
  <2>2. QED
    BY <1>1, <1>2, <1>3, <2>1, TerminatedFurther
<1>7. is_prev_valid' \in BOOLEAN /\ (is_prev_valid' <=> Letter(i))
  <2>1. is_prev_valid' \in BOOLEAN
    BY <1>1 DEF isalnum
  <2>2. is_prev_valid' <=> Letter(i)
    BY <1>1, <1>2 DEF Letter
  <2>3. QED
    BY <2>1, <2>2
<1>8. Letter(i - 1)' <=> Letter(i)
  <2>1. i' - 1 = i
    BY <1>1, <1>2
  <2>2. Letter(i - 1)' <=> (i \in 0 .. (doc_len' - 1) /\ isalnum(memory'[i]))
    BY <2>1 DEF Letter
  <2>3. (i \in 0 .. (doc_len' - 1) /\ isalnum(memory'[i])) <=> Letter(i)
    BY <1>2, <1>4 DEF Letter
  <2>4. QED
    BY <2>2, <2>3
<1>9. StartsBefore(i)' = StartsBefore(i + 1)
  BY <1>1, <1>4 DEF StartsBefore
<1>10. /\ words' \in Seq(0 .. (doc_len - 1)) /\ Len(words') = Cardinality(StartsBefore(i + 1))
       /\ { words'[k] : k \in DOMAIN words' } = StartsBefore(i + 1)
       /\ Len(words') = IF isalnum(memory[i]) /\ ~is_prev_valid THEN Len(words) + 1 ELSE Len(words)
  <2>1. CASE ~(isalnum(memory[i]) /\ ~is_prev_valid)
    BY <1>1, <1>2, <2>1, StartHere
  <2>2. CASE isalnum(memory[i]) /\ ~is_prev_valid
    <3> DEFINE S == 0 .. (doc_len - 1)
    <3>1. words' = Append(words, i) /\ words \in Seq(S) /\ i \in S
      BY <1>1, <1>2, <2>2
    <3>2. /\ StartsBefore(i + 1) = StartsBefore(i) \cup {i}
          /\ Cardinality(StartsBefore(i + 1)) = Cardinality(StartsBefore(i)) + 1
      BY <1>2, <2>2, StartHere
    <3> HIDE DEF S
    <3>3. /\ words' \in Seq(S) /\ Len(words') = Len(words) + 1
          /\ { words'[k] : k \in DOMAIN words' } = { words[k] : k \in DOMAIN words } \cup {i}
      BY <3>1, OneMoreElement
    <3>4. QED
      BY <1>2, <2>2, <3>2, <3>3 DEF S
  <2>3. QED
    BY <2>1, <2>2
<1>11. Len(words) \in Nat /\ Len(words') \in Nat
  BY <1>2, <1>10, LenProperties
<1>12. 2 * Len(words') <= i' + (IF is_prev_valid' THEN 1 ELSE 0)
  BY <1>1, <1>2, <1>10, <1>11
<1>13. ScanOK'
  <2>1. i' \in 0 .. doc_len'
    BY <1>1, <1>2
  <2>2. QED
    BY <1>1, <1>6, <1>7, <1>8, <1>9, <1>10, <1>12, <2>1 DEF ScanOK
<1>14. ~MayEndInWord => ~Letter(doc_len - 1)' /\ WordsFit'
  <2>1. SUFFICES ASSUME ~MayEndInWord PROVE ~Letter(doc_len - 1)' /\ WordsFit'
    OBVIOUS
  <2>2. ~Letter(doc_len - 1) /\ doc_len - 1 \in Int
    BY <1>2, <2>1 DEF BaseInv
  <2>3. ~Letter(doc_len - 1)'
    BY <1>1, <1>4, <2>2 DEF Letter
  <2>4. is_prev_valid' => i + 2 <= doc_len
    <3>1. is_prev_valid' => i # doc_len - 1
      BY <1>7, <2>2
    <3>2. i # doc_len - 1 => i + 2 <= doc_len
      BY <1>2
    <3>3. QED
      BY <3>1, <3>2
  <2>5. 2 * Len(words') <= doc_len
    BY <1>1, <1>2, <1>11, <1>12, <2>4
  <2>6. QED
    BY <1>1, <1>2, <1>11, <2>3, <2>5, Fits DEF WordsFit, max_words
<1>15. QED
  BY <1>1, <1>2, <1>4, <1>5, <1>13, <1>14 DEF BaseInv

\* The words that are left are a listing of the document, and no more than were found.
LEMMA SortUniqueReturns ==
  ASSUME BaseInv, SortUnique
  PROVE  /\ memory' = memory /\ doc_len' = doc_len /\ at' = "returned"
         /\ Len(words') \in Nat /\ Len(words) \in Nat /\ Len(words') <= Len(words)
         /\ Len(words') = Cardinality(DocWords)
         /\ Strs' \in { s \in [1 .. Cardinality(DocWords) -> DocWords] :
                          \A j, k \in DOMAIN s : j < k => Less(s[j], s[k]) }
<1>1. /\ at = "scanning" /\ i >= doc_len /\ at' = "returned" /\ memory' = memory /\ doc_len' = doc_len
      /\ \A k \in 2 .. Len(words') : Less(StringAt(memory, words'[k - 1]), StringAt(memory, words'[k]))
  BY DEF SortUnique
<1>2. /\ doc_len \in Nat /\ MemoryOK /\ Terminated /\ i = doc_len
      /\ words \in Seq(0 .. (doc_len - 1)) /\ Len(words) = Cardinality(StartsBefore(doc_len))
      /\ { words[k] : k \in DOMAIN words } = StartsBefore(doc_len)
      /\ TerminatedBefore(doc_len)
  BY <1>1 DEF BaseInv, ScanOK
<1>3. /\ Len(words) = Cardinality(Starts) /\ Len(words) \in Nat /\ IsFiniteSet(Starts)
      /\ { words[k] : k \in 1 .. Len(words) } = Starts
  BY <1>2, StartsFinite, LenProperties
<1>4. StartStrings = DocWords
  BY <1>2, StringsAreWords
<1> DEFINE n == Cardinality(DocWords)
<1>5. PICK chosen \in SUBSET Starts :
        /\ {StringAt(memory, p) : p \in chosen} = DocWords
        /\ words' \in [1 .. n -> chosen]
  BY <1>3, <1>4 DEF SortUnique, StartStrings
<1>6. n \in Nat /\ n <= Cardinality(Starts)
  <2> DEFINE f == [p \in Starts |-> StringAt(memory, p)]
  <2>1. f \in Surjection(Starts, DocWords)
    BY <1>4 DEF StartStrings, Surjection
  <2> HIDE DEF f
  <2>2. IsFiniteSet(DocWords) /\ Cardinality(DocWords) <= Cardinality(Starts)
    BY <1>3, <2>1, FS_Surjection
  <2>3. QED
    BY <2>2, FS_CardinalityType
<1> HIDE DEF n
<1>7. Len(words') = n
  <2>1. words' \in Seq(chosen)
    BY <1>5, <1>6, SeqDef
  <2>2. DOMAIN words' = 1 .. n
    BY <1>5
  <2>3. QED
    BY <1>6, <2>1, <2>2, LenProperties
<1> DEFINE s == [k \in 1 .. n |-> StringAt(memory, words'[k])]
<1>8. \A k \in 1 .. n : s[k] \in DocWords /\ s[k] \in String
  <2>1. TAKE k \in 1 .. n
  <2>2. words'[k] \in chosen /\ words'[k] \in Starts
    BY <1>5
  <2>3. words'[k] \in 0 .. (doc_len - 1)
    BY <2>2 DEF Starts
  <2>4. QED
    BY <1>2, <1>5, <2>2, <2>3, DocumentStrings
<1>9. s \in Seq(String) /\ Len(s) = n /\ DOMAIN s = 1 .. n /\ s \in [1 .. n -> DocWords]
  <2>1. s \in [1 .. n -> String] /\ s \in [1 .. n -> DocWords]
    BY <1>8
  <2> HIDE DEF s
  <2>2. s \in Seq(String)
    BY <1>6, <2>1, SeqDef
  <2>3. QED
    BY <1>6, <2>1, <2>2, LenProperties
<1>10. Increasing(s)
  <2>1. SUFFICES ASSUME NEW k \in 1 .. (n - 1) PROVE Less(s[k], s[k + 1])
    BY <1>9 DEF Increasing
  <2>2. k + 1 \in 2 .. n /\ (k + 1) - 1 = k /\ k \in 1 .. n /\ k + 1 \in 1 .. n
    BY <1>6
  <2>3. QED
    BY <1>1, <1>7, <2>2
<1>11. Strs' = s
  BY <1>1, <1>7 DEF Strs
<1> HIDE DEF s
<1>12. \A j, k \in 1 .. n : j < k => Less(s[j], s[k])
  BY <1>9, <1>10, AllIncrease
<1>13. QED
  BY <1>1, <1>3, <1>6, <1>7, <1>9, <1>11, <1>12 DEF n

LEMMA SortUniqueKeeps ==
  ASSUME BaseInv, SortUnique
  PROVE  BaseInv'
<1>1. /\ memory' = memory /\ doc_len' = doc_len /\ at' = "returned" /\ at = "scanning"
      /\ Len(words') \in Nat /\ Len(words) \in Nat /\ Len(words') <= Len(words)
  BY SortUniqueReturns DEF SortUnique
<1>2. /\ doc_len' \in Nat /\ MemoryOK' /\ Terminated'
      /\ Letter(doc_len - 1)' <=> Letter(doc_len - 1)
      /\ max_words' = max_words
  BY <1>1, BaseSameDocument DEF BaseInv
<1>3. WordsFit => WordsFit'
  <2>1. SUFFICES ASSUME Len(words) <= max_words PROVE Len(words') <= max_words
    BY <1>1, <1>2 DEF WordsFit
  <2>2. max_words \in Int
    BY DEF BaseInv, max_words
  <2>3. QED
    BY <1>1, <2>1, <2>2
<1>4. QED
  BY <1>1, <1>2, <1>3 DEF BaseInv

LEMMA BaseStutterKeeps ==
  ASSUME BaseInv, UNCHANGED base_vars
  PROVE  BaseInv'
<1>1. UNCHANGED <<memory, doc_len, words, at, i, is_prev_valid>>
  BY DEF base_vars
<1>2. ScanOK => ScanOK'
  BY <1>1 DEF ScanOK, Letter, StartsBefore, Starts, TerminatedBefore
<1>3. QED
  BY <1>1, <1>2, BaseSameDocument DEF BaseInv, WordsFit

\* The invariant of the baseline's scan: the pointers are the starts of the words so far,
\* which are terminated and have used up two bytes each.
THEOREM BaselineInvariance == BaseSpec => []BaseInv
<1>1. BaseInv /\ [BaseNext]_base_vars => BaseInv'
  BY BaseCallKeeps, ScanKeeps, SortUniqueKeeps, BaseStutterKeeps DEF BaseNext, Returned
<1>2. QED
  BY <1>1, BaseInitHolds, PTL DEF BaseSpec

\* WordsFit: max_words is enough for every document that does not end in a letter.
THEOREM ArrayIsLargeEnough ==
  ASSUME ~MayEndInWord PROVE BaseSpec => []WordsFit
<1>1. BaseInv => WordsFit
  BY DEF BaseInv
<1>2. QED
  BY <1>1, BaselineInvariance, PTL

\* WordListBaseLine implements UniqueWords as WordList does, so that the two builds of
\* the program agree: on every document that does not end in a letter, whose words its
\* array has room for.
THEOREM BaselineImplementsUniqueWords ==
  ASSUME ~MayEndInWord PROVE BaseSpec => BU!Spec
<1>1. BaseInit => BU!Init
  BY DEF BaseInit, BU!Init
<1>2. BaseInv /\ [BaseNext]_base_vars =>
        [BU!Return]_<<DocWords, IF at = "returned" THEN Strs ELSE <<>>,
                     IF at = "returned" THEN Len(words) ELSE 0, (at = "returned")>>
  <2>1. SUFFICES ASSUME BaseInv, [BaseNext]_base_vars
                 PROVE  [BU!Return]_<<DocWords, IF at = "returned" THEN Strs ELSE <<>>,
                                     IF at = "returned" THEN Len(words) ELSE 0, (at = "returned")>>
    OBVIOUS
  <2>2. CASE WordListBaseLine \/ Scan
    <3>1. DocWords' = DocWords /\ at # "returned" /\ at' # "returned"
      BY <2>1, <2>2, ScanKeeps, BaseSameDocument DEF WordListBaseLine, Scan
    <3>2. QED
      BY <3>1
  <2>3. CASE SortUnique
    <3>1. /\ memory' = memory /\ doc_len' = doc_len /\ at' = "returned" /\ at = "scanning"
          /\ Len(words') = Cardinality(DocWords)
          /\ Strs' \in { s \in [1 .. Cardinality(DocWords) -> DocWords] :
                           \A j, k \in DOMAIN s : j < k => Less(s[j], s[k]) }
      BY <2>1, <2>3, SortUniqueReturns DEF SortUnique
    <3>2. BU!Cardinality(DocWords) = Cardinality(DocWords)
      BY DEF BU!Cardinality, Cardinality
    <3>3. BU!Listings = { s \in [1 .. Cardinality(DocWords) -> DocWords] :
                           \A j, k \in DOMAIN s : j < k => Less(s[j], s[k]) }
      BY <3>2 DEF BU!Listings, BU!Less, Less
    <3>4. DocWords' = DocWords
      BY <3>1, BaseSameDocument
    <3>5. QED
      BY <3>1, <3>2, <3>3, <3>4 DEF BU!Return
  <2>4. CASE UNCHANGED base_vars
    <3>1. UNCHANGED <<memory, doc_len, words, at>>
      BY <2>4 DEF base_vars
    <3>2. Strs' = Strs /\ DocWords' = DocWords
      BY <3>1, BaseSameDocument DEF Strs
    <3>3. QED
      BY <3>1, <3>2
  <2>5. QED
    BY <2>1, <2>2, <2>3, <2>4 DEF BaseNext, Returned
<1>3. QED
  BY <1>1, <1>2, BaselineInvariance, PTL DEF BaseSpec, BU!Spec
==============================================================================
