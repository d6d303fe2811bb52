---------------------------- MODULE DriverProofs -----------------------------
(***************************************************************************)
(* Theorems about Driver and its parts, LoadFile and SaveWords: for input  *)
(* files of every content and size, however often they are rewritten, for  *)
(* every width of doc_len and of the hash, every size of the write buffer, *)
(* words of every length, and any number of runs.                          *)
(***************************************************************************)
EXTENDS Driver, SequenceTheorems, FiniteSetTheorems, TLAPS

(***************************************************************************)
(* Induction up to m for a set: how many numbers have nothing but members  *)
(* below them tells that it is all of them.                                *)
(***************************************************************************)
LEMMA UpTo ==
  ASSUME NEW m \in Nat, NEW S, 0 \in S,
         \A k \in 0 .. (m - 1) : k \in S => k + 1 \in S
  PROVE  0 .. m \subseteq S
<1> DEFINE G == {k \in 0 .. m : \A j \in 0 .. k : j \in S}
           c == Cardinality(G)
<1>1. IsFiniteSet(0 .. m) /\ Cardinality(0 .. m) = m + 1
  BY FS_Interval
<1>2. IsFiniteSet(G) /\ c \in Nat /\ G \subseteq 0 .. m
  BY <1>1, FS_Subset, FS_CardinalityType
<1>3. \A k \in G : \A j \in 0 .. k : j \in G
  OBVIOUS
<1>4. 0 \in G
  OBVIOUS
<1>5. \A k \in G : k + 1 <= m => k + 1 \in G
  <2>1. TAKE k \in G
  <2>2. HAVE k + 1 <= m
  <2>3. k \in 0 .. (m - 1) /\ k \in S /\ \A j \in 0 .. k : j \in S
    BY <2>2
  <2>4. k + 1 \in S
    BY <2>3
  <2>5. \A j \in 0 .. (k + 1) : j \in 0 .. k \/ j = k + 1
    BY <2>3
  <2>6. QED
    BY <2>2, <2>3, <2>4, <2>5
<1> HIDE DEF G
<1>6. c \notin G
  <2>1. SUFFICES ASSUME c \in G PROVE FALSE
    OBVIOUS
  <2>2. 0 .. c \subseteq G
    BY <1>3, <2>1
  <2>3. Cardinality(0 .. c) = c + 1 /\ IsFiniteSet(0 .. c)
    BY <1>2, FS_Interval
  <2>4. Cardinality(0 .. c) <= Cardinality(G)
    BY <1>2, <2>2, FS_Subset
  <2>5. QED
    BY <1>2, <2>3, <2>4
<1>7. c # 0
  BY <1>2, <1>4, FS_EmptySet
<1>8. c - 1 \in G
  <2>1. SUFFICES ASSUME c - 1 \notin G PROVE FALSE
    OBVIOUS
  <2>2. \A k \in G : k \in 0 .. (c - 2)
    BY <1>2, <1>3, <1>7, <2>1
  <2> DEFINE d == c - 2
  <2>3. d \in Int /\ G \subseteq 0 .. d
    BY <1>2, <2>2
  <2>4. Cardinality(0 .. d) = (IF 0 > d THEN 0 ELSE d - 0 + 1) /\ IsFiniteSet(0 .. d)
    BY <2>3, FS_Interval
  <2>5. c <= Cardinality(0 .. d)
    BY <2>3, <2>4, FS_Subset
  <2>6. QED
    BY <1>2, <1>7, <2>4, <2>5
<1>9. ~(c <= m)
  BY <1>2, <1>5, <1>6, <1>7, <1>8
<1>10. m \in G
  BY <1>2, <1>8, <1>9
<1>11. QED
  BY <1>10 DEF G

\* The least member of a set of numbers.
LEMMA Least ==
  ASSUME NEW S, NEW l \in Int, NEW m \in Int, m \in S, \A q \in S : q \in Int /\ l <= q
  PROVE  \E x \in S : \A y \in S : x <= y
<1>1. SUFFICES ASSUME \A x \in S : \E y \in S : ~(x <= y) PROVE FALSE
  OBVIOUS
<1> DEFINE B == { k \in Nat : \A q \in S : l + k <= q }
           d == m - l
<1>2. d \in Nat /\ l + d = m
  OBVIOUS
<1>3. 0 \in B
  OBVIOUS
<1>4. \A k \in 0 .. (d - 1) : k \in B => k + 1 \in B
  <2>1. SUFFICES ASSUME NEW k \in 0 .. (d - 1), k \in B PROVE k + 1 \in B
    OBVIOUS
  <2>2. \A q \in S : q # l + k
    BY <1>1, <2>1
  <2>3. QED
    BY <2>1, <2>2, <1>2
<1>5. d \in B
  <2> HIDE DEF B, d
  <2>1. 0 .. d \subseteq B
    BY <1>2, <1>3, <1>4, UpTo
  <2>2. QED
    BY <1>2, <2>1
<1>6. \E y \in S : ~(m <= y)
  BY <1>1
<1>7. QED
  BY <1>2, <1>5, <1>6

\* Two functions that take the same steps from the same beginning agree.
Lockstep(f, g, n) ==
  /\ f[0] = g[0]
  /\ \A k \in 0 .. (n - 1) : f[k] = g[k] => f[k + 1] = g[k + 1]

LEMMA SameSteps ==
  ASSUME NEW n \in Nat, NEW f, NEW g, Lockstep(f, g, n)
  PROVE  \A k \in 0 .. n : f[k] = g[k]
<1> DEFINE S == { k \in Nat : f[k] = g[k] }
<1>1. 0 \in S /\ \A k \in 0 .. (n - 1) : k \in S => k + 1 \in S
  BY DEF Lockstep
<1> HIDE DEF S
<1>2. 0 .. n \subseteq S
  BY <1>1, UpTo
<1> QED
  BY <1>2 DEF S

\* There is a function for every beginning and every step.
Follows(f, n, base, step) == f[0] = base /\ \A k \in 1 .. n : f[k] = step[<<k, f[k - 1]>>]

LEMMA Recursion ==
  ASSUME NEW n \in Nat, NEW R, NEW base \in R, NEW step \in [(1 .. n) \X R -> R]
  PROVE  \E f \in [0 .. n -> R] : Follows(f, n, base, step)
<1> DEFINE Takes(f, m) == f[0] = base /\ \A k \in 1 .. m : f[k] = step[<<k, f[k - 1]>>]
           S == { m \in Nat : m <= n => \E f \in [0 .. m -> R] : Takes(f, m) }
<1>1. 0 \in S
  <2> DEFINE f == [k \in 0 .. 0 |-> base]
  <2>1. f \in [0 .. 0 -> R] /\ Takes(f, 0)
    OBVIOUS
  <2> QED
    BY <2>1
<1>2. ASSUME NEW m \in 0 .. (n - 1), m \in S PROVE m + 1 \in S
  <2>1. PICK f \in [0 .. m -> R] : Takes(f, m)
    BY <1>2
  <2> DEFINE e == step[<<m + 1, f[m]>>]
             g == [k \in 0 .. (m + 1) |-> IF k = m + 1 THEN e ELSE f[k]]
  <2>2. m \in Nat /\ m + 1 \in 1 .. n /\ f[m] \in R
    OBVIOUS
  <2>3. e \in R
    BY <2>2
  <2> HIDE DEF e
  <2>4. /\ g \in [0 .. (m + 1) -> R] /\ g[m + 1] = e
        /\ \A k \in 0 .. m : g[k] = f[k]
    BY <2>2, <2>3
  <2> HIDE DEF g
  <2>5. g[0] = base
    BY <2>1, <2>2, <2>4
  <2>6. ASSUME NEW k \in 1 .. (m + 1) PROVE g[k] = step[<<k, g[k - 1]>>]
    <3>1. k - 1 \in 0 .. m /\ g[k - 1] = f[k - 1]
      BY <2>2, <2>4
    <3>2. CASE k = m + 1
      <4>1. k - 1 = m
        BY <2>2, <3>2
      <4> QED
        BY <2>4, <3>1, <3>2, <4>1 DEF e
    <3>3. CASE k # m + 1
      <4>1. k \in 1 .. m /\ k \in 0 .. m
        BY <2>2, <3>3
      <4> QED
        BY <2>1, <2>4, <3>1, <4>1
    <3> QED
      BY <3>2, <3>3
  <2>7. Takes(g, m + 1)
    BY <2>5, <2>6
  <2> HIDE DEF Takes
  <2> QED
    BY <2>2, <2>4, <2>7
<1>3. n \in 0 .. n /\ 0 .. n \subseteq S
  <2> HIDE DEF S
  <2> QED
    BY <1>1, <1>2, UpTo
<1> QED
  BY <1>3 DEF Follows

(***************************************************************************)
(* The hash.                                                               *)
(***************************************************************************)
SizeT == 0 .. (2 ^ HashBits - 1)

LEMMA HashWidth ==
  /\ Modulus \in Nat \ {0} /\ Modulus <= 2 ^ HashBits
  /\ 0 .. (Modulus - 1) \subseteq SizeT /\ FNV_OFFSET_BASIS \in SizeT
  /\ \A h \in SizeT : h % Modulus \in 0 .. (Modulus - 1)
<1> DEFINE K == 2 ^ HashBits
<1>1. K \in Nat \ {0} /\ Modulus = (K - 1) \div 2 /\ FNV_OFFSET_BASIS \in 0 .. (Modulus - 1)
  BY HashAssumption, SaveWordsAssumption DEF Modulus
<1> HIDE DEF K
<1>2. Modulus \in Int /\ Modulus <= K
  BY <1>1
<1>3. Modulus \in Nat \ {0}
  BY <1>1, <1>2
<1>4. SizeT = 0 .. (K - 1)
  BY DEF SizeT, K
<1>5. 0 .. (Modulus - 1) \subseteq 0 .. (K - 1)
  BY <1>1, <1>2
<1>6. \A h \in 0 .. (K - 1) : h % Modulus \in 0 .. (Modulus - 1)
  <2> DEFINE M == Modulus
  <2>1. M \in Nat \ {0}
    BY <1>3
  <2> HIDE DEF M
  <2>2. \A h \in Nat : h % M \in 0 .. (M - 1)
    BY <2>1
  <2> QED
    BY <1>1, <2>2 DEF M
<1> QED
  BY <1>1, <1>2, <1>3, <1>4, <1>5, <1>6 DEF K

LEMMA MixType ==
  ASSUME NEW h \in SizeT, NEW byte \in 0 .. 255
  PROVE  Mix(h, byte) \in SizeT
<1> DEFINE K == 2 ^ HashBits
           x == XOR(h, byte) * FNV_PRIME
<1>1. K \in Nat \ {0} /\ XOR(h, byte) \in Nat /\ FNV_PRIME \in Nat
  BY HashAssumption, SaveWordsAssumption DEF SizeT
<1>2. x \in Nat
  BY <1>1
<1> HIDE DEF K, x
<1>3. x % K \in 0 .. (K - 1)
  BY <1>1, <1>2
<1> QED
  BY <1>3 DEF Mix, SizeT, K, x

\* Hash goes through the letters of a word.
LEMMA HashSteps ==
  ASSUME NEW w \in Seq(0 .. 255), NEW v \in SizeT
  PROVE  \E h \in [0 .. Len(w) -> SizeT] :
           /\ h[0] = v
           /\ \A k \in 1 .. Len(w) : h[k] = Mix(h[k - 1], w[k])
           /\ Hash(v, w) = h[Len(w)] % Modulus
<1> DEFINE n == Len(w)
           step == [p \in (1 .. n) \X SizeT |-> Mix(p[2], w[p[1]])]
           Body(f) == f = [k \in 0 .. n |-> IF k = 0 THEN v ELSE Mix(f[k - 1], w[k])]
           h == CHOOSE f : Body(f)
<1>1. n \in Nat /\ \A k \in 1 .. n : w[k] \in 0 .. 255
  BY LenProperties, ElementOfSeq
<1>2. Hash(v, w) = h[Len(w)] % Modulus
  BY DEF Hash
<1> HIDE DEF n
<1>3. step \in [(1 .. n) \X SizeT -> SizeT]
  BY <1>1, MixType
<1>4. \A k \in 1 .. n, x \in SizeT : step[<<k, x>>] = Mix(x, w[k])
  OBVIOUS
<1> HIDE DEF step
<1>5. PICK f \in [0 .. n -> SizeT] : Follows(f, n, v, step)
  BY <1>1, <1>3, Recursion
<1>6. f[0] = v /\ \A k \in 1 .. n : f[k] = Mix(f[k - 1], w[k])
  <2>1. \A k \in 1 .. n : k - 1 \in 0 .. n
    BY <1>1
  <2> QED
    BY <1>4, <1>5, <2>1 DEF Follows
<1>7. Body(f)
  BY <1>1, <1>6
<1>8. Body(h)
  BY <1>7
<1> HIDE DEF h
<1>9. h[0] = v /\ \A k \in 1 .. n : h[k] = Mix(h[k - 1], w[k])
  BY <1>1, <1>8
<1>10. Lockstep(h, f, n)
  <2>1. SUFFICES ASSUME NEW k \in 0 .. (n - 1), h[k] = f[k] PROVE h[k + 1] = f[k + 1]
    BY <1>6, <1>9 DEF Lockstep
  <2>2. k + 1 \in 1 .. n /\ (k + 1) - 1 = k
    BY <1>1
  <2> QED
    BY <1>6, <1>9, <2>1, <2>2
<1>11. \A k \in 0 .. n : h[k] = f[k]
  BY <1>1, <1>10, SameSteps
<1>12. h \in [0 .. n -> SizeT]
  BY <1>5, <1>8, <1>11
<1> QED
  BY <1>2, <1>9, <1>12 DEF n

\* What HashOf makes of a byte.
ByteStep(h, byte) == IF byte = LF THEN h % Modulus ELSE Mix(h, byte)

LEMMA ByteStepType ==
  ASSUME NEW h \in SizeT, NEW byte \in 0 .. 255
  PROVE  ByteStep(h, byte) \in SizeT
BY HashWidth, MixType DEF ByteStep

LEMMA HashOfSteps ==
  ASSUME NEW s \in Seq(0 .. 255)
  PROVE  \E h \in [0 .. Len(s) -> SizeT] :
           /\ h[0] = FNV_OFFSET_BASIS
           /\ \A k \in 1 .. Len(s) : h[k] = ByteStep(h[k - 1], s[k])
           /\ HashOf(s) = h[Len(s)]
<1> DEFINE n == Len(s)
           step == [p \in (1 .. n) \X SizeT |-> ByteStep(p[2], s[p[1]])]
           Body(f) == f = [k \in 0 .. n |-> IF k = 0 THEN FNV_OFFSET_BASIS
                                            ELSE IF s[k] = LF THEN f[k - 1] % Modulus
                                            ELSE Mix(f[k - 1], s[k])]
           h == CHOOSE f : Body(f)
<1>1. n \in Nat /\ \A k \in 1 .. n : s[k] \in 0 .. 255
  BY LenProperties, ElementOfSeq
<1>2. HashOf(s) = h[Len(s)]
  BY DEF HashOf
<1> HIDE DEF n
<1>3. step \in [(1 .. n) \X SizeT -> SizeT]
  BY <1>1, ByteStepType
<1>4. \A k \in 1 .. n, x \in SizeT : step[<<k, x>>] = ByteStep(x, s[k])
  OBVIOUS
<1> HIDE DEF step
<1>5. PICK f \in [0 .. n -> SizeT] : Follows(f, n, FNV_OFFSET_BASIS, step)
  BY <1>1, <1>3, Recursion, HashWidth
<1>6. f[0] = FNV_OFFSET_BASIS /\ \A k \in 1 .. n : f[k] = ByteStep(f[k - 1], s[k])
  <2>1. \A k \in 1 .. n : k - 1 \in 0 .. n
    BY <1>1
  <2> QED
    BY <1>4, <1>5, <2>1 DEF Follows
<1>7. Body(f)
  BY <1>1, <1>6 DEF ByteStep
<1>8. Body(h)
  BY <1>7
<1> HIDE DEF h
<1>9. h[0] = FNV_OFFSET_BASIS /\ \A k \in 1 .. n : h[k] = ByteStep(h[k - 1], s[k])
  BY <1>1, <1>8 DEF ByteStep
<1>10. Lockstep(h, f, n)
  <2>1. SUFFICES ASSUME NEW k \in 0 .. (n - 1), h[k] = f[k] PROVE h[k + 1] = f[k + 1]
    BY <1>6, <1>9 DEF Lockstep
  <2>2. k + 1 \in 1 .. n /\ (k + 1) - 1 = k
    BY <1>1
  <2> QED
    BY <1>6, <1>9, <2>1, <2>2
<1>11. \A k \in 0 .. n : h[k] = f[k]
  BY <1>1, <1>10, SameSteps
<1>12. h \in [0 .. n -> SizeT]
  BY <1>5, <1>8, <1>11
<1> QED
  BY <1>2, <1>9, <1>12 DEF n

LEMMA HashTypes ==
  ASSUME NEW w \in Seq(0 .. 255), NEW v \in SizeT
  PROVE  HashOf(w) \in SizeT /\ Hash(v, w) \in 0 .. (Modulus - 1)
<1>1. Len(w) \in 0 .. Len(w)
  BY LenProperties
<1>2. HashOf(w) \in SizeT
  BY <1>1, HashOfSteps
<1>3. PICK h \in [0 .. Len(w) -> SizeT] : Hash(v, w) = h[Len(w)] % Modulus
  BY HashSteps
<1> QED
  BY <1>1, <1>2, <1>3, HashWidth

LEMMA HashOfNothing == HashOf(<<>>) = FNV_OFFSET_BASIS
<1>1. <<>> \in Seq(0 .. 255) /\ Len(<<>>) = 0
  BY EmptySeq
<1> QED
  BY <1>1, HashOfSteps

\* A line more is a word more: what SaveWords hashes word by word can be computed from
\* the bytes of the file.
LEMMA HashOfLine ==
  ASSUME NEW s \in Seq(0 .. 255), NEW w \in Seq(0 .. 255), \A k \in 1 .. Len(w) : w[k] # LF
  PROVE  HashOf(s \o Line(w)) = Hash(HashOf(s), w)
<1> DEFINE n == Len(s)
           m == Len(w)
           b == s \o Line(w)
<1>1. n \in Nat /\ m \in Nat
  BY LenProperties
<1>2. /\ Line(w) \in Seq(0 .. 255) /\ Len(Line(w)) = m + 1 /\ Line(w)[m + 1] = LF
      /\ \A k \in 1 .. m : Line(w)[k] = w[k]
  BY AppendProperties DEF Line, LF
<1>3. /\ b \in Seq(0 .. 255) /\ Len(b) = n + m + 1
      /\ \A k \in 1 .. (n + m + 1) : b[k] = IF k <= n THEN s[k] ELSE Line(w)[k - n]
  <2> DEFINE t == Line(w)
             byte == 0 .. 255
  <2>1. s \in Seq(byte) /\ t \in Seq(byte) /\ Len(t) = m + 1
    BY <1>2
  <2> HIDE DEF t, byte
  <2>2. /\ s \o t \in Seq(byte) /\ Len(s \o t) = n + Len(t)
        /\ \A k \in 1 .. (n + Len(t)) : (s \o t)[k] = IF k <= n THEN s[k] ELSE t[k - n]
    BY <2>1, ConcatProperties
  <2>3. n + Len(t) = n + m + 1
    BY <1>1, <2>1
  <2> QED
    BY <2>2, <2>3 DEF t, byte
<1> HIDE DEF n, m, b
<1>4. PICK u \in [0 .. n -> SizeT] :
        /\ u[0] = FNV_OFFSET_BASIS
        /\ \A k \in 1 .. n : u[k] = ByteStep(u[k - 1], s[k])
        /\ HashOf(s) = u[n]
  BY HashOfSteps DEF n
<1>5. PICK h \in [0 .. (n + m + 1) -> SizeT] :
        /\ h[0] = FNV_OFFSET_BASIS
        /\ \A k \in 1 .. (n + m + 1) : h[k] = ByteStep(h[k - 1], b[k])
        /\ HashOf(b) = h[n + m + 1]
  BY <1>3, HashOfSteps
<1>6. HashOf(s) \in SizeT
  BY <1>1, <1>4
<1>7. PICK g \in [0 .. m -> SizeT] :
        /\ g[0] = HashOf(s)
        /\ \A k \in 1 .. m : g[k] = Mix(g[k - 1], w[k])
        /\ Hash(HashOf(s), w) = g[m] % Modulus
  BY <1>6, HashSteps DEF m
<1>8. \A k \in 0 .. n : h[k] = u[k]
  <2> DEFINE f == [k \in 0 .. n |-> h[k]]
  <2>1. /\ \A k \in 0 .. n : f[k] = h[k]
        /\ f[0] = u[0]
    BY <1>1, <1>4, <1>5
  <2>2. Lockstep(f, u, n)
    <3>1. SUFFICES ASSUME NEW k \in 0 .. (n - 1), f[k] = u[k] PROVE f[k + 1] = u[k + 1]
      BY <2>1 DEF Lockstep
    <3>2. /\ k \in 0 .. n /\ k + 1 \in 0 .. n /\ k + 1 \in 1 .. n /\ k + 1 \in 1 .. (n + m + 1)
          /\ (k + 1) - 1 = k
      BY <1>1
    <3>3. b[k + 1] = s[k + 1]
      BY <1>1, <1>3, <3>2
    <3>4. h[k] = u[k]
      BY <2>1, <3>1, <3>2
    <3>5. h[k + 1] = u[k + 1]
      BY <1>4, <1>5, <3>2, <3>3, <3>4
    <3> QED
      BY <2>1, <3>2, <3>5
  <2> HIDE DEF f
  <2>3. \A k \in 0 .. n : f[k] = u[k]
    BY <1>1, <2>2, SameSteps
  <2> QED
    BY <2>1, <2>3
<1>9. h[n] = HashOf(s)
  BY <1>1, <1>4, <1>8
<1> DEFINE t == [k \in 0 .. m |-> h[n + k]]
<1>10. \A k \in 0 .. m : t[k] = g[k]
  <2>1. t[0] = g[0]
    <3>1. 0 \in 0 .. m /\ n + 0 = n
      BY <1>1
    <3> QED
      BY <1>7, <1>9, <3>1
  <2>2. Lockstep(t, g, m)
    <3>1. SUFFICES ASSUME NEW k \in 0 .. (m - 1), t[k] = g[k] PROVE t[k + 1] = g[k + 1]
      BY <2>1 DEF Lockstep
    <3>2. /\ k \in 0 .. m /\ k + 1 \in 0 .. m /\ k + 1 \in 1 .. m /\ (k + 1) - 1 = k
          /\ n + (k + 1) \in 1 .. (n + m + 1) /\ (n + (k + 1)) - 1 = n + k
          /\ ~(n + (k + 1) <= n) /\ (n + (k + 1)) - n = k + 1
      BY <1>1
    <3>3. b[n + (k + 1)] = w[k + 1] /\ w[k + 1] # LF
      BY <1>2, <1>3, <3>2 DEF m
    <3>4. t[k + 1] = h[n + (k + 1)] /\ t[k] = h[n + k]
      BY <3>2
    <3>5. h[n + (k + 1)] = Mix(h[n + k], w[k + 1])
      BY <1>5, <3>2, <3>3 DEF ByteStep
    <3> QED
      BY <1>7, <3>1, <3>2, <3>4, <3>5
  <2> HIDE DEF t
  <2> QED
    BY <1>1, <2>2, SameSteps
<1>11. h[n + m] = g[m]
  BY <1>1, <1>10
<1>12. h[n + m + 1] = h[n + m] % Modulus
  <2>1. /\ n + m + 1 \in 1 .. (n + m + 1) /\ (n + m + 1) - 1 = n + m
        /\ ~(n + m + 1 <= n) /\ (n + m + 1) - n = m + 1
    BY <1>1
  <2>2. b[n + m + 1] = LF
    BY <1>2, <1>3, <2>1
  <2> QED
    BY <1>5, <2>1, <2>2 DEF ByteStep
<1> QED
  BY <1>5, <1>7, <1>11, <1>12 DEF b

(***************************************************************************)
(* A call of LoadFile.                                                     *)
(***************************************************************************)
\* Fitting a length into doc_len never makes it larger and keeps one that fits.
LEMMA LengthFits ==
  ASSUME NEW n \in Nat
  PROVE  /\ AsLength(n) \in Nat
         /\ AsLength(n) <= n
         /\ n < 2 ^ LenBits => AsLength(n) = n
<1> DEFINE K == 2 ^ LenBits
<1>1. K \in Nat \ {0}
  BY WidthAssumption
<1> HIDE DEF K
<1>2. n = K * (n \div K) + (n % K) /\ n % K \in 0 .. (K - 1)
  BY <1>1, SMT
<1>3. n \div K \in Nat
  BY <1>1, SMT
<1>4. K * (n \div K) \in Nat
  BY <1>1, <1>3, SMT
<1>5. n % K <= n /\ n % K \in Nat
  BY <1>1, <1>2, <1>4
<1>6. n < K => n % K = n
  BY <1>1, <1>2, SMT
<1> QED
  BY <1>5, <1>6 DEF AsLength, K

\* A byte above 127 is negative as a signed char, so that none is equal to 239.
LEMMA SignedChar ==
  ASSUME NEW c \in 0 .. 255
  PROVE  CharSigned => Char(c) # 239
<1> SUFFICES ASSUME CharSigned PROVE Char(c) # 239
  OBVIOUS
<1>1. CASE c > 127
  <2>1. Char(c) = c - 256
    BY <1>1, CharSigned DEF Char
  <2> QED
    BY <2>1
<1>2. CASE ~(c > 127)
  <2>1. Char(c) = c
    BY <1>2 DEF Char
  <2> QED
    BY <1>2, <2>1
<1> QED
  BY <1>1, <1>2

LEMMA NoBomIfSigned ==
  ASSUME CharSigned, NEW b \in Seq(0 .. 255), NEW len \in Nat, len <= Len(b)
  PROVE  ~HasBom(b, len)
<1>1. ASSUME len >= 3 PROVE b[1] \in 0 .. 255
  <2>1. Len(b) \in Nat
    BY LenProperties, Zenon
  <2>2. 1 \in 1 .. Len(b)
    BY <1>1, <2>1
  <2> QED
    BY <2>2, ElementOfSeq, Zenon
<1>2. ASSUME len >= 3 PROVE Char(b[1]) # 239
  <2> DEFINE c == b[1]
  <2>1. c \in 0 .. 255
    BY <1>1, <1>2
  <2> HIDE DEF c
  <2>2. Char(c) # 239
    BY <2>1, SignedChar, CharSigned
  <2> QED
    BY <2>2 DEF c
<1>3. BOM[1] = 239
  BY DEF BOM
<1> QED
  BY <1>2, <1>3 DEF HasBom

LEMMA LoadInvInit ==
  LoadInit => LoadInv
BY LoadFileAssumption
   DEF LoadInit, NotLoaded, LoadInv, LoadTypeOK, Frame, Progress, Loaded, None, SUCCESS_CODE, ERR_OPEN_FILE

\* An error leaves nothing behind, wherever it happens.
LEMMA LoadInvFail ==
  ASSUME LoadInv, NEW f \in Frame,
         NEW code \in {ERR_FILENAME_LEN_EXCEED, ERR_OPEN_FILE, ERR_MALLOC, ERR_READ_FILE},
         load' = Fail(f, code), UNCHANGED disk
  PROVE  LoadInv'
<1>1. load' \in Frame
  <2>1. code \in {SUCCESS_CODE, ERR_FILENAME_LEN_EXCEED, ERR_OPEN_FILE, ERR_MALLOC, ERR_READ_FILE}
    OBVIOUS
  <2>2. load' = [f EXCEPT !.at = "returned", !.ret = code, !.is_open = FALSE, !.is_live = FALSE]
    BY DEF Fail
  <2> HIDE DEF Fail
  <2> QED
    BY ZenonT(30), <2>1, <2>2 DEF Frame
<1>2. /\ load'.at = "returned" /\ load'.ret = code
      /\ load'.is_open = FALSE /\ load'.is_live = FALSE
  BY DEF Fail, Frame
<1>3. code # SUCCESS_CODE
  BY DEF SUCCESS_CODE, ERR_FILENAME_LEN_EXCEED, ERR_OPEN_FILE, ERR_MALLOC, ERR_READ_FILE
<1>4. Progress'
  BY <1>2, <1>3 DEF Progress, Loaded
<1> QED
  BY <1>1, <1>4 DEF LoadInv, LoadTypeOK, disk

LEMMA LoadInvOpen ==
  LoadInv /\ Open => LoadInv'
<1> SUFFICES ASSUME LoadInv, Open PROVE LoadInv'
  OBVIOUS
<1>1. load \in Frame /\ load.at = "called" /\ UNCHANGED disk
  BY DEF LoadInv, LoadTypeOK, Open
<1>2. CASE load' = Fail(load, ERR_FILENAME_LEN_EXCEED) \/ load' = Fail(load, ERR_OPEN_FILE)
  BY <1>1, <1>2, LoadInvFail
<1>3. CASE load' = [load EXCEPT !.at = "opened", !.is_open = TRUE]
  <2>1. load' \in Frame
    BY <1>1, <1>3 DEF Frame
  <2>2. /\ load'.at = "opened" /\ load'.is_open = TRUE
        /\ load'.is_live = load.is_live /\ load'.ret = load.ret
    BY <1>1, <1>3 DEF Frame
  <2>3. ~load.is_live /\ load.ret = SUCCESS_CODE
    BY <1>1 DEF LoadInv, Progress, Loaded
  <2>4. Progress'
    BY <2>2, <2>3 DEF Progress, Loaded
  <2> QED
    BY <1>1, <2>1, <2>4 DEF LoadInv, LoadTypeOK, disk
<1> QED
  BY <1>2, <1>3 DEF Open

LEMMA LoadInvSize ==
  LoadInv /\ Size => LoadInv'
<1> SUFFICES ASSUME LoadInv, Size PROVE LoadInv'
  OBVIOUS
<1>1. load \in Frame /\ load.at = "opened" /\ UNCHANGED disk
  BY DEF LoadInv, LoadTypeOK, Size
<1>2. PICK n \in {Len(content), Unseekable} :
        load' = [load EXCEPT !.at = "sized", !.file_size = n]
  BY Zenon DEF Size
<1>3. n \in Nat \cup {Unseekable}
  BY LoadFileAssumption DEF LoadInv, LoadTypeOK
<1>4. load' \in Frame
  BY <1>1, <1>2, <1>3 DEF Frame
<1>5. /\ load'.at = "sized" /\ load'.is_open = load.is_open
      /\ load'.is_live = load.is_live /\ load'.ret = load.ret
  BY <1>1, <1>2 DEF Frame
<1>6. load.is_open /\ ~load.is_live /\ load.ret = SUCCESS_CODE
  BY <1>1 DEF LoadInv, Progress, Loaded
<1>7. Progress'
  BY <1>5, <1>6 DEF Progress, Loaded
<1> QED
  BY <1>1, <1>4, <1>7 DEF LoadInv, LoadTypeOK, disk

LEMMA LoadInvAllocate ==
  LoadInv /\ AllocateDoc => LoadInv'
<1> SUFFICES ASSUME LoadInv, AllocateDoc PROVE LoadInv'
  OBVIOUS
<1>1. load \in Frame /\ load.at = "sized" /\ UNCHANGED disk
  BY DEF LoadInv, LoadTypeOK, AllocateDoc
<1>2. CASE load' = Fail(load, ERR_MALLOC)
  BY <1>1, <1>2, LoadInvFail
<1>3. CASE load.file_size >= 0 /\ load' = [load EXCEPT !.at = "allocated", !.is_live = TRUE, !.doc = 0]
  <2>1. load' \in Frame
    BY <1>1, <1>3 DEF Frame
  <2>2. /\ load'.at = "allocated" /\ load'.is_open = load.is_open /\ load'.is_live = TRUE
        /\ load'.ret = load.ret /\ load'.file_size = load.file_size /\ load'.doc = 0
    BY <1>1, <1>3 DEF Frame
  <2>3. load.is_open /\ load.ret = SUCCESS_CODE
    BY <1>1 DEF LoadInv, Progress
  <2>4. Progress'
    BY <1>3, <2>2, <2>3 DEF Progress, Loaded
  <2> QED
    BY <1>1, <2>1, <2>4 DEF LoadInv, LoadTypeOK, disk
<1> QED
  BY <1>2, <1>3 DEF AllocateDoc

\* fread has read a prefix of the file as it is now, and all that was asked for.
LEMMA LoadInvRead ==
  LoadInv /\ Read => LoadInv'
<1> SUFFICES ASSUME LoadInv, Read PROVE LoadInv'
  OBVIOUS
<1>1. load \in Frame /\ load.at = "allocated" /\ UNCHANGED disk
  BY DEF LoadInv, LoadTypeOK, Read
<1> DEFINE filled(k) == [load EXCEPT !.buffer = SubSeq(content, 1, k)]
<1>2. PICK n \in 0 .. load.file_size :
            /\ n <= Len(content)
            /\ load' = IF ShortRead(n) THEN Fail(filled(n), ERR_READ_FILE)
                       ELSE [filled(n) EXCEPT !.at = "read", !.doc_len = AsLength(n)]
  BY Zenon DEF Read
<1>3. load.file_size \in Nat /\ content \in Seq(0 .. 255)
  BY <1>1, LoadFileAssumption DEF LoadInv, LoadTypeOK, Progress, Frame, Unseekable
<1>4. n \in Nat /\ AsLength(n) \in Nat
  BY <1>3, LengthFits
<1>5. SubSeq(content, 1, n) \in Seq(0 .. 255) /\ Len(SubSeq(content, 1, n)) = n
  <2>1. Len(content) \in Nat
    BY <1>3, LenProperties, Zenon
  <2>2. 1 .. n \subseteq 1 .. Len(content)
    BY <1>2, <1>4, <2>1
  <2>3. \A k \in 1 .. n : content[k] \in 0 .. 255
    BY <1>3, <2>2, ElementOfSeq, Zenon
  <2> QED
    BY <1>4, <2>3, SubSeqProperties
<1>6. filled(n) \in Frame
  BY <1>1, <1>5 DEF Frame
<1>7. CASE ShortRead(n)
  BY <1>1, <1>2, <1>6, <1>7, LoadInvFail
<1>8. CASE ~ShortRead(n)
  <2>1. load' = [filled(n) EXCEPT !.at = "read", !.doc_len = AsLength(n)]
    BY <1>2, <1>8
  <2>2. n = load.file_size
    BY <1>8 DEF ShortRead
  <2>3. load' \in Frame
    BY ZenonT(30), <1>4, <1>6, <2>1 DEF Frame
  <2>4. /\ load'.at = "read" /\ load'.ret = load.ret /\ load'.file_size = load.file_size
        /\ load'.is_open = load.is_open /\ load'.is_live = load.is_live
        /\ load'.buffer = SubSeq(content, 1, n) /\ load'.doc = load.doc /\ load'.doc_len = AsLength(n)
    BY <1>1, <2>1 DEF Frame
  <2>5. /\ load.ret = SUCCESS_CODE /\ load.file_size >= 0 /\ load.doc = 0
        /\ load.is_open /\ load.is_live
    BY <1>1 DEF LoadInv, Progress
  <2>6. Len(load'.buffer) = load'.file_size /\ load'.doc + load'.doc_len = AsLength(load'.file_size)
    BY <1>4, <1>5, <2>2, <2>4, <2>5
  <2>7. Progress'
    BY <2>4, <2>5, <2>6 DEF Progress, Loaded
  <2> QED
    BY <1>1, <2>3, <2>7 DEF LoadInv, LoadTypeOK, disk
<1> QED
  BY <1>7, <1>8

\* Skipping the byte-order mark keeps the end of the document where it was.
LEMMA LoadInvClose ==
  LoadInv /\ CloseFile => LoadInv'
<1> SUFFICES ASSUME LoadInv, CloseFile PROVE LoadInv'
  OBVIOUS
<1> DEFINE skipped == IF HasBom(load.buffer, load.doc_len) THEN 3 ELSE 0
<1>1. /\ load.at = "read" /\ UNCHANGED disk
      /\ load' = [load EXCEPT !.at = "returned", !.is_open = FALSE,
                              !.doc = load.doc + skipped, !.doc_len = load.doc_len - skipped]
  BY DEF CloseFile
<1>2. /\ load.doc = 0 /\ load.file_size \in Nat /\ load.doc_len \in Nat
      /\ load.buffer \in Seq(0 .. 255) /\ Len(load.buffer) = load.file_size
      /\ load.doc_len = AsLength(load.file_size)
  BY <1>1 DEF LoadInv, LoadTypeOK, Frame, Progress, Unseekable
<1>3. load.doc_len <= Len(load.buffer)
  BY <1>2, LengthFits
<1>4. skipped \in Nat /\ skipped <= load.doc_len
  BY <1>2 DEF HasBom
<1>5. CharSigned => skipped = 0
  BY <1>2, <1>3, NoBomIfSigned
<1> HIDE DEF skipped
<1>6. load.doc + skipped \in Nat /\ load.doc_len - skipped \in Nat
  BY <1>2, <1>4
<1>7. LoadTypeOK'
  BY ZenonT(30), <1>1, <1>6 DEF LoadInv, LoadTypeOK, Frame, disk
<1>8. /\ load'.at = "returned" /\ load'.ret = load.ret /\ load'.file_size = load.file_size
      /\ load'.is_open = FALSE /\ load'.is_live = load.is_live /\ load'.buffer = load.buffer
      /\ load'.doc = load.doc + skipped /\ load'.doc_len = load.doc_len - skipped
  BY <1>1 DEF LoadInv, LoadTypeOK, Frame
<1>9. load.ret = SUCCESS_CODE /\ load.is_live
  BY <1>1 DEF LoadInv, Progress
<1>10. /\ load'.doc >= 0 /\ load'.doc + load'.doc_len = AsLength(load'.file_size)
       /\ CharSigned => load'.doc = 0
  BY <1>2, <1>4, <1>5, <1>8
<1>11. Progress'
  BY <1>2, <1>8, <1>9, <1>10 DEF Progress, Loaded
<1> QED
  BY <1>7, <1>11 DEF LoadInv

LEMMA LoadInvRewrite ==
  LoadInv /\ Rewrite => LoadInv'
BY LoadFileAssumption DEF LoadInv, LoadTypeOK, Progress, Loaded, Rewrite

\* LoadFile owns what it should at every step, and its document is a part of what it
\* read.
THEOREM LoadInvariance ==
  LoadSpec => []LoadInv
<1>1. LoadInv /\ [LoadStep \/ Rewrite]_load_vars => LoadInv'
  <2>1. CASE UNCHANGED load_vars
    BY <2>1 DEF LoadInv, LoadTypeOK, Progress, Loaded, load_vars, disk
  <2> QED
    BY <2>1, LoadInvOpen, LoadInvSize, LoadInvAllocate, LoadInvRead, LoadInvClose, LoadInvRewrite DEF LoadStep
<1> QED
  BY <1>1, LoadInvInit, PTL DEF LoadSpec

LEMMA OwnedIfInv ==
  ASSUME CharSigned, LoadInv PROVE ResourcesOwned
BY DEF LoadInv, LoadTypeOK, Progress, Loaded, ResourcesOwned

LEMMA ReadIfInv ==
  ASSUME LoadInv PROVE DocWasRead
<1> SUFFICES ASSUME Loaded
             PROVE  /\ Len(load.buffer) = load.file_size
                    /\ load.doc + load.doc_len <= Len(load.buffer)
                    /\ load.file_size < 2 ^ LenBits => load.doc + load.doc_len = load.file_size
  BY DEF DocWasRead
<1>1. /\ Len(load.buffer) = load.file_size
      /\ load.doc + load.doc_len = AsLength(load.file_size)
  BY DEF LoadInv, Progress
<1>2. Len(load.buffer) \in Nat
  BY DEF LoadInv, LoadTypeOK, Frame
<1> QED
  BY <1>1, <1>2, LengthFits

\* The file is closed and the buffer has one owner on every way out; with a signed
\* char, as gcc has it on x86-64, main frees the pointer malloc returned.
THEOREM NothingLeaks ==
  ASSUME CharSigned PROVE LoadSpec => []ResourcesOwned
<1>1. LoadInv => ResourcesOwned
  BY OwnedIfInv
<1> QED
  BY <1>1, LoadInvariance, PTL

\* The bytes handed on were read, whatever another process wrote in between, and a
\* document of a length that fits doc_len reaches the end of the file.
THEOREM DocumentRead ==
  LoadSpec => []DocWasRead
<1>1. LoadInv => DocWasRead
  BY ReadIfInv
<1> QED
  BY <1>1, LoadInvariance, PTL

(***************************************************************************)
(* The words and their lines.                                              *)
(***************************************************************************)
Word == Seq(0 .. 255)

\* The words of a document that does not end in a letter.
LettersOnly == Closed => \A k \in 1 .. count : words[k] \in Seq(Letters)

\* Adding a line to the buffer adds it to the file and the buffer together.
LEMMA LineBehind ==
  ASSUME NEW file \in Seq(0 .. 255), NEW kept \in Seq(0 .. 255), NEW line \in Seq(0 .. 255)
  PROVE  /\ file \o (kept \o line) = (file \o kept) \o line
         /\ kept \o line \in Seq(0 .. 255) /\ Len(kept \o line) = Len(kept) + Len(line)
<1> DEFINE byte == 0 .. 255
<1>1. file \in Seq(byte) /\ kept \in Seq(byte) /\ line \in Seq(byte)
  OBVIOUS
<1> HIDE DEF byte
<1>2. (file \o kept) \o line = file \o (kept \o line)
  BY <1>1, ConcatAssociative
<1>3. kept \o line \in Seq(byte) /\ Len(kept \o line) = Len(kept) + Len(line)
  BY <1>1, ConcatProperties
<1> QED
  BY <1>2, <1>3 DEF byte

LEMMA WordFacts ==
  ASSUME NEW w \in Seq(Letters)
  PROVE  w \in Word /\ \A k \in 1 .. Len(w) : w[k] # LF
<1>1. Letters \subseteq 0 .. 255 /\ LF \notin Letters
  BY DriverAssumption
<1>2. \A k \in 1 .. Len(w) : w[k] \in Letters
  BY LenProperties, ElementOfSeq
<1>3. w \in Seq(0 .. 255)
  <2> DEFINE byte == 0 .. 255
  <2>1. Letters \subseteq byte
    BY <1>1
  <2> HIDE DEF byte
  <2>2. w \in Seq(byte)
    BY <2>1, SeqMonotonic
  <2> QED
    BY <2>2 DEF byte
<1> QED
  BY <1>1, <1>2, <1>3 DEF Word

LEMMA LineType ==
  ASSUME NEW w \in Word
  PROVE  Line(w) \in Seq(0 .. 255) /\ Len(Line(w)) = Len(w) + 1 /\ Len(w) \in Nat
<1>1. w \in Seq(0 .. 255) /\ LF \in 0 .. 255
  BY DEF LF, Word
<1> QED
  BY <1>1, AppendProperties, LenProperties DEF Line

LEMMA LinesSteps ==
  ASSUME words \in Seq(Word)
  PROVE  /\ count \in Nat
         /\ \A k \in 1 .. count : words[k] \in Word
         /\ Lines[0] = <<>>
         /\ \A k \in 1 .. count : Lines[k] = Lines[k - 1] \o Line(words[k])
<1> DEFINE R == Seq(0 .. 255)
           step == [p \in (1 .. count) \X R |-> p[2] \o Line(words[p[1]])]
           Body(f) == f = [n \in 0 .. count |-> IF n = 0 THEN <<>> ELSE f[n - 1] \o Line(words[n])]
<1>1. count \in Nat /\ \A k \in 1 .. count : words[k] \in Word
  BY LenProperties, ElementOfSeq DEF count
<1>2. <<>> \in R
  BY EmptySeq
<1>3. step \in [(1 .. count) \X R -> R]
  <2>1. ASSUME NEW k \in 1 .. count, NEW x \in R PROVE x \o Line(words[k]) \in R
    <3>1. Line(words[k]) \in R
      BY <1>1, LineType
    <3> HIDE DEF R
    <3> QED
      BY <3>1, ConcatProperties DEF R
  <2> QED
    BY <2>1
<1>4. \A k \in 1 .. count, x \in R : step[<<k, x>>] = x \o Line(words[k])
  OBVIOUS
<1> HIDE DEF step, R
<1>5. PICK f \in [0 .. count -> R] : Follows(f, count, <<>>, step)
  BY <1>1, <1>2, <1>3, Recursion
<1>6. f[0] = <<>> /\ \A k \in 1 .. count : f[k] = f[k - 1] \o Line(words[k])
  <2>1. \A k \in 1 .. count : k - 1 \in 0 .. count
    BY <1>1
  <2> QED
    BY <1>4, <1>5, <2>1 DEF Follows
<1>7. Body(f)
  BY <1>1, <1>6
<1>8. Body(Lines)
  <2>1. Lines = CHOOSE g : Body(g)
    BY Zenon DEF Lines
  <2> QED
    BY <1>7, <2>1, Zenon
<1> QED
  BY <1>1, <1>8

LEMMA DocInBuffer ==
  ASSUME LoadInv, Loaded
  PROVE  /\ load.doc \in Nat /\ load.doc_len \in Nat /\ Len(load.buffer) \in Nat
         /\ load.doc + load.doc_len <= Len(load.buffer)
         /\ DOMAIN load.buffer = 1 .. Len(load.buffer)
<1>1. /\ load.doc \in Nat \cup {None} /\ load.doc_len \in Nat /\ load.buffer \in Seq(0 .. 255)
      /\ Len(load.buffer) = load.file_size
      /\ load.doc + load.doc_len = AsLength(load.file_size)
  BY DEF LoadInv, LoadTypeOK, Frame, Progress
<1>2. Len(load.buffer) \in Nat /\ DOMAIN load.buffer = 1 .. Len(load.buffer)
  BY <1>1, LenProperties
<1>3. AsLength(load.file_size) <= Len(load.buffer)
  BY <1>1, <1>2, LengthFits
<1>4. load.doc >= 0
  BY DEF LoadInv, Progress
<1>5. load.doc \in Nat
  BY <1>1, <1>4 DEF None
<1> QED
  BY <1>1, <1>2, <1>3, <1>5

\* The memory the core looks at has the document first and a NUL last.
LEMMA MemoryFacts ==
  ASSUME LoadInv, Loaded, behind \in Seq(1 .. 255)
  PROVE  \E last \in Nat :
           /\ load.doc_len <= last
           /\ Memory \in [0 .. last -> 0 .. 255] /\ Memory[last] = 0
           /\ \A p \in 0 .. (load.doc_len - 1) : Memory[p] = load.buffer[load.doc + p + 1]
<1> DEFINE byte  == 0 .. 255
           b     == load.buffer
           o     == load.doc
           d     == load.doc_len
           l     == Len(b)
           rest  == SubSeq(b, o + 1, l)
           bytes == rest \o behind
           last  == Len(bytes)
<1>1. o \in Nat /\ d \in Nat /\ l \in Nat /\ o + d <= l
  BY DocInBuffer
<1>2. b \in Seq(byte) /\ behind \in Seq(byte)
  <2>1. 1 .. 255 \subseteq byte
    OBVIOUS
  <2>2. b \in Seq(byte)
    BY DEF LoadInv, LoadTypeOK, Frame
  <2> HIDE DEF byte, b
  <2> QED
    BY <2>1, <2>2, SeqMonotonic
<1>3. Memory = [p \in 0 .. last |-> IF p < last THEN bytes[p + 1] ELSE 0]
  BY DEF Memory, C!NUL
<1>4. o + 1 \in Int /\ l \in Int /\ 1 <= o + 1
  BY <1>1
<1> HIDE DEF byte, b, o, d, l
<1>5. \A k \in 1 .. l : b[k] \in byte
  BY <1>2, ElementOfSeq DEF l
<1>6. /\ rest \in Seq(byte) /\ Len(rest) = (IF o + 1 <= l THEN l - (o + 1) + 1 ELSE 0)
      /\ \A n \in 1 .. (l - (o + 1) + 1) : rest[n] = b[(o + 1) + n - 1]
  <2> DEFINE m == o + 1
  <2>1. m \in Int /\ l \in Int /\ 1 <= m /\ \A k \in m .. l : b[k] \in byte
    BY <1>1, <1>5
  <2> HIDE DEF m
  <2>2. /\ SubSeq(b, m, l) \in Seq(byte)
        /\ Len(SubSeq(b, m, l)) = (IF m <= l THEN l - m + 1 ELSE 0)
        /\ \A n \in 1 .. (l - m + 1) : SubSeq(b, m, l)[n] = b[m + n - 1]
    BY <2>1, SubSeqProperties
  <2> QED
    BY <2>2 DEF m
<1>7. Len(rest) \in Nat /\ d <= Len(rest) /\ \A p \in 0 .. (d - 1) : rest[p + 1] = b[o + p + 1]
  <2>1. Len(rest) = l - o
    BY <1>1, <1>6
  <2>2. ASSUME NEW p \in 0 .. (d - 1) PROVE rest[p + 1] = b[o + p + 1]
    <3>1. p + 1 \in 1 .. (l - (o + 1) + 1) /\ (o + 1) + (p + 1) - 1 = o + p + 1
      BY <1>1
    <3> QED
      BY <1>6, <3>1
  <2> QED
    BY <1>1, <2>1, <2>2
<1> HIDE DEF rest
<1>8. /\ bytes \in Seq(byte) /\ Len(bytes) = Len(rest) + Len(behind)
      /\ \A k \in 1 .. (Len(rest) + Len(behind)) :
           bytes[k] = IF k <= Len(rest) THEN rest[k] ELSE behind[k - Len(rest)]
  BY <1>2, <1>6, ConcatProperties
<1>9. Len(behind) \in Nat
  BY LenProperties
<1> HIDE DEF bytes
<1>10. last \in Nat /\ d <= last /\ \A p \in 0 .. (d - 1) : bytes[p + 1] = b[o + p + 1]
  <2>1. last = Len(rest) + Len(behind)
    BY <1>8
  <2>2. last \in Nat /\ d <= last
    BY <1>1, <1>7, <1>9, <2>1
  <2>3. ASSUME NEW p \in 0 .. (d - 1) PROVE bytes[p + 1] = b[o + p + 1]
    <3>1. p + 1 \in 1 .. (Len(rest) + Len(behind)) /\ p + 1 <= Len(rest)
      BY <1>1, <1>7, <1>9
    <3>2. bytes[p + 1] = rest[p + 1]
      BY <1>8, <3>1
    <3> QED
      BY <1>7, <3>2
  <2> QED
    BY <2>2, <2>3
<1>11. \A k \in 1 .. last : bytes[k] \in byte
  BY <1>8, ElementOfSeq
<1> HIDE DEF last
<1>12. Memory \in [0 .. last -> byte] /\ Memory[last] = 0
  <2>1. 0 \in byte
    BY DEF byte
  <2>2. \A p \in 0 .. last : p < last => p + 1 \in 1 .. last
    BY <1>10
  <2>3. last \in 0 .. last /\ ~(last < last)
    BY <1>10
  <2> QED
    BY <1>3, <1>11, <2>1, <2>2, <2>3
<1>13. \A p \in 0 .. (d - 1) : Memory[p] = b[o + p + 1]
  <2>1. \A p \in 0 .. (d - 1) : p \in 0 .. last /\ p < last
    BY <1>1, <1>10
  <2> QED
    BY <1>3, <1>10, <2>1
<1> QED
  BY <1>10, <1>12, <1>13 DEF byte, d, b, o

\* A pointer into it points to a string.
LEMMA StringType ==
  ASSUME NEW last \in Nat, NEW m \in [0 .. last -> 0 .. 255], m[last] = 0, NEW p \in 0 .. last
  PROVE  C!StringAt(m, p) \in Word
<1> DEFINE S == { q \in DOMAIN m : q >= p /\ m[q] = C!NUL }
           x == C!Min(S)
           n == x - p
           s == [k \in 1 .. n |-> m[p + k - 1]]
<1>1. last \in S /\ \A q \in S : q \in Int /\ p <= q
  BY DEF C!NUL
<1>2. \E y \in S : \A z \in S : y <= z
  <2>1. p \in Int /\ last \in Int
    OBVIOUS
  <2> HIDE DEF S
  <2> QED
    BY <1>1, <2>1, Least
<1>3. x \in S
  <2> HIDE DEF S
  <2> QED
    BY <1>2 DEF C!Min
<1>4. C!StringAt(m, p) = s
  BY DEF C!StringAt, C!strlen
<1> HIDE DEF x
<1>5. n \in Nat /\ p + n \in 0 .. last
  BY <1>3
<1> HIDE DEF n
<1>6. s \in [1 .. n -> 0 .. 255]
  BY <1>5
<1>7. s \in Seq(0 .. 255)
  BY <1>5, <1>6
<1> QED
  BY <1>4, <1>7 DEF Word

\* What the core finds are strings, finitely many; in a document that does not end in a
\* letter they are its words, and have letters only.
LEMMA FoundFacts ==
  ASSUME LoadInv, Loaded, behind \in Seq(1 .. 255)
  PROVE  /\ Found \subseteq Word /\ IsFiniteSet(Found)
         /\ Closed => Found = DocWords /\ Found \subseteq Seq(Letters)
<1> DEFINE d == load.doc_len
           m == Memory
           T == C!RunsOf(m, d)
           W == [r \in T |-> C!WordAt(m, r)]
           F == [r \in T |-> IF r[2] = d - 1 THEN C!StringAt(m, r[1]) ELSE C!WordAt(m, r)]
<1>1. Found = { F[r] : r \in T } /\ DocWords = { W[r] : r \in T }
  BY DEF Found, DocWords, C!StringsOf, C!WordsOf
<1>2. PICK last \in Nat :
        /\ d <= last /\ m \in [0 .. last -> 0 .. 255] /\ m[last] = 0
        /\ \A p \in 0 .. (d - 1) : m[p] = load.buffer[load.doc + p + 1]
  BY MemoryFacts
<1>3. d \in Nat /\ load.doc \in Nat
  BY DocInBuffer
<1> HIDE DEF m
<1>4. ASSUME NEW r \in T
      PROVE  /\ r[1] \in 0 .. (d - 1) /\ r[2] \in 0 .. (d - 1) /\ r[1] <= r[2]
             /\ \A p \in r[1] .. r[2] : m[p] \in Letters
  BY DEF C!RunsOf, C!isalnum
<1>5. ASSUME NEW r \in T
      PROVE  W[r] \in Word /\ W[r] \in Seq(Letters)
  <2> DEFINE a == r[1]
             b == r[2]
             n == b - a + 1
             s == [k \in 1 .. n |-> m[a + k - 1]]
  <2>1. a \in 0 .. (d - 1) /\ b \in 0 .. (d - 1) /\ a <= b /\ \A p \in a .. b : m[p] \in Letters
    BY <1>4
  <2>2. W[r] = s
    BY DEF C!WordAt
  <2> HIDE DEF a, b
  <2>3. n \in Nat /\ \A k \in 1 .. n : m[a + k - 1] \in Letters
    BY <1>3, <2>1
  <2> HIDE DEF n
  <2>4. s \in [1 .. n -> Letters]
    BY <2>3
  <2>5. s \in Seq(Letters)
    BY <2>3, <2>4
  <2> HIDE DEF s, W
  <2>6. s \in Word
    BY <2>5, WordFacts
  <2> QED
    BY <2>2, <2>5, <2>6
<1>6. ASSUME NEW r \in T PROVE F[r] \in Word
  <2>1. r[1] \in 0 .. last
    BY <1>2, <1>3, <1>4
  <2>2. C!StringAt(m, r[1]) \in Word
    BY <1>2, <2>1, StringType
  <2> QED
    BY <1>5, <2>2
<1>7. ASSUME Closed, NEW r \in T PROVE F[r] = W[r]
  <2>1. SUFFICES ASSUME r[2] = d - 1 PROVE FALSE
    OBVIOUS
  <2>2. d - 1 \in 0 .. (d - 1) /\ d # 0 /\ load.doc + (d - 1) + 1 = load.doc + d
    BY <1>3, <1>4, <2>1
  <2>3. r[2] \in r[1] .. r[2]
    BY <1>4
  <2>4. m[d - 1] \in Letters
    BY <1>4, <2>1, <2>3
  <2>5. load.buffer[load.doc + d] \in Letters
    BY <1>2, <2>2, <2>4
  <2> QED
    BY <1>7, <2>2, <2>5 DEF Closed
<1>8. IsFiniteSet(T)
  <2>1. IsFiniteSet(0 .. (d - 1))
    <3> DEFINE e == d - 1
    <3>1. e \in Int
      BY <1>3
    <3> HIDE DEF e
    <3>2. IsFiniteSet(0 .. e)
      BY <3>1, FS_Interval
    <3> QED
      BY <3>2 DEF e
  <2>2. IsFiniteSet((0 .. (d - 1)) \X (0 .. (d - 1)))
    BY <2>1, FS_Product
  <2>3. T \subseteq (0 .. (d - 1)) \X (0 .. (d - 1))
    BY DEF C!RunsOf
  <2> QED
    BY <2>2, <2>3, FS_Subset
<1>9. F \in [T -> Found] /\ \A w \in Found : \E r \in T : F[r] = w
  <2>1. DOMAIN F = T /\ F = [r \in T |-> F[r]]
    OBVIOUS
  <2> HIDE DEF T, F
  <2> QED
    BY <1>1, <2>1
<1> HIDE DEF F, T, W
<1>10. Found \subseteq Word
  BY <1>6, <1>9
<1>11. F \in Surjection(T, Found)
  BY <1>9 DEF Surjection
<1>12. IsFiniteSet(Found)
  BY <1>8, <1>11, FS_Surjection
<1>13. Closed => Found = DocWords /\ Found \subseteq Seq(Letters)
  BY <1>1, <1>5, <1>7
<1> QED
  BY <1>10, <1>12, <1>13

\* What the core returns is a sequence of such strings.
LEMMA ListingFacts ==
  ASSUME LoadInv, Loaded, behind \in Seq(1 .. 255), NEW s \in Core!Listings
  PROVE  s \in Seq(Word) /\ (Closed => \A k \in 1 .. Len(s) : s[k] \in Seq(Letters))
<1>1. Core!Cardinality(Found) = Cardinality(Found)
  BY DEF Core!Cardinality, Cardinality
<1>2. Cardinality(Found) \in Nat /\ Found \subseteq Word
  BY FoundFacts, FS_CardinalityType
<1>3. s \in [1 .. Cardinality(Found) -> Found]
  BY <1>1 DEF Core!Listings
<1> DEFINE n == Cardinality(Found)
<1> HIDE DEF n
<1>4. n \in Nat /\ s \in [1 .. n -> Found]
  BY <1>2, <1>3 DEF n
<1>5. s \in Seq(Word) /\ Len(s) = n
  <2>1. s \in Seq(Found) /\ Len(s) = n
    BY <1>4
  <2> QED
    BY <1>2, <2>1, SeqMonotonic
<1>6. \A k \in 1 .. Len(s) : s[k] \in Found
  BY <1>4, <1>5
<1> QED
  BY <1>5, <1>6, FoundFacts
(***************************************************************************)
(* The steps of SaveWords.                                                 *)
(***************************************************************************)
MainWaits ==
  /\ at = "SaveWords"
  /\ UNCHANGED <<disk, load, behind, words, at, exit, run, time_file>>

LEMMA SameListing ==
  ASSUME UNCHANGED <<load, behind>>
  PROVE  /\ Core!Listings' = Core!Listings /\ (Loaded' <=> Loaded)
         /\ Found' = Found /\ DocWords' = DocWords /\ (Closed' <=> Closed)
BY DEF Core!Listings, Core!Less, Core!Cardinality, Found, DocWords, Memory, Closed, Loaded

LEMMA SameLines ==
  ASSUME UNCHANGED words
  PROVE  Lines' = Lines /\ count' = count
BY DEF Lines, count

LEMMA SameRun ==
  ASSUME UNCHANGED <<load, words>>
  PROVE  /\ Closed' = Closed /\ Defined' = Defined /\ (LettersOnly' <=> LettersOnly)
         /\ load'.doc_len = load.doc_len /\ (Loaded' <=> Loaded)
BY DEF Closed, Defined, LettersOnly, Loaded, count

\* An empty buffer does not overrun.
LEMMA EmptyTemp ==
  ASSUME save'.temp = <<>> PROVE OverrunAlone'
<1>1. Len(save'.temp) = 0 /\ max_len \in Nat
  BY SaveWordsAssumption, EmptySeq
<1>2. ~(0 > max_len + 1)
  BY <1>1
<1> QED
  BY <1>1, <1>2 DEF OverrunAlone, curr_len

\* What .time holds when there have been r runs.
TimeFiles(r) == [of : 0 .. r, complete : BOOLEAN, hash : 0 .. (Modulus - 1), defined : BOOLEAN]

\* What a step of SaveWords has to show.
SaveShown ==
  /\ save' \in SaveFrame /\ save'.i <= count + 1 /\ words_file' \in Seq(0 .. 255)
  /\ SaveProgress'
  /\ save'.at \in {"opened", "looping"} => words # <<>>
  /\ words_by' \in {words_by, run} /\ (words_file' = words_file \/ words_by' = run)
  /\ save'.at \in {"opened", "looping"} \/ (Saved' /\ words # <<>>) => words_by' = run

LEMMA SaveKeeps ==
  ASSUME IInv, MainWaits, SaveShown
  PROVE  IInv'
<1>1. /\ disk' = disk /\ load' = load /\ behind' = behind /\ words' = words
      /\ at' = "SaveWords" /\ at = "SaveWords" /\ exit' = exit /\ run' = run /\ time_file' = time_file
  BY DEF MainWaits
<1>2. /\ LoadInv /\ load.doc_len < 2 ^ LenBits /\ behind \in Seq(1 .. 255)
      /\ words \in Seq(Word) /\ LettersOnly /\ exit \in 0 .. 255 /\ run \in 0 .. MaxRuns /\ words_by \in 0 .. run
      /\ time_file \in TimeFiles(run)
  BY DEF IInv, TypeOK, Word, LettersOnly, TimeFiles
<1>3. LoadInv'
  BY <1>1, <1>2 DEF LoadInv, LoadTypeOK, Progress, Loaded, disk
<1>4. SaveTypeOK'
  BY <1>1, SameLines DEF SaveShown, SaveTypeOK
<1>5. words_by' \in 0 .. run'
  <2>1. run \in 0 .. run
    BY <1>2, DriverAssumption
  <2> QED
    BY <1>1, <1>2, <2>1 DEF SaveShown
<1>6. TypeOK'
  <2>1. LettersOnly'
    BY <1>1, <1>2, SameRun
  <2> QED
    BY <1>1, <1>2, <1>3, <1>4, <1>5, <2>1 DEF TypeOK, Word, LettersOnly, TimeFiles
<1>7. ~Succeeded' /\ ~Succeeded
  BY <1>1 DEF Succeeded
<1>8. CallsInOrder'
  <2>1. Loaded /\ words \in Core!Listings
    BY <1>1 DEF IInv, CallsInOrder
  <2> QED
    BY <1>1, <1>7, <2>1, SameListing DEF CallsInOrder, SaveShown
<1>9. TimeVouchesForWords'
  <2>1. SUFFICES ASSUME time_file.complete, time_file.defined, time_file.hash # 0
                 PROVE  words_by' > time_file.of \/ time_file.hash = HashOf(words_file')
    BY <1>1 DEF TimeVouchesForWords
  <2>2. time_file.of # run
    BY <1>1, <2>1 DEF IInv, FilesOf
  <2>3. time_file.of \in 0 .. run /\ run \in Int
    BY <1>2, DriverAssumption DEF TimeFiles
  <2>4. CASE words_by' = run
    BY <2>2, <2>3, <2>4
  <2>5. CASE words_by' = words_by /\ words_file' = words_file
    BY <2>1, <2>5 DEF IInv, FilesOf, TimeVouchesForWords
  <2> QED
    BY <2>4, <2>5 DEF SaveShown
<1>10. FilesOf'
  <2>1. time_file.complete /\ time_file.of = run => FALSE
    BY <1>1 DEF IInv, FilesOf
  <2> QED
    BY <1>1, <1>7, <1>9, <2>1 DEF FilesOf, SaveShown
<1> QED
  BY <1>6, <1>8, <1>10 DEF IInv, SaveShown

\* What the proofs about the single steps need of the invariant.
LEMMA SaveFacts ==
  ASSUME IInv
  PROVE  /\ save \in SaveFrame /\ save.i \in Nat /\ save.i >= 1 /\ save.i <= count + 1
         /\ save.temp \in Seq(0 .. 255) /\ words_file \in Seq(0 .. 255)
         /\ save.hash \in 0 .. (Modulus - 1) /\ save.hash \in SizeT
         /\ count \in Nat /\ words \in Seq(Word) /\ LettersOnly
         /\ SaveProgress /\ SUCCESS_CODE = 0
<1>1. /\ save \in SaveFrame /\ save.i <= count + 1 /\ words_file \in Seq(0 .. 255)
      /\ words \in Seq(Word) /\ LettersOnly
  BY DEF IInv, TypeOK, SaveTypeOK, Word, LettersOnly
<1>2. save.i \in Nat /\ save.i >= 1 /\ save.temp \in Seq(0 .. 255) /\ save.hash \in 0 .. (Modulus - 1)
  BY <1>1 DEF SaveFrame
<1>3. save.hash \in SizeT
  BY <1>2, HashWidth
<1> QED
  BY <1>1, <1>2, <1>3, LinesSteps DEF IInv, SUCCESS_CODE

LEMMA NoWords ==
  ASSUME words \in Seq(Word)
  PROVE  count = 0 <=> words = <<>>
BY EmptySeq DEF count

LEMMA SaveNothingKeeps == IInv /\ MainWaits /\ SaveNothing /\ words_by' \in {words_by, run} => IInv'
<1> SUFFICES ASSUME IInv, MainWaits, SaveNothing, words_by' \in {words_by, run} PROVE IInv'
  OBVIOUS
<1>1. /\ save.at = "called" /\ count = 0 /\ words_file' = words_file
      /\ save' = [save EXCEPT !.at = "returned"]
  BY DEF SaveNothing
<1>2. save = NotSaved /\ words = <<>> /\ save \in SaveFrame /\ words' = words
  BY <1>1, SaveFacts, NoWords DEF SaveProgress, MainWaits
<1>3. /\ save'.at = "returned" /\ save'.hash = 0 /\ save'.temp = <<>> /\ save'.i = save.i
      /\ save' \in SaveFrame
  BY <1>1, <1>2 DEF NotSaved, SaveFrame
<1>4. SaveProgress'
  <2>1. OverrunAlone'
    BY <1>3, EmptyTemp
  <2> QED
    BY <1>2, <1>3, <2>1 DEF SaveProgress
<1>5. SaveShown
  BY <1>1, <1>2, <1>3, <1>4, SaveFacts DEF SaveShown
<1> QED
  BY <1>5, SaveKeeps

LEMMA OpenWordsFailsKeeps ==
  IInv /\ MainWaits /\ OpenWordsFails /\ words_by' \in {words_by, run} => IInv'
<1> SUFFICES ASSUME IInv, MainWaits, OpenWordsFails, words_by' \in {words_by, run} PROVE IInv'
  OBVIOUS
<1>1. /\ save.at = "called" /\ words_file' = words_file
      /\ save' = [save EXCEPT !.at = "returned", !.ret = ERR_SAVE_FILE_OPEN]
  BY DEF OpenWordsFails
<1>2. save = NotSaved /\ save \in SaveFrame
  BY <1>1, SaveFacts DEF SaveProgress
<1>3. /\ save'.at = "returned" /\ save'.ret = ERR_SAVE_FILE_OPEN /\ save'.temp = <<>> /\ save'.i = save.i
      /\ save' \in SaveFrame
  BY <1>1, <1>2 DEF NotSaved, SaveFrame
<1>4. ~Saved'
  BY <1>3 DEF Saved, SUCCESS_CODE, ERR_SAVE_FILE_OPEN
<1>5. SaveProgress'
  <2>1. OverrunAlone'
    BY <1>3, EmptyTemp
  <2> QED
    BY <1>3, <1>4, <2>1 DEF SaveProgress
<1>6. SaveShown
  BY <1>1, <1>3, <1>4, <1>5, SaveFacts DEF SaveShown
<1> QED
  BY <1>6, SaveKeeps

LEMMA OpenWordsKeeps == IInv /\ MainWaits /\ OpenWords /\ words_by' = run => IInv'
<1> SUFFICES ASSUME IInv, MainWaits, OpenWords, words_by' = run PROVE IInv'
  OBVIOUS
<1>1. /\ save.at = "called" /\ count # 0 /\ words_file' = <<>>
      /\ save' = [save EXCEPT !.at = "opened"]
  BY DEF OpenWords, Opened
<1>2. save = NotSaved /\ save \in SaveFrame /\ words # <<>>
  BY <1>1, SaveFacts, NoWords DEF SaveProgress
<1>3. /\ save'.at = "opened" /\ save'.temp = <<>> /\ save'.i = 1 /\ save.i = 1
      /\ save' \in SaveFrame
  BY <1>1, <1>2 DEF NotSaved, SaveFrame
<1>4. SaveProgress'
  <2>1. OverrunAlone'
    BY <1>3, EmptyTemp
  <2>2. ~Saved'
    BY <1>3 DEF Saved
  <2> QED
    BY <1>1, <1>3, <2>1, <2>2 DEF SaveProgress
<1>5. words_file' \in Seq(0 .. 255)
  BY <1>1, EmptySeq
<1>6. SaveShown
  BY <1>1, <1>2, <1>3, <1>4, <1>5, SaveFacts DEF SaveShown
<1> QED
  BY <1>6, SaveKeeps

LEMMA AllocateTempKeeps ==
  IInv /\ MainWaits /\ AllocateTemp /\ words_by' \in {words_by, run} => IInv'
<1> SUFFICES ASSUME IInv, MainWaits, AllocateTemp, words_by' \in {words_by, run} PROVE IInv'
  OBVIOUS
<1>1. save.at = "opened" /\ words_file' = words_file
  BY DEF AllocateTemp
<1>2. /\ words_file = <<>> /\ save.temp = <<>> /\ save.i = 1 /\ save \in SaveFrame
      /\ words # <<>> /\ words_by = run /\ words' = words /\ count' = count /\ Lines' = Lines
  BY <1>1, SaveFacts, SameLines DEF SaveProgress, IInv, CallsInOrder, FilesOf, MainWaits
<1>3. words_by' = run
  BY <1>2
<1>4. CASE save' = [save EXCEPT !.at = "looping", !.hash = FNV_OFFSET_BASIS]
  <2>1. /\ save'.at = "looping" /\ save'.hash = FNV_OFFSET_BASIS /\ save'.temp = <<>> /\ save'.i = 1
        /\ save' \in SaveFrame
    BY <1>2, <1>4, SaveWordsAssumption DEF SaveFrame
  <2>2. /\ words_file' \o save'.temp = Lines'[save'.i - 1]
        /\ save'.hash = HashOf(words_file' \o save'.temp)
    <3>1. <<>> \o <<>> = <<>>
      BY EmptySeq, ConcatEmptySeq
    <3>2. Lines[0] = <<>> /\ 1 - 1 = 0
      BY SaveFacts, LinesSteps
    <3> QED
      BY <1>1, <1>2, <2>1, <3>1, <3>2, HashOfNothing
  <2>3. OverrunAlone'
    BY <2>1, EmptyTemp
  <2>4. ~Saved'
    BY <2>1 DEF Saved
  <2>5. SaveProgress'
    BY <2>1, <2>2, <2>3, <2>4 DEF SaveProgress
  <2>6. SaveShown
    BY <1>1, <1>2, <1>3, <2>1, <2>5, SaveFacts DEF SaveShown
  <2> QED
    BY <2>6, SaveKeeps
<1>5. CASE save' = [save EXCEPT !.at = "exited"]
  <2>1. save'.at = "exited" /\ save'.temp = <<>> /\ save'.i = 1 /\ save' \in SaveFrame
    BY <1>2, <1>5 DEF SaveFrame
  <2>2. OverrunAlone'
    BY <2>1, EmptyTemp
  <2>3. ~Saved'
    BY <2>1 DEF Saved
  <2>4. SaveProgress'
    BY <2>1, <2>2, <2>3 DEF SaveProgress
  <2>5. SaveShown
    BY <1>1, <1>2, <1>3, <2>1, <2>3, <2>4, SaveFacts DEF SaveShown
  <2> QED
    BY <2>5, SaveKeeps
<1> QED
  BY <1>4, <1>5 DEF AllocateTemp

\* A word: the buffer, written or not, and its line follow what is in the file.
LEMMA SaveWordKeeps == IInv /\ MainWaits /\ SaveWord /\ words_by' \in {words_by, run} => IInv'
<1> SUFFICES ASSUME IInv, MainWaits, SaveWord, words_by' \in {words_by, run} PROVE IInv'
  OBVIOUS
<1> DEFINE word  == words[save.i]
           line  == Line(word)
           flush == Full(Len(word))
           kept  == IF flush THEN <<>> ELSE save.temp
<1>1. /\ save.at = "looping" /\ save.i <= count
      /\ words_file' = IF flush THEN words_file \o save.temp ELSE words_file
      /\ save' = [save EXCEPT !.temp = kept \o line, !.hash = Hash(save.hash, word), !.i = save.i + 1]
  BY DEF SaveWord, AfterFlush
<1>2. /\ words # <<>> /\ words_by = run /\ words' = words /\ count' = count /\ Lines' = Lines
      /\ words_file \o save.temp = Lines[save.i - 1]
      /\ Closed => save.hash = HashOf(words_file \o save.temp)
      /\ Closed' = Closed
  BY <1>1, SaveFacts, SameLines, SameRun DEF SaveProgress, IInv, CallsInOrder, FilesOf, MainWaits
<1>3. /\ save.i \in 1 .. count /\ word \in Word
      /\ Lines[save.i] = Lines[save.i - 1] \o line
      /\ Closed => word \in Seq(Letters)
  <2>1. save.i \in Nat /\ save.i >= 1 /\ count \in Nat /\ words \in Seq(Word) /\ LettersOnly
    BY SaveFacts
  <2>2. save.i \in 1 .. count
    BY <1>1, <2>1
  <2> QED
    BY <2>1, <2>2, LinesSteps DEF LettersOnly
<1>4. /\ word \in Seq(0 .. 255) /\ Len(word) \in Nat
      /\ Closed => \A k \in 1 .. Len(word) : word[k] # LF
      /\ line \in Seq(0 .. 255) /\ Len(line) = Len(word) + 1
  BY <1>3, WordFacts, LineType DEF Word
<1>5. flush <=> Len(save.temp) + Len(word) > max_len
  BY DEF Full, curr_len
<1> HIDE DEF word, line, flush
<1>6. /\ kept \in Seq(0 .. 255) /\ Len(kept) \in Nat
      /\ flush => kept = <<>>
      /\ ~flush => Len(kept) + Len(word) <= max_len
  <2>1. Len(save.temp) \in Nat /\ max_len \in Nat
    BY SaveFacts, LenProperties, SaveWordsAssumption
  <2>2. CASE flush
    BY <1>4, <2>1, <2>2, EmptySeq
  <2>3. CASE ~flush
    BY <1>4, <1>5, <2>1, <2>3, SaveFacts
  <2> QED
    BY <2>2, <2>3
<1>7. words_file' \in Seq(0 .. 255) /\ words_file' \o kept = words_file \o save.temp
  <2> DEFINE byte == 0 .. 255
  <2>1. words_file \in Seq(byte) /\ save.temp \in Seq(byte)
    BY SaveFacts
  <2> HIDE DEF byte
  <2>2. words_file \o save.temp \in Seq(byte)
    BY <2>1, ConcatProperties
  <2>3. CASE flush
    BY <1>1, <2>2, <2>3, ConcatEmptySeq DEF byte
  <2>4. CASE ~flush
    BY <1>1, <2>1, <2>4 DEF byte
  <2> QED
    BY <2>3, <2>4
<1> HIDE DEF kept
<1>8. /\ kept \o line \in Seq(0 .. 255) /\ Len(kept \o line) = Len(kept) + Len(line)
      /\ words_file' \o (kept \o line) = (words_file \o save.temp) \o line
      /\ words_file \o save.temp \in Seq(0 .. 255)
  <2>1. words_file \o save.temp \in Seq(0 .. 255)
    <3> DEFINE byte == 0 .. 255
    <3>1. words_file \in Seq(byte) /\ save.temp \in Seq(byte)
      BY SaveFacts
    <3> HIDE DEF byte
    <3>2. words_file \o save.temp \in Seq(byte)
      BY <3>1, ConcatProperties
    <3> QED
      BY <3>2 DEF byte
  <2>2. /\ words_file' \o (kept \o line) = (words_file' \o kept) \o line
        /\ kept \o line \in Seq(0 .. 255) /\ Len(kept \o line) = Len(kept) + Len(line)
    <3>1. words_file' \in Seq(0 .. 255) /\ kept \in Seq(0 .. 255) /\ line \in Seq(0 .. 255)
      BY <1>4, <1>6, <1>7
    <3> QED
      BY <3>1, LineBehind
  <2> QED
    BY <1>7, <2>1, <2>2
<1>9. Hash(save.hash, word) \in 0 .. (Modulus - 1)
  BY <1>4, SaveFacts, HashTypes
<1>10. /\ save'.at = "looping" /\ save'.temp = kept \o line /\ save'.hash = Hash(save.hash, word)
       /\ save'.i = save.i + 1
  BY <1>1, SaveFacts DEF SaveFrame
<1>11. save' \in SaveFrame
  <2>1. save.i + 1 \in Nat \ {0} /\ save \in SaveFrame
    BY SaveFacts
  <2> QED
    BY <1>1, <1>8, <1>9, <2>1 DEF SaveFrame
<1>12. /\ words_file' \o save'.temp = Lines'[save'.i - 1]
       /\ Closed' => save'.hash = HashOf(words_file' \o save'.temp)
  <2>1. save'.i - 1 = save.i
    BY <1>10, SaveFacts
  <2>2. words_file' \o save'.temp = (words_file \o save.temp) \o line
    BY <1>8, <1>10
  <2>3. Closed => HashOf((words_file \o save.temp) \o line) = Hash(HashOf(words_file \o save.temp), word)
    BY <1>4, <1>8, HashOfLine DEF line
  <2> QED
    BY <1>2, <1>3, <1>10, <2>1, <2>2, <2>3
<1>13. OverrunAlone'
  <2>1. /\ Len(save'.temp) = Len(kept) + (Len(word) + 1) /\ max_len \in Nat
        /\ save'.i - 1 = save.i
    BY <1>4, <1>8, <1>10, SaveFacts, SaveWordsAssumption
  <2>2. CASE flush
    <3>1. kept \o line = line
      <4> DEFINE byte == 0 .. 255
      <4>1. line \in Seq(byte) /\ kept = <<>>
        BY <1>4, <1>6, <2>2
      <4> HIDE DEF byte
      <4> QED
        BY <4>1, ConcatEmptySeq
    <3> QED
      BY <1>2, <1>10, <2>1, <3>1 DEF OverrunAlone, line, word
  <2>3. CASE ~flush
    <3>1. ~(Len(save'.temp) > max_len + 1)
      BY <1>4, <1>6, <2>1, <2>3
    <3> QED
      BY <3>1 DEF OverrunAlone, curr_len
  <2> QED
    BY <2>2, <2>3
<1>14. ~Saved'
  BY <1>10 DEF Saved
<1>15. SaveProgress'
  BY <1>10, <1>12, <1>13, <1>14 DEF SaveProgress
<1>16. save'.i <= count + 1
  BY <1>1, <1>10, SaveFacts
<1>17. SaveShown
  BY <1>2, <1>7, <1>11, <1>15, <1>16 DEF SaveShown
<1> QED
  BY <1>17, SaveKeeps

\* The rest of the buffer is written: the file has the lines of all words.
LEMMA CloseWordsKeeps == IInv /\ MainWaits /\ CloseWords /\ words_by' \in {words_by, run} => IInv'
<1> SUFFICES ASSUME IInv, MainWaits, CloseWords, words_by' \in {words_by, run} PROVE IInv'
  OBVIOUS
<1>1. /\ save.at = "looping" /\ save.i > count /\ words_file' = words_file \o save.temp
      /\ save' = [save EXCEPT !.at = "returned"]
  BY DEF CloseWords
<1>2. /\ words # <<>> /\ words_by = run /\ words' = words /\ count' = count /\ Lines' = Lines
      /\ words_file \o save.temp = Lines[save.i - 1]
      /\ Closed => save.hash = HashOf(words_file \o save.temp)
      /\ OverrunAlone /\ Closed' = Closed
  BY <1>1, SaveFacts, SameLines, SameRun DEF SaveProgress, IInv, CallsInOrder, FilesOf, MainWaits
<1>3. save.i - 1 = count
  <2>1. save.i \in Nat /\ save.i <= count + 1 /\ count \in Nat
    BY SaveFacts
  <2> QED
    BY <1>1, <2>1
<1>4. /\ save'.at = "returned" /\ save'.temp = save.temp /\ save'.hash = save.hash /\ save'.i = save.i
      /\ save' \in SaveFrame
  BY <1>1, SaveFacts DEF SaveFrame
<1>5. words_file' = Lines'[count'] /\ (Closed' => save'.hash = HashOf(words_file'))
  BY <1>1, <1>2, <1>3, <1>4
<1>6. OverrunAlone'
  BY <1>2, <1>4 DEF OverrunAlone, curr_len
<1>7. SaveProgress'
  BY <1>2, <1>4, <1>5, <1>6 DEF SaveProgress
<1>8. words_file' \in Seq(0 .. 255)
  BY <1>1, SaveFacts, ConcatProperties
<1>9. SaveShown
  BY <1>2, <1>4, <1>7, <1>8, SaveFacts DEF SaveShown
<1> QED
  BY <1>9, SaveKeeps

LEMMA InSaveWordsKeeps == IInv /\ InSaveWords => IInv'
<1> SUFFICES ASSUME IInv, InSaveWords PROVE IInv'
  OBVIOUS
<1>1. MainWaits /\ SaveStep
  BY DEF InSaveWords, MainWaits
<1>2. words_by' \in {words_by, run} /\ (OpenWords => words_by' = run)
  BY DEF InSaveWords
<1> QED
  BY <1>1, <1>2, SaveNothingKeeps, OpenWordsFailsKeeps, OpenWordsKeeps, AllocateTempKeeps,
     SaveWordKeeps, CloseWordsKeeps DEF SaveStep

(***************************************************************************)
(* The steps of main.                                                      *)
(***************************************************************************)
LEMMA NotLoadedFacts ==
  /\ NotLoaded \in Frame /\ NotLoaded.at = "called" /\ NotLoaded.doc_len = 0
  /\ NotLoaded.buffer = <<>> /\ NotLoaded.ret = SUCCESS_CODE /\ ~NotLoaded.is_open /\ ~NotLoaded.is_live
BY DEF NotLoaded, Frame, None, SUCCESS_CODE

LEMMA NotSavedFacts ==
  /\ NotSaved \in SaveFrame /\ NotSaved.at = "called" /\ NotSaved.i = 1 /\ NotSaved.temp = <<>>
<1>1. 0 \in 0 .. (Modulus - 1) /\ <<>> \in Seq(0 .. 255)
  BY HashWidth, EmptySeq
<1> QED
  BY <1>1 DEF NotSaved, SaveFrame

\* A process begins with nothing, and leaves nothing in memory.
LEMMA Fresh ==
  ASSUME content \in Contents, rewrites \in 0 .. MaxRewrites, NewMemory, UNCHANGED disk,
         words_file' \in Seq(0 .. 255)
  PROVE  /\ LoadInv' /\ load'.doc_len < 2 ^ LenBits /\ behind' \in Seq(1 .. 255)
         /\ words' \in Seq(Word) /\ LettersOnly' /\ SaveTypeOK' /\ SaveProgress'
         /\ words' = <<>> /\ save' = NotSaved /\ save'.at = "called" /\ ~Saved'
<1>1. load' = NotLoaded /\ behind' = <<>> /\ words' = <<>> /\ save' = NotSaved
  BY DEF NewMemory
<1>2. Progress'
  BY <1>1, NotLoadedFacts DEF Progress, Loaded
<1>3. LoadInv'
  BY <1>1, <1>2, NotLoadedFacts DEF LoadInv, LoadTypeOK, disk
<1>4. load'.doc_len < 2 ^ LenBits
  BY <1>1, NotLoadedFacts, WidthAssumption
<1>5. behind' \in Seq(1 .. 255)
  BY <1>1, EmptySeq
<1>6. words' \in Seq(Word) /\ count' = 0 /\ LettersOnly'
  BY <1>1, EmptySeq DEF count, LettersOnly
<1>7. SaveTypeOK'
  BY <1>1, <1>6, NotSavedFacts DEF SaveTypeOK
<1>8. save'.at = "called" /\ ~Saved'
  BY <1>1, NotSavedFacts DEF Saved
<1>9. OverrunAlone'
  BY <1>1, NotSavedFacts, EmptyTemp
<1>10. SaveProgress'
  BY <1>1, <1>8, <1>9 DEF SaveProgress
<1> QED
  BY <1>1, <1>3, <1>4, <1>5, <1>6, <1>7, <1>8, <1>10

LEMMA TypeFacts ==
  ASSUME IInv
  PROVE  /\ LoadInv /\ load.doc_len < 2 ^ LenBits /\ behind \in Seq(1 .. 255)
         /\ content \in Contents /\ rewrites \in 0 .. MaxRewrites
         /\ words \in Seq(Word) /\ LettersOnly /\ SaveTypeOK /\ words_file \in Seq(0 .. 255)
         /\ exit \in 0 .. 255 /\ run \in 0 .. MaxRuns /\ run \in Nat /\ MaxRuns \in Nat
         /\ words_by \in 0 .. run
         /\ time_file \in TimeFiles(run) /\ time_file.of \in 0 .. run
         /\ CallsInOrder /\ SaveProgress /\ FilesOf
BY DriverAssumption
   DEF IInv, TypeOK, LoadInv, LoadTypeOK, SaveTypeOK, Word, LettersOnly, TimeFiles

\* What is put into .time has its type.
LEMMA TimeFileType ==
  ASSUME run \in Nat, NEW complete \in BOOLEAN, NEW hash \in 0 .. (Modulus - 1)
  PROVE  TimeFile(complete, hash) \in TimeFiles(run)
<1>1. run \in 0 .. run
  OBVIOUS
<1>2. Defined \in BOOLEAN
  BY Zenon DEF Defined
<1> QED
  BY <1>1, <1>2 DEF TimeFile, TimeFiles

\* A step of main that leaves memory and .words file alone.
MainSteps == UNCHANGED <<disk, load, words, save, run, words_file, words_by>>

LEMMA MainKeeps ==
  ASSUME IInv, MainSteps, CallsInOrder', FilesOf',
         at' \in {"SaveTime", "WordList", "WritingTime", "Freeing", "ended"}, exit' \in 0 .. 255,
         time_file' \in TimeFiles(run), behind' \in Seq(1 .. 255)
  PROVE  IInv'
<1>1. /\ disk' = disk /\ load' = load /\ words' = words /\ save' = save /\ run' = run
      /\ words_file' = words_file /\ words_by' = words_by
  BY DEF MainSteps
<1>2. LoadInv'
  BY <1>1, TypeFacts DEF LoadInv, LoadTypeOK, Progress, Loaded, disk
<1>3. SaveTypeOK' /\ SaveProgress'
  <2>1. SaveTypeOK'
    BY <1>1, TypeFacts DEF SaveTypeOK, count
  <2>2. OverrunAlone' /\ (Saved' <=> Saved)
    BY <1>1, TypeFacts DEF SaveProgress, OverrunAlone, curr_len, Saved
  <2> QED
    BY <1>1, <2>1, <2>2, SameLines, SameRun, TypeFacts DEF SaveProgress
<1>4. TypeOK'
  <2>1. LettersOnly'
    BY <1>1, SameRun, TypeFacts
  <2> QED
    BY <1>1, <1>2, <1>3, <2>1, TypeFacts DEF TypeOK, Word, LettersOnly, TimeFiles
<1> QED
  BY <1>3, <1>4 DEF IInv

\* An exit status other than 0.
LEMMA FailureKeeps ==
  ASSUME IInv, MainSteps, at' = "ended", exit' \in 1 .. 255, UNCHANGED <<behind, time_file>>,
         save.at \notin {"opened", "looping"}
  PROVE  IInv'
<1>1. ~Succeeded'
  BY DEF Succeeded, SUCCESS_CODE
<1>2. /\ load' = load /\ words' = words /\ save' = save /\ run' = run
      /\ words_file' = words_file /\ words_by' = words_by /\ time_file' = time_file
  BY DEF MainSteps
<1>3. CallsInOrder'
  BY <1>1, <1>2 DEF CallsInOrder
<1>4. FilesOf'
  <2>1. TimeVouchesForWords'
    BY <1>2, TypeFacts DEF FilesOf, TimeVouchesForWords
  <2> QED
    BY <1>1, <1>2, <2>1, TypeFacts DEF FilesOf, Saved
<1>5. exit' \in 0 .. 255
  OBVIOUS
<1>6. time_file' \in TimeFiles(run) /\ behind' \in Seq(1 .. 255)
  BY <1>2, TypeFacts
<1> QED
  BY <1>3, <1>4, <1>5, <1>6, MainKeeps

LEMMA LaunchKeeps == IInv /\ Launch => IInv'
<1> SUFFICES ASSUME IInv, Launch PROVE IInv'
  OBVIOUS
<1>1. /\ run < MaxRuns /\ run' = run + 1 /\ NewMemory
      /\ disk' = disk /\ words_file' = words_file /\ words_by' = words_by /\ time_file' = time_file
  BY DEF Launch, files
<1>2. \/ at' = "LoadFile" /\ exit' = exit
      \/ at' = "ended" /\ exit' = 1
  BY DEF Launch, Exit, USAGE
<1>3. /\ LoadInv' /\ load'.doc_len < 2 ^ LenBits /\ behind' \in Seq(1 .. 255)
      /\ words' \in Seq(Word) /\ LettersOnly' /\ SaveTypeOK' /\ SaveProgress'
      /\ words' = <<>> /\ save' = NotSaved /\ save'.at = "called" /\ ~Saved'
  BY <1>1, TypeFacts, Fresh
<1>4. ~Succeeded'
  BY <1>2 DEF Succeeded, SUCCESS_CODE
<1>5. /\ exit' \in 0 .. 255 /\ run' \in 0 .. MaxRuns /\ words_by' \in 0 .. run'
      /\ at' \in {"LoadFile", "ended"}
  BY <1>1, <1>2, TypeFacts
<1>6. time_file' \in TimeFiles(run')
  <2>1. 0 .. run \subseteq 0 .. (run + 1)
    BY TypeFacts
  <2>2. time_file \in TimeFiles(run)
    BY TypeFacts
  <2> QED
    BY <1>1, <2>1, <2>2 DEF TimeFiles
<1>7. TypeOK'
  BY <1>3, <1>5, <1>6 DEF TypeOK, Word, LettersOnly, TimeFiles
<1>8. CallsInOrder'
  BY <1>3, <1>4, <1>5 DEF CallsInOrder
<1>9. FilesOf'
  <2>1. time_file'.of # run'
    BY <1>1, TypeFacts
  <2>2. TimeVouchesForWords'
    BY <1>1, TypeFacts DEF FilesOf, TimeVouchesForWords
  <2> QED
    BY <1>3, <1>4, <1>5, <2>1, <2>2 DEF FilesOf
<1> QED
  BY <1>3, <1>7, <1>8, <1>9 DEF IInv

\* What is lost of an open .words file was of this run, whose .time file is not written.
LEMMA KilledKeeps == IInv /\ Killed => IInv'
<1> SUFFICES ASSUME IInv, Killed PROVE IInv'
  OBVIOUS
<1>1. /\ at \notin {"idle", "ended"} /\ at' = "ended" /\ exit' = 137 /\ NewMemory
      /\ disk' = disk /\ run' = run /\ words_by' = words_by /\ time_file' = time_file
  BY DEF Killed, SIGKILLED
<1>2. \/ save.at \in {"opened", "looping"}
         /\ \E n \in 0 .. Len(words_file) : words_file' = SubSeq(words_file, 1, n)
      \/ words_file' = words_file
  BY Zenon DEF Killed
<1>3. words_file' \in Seq(0 .. 255)
  <2>1. words_file \in Seq(0 .. 255)
    BY TypeFacts
  <2>2. ASSUME NEW n \in 0 .. Len(words_file) PROVE SubSeq(words_file, 1, n) \in Seq(0 .. 255)
    <3>1. n \in Int /\ n <= Len(words_file) /\ Len(words_file) \in Nat
      BY <2>1, LenProperties
    <3>2. \A k \in 1 .. n : words_file[k] \in 0 .. 255
      <4>1. 1 .. n \subseteq 1 .. Len(words_file)
        BY <3>1
      <4> QED
        BY <2>1, <4>1, ElementOfSeq, Zenon
    <3> QED
      BY <3>1, <3>2, SubSeqProperties
  <2> QED
    BY <1>2, <2>1, <2>2
<1>4. /\ LoadInv' /\ load'.doc_len < 2 ^ LenBits /\ behind' \in Seq(1 .. 255)
      /\ words' \in Seq(Word) /\ LettersOnly' /\ SaveTypeOK' /\ SaveProgress'
      /\ words' = <<>> /\ save' = NotSaved /\ save'.at = "called" /\ ~Saved'
  BY <1>1, <1>3, TypeFacts, Fresh
<1>5. ~Succeeded'
  BY <1>1 DEF Succeeded, SUCCESS_CODE
<1>6. TypeOK'
  BY <1>1, <1>4, TypeFacts DEF TypeOK, Word, LettersOnly, TimeFiles
<1>7. CallsInOrder'
  BY <1>1, <1>4, <1>5 DEF CallsInOrder
<1>8. TimeVouchesForWords'
  <2>1. CASE words_file' = words_file
    BY <1>1, <2>1, TypeFacts DEF FilesOf, TimeVouchesForWords
  <2>2. CASE save.at \in {"opened", "looping"}
    <3>1. words_by = run /\ (time_file.complete => time_file.of # run)
      BY <1>1, <2>2, TypeFacts DEF FilesOf, CallsInOrder
    <3>2. time_file.of \in 0 .. run /\ run \in Nat
      BY TypeFacts
    <3> QED
      BY <1>1, <3>1, <3>2 DEF TimeVouchesForWords
  <2> QED
    BY <1>2, <2>1, <2>2
<1>9. FilesOf'
  BY <1>1, <1>4, <1>5, <1>8 DEF FilesOf
<1> QED
  BY <1>4, <1>6, <1>7, <1>9 DEF IInv

LEMMA InLoadFileKeeps == IInv /\ InLoadFile => IInv'
<1> SUFFICES ASSUME IInv, InLoadFile PROVE IInv'
  OBVIOUS
<1>1. /\ at = "LoadFile" /\ LoadStep
      /\ behind' = behind /\ words' = words /\ save' = save /\ at' = at /\ exit' = exit
      /\ run' = run /\ words_file' = words_file /\ words_by' = words_by /\ time_file' = time_file
  BY DEF InLoadFile, files
<1>2. save = NotSaved /\ words = <<>>
  BY <1>1, TypeFacts DEF CallsInOrder
<1>3. LoadInv'
  BY <1>1, TypeFacts, LoadInvOpen, LoadInvSize, LoadInvAllocate, LoadInvRead, LoadInvClose DEF LoadStep
<1>4. load'.doc_len < 2 ^ LenBits
  <2> DEFINE K == 2 ^ LenBits
  <2>1. /\ load \in Frame /\ load.doc_len < K /\ load.doc_len \in Nat
        /\ K \in Nat \ {0} /\ content \in Seq(0 .. 255)
    BY TypeFacts, WidthAssumption, LoadFileAssumption DEF LoadInv, LoadTypeOK, Frame
  <2> HIDE DEF K
  <2>2. ASSUME NEW f \in Frame, NEW code PROVE Fail(f, code).doc_len = f.doc_len
    BY DEF Fail, Frame
  <2>3. CASE Open
    <3>1. CASE \E code \in {ERR_FILENAME_LEN_EXCEED, ERR_OPEN_FILE} : load' = Fail(load, code)
      BY <2>1, <2>2, <3>1 DEF K
    <3>2. CASE load' = [load EXCEPT !.at = "opened", !.is_open = TRUE]
      BY <2>1, <3>2 DEF Frame, K
    <3> QED
      BY <2>3, <3>1, <3>2 DEF Open
  <2>4. CASE Size
    BY <2>1, <2>4 DEF Size, Frame, K
  <2>5. CASE AllocateDoc
    <3>1. CASE load' = Fail(load, ERR_MALLOC)
      BY <2>1, <2>2, <3>1 DEF K
    <3>2. CASE load' = [load EXCEPT !.at = "allocated", !.is_live = TRUE, !.doc = 0]
      BY <2>1, <3>2 DEF Frame, K
    <3> QED
      BY <2>5, <3>1, <3>2 DEF AllocateDoc
  <2>6. CASE Read
    <3> DEFINE filled(n) == [load EXCEPT !.buffer = SubSeq(content, 1, n)]
    <3>1. PICK n \in 0 .. load.file_size :
            load' = IF ShortRead(n) THEN Fail(filled(n), ERR_READ_FILE)
                    ELSE [filled(n) EXCEPT !.at = "read", !.doc_len = AsLength(n)]
      BY <2>6, Zenon DEF Read
    <3>2. n \in Nat
      <4>1. load.file_size \in Nat \cup {Unseekable}
        BY <2>1 DEF Frame
      <4> QED
        BY <3>1, <4>1 DEF Unseekable
    <3>3. AsLength(n) < K
      BY <2>1, <3>2 DEF AsLength, K
    <3>4. load'.doc_len \in {load.doc_len, AsLength(n)}
      BY <2>1, <3>1 DEF Frame, Fail
    <3> QED
      BY <2>1, <3>3, <3>4 DEF K
  <2>7. CASE CloseFile
    <3> DEFINE skipped == IF HasBom(load.buffer, load.doc_len) THEN 3 ELSE 0
    <3>1. load' = [load EXCEPT !.at = "returned", !.is_open = FALSE,
                               !.doc = load.doc + skipped, !.doc_len = load.doc_len - skipped]
      BY <2>7 DEF CloseFile
    <3>2. skipped \in Nat
      OBVIOUS
    <3> HIDE DEF skipped
    <3>3. load'.doc_len = load.doc_len - skipped
      BY <2>1, <3>1 DEF Frame
    <3>4. load.doc_len - skipped < K
      BY <2>1, <3>2
    <3> QED
      BY <3>3, <3>4 DEF K
  <2> QED
    BY <1>1, <2>3, <2>4, <2>5, <2>6, <2>7 DEF LoadStep
<1>5. SaveTypeOK' /\ SaveProgress' /\ ~Saved' /\ LettersOnly'
  <2>1. SaveTypeOK'
    BY <1>1, TypeFacts DEF SaveTypeOK, count
  <2>2. OverrunAlone' /\ save'.at = "called" /\ ~Saved'
    BY <1>1, <1>2, NotSavedFacts, EmptyTemp DEF Saved
  <2>3. count' = 0
    BY <1>1, <1>2, EmptySeq DEF count
  <2>4. LettersOnly'
    BY <2>3 DEF LettersOnly
  <2> QED
    BY <1>1, <1>2, <2>1, <2>2, <2>4 DEF SaveProgress
<1>6. ~Succeeded' /\ save'.at = "called"
  BY <1>1, <1>2, NotSavedFacts DEF Succeeded
<1>7. TypeOK'
  BY <1>1, <1>3, <1>4, <1>5, TypeFacts DEF TypeOK, Word, LettersOnly, TimeFiles
<1>8. CallsInOrder'
  BY <1>1, <1>2, <1>6 DEF CallsInOrder
<1>9. FilesOf'
  <2>1. TimeVouchesForWords'
    BY <1>1, TypeFacts DEF FilesOf, TimeVouchesForWords
  <2> QED
    BY <1>1, <1>5, <1>6, <2>1, TypeFacts DEF FilesOf
<1> QED
  BY <1>5, <1>7, <1>8, <1>9 DEF IInv

\* A step that concerns neither main nor the result files.
LEMMA StaysTheSame ==
  ASSUME IInv, LoadInv',
         UNCHANGED <<load, behind, words, save, at, exit, run, words_file, words_by, time_file>>
  PROVE  IInv'
<1>1. /\ load' = load /\ behind' = behind /\ words' = words /\ save' = save
      /\ at' = at /\ exit' = exit /\ run' = run
      /\ words_file' = words_file /\ words_by' = words_by /\ time_file' = time_file
  OBVIOUS
<1>2. /\ Core!Listings' = Core!Listings /\ (Loaded' <=> Loaded) /\ Lines' = Lines /\ count' = count
      /\ Closed' = Closed /\ Defined' = Defined /\ (LettersOnly' <=> LettersOnly)
  BY <1>1, SameListing, SameLines, SameRun
<1>3. (Saved' <=> Saved) /\ (Succeeded' <=> Succeeded) /\ (OverrunAlone' <=> OverrunAlone)
      /\ TimeFile(TRUE, save.hash)' = TimeFile(TRUE, save.hash)
      /\ (TimeVouchesForWords' <=> TimeVouchesForWords)
  BY <1>1, <1>2 DEF Saved, Succeeded, OverrunAlone, curr_len, TimeFile, TimeVouchesForWords
<1>4. TypeOK'
  <2>1. SaveTypeOK'
    BY <1>1, <1>2, TypeFacts DEF SaveTypeOK
  <2>2. /\ load'.doc_len < 2 ^ LenBits /\ behind' \in Seq(1 .. 255)
        /\ words' \in Seq(Word) /\ LettersOnly' /\ exit' \in 0 .. 255 /\ run' \in 0 .. MaxRuns
        /\ words_by' \in 0 .. run' /\ time_file' \in TimeFiles(run')
    BY <1>1, <1>2, TypeFacts
  <2>3. at' \in {"idle", "LoadFile", "WordList", "SaveWords", "SaveTime", "WritingTime", "Freeing",
                  "ended"}
    BY <1>1 DEF IInv, TypeOK
  <2> QED
    BY <2>1, <2>2, <2>3 DEF TypeOK, Word, LettersOnly, TimeFiles
<1>5. CallsInOrder'
  BY <1>1, <1>2, <1>3, TypeFacts DEF CallsInOrder
<1>6. SaveProgress'
  BY <1>1, <1>2, <1>3, TypeFacts DEF SaveProgress
<1>7. FilesOf'
  BY <1>1, <1>2, <1>3, TypeFacts DEF FilesOf
<1> QED
  BY <1>4, <1>5, <1>6, <1>7 DEF IInv

LEMMA LoadFileReturnedKeeps == IInv /\ LoadFileReturned => IInv'
<1> SUFFICES ASSUME IInv, LoadFileReturned PROVE IInv'
  OBVIOUS
<1>1. /\ at = "LoadFile" /\ load.at = "returned" /\ MainSteps /\ time_file' = time_file
      /\ \/ load.ret # SUCCESS_CODE /\ Exit(load.ret) /\ behind' = behind
         \/ /\ load.ret = SUCCESS_CODE /\ at' = "WordList" /\ exit' = exit
            /\ behind' \in {<<>>} \cup Behind
  BY DEF LoadFileReturned, MainSteps, files
<1>2. save = NotSaved /\ words = <<>> /\ save.at = "called" /\ ~Saved
  BY <1>1, TypeFacts, NotSavedFacts DEF CallsInOrder, Saved
<1>3. CASE load.ret # SUCCESS_CODE
  <2>1. load.ret \in {101, 102, 103, 104}
    BY <1>3, TypeFacts DEF LoadInv, LoadTypeOK, Frame, SUCCESS_CODE, ERR_FILENAME_LEN_EXCEED,
                           ERR_OPEN_FILE, ERR_MALLOC, ERR_READ_FILE
  <2>2. Exit(load.ret) /\ behind' = behind
    BY <1>1, <1>3
  <2>3. load.ret % 256 = load.ret /\ load.ret \in 1 .. 255
    BY <2>1
  <2>4. at' = "ended" /\ exit' \in 1 .. 255
    BY <2>2, <2>3 DEF Exit
  <2> QED
    BY <1>1, <1>2, <2>2, <2>4, FailureKeeps
<1>4. CASE load.ret = SUCCESS_CODE
  <2>1. at' = "WordList" /\ exit' = exit /\ Loaded /\ load' = load /\ save' = save /\ words' = words
    BY <1>1, <1>4 DEF Loaded, MainSteps
  <2>2. behind' \in Seq(1 .. 255)
    <3>1. <<>> \in Seq(1 .. 255) /\ Behind \subseteq Seq(1 .. 255)
      BY DriverAssumption, EmptySeq
    <3> QED
      BY <1>1, <1>4, <3>1
  <2>3. ~Succeeded' /\ Loaded' /\ ~Saved'
    BY <1>2, <2>1 DEF Succeeded, Loaded, Saved
  <2>4. CallsInOrder'
    BY <1>2, <2>1, <2>3 DEF CallsInOrder
  <2>5. FilesOf'
    <3>1. TimeVouchesForWords'
      BY <1>1, TypeFacts DEF FilesOf, TimeVouchesForWords, MainSteps
    <3> QED
      BY <1>1, <1>2, <2>1, <2>3, <3>1, TypeFacts DEF FilesOf, MainSteps
  <2> QED
    BY <1>1, <2>1, <2>4, <2>5, <2>2, TypeFacts, MainKeeps
<1> QED
  BY <1>3, <1>4

LEMMA WordListKeeps == IInv /\ WordList => IInv'
<1> SUFFICES ASSUME IInv, WordList PROVE IInv'
  OBVIOUS
<1>1. /\ at = "WordList" /\ disk' = disk /\ load' = load /\ behind' = behind
      /\ save' = save /\ run' = run /\ words_file' = words_file /\ words_by' = words_by
      /\ time_file' = time_file
  BY DEF WordList, files
<1>2. save = NotSaved /\ save.at = "called" /\ ~Saved /\ Loaded
  BY <1>1, TypeFacts, NotSavedFacts DEF CallsInOrder, Saved
<1>3. CASE words' \in Core!Listings /\ at' = "SaveWords" /\ exit' = exit
  <2>1. words' \in Seq(Word) /\ LettersOnly'
    <3> DEFINE s == words'
    <3>1. s \in Core!Listings
      BY <1>3
    <3> HIDE DEF s
    <3>2. s \in Seq(Word) /\ (Closed => \A k \in 1 .. Len(s) : s[k] \in Seq(Letters))
      BY <1>2, <3>1, TypeFacts, ListingFacts
    <3>3. Closed' = Closed
      BY <1>1 DEF Closed
    <3> QED
      BY <3>2, <3>3 DEF s, LettersOnly, count
  <2>2. count' \in Nat
    BY <2>1, LenProperties DEF count
  <2>3. SaveTypeOK'
    <3>1. save' \in SaveFrame /\ save'.i = 1 /\ words_file' \in Seq(0 .. 255)
      BY <1>1, <1>2, NotSavedFacts, TypeFacts
    <3>2. 1 <= count' + 1
      <4>1. \A n \in Nat : 1 <= n + 1
        OBVIOUS
      <4> QED
        BY <2>2, <4>1, Zenon
    <3> QED
      BY <3>1, <3>2 DEF SaveTypeOK
  <2>4. save'.at = "called" /\ ~Saved' /\ ~Succeeded' /\ Loaded'
    BY <1>1, <1>2, <1>3 DEF Saved, Succeeded, Loaded
  <2>5. SaveProgress'
    <3>1. OverrunAlone'
      BY <1>1, <1>2, NotSavedFacts, EmptyTemp
    <3> QED
      BY <1>1, <1>2, <2>4, <3>1 DEF SaveProgress
  <2>6. LoadInv'
    BY <1>1, TypeFacts DEF LoadInv, LoadTypeOK, Progress, Loaded, disk
  <2>7. TypeOK'
    BY <1>1, <1>3, <2>1, <2>3, <2>6, TypeFacts DEF TypeOK, Word, LettersOnly, TimeFiles
  <2>8. words' \in Core!Listings'
    BY <1>1, <1>3, SameListing
  <2>9. CallsInOrder'
    BY <1>3, <2>4, <2>8 DEF CallsInOrder
  <2>10. FilesOf'
    <3>1. TimeVouchesForWords'
      BY <1>1, TypeFacts DEF FilesOf, TimeVouchesForWords
    <3> QED
      BY <1>1, <1>3, <2>4, <3>1, TypeFacts DEF FilesOf
  <2> QED
    BY <2>5, <2>7, <2>9, <2>10 DEF IInv
<1>4. CASE Exit(ERR_SAFE_ALLOC_MEM) /\ words' = words
  <2>1. at' = "ended" /\ exit' \in 1 .. 255
    <3>1. 301 % 256 = 45
      OBVIOUS
    <3> QED
      BY <1>4, <3>1 DEF Exit, ERR_SAFE_ALLOC_MEM
  <2>2. MainSteps
    BY <1>1, <1>4 DEF MainSteps
  <2> QED
    BY <1>1, <1>2, <2>1, <2>2, FailureKeeps
<1> QED
  BY <1>3, <1>4 DEF WordList

LEMMA SaveWordsReturnedKeeps == IInv /\ SaveWordsReturned => IInv'
<1> SUFFICES ASSUME IInv, SaveWordsReturned PROVE IInv'
  OBVIOUS
<1>1. at = "SaveWords" /\ MainSteps /\ behind' = behind /\ time_file' = time_file
  BY DEF SaveWordsReturned, MainSteps, files
<1>2. CASE save.at = "exited" /\ Exit(ERR_MALLOC)
  <2>1. at' = "ended" /\ exit' \in 1 .. 255 /\ save.at \notin {"opened", "looping"}
    BY <1>2 DEF Exit, ERR_MALLOC
  <2> QED
    BY <1>1, <2>1, FailureKeeps
<1>3. CASE save.at = "returned" /\ WordsFailed /\ Exit(save.ret)
  <2>1. save.ret = 151
    BY <1>3, SaveFacts DEF SaveFrame, WordsFailed, SUCCESS_CODE, ERR_SAVE_FILE_OPEN
  <2>2. at' = "ended" /\ exit' \in 1 .. 255 /\ save.at \notin {"opened", "looping"}
    BY <1>3, <2>1 DEF Exit
  <2> QED
    BY <1>1, <2>2, FailureKeeps
<1>4. CASE save.at = "returned" /\ ~WordsFailed /\ at' = "SaveTime" /\ exit' = exit
  <2>1. /\ Saved /\ load' = load /\ save' = save /\ words' = words /\ run' = run
        /\ words_file' = words_file /\ words_by' = words_by
    BY <1>1, <1>4 DEF Saved, WordsFailed, MainSteps
  <2>2. Saved' /\ ~Succeeded'
    BY <1>4, <2>1 DEF Saved, Succeeded
  <2>3. Loaded /\ words \in Core!Listings
    BY <1>1, TypeFacts DEF CallsInOrder
  <2>4. Loaded' /\ words' \in Core!Listings'
    BY <1>1, <2>1, <2>3, SameListing
  <2>5. CallsInOrder'
    BY <1>4, <2>1, <2>2, <2>4 DEF CallsInOrder
  <2>6. FilesOf'
    <3>1. TimeVouchesForWords'
      BY <1>1, <2>1, TypeFacts DEF FilesOf, TimeVouchesForWords
    <3>2. time_file.complete /\ time_file.of = run => FALSE
      BY <1>1, TypeFacts DEF FilesOf
    <3> QED
      BY <1>1, <1>4, <2>1, <2>2, <3>1, <3>2, TypeFacts DEF FilesOf
  <2> QED
    BY <1>1, <1>4, <2>5, <2>6, TypeFacts, MainKeeps
<1> QED
  BY <1>2, <1>3, <1>4 DEF SaveWordsReturned

LEMMA OpenTimeKeeps == IInv /\ OpenTime => IInv'
<1> SUFFICES ASSUME IInv, OpenTime PROVE IInv'
  OBVIOUS
<1>1. at = "SaveTime" /\ MainSteps /\ behind' = behind
  BY DEF OpenTime, MainSteps
<1>2. Saved /\ save.at \notin {"opened", "looping"} /\ Loaded /\ words \in Core!Listings
  BY <1>1, TypeFacts DEF CallsInOrder, Saved
<1>3. CASE Exit(ERR_SAVE_FILE_OPEN) /\ time_file' = time_file
  <2>1. at' = "ended" /\ exit' \in 1 .. 255
    BY <1>3 DEF Exit, ERR_SAVE_FILE_OPEN
  <2> QED
    BY <1>1, <1>2, <1>3, <2>1, FailureKeeps
<1>4. CASE at' = "WritingTime" /\ time_file' = TimeFile(FALSE, 0) /\ exit' = exit
  <2>1. /\ load' = load /\ save' = save /\ words' = words /\ run' = run
        /\ words_file' = words_file /\ words_by' = words_by
    BY <1>1 DEF MainSteps
  <2>2. Saved' /\ ~Succeeded' /\ Loaded' /\ words' \in Core!Listings'
    BY <1>1, <1>2, <1>4, <2>1, SameListing DEF Saved, Succeeded
  <2>3. CallsInOrder'
    BY <1>2, <1>4, <2>1, <2>2 DEF CallsInOrder
  <2>4. ~time_file'.complete
    BY <1>4 DEF TimeFile
  <2>5. time_file' \in TimeFiles(run)
    <3>1. run \in Nat /\ 0 \in 0 .. (Modulus - 1)
      BY TypeFacts, HashWidth
    <3> QED
      BY <1>4, <3>1, TimeFileType
  <2>6. FilesOf'
    <3>1. TimeVouchesForWords'
      BY <2>4 DEF TimeVouchesForWords
    <3>2. Saved' /\ words' # <<>> => words_by' = run'
      BY <1>2, <2>1, TypeFacts DEF FilesOf
    <3> QED
      BY <1>2, <1>4, <2>1, <2>2, <2>4, <3>1, <3>2 DEF FilesOf
  <2> QED
    BY <1>1, <1>4, <2>3, <2>5, <2>6, TypeFacts, MainKeeps
<1> QED
  BY <1>3, <1>4 DEF OpenTime

\* The line is written: its hash is that of the words saved, if they have letters only.
LEMMA CloseTimeKeeps == IInv /\ CloseTime => IInv'
<1> SUFFICES ASSUME IInv, CloseTime PROVE IInv'
  OBVIOUS
<1>1. /\ at = "WritingTime" /\ MainSteps /\ behind' = behind
      /\ time_file' = TimeFile(TRUE, save.hash)
      /\ at' = "Freeing" /\ exit' = exit
  BY DEF CloseTime, MainSteps
<1>2. /\ Saved /\ save.at \notin {"opened", "looping"} /\ Loaded /\ words \in Core!Listings
  BY <1>1, TypeFacts DEF CallsInOrder, Saved
<1>3. /\ load' = load /\ save' = save /\ words' = words /\ run' = run
      /\ words_file' = words_file /\ words_by' = words_by
  BY <1>1 DEF MainSteps
<1>4. Saved' /\ Loaded' /\ words' \in Core!Listings' /\ ~Succeeded'
  BY <1>1, <1>2, <1>3, SameListing DEF Saved, Succeeded
<1>5. CallsInOrder'
  BY <1>1, <1>2, <1>3, <1>4 DEF CallsInOrder
<1>6. time_file' \in TimeFiles(run)
  <2>1. run \in Nat /\ save.hash \in 0 .. (Modulus - 1)
    BY TypeFacts, SaveFacts
  <2> QED
    BY <1>1, <2>1, TimeFileType
<1>7. FilesOf'
  <2>1. TimeVouchesForWords'
    <3>1. Closed /\ save.hash # 0 => save.hash = HashOf(words_file)
      BY <1>2, TypeFacts DEF SaveProgress
    <3>2. time_file'.hash = save.hash /\ (time_file'.defined => Closed)
      BY <1>1 DEF TimeFile, Defined
    <3> QED
      BY <1>3, <3>1, <3>2 DEF TimeVouchesForWords
  <2>2. words' # <<>> => words_by' = run'
    BY <1>2, <1>3, TypeFacts DEF FilesOf
  <2>3. time_file' = TimeFile(TRUE, save.hash)'
    BY <1>1, <1>3, SameRun DEF TimeFile
  <2> QED
    BY <1>1, <1>2, <1>3, <1>4, <2>1, <2>2, <2>3 DEF FilesOf
<1> QED
  BY <1>1, <1>5, <1>6, <1>7, TypeFacts, MainKeeps

LEMMA MainReturnsKeeps == IInv /\ MainReturns => IInv'
<1> SUFFICES ASSUME IInv, MainReturns PROVE IInv'
  OBVIOUS
<1>1. /\ at = "Freeing" /\ MainSteps /\ behind' = behind /\ time_file' = time_file
      /\ at' = "ended" /\ exit' = 0 % 256
  BY DEF MainReturns, MainSteps, Exit, SUCCESS_CODE, files
<1>2. /\ Saved /\ save.at \notin {"opened", "looping"} /\ Loaded /\ words \in Core!Listings
      /\ exit' \in 0 .. 255
  BY <1>1, TypeFacts DEF CallsInOrder, Saved
<1>3. /\ load' = load /\ save' = save /\ words' = words /\ run' = run
      /\ words_file' = words_file /\ words_by' = words_by
  BY <1>1 DEF MainSteps
<1>4. Saved' /\ Loaded' /\ words' \in Core!Listings'
  BY <1>1, <1>2, <1>3, SameListing DEF Saved
<1>5. CallsInOrder'
  BY <1>1, <1>2, <1>3, <1>4 DEF CallsInOrder
<1>6. FilesOf'
  <2>1. TimeVouchesForWords'
    BY <1>1, <1>3, TypeFacts DEF FilesOf, TimeVouchesForWords
  <2>2. words' # <<>> => words_by' = run'
    BY <1>2, <1>3, TypeFacts DEF FilesOf
  <2>3. time_file' = TimeFile(TRUE, save.hash)'
    <3>1. time_file = TimeFile(TRUE, save.hash)
      BY <1>1, TypeFacts DEF FilesOf
    <3> QED
      BY <1>1, <1>3, <3>1, SameRun DEF TimeFile
  <2> QED
    BY <1>1, <1>2, <1>3, <2>1, <2>2, <2>3 DEF FilesOf
<1>7. time_file' \in TimeFiles(run) /\ behind' \in Seq(1 .. 255)
  BY <1>1, TypeFacts
<1> QED
  BY <1>1, <1>2, <1>5, <1>6, <1>7, MainKeeps

\* What is strayed over was one word alone, so that the run is not Defined.
LEMMA StrayIsUndefined ==
  ASSUME IInv, save.at = "looping", curr_len > max_len + Slack
  PROVE  ~Defined
<1>1. /\ save.temp \in Seq(0 .. 255) /\ words_file \in Seq(0 .. 255)
      /\ save.i \in Nat /\ save.i >= 1 /\ save.i <= count + 1
      /\ count \in Nat /\ words \in Seq(Word)
      /\ max_len \in Nat /\ Slack \in Nat \ {0}
  BY SaveFacts, SaveWordsAssumption
<1>2. curr_len \in Nat /\ curr_len = Len(save.temp)
  BY <1>1, LenProperties DEF curr_len
<1>3. words_file \o save.temp = Lines[save.i - 1] /\ OverrunAlone
  BY SaveFacts DEF SaveProgress
<1>4. save.i # 1
  <2>1. SUFFICES ASSUME save.i = 1 PROVE FALSE
    OBVIOUS
  <2>2. words_file \o save.temp = <<>>
    BY <1>1, <1>3, <2>1, LinesSteps
  <2>3. Len(words_file \o save.temp) = Len(words_file) + Len(save.temp) /\ Len(words_file) \in Nat
    BY <1>1, LineBehind, LenProperties, EmptySeq, ConcatProperties
  <2>4. Len(words_file \o save.temp) = 0
    BY <2>2, EmptySeq
  <2> QED
    BY <1>1, <1>2, <2>3, <2>4
<1> DEFINE k == save.i - 1
<1>5. k \in 1 .. count
  BY <1>1, <1>4
<1>6. save.temp = Line(words[k])
  BY <1>1, <1>2, <1>3 DEF OverrunAlone
<1> HIDE DEF k
<1>7. words[k] \in Word
  BY <1>1, <1>5, LinesSteps
<1>8. Len(Line(words[k])) = Len(words[k]) + 1 /\ Len(words[k]) \in Nat
  BY <1>7, LineType
<1>9. ~(Len(words[k]) < max_len + Slack)
  BY <1>1, <1>2, <1>6, <1>8
<1> QED
  BY <1>5, <1>9 DEF Defined

LEMMA StrayKeeps == IInv /\ Stray => IInv'
<1> SUFFICES ASSUME IInv, Stray PROVE IInv'
  OBVIOUS
<1>1. /\ at = "SaveWords" /\ save.at = "looping" /\ at' = "ended"
      /\ disk' = disk /\ load' = load /\ behind' = behind /\ words' = words
      /\ run' = run /\ words_by' = words_by
      /\ save' = [save EXCEPT !.at = "exited"]
  BY DEF Stray, Exit
<1>2. exit' \in 0 .. 255
  <2>1. PICK status \in {0, 151, 134, 139} : exit' = status % 256
    BY DEF Stray, Exit, SUCCESS_CODE, ERR_SAVE_FILE_OPEN, SIGABRT, SIGSEGV
  <2> QED
    BY <2>1
<1>3. ~Defined
  BY <1>1, StrayIsUndefined DEF Stray
<1>4. \/ time_file' = time_file
      \/ \E complete \in BOOLEAN : time_file' = TimeFile(complete, save.hash)
  BY Zenon DEF Stray
<1>5. time_file' \in TimeFiles(run) /\ (time_file' = time_file \/ ~time_file'.defined)
  <2>1. run \in Nat /\ save.hash \in 0 .. (Modulus - 1) /\ time_file \in TimeFiles(run)
    BY TypeFacts, SaveFacts
  <2>2. ASSUME NEW complete \in BOOLEAN
        PROVE  TimeFile(complete, save.hash) \in TimeFiles(run) /\ ~TimeFile(complete, save.hash).defined
    <3>1. TimeFile(complete, save.hash) \in TimeFiles(run)
      BY <2>1, TimeFileType
    <3> QED
      BY <1>3, <3>1 DEF TimeFile
  <2> QED
    BY <1>4, <2>1, <2>2
<1>6. words_file' \in Seq(0 .. 255)
  <2>1. PICK junk \in Behind : words_file' = words_file \o junk
    BY Zenon DEF Stray
  <2>2. junk \in Seq(1 .. 255) /\ words_file \in Seq(0 .. 255)
    BY DriverAssumption, TypeFacts
  <2>3. junk \in Seq(0 .. 255)
    <3> DEFINE some == 1 .. 255
               byte == 0 .. 255
    <3>1. some \subseteq byte /\ junk \in Seq(some)
      BY <2>2
    <3> HIDE DEF some, byte
    <3>2. junk \in Seq(byte)
      BY <3>1, SeqMonotonic
    <3> QED
      BY <3>2 DEF byte
  <2> QED
    BY <2>1, <2>2, <2>3, LineBehind, ConcatProperties
<1>7. /\ save' \in SaveFrame /\ save'.at = "exited" /\ save'.temp = save.temp /\ save'.i = save.i
  BY <1>1, SaveFacts DEF SaveFrame
<1>8. SaveTypeOK'
  BY <1>1, <1>6, <1>7, SaveFacts, SameLines DEF SaveTypeOK
<1>9. LoadInv'
  BY <1>1, TypeFacts DEF LoadInv, LoadTypeOK, Progress, Loaded, disk
<1>10. TypeOK'
  <2>1. LettersOnly'
    BY <1>1, SameRun, TypeFacts
  <2> QED
    BY <1>1, <1>2, <1>5, <1>8, <1>9, <2>1, TypeFacts DEF TypeOK, Word, LettersOnly, TimeFiles
<1>11. ~Defined' /\ ~Saved'
  BY <1>1, <1>3, <1>7, SameRun DEF Saved
<1>12. CallsInOrder'
  BY <1>1, <1>7, <1>11 DEF CallsInOrder
<1>13. SaveProgress'
  <2>1. OverrunAlone'
    BY <1>1, <1>7, SaveFacts DEF SaveProgress, OverrunAlone, curr_len
  <2> QED
    BY <1>7, <1>11, <2>1 DEF SaveProgress
<1>14. FilesOf'
  <2>1. TimeVouchesForWords'
    <3>1. words_by = run /\ (time_file.complete => time_file.of # run)
      BY <1>1, TypeFacts DEF FilesOf
    <3>2. time_file.of \in 0 .. run /\ run \in Nat
      BY TypeFacts
    <3>3. CASE time_file' = time_file
      BY <1>1, <3>1, <3>2, <3>3 DEF TimeVouchesForWords
    <3>4. CASE ~time_file'.defined
      BY <3>4 DEF TimeVouchesForWords
    <3> QED
      BY <1>5, <3>3, <3>4
  <2> QED
    BY <1>1, <1>7, <1>11, <2>1 DEF FilesOf
<1> QED
  BY <1>10, <1>12, <1>13, <1>14 DEF IInv

LEMMA InputRewrittenKeeps == IInv /\ InputRewritten => IInv'
<1> SUFFICES ASSUME IInv, InputRewritten PROVE IInv'
  OBVIOUS
<1>1. /\ Rewrite /\ load' = load /\ behind' = behind /\ words' = words /\ save' = save
      /\ at' = at /\ exit' = exit /\ run' = run
      /\ words_file' = words_file /\ words_by' = words_by /\ time_file' = time_file
  BY DEF InputRewritten, files, Rewrite
<1>2. LoadInv'
  BY <1>1, TypeFacts, LoadInvRewrite
<1> QED
  BY <1>1, <1>2, StaysTheSame

LEMMA IInvInit == Init => IInv
<1> SUFFICES ASSUME Init PROVE IInv
  OBVIOUS
<1>1. /\ LoadInit /\ load = NotLoaded /\ behind = <<>> /\ words = <<>> /\ save = NotSaved
      /\ at = "idle" /\ exit = 0 /\ run = 0 /\ words_file = <<>> /\ words_by = 0
      /\ time_file = TimeFile(FALSE, 0)
  BY DEF Init, LoadInit
<1>2. count = 0
  BY <1>1 DEF count
<1>3. SaveTypeOK
  BY <1>1, <1>2, NotSavedFacts, EmptySeq DEF SaveTypeOK
<1>4. LoadInv /\ load.doc_len < 2 ^ LenBits
  BY <1>1, LoadInvInit, NotLoadedFacts, WidthAssumption
<1>5. TypeOK
  <2>1. words \in Seq(Word) /\ behind \in Seq(1 .. 255) /\ LettersOnly
    BY <1>1, <1>2, EmptySeq DEF LettersOnly
  <2>2. run \in 0 .. MaxRuns /\ words_by \in 0 .. run /\ exit \in 0 .. 255
    BY <1>1, DriverAssumption
  <2>3. time_file \in TimeFiles(run)
    <3>1. run \in Nat /\ 0 \in 0 .. (Modulus - 1)
      BY <1>1, HashWidth
    <3> QED
      BY <1>1, <3>1, TimeFileType
  <2> QED
    BY <1>1, <1>3, <1>4, <2>1, <2>2, <2>3 DEF TypeOK, Word, LettersOnly, TimeFiles
<1>6. save.at = "called" /\ ~Saved /\ ~Succeeded
  BY <1>1, NotSavedFacts DEF Saved, Succeeded
<1>7. CallsInOrder
  BY <1>1, <1>6 DEF CallsInOrder
<1>8. SaveProgress
  <2>1. OverrunAlone
    <3>1. curr_len = 0 /\ max_len \in Nat /\ ~(0 > max_len + 1)
      BY <1>1, NotSavedFacts, SaveWordsAssumption, EmptySeq DEF curr_len
    <3> QED
      BY <3>1 DEF OverrunAlone
  <2> QED
    BY <1>1, <1>6, <2>1 DEF SaveProgress
<1>9. FilesOf
  BY <1>1, <1>6 DEF FilesOf, TimeVouchesForWords, TimeFile
<1> QED
  BY <1>5, <1>7, <1>8, <1>9 DEF IInv

LEMMA IInvNext == IInv /\ [Next]_vars => IInv'
<1>1. ASSUME IInv, UNCHANGED vars PROVE IInv'
  <2>1. /\ UNCHANGED <<load, behind, words, save, at, exit, run, words_file, words_by, time_file>>
        /\ content' = content /\ rewrites' = rewrites
    BY <1>1 DEF vars, files, disk
  <2>2. LoadInv'
    BY <1>1, <2>1, TypeFacts DEF LoadInv, LoadTypeOK, Progress, Loaded
  <2> QED
    BY <1>1, <2>1, <2>2, StaysTheSame
<1>2. IInv /\ Ended => IInv'
  BY <1>1 DEF Ended
<1> QED
  BY <1>1, <1>2, LaunchKeeps, InLoadFileKeeps, LoadFileReturnedKeeps, WordListKeeps, InSaveWordsKeeps,
     SaveWordsReturnedKeeps, StrayKeeps, OpenTimeKeeps, CloseTimeKeeps, MainReturnsKeeps, KilledKeeps,
     InputRewrittenKeeps DEF Next

(***************************************************************************)
(* What the program promises of its files, run after run.                  *)
(***************************************************************************)
\* Every variable of main and its callees stays in its range, main is behind a call only
\* when that succeeded, and the result files belong to the runs that opened them.
THEOREM DriverInvariance == Spec => []IInv
BY IInvInit, IInvNext, PTL DEF Spec

\* LoadFile leaves no file open and no buffer without an owner in any run; with a signed
\* char, main frees the pointer malloc returned.
THEOREM NoRunLeaks ==
  ASSUME CharSigned PROVE Spec => []ResourcesOwned
<1>1. IInv => ResourcesOwned
  BY OwnedIfInv, TypeFacts
<1> QED
  BY <1>1, DriverInvariance, PTL

\* In no run does the core see a byte that was not read.
THEOREM EveryRunRead == Spec => []DocWasRead
<1>1. IInv => DocWasRead
  BY ReadIfInv, TypeFacts
<1> QED
  BY <1>1, DriverInvariance, PTL

\* Wherever the flushes of SaveWords fall, the file followed by the buffer is the lines
\* of the words so far.
THEOREM NoWordLost == Spec => []NothingLost
<1>1. IInv => NothingLost
  BY TypeFacts DEF SaveProgress, NothingLost
<1> QED
  BY <1>1, DriverInvariance, PTL

\* What SaveWords writes behind the end of its buffer, a line feed apart, is always one
\* word that is longer than the buffer: words that fit it never add up to an overrun.
THEOREM LongWordsOverrunAlone == Spec => []OverrunAlone
<1>1. IInv => OverrunAlone
  BY TypeFacts DEF SaveProgress
<1> QED
  BY <1>1, DriverInvariance, PTL

\* A run that ends with the status 0 has left the unique words of the document it
\* loaded, in order, and the hash of this run, whatever happened in earlier runs, unless
\* the document ends in a letter or has a word that overran the buffer.
THEOREM SuccessIsTrue == Spec => []SuccessMeansSaved
<1>1. ASSUME IInv, Succeeded, Defined
      PROVE  /\ time_file = TimeFile(TRUE, save.hash)
             /\ words \in Core!Listings /\ Found = DocWords
             /\ words # <<>> => words_file = Lines[count]
  <2>1. Loaded /\ words \in Core!Listings /\ Saved
    BY <1>1, TypeFacts DEF CallsInOrder
  <2>2. time_file = TimeFile(TRUE, save.hash)
    BY <1>1, TypeFacts DEF FilesOf
  <2>3. Found = DocWords
    BY <1>1, <2>1, TypeFacts, FoundFacts DEF Defined
  <2> QED
    BY <1>1, <2>1, <2>2, <2>3, TypeFacts DEF SaveProgress
<1>2. IInv => SuccessMeansSaved
  BY <1>1 DEF SuccessMeansSaved
<1> QED
  BY <1>2, DriverInvariance, PTL

\* The hash in a complete .time file can be computed from the .words file, unless a later
\* run opened that, whichever runs failed or were killed.  (A run on a document that ends
\* in a letter, or with a word that overran the buffer, gives no such warrant.)
THEOREM HashIsTrue == Spec => []TimeVouchesForWords
<1>1. IInv => TimeVouchesForWords
  BY TypeFacts DEF FilesOf
<1> QED
  BY <1>1, DriverInvariance, PTL
==============================================================================
